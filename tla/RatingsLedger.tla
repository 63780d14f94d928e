---------------------------- MODULE RatingsLedger ----------------------------
(***************************************************************************)
(* Ratings that profiles give each other (one matter, one category: REP),  *)
(* and what is derived from them:                                          *)
(*   - ratings.rating, per rater and target, paid from the rater's credit; *)
(*   - identities.rep of the target, kept by adding new - old;             *)
(*   - the outbox: an event [old, new] per changed rating, which a Lambda  *)
(*     adds up to a score and a number of raters per target;               *)
(*   - what a proxy of the rater has spent, per target and in all.         *)
(*                                                                         *)
(* Writers: a single edit, the two bulk requests, the revocation of rates  *)
(* whose rater has lost credit (over-rates Lambda), and the daily          *)
(* recalculation, which resets rep to the sum of the ratings.              *)
(*                                                                         *)
(* Transactions run at MySQL's REPEATABLE READ: plain reads see the        *)
(* database as of the first read, locking reads and updates the present.   *)
(* A transaction's writes become visible, all at once, at its commit.      *)
(***************************************************************************)
EXTENDS Sums, Functions, Bags

CONSTANTS
  Raters,        \* profiles that rate
  Targets,       \* profiles that are rated, none of them a rater
  Sessions,      \* API requests; each is sent at most once
  RaterOf,       \* RaterOf[s]: the profile on whose behalf s rates
  Requests,      \* what clients ask for, see RequestType
  Initial,       \* Initial[r][t]: ratings at first, all rows exist
  InitialCredit, \* floor(tdh + xtdh) of every rater at first
  Credits,       \* Credits[r]: values a recalculation may give r
  Allowance,     \* credit_amount of a rater's proxy
  BatchSize,     \* NO_OF_EVENTS_TO_LOCK_IN_ONE_LOOP
  Connections,   \* database connections of the event Lambda's invocations
  MaxFaults,     \* bound: failures in a behaviour
  None

RequestType == [kind : {"edit", "bulkRate", "bulkRep"}, on : SUBSET Targets \ {{}},
                amount : Int, proxy : BOOLEAN]

ASSUME ConstantsAssumption ==
  /\ IsFiniteSet(Raters) /\ IsFiniteSet(Targets) /\ IsFiniteSet(Connections)
  /\ RaterOf \in [Sessions -> Raters]
  /\ Requests \subseteq RequestType
  /\ \A q \in Requests : q.kind = "edit" => \E t \in Targets : q.on = {t}
  /\ Initial \in [Raters -> [Targets -> Int]]
  /\ InitialCredit \in Nat /\ Credits \in [Raters -> SUBSET Nat]
  /\ Allowance \in Nat /\ BatchSize \in Nat \ {0} /\ MaxFaults \in Nat
  /\ None \notin Raters \cup Connections \cup Sessions

VARIABLES
  rating,      \* rating[r][t]: ratings.rating
  rep,         \* rep[t]: identities.rep
  credit,      \* credit[r]: floor(tdh + xtdh) of the identity
  events,      \* bag of the events [target, old, new] that are NEW
  score,       \* score[t] of the aggregation
  raters,      \* rater_count[t] of the aggregation
  spent,       \* spent[r]: credit_spent of the proxy's action
  outstanding, \* outstanding[r][t]: credit_spent_outstanding
  pc,          \* pc[s]: where request s is
  req,         \* req[s]: the request
  seen,        \* seen[s][t]: the rater's old ratings as s takes them to be
  todo,        \* todo[s]: targets a bulk rating still has to rate
  rated,       \* rated[s]: targets whose new rating s is going to commit
  owed,        \* owed[s][t]: its change of outstanding
  paid,        \* paid[s]: its change of spent
  due,         \* an over-rates message is waiting in the queue
  jpc,         \* where the over-rates Lambda is
  tally,       \* tally[r]: spending it has found, 0 when within the credit
  jcredit,     \* jcredit[r]: the credit it has found
  jrater,      \* the rater it works on
  jseen,       \* that rater's ratings as its transaction sees them
  batch,       \* batch[c]: bag of the events connection c has locked
  runner,      \* the connection of the live event Lambda
  faults,      \* failures so far
  stale,       \* sessions that have not seen their rater's latest row or
               \* credit (history variable)
  jmoved,      \* raters that have changed since the tally (history variable)
  unseen,      \* targets with a rating written over one that was not seen,
               \* since the last recalculation (history variable)
  corrupt,     \* such targets, ever (history variable)
  excused,     \* raters that may be above their credit (history variable)
  swallowed    \* raters whose proxy a bulk rating has charged for a rating
               \* it then gave up (history variable)

ledger  == <<rating, rep, credit>>
outbox  == <<events, score, raters>>
books   == <<spent, outstanding>>
reqVars == <<pc, req, seen, todo, rated, owed, paid>>
jobVars == <<jpc, tally, jcredit, jrater, jseen>>
txVars  == <<batch, runner>>
ghosts  == <<stale, jmoved, unseen, corrupt, excused, swallowed>>
vars == <<ledger, outbox, books, reqVars, due, jobVars, txVars, faults, ghosts>>

Abs(n) == IF n < 0 THEN -n ELSE n
Least(m, n) == IF m < n THEN m ELSE n

\* sum(abs(rating)) of a rater's row.
Spending(row) == Total([t \in Targets |-> Abs(row[t])], Targets)

\* sum(rating) of the ratings a target has received.
Received(t) == Total([r \in Raters |-> rating[r][t]], Raters)

Zeros == [t \in Targets |-> 0]
NoRequest == [kind |-> "none", on |-> {}, amount |-> 0, proxy |-> FALSE]

Open(s) == pc[s] \in {"rating", "ready"}

\* Request s holds the row of its rater and t, locked by getRating's upsert.
HoldsRow(s, t) == Open(s) /\ req[s].kind # "bulkRep" /\ t \in req[s].on \ todo[s]

\* Mutant: getRating's upsert locks nothing.
RowNotLocked(r, t, s) == TRUE

RowFree(r, t, s) == \A q \in Sessions \ {s} : RaterOf[q] = r => ~HoldsRow(q, t)

\* Request s holds the row of its proxy's action.
HoldsAction(s) == Open(s) /\ paid[s] # 0

ActionFree(s) ==
  \A q \in Sessions \ {s} : RaterOf[q] = RaterOf[s] => ~HoldsAction(q)

\* What request s rates t with.
NewRating(s, t) ==
  IF req[s].kind = "bulkRate" THEN seen[s][t] + req[s].amount ELSE req[s].amount

\* Sessions other than s that are under way for rater r.
Others(r, s) == {q \in Sessions \ {s} : RaterOf[q] = r /\ Open(q)}

EventType == [target : Targets, old : Int, new : Int]

Copies(e, B) == IF BagIn(e, B) THEN B[e] ELSE 0

EventsOf(B, t) == {e \in BagToSet(B) : e.target = t}

Counts(n) == IF n # 0 THEN 1 ELSE 0

\* aggregateScoresAndCountsByTarget: what a bag of events adds to the score
\* and to the number of raters of target t.
ScoreOf(B, t) ==
  Total([e \in EventsOf(B, t) |-> Copies(e, B) * (e.new - e.old)], EventsOf(B, t))

RatersOf(B, t) ==
  Total([e \in EventsOf(B, t) |-> Copies(e, B) * (Counts(e.new) - Counts(e.old))],
        EventsOf(B, t))

\* Copies of an event that somebody has locked.
Locked(e) == Total([c \in Connections |-> Copies(e, batch[c])], Connections)

\* Mutant: lockNewEvents without skip locked.
LockableAll == events

\* The events that nobody has locked.
Lockable ==
  LET free == [e \in BagToSet(events) |-> Copies(e, events) - Locked(e)]
  IN  [e \in {x \in BagToSet(events) : free[x] > 0} |-> free[e]]

\* Bags of at most BatchSize copies of lockable events each.
Batches ==
  {B \in UNION {[D -> 1 .. BatchSize] : D \in SUBSET BagToSet(Lockable)} : B \sqsubseteq Lockable}

LedgerTypeOK ==
  /\ rating \in [Raters -> [Targets -> Int]]
  /\ rep \in [Targets -> Int]
  /\ credit \in [Raters -> Nat]
  /\ score \in [Targets -> Int] /\ raters \in [Targets -> Int]
  /\ spent \in [Raters -> Int]
  /\ outstanding \in [Raters -> [Targets -> Int]]

RequestsTypeOK ==
  /\ pc \in [Sessions -> {"idle", "rating", "ready", "done", "refused", "mismatch"}]
  /\ req \in [Sessions -> Requests \cup {NoRequest}]
  /\ seen \in [Sessions -> [Targets -> Int]]
  /\ todo \in [Sessions -> SUBSET Targets] /\ rated \in [Sessions -> SUBSET Targets]
  /\ owed \in [Sessions -> [Targets -> Int]] /\ paid \in [Sessions -> Int]

JobTypeOK ==
  /\ due \in BOOLEAN
  /\ jpc \in {"idle", "tallied", "read"}
  /\ tally \in [Raters -> Nat] /\ jcredit \in [Raters -> Nat]
  /\ jrater \in Raters \cup {None} /\ jseen \in [Targets -> Int]
  /\ jpc = "read" => jrater \in Raters

GhostsTypeOK ==
  /\ faults \in 0 .. MaxFaults
  /\ stale \subseteq Sessions /\ jmoved \subseteq Raters
  /\ unseen \subseteq corrupt /\ corrupt \subseteq Targets
  /\ excused \subseteq Raters /\ swallowed \subseteq Raters

\* No event is locked by two connections, or locked and no longer there.
EventsTypeOK ==
  /\ IsABag(events) /\ BagToSet(events) \subseteq EventType
  /\ IsFiniteSet(BagToSet(events))
  /\ DOMAIN batch = Connections
  /\ \A c \in Connections : IsABag(batch[c]) /\ BagToSet(batch[c]) \subseteq BagToSet(events)
  /\ \A e \in BagToSet(events) : Locked(e) <= Copies(e, events)
  /\ runner \in Connections \cup {None}

TypeOK == LedgerTypeOK /\ RequestsTypeOK /\ JobTypeOK /\ GhostsTypeOK /\ EventsTypeOK

Init ==
  /\ rating = Initial
  /\ rep = [t \in Targets |-> Total([r \in Raters |-> Initial[r][t]], Raters)]
  /\ credit = [r \in Raters |-> InitialCredit]
  /\ events = EmptyBag
  /\ score = rep
  /\ raters = [t \in Targets |-> Cardinality({r \in Raters : Initial[r][t] # 0})]
  /\ spent = [r \in Raters |-> 0]
  /\ outstanding = [r \in Raters |-> Zeros]
  /\ pc = [s \in Sessions |-> "idle"]
  /\ req = [s \in Sessions |-> NoRequest]
  /\ seen = [s \in Sessions |-> Zeros]
  /\ todo = [s \in Sessions |-> {}] /\ rated = [s \in Sessions |-> {}]
  /\ owed = [s \in Sessions |-> Zeros] /\ paid = [s \in Sessions |-> 0]
  /\ due = FALSE
  /\ jpc = "idle" /\ jrater = None /\ jseen = Zeros
  /\ tally = [r \in Raters |-> 0] /\ jcredit = [r \in Raters |-> 0]
  /\ batch = [c \in Connections |-> EmptyBag]
  /\ runner = None /\ faults = 0
  /\ stale = {} /\ jmoved = {} /\ unseen = {} /\ corrupt = {}
  /\ excused = {r \in Raters : Spending(Initial[r]) > InitialCredit}
  /\ swallowed = {}

-----------------------------------------------------------------------------
(* What a committing transaction writes for rater r: new[t] over old[t] on *)
(* the targets in T, the changes of rep, and an event for each.  B are the *)
(* targets on which the writer is known to write over ratings it has not   *)
(* seen.                                                                   *)
Write(r, T, old, new, B) ==
  /\ rating' = [rating EXCEPT ![r] = [t \in Targets |-> IF t \in T THEN new[t] ELSE @[t]]]
  /\ rep' = [t \in Targets |-> rep[t] + IF t \in T THEN new[t] - old[t] ELSE 0]
  /\ events' = events (+) SetToBag({[target |-> t, old |-> old[t], new |-> new[t]] : t \in T})
  /\ unseen' = unseen \cup B
  /\ corrupt' = corrupt \cup B
  /\ UNCHANGED credit

Blind(r, T, old) == {t \in T : old[t] # rating[r][t]}

\* The request ends, its transaction with it: rows are free, nothing pending.
EndRequest(s, outcome) ==
  /\ pc' = [pc EXCEPT ![s] = outcome]
  /\ req' = [req EXCEPT ![s] = NoRequest]
  /\ seen' = [seen EXCEPT ![s] = Zeros]
  /\ todo' = [todo EXCEPT ![s] = {}]
  /\ rated' = [rated EXCEPT ![s] = {}]
  /\ owed' = [owed EXCEPT ![s] = Zeros]
  /\ paid' = [paid EXCEPT ![s] = 0]

\* A transaction that fails leaves nothing behind.
RollBack(s, outcome) ==
  /\ EndRequest(s, outcome)
  /\ stale' = stale \ {s}
  /\ UNCHANGED <<ledger, outbox, books, jmoved, unseen, corrupt, excused, swallowed>>

Unwritten == UNCHANGED <<ledger, outbox, books, jmoved, unseen, corrupt, excused, swallowed>>
ElsewhereUnchanged == UNCHANGED <<due, jobVars, txVars, faults>>

\* The rater's ratings as the open bulk rating s sees them, its own writes included.
Row(s) == [t \in Targets |-> IF t \in rated[s] THEN NewRating(s, t) ELSE seen[s][t]]

Affordable(row, t, n, c) == Spending(row) + Abs(n) - Abs(row[t]) <= c

\* applyCreditSpentDelta: what a change of d takes from, or gives back to,
\* the balance; no more is given back than is outstanding.
Applied(r, t, d) == IF d >= 0 THEN d ELSE -Least(-d, outstanding[r][t])

Charge(q, r, t, old, n) == IF q.proxy THEN Applied(r, t, Abs(n) - Abs(old)) ELSE 0

\* Mutant: credit_spent is increased without looking at the allowance.
BookedAnyway(s, a) == a > 0 \/ spent[RaterOf[s]] + paid[s] + a >= 0

\* applyCreditSpentDeltaForAction finds the action's row fit for the change a.
Booked(s, a) ==
  LET before == spent[RaterOf[s]] + paid[s]
  IN  IF a > 0 THEN before + a <= Allowance ELSE before + a >= 0

\* A refund that the action's row does not cover is reported as
\* PROXY_CREDIT_RECONCILIATION_MISMATCH, a charge as too little credit.
Unbooked(a) == IF a > 0 THEN "refused" ELSE "mismatch"

(* A single edit: the row is locked, then read together with the sum of    *)
(* the rater's ratings, checked, and charged to the proxy.                 *)
Edit(s) ==
  \E q \in Requests, t \in Targets :
    LET r == RaterOf[s]
        a == Charge(q, r, t, rating[r][t], q.amount)
        affordable == Affordable(rating[r], t, q.amount, credit[r])
    IN
    /\ pc[s] = "idle" /\ q.kind = "edit" /\ q.on = {t}
    /\ RowFree(r, t, s) /\ (q.proxy => ActionFree(s))
    /\ q.amount # rating[r][t]
    /\ \/ /\ ~affordable
          /\ RollBack(s, "refused")
       \/ /\ affordable /\ ~Booked(s, a)
          /\ RollBack(s, Unbooked(a))
       \/ /\ affordable /\ Booked(s, a)
          /\ pc' = [pc EXCEPT ![s] = "ready"]
          /\ req' = [req EXCEPT ![s] = q]
          /\ seen' = [seen EXCEPT ![s] = rating[r]]
          /\ rated' = [rated EXCEPT ![s] = {t}]
          /\ owed' = [owed EXCEPT ![s] = [Zeros EXCEPT ![t] = a]]
          /\ paid' = [paid EXCEPT ![s] = a]
          /\ UNCHANGED <<todo, stale>> /\ Unwritten
    /\ ElsewhereUnchanged

(* bulkRateProfiles reads all ratings first, which fixes what its          *)
(* transaction sees, and then locks and rates the targets one by one.      *)
BeginBulkRate(s) ==
  \E q \in Requests :
    /\ pc[s] = "idle" /\ q.kind = "bulkRate"
    /\ pc' = [pc EXCEPT ![s] = "rating"]
    /\ req' = [req EXCEPT ![s] = q]
    /\ seen' = [seen EXCEPT ![s] = rating[RaterOf[s]]]
    /\ todo' = [todo EXCEPT ![s] = q.on]
    /\ UNCHANGED <<rated, owed, paid, stale>>
    /\ Unwritten /\ ElsewhereUnchanged

\* One target is done with; the last one makes the request ready to commit.
Step(s, t) ==
  /\ todo' = [todo EXCEPT ![s] = @ \ {t}]
  /\ pc' = [pc EXCEPT ![s] = IF todo[s] = {t} THEN "ready" ELSE "rating"]
  /\ UNCHANGED <<req, seen>>

(* One target of a bulk rating.  Too little credit ends the request; every *)
(* other error is swallowed, and what was written before it stays in the   *)
(* transaction: the balance has been changed when the action's row turns   *)
(* out not to be fit.                                                      *)
RateNext(s) ==
  \E t \in todo[s] :
    LET r == RaterOf[s]
        n == NewRating(s, t)
        a == Charge(req[s], r, t, seen[s][t], n)
        affordable == Affordable(Row(s), t, n, credit[r])
    IN
    /\ pc[s] = "rating" /\ req[s].kind = "bulkRate"
    /\ RowFree(r, t, s) /\ (req[s].proxy => ActionFree(s))
    /\ \/ /\ ~affordable
          /\ RollBack(s, "refused")
       \/ /\ affordable
          /\ Step(s, t)
          /\ rated' = [rated EXCEPT ![s] = IF Booked(s, a) THEN @ \cup {t} ELSE @]
          /\ owed' = [owed EXCEPT ![s] = [@ EXCEPT ![t] = a]]
          /\ paid' = [paid EXCEPT ![s] = IF Booked(s, a) THEN @ + a ELSE @]
          /\ UNCHANGED stale /\ Unwritten
    /\ ElsewhereUnchanged

(* bulkRep takes as old ratings what it finds for the targets, whoever the *)
(* rater is, leaves out the targets that have the wanted rating already,   *)
(* and checks the credit.                                                  *)
BulkRep(s) ==
  \E q \in Requests, p \in [Targets -> Raters] :
    LET r == RaterOf[s]
        old == [t \in Targets |-> IF t \in q.on THEN rating[p[t]][t] ELSE 0]
        changed == {t \in q.on : old[t] # q.amount}
        wasted == Total([t \in changed |-> Abs(q.amount) - Abs(old[t])], changed)
    IN
    /\ pc[s] = "idle" /\ q.kind = "bulkRep"
    /\ \/ /\ credit[r] - Spending(rating[r]) < wasted
          /\ RollBack(s, "refused")
       \/ /\ credit[r] - Spending(rating[r]) >= wasted
          /\ pc' = [pc EXCEPT ![s] = IF q.proxy /\ changed # {} THEN "rating" ELSE "ready"]
          /\ req' = [req EXCEPT ![s] = q]
          /\ seen' = [seen EXCEPT ![s] = old]
          /\ todo' = [todo EXCEPT ![s] = IF q.proxy THEN changed ELSE {}]
          /\ rated' = [rated EXCEPT ![s] = changed]
          /\ stale' = IF \E t \in q.on : old[t] # rating[r][t]
                      THEN stale \cup {s} ELSE stale
          /\ UNCHANGED <<owed, paid>> /\ Unwritten
    /\ ElsewhereUnchanged

\* The proxy is charged for the targets of a bulkRep, before its ratings are written.
ChargeNext(s) ==
  \E t \in todo[s] :
    LET a == Charge(req[s], RaterOf[s], t, seen[s][t], req[s].amount) IN
    /\ pc[s] = "rating" /\ req[s].kind = "bulkRep" /\ ActionFree(s)
    /\ \/ /\ ~Booked(s, a)
          /\ RollBack(s, Unbooked(a))
       \/ /\ Booked(s, a)
          /\ Step(s, t)
          /\ owed' = [owed EXCEPT ![s] = [@ EXCEPT ![t] = a]]
          /\ paid' = [paid EXCEPT ![s] = @ + a]
          /\ UNCHANGED <<rated, stale>> /\ Unwritten
    /\ ElsewhereUnchanged

\* Commit of a request.  Only a bulkRep locks its rows as late as here.
Commit(s) ==
  LET r == RaterOf[s]
      new == [t \in Targets |-> NewRating(s, t)]
      blind == IF req[s].kind = "edit" THEN {} ELSE Blind(r, rated[s], seen[s])
      charged == {t \in Targets : owed[s][t] # 0}
  IN
  /\ pc[s] = "ready"
  /\ \A t \in rated[s] : RowFree(r, t, s)
  /\ Write(r, rated[s], seen[s], new, blind)
  /\ spent' = [spent EXCEPT ![r] = @ + paid[s]]
  /\ outstanding' = [outstanding EXCEPT ![r] = [t \in Targets |-> @[t] + owed[s][t]]]
  /\ stale' = (stale \ {s}) \cup Others(r, s)
  /\ jmoved' = jmoved \cup {r}
  /\ excused' = IF s \in stale THEN excused \cup {r} ELSE excused
  /\ swallowed' = IF charged \subseteq rated[s] THEN swallowed ELSE swallowed \cup {r}
  /\ EndRequest(s, "done")
  /\ UNCHANGED <<score, raters>>
  /\ ElsewhereUnchanged

(* The transaction of the TDH Lambda that gives the raters their credits   *)
(* and resets every rep to the sum of the ratings; it reads the ratings    *)
(* with locks, hence after every transaction that holds one.  The message  *)
(* it ends with starts the over-rates Lambda.                              *)
Recalculate ==
  \E new \in {f \in [Raters -> UNION Range(Credits)] : \A r \in Raters : f[r] \in Credits[r]} :
    LET changed == {r \in Raters : new[r] # credit[r]} IN
    /\ \A s \in Sessions, t \in Targets : ~HoldsRow(s, t)
    /\ credit' = new
    /\ rep' = [t \in Targets |-> Received(t)]
    /\ due' = TRUE
    /\ unseen' = {}
    /\ stale' = stale \cup {s \in Sessions : Open(s) /\ RaterOf[s] \in changed}
    /\ jmoved' = jmoved \cup changed
    /\ excused' = excused \cup {r \in Raters : Spending(rating[r]) > new[r]}
    /\ UNCHANGED <<rating, outbox, books, reqVars, jobVars, txVars, faults,
                   corrupt, swallowed>>

-----------------------------------------------------------------------------
(* The over-rates Lambda (reservedConcurrency 1).                          *)

JobUnchanged == UNCHANGED <<books, reqVars, txVars, score, raters, swallowed>>

\* getOverRateMatters, outside any transaction.
JobBegin ==
  /\ jpc = "idle" /\ due
  /\ due' = FALSE
  /\ jpc' = "tallied"
  /\ tally' = [r \in Raters |->
       IF Spending(rating[r]) > credit[r] THEN Spending(rating[r]) ELSE 0]
  /\ jcredit' = credit
  /\ jmoved' = {}
  /\ UNCHANGED <<ledger, events, jrater, jseen, faults, stale, unseen, corrupt, excused>>
  /\ JobUnchanged

\* The first read of a rater's transaction; it locks nothing.
JobRead(r) ==
  /\ jpc = "tallied" /\ tally[r] > 0
  /\ jpc' = "read" /\ jrater' = r /\ jseen' = rating[r]
  /\ UNCHANGED <<ledger, events, tally, jcredit, due, faults, stale, jmoved, unseen, corrupt,
                 excused>>
  /\ JobUnchanged

\* Mutant: the share is rounded away from zero.
ShareRoundedUp(n) ==
  LET size == (Abs(n) * jcredit[jrater] + tally[jrater] - 1) \div tally[jrater]
  IN  IF n < 0 THEN -size ELSE size

\* A rating of n cut to its share of the credit, towards zero.
Share(n) ==
  LET size == (Abs(n) * jcredit[jrater]) \div tally[jrater]
  IN  IF n < 0 THEN -size ELSE size

\* Credit still over once the ratings of the targets in P are cut.
Over(P) ==
  tally[jrater] - jcredit[jrater]
    - Total([t \in P |-> Abs(jseen[t]) - Abs(Share(jseen[t]))], P)

(* The targets whose ratings may be cut: the loop visits them in an order  *)
(* the query leaves open, and ends with the one that brings the credit in. *)
Cuts ==
  {P \in SUBSET {t \in Targets : jseen[t] # 0} :
     IF Over(P) <= 0 THEN \E last \in P : Over(P \ {last}) > 0
                     ELSE \A t \in Targets : jseen[t] # 0 => t \in P}

\* reduceGivenProfileOverRates writes over whatever the rows hold by now.
JobWrite ==
  /\ jpc = "read"
  /\ \E P \in Cuts :
       /\ \A t \in P : RowFree(jrater, t, None)
       /\ Write(jrater, P, jseen, [t \in Targets |-> Share(jseen[t])], Blind(jrater, P, jseen))
  /\ tally' = [tally EXCEPT ![jrater] = 0]
  /\ jpc' = "tallied" /\ jrater' = None /\ jseen' = Zeros
  /\ stale' = stale \cup Others(jrater, None)
  /\ excused' = IF jrater \in jmoved THEN excused \cup {jrater} ELSE excused \ {jrater}
  /\ UNCHANGED <<jcredit, due, faults, jmoved>>
  /\ JobUnchanged

JobEnd ==
  /\ jpc = "tallied" /\ \A r \in Raters : tally[r] = 0
  /\ jpc' = "idle"
  /\ jcredit' = [r \in Raters |-> 0] /\ jmoved' = {}
  /\ UNCHANGED <<ledger, events, tally, jrater, jseen, due, faults, stale, unseen, corrupt,
                 excused>>
  /\ JobUnchanged

\* An error ends the Lambda; the message comes back.
JobFails ==
  /\ jpc # "idle" /\ faults < MaxFaults
  /\ jpc' = "idle" /\ jrater' = None /\ jseen' = Zeros /\ jmoved' = {}
  /\ tally' = [r \in Raters |-> 0] /\ jcredit' = [r \in Raters |-> 0]
  /\ faults' = faults + 1 /\ due' = TRUE
  /\ UNCHANGED <<ledger, events, stale, unseen, corrupt, excused>>
  /\ JobUnchanged

\* A request is the victim of a deadlock, or its Lambda dies.
RequestFails(s) ==
  /\ Open(s) /\ faults < MaxFaults
  /\ RollBack(s, "refused")
  /\ faults' = faults + 1
  /\ UNCHANGED <<due, jobVars, txVars>>

-----------------------------------------------------------------------------
(* The event Lambda (reservedConcurrency 1): one transaction per batch     *)
(* until no event is found.                                                *)

OutboxUnchanged == UNCHANGED <<ledger, books, reqVars, due, jobVars, ghosts>>

\* Mutant: the Lambda waits for a full batch.
LockFullBatch(c) ==
  /\ runner \in {None, c} /\ batch[c] = EmptyBag
  /\ \E B \in Batches :
       /\ BagCardinality(B) = BatchSize
       /\ batch' = [batch EXCEPT ![c] = B]
  /\ runner' = c
  /\ UNCHANGED <<outbox, faults>>
  /\ OutboxUnchanged

\* lockNewEvents: for update skip locked; which events are the oldest is left open.
LockNewEvents(c) ==
  /\ runner \in {None, c} /\ batch[c] = EmptyBag
  /\ \E B \in Batches :
       /\ BagCardinality(B) = Least(BatchSize, BagCardinality(Lockable))
       /\ B # EmptyBag
       /\ batch' = [batch EXCEPT ![c] = B]
  /\ runner' = c
  /\ UNCHANGED <<outbox, faults>>
  /\ OutboxUnchanged

\* Mutant: the events are not marked as PROCESSED.
ProcessUnmarked(c) ==
  /\ runner = c /\ batch[c] # EmptyBag
  /\ score' = [t \in Targets |-> score[t] + ScoreOf(batch[c], t)]
  /\ raters' = [t \in Targets |-> raters[t] + RatersOf(batch[c], t)]
  /\ batch' = [batch EXCEPT ![c] = EmptyBag]
  /\ UNCHANGED <<events, runner, faults>>
  /\ OutboxUnchanged

\* The listener adds the batch up in the aggregations, the events are marked
\* as PROCESSED, and the transaction commits.
ProcessBatch(c) ==
  /\ runner = c /\ batch[c] # EmptyBag
  /\ score' = [t \in Targets |-> score[t] + ScoreOf(batch[c], t)]
  /\ raters' = [t \in Targets |-> raters[t] + RatersOf(batch[c], t)]
  /\ events' = events (-) batch[c]
  /\ batch' = [batch EXCEPT ![c] = EmptyBag]
  /\ UNCHANGED <<runner, faults>>
  /\ OutboxUnchanged

LambdaEnds(c) ==
  /\ runner = c /\ batch[c] = EmptyBag /\ Lockable = EmptyBag
  /\ runner' = None
  /\ UNCHANGED <<outbox, batch, faults>>
  /\ OutboxUnchanged

\* A listener fails, or the Lambda dies: its connection may keep the locks
\* until the server rolls the transaction back.
LambdaFails(c) ==
  /\ runner = c /\ faults < MaxFaults
  /\ runner' = None /\ faults' = faults + 1
  /\ UNCHANGED <<outbox, batch>>
  /\ OutboxUnchanged

ServerRollsBack(c) ==
  /\ runner # c /\ batch[c] # EmptyBag
  /\ batch' = [batch EXCEPT ![c] = EmptyBag]
  /\ UNCHANGED <<outbox, runner, faults>>
  /\ OutboxUnchanged

-----------------------------------------------------------------------------
Request(s) == Edit(s) \/ BeginBulkRate(s) \/ BulkRep(s)
Proceed(s) == RateNext(s) \/ ChargeNext(s) \/ Commit(s)
Job == JobBegin \/ (\E r \in Raters : JobRead(r)) \/ JobWrite \/ JobEnd
EventLambda ==
  \E c \in Connections : LockNewEvents(c) \/ ProcessBatch(c) \/ LambdaEnds(c)

Next ==
  \/ \E s \in Sessions : Request(s) \/ Proceed(s) \/ RequestFails(s)
  \/ Recalculate
  \/ Job \/ JobFails
  \/ EventLambda
  \/ \E c \in Connections : LambdaFails(c) \/ ServerRollsBack(c)

Spec == Init /\ [][Next]_vars

(* Requests that have begun go on, TDH is recalculated every day and is    *)
(* followed by the over-rates Lambda, the event Lambda runs every minute,  *)
(* and the server ends transactions whose client is gone.                  *)
FairSpec ==
  /\ Spec
  /\ \A s \in Sessions : WF_vars(Proceed(s))
  /\ WF_vars(Recalculate) /\ WF_vars(Job) /\ WF_vars(EventLambda)
  /\ \A c \in Connections : WF_vars(ServerRollsBack(c))

-----------------------------------------------------------------------------
(* identities.rep is the sum of the ratings a target has received, at      *)
(* every commit, unless a bulk request or the over-rates Lambda has        *)
(* written over a rating it had not seen since the last recalculation.     *)
RepIsTheSum == \A t \in Targets \ unseen : rep[t] = Received(t)

(* Every change of a rating is counted exactly once: what the outbox has   *)
(* not delivered yet makes up the difference between the aggregations and  *)
(* the ratings, in the score and in the number of raters.                  *)
AggregationsAreExact ==
  \A t \in Targets \ corrupt :
    /\ score[t] + ScoreOf(events, t) = Received(t)
    /\ raters[t] + RatersOf(events, t)
         = Cardinality({r \in Raters : rating[r][t] # 0})

(* A rater's ratings stay within the credit, unless the credit was lowered *)
(* and the over-rates Lambda has not been there yet, or a request or the   *)
(* Lambda committed on a view of the rater that was no longer true.        *)
CreditKept == \A r \in Raters \ excused : Spending(rating[r]) <= credit[r]

(* What a proxy's action has spent is what is outstanding on the targets,  *)
(* and never above the allowance, unless a bulk rating has charged the     *)
(* balance of a target that it then gave up.                               *)
ProxyBooksBalance ==
  \A r \in Raters :
    /\ spent[r] <= Allowance
    /\ r \notin swallowed => spent[r] = Total(outstanding[r], Targets)

(* A bulkRep leaves the targets with the rating that was asked for.        *)
BulkRepSetsRatings ==
  [][\A s \in Sessions :
       pc[s] = "ready" /\ pc'[s] = "done" /\ req[s].kind = "bulkRep" =>
         \A t \in req[s].on : rating'[RaterOf[s]][t] = req[s].amount]_vars

(* Requests being finite, in the end all events are counted, whatever      *)
(* invocation failed on the way, every rep is again the sum of the ratings *)
(* and every rater's spending again within the credit.                     *)
EventuallyRight ==
  /\ <>[](events = EmptyBag)
  /\ \A t \in Targets : <>[](rep[t] = Received(t))
  /\ \A r \in Raters : <>[](Spending(rating[r]) <= credit[r])
=============================================================================
