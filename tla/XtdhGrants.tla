----------------------------- MODULE XtdhGrants -----------------------------
(***************************************************************************)
(* Grants of xTDH.  A grantor promises a rate of xTDH per day, from the    *)
(* approval to an end, to the holders of tokens of an external collection. *)
(*   - The API inserts a grant as PENDING and asks for the collection; the *)
(*     grantor can change the end of a grant or end it, which disables its *)
(*     row and, as a rule, inserts a replacement.                          *)
(*   - The reviewer Lambda takes the PENDING grants one by one, one        *)
(*     transaction each, and waits, denies or approves.                    *)
(*   - The xTDH Lambda, started by every calculation of TDH, cuts the      *)
(*     grants of a grantor who has promised more than the capacity: it     *)
(*     disables them and inserts replacements, interval by interval.       *)
(*                                                                         *)
(* The collection behaves as CollectionLifecycle promises.  The rows are   *)
(* those of one grantor, whose grants are the only ones that matter to the *)
(* grantor's capacity.                                                     *)
(***************************************************************************)
EXTENDS Sums, SequencesExt

CONSTANTS
  End,         \* WINDOW_END, also the end of a grant without valid_to
  Day,         \* the shortest replacement with an end that is kept
  Ends,        \* ends that clients ask for
  Rates,       \* rates that clients ask for
  Capacities,  \* rates of xTDH the grantor may produce
  MaxCreated,  \* bound: grants created by clients
  MaxUpdated,  \* bound: updates by clients
  MaxFaults,   \* bound: failures in a behaviour
  None

ASSUME ConstantsAssumption ==
  /\ End \in Nat \ {0} /\ Day \in Nat \ {0}
  /\ Ends \subseteq 1 .. End
  /\ Rates \subseteq Nat \ {0} /\ Capacities \subseteq Nat
  /\ MaxCreated \in Nat /\ MaxUpdated \in Nat /\ MaxFaults \in Nat
  /\ None \notin Int

VARIABLES
  now,        \* the clock
  capacity,   \* the grantor's rate of xTDH
  rows,       \* the grantor's rows of xtdh_grants; the id is the index
  queue,      \* ids of the PENDING rows, by updated_at
  status, head, \* the collection, as the indexer shows it
  reviewing,  \* id of the row locked by the reviewer
  verdict,    \* what the reviewer is going to make of it
  seen,       \* seenGrants of the reviewer's invocation
  due,        \* a message for the xTDH Lambda is waiting
  phase,      \* where the xTDH Lambda is
  cut, plan,  \* ids it is going to disable, rows it is going to insert
  created, updated, faults,
  stale,      \* the grantor has changed since the reviewer looked (history variable)
  overtaken,  \* and since the xTDH Lambda looked (history variable)
  excused,    \* the capacity may be exceeded (history variable)
  doubled     \* grants some time of which was given out twice (history variable)

reviewVars == <<reviewing, verdict, seen>>
loopVars   == <<due, phase, cut, plan>>
bounds     == <<created, updated, faults>>
ghosts     == <<stale, overtaken, excused, doubled>>
vars == <<now, capacity, rows, queue, status, head, reviewVars, loopVars, bounds, ghosts>>

Collection == INSTANCE CollectionLifecycle WITH Heads <- {1}

Row == [status : {"PENDING", "FAILED", "GRANTED", "DISABLED"},
        from : (0 .. End) \cup {None}, to : 1 .. End, rate : Nat, replaced : Nat]

TypeOK ==
  /\ now \in 0 .. End - 1 /\ capacity \in Capacities
  /\ rows \in Seq(Row)
  /\ \A i \in DOMAIN rows : rows[i].status = "GRANTED" => rows[i].from # None
  /\ ToSet(queue) = {i \in DOMAIN rows : rows[i].status = "PENDING"}
  /\ Collection!TypeOK
  /\ reviewing \in ToSet(queue) \cup {None}
  /\ verdict \in {"wait", "deny", "approve", None}
  /\ seen \subseteq DOMAIN rows
  /\ due \in BOOLEAN /\ phase \in {"idle", "read"}
  /\ cut \subseteq DOMAIN rows /\ plan \in Seq(Row)
  /\ created \in 0 .. MaxCreated /\ updated \in 0 .. MaxUpdated
  /\ faults \in 0 .. MaxFaults
  /\ stale \in BOOLEAN /\ overtaken \in BOOLEAN /\ excused \in BOOLEAN
  /\ doubled \subseteq DOMAIN rows

Init ==
  /\ now = 0 /\ capacity \in Capacities
  /\ rows = <<>> /\ queue = <<>>
  /\ Collection!Init
  /\ reviewing = None /\ verdict = None /\ seen = {}
  /\ due = FALSE /\ phase = "idle" /\ cut = {} /\ plan = <<>>
  /\ created = 0 /\ updated = 0 /\ faults = 0
  /\ stale = FALSE /\ overtaken = FALSE /\ excused = FALSE /\ doubled = {}

-----------------------------------------------------------------------------
(* Rates over time.                                                        *)

Granted(R) == {i \in DOMAIN R : R[i].status = "GRANTED"}
Covers(g, t) == g.from <= t /\ t < g.to
RateOf(R, I) == Total([i \in DOMAIN R |-> R[i].rate], I)

\* What is promised at time t.
RateAt(R, t) == RateOf(R, {i \in Granted(R) : Covers(R[i], t)})

\* Mutant: a grant that begins at a itself is not under way.
MaxSpentAfter(R, a, b) ==
  LET G == Granted(R) IN
  Max({RateOf(R, {i \in G : R[i].from < t /\ t < R[i].to}) : t \in a .. b - 1} \cup {0})

\* getGrantorsMaxSpentTdhRateInTimeSpan: the rates of the grants under way
\* at a, and then plus and minus those that begin and end by ts.
MaxSpent(R, a, b) ==
  LET G      == Granted(R)
      base   == RateOf(R, {i \in G : Covers(R[i], a)})
      starts == {i \in G : a < R[i].from /\ R[i].from < b /\ a < R[i].to}
      ends   == {i \in G : R[i].to # End /\ a < R[i].to /\ R[i].to <= b /\ R[i].from < b}
      edges  == {R[i].from : i \in starts} \cup {R[i].to : i \in ends}
      running(ts) == base + RateOf(R, {i \in starts : R[i].from <= ts})
                          - RateOf(R, {i \in ends : R[i].to <= ts})
  IN  Max({base} \cup {running(ts) : ts \in edges})

\* getOverflowedGrantsWithGrantorRates: grants that meet an interval between
\* two edges in which more is promised than the capacity.
Overflowed(R, cap) ==
  LET G       == Granted(R)
      edges   == {0, End} \cup {R[i].from : i \in G} \cup {R[i].to : i \in G}
      active(ts) == RateOf(R, {i \in G : R[i].from <= ts})
                      - RateOf(R, {i \in G : R[i].to # End /\ R[i].to <= ts})
      over    == {ts \in edges \ {End} : active(ts) > cap}
      next(ts) == Min({e \in edges : e > ts})
  IN  {i \in G : \E ts \in over : R[i].from < next(ts) /\ ts < R[i].to}

-----------------------------------------------------------------------------
(* buildReplacementGrants.                                                 *)

\* What row i of the overflowed rows I is cut to at time t.
Scaled(R, I, cap, i, t) ==
  LET total == RateOf(R, {j \in I : Covers(R[j], t)})
  IN  IF total <= cap THEN R[i].rate ELSE (R[i].rate * cap) \div total

\* Two points of P with none between them.
Neighbours(P) == {s \in P \X P : s[1] < s[2] /\ \A p \in P : p <= s[1] \/ s[2] <= p}

\* Segments between the ends of the spans.
Segments(R, I, i) ==
  Neighbours({p \in {R[j].from : j \in I} \cup {R[j].to : j \in I} :
                R[i].from <= p /\ p <= R[i].to})

\* Mutant: adjacent segments of the same rate are left apart.
Unmerged(R, I, cap, i) == Segments(R, I, i)

\* Adjacent segments of the same rate make one piece.
Merged(R, I, cap, i) ==
  LET first(s) == s[1] = R[i].from \/
                  Scaled(R, I, cap, i, s[1]) # Scaled(R, I, cap, i, s[1] - 1)
  IN  Neighbours({s[1] : s \in {u \in Segments(R, I, i) : first(u)}} \cup {R[i].to})

\* Pieces with an end must last a day.
IsKept(piece, rate) == rate > 0 /\ (piece[2] = End \/ piece[2] - piece[1] >= Day)

\* The rows that replace the overflowed rows I, one for each piece.  (Their
\* ids are random: the order of the rows of one plan means nothing.)
Replacements(R, I, cap) ==
  LET rate(i, piece) == Scaled(R, I, cap, i, piece[1])
      kept == UNION {{<<i, piece>> : piece \in {p \in Merged(R, I, cap, i) : IsKept(p, rate(i, p))}} :
                       i \in {j \in I : R[j].from < R[j].to}}
      row(x) == [status |-> "GRANTED", from |-> x[2][1], to |-> x[2][2],
                 rate |-> rate(x[1], x[2]), replaced |-> x[1]]
      listed == SetToSeq(kept)
  IN  [n \in DOMAIN listed |-> row(listed[n])]

-----------------------------------------------------------------------------
(* Clients.                                                                *)

Pending(rate, to) ==
  [status |-> "PENDING", from |-> None, to |-> to, rate |-> rate, replaced |-> 0]

\* CreateXTdhGrantUseCase.handle.
Create(rate, to) ==
  /\ created < MaxCreated /\ created' = created + 1
  /\ status \notin Collection!GivenUp
  /\ IF status = "absent" THEN Collection!Request ELSE UNCHANGED <<status, head>>
  /\ rows' = Append(rows, Pending(rate, to))
  /\ queue' = Append(queue, Len(rows'))
  /\ UNCHANGED <<now, capacity, reviewVars, loopVars, updated, faults, ghosts>>

Disable(R, I) ==
  [j \in DOMAIN R |-> IF j \in I THEN [R[j] EXCEPT !.status = "DISABLED"] ELSE R[j]]

\* The row a grant goes back to.
Root(R, i) ==
  LET root[j \in DOMAIN R] == IF R[j].replaced = 0 THEN j ELSE root[R[j].replaced]
  IN  root[i]

\* Other rows the same grant has become.
Siblings(i) == {j \in Granted(rows) \ {i} : Root(rows, j) = Root(rows, i)}

\* Something changes that a transaction under way has read.
Upset(review, reReview) ==
  /\ stale' = (reviewing # None /\ (stale \/ review))
  /\ overtaken' = (phase = "read" /\ (overtaken \/ reReview))

NeedsReplacement(g, to) ==
  to = End \/ to - (IF g.from = None THEN now ELSE g.from) > Day

\* XTdhGrantsFinder.updateXTdhGrant: the row waits for the reviewer's lock.
Update(i, to) ==
  LET g        == rows[i]
      replaced == NeedsReplacement(g, to)
      extended == g.status = "GRANTED" /\ to > g.to
  IN  /\ updated < MaxUpdated /\ updated' = updated + 1
      /\ g.status \in {"PENDING", "GRANTED"} /\ reviewing # i
      /\ ~(g.to < now /\ to > g.to)
      /\ rows' = Disable(rows, {i}) \o
           (IF replaced THEN <<[g EXCEPT !.to = to, !.replaced = i]>> ELSE <<>>)
      /\ queue' = RemoveFirst(queue, i) \o
           (IF replaced /\ g.status = "PENDING" THEN <<Len(rows')>> ELSE <<>>)
      /\ excused' = (excused \/ extended) /\ Upset(extended, extended \/ i \in cut)
      /\ doubled' = doubled \cup (IF extended /\ Siblings(i) # {} THEN {Root(rows, i)} ELSE {})
      /\ UNCHANGED <<now, capacity, status, head, reviewVars, loopVars, created, faults>>

-----------------------------------------------------------------------------
(* The reviewer.                                                           *)

\* Mutant: a collection that could not be indexed is waited for.
HopefulVerdicts(g) ==
  IF g.to < now \/ status = "absent" THEN {"deny"}
  ELSE IF status # "LIVE_TAILING" THEN {"wait"}
  ELSE IF capacity - MaxSpent(rows, now, g.to) < g.rate THEN {"deny"}
  ELSE {"approve", "deny"}

\* What the transaction makes of the grant; that a token is missing is open.
Verdicts(g) ==
  IF g.to < now \/ status \in Collection!GivenUp \cup {"absent"} THEN {"deny"}
  ELSE IF status \in Collection!Undecided THEN {"wait"}
  ELSE IF capacity - MaxSpent(rows, now, g.to) < g.rate THEN {"deny"}
  ELSE {"approve", "deny"}

\* attemptOneGrantVerification: lockOldestPendingGrant, and all it reads.
ReviewBegin ==
  /\ reviewing = None /\ queue # <<>> /\ Head(queue) \notin seen
  /\ reviewing' = Head(queue)
  /\ verdict' \in Verdicts(rows[Head(queue)])
  /\ seen' = seen \cup {Head(queue)} /\ stale' = FALSE
  /\ UNCHANGED <<now, capacity, rows, queue, status, head, loopVars, bounds,
                 overtaken, excused, doubled>>

Decided(g) ==
  CASE verdict = "wait"    -> g
    [] verdict = "deny"    -> [g EXCEPT !.status = "FAILED"]
    [] verdict = "approve" -> [g EXCEPT !.status = "GRANTED", !.from = now]

\* Mutant: a grant that waits is forgotten.
DecidedQueueWithout(i) == RemoveFirst(queue, i)

\* updated_at is set to the present: a grant that waits goes to the end.
DecidedQueue(i) ==
  RemoveFirst(queue, i) \o (IF verdict = "wait" THEN <<i>> ELSE <<>>)

ReviewDecide ==
  LET late == verdict = "approve" /\ stale IN
  /\ reviewing # None
  /\ rows' = [rows EXCEPT ![reviewing] = Decided(@)]
  /\ queue' = DecidedQueue(reviewing)
  /\ reviewing' = None /\ verdict' = None
  /\ excused' = (excused \/ late) /\ stale' = FALSE
  /\ overtaken' = (phase = "read" /\ (overtaken \/ late))
  /\ UNCHANGED <<now, capacity, status, head, seen, loopVars, bounds, doubled>>

ReviewFails ==
  /\ reviewing # None /\ faults < MaxFaults /\ faults' = faults + 1
  /\ reviewing' = None /\ verdict' = None /\ seen' = {} /\ stale' = FALSE
  /\ UNCHANGED <<now, capacity, rows, queue, status, head, loopVars, created, updated,
                 overtaken, excused, doubled>>

\* The loop ends when it meets a grant again, which has gone to the end of
\* the queue, when there is none, or when its time is up.
ReviewStops ==
  /\ reviewing = None /\ seen # {} /\ seen' = {}
  /\ queue' = IF queue # <<>> /\ Head(queue) \in seen
              THEN Append(Tail(queue), Head(queue)) ELSE queue
  /\ UNCHANGED <<now, capacity, rows, status, head, reviewing, verdict, loopVars, bounds, ghosts>>

-----------------------------------------------------------------------------
(* The xTDH Lambda.                                                        *)

\* A calculation of TDH changes what the grantor can produce and reports.
Calculate(cap) ==
  /\ capacity' = cap /\ due' = TRUE
  /\ excused' = (excused \/ cap < capacity)
  /\ Upset(cap < capacity, cap < capacity)
  /\ UNCHANGED <<now, rows, queue, status, head, reviewVars, phase, cut, plan, bounds, doubled>>

\* ReReviewRatesInXTdhGrantsUseCase.handle: what its transaction reads.
ReReviewRead ==
  /\ due /\ phase = "idle" /\ due' = FALSE /\ phase' = "read"
  /\ cut' = Overflowed(rows, capacity)
  /\ plan' = Replacements(rows, cut', capacity)
  /\ overtaken' = FALSE
  /\ UNCHANGED <<now, capacity, rows, queue, status, head, reviewVars, bounds,
                 stale, excused, doubled>>

\* Mutant: what is cut stays granted next to what replaces it.
WrittenTwice(R) == R \o plan

\* bulkInsert and bulkUpdateStatus; the rows are disabled whatever they are now.
Written(R) == Disable(R, cut) \o plan

\* The commit.  A failure after it, when the stats are handed on, repeats it all.
ReReviewWrite(fails) ==
  /\ phase = "read" /\ phase' = "idle" /\ cut' = {} /\ plan' = <<>>
  /\ IF fails THEN faults < MaxFaults /\ faults' = faults + 1 /\ due' = TRUE
              ELSE UNCHANGED <<faults, due>>
  /\ rows' = Written(rows)
  /\ excused' = overtaken /\ overtaken' = FALSE
  /\ doubled' = doubled \cup {Root(rows, i) : i \in {j \in cut : rows[j].status # "GRANTED"}}
  /\ stale' = (reviewing # None /\ (stale \/ overtaken))
  /\ UNCHANGED <<now, capacity, queue, status, head, reviewVars, created, updated>>

\* The transaction is rolled back and the message comes again.
ReReviewFails ==
  /\ phase = "read" /\ faults < MaxFaults /\ faults' = faults + 1
  /\ phase' = "idle" /\ cut' = {} /\ plan' = <<>> /\ due' = TRUE
  /\ overtaken' = FALSE
  /\ UNCHANGED <<now, capacity, rows, queue, status, head, reviewVars, created, updated,
                 stale, excused, doubled>>

-----------------------------------------------------------------------------
Index(A) == A /\ UNCHANGED <<now, capacity, rows, queue, reviewVars, loopVars, bounds, ghosts>>

Indexing == Index(Collection!Begin \/ Collection!GoLive \/ Collection!GiveUp)

Tick ==
  /\ now < End - 1 /\ now' = now + 1
  /\ UNCHANGED <<capacity, rows, queue, status, head, reviewVars, loopVars, bounds, ghosts>>

Review     == ReviewBegin \/ ReviewDecide \/ ReviewStops
Calculates == \E cap \in Capacities : Calculate(cap)

Next ==
  \/ \E rate \in Rates, to \in Ends : Create(rate, to)
  \/ \E i \in DOMAIN rows, to \in Ends : Update(i, to)
  \/ Review \/ ReviewFails
  \/ Calculates \/ ReReviewRead \/ (\E fails \in BOOLEAN : ReReviewWrite(fails)) \/ ReReviewFails
  \/ Indexing \/ Tick

\* The reviewer is started every minute, a message is delivered until it is
\* dealt with, TDH is calculated every day, and the indexer keeps its promise.
\* (A re-review that fails has taken its turn; failures are bounded.)
ReReviewsMove ==
  \/ due /\ phase = "idle" /\ phase' = "read"
  \/ phase = "read" /\ phase' = "idle"

Fairness ==
  /\ WF_vars(Review) /\ WF_vars(Indexing)
  /\ WF_phase(ReReviewsMove) /\ WF_vars(Calculates)

Spec == Init /\ [][Next]_vars /\ Fairness

-----------------------------------------------------------------------------
(* Properties.                                                             *)

Within == \A t \in now .. End - 1 : RateAt(rows, t) <= capacity

\* A grantor never promises more than the capacity, at no time now or later,
\* however approvals, changes and re-reviews meet, but for what a calculation
\* or an extension has upset since the last re-review looked
\* (isGrantOverflowing and the re-review together).
RatesWithinCapacity == excused \/ Within

\* However often a grant is cut or changed, the rows it has become promise
\* no more together, at any time, than the grantor promised once (the chain
\* of replaced_grant_id), unless a client's change met a re-review
\* or extended one of them over the next.
HeirsWithinGrant ==
  \A r \in DOMAIN rows \ doubled : rows[r].replaced = 0 =>
    \A t \in 0 .. End - 1 :
      RateOf(rows, {i \in Granted(rows) : Root(rows, i) = r /\ Covers(rows[i], t)}) <= rows[r].rate

\* Granted rows of any span.
Spans == {g \in [status : {"GRANTED"}, from : 0 .. End - 1, to : 1 .. End,
                 rate : Rates, replaced : {0}] : g.from < g.to}

\* The times around t within row i at which i is cut to the same rate.
Alike(R, I, cap, i, t) ==
  LET at(u) == Scaled(R, I, cap, i, u)
  IN  {u \in R[i].from .. R[i].to - 1 : \A v \in Min({t, u}) .. Max({t, u}) : at(v) = at(t)}

\* A re-review cuts what is promised at each time in proportion, touches no
\* grant that meets no such time, drops nothing but what would last less than
\* a day, and gives each stretch of one rate one row: buildReplacementGrants
\* compared, moment by moment, with what it is for, for any three grants
\* and the capacity there is.  (It looks at no row, and is evaluated only
\* where there are none yet, to be evaluated seldom.)
CutsAreFair ==
  rows = <<>> => \A R \in [1 .. 3 -> Spans] :
    LET I    == Overflowed(R, capacity)
        new  == Replacements(R, I, capacity)
        over == {t \in 0 .. End - 1 : RateAt(R, t) > capacity}
    IN  /\ I = {i \in DOMAIN R : \E t \in over : Covers(R[i], t)}
        /\ \A i \in I : \A t \in R[i].from .. R[i].to - 1 :
             LET run   == Alike(R, I, capacity, i, t)
                 short == Max(run) + 1 # End /\ Cardinality(run) < Day
                 heirs == {n \in DOMAIN new : new[n].replaced = i /\ Covers(new[n], t)}
                 fair  == IF t \in over THEN (R[i].rate * capacity) \div RateAt(R, t)
                                       ELSE R[i].rate
             IN  /\ heirs = {} <=> fair = 0 \/ short
                 /\ Cardinality(heirs) <= 1
                 /\ \A n \in heirs :
                      /\ new[n].from = Min(run) /\ new[n].to = Max(run) + 1
                      /\ new[n].rate = fair

\* Every grant is decided in the end, one that waits for its collection too,
\* and the grantor's promises come back within the capacity again and again.
GrantsSettle == <>[](queue = <<>>) /\ []<>Within
=============================================================================
