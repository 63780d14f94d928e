------------------------------ MODULE DropVoting ------------------------------
(***************************************************************************)
(* Votes on the drops of one wave (type RANK, TDH credit, no time lock)    *)
(* from the first vote to the winners.  Three kinds of transactions write  *)
(* the vote tables:                                                        *)
(*   - a vote (API): reads the drop, locks the drop's newest history row,  *)
(*     reads the voter's votes and credit, checks them, writes;            *)
(*   - the revocation of over-votes (TDH and over-rates Lambdas): reads    *)
(*     every over-voter, then locks and reduces their votes drop by drop;  *)
(*   - the decision (Lambda with reservedConcurrency 1): reads the winners *)
(*     from the history, archives their votes and closes them to votes.    *)
(*                                                                         *)
(* The transactions run at MySQL's REPEATABLE READ: plain reads of a       *)
(* transaction see the database as of its first read, locks and "vote =    *)
(* vote + change" see the present, and nothing is aborted because of what  *)
(* it did not see.  A transaction is modelled by its first read, its lock  *)
(* and its commit; its writes are invisible to others before the commit    *)
(* and take place in one step there.  Any transaction may be rolled back.  *)
(*                                                                         *)
(* drop_ranks.vote is one number per drop; every write adds the change of  *)
(* one voter to it.  rank[d] keeps these changes apart, by voter, and the  *)
(* column is their sum Tally(rank[d]); no row is a row of zeros.           *)
(***************************************************************************)
EXTENDS Sums, Sequences

CONSTANTS
  Voters,           \* profiles that vote
  Drops,            \* participatory drops of the wave
  Sessions,         \* API requests that can be in flight at once
  VoterOf,          \* VoterOf[s]: the profile that sends the requests of s
  VoteValues,       \* the votes clients ask for
  PerDrop,          \* voting_credit_scope: TRUE is DROP, FALSE is WAVE
  InitialCredit,    \* TDH of every voter at first
  Credits,          \* TDH values a recalculation may give a voter
  Decisions,        \* number of decision times of the wave
  Paused,           \* decision times that lie in a pause
  TopN,             \* winners of one decision
  SameMillisecond,  \* whether two commits may carry the same Time.now()
  RankBound,        \* bound: |rank[d][v]|
  MaxFaults,        \* bound: killed decision Lambdas in a behaviour
  None

ASSUME ConstantsAssumption ==
  /\ IsFiniteSet(Voters) /\ IsFiniteSet(Drops)
  /\ VoterOf \in [Sessions -> Voters]
  /\ VoteValues \subseteq Int
  /\ PerDrop \in BOOLEAN
  /\ InitialCredit \in Nat /\ Credits \subseteq Nat
  /\ Decisions \in Nat /\ Paused \subseteq 1 .. Decisions
  /\ TopN \in Nat
  /\ SameMillisecond \in BOOLEAN
  /\ RankBound \in Nat /\ MaxFaults \in Nat
  /\ None \notin Voters \cup Drops \cup Sessions

VARIABLES
  votes,     \* votes[v][d]: drop_voter_states.votes
  rank,      \* rank[d][v]: what v has added to drop_ranks.vote of d
  history,   \* history[d]: votes of the newest drop_real_vote_in_time rows,
             \* more than one when they carry the same timestamp
  open,      \* drops of type PARTICIPATORY; the others are WINNERs
  credit,    \* credit[v]: identities.tdh
  next,      \* waves.next_decision_time; Decisions + 1 is null
  due,       \* decision times the clock has passed
  decided,   \* decision times in wave_decisions
  final,     \* final[d]: final_vote of a winner
  archive,   \* archive[d][v]: winner_drop_voter_votes of a winner
  pc,        \* pc[s]: where the request of session s is
  drop,      \* drop[s]: the drop it votes on
  snap,      \* snap[s]: what its reads see
  vote,      \* vote[s]: the vote it is going to write
  rpc,       \* where the revocation is
  rsnap,     \* what its reads see
  rcredit,   \* the credits it commits
  todo,      \* <<voter, drop>> pairs it still has to visit
  given,     \* given[v]: votes_still_given
  current,   \* the <<voter, drop>> pair it works on
  order,     \* its timestamp for that drop against the newest history row
  ahead,     \* the request that held the drop when that timestamp was taken
  reduced,   \* reduced[v][d]: the votes of v on d as it leaves them
  dated,     \* dated[d]: order of the last history row it wrote for d
  held,      \* drops it has locked
  run,       \* where the decision Lambda is
  at,        \* the decision time it works on
  upto,      \* due when the invocation began
  won,       \* history rows it has read as winners
  wvotes,    \* the votes it sees
  faults,    \* killed Lambdas so far
  overlapped,\* <<v, d>>: committed over a vote that was not seen (history)
  raced,     \* v: committed without seeing v's latest vote or credit (history)
  late       \* d: a reduction was not dated last (history variable)

tables       == <<votes, rank, history, open, credit, next, decided, final,
                  archive>>
requestVars  == <<pc, drop, snap, vote>>
revokerVars  == <<rpc, rsnap, rcredit, todo, given, current, order, ahead,
                  reduced, dated, held>>
runVars      == <<run, at, upto, won, wvotes>>
ghosts       == <<overlapped, raced, late>>
vars == <<tables, due, requestVars, revokerVars, runVars, faults, ghosts>>

Abs(n) == IF n < 0 THEN -n ELSE n

\* The sum of a function from voters to integers.
Tally(f) == Total(f, Voters)

\* Votes of one voter on the drops in S, without their signs.
Spent(mine, S) == Total([d \in S |-> Abs(mine[d])], S)

NoVotes == [v \in Voters |-> [d \in Drops |-> 0]]
NoSnap == [votes |-> [d \in Drops |-> 0], open |-> {}, next |-> 0, credit |-> 0]
NoWork == [votes |-> NoVotes, open |-> {}]
NoPair == <<None, None>>

\* A timestamp against that of the newest history row of a drop.
Orders == {"newer", "same", "older"}

TablesTypeOK ==
  /\ votes \in [Voters -> [Drops -> Int]]
  /\ rank \in [Drops -> [Voters -> Int]]
  /\ history \in [Drops -> Seq(Int)]
  /\ final \in [Drops -> Int]
  /\ open \subseteq Drops
  /\ credit \in [Voters -> Nat]
  /\ next \in 1 .. Decisions + 1
  /\ due \in 0 .. Decisions
  /\ decided \subseteq 1 .. Decisions
  /\ archive \in [Drops -> [Voters -> Int]]

RequestsTypeOK ==
  /\ pc \in [Sessions -> {"idle", "begun", "ready"}]
  /\ drop \in [Sessions -> Drops \cup {None}]
  /\ \A s \in Sessions : pc[s] # "idle" => drop[s] \in Drops
  /\ snap \in [Sessions -> [votes : [Drops -> Int], open : SUBSET Drops,
                            next : 0 .. Decisions + 1, credit : Nat]]
  /\ vote \in [Sessions -> Int]

RevokerTypeOK ==
  /\ rpc \in {"idle", "scan", "wait"}
  /\ rsnap \in [votes : [Voters -> [Drops -> Int]], open : SUBSET Drops]
  /\ rcredit \in [Voters -> Nat]
  /\ todo \subseteq Voters \X Drops
  /\ given \in [Voters -> Int]
  /\ current \in (Voters \X Drops) \cup {NoPair}
  /\ rpc = "wait" => current \in Voters \X Drops
  /\ order \in Orders
  /\ ahead \in Sessions \cup {None}
  /\ reduced \in [Voters -> [Drops -> Int]]
  /\ dated \in [Drops -> Orders]
  /\ held \subseteq Drops

RunTypeOK ==
  /\ run \in {"off", "loop", "decide"}
  /\ at \in 0 .. Decisions + 1
  /\ run # "off" => at >= 1
  /\ run = "decide" => at <= Decisions
  /\ upto \in 0 .. Decisions
  /\ won \subseteq [drop : Drops, row : Nat, vote : Int]
  /\ wvotes \in [Voters -> [Drops -> Int]]
  /\ faults \in 0 .. MaxFaults

GhostsTypeOK ==
  /\ overlapped \subseteq Voters \X Drops
  /\ raced \subseteq Voters
  /\ late \subseteq Drops

StateTypeOK ==
  TablesTypeOK /\ RequestsTypeOK /\ RevokerTypeOK /\ RunTypeOK /\ GhostsTypeOK

-----------------------------------------------------------------------------
(* The wave as create-or-update-drop.use-case.ts leaves it: every drop has *)
(* a history row with vote 0 and nobody has voted.                         *)
Init ==
  /\ votes = NoVotes
  /\ rank = [d \in Drops |-> [v \in Voters |-> 0]]
  /\ history = [d \in Drops |-> <<0>>]
  /\ open = Drops
  /\ credit = [v \in Voters |-> InitialCredit]
  /\ next = 1 /\ due = 0 /\ decided = {}
  /\ final = [d \in Drops |-> 0]
  /\ archive = [d \in Drops |-> [v \in Voters |-> 0]]
  /\ pc = [s \in Sessions |-> "idle"]
  /\ drop = [s \in Sessions |-> None]
  /\ snap = [s \in Sessions |-> NoSnap]
  /\ vote = [s \in Sessions |-> 0]
  /\ rpc = "idle" /\ rsnap = NoWork /\ rcredit = [v \in Voters |-> 0]
  /\ todo = {} /\ given = [v \in Voters |-> 0]
  /\ current = NoPair /\ order = "newer" /\ ahead = None
  /\ reduced = NoVotes /\ dated = [d \in Drops |-> "newer"] /\ held = {}
  /\ run = "off" /\ at = 0 /\ upto = 0 /\ won = {} /\ wvotes = NoVotes
  /\ faults = 0
  /\ overlapped = {} /\ raced = {} /\ late = {}

(* Time passes the next decision time. *)
Tick ==
  /\ due < Decisions
  /\ due' = due + 1
  /\ UNCHANGED <<tables, requestVars, revokerVars, runVars, faults, ghosts>>

\* The request that holds the lock on the newest history row of d.
Holder(d) ==
  IF \E s \in Sessions : pc[s] = "ready" /\ drop[s] = d
  THEN CHOOSE s \in Sessions : pc[s] = "ready" /\ drop[s] = d
  ELSE None
-----------------------------------------------------------------------------
\* A vote.

(* The request's first read in its transaction finds the drop and fixes    *)
(* what all its plain reads see.  A WINNER is refused.                     *)
Begin(s, d) ==
  /\ pc[s] = "idle"
  /\ d \in open
  /\ pc' = [pc EXCEPT ![s] = "begun"]
  /\ drop' = [drop EXCEPT ![s] = d]
  /\ snap' = [snap EXCEPT ![s] = [votes |-> votes[VoterOf[s]], open |-> open,
                                  next |-> next, credit |-> credit[VoterOf[s]]]]
  /\ UNCHANGED <<tables, due, vote, revokerVars, runVars, faults, ghosts>>

\* No decision of the wave, as the request sees it, is overdue.
NoUnresolvedDecision(seen) == seen.next = Decisions + 1 \/ due < seen.next

\* The credit spent after voting n on d, within the credit the request sees.
EnoughCredit(seen, d, n) ==
  LET diff == Abs(n) - Abs(seen.votes[d])
  IN  IF PerDrop
      THEN Abs(n) <= seen.credit
      ELSE diff + Spent(seen.votes, seen.open) <= seen.credit

(* The request gets the lock on the drop, takes the time and checks the    *)
(* vote; from here on only a failure keeps it from committing.             *)
Lock(s, n) ==
  /\ pc[s] = "begun"
  /\ Holder(drop[s]) = None
  /\ drop[s] \notin held
  /\ NoUnresolvedDecision(snap[s])
  /\ EnoughCredit(snap[s], drop[s], n)
  /\ n # snap[s].votes[drop[s]]
  /\ pc' = [pc EXCEPT ![s] = "ready"]
  /\ vote' = [vote EXCEPT ![s] = n]
  /\ UNCHANGED <<tables, due, drop, snap, revokerVars, runVars, faults, ghosts>>

EndRequest(s) ==
  /\ pc' = [pc EXCEPT ![s] = "idle"]
  /\ drop' = [drop EXCEPT ![s] = None]
  /\ snap' = [snap EXCEPT ![s] = NoSnap]
  /\ vote' = [vote EXCEPT ![s] = 0]
  /\ ahead' = IF ahead = s THEN None ELSE ahead

(* A vote that is refused, changes nothing, or is the victim of a deadlock. *)
Abandon(s) ==
  /\ pc[s] # "idle"
  /\ EndRequest(s)
  /\ UNCHANGED <<tables, due, rpc, rsnap, rcredit, todo, given, current, order,
                 reduced, dated, held, runVars, faults, ghosts>>

(* A revocation that waits for d has taken its timestamp; how the vote of  *)
(* request s, which commits in the meantime, is dated against it.          *)
OvertakenBy(s, after) ==
  IF rpc # "wait" \/ current[2] # drop[s]
  THEN after = order
  ELSE \/ ahead = s /\ after = "newer"
       \/ SameMillisecond /\ order = "newer" /\ after = "same"
       \/ (ahead # s \/ order # "newer") /\ after = "older"

\* Mutant: the whole vote is added, not the difference.
ChangeIsVote(s) == vote[s]

\* What a vote adds to the drop's rank.
Change(s) == vote[s] - snap[s].votes[drop[s]]

(* The new state of the voter replaces the old one, the change is added to *)
(* the rank, and a history row records the sum.                            *)
Commit(s, after) ==
  LET v == VoterOf[s]
      d == drop[s]
      mine == snap[s].votes
      newRank == [rank[d] EXCEPT ![v] = @ + Change(s)]
  IN  /\ pc[s] = "ready"
      /\ newRank[v] \in -RankBound .. RankBound
      /\ OvertakenBy(s, after)
      /\ votes' = [votes EXCEPT ![v] = [@ EXCEPT ![d] = vote[s]]]
      /\ rank' = [rank EXCEPT ![d] = newRank]
      /\ history' = [history EXCEPT ![d] = <<Tally(newRank)>>]
      /\ order' = after
      /\ overlapped' = IF votes[v][d] # mine[d]
                       THEN overlapped \cup {<<v, d>>} ELSE overlapped
      /\ raced' = IF votes[v] # mine \/ credit[v] # snap[s].credit
                  THEN raced \cup {v} ELSE raced
      /\ EndRequest(s)
      /\ UNCHANGED <<open, credit, next, decided, final, archive, due, rpc,
                     rsnap, rcredit, todo, given, current, reduced, dated,
                     held, runVars, faults, late>>
-----------------------------------------------------------------------------
\* The revocation of over-votes.

\* The votes of an over-voter that are visited: those that count against its
\* credit, or the offending drops alone.
Visited(v, limit) ==
  IF PerDrop THEN {d \in open : Abs(votes[v][d]) > limit}
  ELSE {d \in open : votes[v][d] # 0 /\ Spent(votes[v], open) > limit}

(* The TDH consolidation gives one voter a new credit (or none does: the   *)
(* over-rates Lambda revokes too) and finds the over-voters.               *)
RevokerBegins(v, limit) ==
  LET limits == [credit EXCEPT ![v] = limit]
  IN  /\ rpc = "idle"
      /\ rpc' = "scan"
      /\ rsnap' = [votes |-> votes, open |-> open]
      /\ rcredit' = limits
      /\ reduced' = votes
      /\ todo' = {p \in Voters \X Drops : p[2] \in Visited(p[1], limits[p[1]])}
      /\ given' = [u \in Voters |-> Spent(votes[u], open)]
      /\ UNCHANGED <<tables, due, requestVars, current, order, ahead, dated,
                     held, runVars, faults, ghosts>>

(* Time.currentMillis() for the next vote of the same voter, or of another  *)
(* one when no vote of that voter is left; then it waits for the lock.     *)
RevokerTakesTime(v, d) ==
  /\ rpc = "scan"
  /\ <<v, d>> \in todo
  /\ (\E e \in Drops : <<current[1], e>> \in todo) => v = current[1]
  /\ rpc' = "wait"
  /\ current' = <<v, d>>
  /\ order' = "newer"
  /\ ahead' = Holder(d)
  /\ UNCHANGED <<tables, due, requestVars, rsnap, rcredit, todo, given, reduced,
                 dated, held, runVars, faults, ghosts>>

\* Mutant: shares of the credit are rounded up.
IsRoundedUp(new, old, limit, total) ==
  IF PerDrop
  THEN new = IF old > limit THEN limit ELSE IF old < -limit THEN -limit ELSE old
  ELSE old * limit <= new * total /\ (new - 1) * total < old * limit

\* Mutant: votes against a drop are not limited.
IsReducedIfPositive(new, old, limit, total) ==
  IF PerDrop
  THEN new = IF old > limit THEN limit ELSE old
  ELSE new * total <= old * limit /\ old * limit < (new + 1) * total

\* limitVoteToCredit(old, limit), or the vote's share of the credit,
\* Math.floor(old * (limit / total)).
IsReduced(new, old, limit, total) ==
  IF PerDrop
  THEN new = IF old > limit THEN limit ELSE IF old < -limit THEN -limit ELSE old
  ELSE new * total <= old * limit /\ old * limit < (new + 1) * total

\* Integers that are not further from zero than n.
NoMoreThan(n) == -Abs(n) .. Abs(n)

(* With the lock, the vote is reduced and written with its history row.    *)
(* The voter's other votes are left alone once the rest is within credit.  *)
RevokerReduces ==
  LET v == current[1]
      d == current[2]
      old == rsnap.votes[v][d]
      total == Spent(rsnap.votes[v], rsnap.open)
  IN  /\ rpc = "wait"
      /\ Holder(d) = None
      /\ rpc' = "scan"
      /\ held' = held \cup {d}
      /\ order' = "newer" /\ ahead' = None
      /\ \E new \in NoMoreThan(old) :
           /\ IsReduced(new, old, rcredit[v], total)
           /\ IF new = old
              THEN /\ todo' = todo \ {current}
                   /\ UNCHANGED <<given, reduced, dated>>
              ELSE LET left == given[v] - Abs(new - old) IN
                   /\ given' = [given EXCEPT ![v] = left]
                   /\ reduced' = [reduced EXCEPT ![v] = [@ EXCEPT ![d] = new]]
                   /\ dated' = [dated EXCEPT ![d] = order]
                   /\ todo' = IF left <= rcredit[v] /\ ~PerDrop
                              THEN todo \ ({v} \X Drops)
                              ELSE todo \ {current}
      /\ UNCHANGED <<tables, due, requestVars, rsnap, rcredit, current, runVars,
                     faults, ghosts>>

EndRevocation ==
  /\ rpc' = "idle" /\ rsnap' = NoWork /\ rcredit' = [v \in Voters |-> 0]
  /\ todo' = {} /\ given' = [v \in Voters |-> 0]
  /\ current' = NoPair /\ order' = "newer" /\ ahead' = None
  /\ reduced' = NoVotes /\ dated' = [d \in Drops |-> "newer"] /\ held' = {}

(* Rolled back: the credits and the reductions are gone.                   *)
RevokerFails ==
  /\ rpc # "idle"
  /\ EndRevocation
  /\ UNCHANGED <<tables, due, requestVars, runVars, faults, ghosts>>

\* Votes the revocation has changed.
Revoked == {p \in Voters \X Drops : reduced[p[1]][p[2]] # rsnap.votes[p[1]][p[2]]}

\* Mutant: a reduction leaves no history row.
RecordedNowhere(d, n) == history[d]

\* The newest history rows of d when a row with vote n is added.
Recorded(d, n) ==
  CASE dated[d] = "newer" -> <<n>>
    [] dated[d] = "same" -> Append(history[d], n)
    [] dated[d] = "older" -> history[d]

RevokerCommits ==
  LET touched == {d \in Drops : \E v \in Voters : <<v, d>> \in Revoked}
      unseen == {v \in Voters : votes[v] # rsnap.votes[v]}
      newRank == [d \in Drops |-> [v \in Voters |->
                    rank[d][v] + (reduced[v][d] - rsnap.votes[v][d])]]
  IN  /\ rpc = "scan"
      /\ todo = {}
      /\ \A p \in Revoked : newRank[p[2]][p[1]] \in -RankBound .. RankBound
      /\ votes' = [v \in Voters |-> [d \in Drops |->
                     IF <<v, d>> \in Revoked THEN reduced[v][d]
                     ELSE votes[v][d]]]
      /\ rank' = newRank
      /\ history' = [d \in Drops |->
                       IF d \in touched THEN Recorded(d, Tally(newRank[d]))
                       ELSE history[d]]
      /\ credit' = rcredit
      /\ late' = late \cup {d \in touched \cap open : dated[d] # "newer"}
      /\ overlapped' = overlapped \cup
           {p \in Revoked : votes[p[1]][p[2]] # rsnap.votes[p[1]][p[2]]}
      /\ raced' = {v \in unseen : \/ v \in raced
                                  \/ rcredit[v] # credit[v]
                                  \/ reduced[v] # rsnap.votes[v]}
      /\ EndRevocation
      /\ UNCHANGED <<open, next, due, decided, final, archive, requestVars,
                     runVars, faults>>
-----------------------------------------------------------------------------
\* The decisions of the wave.

\* Mutant: only the latest overdue decision is made.
RunStartsAtLatest ==
  /\ run = "off"
  /\ next <= due
  /\ run' = "loop"
  /\ at' = due
  /\ upto' = due
  /\ UNCHANGED <<tables, due, requestVars, revokerVars, won, wvotes, faults,
                 ghosts>>

(* An invocation finds the wave when its next decision time has passed.    *)
(* Times up to the latest decision in wave_decisions are skipped.          *)
RunStarts ==
  /\ run = "off"
  /\ next <= due
  /\ run' = "loop"
  /\ \E latest \in decided \cup {0} : /\ \A t \in decided : t <= latest
                                    /\ at' = latest + 1
  /\ upto' = due
  /\ UNCHANGED <<tables, due, requestVars, revokerVars, won, wvotes, faults,
                 ghosts>>

\* Mutant: the loop does not move past a paused time.
RunSkipsNothing ==
  /\ run = "loop" /\ at <= upto
  /\ at \in Paused
  /\ UNCHANGED <<votes, rank, history, open, credit, next, decided, final,
                 archive, due, requestVars, revokerVars, runVars, faults, ghosts>>

(* A time that lies in a pause is passed over.                             *)
RunSkipsPaused ==
  /\ run = "loop" /\ at <= upto
  /\ at \in Paused
  /\ next' = at + 1
  /\ at' = at + 1
  /\ UNCHANGED <<votes, rank, history, open, credit, decided, final, archive,
                 due, requestVars, revokerVars, run, upto, won, wvotes, faults,
                 ghosts>>

\* Mutant: winners are not left out.
HistoryRowsOfAll ==
  UNION {{[drop |-> d, row |-> i, vote |-> history[d][i]] :
            i \in DOMAIN history[d]} : d \in Drops}

\* The newest history rows of the participatory drops.
HistoryRows ==
  UNION {{[drop |-> d, row |-> i, vote |-> history[d][i]] :
            i \in DOMAIN history[d]} : d \in open}

\* Results of "order by vote desc limit n": equal votes in either order.
Tops(rows) ==
  {top \in SUBSET rows :
     /\ Cardinality(top) = Min({TopN, Cardinality(rows)})
     /\ \A r \in top, o \in rows \ top : r.vote >= o.vote}

(* The first read of the decision's transaction picks the winners; what it *)
(* archives later is seen as of this read.                                 *)
RunReads(top) ==
  /\ run = "loop" /\ at <= upto
  /\ at \notin Paused
  /\ run' = "decide"
  /\ won' = top
  /\ wvotes' = votes
  /\ UNCHANGED <<tables, due, requestVars, revokerVars, at, upto, faults, ghosts>>

Winners == {r.drop : r \in won}

\* (decision_time, drop_id, wave_id) is the key of the winners' table.
NoDuplicates == Cardinality(Winners) = Cardinality(won)

\* Mutant: the archive is read outside the transaction.
ArchivedLater(d) == [v \in Voters |-> votes[v][d]]

\* The voters' states of d that are archived.
ArchivedVotes(d) == [v \in Voters |-> wvotes[v][d]]

(* The decision, its winners and their votes are written, the winners stop *)
(* being participatory and lose their rank, the wave waits for its next    *)
(* decision time.                                                          *)
RunDecides ==
  /\ run = "decide"
  /\ NoDuplicates
  /\ decided' = decided \cup {at}
  /\ final' = [d \in Drops |-> IF d \in Winners
                               THEN (CHOOSE r \in won : r.drop = d).vote
                               ELSE final[d]]
  /\ archive' = [d \in Drops |-> IF d \in Winners
                                 THEN ArchivedVotes(d) ELSE archive[d]]
  /\ open' = open \ Winners
  /\ rank' = [d \in Drops |-> IF d \in Winners THEN [v \in Voters |-> 0]
                              ELSE rank[d]]
  /\ next' = at + 1
  /\ at' = at + 1
  /\ run' = "loop"
  /\ won' = {} /\ wvotes' = NoVotes
  /\ UNCHANGED <<votes, history, credit, due, requestVars, revokerVars, upto,
                 faults, ghosts>>

EndRun == run' = "off" /\ at' = 0 /\ upto' = 0 /\ won' = {} /\ wvotes' = NoVotes

(* The same drop twice among the winners: the insert fails, the            *)
(* transaction is rolled back and the invocation ends.                     *)
RunFails ==
  /\ run = "decide"
  /\ ~NoDuplicates
  /\ EndRun
  /\ UNCHANGED <<tables, due, requestVars, revokerVars, faults, ghosts>>

RunEnds ==
  /\ run = "loop" /\ at > upto
  /\ EndRun
  /\ UNCHANGED <<tables, due, requestVars, revokerVars, faults, ghosts>>

(* The Lambda is killed, or its transaction fails.                         *)
RunDies ==
  /\ run # "off"
  /\ faults < MaxFaults
  /\ faults' = faults + 1
  /\ EndRun
  /\ UNCHANGED <<tables, due, requestVars, revokerVars, ghosts>>
-----------------------------------------------------------------------------
Voting ==
  \/ \E s \in Sessions, d \in Drops : Begin(s, d)
  \/ \E s \in Sessions, n \in VoteValues : Lock(s, n)
  \/ \E s \in Sessions : Abandon(s)
  \/ \E s \in Sessions, after \in Orders : Commit(s, after)

Revoking ==
  \/ \E v \in Voters, limit \in Credits : RevokerBegins(v, limit)
  \/ \E v \in Voters, d \in Drops : RevokerTakesTime(v, d)
  \/ RevokerReduces
  \/ RevokerFails
  \/ RevokerCommits

Deciding ==
  \/ RunStarts
  \/ RunSkipsPaused
  \/ \E top \in Tops(HistoryRows) : RunReads(top)
  \/ RunDecides
  \/ RunFails
  \/ RunEnds

Next == Tick \/ Voting \/ Revoking \/ Deciding \/ RunDies

Spec == Init /\ [][Next]_vars

(* Time passes, and the schedule (rate 1 minute) invokes the decision      *)
(* Lambda again and again; nothing is assumed of voters and revocations.   *)
FairSpec == Spec /\ WF_vars(Tick) /\ WF_vars(Deciding)
-----------------------------------------------------------------------------
(* A drop that can still win has, of every voter, exactly what that voter's *)
(* row in drop_voter_states says, whatever votes of others, reductions and *)
(* decisions were in between; except where a transaction replaced a vote   *)
(* it had not seen.                                                        *)
RankIsTally ==
  \A d \in open, v \in Voters :
    <<v, d>> \notin overlapped => rank[d][v] = votes[v][d]

(* The newest history row, from which winners are picked, is the drop's    *)
(* rank; except where a reduction is dated before or with a vote that it   *)
(* waited for.                                                             *)
HistoryIsCurrent ==
  \A d \in open \ late : history[d] = <<Tally(rank[d])>>

(* The final vote of a winner is the sum of the votes archived with it.    *)
FinalVoteIsArchived ==
  \A d \in Drops \ (open \cup late) :
    (\A v \in Voters : <<v, d>> \notin overlapped)
      => final[d] = Tally(archive[d])

(* Nobody's votes exceed the credit, also after the credit shrank and was  *)
(* followed by reductions; except for a voter one of whose transactions    *)
(* missed the other's vote or the new credit.                              *)
CreditKept ==
  \A v \in Voters \ raced :
    IF PerDrop THEN \A d \in open : Abs(votes[v][d]) <= credit[v]
    ELSE Spent(votes[v], open) <= credit[v]

(* The wave never moves past a decision time without a decision for it,    *)
(* unless the time is paused, however often the Lambda dies.               *)
NoDecisionLost ==
  \A t \in 1 .. Decisions : t < next => t \in decided \cup Paused

(* A winner stays a winner with the votes of its decision, whatever is     *)
(* still in flight or decided later.                                       *)
WinnersAreFinal ==
  [][\A d \in Drops \ open :
       d \notin open' /\ final'[d] = final[d] /\ archive'[d] = archive[d]]_vars

(* All decisions of the wave are made (or paused): votes are not blocked   *)
(* by an unresolved decision for ever; unless a drop again and again has   *)
(* two newest history rows, which can make it win twice at once.           *)
EveryDecisionIsMade ==
  \/ <>(next = Decisions + 1)
  \/ []<>(\E d \in open : Len(history[d]) > 1)

(* "This drop has already been declared as winner and doesn't accept new   *)
(* votes": the voters' states of a winner do not change.                   *)
WinnersTakeNoVotes ==
  [][\A d \in Drops \ open, v \in Voters : votes'[v][d] = votes[v][d]]_vars
=============================================================================
