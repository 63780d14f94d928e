--------------------------- MODULE DropVotingProofs ---------------------------
(***************************************************************************)
(* Proofs about DropVoting, for any number of voters, drops and requests   *)
(* in flight, any votes and credits and any schedule of decisions.  Up to  *)
(* the part on the credit the sum Tally stays folded: what is proved there *)
(* is which votes the sums are of.                                         *)
(***************************************************************************)
EXTENDS DropVoting, SumTheorems

(***************************************************************************)
(* The tables change in four ways only: a vote or a revocation commits, a  *)
(* decision passes over a paused time or is made.                          *)
(***************************************************************************)
LEMMA TableWrites ==
  ASSUME [Next]_vars
  PROVE  \/ UNCHANGED <<tables, ghosts>>
         \/ \E s \in Sessions, after \in Orders : Commit(s, after)
         \/ RevokerCommits
         \/ RunSkipsPaused
         \/ RunDecides
<1>1. Tick \/ RunDies \/ UNCHANGED vars => UNCHANGED <<tables, ghosts>>
  BY DEF Tick, RunDies, vars
<1>2. Voting => \/ UNCHANGED <<tables, ghosts>>
                \/ \E s \in Sessions, after \in Orders : Commit(s, after)
  BY DEF Voting, Begin, Lock, Abandon, ghosts, tables
<1>3. Revoking => UNCHANGED <<tables, ghosts>> \/ RevokerCommits
  BY DEF Revoking, RevokerBegins, RevokerTakesTime, RevokerReduces, RevokerFails
<1>4. Deciding => \/ UNCHANGED <<tables, ghosts>> \/ RunSkipsPaused \/ RunDecides
  BY DEF Deciding, RunStarts, RunReads, RunFails, RunEnds
<1> QED BY <1>1, <1>2, <1>3, <1>4 DEF Next

-----------------------------------------------------------------------------
\* Types.

(* The sum of a column of integers is an integer.                          *)
LEMMA TallyType ==
  ASSUME NEW f \in [Voters -> Int] PROVE Tally(f) \in Int
BY TotalType, ConstantsAssumption DEF Tally

(* What a voter has spent is a natural number.                             *)
LEMMA SpentType ==
  ASSUME NEW mine \in [Drops -> Int], NEW S \in SUBSET Drops
  PROVE  Spent(mine, S) \in Nat
<1> DEFINE f == [d \in S |-> Abs(mine[d])]
<1>1. \A d \in S : f[d] \in Nat
  BY DEF Abs
<1>2. IsFiniteSet(S)
  BY FS_Subset, ConstantsAssumption
<1> HIDE DEF f
<1>3. Total(f, S) \in Nat
  BY <1>1, <1>2, TotalNat
<1> QED BY <1>3 DEF Spent, f

(***************************************************************************)
(* The decision Lambda's position and what it has read keep their types.   *)
(***************************************************************************)
LEMMA RunTypes ==
  ASSUME TablesTypeOK, RunTypeOK, [Next]_vars
  PROVE  RunTypeOK'
<1> USE ConstantsAssumption
<1>1. CASE UNCHANGED <<runVars, faults>>
  BY <1>1 DEF RunTypeOK, runVars
<1>2. NoVotes \in [Voters -> [Drops -> Int]]
  BY DEF NoVotes
<1>3. CASE /\ EndRun
           /\ faults' = faults \/ (faults' = faults + 1 /\ faults < MaxFaults)
  BY <1>2, <1>3 DEF RunTypeOK, EndRun
<1>4. CASE RunStarts
  BY <1>4 DEF RunTypeOK, TablesTypeOK, RunStarts
<1>5. CASE RunSkipsPaused
  BY <1>5 DEF RunTypeOK, TablesTypeOK, RunSkipsPaused
<1>6. CASE \E top \in Tops(HistoryRows) : RunReads(top)
  <2>1. HistoryRows \subseteq [drop : Drops, row : Nat, vote : Int]
    <3>1. \A d \in open : d \in Drops /\ history[d] \in Seq(Int)
      BY DEF TablesTypeOK
    <3>2. \A d \in open : \A i \in DOMAIN history[d] : i \in Nat /\ history[d][i] \in Int
      BY <3>1
    <3> QED BY <3>1, <3>2 DEF HistoryRows
  <2>2. won' \subseteq HistoryRows
    BY <1>6 DEF RunReads, Tops
  <2> HIDE DEF HistoryRows
  <2>3. wvotes' = votes /\ run' = "decide" /\ at <= upto /\ run = "loop"
        /\ UNCHANGED <<at, upto, faults>>
    BY <1>6 DEF RunReads
  <2>4. won' \subseteq [drop : Drops, row : Nat, vote : Int]
    BY <2>1, <2>2
  <2> QED BY <2>3, <2>4 DEF RunTypeOK, TablesTypeOK
<1>7. CASE RunDecides
  BY <1>2, <1>7 DEF RunTypeOK, TablesTypeOK, RunDecides
<1>8. RunFails \/ RunEnds => EndRun /\ faults' = faults
  BY DEF RunFails, RunEnds
<1>9. RunDies => EndRun /\ faults' = faults + 1 /\ faults < MaxFaults
  BY DEF RunDies
<1>10. Tick \/ Voting \/ Revoking \/ UNCHANGED vars => UNCHANGED <<runVars, faults>>
  BY DEF Tick, Voting, Begin, Lock, Abandon, Commit, Revoking, RevokerBegins,
         RevokerTakesTime, RevokerReduces, RevokerFails, RevokerCommits, vars
<1> QED
  BY <1>1, <1>3, <1>4, <1>5, <1>6, <1>7, <1>8, <1>9, <1>10 DEF Next, Deciding

(***************************************************************************)
(* Requests keep their types; one that is on its way votes on a drop.      *)
(***************************************************************************)
LEMMA RequestTypes ==
  ASSUME TablesTypeOK, RequestsTypeOK, [Next]_vars
  PROVE  RequestsTypeOK'
<1> USE ConstantsAssumption
<1>1. CASE UNCHANGED requestVars
  BY <1>1 DEF RequestsTypeOK, requestVars
<1>2. NoSnap \in [votes : [Drops -> Int], open : SUBSET Drops,
                  next : 0 .. Decisions + 1, credit : Nat]
  BY DEF NoSnap
<1>3. ASSUME NEW s \in Sessions, EndRequest(s) PROVE RequestsTypeOK'
  BY <1>2, <1>3 DEF RequestsTypeOK, EndRequest
<1>4. ASSUME NEW s \in Sessions, NEW d \in Drops, Begin(s, d)
      PROVE  RequestsTypeOK'
  <2>1. [votes |-> votes[VoterOf[s]], open |-> open, next |-> next,
         credit |-> credit[VoterOf[s]]]
          \in [votes : [Drops -> Int], open : SUBSET Drops,
               next : 0 .. Decisions + 1, credit : Nat]
    BY DEF TablesTypeOK
  <2> QED BY <1>4, <2>1 DEF RequestsTypeOK, Begin
<1>5. ASSUME NEW s \in Sessions, NEW n \in VoteValues, Lock(s, n)
      PROVE  RequestsTypeOK'
  BY <1>5 DEF RequestsTypeOK, Lock
<1>6. Voting => \/ \E s \in Sessions : EndRequest(s)
                \/ \E s \in Sessions, d \in Drops : Begin(s, d)
                \/ \E s \in Sessions, n \in VoteValues : Lock(s, n)
  BY DEF Voting, Abandon, Commit
<1>7. Tick \/ RunDies \/ Revoking \/ Deciding \/ UNCHANGED vars
        => UNCHANGED requestVars
  BY DEF Tick, RunDies, vars, Revoking, RevokerBegins, RevokerTakesTime,
         RevokerReduces, RevokerFails, RevokerCommits, Deciding, RunStarts,
         RunSkipsPaused, RunReads, RunDecides, RunFails, RunEnds
<1> QED BY <1>1, <1>3, <1>4, <1>5, <1>6, <1>7 DEF Next

(***************************************************************************)
(* Requests do not touch what the revocation works on, but the holder that *)
(* it waits for may go, and a commit is dated against it.                  *)
(***************************************************************************)
LEMMA RevokerFrame ==
  ASSUME RequestsTypeOK, [Next]_vars, ~Revoking
  PROVE  /\ UNCHANGED <<rpc, rsnap, rcredit, todo, given, current, reduced,
                        dated, held>>
         /\ ahead' \in {ahead, None}
         /\ order' = order \/ order' \in Orders
<1>1. CASE Voting
  <2>1. CASE \E s \in Sessions, d \in Drops : Begin(s, d)
    BY <2>1 DEF Begin, revokerVars
  <2>2. CASE \E s \in Sessions, n \in VoteValues : Lock(s, n)
    BY <2>2 DEF Lock, revokerVars
  <2>3. CASE \E s \in Sessions : Abandon(s)
    BY <2>3 DEF Abandon, EndRequest
  <2>4. CASE \E s \in Sessions, after \in Orders : Commit(s, after)
    BY <2>4 DEF Commit, EndRequest
  <2> QED BY <1>1, <2>1, <2>2, <2>3, <2>4 DEF Voting
<1>2. Tick \/ RunDies \/ Deciding \/ UNCHANGED vars => UNCHANGED revokerVars
  BY DEF Tick, RunDies, vars, Deciding, RunStarts, RunSkipsPaused, RunReads,
         RunDecides, RunFails, RunEnds
<1> QED BY <1>1, <1>2 DEF Next, revokerVars

(***************************************************************************)
(* The revocation keeps its types; when it waits, it waits for a drop.     *)
(***************************************************************************)
LEMMA RevokerTypes ==
  ASSUME TablesTypeOK, RequestsTypeOK, RevokerTypeOK, [Next]_vars
  PROVE  RevokerTypeOK'
<1> USE ConstantsAssumption
<1>1. CASE ~Revoking
  BY <1>1, RevokerFrame DEF RevokerTypeOK
<1>2. NoVotes \in [Voters -> [Drops -> Int]]
  BY DEF NoVotes
<1>3. CASE EndRevocation
  BY <1>2, <1>3 DEF RevokerTypeOK, EndRevocation, NoWork, Orders
<1>4. ASSUME NEW v \in Voters, NEW limit \in Credits, RevokerBegins(v, limit)
      PROVE  RevokerTypeOK'
  <2>1. [credit EXCEPT ![v] = limit] \in [Voters -> Nat]
    BY DEF TablesTypeOK
  <2>2. \A u \in Voters : Spent(votes[u], open) \in Int
    <3>1. open \in SUBSET Drops /\ \A u \in Voters : votes[u] \in [Drops -> Int]
      BY DEF TablesTypeOK
    <3> QED BY <3>1, SpentType
  <2>3. given' \in [Voters -> Int]
    BY <1>4, <2>2 DEF RevokerBegins
  <2> QED BY <1>4, <2>1, <2>3 DEF RevokerTypeOK, TablesTypeOK, RevokerBegins
<1>5. ASSUME NEW v \in Voters, NEW d \in Drops, RevokerTakesTime(v, d)
      PROVE  RevokerTypeOK'
  <2>1. Holder(d) \in Sessions \cup {None}
    BY DEF Holder
  <2> QED BY <1>5, <2>1 DEF RevokerTypeOK, RevokerTakesTime, Orders
<1>6. CASE RevokerReduces
  <2> DEFINE v == current[1]
             d == current[2]
  <2>1. v \in Voters /\ d \in Drops
    BY <1>6 DEF RevokerTypeOK, RevokerReduces
  <2>2. PICK new \in NoMoreThan(rsnap.votes[v][d]) :
          \/ reduced' = reduced /\ dated' = dated
          \/ /\ reduced' = [reduced EXCEPT ![v] = [@ EXCEPT ![d] = new]]
             /\ dated' = [dated EXCEPT ![d] = order]
    BY <1>6 DEF RevokerReduces
  <2>3. rsnap.votes[v][d] \in Int
    BY <2>1 DEF RevokerTypeOK
  <2>4. new \in Int
    BY <2>2, <2>3 DEF NoMoreThan, Abs
  <2>5. [reduced EXCEPT ![v] = [@ EXCEPT ![d] = new]] \in [Voters -> [Drops -> Int]]
    <3>1. reduced[v] \in [Drops -> Int]
      BY <2>1 DEF RevokerTypeOK
    <3>2. [reduced[v] EXCEPT ![d] = new] \in [Drops -> Int]
      BY <3>1, <2>4
    <3> QED BY <3>2 DEF RevokerTypeOK
  <2>6. dated' \in [Drops -> Orders]
    <3>1. order \in Orders /\ dated \in [Drops -> Orders]
      BY DEF RevokerTypeOK
    <3> QED BY <2>1, <2>2, <3>1
  <2>9. reduced' \in [Voters -> [Drops -> Int]]
    BY <2>2, <2>5 DEF RevokerTypeOK
  <2>7. todo' \subseteq todo /\ held' \subseteq held \cup {d}
    BY <1>6 DEF RevokerReduces
  <2>8. /\ rpc' = "scan" /\ order' = "newer" /\ ahead' = None
        /\ UNCHANGED <<rsnap, rcredit, current>>
    BY <1>6 DEF RevokerReduces
  <2>10. given' \in [Voters -> Int]
    <3>1. PICK m \in NoMoreThan(rsnap.votes[v][d]) :
            given' = given \/ given' = [given EXCEPT ![v] = given[v] - Abs(m - rsnap.votes[v][d])]
      BY <1>6 DEF RevokerReduces
    <3>2. m \in Int /\ Abs(m - rsnap.votes[v][d]) \in Int
      BY <2>3, <3>1 DEF NoMoreThan, Abs
    <3> HIDE DEF v, d
    <3>3. given \in [Voters -> Int] /\ given[v] - Abs(m - rsnap.votes[v][d]) \in Int
      BY <2>1, <3>2 DEF RevokerTypeOK
    <3> QED BY <3>1, <3>3
  <2> QED BY <2>1, <2>6, <2>7, <2>8, <2>9, <2>10 DEF RevokerTypeOK, Orders
<1>7. RevokerFails \/ RevokerCommits => EndRevocation
  BY DEF RevokerFails, RevokerCommits
<1> QED BY <1>1, <1>3, <1>4, <1>5, <1>6, <1>7 DEF Revoking

(***************************************************************************)
(* Changing one entry of a table of integers leaves a table of integers.   *)
(***************************************************************************)
LEMMA EntryChanged ==
  ASSUME NEW A, NEW B, NEW f \in [A -> [B -> Int]], NEW a \in A, NEW b \in B,
         NEW n \in Int
  PROVE  [f EXCEPT ![a] = [@ EXCEPT ![b] = n]] \in [A -> [B -> Int]]
<1>1. [f[a] EXCEPT ![b] = n] \in [B -> Int]
  OBVIOUS
<1> QED BY <1>1

(***************************************************************************)
(* What a request adds to the rank is a number, for a drop and a voter.    *)
(***************************************************************************)
LEMMA CommitFacts ==
  ASSUME RequestsTypeOK, TablesTypeOK,
         NEW s \in Sessions, NEW after \in Orders, Commit(s, after)
  PROVE  /\ VoterOf[s] \in Voters /\ drop[s] \in Drops
         /\ vote[s] \in Int /\ snap[s].votes \in [Drops -> Int]
         /\ Change(s) = vote[s] - snap[s].votes[drop[s]]
         /\ Change(s) \in Int
         /\ rank[drop[s]] \in [Voters -> Int]
<1>1. VoterOf[s] \in Voters /\ drop[s] \in Drops
  BY ConstantsAssumption DEF RequestsTypeOK, Commit
<1>2. vote[s] \in Int /\ snap[s].votes \in [Drops -> Int]
  BY DEF RequestsTypeOK
<1> QED BY <1>1, <1>2, SMTT(20) DEF Change, TablesTypeOK

(***************************************************************************)
(* The tables keep their types.                                            *)
(***************************************************************************)
LEMMA TableTypes ==
  ASSUME StateTypeOK, [Next]_vars
  PROVE  TablesTypeOK' /\ GhostsTypeOK'
<1> USE ConstantsAssumption
<1>1. due' \in 0 .. Decisions
  <2>1. Tick => due' = due + 1 /\ due < Decisions
    BY DEF Tick
  <2>2. \/ Tick
        \/ due' = due
    BY DEF Next, vars, Voting, Begin, Lock, Abandon, Commit, Revoking,
           RevokerBegins, RevokerTakesTime, RevokerReduces, RevokerFails,
           RevokerCommits, Deciding, RunStarts, RunSkipsPaused, RunReads,
           RunDecides, RunFails, RunEnds, RunDies
  <2> QED BY <2>1, <2>2 DEF StateTypeOK, TablesTypeOK
<1>2. CASE UNCHANGED <<tables, ghosts>>
  BY <1>1, <1>2 DEF StateTypeOK, TablesTypeOK, GhostsTypeOK, tables, ghosts
<1>3. ASSUME NEW s \in Sessions, NEW after \in Orders, Commit(s, after)
      PROVE  TablesTypeOK' /\ GhostsTypeOK'
  <2> DEFINE v == VoterOf[s]
             d == drop[s]
  <2>1. /\ v \in Voters /\ d \in Drops /\ vote[s] \in Int
        /\ Change(s) \in Int
        /\ rank[d] \in [Voters -> Int]
    BY <1>3, CommitFacts DEF StateTypeOK
  <2>2. votes' = [votes EXCEPT ![v] = [@ EXCEPT ![d] = vote[s]]]
    BY <1>3 DEF Commit
  <2>3. votes' \in [Voters -> [Drops -> Int]]
    <3>1. votes \in [Voters -> [Drops -> Int]]
      BY DEF StateTypeOK, TablesTypeOK
    <3> HIDE DEF v, d
    <3>2. [votes EXCEPT ![v] = [@ EXCEPT ![d] = vote[s]]] \in [Voters -> [Drops -> Int]]
      BY <2>1, <3>1, EntryChanged
    <3> QED BY <2>2, <3>2
  <2>4. rank' = [rank EXCEPT ![d] = [rank[d] EXCEPT ![v] = @ + Change(s)]]
    BY <1>3 DEF Commit
  <2>5. [rank[d] EXCEPT ![v] = @ + Change(s)] \in [Voters -> Int]
    BY <2>1
  <2>6. rank' \in [Drops -> [Voters -> Int]]
    BY <2>4, <2>5 DEF StateTypeOK, TablesTypeOK
  <2>7. UNCHANGED <<open, credit, next, decided, archive, late, final>>
    BY <1>3 DEF Commit
  <2>8. overlapped' \subseteq overlapped \cup {<<v, d>>} /\ raced' \subseteq raced \cup {v}
    BY <1>3 DEF Commit
  <2>9. history' \in [Drops -> Seq(Int)]
    <3> DEFINE newRank == [rank[d] EXCEPT ![v] = @ + Change(s)]
    <3>1. history' = [history EXCEPT ![d] = <<Tally(newRank)>>]
      BY <1>3 DEF Commit
    <3>2. newRank \in [Voters -> Int]
      BY <2>5
    <3> HIDE DEF newRank, d, v
    <3>3. <<Tally(newRank)>> \in Seq(Int)
      BY <3>2, TallyType
    <3> QED BY <2>1, <3>1, <3>3 DEF StateTypeOK, TablesTypeOK
  <2>10. TablesTypeOK'
    BY <1>1, <2>3, <2>6, <2>7, <2>9 DEF StateTypeOK, TablesTypeOK
  <2> QED BY <2>1, <2>7, <2>8, <2>10 DEF StateTypeOK, GhostsTypeOK
<1>4. CASE RevokerCommits
  <2>1. votes' \in [Voters -> [Drops -> Int]]
    BY <1>4 DEF RevokerCommits, StateTypeOK, TablesTypeOK, RevokerTypeOK
  <2>2. rank' = [d \in Drops |-> [v \in Voters |->
                   rank[d][v] + (reduced[v][d] - rsnap.votes[v][d])]]
    BY <1>4 DEF RevokerCommits
  <2>3. \A v \in Voters, d \in Drops :
          rank[d][v] \in Int /\ reduced[v][d] \in Int /\ rsnap.votes[v][d] \in Int
    BY DEF StateTypeOK, TablesTypeOK, RevokerTypeOK
  <2>4. rank' \in [Drops -> [Voters -> Int]]
    BY <2>2, <2>3
  <2>5. credit' \in [Voters -> Nat]
    BY <1>4 DEF RevokerCommits, StateTypeOK, RevokerTypeOK
  <2>6. UNCHANGED <<open, next, decided, archive, final>>
    BY <1>4 DEF RevokerCommits
  <2>7. /\ late' \subseteq Drops /\ raced' \subseteq Voters
        /\ overlapped' \subseteq Voters \X Drops
    BY <1>4 DEF RevokerCommits, Revoked, StateTypeOK, GhostsTypeOK
  <2>8. history' \in [Drops -> Seq(Int)]
    <3>1. \A d \in Drops : Tally(rank'[d]) \in Int /\ history[d] \in Seq(Int)
      BY <2>4, TallyType DEF StateTypeOK, TablesTypeOK
    <3>2. \A d \in Drops : dated[d] \in Orders
      BY DEF StateTypeOK, RevokerTypeOK
    <3>3. \A d \in Drops : Recorded(d, Tally(rank'[d])) \in Seq(Int)
      BY <3>1, <3>2 DEF Recorded, Orders
    <3> DEFINE touched == {d \in Drops : \E v \in Voters : <<v, d>> \in Revoked}
    <3>4. history' = [d \in Drops |-> IF d \in touched THEN Recorded(d, Tally(rank'[d]))
                                      ELSE history[d]]
      BY <1>4, <2>2 DEF RevokerCommits
    <3> HIDE DEF touched
    <3> QED BY <3>1, <3>3, <3>4
  <2> QED BY <1>1, <2>1, <2>4, <2>5, <2>6, <2>7, <2>8
          DEF StateTypeOK, TablesTypeOK, GhostsTypeOK
<1>5. CASE RunSkipsPaused
  <2>1. next' \in 1 .. Decisions + 1
    BY <1>5 DEF RunSkipsPaused, StateTypeOK, TablesTypeOK, RunTypeOK
  <2>2. UNCHANGED <<votes, rank, history, open, credit, decided, final, archive, ghosts>>
    BY <1>5 DEF RunSkipsPaused
  <2> QED BY <1>1, <2>1, <2>2 DEF StateTypeOK, TablesTypeOK, GhostsTypeOK, ghosts
<1>6. CASE RunDecides
  <2>1. /\ next' \in 1 .. Decisions + 1
        /\ decided' \subseteq 1 .. Decisions
    BY <1>6 DEF RunDecides, StateTypeOK, TablesTypeOK, RunTypeOK
  <2>2. open' \subseteq Drops
    BY <1>6 DEF RunDecides, StateTypeOK, TablesTypeOK
  <2>3. archive' \in [Drops -> [Voters -> Int]]
    BY <1>6 DEF RunDecides, ArchivedVotes, StateTypeOK, TablesTypeOK, RunTypeOK
  <2>4. rank' \in [Drops -> [Voters -> Int]]
    BY <1>6 DEF RunDecides, StateTypeOK, TablesTypeOK
  <2>5. UNCHANGED <<votes, history, credit, ghosts>>
    BY <1>6 DEF RunDecides
  <2>6. final' \in [Drops -> Int]
    <3>1. \A r \in won : r.vote \in Int
      BY DEF StateTypeOK, RunTypeOK
    <3>2. \A d \in Winners : (CHOOSE r \in won : r.drop = d) \in won
      BY DEF Winners
    <3> QED BY <1>6, <3>1, <3>2 DEF RunDecides, StateTypeOK, TablesTypeOK
  <2> QED BY <1>1, <2>1, <2>2, <2>3, <2>4, <2>5, <2>6
          DEF StateTypeOK, TablesTypeOK, GhostsTypeOK, ghosts
<1> QED BY <1>2, <1>3, <1>4, <1>5, <1>6, TableWrites

(***************************************************************************)
(* The initial state, where nobody has voted, has the types.               *)
(***************************************************************************)
LEMMA StateTypeInit == Init => StateTypeOK
<1> SUFFICES ASSUME Init PROVE StateTypeOK
  OBVIOUS
<1> USE ConstantsAssumption
<1>1. NoVotes \in [Voters -> [Drops -> Int]]
  BY DEF NoVotes
<1>2. NoSnap \in [votes : [Drops -> Int], open : SUBSET Drops,
                  next : 0 .. Decisions + 1, credit : Nat]
  BY DEF NoSnap
<1>3. NoWork \in [votes : [Voters -> [Drops -> Int]], open : SUBSET Drops]
  BY <1>1 DEF NoWork
<1>4. TablesTypeOK /\ GhostsTypeOK
  BY <1>1 DEF Init, TablesTypeOK, GhostsTypeOK
<1>5. RequestsTypeOK
  BY <1>2 DEF Init, RequestsTypeOK
<1>6. RevokerTypeOK
  BY <1>1, <1>3 DEF Init, RevokerTypeOK, Orders
<1>7. RunTypeOK
  BY <1>1 DEF Init, RunTypeOK
<1> QED BY <1>4, <1>5, <1>6, <1>7 DEF StateTypeOK

(***************************************************************************)
(* Every step keeps the types.                                             *)
(***************************************************************************)
LEMMA StateTypeStep ==
  ASSUME StateTypeOK, [Next]_vars
  PROVE  StateTypeOK'
<1> QED BY RunTypes, RequestTypes, RevokerTypes, TableTypes DEF StateTypeOK

(***************************************************************************)
(* The state keeps its types for all values of the constants: a request    *)
(* on its way votes on a drop, a revocation waits for a drop, a decision   *)
(* that is made is one of the wave's.                                      *)
(***************************************************************************)
THEOREM StateTypeCorrect == Spec => []StateTypeOK
<1> QED BY StateTypeInit, StateTypeStep, PTL DEF Spec

-----------------------------------------------------------------------------
\* The rank of a drop, and its history.

(***************************************************************************)
(* What a vote does: it changes the voter's row and the voter's share of   *)
(* the rank of one drop, and the newest history row is the new rank.       *)
(***************************************************************************)
LEMMA AfterCommit ==
  ASSUME StateTypeOK, DOMAIN history = Drops,
         NEW s \in Sessions, NEW after \in Orders, Commit(s, after)
  PROVE  /\ drop[s] \in Drops
         /\ \A d \in Drops, v \in Voters :
              IF d = drop[s] /\ v = VoterOf[s]
              THEN /\ votes'[v][d] = vote[s]
                   /\ rank'[d][v] = rank[d][v] + (vote[s] - snap[s].votes[d])
                   /\ votes[v][d] # snap[s].votes[d] => <<v, d>> \in overlapped'
              ELSE votes'[v][d] = votes[v][d] /\ rank'[d][v] = rank[d][v]
         /\ \A d \in Drops \ {drop[s]} :
              rank'[d] = rank[d] /\ history'[d] = history[d]
         /\ history'[drop[s]] = <<Tally(rank'[drop[s]])>>
         /\ DOMAIN history' = Drops
         /\ overlapped \subseteq overlapped'
         /\ UNCHANGED <<open, late, final, archive>>
<1> DEFINE u == VoterOf[s]
           e == drop[s]
           newRank == [rank[e] EXCEPT ![u] = @ + Change(s)]
<1>1. /\ u \in Voters /\ e \in Drops
      /\ vote[s] \in Int /\ snap[s].votes \in [Drops -> Int]
      /\ Change(s) = vote[s] - snap[s].votes[e]
      /\ rank[e] \in [Voters -> Int]
  BY CommitFacts DEF StateTypeOK
<1>2. /\ votes \in [Voters -> [Drops -> Int]]
      /\ rank \in [Drops -> [Voters -> Int]]
  BY DEF StateTypeOK, TablesTypeOK
<1>3. /\ votes' = [votes EXCEPT ![u] = [@ EXCEPT ![e] = vote[s]]]
      /\ rank' = [rank EXCEPT ![e] = newRank]
      /\ history' = [history EXCEPT ![e] = <<Tally(newRank)>>]
      /\ overlapped' = IF votes[u][e] # snap[s].votes[e]
                       THEN overlapped \cup {<<u, e>>} ELSE overlapped
      /\ UNCHANGED <<open, late, final, archive>>
  BY DEF Commit
<1>4. \A d \in Drops, v \in Voters :
        votes'[v][d] = IF d = e /\ v = u THEN vote[s] ELSE votes[v][d]
  BY <1>1, <1>2, <1>3
<1>5. \A v \in Voters :
        newRank[v] = IF v = u THEN rank[e][v] + Change(s) ELSE rank[e][v]
  BY <1>1
<1>6. rank'[e] = newRank /\ \A d \in Drops \ {e} : rank'[d] = rank[d]
  BY <1>1, <1>2, <1>3
<1>7. /\ history'[e] = <<Tally(rank'[e])>>
      /\ \A d \in Drops \ {e} : history'[d] = history[d]
      /\ DOMAIN history' = Drops
  BY <1>1, <1>3, <1>6
<1>8. /\ overlapped \subseteq overlapped'
      /\ votes[u][e] # snap[s].votes[e] => <<u, e>> \in overlapped'
  BY <1>3
<1> HIDE DEF newRank
<1>9. \A d \in Drops, v \in Voters :
        IF d = e /\ v = u
        THEN rank'[d][v] = rank[d][v] + (vote[s] - snap[s].votes[d])
        ELSE rank'[d][v] = rank[d][v]
  BY <1>1, <1>5, <1>6
<1> QED BY <1>1, <1>3, <1>4, <1>6, <1>7, <1>8, <1>9

(***************************************************************************)
(* What a revocation does to each drop, seen or not by its voter's other   *)
(* transactions.                                                           *)
(***************************************************************************)
LEMMA AfterRevocation ==
  ASSUME StateTypeOK, RevokerCommits
  PROVE  /\ \A d \in Drops, v \in Voters :
              IF <<v, d>> \in Revoked
              THEN /\ votes'[v][d] = reduced[v][d]
                   /\ rank'[d][v]
                        = rank[d][v] + (reduced[v][d] - rsnap.votes[v][d])
                   /\ votes[v][d] # rsnap.votes[v][d] => <<v, d>> \in overlapped'
              ELSE votes'[v][d] = votes[v][d] /\ rank'[d][v] = rank[d][v]
         /\ overlapped \subseteq overlapped' /\ late \subseteq late'
         /\ late' \subseteq late \cup open
         /\ UNCHANGED <<open, final, archive>>
<1>1. \A d \in Drops, v \in Voters :
        /\ rank[d][v] \in Int /\ reduced[v][d] \in Int
        /\ rsnap.votes[v][d] \in Int
  BY DEF StateTypeOK, TablesTypeOK, RevokerTypeOK
<1>2. \A d \in Drops, v \in Voters :
        /\ <<v, d>> \in Revoked <=> reduced[v][d] # rsnap.votes[v][d]
        /\ rank'[d][v] = rank[d][v] + (reduced[v][d] - rsnap.votes[v][d])
        /\ votes'[v][d] = IF <<v, d>> \in Revoked THEN reduced[v][d]
                          ELSE votes[v][d]
  BY DEF RevokerCommits, Revoked
<1>3. \A d \in Drops, v \in Voters :
        <<v, d>> \in Revoked /\ votes[v][d] # rsnap.votes[v][d]
          => <<v, d>> \in overlapped'
  BY DEF RevokerCommits
<1>4. /\ overlapped \subseteq overlapped' /\ late \subseteq late'
      /\ late' \subseteq late \cup open
      /\ UNCHANGED <<open, final, archive>>
  BY DEF RevokerCommits
<1> QED BY <1>1, <1>2, <1>3, <1>4

(***************************************************************************)
(* The rank of a drop that can still win is made of its voters' votes: a   *)
(* step that adds the difference of two votes replaces the vote that was   *)
(* there, or the pair is recorded as overlapped.                           *)
(***************************************************************************)
LEMMA RankStep ==
  ASSUME StateTypeOK, DOMAIN history = Drops, RankIsTally, [Next]_vars
  PROVE  RankIsTally'
<1>1. CASE UNCHANGED <<tables, ghosts>>
  BY <1>1 DEF RankIsTally, tables, ghosts
<1>2. ASSUME NEW s \in Sessions, NEW after \in Orders, Commit(s, after)
      PROVE  RankIsTally'
  <2> SUFFICES ASSUME NEW d \in open', NEW v \in Voters,
                      <<v, d>> \notin overlapped'
               PROVE  rank'[d][v] = votes'[v][d]
    BY DEF RankIsTally
  <2>1. d \in Drops /\ d \in open /\ <<v, d>> \notin overlapped
    BY <1>2, AfterCommit DEF StateTypeOK, TablesTypeOK
  <2>2. rank[d][v] = votes[v][d]
    BY <2>1 DEF RankIsTally
  <2>3. votes[v][d] \in Int /\ vote[s] \in Int
    BY <2>1 DEF StateTypeOK, TablesTypeOK, RequestsTypeOK
  <2>4. CASE d = drop[s] /\ v = VoterOf[s]
    <3>1. /\ votes'[v][d] = vote[s]
          /\ rank'[d][v] = rank[d][v] + (vote[s] - snap[s].votes[d])
          /\ votes[v][d] = snap[s].votes[d]
      BY <1>2, <2>1, <2>4, AfterCommit
    <3> QED BY <2>2, <2>3, <3>1
  <2>5. CASE ~(d = drop[s] /\ v = VoterOf[s])
    <3>1. votes'[v][d] = votes[v][d] /\ rank'[d][v] = rank[d][v]
      BY <1>2, <2>1, <2>5, AfterCommit
    <3> QED BY <2>2, <3>1
  <2> QED BY <2>4, <2>5
<1>3. CASE RevokerCommits
  <2> SUFFICES ASSUME NEW d \in open', NEW v \in Voters,
                      <<v, d>> \notin overlapped'
               PROVE  rank'[d][v] = votes'[v][d]
    BY DEF RankIsTally
  <2>1. d \in Drops /\ d \in open /\ <<v, d>> \notin overlapped
    BY <1>3, AfterRevocation DEF StateTypeOK, TablesTypeOK
  <2>2. rank[d][v] = votes[v][d]
    BY <2>1 DEF RankIsTally
  <2>3. votes[v][d] \in Int /\ reduced[v][d] \in Int
    BY <2>1 DEF StateTypeOK, TablesTypeOK, RevokerTypeOK
  <2>4. IF <<v, d>> \in Revoked
        THEN /\ votes'[v][d] = reduced[v][d]
             /\ rank'[d][v] = rank[d][v] + (reduced[v][d] - rsnap.votes[v][d])
             /\ votes[v][d] = rsnap.votes[v][d]
        ELSE votes'[v][d] = votes[v][d] /\ rank'[d][v] = rank[d][v]
    BY <1>3, <2>1, AfterRevocation
  <2> QED BY <2>2, <2>3, <2>4
<1>4. CASE RunSkipsPaused
  BY <1>4 DEF RankIsTally, RunSkipsPaused, ghosts
<1>5. CASE RunDecides
  <2>1. \A d \in open' : d \in open /\ rank'[d] = rank[d]
    BY <1>5 DEF RunDecides, StateTypeOK, TablesTypeOK
  <2> QED BY <1>5, <2>1 DEF RankIsTally, RunDecides, ghosts
<1> QED BY <1>1, <1>2, <1>3, <1>4, <1>5, TableWrites

(***************************************************************************)
(* The newest history row is the rank: a drop whose rank a revocation      *)
(* changes gets a row, and only a late one is not the newest.              *)
(***************************************************************************)
LEMMA HistoryStep ==
  ASSUME StateTypeOK, DOMAIN history = Drops, HistoryIsCurrent, [Next]_vars
  PROVE  DOMAIN history' = Drops /\ HistoryIsCurrent'
<1> USE DEF HistoryIsCurrent
<1>1. CASE UNCHANGED <<tables, ghosts>>
  BY <1>1 DEF tables, ghosts
<1>2. ASSUME NEW s \in Sessions, NEW after \in Orders, Commit(s, after)
      PROVE  DOMAIN history' = Drops /\ HistoryIsCurrent'
  <2>1. \A d \in open' \ late' : d \in Drops /\ d \in open \ late
    BY <1>2, AfterCommit DEF StateTypeOK, TablesTypeOK
  <2>2. \A d \in open' \ late' : history'[d] = <<Tally(rank'[d])>>
    BY <1>2, <2>1, AfterCommit
  <2> QED BY <1>2, <2>2, AfterCommit
<1>3. CASE RevokerCommits
  <2> DEFINE touched == {d \in Drops : \E v \in Voters : <<v, d>> \in Revoked}
             newRank == [d \in Drops |-> [v \in Voters |->
                           rank[d][v] + (reduced[v][d] - rsnap.votes[v][d])]]
  <2>1. /\ rank' = newRank
        /\ history' = [d \in Drops |->
                         IF d \in touched THEN Recorded(d, Tally(newRank[d]))
                         ELSE history[d]]
        /\ late' = late \cup {d \in touched \cap open : dated[d] # "newer"}
        /\ open' = open
    BY <1>3 DEF RevokerCommits
  <2>2. ASSUME NEW d \in Drops, d \notin touched
        PROVE  newRank[d] = rank[d]
    <3>1. \A v \in Voters : reduced[v][d] = rsnap.votes[v][d]
      BY <2>2 DEF Revoked
    <3>2. \A v \in Voters : /\ rank[d][v] \in Int
                            /\ rsnap.votes[v][d] \in Int
      BY DEF StateTypeOK, TablesTypeOK, RevokerTypeOK
    <3>3. rank[d] \in [Voters -> Int]
      BY DEF StateTypeOK, TablesTypeOK
    <3>4. newRank[d] = [v \in Voters |-> rank[d][v]]
      BY <3>1, <3>2
    <3> QED BY <3>3, <3>4
  <2> HIDE DEF touched, newRank
  <2>3. ASSUME NEW d \in open \ late' PROVE history'[d] = <<Tally(rank'[d])>>
    <3>1. d \in Drops /\ d \notin late
      BY <2>1 DEF StateTypeOK, TablesTypeOK
    <3>2. CASE d \in touched
      <4>1. dated[d] = "newer"
        BY <2>1, <3>2
      <4>2. Recorded(d, Tally(newRank[d])) = <<Tally(newRank[d])>>
        BY <4>1 DEF Recorded
      <4> QED BY <2>1, <3>1, <3>2, <4>2
    <3>3. CASE d \notin touched
      BY <2>1, <2>2, <3>1, <3>3
    <3> QED BY <3>2, <3>3
  <2> QED BY <2>1, <2>3
<1>4. CASE RunSkipsPaused
  BY <1>4 DEF RunSkipsPaused, ghosts
<1>5. CASE RunDecides
  <2>1. \A d \in open' : d \in open /\ rank'[d] = rank[d]
    BY <1>5 DEF RunDecides, StateTypeOK, TablesTypeOK
  <2> QED BY <1>5, <2>1 DEF RunDecides, ghosts
<1> QED BY <1>1, <1>2, <1>3, <1>4, <1>5, TableWrites

-----------------------------------------------------------------------------
\* Decisions.

(***************************************************************************)
(* The times up to that of any decision, and those before the one the      *)
(* Lambda works on, are decided or paused.                                 *)
(***************************************************************************)
Settled(t) == t \in decided \cup Paused

SettledInOrder ==
  /\ \A u \in decided : \A t \in 1 .. Decisions : t < u => Settled(t)
  /\ run # "off" => \A t \in 1 .. Decisions : t < at => Settled(t)

(***************************************************************************)
(* An invocation starts after the latest decision and passes over paused   *)
(* times only, so that what lies behind it stays settled.                  *)
(***************************************************************************)
LEMMA SettledStep ==
  ASSUME StateTypeOK, SettledInOrder, NoDecisionLost, [Next]_vars
  PROVE  SettledInOrder' /\ NoDecisionLost'
<1> USE DEF SettledInOrder, NoDecisionLost, Settled
<1>1. decided \subseteq Int /\ at \in Int /\ next \in Int /\ Decisions \in Int
  BY ConstantsAssumption DEF StateTypeOK, TablesTypeOK, RunTypeOK
<1>2. CASE UNCHANGED <<decided, next, run, at>>
  BY <1>2
<1>3. CASE UNCHANGED <<decided, next>> /\ run' = "off"
  BY <1>3
<1>4. CASE RunStarts
  <2>1. PICK latest \in decided \cup {0} :
          (\A t \in decided : t <= latest) /\ at' = latest + 1
    BY <1>4 DEF RunStarts
  <2>2. \A t \in 1 .. Decisions : t < at' => Settled(t)
    BY <1>1, <2>1
  <2> QED BY <1>4, <2>2 DEF RunStarts, tables
<1>5. CASE RunSkipsPaused
  <2>1. \A t \in 1 .. Decisions : t < at + 1 => Settled(t)
    BY <1>1, <1>5 DEF RunSkipsPaused
  <2> QED BY <1>5, <2>1 DEF RunSkipsPaused
<1>6. CASE \E top \in Tops(HistoryRows) : RunReads(top)
  BY <1>6 DEF RunReads, tables
<1>7. CASE RunDecides
  <2>1. /\ decided' = decided \cup {at} /\ next' = at + 1 /\ at' = at + 1
        /\ run = "decide"
    BY <1>7 DEF RunDecides
  <2>2. \A t \in 1 .. Decisions : t < at + 1 => t \in decided' \cup Paused
    BY <1>1, <2>1
  <2>3. \A u \in decided' : \A t \in 1 .. Decisions :
          t < u => t \in decided' \cup Paused
    BY <1>1, <2>1, <2>2
  <2> QED BY <2>1, <2>2, <2>3
<1>8. RunFails \/ RunEnds \/ RunDies => UNCHANGED <<decided, next>> /\ run' = "off"
  BY DEF RunFails, RunEnds, RunDies, EndRun, tables
<1>9. Tick \/ Voting \/ Revoking \/ UNCHANGED vars
        => UNCHANGED <<decided, next, run, at>>
  BY DEF Tick, Voting, Begin, Lock, Abandon, Commit, Revoking, RevokerBegins,
         RevokerTakesTime, RevokerReduces, RevokerFails, RevokerCommits, vars,
         runVars, tables
<1> QED BY <1>2, <1>3, <1>4, <1>5, <1>6, <1>7, <1>8, <1>9 DEF Next, Deciding

(***************************************************************************)
(* A winner that has been read is still open when it is decided on, and    *)
(* the vote read with it is the sum of the votes that will be archived.    *)
(***************************************************************************)
Traced(d) == d \notin late /\ \A v \in Voters : <<v, d>> \notin overlapped

WonOK ==
  run = "decide" =>
    \A r \in won : /\ r.drop \in open
                   /\ Traced(r.drop) => r.vote = Tally(ArchivedVotes(r.drop))

VotingInv ==
  /\ StateTypeOK
  /\ DOMAIN history = Drops
  /\ RankIsTally
  /\ HistoryIsCurrent
  /\ SettledInOrder
  /\ NoDecisionLost
  /\ WonOK
  /\ FinalVoteIsArchived

(***************************************************************************)
(* A drop only leaves open in a decision; what is lost of its votes stays  *)
(* lost.                                                                   *)
(***************************************************************************)
LEMMA OpenFrame ==
  ASSUME StateTypeOK, DOMAIN history = Drops, [Next]_vars, ~RunDecides
  PROVE  /\ UNCHANGED <<open, final, archive>>
         /\ overlapped \subseteq overlapped' /\ late \subseteq late'
         /\ late' \subseteq late \cup open
<1>1. UNCHANGED <<tables, ghosts>> \/ RunSkipsPaused
        => UNCHANGED <<open, final, archive, ghosts>>
  BY DEF RunSkipsPaused, tables
<1>2. ASSUME NEW s \in Sessions, NEW after \in Orders, Commit(s, after)
      PROVE  /\ UNCHANGED <<open, final, archive, late>>
             /\ overlapped \subseteq overlapped'
  BY <1>2, AfterCommit
<1> QED BY <1>1, <1>2, AfterRevocation, TableWrites DEF ghosts

(***************************************************************************)
(* The winners are read from the history and the votes in one read, of the *)
(* same state.                                                             *)
(***************************************************************************)
LEMMA WonStep ==
  ASSUME VotingInv, [Next]_vars
  PROVE  WonOK'
<1> USE DEF VotingInv
<1>1. CASE UNCHANGED <<run, won, wvotes>> /\ ~RunDecides
  <2> SUFFICES ASSUME run = "decide", NEW r \in won
               PROVE  /\ r.drop \in open'
                      /\ Traced(r.drop)' => r.vote = Tally(ArchivedVotes(r.drop))
    BY <1>1 DEF WonOK, ArchivedVotes
  <2>1. Traced(r.drop)' => Traced(r.drop)
    BY <1>1, OpenFrame DEF Traced
  <2> QED BY <1>1, <2>1, OpenFrame DEF WonOK
<1>2. CASE run' # "decide"
  BY <1>2 DEF WonOK
<1>3. ASSUME NEW top \in Tops(HistoryRows), RunReads(top)
      PROVE  WonOK'
  <2>1. /\ won' = top /\ wvotes' = votes
        /\ UNCHANGED <<open, late, overlapped>>
    BY <1>3 DEF RunReads, tables, ghosts
  <2> SUFFICES ASSUME NEW r \in top
               PROVE  /\ r.drop \in open
                      /\ Traced(r.drop)
                          => r.vote = Tally([v \in Voters |-> votes[v][r.drop]])
    BY <2>1 DEF WonOK, Traced, ArchivedVotes
  <2>2. r \in HistoryRows
    BY DEF Tops
  <2>3. PICK d \in open : \E i \in DOMAIN history[d] :
               r = [drop |-> d, row |-> i, vote |-> history[d][i]]
    BY <2>2 DEF HistoryRows
  <2>4. ASSUME Traced(d)
        PROVE  r.vote = Tally([v \in Voters |-> votes[v][d]])
    <3>1. d \in Drops /\ rank[d] \in [Voters -> Int]
      BY DEF StateTypeOK, TablesTypeOK
    <3>2. history[d] = <<Tally(rank[d])>>
      BY <2>4 DEF Traced, HistoryIsCurrent
    <3>3. r.vote = Tally(rank[d])
      BY <2>3, <3>2
    <3>4. \A v \in Voters : rank[d][v] = votes[v][d]
      BY <2>4 DEF Traced, RankIsTally
    <3>5. rank[d] = [v \in Voters |-> votes[v][d]]
      BY <3>1, <3>4
    <3> QED BY <3>3, <3>5
  <2>5. r.drop = d
    BY <2>3
  <2> QED BY <2>4, <2>5
<1>4. RunDecides \/ RunStarts \/ RunFails \/ RunEnds \/ RunDies => run' # "decide"
  BY DEF RunDecides, RunStarts, RunFails, RunEnds, RunDies, EndRun
<1>5. Tick \/ Voting \/ Revoking \/ RunSkipsPaused \/ UNCHANGED vars
        => UNCHANGED <<run, won, wvotes>>
  BY DEF Tick, Voting, Begin, Lock, Abandon, Commit, Revoking, RevokerBegins,
         RevokerTakesTime, RevokerReduces, RevokerFails, RevokerCommits,
         RunSkipsPaused, vars, runVars
<1> QED BY <1>1, <1>2, <1>3, <1>4, <1>5 DEF Next, Deciding

(***************************************************************************)
(* What a decision writes of the winners is what it has read.              *)
(***************************************************************************)
LEMMA FinalStep ==
  ASSUME VotingInv, [Next]_vars
  PROVE  FinalVoteIsArchived'
<1> USE DEF VotingInv
<1>1. CASE ~RunDecides
  <2> SUFFICES ASSUME NEW d \in Drops \ (open' \cup late'),
                      \A v \in Voters : <<v, d>> \notin overlapped'
               PROVE  final'[d] = Tally(archive'[d])
    BY DEF FinalVoteIsArchived
  <2>1. /\ d \in Drops \ (open \cup late)
        /\ \A v \in Voters : <<v, d>> \notin overlapped
        /\ final' = final /\ archive' = archive
    BY <1>1, OpenFrame
  <2>2. final[d] = Tally(archive[d])
    BY <2>1 DEF FinalVoteIsArchived
  <2> QED BY <2>1, <2>2
<1>2. CASE RunDecides
  <2> SUFFICES ASSUME NEW d \in Drops \ (open' \cup late'),
                      \A v \in Voters : <<v, d>> \notin overlapped'
               PROVE  final'[d] = Tally(archive'[d])
    BY DEF FinalVoteIsArchived
  <2>1. /\ run = "decide" /\ open' = open \ Winners
        /\ final' = [e \in Drops |-> IF e \in Winners
                                     THEN (CHOOSE r \in won : r.drop = e).vote
                                     ELSE final[e]]
        /\ archive' = [e \in Drops |-> IF e \in Winners
                                       THEN ArchivedVotes(e) ELSE archive[e]]
        /\ overlapped' = overlapped /\ late' = late
    BY <1>2 DEF RunDecides, ghosts
  <2>2. CASE d \in Winners
    <3> DEFINE r == CHOOSE r \in won : r.drop = d
    <3>1. r \in won /\ r.drop = d
      BY <2>2 DEF Winners
    <3>2. Traced(d)
      BY <2>1 DEF Traced
    <3>3. r.vote = Tally(ArchivedVotes(d))
      BY <2>1, <3>1, <3>2 DEF WonOK
    <3>4. final'[d] = r.vote /\ archive'[d] = ArchivedVotes(d)
      BY <2>1, <2>2
    <3> QED BY <3>3, <3>4
  <2>3. CASE d \notin Winners
    <3>1. d \in Drops \ (open \cup late)
      BY <2>1, <2>3
    <3>2. final[d] = Tally(archive[d])
      BY <2>1, <3>1 DEF FinalVoteIsArchived
    <3>3. final'[d] = final[d] /\ archive'[d] = archive[d]
      BY <2>1, <2>3
    <3> QED BY <3>2, <3>3
  <2> QED BY <2>2, <2>3
<1> QED BY <1>1, <1>2

-----------------------------------------------------------------------------
\* The theorems.

(***************************************************************************)
(* The sum of no votes is 0, in whatever order it is taken: the set of     *)
(* subsets with another sum would have a smallest element.                 *)
(***************************************************************************)
LEMMA NoVotesTally == Tally([v \in Voters |-> 0]) = 0
<1> DEFINE zero == [v \in Voters |-> 0]
<1>1. \A v \in Voters : zero[v] = 0
  OBVIOUS
<1> HIDE DEF zero
<1> QED BY <1>1, TotalZero, ConstantsAssumption DEF Tally, zero

(***************************************************************************)
(* All of it together is inductive.                                        *)
(***************************************************************************)
LEMMA InductiveInvariant == Spec => []VotingInv
<1>1. Init => VotingInv
  <2> SUFFICES ASSUME Init, StateTypeOK PROVE VotingInv
    BY StateTypeInit
  <2>1. DOMAIN history = Drops
    BY DEF Init
  <2>2. RankIsTally
    BY DEF Init, RankIsTally, NoVotes
  <2>3. HistoryIsCurrent
    BY NoVotesTally DEF Init, HistoryIsCurrent
  <2>4. SettledInOrder /\ NoDecisionLost
    BY DEF Init, SettledInOrder, NoDecisionLost
  <2>5. WonOK /\ FinalVoteIsArchived
    BY DEF Init, WonOK, FinalVoteIsArchived
  <2> QED BY <2>1, <2>2, <2>3, <2>4, <2>5 DEF VotingInv
<1>2. VotingInv /\ [Next]_vars => VotingInv'
  BY StateTypeStep, RankStep, HistoryStep, SettledStep, WonStep, FinalStep
     DEF VotingInv
<1> QED BY <1>1, <1>2, PTL DEF Spec

(***************************************************************************)
(* RankIsTally for any voters, drops and requests: votes of others,        *)
(* revocations and decisions in between do not make the rank of a drop     *)
(* forget a vote or count it twice.                                        *)
(***************************************************************************)
THEOREM RankCorrect == Spec => []RankIsTally
<1> QED BY InductiveInvariant, PTL DEF VotingInv

(***************************************************************************)
(* HistoryIsCurrent for any timestamps, late revocations apart: winners    *)
(* are picked from the present rank.                                       *)
(***************************************************************************)
THEOREM HistoryCorrect == Spec => []HistoryIsCurrent
<1> QED BY InductiveInvariant, PTL DEF VotingInv

(***************************************************************************)
(* NoDecisionLost for any schedule, any pauses and any number of Lambdas   *)
(* that die.                                                               *)
(***************************************************************************)
THEOREM DecisionsKept == Spec => []NoDecisionLost
<1> QED BY InductiveInvariant, PTL DEF VotingInv

(***************************************************************************)
(* FinalVoteIsArchived for any votes that are written between a decision's *)
(* first read and its commit.                                              *)
(***************************************************************************)
THEOREM FinalVotesCorrect == Spec => []FinalVoteIsArchived
<1> QED BY InductiveInvariant, PTL DEF VotingInv

(***************************************************************************)
(* WinnersAreFinal for any number of decisions: a later decision cannot    *)
(* pick a winner again, because nothing but decisions closes drops and     *)
(* there is one at a time.                                                 *)
(***************************************************************************)
THEOREM WinnersStay == Spec => WinnersAreFinal
<1>1. VotingInv /\ [Next]_vars =>
        [\A d \in Drops \ open :
           d \notin open' /\ final'[d] = final[d] /\ archive'[d] = archive[d]]_vars
  <2> SUFFICES ASSUME VotingInv, [Next]_vars, NEW d \in Drops \ open
               PROVE  /\ d \notin open' /\ final'[d] = final[d]
                      /\ archive'[d] = archive[d]
    OBVIOUS
  <2>1. CASE ~RunDecides
    BY <2>1, OpenFrame DEF VotingInv
  <2>2. CASE RunDecides
    <3>1. Winners \subseteq open
      BY <2>2 DEF VotingInv, WonOK, RunDecides, Winners
    <3>2. /\ open' = open \ Winners
          /\ \A e \in Drops \ Winners :
               final'[e] = final[e] /\ archive'[e] = archive[e]
      BY <2>2 DEF RunDecides
    <3> QED BY <3>1, <3>2
  <2> QED BY <2>1, <2>2
<1> QED BY <1>1, InductiveInvariant, PTL DEF Spec, WinnersAreFinal
-----------------------------------------------------------------------------
\* The credit.

(***************************************************************************)
(* With credit scope WAVE the bound rests on votes that are not negative:  *)
(* the floor of a share rounds a vote against a drop away from zero.       *)
(***************************************************************************)
SignsOK ==
  /\ \A v \in Voters, d \in Drops :
       votes[v][d] \in Nat /\ reduced[v][d] \in Nat /\ rsnap.votes[v][d] \in Nat
  /\ \A s \in Sessions : vote[s] \in Nat

\* A request's vote fits in the credit it has seen; drops only close meanwhile.
RequestFits(s) ==
  /\ pc[s] # "idle" => drop[s] \in snap[s].open /\ open \subseteq snap[s].open
  /\ pc[s] = "ready" => EnoughCredit(snap[s], drop[s], vote[s])

\* What the revocation has left of the votes mine of v, which were old.
ReducedOK(v, old, mine, limit) ==
  LET total == Spent(old, rsnap.open)
      visited(d) == <<v, d>> \notin todo
  IN  /\ \A d \in Drops : ~visited(d) => mine[d] = old[d] /\ d \in rsnap.open
      /\ PerDrop => \A d \in rsnap.open : visited(d) => Abs(mine[d]) <= limit
      /\ ~PerDrop => /\ given[v] = Spent(mine, rsnap.open)
                     /\ \/ given[v] <= limit /\ \A d \in Drops : visited(d)
                        \/ /\ total > limit
                           /\ \A d \in rsnap.open :
                                visited(d) => mine[d] * total <= old[d] * limit

RevocationFits ==
  /\ rpc = "wait" => current \in todo
  /\ rpc # "idle" =>
       /\ open \subseteq rsnap.open
       /\ \A v \in Voters : ReducedOK(v, rsnap.votes[v], reduced[v], rcredit[v])

CreditInv ==
  /\ StateTypeOK
  /\ PerDrop \/ SignsOK
  /\ \A s \in Sessions : RequestFits(s)
  /\ RevocationFits
  /\ CreditKept

\* The votes mine of a voter keep within the limit.
Within(mine, S, limit) ==
  IF PerDrop THEN \A d \in S : Abs(mine[d]) <= limit ELSE Spent(mine, S) <= limit

(* A changed vote changes what is spent by the difference of its size.     *)
LEMMA SpentChange ==
  ASSUME NEW mine \in [Drops -> Int], NEW S \in SUBSET Drops, NEW d \in S, NEW n \in Int
  PROVE  Spent([mine EXCEPT ![d] = n], S) = Spent(mine, S) + Abs(n) - Abs(mine[d])
<1> DEFINE g == [mine EXCEPT ![d] = n]
           f == [e \in S |-> Abs(mine[e])]
           h == [e \in S |-> Abs(g[e])]
<1>1. \A e \in S : f[e] \in Int /\ h[e] \in Int /\ (e # d => f[e] = h[e])
  BY DEF Abs
<1>2. IsFiniteSet(S)
  BY FS_Subset, ConstantsAssumption
<1>3. f[d] = Abs(mine[d]) /\ h[d] = Abs(n)
  OBVIOUS
<1>4. Spent(mine, S) = Total(f, S) /\ Spent(g, S) = Total(h, S)
  BY DEF Spent
<1> HIDE DEF f, h, g
<1>5. Total(h, S) = Total(f, S) + h[d] - f[d]
  BY <1>1, <1>2, TotalChange
<1> QED BY <1>3, <1>4, <1>5 DEF g

(* Fewer drops, less spent.                                                *)
LEMMA SpentSubset ==
  ASSUME NEW mine \in [Drops -> Int], NEW S \in SUBSET Drops, NEW T \in SUBSET S
  PROVE  Spent(mine, T) <= Spent(mine, S)
<1> DEFINE f == [d \in T |-> Abs(mine[d])]
           g == [d \in S |-> IF d \in T THEN Abs(mine[d]) ELSE 0]
           h == [d \in S |-> Abs(mine[d])]
<1>1. \A d \in S : g[d] \in Int /\ h[d] \in Int /\ g[d] <= h[d] /\ (d \notin T => g[d] = 0)
  BY DEF Abs
<1>2. \A d \in T : f[d] = g[d] /\ g[d] \in Int
  BY DEF Abs
<1>3. IsFiniteSet(S) /\ IsFiniteSet(T)
  BY FS_Subset, ConstantsAssumption
<1>4. Spent(mine, T) = Total(f, T) /\ Spent(mine, S) = Total(h, S)
  BY DEF Spent
<1> HIDE DEF f, g, h
<1>5. Total(g, S) <= Total(h, S)
  BY <1>1, <1>3, TotalMonotone
<1>6. Total(g, S) = Total(g, T)
  BY <1>1, <1>3, TotalOfSupport
<1>7. Total(f, T) = Total(g, T)
  BY <1>2, <1>3, TotalCongruence
<1> QED BY <1>4, <1>5, <1>6, <1>7

(* Votes that are no more than their shares of a credit are within it.     *)
LEMMA SharesFit ==
  ASSUME NEW old \in [Drops -> Nat], NEW mine \in [Drops -> Nat], NEW S \in SUBSET Drops,
         NEW limit \in Nat, Spent(old, S) > limit,
         \A d \in S : mine[d] * Spent(old, S) <= old[d] * limit
  PROVE  Spent(mine, S) <= limit
<1> DEFINE k == Spent(old, S)
           f == [d \in S |-> Abs(mine[d])]
           g == [d \in S |-> Abs(old[d])]
           kf == [d \in S |-> k * f[d]]
           lg == [d \in S |-> limit * g[d]]
<1>1. k \in Nat /\ Spent(mine, S) \in Nat
  BY SpentType
<1>2. \A d \in S : /\ f[d] = mine[d] /\ f[d] \in Int
                   /\ g[d] = old[d] /\ g[d] \in Int
  BY DEF Abs
<1>3. Spent(mine, S) = Total(f, S) /\ k = Total(g, S)
  BY DEF Spent
<1>4. IsFiniteSet(S)
  BY FS_Subset, ConstantsAssumption
<1>5. \A i, j \in Int : i * j \in Int /\ i * j = j * i
  OBVIOUS
<1>6. \A d \in S : mine[d] * k <= old[d] * limit
  OBVIOUS
<1>7. k > limit
  OBVIOUS
<1> HIDE DEF k, f, g
<1>8. \A d \in S : /\ kf[d] = k * f[d] /\ kf[d] \in Int
                   /\ lg[d] = limit * g[d] /\ lg[d] \in Int
                   /\ kf[d] <= lg[d]
  BY <1>1, <1>2, <1>5, <1>6
<1> HIDE DEF kf, lg
<1>9. Total(kf, S) = k * Total(f, S)
  BY <1>1, <1>2, <1>4, <1>8, TotalScale
<1>10. Total(lg, S) = limit * Total(g, S)
  BY <1>2, <1>4, <1>8, TotalScale
<1>11. Total(kf, S) <= Total(lg, S)
  BY <1>4, <1>8, TotalMonotone
<1>12. k * Spent(mine, S) <= limit * k
  BY <1>3, <1>9, <1>10, <1>11
<1>13. \A i \in Nat \ {0}, j, l \in Nat : i * j <= l * i => j <= l
  OBVIOUS
<1>14. k \in Nat \ {0}
  BY <1>1, <1>7
<1> QED BY <1>1, <1>12, <1>13, <1>14

(* A revocation that has visited all of a voter's votes leaves that voter  *)
(* within the credit, in whatever order they were visited.                 *)
LEMMA ReducedWithin ==
  ASSUME RevokerTypeOK, PerDrop \/ SignsOK, NEW v \in Voters, todo = {},
         ReducedOK(v, rsnap.votes[v], reduced[v], rcredit[v]),
         NEW S \in SUBSET rsnap.open
  PROVE  Within(reduced[v], S, rcredit[v])
<1>1. /\ rsnap.votes[v] \in [Drops -> Int] /\ reduced[v] \in [Drops -> Int]
      /\ rcredit[v] \in Nat /\ rsnap.open \in SUBSET Drops
  BY DEF RevokerTypeOK
<1>2. CASE PerDrop
  BY <1>2 DEF ReducedOK, Within
<1>3. CASE ~PerDrop
  <2>1. rsnap.votes[v] \in [Drops -> Nat] /\ reduced[v] \in [Drops -> Nat]
    BY <1>1, <1>3 DEF SignsOK
  <2>2. Spent(reduced[v], rsnap.open) <= rcredit[v]
    <3>1. CASE given[v] <= rcredit[v]
      BY <1>3, <3>1 DEF ReducedOK
    <3>2. CASE ~(given[v] <= rcredit[v])
      <4> DEFINE k == Spent(rsnap.votes[v], rsnap.open)
      <4>1. k > rcredit[v]
        BY <1>3, <3>2 DEF ReducedOK
      <4>2. \A d \in rsnap.open : reduced[v][d] * k <= rsnap.votes[v][d] * rcredit[v]
        BY <1>3, <3>2 DEF ReducedOK
      <4> QED BY <1>1, <2>1, <4>1, <4>2, SharesFit
    <3> QED BY <3>1, <3>2
  <2>3. Spent(reduced[v], S) <= Spent(reduced[v], rsnap.open)
    BY <1>1, SpentSubset
  <2>4. Spent(reduced[v], S) \in Int /\ Spent(reduced[v], rsnap.open) \in Int
    BY <1>1, SpentType
  <2> QED BY <1>1, <1>3, <2>2, <2>3, <2>4 DEF Within
<1> QED BY <1>2, <1>3

(* The floor of a share of a vote that is not negative is not negative.    *)
LEMMA ShareIsNat ==
  ASSUME ~PerDrop, NEW old \in Nat, NEW limit \in Nat, NEW total \in Nat, total > limit,
         NEW new \in NoMoreThan(old), IsReduced(new, old, limit, total)
  PROVE  new \in Nat /\ new <= old /\ new * total <= old * limit
<1>1. new \in Int /\ new <= old
  BY DEF NoMoreThan, Abs
<1>2. new * total <= old * limit /\ old * limit < (new + 1) * total
  BY DEF IsReduced
<1>3. \A i, j \in Nat : i * j \in Nat
  OBVIOUS
<1>4. \A i \in Int, j \in Nat \ {0} : i <= 0 => i * j <= 0
  OBVIOUS
<1>5. new + 1 > 0
  <2>1. old * limit \in Nat /\ total \in Nat \ {0}
    BY <1>3
  <2>2. (new + 1) * total > 0
    BY <1>1, <1>2, <2>1
  <2> QED BY <1>1, <1>4, <2>1, <2>2
<1> QED BY <1>1, <1>2, <1>5

(* Drops only close.                                                       *)
LEMMA OpenShrinks ==
  ASSUME [Next]_vars PROVE open' \subseteq open
<1>1. \A s \in Sessions, after \in Orders : Commit(s, after) => open' = open
  BY DEF Commit
<1>2. RevokerCommits \/ RunSkipsPaused => open' = open
  BY DEF RevokerCommits, RunSkipsPaused
<1>3. RunDecides => open' = open \ Winners
  BY DEF RunDecides
<1> QED BY <1>1, <1>2, <1>3, TableWrites DEF tables

(* A request has checked its vote against what it will find at its commit, *)
(* unless something moved.                                                 *)
LEMMA RequestFitsStep ==
  ASSUME CreditInv, [Next]_vars, NEW q \in Sessions PROVE RequestFits(q)'
<1>1. RequestFits(q) /\ RequestsTypeOK /\ open' \subseteq open
  BY OpenShrinks DEF CreditInv, StateTypeOK
<1>2. ASSUME pc'[q] = pc[q], drop'[q] = drop[q], snap'[q] = snap[q], vote'[q] = vote[q]
      PROVE  RequestFits(q)'
  <2>1. EnoughCredit(snap[q], drop[q], vote[q])' <=> EnoughCredit(snap[q], drop[q], vote[q])
    BY <1>2 DEF EnoughCredit
  <2> QED BY <1>1, <1>2, <2>1 DEF RequestFits
<1>3. ASSUME NEW s \in Sessions, EndRequest(s) PROVE RequestFits(q)'
  <2>1. CASE s = q
    BY <1>1, <1>3, <2>1 DEF EndRequest, RequestFits, RequestsTypeOK
  <2>2. CASE s # q
    BY <1>1, <1>2, <1>3, <2>2 DEF EndRequest, RequestsTypeOK
  <2> QED BY <2>1, <2>2
<1>4. ASSUME NEW s \in Sessions, NEW d \in Drops, Begin(s, d) PROVE RequestFits(q)'
  <2>1. CASE s = q
    <3>1. pc'[q] = "begun" /\ drop'[q] = d /\ snap'[q].open = open /\ d \in open /\ open' = open
      BY <1>1, <1>4, <2>1 DEF Begin, RequestsTypeOK, tables
    <3> QED BY <3>1 DEF RequestFits
  <2>2. CASE s # q
    BY <1>1, <1>2, <1>4, <2>2 DEF Begin, RequestsTypeOK
  <2> QED BY <2>1, <2>2
<1>5. ASSUME NEW s \in Sessions, NEW n \in VoteValues, Lock(s, n) PROVE RequestFits(q)'
  <2>1. CASE s = q
    <3>1. /\ pc[q] = "begun" /\ pc'[q] = "ready" /\ vote'[q] = n
          /\ drop'[q] = drop[q] /\ snap'[q] = snap[q]
          /\ EnoughCredit(snap[q], drop[q], n)
      BY <1>1, <1>5, <2>1 DEF Lock, RequestsTypeOK
    <3>2. EnoughCredit(snap[q], drop[q], vote[q])'
      BY <3>1 DEF EnoughCredit
    <3> QED BY <1>1, <3>1, <3>2 DEF RequestFits
  <2>2. CASE s # q
    BY <1>1, <1>2, <1>5, <2>2 DEF Lock, RequestsTypeOK
  <2> QED BY <2>1, <2>2
<1>6. Voting => \/ \E s \in Sessions : EndRequest(s)
                \/ \E s \in Sessions, d \in Drops : Begin(s, d)
                \/ \E s \in Sessions, n \in VoteValues : Lock(s, n)
  BY DEF Voting, Abandon, Commit
<1>7. Tick \/ RunDies \/ Revoking \/ Deciding \/ UNCHANGED vars
        => UNCHANGED requestVars
  BY DEF Tick, RunDies, vars, Revoking, RevokerBegins, RevokerTakesTime,
         RevokerReduces, RevokerFails, RevokerCommits, Deciding, RunStarts,
         RunSkipsPaused, RunReads, RunDecides, RunFails, RunEnds
<1> QED BY <1>2, <1>3, <1>4, <1>5, <1>6, <1>7 DEF Next, requestVars

(* One reduction: the vote it visits, its new value and what is left.      *)
LEMMA ReductionFacts ==
  ASSUME CreditInv, RevokerReduces
  PROVE  \E v \in Voters, d \in Drops, new \in Int :
           /\ current = <<v, d>> /\ current \in todo /\ d \in rsnap.open
           /\ reduced[v][d] = rsnap.votes[v][d]
           /\ reduced' = [reduced EXCEPT ![v] = [@ EXCEPT ![d] = new]]
           /\ todo' \subseteq todo /\ todo \ todo' \subseteq {v} \X Drops
           /\ <<v, d>> \notin todo'
           /\ PerDrop => todo' = todo \ {current} /\ Abs(new) <= rcredit[v]
           /\ ~PerDrop =>
                /\ new \in Nat
                /\ Spent(rsnap.votes[v], rsnap.open) > rcredit[v]
                /\ new * Spent(rsnap.votes[v], rsnap.open) <= rsnap.votes[v][d] * rcredit[v]
                /\ given' = [given EXCEPT ![v] = given[v] + new - reduced[v][d]]
                /\ \/ todo' = todo \ {current}
                   \/ todo' = todo \ ({v} \X Drops) /\ given'[v] <= rcredit[v]
<1> DEFINE v == current[1]
           d == current[2]
           old == rsnap.votes[v][d]
           total == Spent(rsnap.votes[v], rsnap.open)
           left(n) == given[v] - Abs(n - old)
<1>1. RevokerTypeOK /\ RevocationFits /\ rpc = "wait"
  BY DEF CreditInv, StateTypeOK, RevokerReduces
<1>2. current = <<v, d>> /\ v \in Voters /\ d \in Drops /\ current \in todo
  BY <1>1 DEF RevokerTypeOK, RevocationFits
<1>3. ReducedOK(v, rsnap.votes[v], reduced[v], rcredit[v])
  BY <1>1, <1>2 DEF RevocationFits
<1>4. d \in rsnap.open /\ reduced[v][d] = old
  BY <1>2, <1>3 DEF ReducedOK
<1>5. /\ rsnap.votes \in [Voters -> [Drops -> Int]] /\ reduced \in [Voters -> [Drops -> Int]]
      /\ rcredit[v] \in Nat /\ rsnap.open \in SUBSET Drops /\ given \in [Voters -> Int]
      /\ todo \subseteq Voters \X Drops
  BY <1>1, <1>2 DEF RevokerTypeOK
<1>6. total \in Nat /\ old \in Int
  BY <1>2, <1>5, SpentType
<1>7. PICK new \in NoMoreThan(old) :
        /\ IsReduced(new, old, rcredit[v], total)
        /\ IF new = old
           THEN /\ todo' = todo \ {current}
                /\ UNCHANGED <<given, reduced>>
           ELSE /\ given' = [given EXCEPT ![v] = left(new)]
                /\ reduced' = [reduced EXCEPT ![v] = [@ EXCEPT ![d] = new]]
                /\ todo' = IF left(new) <= rcredit[v] /\ ~PerDrop
                           THEN todo \ ({v} \X Drops)
                           ELSE todo \ {current}
  BY DEF RevokerReduces
<1>8. new \in Int
  BY <1>6, <1>7 DEF NoMoreThan, Abs
<1> HIDE DEF v, d, old, total
<1>9. reduced' = [reduced EXCEPT ![v] = [@ EXCEPT ![d] = new]]
  <2>1. CASE new # old
    BY <1>7, <2>1
  <2>2. CASE new = old
    <3>1. [reduced[v] EXCEPT ![d] = new] = reduced[v]
      BY <1>2, <1>4, <1>5, <2>2
    <3> QED BY <1>2, <1>5, <1>7, <2>2, <3>1
  <2> QED BY <2>1, <2>2
<1>10. /\ todo' \subseteq todo /\ todo \ todo' \subseteq {v} \X Drops
       /\ <<v, d>> \notin todo'
  BY <1>2, <1>7
<1>11. ASSUME PerDrop PROVE todo' = todo \ {current} /\ Abs(new) <= rcredit[v]
  <2>1. todo' = todo \ {current}
    BY <1>7, <1>11
  <2>2. Abs(new) <= rcredit[v]
    BY <1>5, <1>6, <1>7, <1>8, <1>11 DEF IsReduced, Abs
  <2> QED BY <2>1, <2>2
<1>12. ASSUME ~PerDrop
       PROVE  /\ new \in Nat
              /\ total > rcredit[v]
              /\ new * total <= old * rcredit[v]
              /\ given' = [given EXCEPT ![v] = given[v] + new - reduced[v][d]]
              /\ \/ todo' = todo \ {current}
                 \/ todo' = todo \ ({v} \X Drops) /\ given'[v] <= rcredit[v]
  <2>1. total > rcredit[v]
    <3>1. <<v, d>> \in todo
      BY <1>2
    <3>2. ~(\A e \in Drops : <<v, e>> \notin todo)
      BY <1>2, <3>1
    <3> QED BY <1>3, <1>12, <3>2 DEF ReducedOK, total
  <2>2. old \in Nat
    BY <1>2, <1>12 DEF CreditInv, SignsOK, old
  <2>3. new \in Nat /\ new <= old /\ new * total <= old * rcredit[v]
    BY <1>5, <1>6, <1>7, <1>12, <2>1, <2>2, ShareIsNat
  <2>4. given[v] \in Int /\ left(new) = given[v] + new - old
    BY <1>2, <1>5, <2>2, <2>3 DEF Abs
  <2>5. given' = [given EXCEPT ![v] = given[v] + new - old]
    <3>1. CASE new # old
      BY <1>7, <2>4, <3>1
    <3>2. CASE new = old
      <4>1. given[v] + new - old = given[v]
        BY <1>6, <2>4, <3>2
      <4>2. [given EXCEPT ![v] = given[v]] = given
        BY <1>2, <1>5
      <4> QED BY <1>7, <3>2, <4>1, <4>2
    <3> QED BY <3>1, <3>2
  <2>6. \/ todo' = todo \ {current}
        \/ todo' = todo \ ({v} \X Drops) /\ given'[v] <= rcredit[v]
    BY <1>2, <1>5, <1>7, <1>12, <2>4, <2>5
  <2> QED BY <1>4, <2>1, <2>3, <2>5, <2>6
<1>13. <<v, d>> = current /\ total = Spent(rsnap.votes[v], rsnap.open) /\ old = rsnap.votes[v][d]
  BY <1>2 DEF total, old
<1> QED BY <1>2, <1>4, <1>8, <1>9, <1>10, <1>11, <1>12, <1>13

(* Votes stay without a sign where clients ask for none.                   *)
LEMMA SignsStep ==
  ASSUME CreditInv, [Next]_vars, VoteValues \subseteq Nat, ~PerDrop PROVE SignsOK'
<1>1. SignsOK /\ StateTypeOK
  BY DEF CreditInv
<1>2. \A s \in Sessions : vote'[s] \in Nat
  <2>1. CASE vote' = vote
    BY <1>1, <2>1 DEF SignsOK
  <2>2. ASSUME NEW s \in Sessions, NEW n \in Nat, vote' = [vote EXCEPT ![s] = n]
        PROVE  \A q \in Sessions : vote'[q] \in Nat
    BY <1>1, <2>2 DEF SignsOK, StateTypeOK, RequestsTypeOK
  <2>3. \/ vote' = vote
        \/ \E s \in Sessions, n \in Nat : vote' = [vote EXCEPT ![s] = n]
    <3>1. Voting => \/ vote' = vote
                    \/ \E s \in Sessions, n \in Nat : vote' = [vote EXCEPT ![s] = n]
      BY ZenonT(30) DEF Voting, Begin, Lock, Abandon, Commit, EndRequest
    <3>2. Tick \/ RunDies \/ Revoking \/ Deciding \/ UNCHANGED vars => vote' = vote
      BY DEF Tick, RunDies, vars, Revoking, RevokerBegins, RevokerTakesTime,
             RevokerReduces, RevokerFails, RevokerCommits, Deciding, RunStarts,
             RunSkipsPaused, RunReads, RunDecides, RunFails, RunEnds, requestVars
    <3> QED BY <3>1, <3>2 DEF Next
  <2> QED BY <2>1, <2>2, <2>3
<1>3. \A v \in Voters, d \in Drops : votes'[v][d] \in Nat
  <2>1. CASE UNCHANGED <<tables, ghosts>> \/ RunSkipsPaused \/ RunDecides
    <3>1. votes' = votes
      BY <2>1 DEF tables, RunSkipsPaused, RunDecides
    <3> QED BY <1>1, <3>1 DEF SignsOK
  <2>2. ASSUME NEW s \in Sessions, NEW after \in Orders, Commit(s, after)
        PROVE  \A v \in Voters, d \in Drops : votes'[v][d] \in Nat
    <3>1. DOMAIN history = Drops
      BY <1>1 DEF StateTypeOK, TablesTypeOK
    <3>2. \A d \in Drops, v \in Voters :
            IF d = drop[s] /\ v = VoterOf[s]
            THEN /\ votes'[v][d] = vote[s]
                 /\ rank'[d][v] = rank[d][v] + (vote[s] - snap[s].votes[d])
                 /\ votes[v][d] # snap[s].votes[d] => <<v, d>> \in overlapped'
            ELSE votes'[v][d] = votes[v][d] /\ rank'[d][v] = rank[d][v]
      BY <1>1, <2>2, <3>1, AfterCommit
    <3> QED BY <1>1, <3>2 DEF SignsOK
  <2>3. CASE RevokerCommits
    BY <1>1, <2>3, AfterRevocation DEF SignsOK
  <2> QED BY <2>1, <2>2, <2>3, TableWrites
<1>4. \A v \in Voters, d \in Drops : reduced'[v][d] \in Nat /\ rsnap'.votes[v][d] \in Nat
  <2>1. CASE UNCHANGED <<reduced, rsnap>>
    BY <1>1, <2>1 DEF SignsOK
  <2>2. CASE EndRevocation
    BY <2>2 DEF EndRevocation, NoVotes, NoWork
  <2>3. CASE reduced' = votes /\ rsnap' = [votes |-> votes, open |-> open]
    BY <1>1, <2>3 DEF SignsOK
  <2>4. CASE RevokerReduces
    <3>1. PICK v \in Voters, d \in Drops, new \in Nat :
            reduced' = [reduced EXCEPT ![v] = [@ EXCEPT ![d] = new]]
      BY <2>4, ReductionFacts, ZenonT(30)
    <3>2. reduced \in [Voters -> [Drops -> Int]] /\ rsnap' = rsnap
      BY <1>1, <2>4 DEF StateTypeOK, RevokerTypeOK, RevokerReduces
    <3>3. \A u \in Voters, e \in Drops :
            reduced'[u][e] = IF u = v /\ e = d THEN new ELSE reduced[u][e]
      BY <3>1, <3>2
    <3> QED BY <1>1, <3>1, <3>2, <3>3 DEF SignsOK
  <2>5. Revoking => \/ UNCHANGED <<reduced, rsnap>> \/ EndRevocation \/ RevokerReduces
                    \/ reduced' = votes /\ rsnap' = [votes |-> votes, open |-> open]
    BY DEF Revoking, RevokerBegins, RevokerTakesTime, RevokerFails, RevokerCommits
  <2>6. ~Revoking => UNCHANGED <<reduced, rsnap>>
    BY <1>1, RevokerFrame DEF StateTypeOK
  <2> QED BY <2>1, <2>2, <2>3, <2>4, <2>5, <2>6
<1> QED BY <1>2, <1>3, <1>4 DEF SignsOK

(* What the revocation has not visited is as it has read it, what it has   *)
(* visited fits, and what is left of a voter is counted.                   *)
LEMMA RevocationFitsStep ==
  ASSUME CreditInv, [Next]_vars PROVE RevocationFits'
<1>1. RevocationFits /\ StateTypeOK /\ open' \subseteq open
  BY OpenShrinks DEF CreditInv
<1>2. CASE ~Revoking
  <2>1. UNCHANGED <<rpc, rsnap, rcredit, todo, given, current, reduced>>
    BY <1>1, <1>2, RevokerFrame DEF StateTypeOK
  <2>2. \A v \in Voters :
          ReducedOK(v, rsnap.votes[v], reduced[v], rcredit[v])'
            <=> ReducedOK(v, rsnap.votes[v], reduced[v], rcredit[v])
    BY <2>1 DEF ReducedOK
  <2> QED BY <1>1, <2>1, <2>2 DEF RevocationFits
<1>3. CASE EndRevocation
  BY <1>3 DEF EndRevocation, RevocationFits
<1>4. ASSUME NEW u \in Voters, NEW limit \in Credits, RevokerBegins(u, limit)
      PROVE  RevocationFits'
  <2> DEFINE limits == [credit EXCEPT ![u] = limit]
  <2>1. /\ rpc' = "scan" /\ rsnap'.votes = votes /\ rsnap'.open = open
        /\ rcredit' = limits /\ reduced' = votes /\ open' = open
        /\ todo' = {p \in Voters \X Drops : p[2] \in Visited(p[1], limits[p[1]])}
        /\ given' = [v \in Voters |-> Spent(votes[v], open)]
    BY <1>4 DEF RevokerBegins, tables
  <2> HIDE DEF limits
  <2>2. ASSUME NEW v \in Voters
        PROVE  ReducedOK(v, rsnap.votes[v], reduced[v], rcredit[v])'
    <3> DEFINE total == Spent(votes[v], open)
    <3>1. \A d \in Drops : <<v, d>> \in todo' <=> d \in Visited(v, limits[v])
      BY <2>1
    <3>2. \A d \in Drops : d \in Visited(v, limits[v]) => d \in open
      BY DEF Visited
    <3>3. CASE PerDrop
      <4>1. \A d \in open : d \notin Visited(v, limits[v]) => Abs(votes[v][d]) <= limits[v]
        <5>1. limits[v] \in Int
          BY <1>1, ConstantsAssumption DEF limits, StateTypeOK, TablesTypeOK
        <5>2. \A d \in open : Abs(votes[v][d]) \in Int
          BY <1>1 DEF StateTypeOK, TablesTypeOK, Abs
        <5> QED BY <3>3, <5>1, <5>2 DEF Visited
      <4>2. \A d \in open : d \in Drops
        BY <1>1 DEF StateTypeOK, TablesTypeOK
      <4> QED BY <2>1, <3>1, <3>2, <3>3, <4>1, <4>2 DEF ReducedOK
    <3>4. CASE ~PerDrop
      <4>1. total \in Int /\ limits[v] \in Int
        <5>1. votes[v] \in [Drops -> Int] /\ open \in SUBSET Drops
          BY <1>1 DEF StateTypeOK, TablesTypeOK
        <5>2. limits[v] \in Int
          BY <1>1, ConstantsAssumption DEF limits, StateTypeOK, TablesTypeOK
        <5> QED BY <5>1, <5>2, SpentType
      <4>2. given'[v] = total
        BY <2>1
      <4>3. CASE total <= limits[v]
        <5>1. \A d \in Drops : d \notin Visited(v, limits[v])
          BY <3>4, <4>1, <4>3 DEF Visited
        <5> QED BY <2>1, <3>1, <3>4, <4>2, <4>3, <5>1 DEF ReducedOK
      <4>4. CASE total > limits[v]
        <5>1. \A d \in open : d \notin Visited(v, limits[v]) => votes[v][d] = 0
          BY <3>4, <4>4 DEF Visited
        <5>2. \A d \in open : d \in Drops
          BY <1>1 DEF StateTypeOK, TablesTypeOK
        <5>3. 0 * total <= 0 * limits[v]
          BY <4>1
        <5>4. \A d \in open : <<v, d>> \notin todo' =>
                votes[v][d] * total <= votes[v][d] * limits[v]
          BY <3>1, <5>1, <5>2, <5>3
        <5> HIDE DEF total
        <5>5. Spent(rsnap'.votes[v], rsnap'.open) = total
          BY <2>1 DEF total
        <5> QED BY <2>1, <3>1, <3>2, <3>4, <4>2, <4>4, <5>4, <5>5 DEF ReducedOK
      <4> QED BY <4>1, <4>3, <4>4
    <3> QED BY <3>3, <3>4
  <2> QED BY <2>1, <2>2 DEF RevocationFits
<1>5. ASSUME NEW u \in Voters, NEW e \in Drops, RevokerTakesTime(u, e)
      PROVE  RevocationFits'
  <2>1. /\ rpc # "idle" /\ current' \in todo /\ open' = open
        /\ UNCHANGED <<rsnap, rcredit, todo, given, reduced>>
    BY <1>5 DEF RevokerTakesTime, tables
  <2>2. \A v \in Voters :
          ReducedOK(v, rsnap.votes[v], reduced[v], rcredit[v])'
            <=> ReducedOK(v, rsnap.votes[v], reduced[v], rcredit[v])
    BY <2>1 DEF ReducedOK
  <2> QED BY <1>1, <2>1, <2>2 DEF RevocationFits
<1>6. CASE RevokerReduces
  <2>1. PICK u \in Voters, e \in Drops, new \in Int :
           /\ current = <<u, e>> /\ current \in todo /\ e \in rsnap.open
           /\ reduced[u][e] = rsnap.votes[u][e]
           /\ reduced' = [reduced EXCEPT ![u] = [@ EXCEPT ![e] = new]]
           /\ todo' \subseteq todo /\ todo \ todo' \subseteq {u} \X Drops
           /\ <<u, e>> \notin todo'
           /\ PerDrop => todo' = todo \ {current} /\ Abs(new) <= rcredit[u]
           /\ ~PerDrop =>
                /\ new \in Nat
                /\ Spent(rsnap.votes[u], rsnap.open) > rcredit[u]
                /\ new * Spent(rsnap.votes[u], rsnap.open) <= rsnap.votes[u][e] * rcredit[u]
                /\ given' = [given EXCEPT ![u] = given[u] + new - reduced[u][e]]
                /\ \/ todo' = todo \ {current}
                   \/ todo' = todo \ ({u} \X Drops) /\ given'[u] <= rcredit[u]
    BY <1>6, ReductionFacts
  <2>2. /\ rpc = "wait" /\ rpc' = "scan" /\ open' = open
        /\ UNCHANGED <<rsnap, rcredit>>
    BY <1>6 DEF RevokerReduces, tables
  <2>3. /\ reduced \in [Voters -> [Drops -> Int]] /\ given \in [Voters -> Int]
        /\ rsnap.open \in SUBSET Drops /\ todo \subseteq Voters \X Drops
    BY <1>1 DEF StateTypeOK, RevokerTypeOK
  <2>4. ASSUME NEW v \in Voters
        PROVE  ReducedOK(v, rsnap.votes[v], reduced[v], rcredit[v])'
    <3>1. ReducedOK(v, rsnap.votes[v], reduced[v], rcredit[v])
      BY <1>1, <2>2 DEF RevocationFits
    <3>2. CASE v # u
      <4>1. reduced'[v] = reduced[v]
        BY <2>1, <2>3, <3>2
      <4>2. \A d \in Drops : <<v, d>> \in todo' <=> <<v, d>> \in todo
        BY <2>1, <3>2
      <4>3. ~PerDrop => given'[v] = given[v]
        BY <2>1, <2>3, <3>2
      <4>4. \A d \in rsnap.open : <<v, d>> \in todo' <=> <<v, d>> \in todo
        BY <2>3, <4>2
      <4> QED BY <2>2, <3>1, <4>1, <4>2, <4>3, <4>4 DEF ReducedOK
    <3>3. CASE v = u
      <4> DEFINE mine == reduced[v]
                 left == [mine EXCEPT ![e] = new]
                 old == rsnap.votes[v]
                 total == Spent(old, rsnap.open)
      <4>1. mine \in [Drops -> Int] /\ reduced'[v] = left
        BY <2>1, <2>3, <3>3
      <4>2. \A d \in Drops : left[d] = IF d = e THEN new ELSE mine[d]
        BY <4>1
      <4>3. \A d \in Drops : <<v, d>> \in todo' => <<v, d>> \in todo /\ d # e
        BY <2>1, <3>3
      <4>4. \A d \in Drops : <<v, d>> \in todo' => left[d] = old[d] /\ d \in rsnap.open
        BY <3>1, <4>2, <4>3 DEF ReducedOK
      <4>5. CASE PerDrop
        <5>1. \A d \in rsnap.open : <<v, d>> \notin todo' => <<v, d>> \notin todo \/ d = e
          BY <2>1, <2>3, <3>3, <4>5
        <5>2. \A d \in rsnap.open : <<v, d>> \notin todo' => Abs(left[d]) <= rcredit[v]
          BY <2>1, <2>3, <3>1, <3>3, <4>2, <4>5, <5>1 DEF ReducedOK
        <5> HIDE DEF left, old
        <5> QED BY <2>2, <4>1, <4>4, <4>5, <5>2 DEF ReducedOK, old
      <4>6. CASE ~PerDrop
        <5>1. given[v] = Spent(mine, rsnap.open)
          BY <3>1, <4>6 DEF ReducedOK
        <5>2. Spent(left, rsnap.open) = Spent(mine, rsnap.open) + Abs(new) - Abs(mine[e])
          <6>1. e \in rsnap.open /\ new \in Int /\ mine \in [Drops -> Int] /\ rsnap.open \in SUBSET Drops
            BY <2>1, <2>3, <4>1
          <6> HIDE DEF mine
          <6> QED BY <6>1, SpentChange
        <5>3. new \in Nat /\ mine[e] \in Nat
          BY <2>1, <3>3, <4>6 DEF CreditInv, SignsOK
        <5>4. given'[v] = given[v] + new - mine[e]
          BY <2>1, <2>3, <3>3, <4>6
        <5>5. given'[v] = Spent(left, rsnap.open)
          <6>1. Abs(new) = new /\ Abs(mine[e]) = mine[e]
            BY <5>3 DEF Abs
          <6> HIDE DEF left, mine
          <6> QED BY <5>1, <5>2, <5>4, <6>1
        <5>6. CASE todo' = todo \ ({u} \X Drops) /\ given'[u] <= rcredit[u]
          <6>1. \A d \in Drops : <<v, d>> \notin todo'
            BY <3>3, <5>6
          <6> HIDE DEF left, old
          <6> QED BY <2>2, <3>3, <4>1, <4>4, <4>6, <5>5, <5>6, <6>1 DEF ReducedOK, old
        <5>7. CASE todo' = todo \ {current}
          <6>1. \A d \in rsnap.open : <<v, d>> \notin todo' => <<v, d>> \notin todo \/ d = e
            BY <2>1, <2>3, <3>3, <5>7
          <6>2. ~\A d \in Drops : <<v, d>> \notin todo
            BY <2>1, <3>3
          <6>3. \A d \in rsnap.open : <<v, d>> \notin todo => mine[d] * total <= old[d] * rcredit[v]
            BY <3>1, <4>6, <6>2 DEF ReducedOK
          <6>4. new * total <= old[e] * rcredit[v] /\ total > rcredit[v]
            BY <2>1, <3>3, <4>6
          <6>5. \A d \in rsnap.open : <<v, d>> \notin todo' => left[d] * total <= old[d] * rcredit[v]
            <7>1. \A d \in rsnap.open : left[d] = IF d = e THEN new ELSE mine[d]
              BY <2>3, <4>2
            <7> HIDE DEF left, old, total, mine
            <7> QED BY <6>1, <6>3, <6>4, <7>1
          <6> HIDE DEF left, old
          <6> QED BY <2>2, <4>1, <4>4, <4>6, <5>5, <6>4, <6>5 DEF ReducedOK, old
        <5> QED BY <2>1, <4>6, <5>6, <5>7
      <4> QED BY <4>5, <4>6
    <3> QED BY <3>2, <3>3
  <2> QED BY <1>1, <2>2, <2>4 DEF RevocationFits
<1>7. RevokerFails \/ RevokerCommits => EndRevocation
  BY DEF RevokerFails, RevokerCommits
<1> QED BY <1>2, <1>3, <1>4, <1>5, <1>6, <1>7 DEF Revoking

(* What a commit leaves of its voter's votes is what the request has       *)
(* checked, or the voter has raced; others are not touched.                *)
LEMMA CreditKeptStep ==
  ASSUME CreditInv, [Next]_vars PROVE CreditKept'
<1>1. /\ StateTypeOK /\ RevocationFits /\ open' \subseteq open
      /\ \A v \in Voters \ raced : Within(votes[v], open, credit[v])
  BY OpenShrinks DEF CreditInv, CreditKept, Within
<1>2. /\ \A v \in Voters : votes[v] \in [Drops -> Int] /\ credit[v] \in Nat
      /\ open \in SUBSET Drops /\ open' \in SUBSET Drops
  BY <1>1 DEF StateTypeOK, TablesTypeOK
<1>3. ASSUME NEW mine \in [Drops -> Int], NEW S \in SUBSET Drops, NEW T \in SUBSET S,
             NEW limit \in Nat, Within(mine, S, limit)
      PROVE  Within(mine, T, limit)
  <2>1. Spent(mine, T) <= Spent(mine, S)
    BY <1>3, SpentSubset
  <2>2. Spent(mine, T) \in Int /\ Spent(mine, S) \in Int
    BY <1>3, SpentType
  <2> QED BY <1>3, <2>1, <2>2 DEF Within
<1>4. SUFFICES ASSUME NEW v \in Voters \ raced'
               PROVE  Within(votes'[v], open', credit'[v])
  BY DEF CreditKept, Within
<1>5. CASE votes'[v] = votes[v] /\ credit'[v] = credit[v] /\ v \notin raced
  <2>1. Within(votes[v], open, credit[v])
    BY <1>1, <1>5
  <2> QED BY <1>1, <1>2, <1>3, <1>5, <2>1
<1>6. CASE UNCHANGED <<tables, ghosts>> \/ RunSkipsPaused \/ RunDecides
  BY <1>5, <1>6 DEF tables, ghosts, RunSkipsPaused, RunDecides
<1>7. ASSUME NEW s \in Sessions, NEW after \in Orders, Commit(s, after)
      PROVE  Within(votes'[v], open', credit'[v])
  <2> DEFINE u == VoterOf[s]
             d == drop[s]
             mine == snap[s].votes
             n == vote[s]
  <2>1. /\ pc[s] = "ready" /\ credit' = credit /\ open' = open
        /\ votes' = [votes EXCEPT ![u] = [@ EXCEPT ![d] = n]]
        /\ raced' = IF votes[u] # mine \/ credit[u] # snap[s].credit
                    THEN raced \cup {u} ELSE raced
    BY <1>7 DEF Commit
  <2>2. u \in Voters /\ d \in Drops /\ n \in Int /\ mine \in [Drops -> Int]
    BY <1>1, <1>7, CommitFacts DEF StateTypeOK
  <2>3. /\ d \in snap[s].open /\ open \subseteq snap[s].open
        /\ EnoughCredit(snap[s], d, n)
        /\ snap[s].open \in SUBSET Drops /\ snap[s].credit \in Nat
    BY <1>1, <2>1 DEF CreditInv, RequestFits, StateTypeOK, RequestsTypeOK
  <2>4. CASE v # u
    <3>1. votes'[v] = votes[v] /\ v \notin raced
      BY <2>1, <2>4
    <3> QED BY <1>5, <2>1, <3>1
  <2>5. CASE v = u
    <3>1. v \notin raced /\ votes[v] = mine /\ credit[v] = snap[s].credit
      BY <2>1, <2>5
    <3>2. votes'[v] = [mine EXCEPT ![d] = n]
      <4>1. votes \in [Voters -> [Drops -> Int]]
        BY <1>1 DEF StateTypeOK, TablesTypeOK
      <4> HIDE DEF u, d, n, mine
      <4> QED BY <2>1, <2>2, <2>5, <3>1, <4>1
    <3> HIDE DEF d, n, mine, u
    <3>3. [mine EXCEPT ![d] = n] \in [Drops -> Int]
      BY <2>2
    <3>4. CASE PerDrop
      <4>1. Abs(n) <= credit[v]
        BY <2>3, <3>1, <3>4 DEF EnoughCredit
      <4>2. \A e \in open : Abs(mine[e]) <= credit[v]
        BY <1>1, <3>1, <3>4 DEF Within
      <4>3. \A e \in open : [mine EXCEPT ![d] = n][e] = IF e = d THEN n ELSE mine[e]
        BY <1>2, <2>2
      <4> QED BY <2>1, <3>2, <3>4, <4>1, <4>2, <4>3 DEF Within
    <3>5. CASE ~PerDrop
      <4>1. Abs(n) - Abs(mine[d]) + Spent(mine, snap[s].open) <= credit[v]
        BY <2>3, <3>1, <3>5 DEF EnoughCredit, mine
      <4>2. Spent([mine EXCEPT ![d] = n], snap[s].open)
              = Spent(mine, snap[s].open) + Abs(n) - Abs(mine[d])
        BY <2>2, <2>3, SpentChange
      <4>3. Abs(n) \in Int /\ Abs(mine[d]) \in Int /\ Spent(mine, snap[s].open) \in Int
        <5>1. Spent(mine, snap[s].open) \in Int
          BY <2>2, <2>3, SpentType
        <5> QED BY <2>2, <5>1 DEF Abs
      <4>4. Within([mine EXCEPT ![d] = n], snap[s].open, credit[v])
        BY <3>5, <4>1, <4>2, <4>3 DEF Within
      <4> QED BY <1>2, <1>3, <2>1, <2>3, <3>2, <3>3, <4>4
    <3> QED BY <3>4, <3>5
  <2> QED BY <2>4, <2>5
<1>8. CASE RevokerCommits
  <2>1. /\ rpc = "scan" /\ todo = {} /\ credit' = rcredit /\ open' = open
        /\ raced' = {w \in {w \in Voters : votes[w] # rsnap.votes[w]} :
                       \/ w \in raced
                       \/ rcredit[w] # credit[w]
                       \/ reduced[w] # rsnap.votes[w]}
        /\ votes' = [w \in Voters |-> [d \in Drops |->
                       IF <<w, d>> \in Revoked THEN reduced[w][d] ELSE votes[w][d]]]
    BY <1>8 DEF RevokerCommits
  <2>2. /\ reduced[v] \in [Drops -> Int] /\ rsnap.votes[v] \in [Drops -> Int]
        /\ rsnap.open \in SUBSET Drops /\ rcredit[v] \in Nat
    BY <1>1 DEF StateTypeOK, RevokerTypeOK
  <2>3. \A d \in Drops : <<v, d>> \in Revoked <=> reduced[v][d] # rsnap.votes[v][d]
    BY DEF Revoked
  <2>4. CASE votes[v] = rsnap.votes[v]
    <3>1. votes'[v] = reduced[v]
      <4>1. \A d \in Drops : votes'[v][d] = reduced[v][d]
        BY <2>1, <2>3, <2>4
      <4>2. votes'[v] = [d \in Drops |-> votes'[v][d]]
        BY <2>1
      <4> QED BY <2>2, <4>1, <4>2
    <3>2. ReducedOK(v, rsnap.votes[v], reduced[v], rcredit[v]) /\ open \subseteq rsnap.open
      BY <1>1, <2>1 DEF RevocationFits
    <3>3. Within(reduced[v], open, rcredit[v])
      BY <1>1, <2>1, <3>2, ReducedWithin DEF CreditInv, StateTypeOK
    <3> QED BY <2>1, <3>1, <3>3
  <2>5. CASE votes[v] # rsnap.votes[v]
    <3>1. v \notin raced /\ rcredit[v] = credit[v] /\ reduced[v] = rsnap.votes[v]
      BY <2>1, <2>5
    <3>2. votes'[v] = votes[v]
      <4>1. \A d \in Drops : votes'[v][d] = votes[v][d]
        BY <2>1, <2>3, <3>1
      <4>2. votes'[v] = [d \in Drops |-> votes'[v][d]]
        BY <2>1
      <4> QED BY <1>2, <4>1, <4>2
    <3> QED BY <1>5, <2>1, <3>1, <3>2
  <2> QED BY <2>4, <2>5
<1> QED BY <1>6, <1>7, <1>8, TableWrites

(* Nobody has voted at first.                                              *)
LEMMA CreditInit == Init => CreditInv
<1> SUFFICES ASSUME Init PROVE CreditInv
  OBVIOUS
<1>1. StateTypeOK
  BY StateTypeInit
<1>2. SignsOK
  BY DEF Init, SignsOK, NoVotes, NoWork
<1>3. (\A s \in Sessions : RequestFits(s)) /\ RevocationFits
  BY DEF Init, RequestFits, RevocationFits
<1>4. CreditKept
  <2> SUFFICES ASSUME NEW v \in Voters
               PROVE  IF PerDrop THEN \A d \in open : Abs(votes[v][d]) <= credit[v]
                      ELSE Spent(votes[v], open) <= credit[v]
    BY DEF CreditKept
  <2>1. votes[v] = [d \in Drops |-> 0] /\ credit[v] \in Nat /\ open = Drops
    BY ConstantsAssumption DEF Init, NoVotes
  <2>2. \A d \in open : Abs(votes[v][d]) = 0
    BY <2>1 DEF Abs
  <2> DEFINE f == [d \in open |-> Abs(votes[v][d])]
  <2>3. \A d \in open : f[d] = 0
    BY <2>2
  <2> HIDE DEF f
  <2>4. Total(f, open) = 0
    BY <2>1, <2>3, TotalZero, ConstantsAssumption
  <2>5. Spent(votes[v], open) = 0
    BY <2>4 DEF Spent, f
  <2> QED BY <2>1, <2>2, <2>5
<1> QED BY <1>1, <1>2, <1>3, <1>4 DEF CreditInv

(***************************************************************************)
(* CreditKept for any voters, drops, requests and credits: neither several *)
(* requests, nor a credit that shrinks, nor decisions in between leave a   *)
(* voter with more votes than credit, except for a voter one of whose      *)
(* transactions missed the other's vote or the new credit.  With scope     *)
(* WAVE this needs votes that are not against a drop: the floor of a share *)
(* of such a vote exceeds the share.                                       *)
(***************************************************************************)
THEOREM CreditCorrect ==
  ASSUME PerDrop \/ VoteValues \subseteq Nat PROVE Spec => []CreditKept
<1>1. Init => CreditInv
  BY CreditInit
<1>2. CreditInv /\ [Next]_vars => CreditInv'
  <2> SUFFICES ASSUME CreditInv, [Next]_vars PROVE CreditInv'
    OBVIOUS
  <2>1. (PerDrop \/ SignsOK)'
    BY SignsStep
  <2>2. \A s \in Sessions : RequestFits(s)'
    BY RequestFitsStep
  <2>3. StateTypeOK'
    BY StateTypeStep DEF CreditInv
  <2> QED BY <2>1, <2>2, <2>3, RevocationFitsStep, CreditKeptStep DEF CreditInv
<1>3. CreditInv => CreditKept
  BY DEF CreditInv
<1> QED BY <1>1, <1>2, <1>3, PTL DEF Spec
=============================================================================
