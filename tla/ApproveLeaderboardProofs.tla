---------------------- MODULE ApproveLeaderboardProofs ----------------------
(***************************************************************************)
(* Proofs about ApproveLeaderboard, for any drops, votes, settings and     *)
(* bounds.                                                                 *)
(*   - The bookkeeping of the decisions loop.  It counts slots and         *)
(*     decision times in its own memory while it formalizes one winner     *)
(*     after another; that they stay right (LoopOK) needs that nobody else *)
(*     closes drops or makes decisions of the wave.                        *)
(*   - The arithmetic of weighted votes: what the code computes from       *)
(*     windows, checkpoints and interpolation is what the definition,      *)
(*     the sum of the votes in force, says (WeightedIs, OverSince).        *)
(*   - What the entries and the winners say (BoardInv), through refreshes  *)
(*     that overtake each other, late votes and changes of the settings.   *)
(***************************************************************************)
EXTENDS ApproveLeaderboard, SumTheorems, TLAPS

Decisions == pass["decisions"]

\* A sequence of whatever.
IsSequence(s) == Len(s) \in Nat /\ s = [i \in 1 .. Len(s) |-> s[i]]

\* A record with the fields of Idle.
IsPass(p) ==
  p = [phase |-> p.phase, now |-> p.now, threshold |-> p.threshold,
       todo |-> p.todo, next |-> p.next, slots |-> p.slots, vote |-> p.vote]

ShapeOK ==
  /\ clock \in Nat
  /\ IsSequence(winners) /\ \A i \in 1 .. Len(winners) : winners[i].decided \in Nat
  /\ pass = [l \in Loops |-> pass[l]] /\ \A l \in Loops : IsPass(pass[l])
  /\ open \subseteq Drops

(* While the loop formalizes, its slots are those that are left, its next  *)
(* decision time is later than all that have been used and not in a pause, *)
(* and its candidates are open.                                            *)
LoopOK ==
  Decisions.phase \in {"check", "formalize", "correct"} =>
    /\ Decisions.slots \in Nat /\ Decisions.slots + Len(winners) = MaxWinners
    /\ Decisions.next \in Nat
    /\ \A i \in 1 .. Len(winners) : winners[i].decided < Decisions.next
    /\ Decisions.todo \subseteq open
    /\ Decisions.phase # "check" =>
         /\ Decisions.slots # 0 /\ Decisions.todo # {}
         /\ Decisions.next \notin Pauses

(***************************************************************************)
(* No decision is made in a pause, and no two decisions of the wave share  *)
(* a time (the key of wave_decisions), although a pass may be killed       *)
(* anywhere and the next one starts from the clock.                        *)
(***************************************************************************)
DecisionTimes ==
  \A i \in 1 .. Len(winners) :
    /\ winners[i].decided \notin Pauses
    /\ \A j \in 1 .. i - 1 : winners[j].decided < winners[i].decided

(***************************************************************************)
(* No drop wins twice, and no more drops win than max_winners.             *)
(***************************************************************************)
WinnersAreFew ==
  /\ Len(winners) <= MaxWinners
  /\ \A i \in 1 .. Len(winners) :
       /\ winners[i].drop \notin open
       /\ \A j \in 1 .. i - 1 : winners[j].drop # winners[i].drop

DecisionInv == ShapeOK /\ LoopOK /\ DecisionTimes /\ WinnersAreFew

-----------------------------------------------------------------------------
(***************************************************************************)
(* A sequence and one more.                                                *)
(***************************************************************************)
LEMMA AppendFacts ==
  ASSUME NEW s, IsSequence(s), NEW e
  PROVE  /\ IsSequence(Append(s, e)) /\ Len(Append(s, e)) = Len(s) + 1
         /\ Append(s, e)[Len(s) + 1] = e
         /\ \A i \in 1 .. Len(s) : Append(s, e)[i] = s[i]
<1> DEFINE S == {s[i] : i \in 1 .. Len(s)} \cup {e}
<1>1. s \in Seq(S)
  BY DEF IsSequence
<1>2. e \in S
  OBVIOUS
<1> HIDE DEF S
<1>3. /\ Append(s, e) \in Seq(S) /\ Len(Append(s, e)) = Len(s) + 1
      /\ Append(s, e)[Len(s) + 1] = e
      /\ \A i \in 1 .. Len(s) : Append(s, e)[i] = s[i]
  BY <1>1, <1>2
<1>4. \A x : x \in Seq(S) => IsSequence(x)
  BY DEF IsSequence
<1> QED BY <1>3, <1>4

(***************************************************************************)
(* Some fields of a pass assigned.                                         *)
(***************************************************************************)
LEMMA PassUpdates ==
  ASSUME NEW q, IsPass(q), NEW x, NEW y
  PROVE  /\ [q EXCEPT !.todo = x]
               = [phase |-> q.phase, now |-> q.now, threshold |-> q.threshold,
                  todo |-> x, next |-> q.next, slots |-> q.slots, vote |-> q.vote]
         /\ IsPass([q EXCEPT !.todo = x]) /\ [q EXCEPT !.todo = x].phase = q.phase
         /\ [q EXCEPT !.phase = x, !.vote = y]
               = [phase |-> x, now |-> q.now, threshold |-> q.threshold,
                  todo |-> q.todo, next |-> q.next, slots |-> q.slots, vote |-> y]
<1> DEFINE r == [phase |-> x, now |-> q.now, threshold |-> q.threshold,
                 todo |-> q.todo, next |-> q.next, slots |-> q.slots,
                 vote |-> q.vote]
           t == [phase |-> q.phase, now |-> q.now, threshold |-> q.threshold,
                 todo |-> x, next |-> q.next, slots |-> q.slots, vote |-> q.vote]
<1>1. [q EXCEPT !.todo = x] = t
  BY DEF IsPass
<1>2. IsPass(t) /\ t.phase = q.phase
  BY DEF IsPass
<1>3. [q EXCEPT !.phase = x] = r
  BY DEF IsPass
<1>4. [r EXCEPT !.vote = y]
        = [phase |-> x, now |-> q.now, threshold |-> q.threshold,
           todo |-> q.todo, next |-> q.next, slots |-> q.slots, vote |-> y]
  OBVIOUS
<1>5. [q EXCEPT !.phase = x, !.vote = y] = [[q EXCEPT !.phase = x] EXCEPT !.vote = y]
  OBVIOUS
<1>6. t = [phase |-> q.phase, now |-> q.now, threshold |-> q.threshold,
           todo |-> x, next |-> q.next, slots |-> q.slots, vote |-> q.vote]
  OBVIOUS
<1> HIDE DEF r, t
<1> QED BY <1>1, <1>2, <1>3, <1>4, <1>5, <1>6

-----------------------------------------------------------------------------

(***************************************************************************)
(* Before the first pass nothing has been decided and nobody is at work.   *)
(***************************************************************************)
LEMMA InitInv == Init => DecisionInv
<1> SUFFICES ASSUME Init PROVE DecisionInv
  OBVIOUS
<1>1. IsPass(Idle) /\ Idle.phase = "idle"
  BY DEF IsPass, Idle
<1>2. pass = [l \in Loops |-> Idle] /\ winners = <<>> /\ open = Drops /\ clock = 0
  BY DEF Init
<1>3. "decisions" \in Loops
  BY DEF Loops
<1>4. ShapeOK
  BY <1>1, <1>2 DEF ShapeOK, IsSequence
<1> QED BY <1>1, <1>2, <1>3, <1>4, ConstantsAssumption
        DEF DecisionInv, LoopOK, Decisions, DecisionTimes, WinnersAreFew

(***************************************************************************)
(* A pass that moves on or ends, without deciding.                         *)
(***************************************************************************)
LEMMA PassMoves ==
  ASSUME DecisionInv, NEW l \in Loops, NEW p, IsPass(p),
         pass' = [pass EXCEPT ![l] = p], UNCHANGED <<clock, open, winners>>,
         l = "decisions" => p.phase \notin {"check", "formalize", "correct"}
  PROVE  DecisionInv'
<1>1. ShapeOK'
  BY DEF DecisionInv, ShapeOK
<1>2. Decisions' = IF l = "decisions" THEN p ELSE Decisions
  BY DEF DecisionInv, ShapeOK, Decisions, Loops
<1>3. LoopOK'
  BY <1>2 DEF DecisionInv, LoopOK
<1>4. DecisionTimes' /\ WinnersAreFew'
  BY DEF DecisionInv, DecisionTimes, WinnersAreFew
<1> QED BY <1>1, <1>3, <1>4 DEF DecisionInv

(***************************************************************************)
(* Votes, refreshed ratings and the clock leave what the decisions rest    *)
(* on.                                                                     *)
(***************************************************************************)
LEMMA OthersStep ==
  ASSUME DecisionInv, UNCHANGED <<open, winners, pass>>, clock' \in Nat
  PROVE  DecisionInv'
BY DEF DecisionInv, ShapeOK, LoopOK, Decisions, DecisionTimes, WinnersAreFew

(***************************************************************************)
(* The refresh half of a pass only moves its own loop between phases.      *)
(***************************************************************************)
LEMMA RefreshStep ==
  ASSUME DecisionInv, NEW l \in Loops,
         \/ StartPass(l) \/ FinishRefresh(l) \/ Crash(l)
         \/ \E d \in Drops : RefreshDrop(l, d) \/ RefreshFails(l, d)
  PROVE  DecisionInv'
<1>1. UNCHANGED <<clock, open, winners>>
  BY DEF StartPass, FinishRefresh, Crash, RefreshDrop, RefreshFails
<1>2. IsPass(Idle) /\ Idle.phase = "idle"
  BY DEF IsPass, Idle
<1>3. IsPass(pass[l])
  BY DEF DecisionInv, ShapeOK
<1>4. CASE StartPass(l)
  <2> DEFINE T == {d \in Drops : NeedsRefresh(d)}
             p == [phase |-> "refresh", now |-> clock, threshold |-> threshold,
                   todo |-> T, next |-> 0, slots |-> 0, vote |-> 0]
  <2>1. pass' = [pass EXCEPT ![l] = p]
    BY <1>4 DEF StartPass
  <2>2. IsPass(p) /\ p.phase = "refresh"
    BY DEF IsPass
  <2> HIDE DEF p
  <2> QED BY <1>1, <2>1, <2>2, PassMoves
<1>5. CASE FinishRefresh(l)
  <2> DEFINE p == [Idle EXCEPT !.phase = "approve"]
  <2>1. IsPass(p) /\ p.phase = "approve"
    BY <1>2 DEF IsPass
  <2>2. pass' = [pass EXCEPT ![l] = IF l = "decisions" THEN p ELSE Idle]
    BY <1>5 DEF FinishRefresh
  <2> HIDE DEF p
  <2> QED BY <1>1, <1>2, <2>1, <2>2, PassMoves
<1>6. CASE Crash(l)
  BY <1>1, <1>2, <1>6, PassMoves DEF Crash
<1>7. CASE \E d \in Drops : RefreshDrop(l, d) \/ RefreshFails(l, d)
  <2>1. PICK d \in Drops : RefreshDrop(l, d) \/ RefreshFails(l, d)
    BY <1>7
  <2> DEFINE q == pass[l]
             p == [q EXCEPT !.todo = @ \ {d}]
  <2>2. pass' = [pass EXCEPT ![l] = p] /\ q.phase = "refresh"
    BY <2>1 DEF RefreshDrop, RefreshFails
  <2>3. IsPass(p) /\ p.phase = "refresh"
    <3> DEFINE T == q.todo \ {d}
    <3>1. p = [q EXCEPT !.todo = T]
      OBVIOUS
    <3> HIDE DEF T, p
    <3> QED BY <1>3, <2>2, <3>1, PassUpdates
  <2> HIDE DEF p
  <2> QED BY <1>1, <2>2, <2>3, PassMoves
<1> QED BY <1>4, <1>5, <1>6, <1>7

(***************************************************************************)
(* FindCandidates only takes open drops, and never a time at or before the *)
(* last decision.                                                          *)
(***************************************************************************)
LEMMA FindStep == ASSUME DecisionInv, FindCandidates PROVE DecisionInv'
<1> DEFINE T == {d \in Drops : IsCandidate(d)}
           n == Max({clock, LatestDecision + 1})
           p == [phase |-> "check", now |-> clock, threshold |-> threshold,
                 todo |-> T, next |-> n, slots |-> MaxWinners - Len(winners),
                 vote |-> 0]
<1>1. pass' = [pass EXCEPT !["decisions"] = p] /\ UNCHANGED <<clock, open, winners>>
  BY DEF FindCandidates
<1>2. T \subseteq open
  BY DEF IsCandidate
<1>3. /\ n \in Nat
      /\ \A i \in 1 .. Len(winners) : winners[i].decided < n
  <2>1. LatestDecision \in Nat
    BY DEF LatestDecision, DecisionInv, ShapeOK, IsSequence
  <2>2. ASSUME NEW a \in Nat, NEW b \in Nat
        PROVE  Max({a, b}) \in Nat /\ Max({a, b}) >= b
    <3>1. \E m \in {a, b} : \A y \in {a, b} : m >= y
      <4>1. CASE a <= b
        BY <4>1
      <4>2. CASE b <= a
        BY <4>2
      <4> QED BY <4>1, <4>2
    <3> QED BY <3>1 DEF Max
  <2>3. n \in Nat /\ n > LatestDecision
    <3>1. clock \in Nat /\ LatestDecision + 1 \in Nat
      BY <2>1 DEF DecisionInv, ShapeOK
    <3>2. n \in Nat /\ n >= LatestDecision + 1
      BY <2>2, <3>1
    <3> HIDE DEF n
    <3> QED BY <2>1, <3>2
  <2>4. ASSUME NEW i \in 1 .. Len(winners)
        PROVE  winners[i].decided <= LatestDecision
    <3>1. Len(winners) \in Nat /\ Len(winners) \in 1 .. Len(winners)
      BY <2>4 DEF DecisionInv, ShapeOK, IsSequence
    <3>2. LatestDecision = winners[Len(winners)].decided
      BY <2>4, <3>1 DEF LatestDecision
    <3>3. winners[i].decided \in Nat /\ winners[Len(winners)].decided \in Nat
      BY <3>1 DEF DecisionInv, ShapeOK
    <3>4. i = Len(winners) \/ i \in 1 .. Len(winners) - 1
      BY <3>1
    <3>5. CASE i = Len(winners)
      BY <3>2, <3>3, <3>5
    <3>6. CASE i \in 1 .. Len(winners) - 1
      <4>1. winners[i].decided < winners[Len(winners)].decided
        BY <3>1, <3>6 DEF DecisionInv, DecisionTimes
      <4> QED BY <3>2, <3>3, <4>1
    <3> QED BY <3>4, <3>5, <3>6
  <2>5. \A i \in 1 .. Len(winners) : winners[i].decided \in Nat
    BY DEF DecisionInv, ShapeOK
  <2> HIDE DEF n
  <2> QED BY <2>1, <2>3, <2>4, <2>5
<1>4. MaxWinners - Len(winners) \in Nat
  BY ConstantsAssumption DEF DecisionInv, ShapeOK, IsSequence, WinnersAreFew
<1>5. /\ IsPass(p) /\ p.phase = "check" /\ p.todo = T /\ p.next = n
      /\ p.slots = MaxWinners - Len(winners)
  BY DEF IsPass
<1> HIDE DEF p, T, n
<1>6. ShapeOK'
  BY <1>1, <1>5 DEF DecisionInv, ShapeOK
<1>7. Decisions' = p
  BY <1>1 DEF DecisionInv, ShapeOK, Decisions, Loops
<1>8. LoopOK'
  <2>1. p.slots \in Nat /\ p.slots + Len(winners) = MaxWinners
    <3>1. Len(winners) \in Nat
      BY DEF DecisionInv, ShapeOK, IsSequence
    <3>2. (MaxWinners - Len(winners)) + Len(winners) = MaxWinners
      BY <3>1, ConstantsAssumption
    <3> QED BY <1>4, <1>5, <3>2
  <2>2. p.todo \subseteq open /\ p.phase = "check"
    BY <1>2, <1>5
  <2> QED BY <1>1, <1>3, <1>5, <1>7, <2>1, <2>2 DEF LoopOK
<1>9. DecisionTimes' /\ WinnersAreFew'
  BY <1>1 DEF DecisionInv, DecisionTimes, WinnersAreFew
<1> QED BY <1>6, <1>8, <1>9 DEF DecisionInv

(***************************************************************************)
(* A candidate is looked at: it is formalized next, or left out.           *)
(***************************************************************************)
LEMMA CheckMoves ==
  ASSUME DecisionInv, CheckCandidate
  PROVE  LET p == pass["decisions"]
             v == LiveVote(Min(p.todo), Min({p.now, p.next})) \div TimeLock
         IN
         \E f \in {"formalize", "correct"} :
           /\ f = "formalize" <=> v >= p.threshold
           /\ pass' = [pass EXCEPT !["decisions"] =
                [phase |-> f, now |-> p.now, threshold |-> p.threshold,
                 todo |-> p.todo, next |-> p.next, slots |-> p.slots, vote |-> v]]
<1> DEFINE p == pass["decisions"]
           v == LiveVote(Min(p.todo), Min({p.now, p.next})) \div TimeLock
<1>1. PICK f \in {"formalize", "correct"} :
        /\ f = "formalize" <=> v >= p.threshold
        /\ pass' = [pass EXCEPT !["decisions"] = [p EXCEPT !.phase = f, !.vote = v]]
  BY DEF CheckCandidate
<1>2. IsPass(p)
  BY DEF DecisionInv, ShapeOK, Loops
<1> HIDE DEF p, v
<1>3. [p EXCEPT !.phase = f, !.vote = v]
        = [phase |-> f, now |-> p.now, threshold |-> p.threshold,
           todo |-> p.todo, next |-> p.next, slots |-> p.slots, vote |-> v]
  BY <1>2, PassUpdates
<1> QED BY <1>1, <1>3 DEF p, v

(***************************************************************************)
(* The candidate in turn is looked at, or its entry is put right: slots    *)
(* and time stay.                                                          *)
(***************************************************************************)
LEMMA SameSlots ==
  ASSUME DecisionInv, UNCHANGED <<clock, open, winners>>,
         \/ Decisions.phase = "check" /\ ~NoMoreWinners(Decisions)
         \/ Decisions.phase = "correct",
         NEW q, IsPass(q), pass' = [pass EXCEPT !["decisions"] = q],
         q.next = Decisions.next, q.slots = Decisions.slots,
         \/ q.phase \in {"formalize", "correct"} /\ q.todo = Decisions.todo
         \/ q.phase = "check" /\ q.todo \subseteq Decisions.todo
  PROVE  DecisionInv'
<1>1. Decisions' = q /\ ShapeOK'
  BY DEF DecisionInv, ShapeOK, Decisions, Loops
<1>2. LoopOK'
  BY <1>1 DEF DecisionInv, LoopOK, NoMoreWinners
<1>3. DecisionTimes' /\ WinnersAreFew'
  BY DEF DecisionInv, DecisionTimes, WinnersAreFew
<1> QED BY <1>1, <1>2, <1>3 DEF DecisionInv

LEMMA CheckStep == ASSUME DecisionInv, CheckCandidate PROVE DecisionInv'
<1> DEFINE p == pass["decisions"]
           v == LiveVote(Min(p.todo), Min({p.now, p.next})) \div TimeLock
<1>1. /\ p.phase = "check" /\ ~NoMoreWinners(p) /\ UNCHANGED <<clock, open, winners>>
      /\ Decisions = p
  BY DEF CheckCandidate, Decisions
<1>2. PICK f \in {"formalize", "correct"} :
        pass' = [pass EXCEPT !["decisions"] =
                   [phase |-> f, now |-> p.now, threshold |-> p.threshold,
                    todo |-> p.todo, next |-> p.next, slots |-> p.slots, vote |-> v]]
  BY CheckMoves
<1> HIDE DEF v, p
<1> DEFINE q == [phase |-> f, now |-> p.now, threshold |-> p.threshold,
                 todo |-> p.todo, next |-> p.next, slots |-> p.slots, vote |-> v]
<1>3. /\ IsPass(q) /\ q.phase = f /\ q.next = p.next /\ q.slots = p.slots
      /\ q.todo = p.todo
  BY DEF IsPass
<1>4. pass' = [pass EXCEPT !["decisions"] = q]
  BY <1>2
<1> HIDE DEF q
<1> QED BY <1>1, <1>3, <1>4, SameSlots

LEMMA CorrectStep == ASSUME DecisionInv, CorrectEntry PROVE DecisionInv'
<1> DEFINE p == pass["decisions"]
           T == p.todo \ {Min(p.todo)}
           q == [phase |-> "check", now |-> p.now, threshold |-> p.threshold,
                 todo |-> T, next |-> p.next, slots |-> p.slots, vote |-> 0]
<1>1. /\ p.phase = "correct" /\ pass' = [pass EXCEPT !["decisions"] = q]
      /\ UNCHANGED <<clock, open, winners>> /\ Decisions = p
  BY DEF CorrectEntry, Decisions
<1>2. T \subseteq p.todo
  OBVIOUS
<1> HIDE DEF T, p
<1>3. /\ IsPass(q) /\ q.phase = "check" /\ q.next = p.next /\ q.slots = p.slots
      /\ q.todo = T
  BY DEF IsPass
<1> HIDE DEF q
<1> QED BY <1>1, <1>2, <1>3, SameSlots

(***************************************************************************)
(* A winner is added: its time is the latest, its drop was still open.     *)
(***************************************************************************)
LEMMA FormalizeStep == ASSUME DecisionInv, Formalize PROVE DecisionInv'
<1> DEFINE p == pass["decisions"]
           d == Min(p.todo)
           n == Len(winners)
           w == [drop |-> d, decided |-> p.next, seen |-> Min({p.now, p.next}),
                 threshold |-> p.threshold, vote |-> p.vote]
           q == [phase |-> "check", now |-> p.now, threshold |-> p.threshold,
                 todo |-> p.todo \ {d}, next |-> p.next + 1,
                 slots |-> p.slots - 1, vote |-> p.vote]
<1>1. /\ p.phase = "formalize" /\ winners' = Append(winners, w)
      /\ open' = open \ {d} /\ UNCHANGED clock
      /\ pass' = [pass EXCEPT !["decisions"] = q] /\ "decisions" \in Loops
  BY DEF Formalize, Loops
<1>2. /\ p.slots \in Nat /\ p.slots + n = MaxWinners /\ p.slots # 0 /\ n \in Nat
      /\ p.next \in Nat /\ p.next \notin Pauses
      /\ \A i \in 1 .. n : winners[i].decided < p.next
      /\ p.todo \subseteq open /\ p.todo # {}
  BY <1>1 DEF DecisionInv, LoopOK, Decisions, ShapeOK, IsSequence
<1>3. d \in p.todo
  <2>1. p.todo \subseteq Nat /\ IsFiniteSet(p.todo)
    BY <1>2, ConstantsAssumption, FS_Subset DEF DecisionInv, ShapeOK
  <2> QED BY <1>2, <2>1, MinOfInts
<1>4. w.drop = d /\ w.decided = p.next
  OBVIOUS
<1>5. /\ IsPass(q) /\ q.phase = "check" /\ q.todo = p.todo \ {d}
      /\ q.next = p.next + 1 /\ q.slots = p.slots - 1
  BY DEF IsPass
<1> HIDE DEF w, q, d
<1>6. /\ IsSequence(winners') /\ Len(winners') = n + 1 /\ winners'[n + 1] = w
      /\ \A i \in 1 .. n : winners'[i] = winners[i]
  BY <1>1, AppendFacts DEF DecisionInv, ShapeOK
<1>7. \A i \in 1 .. Len(winners') : i \in 1 .. n \/ i = n + 1
  BY <1>2, <1>6
<1>8. Decisions' = q
  BY <1>1 DEF DecisionInv, ShapeOK, Decisions
<1>9. ShapeOK'
  <2>1. \A i \in 1 .. Len(winners') : winners'[i].decided \in Nat
    BY <1>2, <1>4, <1>6, <1>7 DEF DecisionInv, ShapeOK
  <2>2. /\ pass' = [l \in Loops |-> pass'[l]]
        /\ \A l \in Loops : IsPass(pass'[l])
    BY <1>1, <1>5 DEF DecisionInv, ShapeOK
  <2> QED BY <1>1, <1>6, <2>1, <2>2 DEF DecisionInv, ShapeOK
<1>10. LoopOK'
  <2>1. ASSUME NEW i \in 1 .. Len(winners')
        PROVE  winners'[i].decided < q.next
    <3>1. CASE i = n + 1
      BY <1>2, <1>4, <1>5, <1>6, <3>1
    <3>2. CASE i \in 1 .. n
      <4>1. winners[i].decided \in Nat
        BY <3>2 DEF DecisionInv, ShapeOK
      <4> QED BY <1>2, <1>5, <1>6, <3>2, <4>1
    <3> QED BY <1>7, <3>1, <3>2
  <2>2. q.slots \in Nat /\ q.slots + Len(winners') = MaxWinners /\ q.next \in Nat
    <3>1. \A a, b \in Nat : a # 0 /\ a + b = MaxWinners =>
            a - 1 \in Nat /\ (a - 1) + (b + 1) = MaxWinners
      BY ConstantsAssumption
    <3>2. p.slots - 1 \in Nat /\ (p.slots - 1) + (n + 1) = MaxWinners
      BY <1>2, <3>1
    <3>3. p.next + 1 \in Nat
      BY <1>2
    <3> QED BY <1>5, <1>6, <3>2, <3>3
  <2>3. q.todo \subseteq open'
    BY <1>1, <1>2, <1>5
  <2> QED BY <1>5, <1>8, <2>1, <2>2, <2>3 DEF LoopOK
<1>11. DecisionTimes'
  <2> SUFFICES ASSUME NEW i \in 1 .. Len(winners')
               PROVE  /\ winners'[i].decided \notin Pauses
                      /\ \A j \in 1 .. i - 1 : winners'[j].decided < winners'[i].decided
    BY DEF DecisionTimes
  <2>1. CASE i \in 1 .. n
    <3>1. \A j \in 1 .. i - 1 : j \in 1 .. n
      BY <1>2, <2>1
    <3> QED BY <1>6, <2>1, <3>1 DEF DecisionInv, DecisionTimes
  <2>2. CASE i = n + 1
    <3>1. \A j \in 1 .. i - 1 : j \in 1 .. n
      BY <1>2, <2>2
    <3> QED BY <1>2, <1>4, <1>6, <2>2, <3>1
  <2> QED BY <1>7, <2>1, <2>2
<1>12. WinnersAreFew'
  <2>1. Len(winners') <= MaxWinners
    BY <1>2, <1>6, ConstantsAssumption
  <2>2. ASSUME NEW i \in 1 .. Len(winners')
        PROVE  /\ winners'[i].drop \notin open'
               /\ \A j \in 1 .. i - 1 : winners'[j].drop # winners'[i].drop
    <3>1. CASE i \in 1 .. n
      <4>1. \A j \in 1 .. i - 1 : j \in 1 .. n
        BY <1>2, <3>1
      <4> QED BY <1>1, <1>6, <3>1, <4>1 DEF DecisionInv, WinnersAreFew
    <3>2. CASE i = n + 1
      <4>1. \A j \in 1 .. i - 1 : j \in 1 .. n
        BY <1>2, <3>2
      <4>2. \A j \in 1 .. n : winners[j].drop # d
        BY <1>2, <1>3 DEF DecisionInv, WinnersAreFew
      <4> QED BY <1>1, <1>4, <1>6, <3>2, <4>1, <4>2
    <3> QED BY <1>7, <3>1, <3>2
  <2> QED BY <2>1, <2>2 DEF WinnersAreFew
<1> QED BY <1>9, <1>10, <1>11, <1>12 DEF DecisionInv

(***************************************************************************)
(* Every step of votes, refreshes and decisions keeps DecisionInv.         *)
(***************************************************************************)
LEMMA StepKeepsInv == DecisionInv /\ [Next]_vars => DecisionInv'
<1> SUFFICES ASSUME DecisionInv, [Next]_vars PROVE DecisionInv'
  OBVIOUS
<1>1. clock \in Nat
  BY DEF DecisionInv, ShapeOK
<1>2. CASE UNCHANGED vars
  BY <1>1, <1>2, OthersStep DEF vars
<1>3. CASE Tick
  <2>1. UNCHANGED <<open, winners, pass>> /\ clock' \in Nat
    BY <1>1, <1>3 DEF Tick
  <2> QED BY <2>1, OthersStep
<1>4. CASE \E d \in Drops : CommitVote(d) \/ \E v \in VoteValues : BeginVote(d, v)
  <2>1. UNCHANGED <<open, winners, pass>> /\ clock' \in Nat
    BY <1>1, <1>4 DEF CommitVote, BeginVote
  <2> QED BY <2>1, OthersStep
<1>5. CASE \E t \in Thresholds : UpdateThreshold(t)
  <2>1. UNCHANGED <<open, winners, pass>> /\ clock' \in Nat
    BY <1>1, <1>5 DEF UpdateThreshold
  <2> QED BY <2>1, OthersStep
<1>6. CASE \/ \E l \in Loops : StartPass(l) \/ FinishRefresh(l) \/ Crash(l)
           \/ \E l \in Loops, d \in Drops : RefreshDrop(l, d) \/ RefreshFails(l, d)
  BY <1>6, RefreshStep
<1>7. CASE FinishApproval
  <2>1. /\ pass' = [pass EXCEPT !["decisions"] = Idle]
        /\ UNCHANGED <<clock, open, winners>>
    BY <1>7 DEF FinishApproval
  <2>2. IsPass(Idle) /\ Idle.phase = "idle" /\ "decisions" \in Loops
    BY DEF IsPass, Idle, Loops
  <2> QED BY <2>1, <2>2, PassMoves
<1> QED BY <1>2, <1>3, <1>4, <1>5, <1>6, <1>7, FindStep, CheckStep, CorrectStep,
        FormalizeStep DEF Next

(***************************************************************************)
(* DecisionInv holds in every reachable state.                             *)
(***************************************************************************)
LEMMA InductiveInvariant == Spec => []DecisionInv
BY InitInv, StepKeepsInv, PTL DEF Spec

(***************************************************************************)
(* DecisionTimes, whatever fails and whenever the Lambda starts again      *)
(* (createApproveDecisions, wave_decisions' key).                          *)
(***************************************************************************)
THEOREM TimesAreApart == Spec => []DecisionTimes
<1>1. DecisionInv => DecisionTimes
  BY DEF DecisionInv
<1> QED BY <1>1, InductiveInvariant, PTL

(***************************************************************************)
(* WinnersAreFew: max_winners is respected although a pass counts its      *)
(* slots once, and no drop wins in two passes.                             *)
(***************************************************************************)
THEOREM NoSecondWin == Spec => []WinnersAreFew
<1>1. DecisionInv => WinnersAreFew
  BY DEF DecisionInv
<1> QED BY <1>1, InductiveInvariant, PTL

-----------------------------------------------------------------------------
(***************************************************************************)
(* Weighted votes.  A log is a set of rows of drop_real_vote_in_time, or   *)
(* of vote states cut out of it: no two of them have the same time.        *)
(***************************************************************************)
IsRow(r) == r = [at |-> r.at, votes |-> r.votes] /\ r.at \in Int /\ r.votes \in Int

IsLog(R) ==
  /\ IsFiniteSet(R)
  /\ \A r \in R : IsRow(r)
  /\ \A r, s \in R : r.at = s.at => r = s

\* The votes in force at a time, and the weighted vote, by a log.
Standing(R, t) ==
  LET before == {r \in R : r.at <= t}
  IN  IF before = {} THEN 0 ELSE Newest(before).votes

Score(R, t) == Total([i \in 1 .. TimeLock |-> Standing(R, t - i)], 1 .. TimeLock)

(* A part of a log is one, and its times are finitely many.                *)
LEMMA PartOfLog ==
  ASSUME NEW R, IsLog(R), NEW B, B \subseteq R
  PROVE  IsLog(B) /\ IsFiniteSet({r.at : r \in B}) /\ {r.at : r \in B} \subseteq Int
<1> DEFINE times == [r \in B |-> r.at]
<1>1. IsFiniteSet(B)
  BY FS_Subset DEF IsLog
<1>2. IsFiniteSet({times[r] : r \in B})
  <2> HIDE DEF times
  <2> QED BY <1>1, ImageIsFinite
<1>3. {times[r] : r \in B} = {r.at : r \in B}
  OBVIOUS
<1> QED BY <1>1, <1>2, <1>3 DEF IsLog, IsRow

(* The newest row of a log is the one with the greatest time.              *)
LEMMA NewestIs ==
  ASSUME NEW R, IsLog(R), R # {}
  PROVE  Newest(R) \in R /\ \A s \in R : s.at <= Newest(R).at
<1> DEFINE T == {r.at : r \in R}
<1>1. IsFiniteSet(T) /\ T \subseteq Int /\ T # {}
  BY PartOfLog
<1>2. Max(T) \in T /\ \A y \in T : y <= Max(T)
  <2> HIDE DEF T
  <2> QED BY <1>1, MaxOfInts
<1>3. PICK r \in R : \A s \in R : s.at <= r.at
  BY <1>2
<1> QED BY <1>3 DEF Newest

(* What is in force at a time is the newest row up to then.                *)
LEMMA StandingIs ==
  ASSUME NEW R, IsLog(R), NEW t \in Int
  PROVE  /\ (\A r \in R : ~(r.at <= t)) => Standing(R, t) = 0
         /\ \A n \in R : n.at <= t /\ (\A r \in R : r.at <= t => r.at <= n.at) =>
              Standing(R, t) = n.votes
         /\ \/ \A r \in R : ~(r.at <= t)
            \/ \E n \in R : n.at <= t /\ \A r \in R : r.at <= t => r.at <= n.at
         /\ Standing(R, t) \in Int
<1> DEFINE B == {r \in R : r.at <= t}
<1>1. IsLog(B) /\ B \subseteq R
  BY PartOfLog
<1>2. Standing(R, t) = IF B = {} THEN 0 ELSE Newest(B).votes
  BY DEF Standing
<1>3. CASE B = {}
  BY <1>2, <1>3
<1>4. CASE B # {}
  <2>1. Newest(B) \in B /\ \A s \in B : s.at <= Newest(B).at
    <3> HIDE DEF B
    <3> QED BY <1>1, <1>4, NewestIs
  <2>2. ASSUME NEW n \in R, n.at <= t, \A r \in R : r.at <= t => r.at <= n.at
        PROVE  n = Newest(B)
    <3>1. n.at = Newest(B).at
      <4>1. n.at <= Newest(B).at /\ Newest(B).at <= n.at
        BY <2>1, <2>2
      <4>2. n.at \in Int /\ Newest(B).at \in Int
        BY <2>1 DEF IsLog, IsRow
      <4> QED BY <4>1, <4>2
    <3> QED BY <2>1, <3>1 DEF IsLog
  <2>3. Newest(B).votes \in Int
    BY <2>1 DEF IsLog, IsRow
  <2> QED BY <1>2, <1>4, <2>1, <2>2, <2>3
<1> QED BY <1>3, <1>4

(* Scores are integers.                                                    *)
LEMMA ScoreType ==
  ASSUME NEW R, IsLog(R), NEW t \in Int
  PROVE  Score(R, t) \in Int
<1> DEFINE f == [i \in 1 .. TimeLock |-> Standing(R, t - i)]
<1>1. IsFiniteSet(1 .. TimeLock) /\ \A i \in 1 .. TimeLock : f[i] \in Int
  <2>1. \A i \in 1 .. TimeLock : t - i \in Int
    OBVIOUS
  <2>2. \A i \in 1 .. TimeLock : f[i] \in Int
    BY <2>1, StandingIs
  <2>3. TimeLock \in Int
    BY ConstantsAssumption
  <2> QED BY <2>2, <2>3, FS_Interval
<1> HIDE DEF f
<1>2. Total(f, 1 .. TimeLock) \in Int
  BY <1>1, TotalType
<1> QED BY <1>2 DEF Score, f

(* A row of a window counts until the next one.                            *)
LEMMA UntilIs ==
  ASSUME NEW W, IsLog(W), NEW end \in Int, NEW s \in W, s.at <= end
  PROVE  LET u == Until(W, s, end) IN
         /\ u \in Int /\ s.at <= u /\ u <= end
         /\ \A r \in W : s.at < r.at => u <= r.at
         /\ u = end \/ \E r \in W : s.at < r.at /\ u = r.at
<1> DEFINE later == {x \in W : s.at < x.at}
           T == {end} \cup {r.at : r \in later}
<1>1. IsFiniteSet({r.at : r \in later}) /\ {r.at : r \in later} \subseteq Int
  <2>1. later \subseteq W
    OBVIOUS
  <2> HIDE DEF later
  <2> QED BY <2>1, PartOfLog
<1>2. IsFiniteSet(T) /\ T \subseteq Int /\ T # {}
  <2>1. IsFiniteSet({r.at : r \in later} \cup {end})
    <3> DEFINE A == {r.at : r \in later}
    <3> HIDE DEF A
    <3>1. IsFiniteSet(A)
      BY <1>1 DEF A
    <3>2. IsFiniteSet(A \cup {end})
      BY <3>1, FS_AddElement
    <3> QED BY <3>2 DEF A
  <2>2. T = {r.at : r \in later} \cup {end}
    OBVIOUS
  <2> HIDE DEF later
  <2> QED BY <1>1, <2>1, <2>2
<1>3. Until(W, s, end) = Min(T)
  BY DEF Until
<1>4. Min(T) \in T /\ \A y \in T : Min(T) <= y
  <2> HIDE DEF T
  <2> QED BY <1>2, MinOfInts
<1>5. \A r \in later : r.at \in T
  OBVIOUS
<1>6. s.at \in Int
  BY DEF IsLog, IsRow
<1> DEFINE m == Min(T)
<1>7. m = end \/ \E r \in W : s.at < r.at /\ m = r.at
  BY <1>4
<1>8. m <= end /\ \A r \in W : s.at < r.at => m <= r.at
  BY <1>4, <1>5
<1>9. \A r \in W : r.at \in Int
  BY DEF IsLog, IsRow
<1> HIDE DEF m, T
<1>10. m \in Int /\ s.at <= m
  BY <1>6, <1>7, <1>9
<1> QED BY <1>3, <1>7, <1>8, <1>10 DEF m

(* A row counts for as many units of time as it is the newest one.         *)
LEMMA RowSum ==
  ASSUME NEW W, IsLog(W), NEW end \in Int, NEW s \in W,
         end - TimeLock <= s.at, s.at <= end
  PROVE  Total([i \in 1 .. TimeLock |->
                  IF s.at <= end - i /\ end - i < Until(W, s, end)
                  THEN s.votes ELSE 0], 1 .. TimeLock)
           = s.votes * (Until(W, s, end) - s.at)
<1> DEFINE I == 1 .. TimeLock
           u == Until(W, s, end)
           P == {i \in I : s.at <= end - i /\ end - i < u}
<1>1. u \in Int /\ s.at <= u /\ u <= end
  BY UntilIs
<1>2. TimeLock \in Nat /\ s.at \in Int /\ s.votes \in Int
  BY ConstantsAssumption DEF IsLog, IsRow
<1> HIDE DEF u
<1>3. P = (end - u + 1) .. (end - s.at)
  BY <1>1, <1>2
<1>4. Cardinality(P) = u - s.at
  <2> DEFINE a == end - u + 1
             b == end - s.at
  <2>1. a \in Int /\ b \in Int /\ b - a + 1 = u - s.at /\ (a > b => u - s.at = 0)
    BY <1>1, <1>2
  <2> HIDE DEF a, b, P
  <2>2. Cardinality(a .. b) = IF a > b THEN 0 ELSE b - a + 1
    BY <2>1, FS_Interval
  <2>3. P = a .. b
    BY <1>3 DEF a, b
  <2> QED BY <2>1, <2>2, <2>3
<1>5. IsFiniteSet(I) /\ P \in SUBSET I
  BY <1>2, FS_Interval
<1>6. [i \in I |-> IF s.at <= end - i /\ end - i < u THEN s.votes ELSE 0]
        = [i \in I |-> IF i \in P THEN s.votes ELSE 0]
  OBVIOUS
<1> HIDE DEF P, I
<1>7. Total([i \in I |-> IF i \in P THEN s.votes ELSE 0], I) = s.votes * Cardinality(P)
  BY <1>2, <1>5, TotalRepeated
<1> QED BY <1>4, <1>6, <1>7 DEF I, u

(* In a unit of time, the row that counts is the newest one.               *)
LEMMA ColumnSum ==
  ASSUME NEW W, IsLog(W), NEW end \in Int, NEW t \in Int, t < end,
         \A s \in W : s.at <= end
  PROVE  Total([s \in W |-> IF s.at <= t /\ t < Until(W, s, end)
                            THEN s.votes ELSE 0], W)
           = Standing(W, t)
<1> DEFINE f == [s \in W |-> IF s.at <= t /\ t < Until(W, s, end) THEN s.votes ELSE 0]
<1>1. \A s \in W : s.at \in Int /\ s.votes \in Int
  BY DEF IsLog, IsRow
<1>2. IsFiniteSet(W) /\ \A s \in W : f[s] \in Int
  BY <1>1 DEF IsLog
<1>3. CASE \A r \in W : ~(r.at <= t)
  <2>1. \A s \in W : f[s] = 0
    BY <1>3
  <2> HIDE DEF f
  <2>2. Total(f, W) = 0
    BY <1>2, <2>1, TotalZero
  <2> QED BY <1>3, <2>2, StandingIs DEF f
<1>4. ASSUME NEW n \in W, n.at <= t, \A r \in W : r.at <= t => r.at <= n.at
      PROVE  Total(f, W) = Standing(W, t)
  <2>1. f[n] = n.votes
    <3>1. t < Until(W, n, end)
      <4> DEFINE u == Until(W, n, end)
      <4>1. u \in Int /\ (u = end \/ \E r \in W : n.at < r.at /\ u = r.at)
        BY UntilIs
      <4> HIDE DEF u
      <4>2. ASSUME NEW r \in W, n.at < r.at, u = r.at PROVE t < u
        BY <1>1, <1>4, <4>2
      <4>3. t < u
        BY <4>1, <4>2
      <4> QED BY <4>3 DEF u
    <3> QED BY <1>4, <3>1
  <2>2. ASSUME NEW s \in W, s # n PROVE f[s] = 0
    <3>1. s.at <= t => s.at < n.at
      <4>1. s.at # n.at
        BY <2>2 DEF IsLog
      <4> QED BY <1>1, <1>4, <4>1
    <3>2. s.at < n.at => Until(W, s, end) <= t
      <4> DEFINE u == Until(W, s, end)
      <4>1. u \in Int /\ (s.at < n.at => u <= n.at)
        BY UntilIs
      <4> HIDE DEF u
      <4>2. s.at < n.at => u <= t
        BY <1>1, <1>4, <4>1
      <4> QED BY <4>2 DEF u
    <3>3. Until(W, s, end) \in Int
      BY UntilIs
    <3>4. ~(s.at <= t /\ t < Until(W, s, end))
      BY <1>1, <3>1, <3>2, <3>3
    <3> QED BY <3>4
  <2> HIDE DEF f
  <2>3. Total(f, W) = Total(f, {n})
    <3>1. {n} \in SUBSET W /\ \A x \in W \ {n} : f[x] = 0
      BY <2>2
    <3> QED BY <1>2, <3>1, TotalOfSupport
  <2>4. Total(f, {n}) = n.votes
    BY <1>1, <2>1, TotalSingle
  <2>5. Standing(W, t) = n.votes
    BY <1>4, StandingIs
  <2> QED BY <2>3, <2>4, <2>5
<1>5. Total(f, W) = Standing(W, t)
  BY <1>3, <1>4, StandingIs
<1> QED BY <1>5

(* The integral over a window, row by row, is that unit by unit.           *)
LEMMA WindowSum ==
  ASSUME NEW W, IsLog(W), NEW end \in Int,
         \A s \in W : end - TimeLock <= s.at /\ s.at <= end
  PROVE  Total([s \in W |-> s.votes * (Until(W, s, end) - s.at)], W) = Score(W, end)
<1> DEFINE I == 1 .. TimeLock
           f == [s \in W |-> [i \in I |->
                   IF s.at <= end - i /\ end - i < Until(W, s, end)
                   THEN s.votes ELSE 0]]
<1>1. IsFiniteSet(W) /\ IsFiniteSet(I)
  BY FS_Interval, ConstantsAssumption DEF IsLog
<1>2. \A s \in W, i \in I : f[s][i] \in Int
  BY DEF IsLog, IsRow
<1>3. [s \in W |-> Total([i \in I |-> f[s][i]], I)]
        = [s \in W |-> s.votes * (Until(W, s, end) - s.at)]
  <2>1. ASSUME NEW s \in W
        PROVE  Total([i \in I |-> f[s][i]], I) = s.votes * (Until(W, s, end) - s.at)
    <3>1. [i \in I |-> f[s][i]]
            = [i \in 1 .. TimeLock |->
                 IF s.at <= end - i /\ end - i < Until(W, s, end)
                 THEN s.votes ELSE 0]
      OBVIOUS
    <3> QED BY <3>1, RowSum
  <2> HIDE DEF f
  <2> QED BY <2>1
<1>4. [i \in I |-> Total([s \in W |-> f[s][i]], W)] = [i \in I |-> Standing(W, end - i)]
  <2>1. ASSUME NEW i \in I
        PROVE  Total([s \in W |-> f[s][i]], W) = Standing(W, end - i)
    <3>1. [s \in W |-> f[s][i]]
            = [s \in W |-> IF s.at <= end - i /\ end - i < Until(W, s, end)
                           THEN s.votes ELSE 0]
      OBVIOUS
    <3>2. end - i \in Int /\ end - i < end
      BY ConstantsAssumption
    <3> QED BY <3>1, <3>2, ColumnSum
  <2> HIDE DEF f
  <2> QED BY <2>1
<1> HIDE DEF f, I
<1>5. Total([s \in W |-> Total([i \in I |-> f[s][i]], I)], W)
        = Total([i \in I |-> Total([s \in W |-> f[s][i]], W)], I)
  BY <1>1, <1>2, TotalSwap, SMTT(20)
<1>6. Score(W, end) = Total([i \in I |-> Standing(W, end - i)], I)
  BY DEF I, Score
<1> QED BY <1>3, <1>4, <1>5, <1>6

\* The part M of the log from time a to b, with what was in force at a (F).
IsCut(R, a, b, M, F) ==
  /\ M \subseteq R /\ \A r \in M : a <= r.at
  /\ \A r \in R : a < r.at /\ r.at < b => r \in M
  /\ F = {} \/ F = {[at |-> a, votes |-> Standing(R, a)]}
  /\ F # {} => (\E r \in R : r.at <= a) /\ \A r \in M : r.at # a
  /\ (\E r \in R : r.at <= a) => F # {} \/ \E r \in M : r.at = a

(***************************************************************************)
(* A part of a log from a time on, with what was in force at that time     *)
(* moved there, says the same as the log from then on.                     *)
(***************************************************************************)
LEMMA CutLog ==
  ASSUME NEW R, IsLog(R), NEW a \in Int, NEW b \in Int, NEW M, NEW F,
         IsCut(R, a, b, M, F)
  PROVE  /\ IsLog(M \cup F)
         /\ \A r \in M \cup F : a <= r.at
         /\ \A t \in Int : a <= t /\ t < b => Standing(M \cup F, t) = Standing(R, t)
<1> USE DEF IsCut
<1> DEFINE W == M \cup F
<1>1. \A r \in R : IsRow(r) /\ r.at \in Int /\ r.votes \in Int
  BY DEF IsLog, IsRow
<1>2. Standing(R, a) \in Int
  BY StandingIs
<1>3. \A r \in F : r.at = a /\ r.votes = Standing(R, a) /\ IsRow(r)
  <2>1. IsRow([at |-> a, votes |-> Standing(R, a)])
    BY <1>2 DEF IsRow
  <2> QED BY <2>1
<1>4. IsLog(W)
  <2>1. IsFiniteSet(W)
    <3>1. IsFiniteSet(M) /\ IsFiniteSet(F)
      <4>1. IsFiniteSet(M)
        BY FS_Subset DEF IsLog
      <4>2. IsFiniteSet(F)
        <5> DEFINE x == [at |-> a, votes |-> Standing(R, a)]
        <5>1. F = {} \/ F = {x}
          OBVIOUS
        <5> HIDE DEF x
        <5>2. IsFiniteSet({x})
          BY FS_Singleton
        <5>3. IsFiniteSet({})
          BY FS_EmptySet
        <5> QED BY <5>1, <5>2, <5>3
      <4> QED BY <4>1, <4>2
    <3> QED BY <3>1, FS_Union
  <2>2. \A r \in W : IsRow(r)
    BY <1>1, <1>3
  <2>3. \A r, s \in M : r.at = s.at => r = s
    BY DEF IsLog
  <2>4. \A r, s \in F : r = s
    OBVIOUS
  <2>5. \A r \in M, s \in F : r.at # s.at
    BY <1>3
  <2> QED BY <2>1, <2>2, <2>3, <2>4, <2>5 DEF IsLog
<1>5. \A r \in W : a <= r.at
  BY <1>3
<1>6. ASSUME NEW t \in Int, a <= t, t < b PROVE Standing(W, t) = Standing(R, t)
  <2>1. CASE \A r \in R : ~(r.at <= t)
    <3>1. \A r \in M : ~(r.at <= t)
      BY <2>1
    <3>2. F = {}
      <4>1. \A r \in R : ~(r.at <= a)
        BY <1>1, <1>6, <2>1
      <4> QED BY <4>1
    <3>3. \A r \in W : ~(r.at <= t)
      BY <3>1, <3>2
    <3> HIDE DEF W
    <3>4. Standing(W, t) = 0
      BY <1>4, <3>3, StandingIs
    <3>5. Standing(R, t) = 0
      BY <2>1, StandingIs
    <3> QED BY <3>4, <3>5
  <2>2. ASSUME NEW n \in R, n.at <= t, \A r \in R : r.at <= t => r.at <= n.at
        PROVE  Standing(W, t) = Standing(R, t)
    <3>1. Standing(R, t) = n.votes
      BY <2>2, StandingIs
    <3>2. ASSUME NEW m \in W, m.at <= t, \A r \in W : r.at <= t => r.at <= m.at
          PROVE  Standing(W, t) = m.votes
      <4> HIDE DEF W
      <4> QED BY <1>4, <3>2, StandingIs
    <3>3. CASE n \in M
      <4>1. \A r \in F : r.at <= n.at
        BY <1>3, <3>3
      <4>2. \A r \in W : r.at <= t => r.at <= n.at
        BY <2>2, <4>1
      <4> QED BY <2>2, <3>1, <3>2, <3>3, <4>2
    <3>4. CASE n \notin M
      <4>1. n.at <= a
        BY <1>1, <1>6, <2>2, <3>4
      <4>2. \A r \in M : r.at <= t => r.at = a
        <5> SUFFICES ASSUME NEW r \in M, r.at <= t PROVE r.at = a
          OBVIOUS
        <5>1. r.at <= n.at /\ a <= r.at /\ r.at \in Int /\ n.at \in Int
          BY <1>1, <2>2
        <5> QED BY <4>1, <5>1
      <4>3. ~\E r \in M : r.at = a
        <5> SUFFICES ASSUME NEW r \in M, r.at = a PROVE FALSE
          OBVIOUS
        <5>1. r.at <= n.at /\ r \in R
          BY <1>6, <2>2
        <5>2. r.at = n.at
          BY <1>1, <4>1, <5>1
        <5> QED BY <3>4, <5>1, <5>2 DEF IsLog
      <4>4. F = {[at |-> a, votes |-> Standing(R, a)]}
        BY <4>1, <4>3
      <4>5. PICK m \in F : m.at = a /\ m.votes = Standing(R, a)
        BY <1>3, <4>4
      <4>6. \A r \in R : r.at <= a => r.at <= n.at
        BY <1>1, <1>6, <2>2
      <4>7. Standing(R, a) = n.votes
        BY <4>1, <4>6, StandingIs
      <4>8. \A r \in W : r.at <= t => r.at <= m.at
        BY <1>3, <4>2, <4>5
      <4> QED BY <1>6, <3>1, <3>2, <4>5, <4>7, <4>8
    <3> QED BY <3>3, <3>4
  <2> QED BY <2>1, <2>2, StandingIs
<1> HIDE DEF W
<1>7. /\ IsLog(W) /\ \A r \in W : a <= r.at
      /\ \A t \in Int : a <= t /\ t < b => Standing(W, t) = Standing(R, t)
  BY <1>4, <1>5, <1>6
<1> QED BY <1>7 DEF W

\* What VoteStates cuts out of a log.
States(R, from, to) ==
  LET before == {r \in R : r.at <= from}
  IN  {r \in R : from < r.at /\ r.at < to}
        \cup {[at |-> from, votes |-> Newest(before).votes] : r \in before}

(* The vote states of a drop say what its history says from a time on.     *)
LEMMA StatesAre ==
  ASSUME NEW R, IsLog(R), NEW from \in Int, NEW to \in Int
  PROVE  LET S == States(R, from, to) IN
         /\ IsLog(S)
         /\ \A r \in S : from <= r.at
         /\ \A t \in Int : from <= t /\ t < to => Standing(S, t) = Standing(R, t)
<1> DEFINE before == {r \in R : r.at <= from}
           M == {r \in R : from < r.at /\ r.at < to}
           F == {[at |-> from, votes |-> Newest(before).votes] : r \in before}
<1>1. /\ M \subseteq R /\ \A r \in M : from <= r.at /\ r.at # from
      /\ \A r \in R : from < r.at /\ r.at < to => r \in M
  BY DEF IsLog, IsRow
<1>2. before # {} => Standing(R, from) = Newest(before).votes
  BY DEF Standing
<1>3. F = {} \/ F = {[at |-> from, votes |-> Standing(R, from)]}
  BY <1>2
<1>4. /\ F # {} => (\E r \in R : r.at <= from) /\ \A r \in M : r.at # from
      /\ (\E r \in R : r.at <= from) => F # {} \/ \E r \in M : r.at = from
  <2>1. F # {} => before # {}
    OBVIOUS
  <2>2. before # {} => F # {}
    OBVIOUS
  <2> HIDE DEF F, M
  <2> QED BY <1>1, <2>1, <2>2
<1>5. States(R, from, to) = M \cup F
  BY DEF States
<1> HIDE DEF M, F
<1>6. /\ IsLog(M \cup F) /\ \A r \in M \cup F : from <= r.at
      /\ \A t \in Int : from <= t /\ t < to => Standing(M \cup F, t) = Standing(R, t)
  <2>1. M \subseteq R /\ \A r \in M : from <= r.at
    BY <1>1
  <2>2. \A r \in R : from < r.at /\ r.at < to => r \in M
    BY <1>1
  <2>3. F # {} => (\E r \in R : r.at <= from) /\ \A r \in M : r.at # from
    BY <1>4
  <2>4. (\E r \in R : r.at <= from) => F # {} \/ \E r \in M : r.at = from
    BY <1>4
  <2>5. IsCut(R, from, to, M, F)
    BY <2>1, <2>2, <2>3, <2>4, <1>3 DEF IsCut
  <2> QED BY <2>5, CutLog
<1> QED BY <1>5, <1>6

(* So does a window.                                                       *)
LEMMA WindowIs ==
  ASSUME NEW S, IsLog(S), NEW start \in Int, NEW end \in Int, start <= end
  PROVE  LET W == Window(S, start, end) IN
         /\ IsLog(W)
         /\ \A r \in W : start <= r.at /\ r.at <= end
         /\ \A t \in Int : start <= t /\ t < end => Standing(W, t) = Standing(S, t)
<1> DEFINE within == {s \in S : start <= s.at /\ s.at <= end}
           before == {s \in S : s.at < start}
           gap == {b \in before : \A w \in within : w.at # start}
           F == {[at |-> start, votes |-> Newest(before).votes] : s \in gap}
<1>1. \A r \in S : r.at \in Int
  BY DEF IsLog, IsRow
<1>2. /\ within \subseteq S /\ \A r \in within : start <= r.at
      /\ \A r \in S : start < r.at /\ r.at < end => r \in within
  BY <1>1
<1>3. gap # {} => Standing(S, start) = Newest(before).votes
  <2> SUFFICES ASSUME gap # {} PROVE Standing(S, start) = Newest(before).votes
    OBVIOUS
  <2>1. \A r \in S : r.at # start
    OBVIOUS
  <2>2. {r \in S : r.at <= start} = before
    BY <1>1, <2>1
  <2>3. before # {}
    OBVIOUS
  <2> HIDE DEF before
  <2> QED BY <2>2, <2>3 DEF Standing
<1>4. F = {} \/ F = {[at |-> start, votes |-> Standing(S, start)]}
  BY <1>3
<1>5. F # {} => (\E r \in S : r.at <= start) /\ \A r \in within : r.at # start
  <2> SUFFICES ASSUME F # {}
               PROVE  (\E r \in S : r.at <= start) /\ \A r \in within : r.at # start
    OBVIOUS
  <2>1. gap # {}
    OBVIOUS
  <2>2. PICK b \in before : \A w \in within : w.at # start
    BY <2>1
  <2>3. b \in S /\ b.at <= start
    BY <1>1, <2>2
  <2> QED BY <2>2, <2>3
<1>6. (\E r \in S : r.at <= start) => F # {} \/ \E r \in within : r.at = start
  <2> SUFFICES ASSUME NEW r \in S, r.at <= start, \A w \in within : w.at # start
               PROVE  F # {}
    OBVIOUS
  <2>1. r.at # start
    OBVIOUS
  <2>2. r \in before
    BY <1>1, <2>1
  <2>3. r \in gap
    BY <2>2
  <2> HIDE DEF gap
  <2> QED BY <2>3
<1>7. Window(S, start, end) = within \cup F
  BY DEF Window
<1>8. \A r \in F : r.at <= end
  BY <1>4
<1>9. \A r \in within : r.at <= end
  OBVIOUS
<1> HIDE DEF within, before, gap, F
<1>10. /\ IsLog(within \cup F) /\ \A r \in within \cup F : start <= r.at
       /\ \A t \in Int : start <= t /\ t < end =>
            Standing(within \cup F, t) = Standing(S, t)
  <2>1. within \subseteq S /\ \A r \in within : start <= r.at
    BY <1>2
  <2>2. \A r \in S : start < r.at /\ r.at < end => r \in within
    BY <1>2
  <2>3. IsCut(S, start, end, within, F)
    BY <2>1, <2>2, <1>4, <1>5, <1>6 DEF IsCut
  <2>4. IsLog(within \cup F) /\ \A r \in within \cup F : start <= r.at
    BY <2>3, CutLog
  <2>5. ASSUME NEW u \in Int, start <= u, u < end
        PROVE  Standing(within \cup F, u) = Standing(S, u)
    BY <2>3, <2>5, CutLog, SMTT(20)
  <2> QED BY <2>4, <2>5
<1> QED BY <1>7, <1>8, <1>9, <1>10

(***************************************************************************)
(* The weighted vote computed from the vote states since a time is the sum *)
(* of the votes in force over the last time lock, as far as it lies after  *)
(* that time.                                                              *)
(***************************************************************************)
LEMMA WeightedIs ==
  ASSUME NEW R, IsLog(R), NEW from \in Int, NEW to \in Int, NEW p \in Int, p <= to
  PROVE  /\ Weighted(States(R, from, to), p)
              = Total([i \in 1 .. TimeLock |->
                         IF p - i < from THEN 0 ELSE Standing(R, p - i)], 1 .. TimeLock)
         /\ from + TimeLock <= p => Weighted(States(R, from, to), p) = Score(R, p)
<1> DEFINE S == States(R, from, to)
           W == Window(S, p - TimeLock, p)
           I == 1 .. TimeLock
           g == [i \in I |-> IF p - i < from THEN 0 ELSE Standing(R, p - i)]
<1>1. TimeLock \in Nat /\ p - TimeLock \in Int /\ p - TimeLock <= p
  BY ConstantsAssumption
<1>2. /\ IsLog(S) /\ \A r \in S : from <= r.at
      /\ \A t \in Int : from <= t /\ t < to => Standing(S, t) = Standing(R, t)
  BY StatesAre
<1> HIDE DEF S
<1>3. /\ IsLog(W) /\ \A r \in W : p - TimeLock <= r.at /\ r.at <= p
      /\ \A t \in Int : p - TimeLock <= t /\ t < p => Standing(W, t) = Standing(S, t)
  BY <1>1, <1>2, WindowIs
<1>4. Weighted(S, p) = Total([s \in W |-> s.votes * (Until(W, s, p) - s.at)], W)
  BY DEF Weighted
<1> HIDE DEF W
<1>5. Weighted(S, p) = Score(W, p)
  BY <1>3, <1>4, WindowSum
<1>6. ASSUME NEW i \in I PROVE Standing(W, p - i) = g[i]
  <2>1. p - i \in Int /\ p - TimeLock <= p - i /\ p - i < p /\ p - i < to
    BY <1>1
  <2>2. Standing(W, p - i) = Standing(S, p - i)
    BY <1>3, <2>1
  <2>3. CASE p - i < from
    <3>1. \A r \in S : ~(r.at <= p - i)
      BY <1>2, <2>1, <2>3 DEF IsLog, IsRow
    <3>2. Standing(S, p - i) = 0
      BY <1>2, <2>1, <3>1, StandingIs
    <3> QED BY <2>2, <2>3, <3>2
  <2>4. CASE ~(p - i < from)
    BY <1>2, <2>1, <2>2, <2>4
  <2> QED BY <2>3, <2>4
<1>7. [i \in I |-> Standing(W, p - i)] = g
  <2> HIDE DEF g
  <2>1. g = [i \in I |-> g[i]]
    BY DEF g
  <2> QED BY <1>6, <2>1
<1>8. Weighted(S, p) = Total(g, I)
  BY <1>5, <1>7 DEF Score
<1>9. ASSUME from + TimeLock <= p PROVE g = [i \in I |-> Standing(R, p - i)]
  <2>1. \A i \in I : ~(p - i < from)
    BY <1>1, <1>9
  <2> QED BY <2>1
<1>10. from + TimeLock <= p => Weighted(S, p) = Score(R, p)
  BY <1>8, <1>9 DEF Score
<1> QED BY <1>8, <1>10 DEF S

(* From one time lock after that time on, it is the weighted vote itself.  *)
LEMMA WeightedIsScore ==
  ASSUME NEW R, IsLog(R), NEW from \in Int, NEW to \in Int, NEW p \in Int,
         p <= to, from + TimeLock <= p
  PROVE  Weighted(States(R, from, to), p) = Score(R, p)
BY WeightedIs

-----------------------------------------------------------------------------
(***************************************************************************)
(* How the weighted vote moves from one unit of time to the next.          *)
(***************************************************************************)

(* Products keep the order of one factor.                                  *)
LEMMA TimesMonotone ==
  ASSUME NEW a \in Int, NEW b \in Int, NEW c \in Int, a <= b, 0 <= c
  PROVE  c * a \in Int /\ c * b \in Int /\ c * a <= c * b
<1>1. b - a >= 0 /\ b - a \in Int
  OBVIOUS
<1>2. c * (b - a) >= 0
  BY <1>1
<1>3. c * (b - a) = c * b - c * a
  OBVIOUS
<1> QED BY <1>2, <1>3

(* A factor can be taken out of an inequality.                             *)
LEMMA TimesCancel ==
  ASSUME NEW a \in Int, NEW b \in Int, NEW c \in Int, c > 0
  PROVE  (c * a <= c * b => a <= b) /\ (c * a < c * b => a < b)
<1>1. b <= a => c * b <= c * a
  BY TimesMonotone
<1>2. b < a => c * b < c * a
  <2> SUFFICES ASSUME b < a PROVE c * b < c * a
    OBVIOUS
  <2>1. c * (b + 1) <= c * a
    BY TimesMonotone
  <2>2. c * (b + 1) = c * b + c
    OBVIOUS
  <2>3. c * a \in Int /\ c * b \in Int
    OBVIOUS
  <2> QED BY <2>1, <2>2, <2>3
<1>3. c * a \in Int /\ c * b \in Int
  OBVIOUS
<1> QED BY <1>1, <1>2, <1>3

(* Rounding a quotient up.                                                 *)
LEMMA CeilDivIs ==
  ASSUME NEW a \in Int, NEW b \in Int, b > 0
  PROVE  LET k == CeilDiv(a, b) IN k \in Int /\ b * (k - 1) < a /\ a <= b * k
<1> DEFINE q == (-a) \div b
           r == (-a) % b
<1>1. -a \in Int /\ q \in Int /\ r \in Int /\ 0 <= r /\ r < b /\ -a = b * q + r
  OBVIOUS
<1>2. CeilDiv(a, b) = -q
  BY DEF CeilDiv
<1> HIDE DEF q, r
<1>3. b * (-q) = -(b * q) /\ b * (-q - 1) = -(b * q) - b /\ b * q \in Int
  BY <1>1
<1>4. a = -(b * q) - r
  BY <1>1, <1>3
<1>5. b * (-q - 1) < a /\ a <= b * (-q) /\ -q \in Int
  BY <1>1, <1>3, <1>4
<1> QED BY <1>2, <1>5

(* The weighted vote as a sum over times.                                  *)
LEMMA ScoreIsSum ==
  ASSUME NEW R, IsLog(R), NEW t \in Int
  PROVE  Score(R, t) = Total([u \in Int |-> Standing(R, u)], (t - TimeLock) .. (t - 1))
<1> DEFINE I == 1 .. TimeLock
           f == [i \in I |-> Standing(R, t - i)]
           h == [i \in I |-> t - i]
           g == [u \in Int |-> Standing(R, u)]
<1>1. TimeLock \in Nat /\ IsFiniteSet(I)
  BY FS_Interval, ConstantsAssumption
<1>2. \A i \in I : t - i \in Int
  OBVIOUS
<1>3. \A i \in I : f[i] \in Int /\ g[h[i]] = f[i]
  BY <1>2, StandingIs
<1>4. \A i, j \in I : h[i] = h[j] => i = j
  OBVIOUS
<1>5. {h[i] : i \in I} = (t - TimeLock) .. (t - 1)
  <2>1. \A u \in (t - TimeLock) .. (t - 1) : t - u \in I /\ u = t - (t - u)
    BY <1>1
  <2>2. \A i \in I : t - i \in (t - TimeLock) .. (t - 1)
    BY <1>1
  <2> QED BY <2>1, <2>2
<1> HIDE DEF f, g, h, I
<1>6. Total(f, I) = Total(g, {h[i] : i \in I})
  BY <1>1, <1>3, <1>4, TotalRename
<1> QED BY <1>5, <1>6 DEF f, g, I, Score

(* One unit of time later: one unit more, one unit less.                   *)
LEMMA ScoreStep ==
  ASSUME NEW R, IsLog(R), NEW t \in Int
  PROVE  Score(R, t + 1) = Score(R, t) + Standing(R, t) - Standing(R, t - TimeLock)
<1> DEFINE g == [u \in Int |-> Standing(R, u)]
           A == (t - TimeLock + 1) .. (t - 1)
           B == (t - TimeLock) .. (t - 1)
           C == (t - TimeLock + 1) .. t
<1>1. TimeLock \in Nat \ {0} /\ t - TimeLock \in Int /\ t - 1 \in Int
        /\ t - TimeLock + 1 \in Int /\ t + 1 \in Int
  BY ConstantsAssumption
<1>2. IsFiniteSet(A) /\ IsFiniteSet(B) /\ IsFiniteSet(C)
  BY <1>1, FS_Interval
<1>3. t - TimeLock \in B /\ B \ {t - TimeLock} = A /\ t \in C /\ C \ {t} = A
  BY <1>1
<1>4. \A u \in Int : g[u] = Standing(R, u) /\ g[u] \in Int
  BY StandingIs
<1>5. \A u \in B \cup C : u \in Int
  BY <1>1
<1>6. Score(R, t) = Total(g, B)
  BY ScoreIsSum
<1>7. Score(R, t + 1) = Total(g, C)
  <2>1. (t + 1) - TimeLock = t - TimeLock + 1 /\ (t + 1) - 1 = t
    BY <1>1
  <2>2. Score(R, t + 1) = Total(g, ((t + 1) - TimeLock) .. ((t + 1) - 1))
    BY <1>1, ScoreIsSum
  <2> QED BY <2>1, <2>2
<1> HIDE DEF g, A, B, C
<1>8. Total(g, B) = g[t - TimeLock] + Total(g, A)
  <2>1. \A u \in B : g[u] \in Int
    BY <1>4, <1>5
  <2> QED BY <2>1, <1>2, <1>3, TotalRemove
<1>9. Total(g, C) = g[t] + Total(g, A)
  <2>1. \A u \in C : g[u] \in Int
    BY <1>4, <1>5
  <2>2. IsFiniteSet(C) /\ t \in C
    BY <1>2, <1>3
  <2>3. ASSUME NEW u \in C PROVE Total(g, C) = g[u] + Total(g, C \ {u})
    BY <1>2, <2>1, TotalRemove, SMTT(30)
  <2>4. Total(g, C) = g[t] + Total(g, C \ {t})
    BY <2>2, <2>3
  <2> QED BY <2>4, <1>3
<1>10. Total(g, A) \in Int
  <2>1. \A u \in A : g[u] \in Int
    BY <1>3, <1>4, <1>5
  <2> QED BY <2>1, <1>2, TotalType
<1>11. g[t] = Standing(R, t) /\ g[t - TimeLock] = Standing(R, t - TimeLock)
         /\ g[t] \in Int /\ g[t - TimeLock] \in Int
  BY <1>1, <1>4
<1> QED BY <1>6, <1>7, <1>8, <1>9, <1>10, <1>11

(* Without a row in between, the votes in force stay.                      *)
LEMMA StandingStays ==
  ASSUME NEW R, IsLog(R), NEW a \in Int, NEW t \in Int, a <= t,
         \A r \in R : ~(a < r.at /\ r.at <= t)
  PROVE  Standing(R, t) = Standing(R, a)
<1>1. \A r \in R : r.at \in Int
  BY DEF IsLog, IsRow
<1>2. {r \in R : r.at <= t} = {r \in R : r.at <= a}
  BY <1>1
<1> QED BY <1>2 DEF Standing

\* No row comes into force and none leaves the window between two times.
Calm(R, a, b) ==
  \A r \in R : ~(a < r.at /\ r.at < b) /\ ~(a < r.at + TimeLock /\ r.at + TimeLock < b)

\* By how much the weighted vote changes in a unit of time.
Slope(R, a) == Standing(R, a) - Standing(R, a - TimeLock)

(* In between, the weighted vote is linear.                                *)
LEMMA ScoreLinear ==
  ASSUME NEW R, IsLog(R), NEW a \in Int, NEW b \in Int, a < b, Calm(R, a, b)
  PROVE  /\ Slope(R, a) \in Int
         /\ \A t \in a .. b : Score(R, t) = Score(R, a) + Slope(R, a) * (t - a)
<1> DEFINE s == Slope(R, a)
           Bad == {t \in a .. b : Score(R, t) # Score(R, a) + s * (t - a)}
<1>1. TimeLock \in Nat /\ a - TimeLock \in Int
  BY ConstantsAssumption
<1>2. s \in Int /\ Score(R, a) \in Int
  BY <1>1, StandingIs, ScoreType DEF Slope
<1> HIDE DEF s
<1>3. SUFFICES ASSUME Bad # {} PROVE FALSE
  BY <1>2 DEF s
<1>4. IsFiniteSet(Bad) /\ Bad \subseteq Int
  <2>1. IsFiniteSet(a .. b) /\ Bad \subseteq a .. b /\ a .. b \subseteq Int
    BY FS_Interval
  <2> HIDE DEF Bad
  <2>2. IsFiniteSet(Bad)
    BY <2>1, FS_Subset
  <2> QED BY <2>1, <2>2
<1> DEFINE m == Min(Bad)
<1>5. m \in Bad /\ \A y \in Bad : m <= y
  <2> HIDE DEF Bad
  <2> QED BY <1>3, <1>4, MinOfInts
<1> HIDE DEF m
<1>6. m # a
  BY <1>2, <1>5
<1> DEFINE p == m - 1
<1>7. p \in a .. b /\ p < b /\ p \in Int /\ m = p + 1 /\ p \notin Bad
  BY <1>5, <1>6
<1> HIDE DEF p
<1>8. Score(R, p) = Score(R, a) + s * (p - a)
  BY <1>7
<1>9. Standing(R, p) = Standing(R, a)
  <2>1. \A r \in R : ~(a < r.at /\ r.at <= p)
    BY <1>7 DEF Calm, IsLog, IsRow
  <2> QED BY <1>7, <2>1, StandingStays
<1>10. Standing(R, p - TimeLock) = Standing(R, a - TimeLock)
  <2>1. \A r \in R : ~(a - TimeLock < r.at /\ r.at <= p - TimeLock)
    BY <1>1, <1>7 DEF Calm, IsLog, IsRow
  <2>2. p - TimeLock \in Int /\ a - TimeLock <= p - TimeLock
    BY <1>1, <1>7
  <2> QED BY <1>1, <2>1, <2>2, StandingStays
<1>11. Score(R, m) = Score(R, p) + s
  <2>1. Score(R, p + 1) = Score(R, p) + Standing(R, p) - Standing(R, p - TimeLock)
    BY <1>7, ScoreStep
  <2>2. /\ Score(R, p) \in Int
        /\ Standing(R, a) \in Int /\ Standing(R, a - TimeLock) \in Int
    BY <1>1, <1>7, ScoreType, StandingIs
  <2> QED BY <1>7, <1>9, <1>10, <2>1, <2>2 DEF s, Slope
<1>12. s * (m - a) = s * (p - a) + s
  <2>1. m - a = (p - a) + 1 /\ p - a \in Int
    BY <1>7
  <2> QED BY <1>2, <2>1
<1>13. s * (p - a) \in Int
  BY <1>2, <1>7
<1>14. Score(R, m) = Score(R, a) + s * (m - a)
  BY <1>2, <1>8, <1>11, <1>12, <1>13
<1> QED BY <1>5, <1>14

(* Between two times without a dip below the limit at either of them there *)
(* is none.                                                                *)
LEMMA BetweenOver ==
  ASSUME NEW R, IsLog(R), NEW a \in Int, NEW b \in Int, a < b, Calm(R, a, b),
         NEW limit \in Int, Score(R, a) >= limit, Score(R, b) >= limit,
         NEW t \in a .. b
  PROVE  Score(R, t) >= limit
<1> DEFINE s == Slope(R, a)
           x == Score(R, a)
           y == Score(R, b)
           z == Score(R, t)
<1>1. s \in Int /\ y = x + s * (b - a) /\ z = x + s * (t - a)
  BY ScoreLinear
<1>2. x \in Int /\ x >= limit /\ y >= limit
  BY ScoreType
<1> HIDE DEF s, x, y, z
<1>3. CASE s >= 0
  <2>1. s * 0 <= s * (t - a) /\ s * (t - a) \in Int
    BY <1>1, <1>3, TimesMonotone
  <2> QED BY <1>1, <1>2, <2>1 DEF z
<1>4. CASE s < 0
  <2>1. (0 - s) * (t - a) <= (0 - s) * (b - a) /\ (0 - s) * (t - a) \in Int
          /\ (0 - s) * (b - a) \in Int
    BY <1>1, <1>4, TimesMonotone
  <2>2. (0 - s) * (t - a) = 0 - s * (t - a) /\ (0 - s) * (b - a) = 0 - s * (b - a)
          /\ s * (t - a) \in Int /\ s * (b - a) \in Int
    BY <1>1
  <2>3. s * (b - a) <= s * (t - a)
    BY <2>1, <2>2
  <2> QED BY <1>1, <1>2, <2>2, <2>3 DEF z
<1> QED BY <1>1, <1>3, <1>4

(* The crossing of the limit, rounded up, is the first time over it.       *)
LEMMA CrossingIs ==
  ASSUME NEW R, IsLog(R), NEW a \in Int, NEW b \in Int, a < b, Calm(R, a, b),
         NEW limit \in Int, Score(R, a) < limit, Score(R, b) >= limit,
         NEW S, Weighted(S, a) = Score(R, a), Weighted(S, b) = Score(R, b)
  PROVE  LET x == Crossing(S, a, b, limit) IN
         /\ x \in Int /\ a < x /\ x <= b
         /\ \A t \in x .. b : Score(R, t) >= limit
         /\ Score(R, x - 1) < limit
<1> DEFINE s == Slope(R, a)
           low == Score(R, a)
           high == Score(R, b)
           n == b - a
           need == limit - low
           k == CeilDiv(need * n, high - low)
<1>1. s \in Int /\ low \in Int /\ high \in Int /\ n \in Int /\ n > 0
        /\ need \in Int /\ need > 0 /\ high - low = s * n /\ need <= high - low
        /\ high - low > 0
  <2>1. s \in Int /\ high = low + s * (b - a)
    BY ScoreLinear
  <2>2. low \in Int /\ high \in Int
    BY ScoreType
  <2>3. s * (b - a) \in Int
    BY <2>1
  <2> HIDE DEF s, low, high
  <2> QED BY <2>1, <2>2, <2>3 DEF low, high
<1>2. \A t \in a .. b : Score(R, t) = low + s * (t - a)
  BY ScoreLinear
<1> HIDE DEF s, low, high, n, need
<1>3. s > 0
  <2> SUFFICES ASSUME s <= 0 PROVE FALSE
    BY <1>1
  <2>1. n * s <= n * 0
    BY <1>1, TimesMonotone
  <2>2. n * s = s * n /\ n * 0 = 0
    BY <1>1
  <2> QED BY <1>1, <2>1, <2>2
<1>4. /\ k \in Int /\ (high - low) * (k - 1) < need * n /\ need * n <= (high - low) * k
  <2>1. need * n \in Int /\ high - low \in Int
    BY <1>1
  <2> QED BY <1>1, <2>1, CeilDivIs
<1> HIDE DEF k
<1>5. s * (k - 1) < need /\ need <= s * k
  <2>1. /\ (high - low) * (k - 1) = n * (s * (k - 1)) /\ (high - low) * k = n * (s * k)
        /\ need * n = n * need /\ s * k \in Int /\ s * (k - 1) \in Int
    BY <1>1, <1>4
  <2> QED BY <1>1, <1>4, <2>1, TimesCancel
<1>6. 0 < k
  <2> SUFFICES ASSUME k <= 0 PROVE FALSE
    BY <1>4
  <2>1. s * k <= s * 0
    BY <1>1, <1>3, <1>4, TimesMonotone
  <2>2. s * 0 = 0 /\ s * k \in Int
    BY <1>1, <1>4
  <2> QED BY <1>1, <1>5, <2>1, <2>2
<1>7. k <= n
  <2> SUFFICES ASSUME n < k PROVE FALSE
    BY <1>1, <1>4
  <2>1. s * n <= s * (k - 1) /\ s * (k - 1) \in Int
    BY <1>1, <1>3, <1>4, TimesMonotone
  <2> QED BY <1>1, <1>5, <2>1
<1>8. Crossing(S, a, b, limit) = a + k
  <2> DEFINE T == {b, a + k}
  <2>1. Crossing(S, a, b, limit) = Min(T)
    BY DEF Crossing, k, low, high, need, n
  <2>2. T \subseteq Int /\ a + k <= b /\ a + k \in Int
    BY <1>1, <1>4, <1>7 DEF n
  <2>3. a + k \in T /\ \A y \in T : a + k <= y
    BY <2>2
  <2>4. \A x \in T : (\A y \in T : x <= y) => x = a + k
    BY <2>2
  <2>5. Min(T) = a + k
    <3> HIDE DEF T
    <3> QED BY <2>3, <2>4 DEF Min
  <2> QED BY <2>1, <2>5
<1>9. a + k \in Int /\ a < a + k /\ a + k <= b
  BY <1>1, <1>4, <1>6, <1>7 DEF n
<1>10. ASSUME NEW t \in (a + k) .. b PROVE Score(R, t) >= limit
  <2>1. t \in a .. b /\ t - a \in Int /\ k <= t - a
    BY <1>4, <1>6, <1>9
  <2>2. s * k <= s * (t - a) /\ s * k \in Int /\ s * (t - a) \in Int
    BY <1>1, <1>3, <1>4, <2>1, TimesMonotone
  <2>3. Score(R, t) = low + s * (t - a)
    BY <1>2, <2>1
  <2> QED BY <1>1, <1>5, <2>2, <2>3 DEF need
<1>11. Score(R, (a + k) - 1) < limit
  <2>1. (a + k) - 1 \in a .. b /\ ((a + k) - 1) - a = k - 1
    BY <1>4, <1>6, <1>9
  <2>2. Score(R, (a + k) - 1) = low + s * (k - 1) /\ s * (k - 1) \in Int
    BY <1>1, <1>2, <1>4, <2>1
  <2> QED BY <1>1, <1>5, <2>2 DEF need
<1> QED BY <1>8, <1>9, <1>10, <1>11

(***************************************************************************)
(* The checkpoints of a refresh: between two that follow each other the    *)
(* weighted vote is linear.                                                *)
(***************************************************************************)
LEMMA CheckpointsAre ==
  ASSUME NEW R, IsLog(R), NEW at \in Int, NEW now \in Int, at < now
  PROVE  LET points == Checkpoints(States(R, at - TimeLock, now), at, now) IN
         /\ points \subseteq at .. now /\ IsFiniteSet(points)
         /\ at \in points /\ now \in points
         /\ \A a, b \in points :
              a < b /\ (\A c \in points : ~(a < c /\ c < b)) => Calm(R, a, b)
<1> DEFINE S == States(R, at - TimeLock, now)
           points == Checkpoints(S, at, now)
           times == {s.at : s \in S} \cup {s.at + TimeLock : s \in S}
<1>1. TimeLock \in Nat /\ at - TimeLock \in Int
  BY ConstantsAssumption
<1>2. points = {at, now} \cup {c \in times : at < c /\ c < now}
  BY DEF Checkpoints
<1>3. IsLog(S) /\ \A r \in R : r.at \in Int
  BY <1>1, StatesAre DEF IsLog, IsRow
<1>4. \A r \in R : at - TimeLock < r.at /\ r.at < now => r \in S
  BY DEF States
<1> HIDE DEF S
<1>5. \A s \in S : s.at \in Int
  BY <1>3 DEF IsLog, IsRow
<1>6. times \subseteq Int
  BY <1>1, <1>5
<1> HIDE DEF points
<1>7. points \subseteq at .. now
  <2> SUFFICES ASSUME NEW c \in points PROVE c \in Int /\ at <= c /\ c <= now
    OBVIOUS
  <2>1. at < now /\ at \in Int /\ now \in Int
    OBVIOUS
  <2>2. c = at \/ c = now \/ (c \in times /\ at < c /\ c < now)
    BY <1>2
  <2> HIDE DEF times
  <2>3. c \in times => c \in Int
    BY <1>6
  <2> QED BY <2>1, <2>2, <2>3
<1>8. IsFiniteSet(points)
  <2>1. IsFiniteSet(at .. now)
    BY FS_Interval
  <2> QED BY <1>7, <2>1, FS_Subset
<1>9. at \in points /\ now \in points
  BY <1>2
<1>10. ASSUME NEW a \in points, NEW b \in points, a < b,
              \A c \in points : ~(a < c /\ c < b)
       PROVE  Calm(R, a, b)
  <2>1. a \in Int /\ b \in Int /\ at <= a /\ b <= now
    BY <1>7
  <2>2. ASSUME NEW r \in R, a < r.at, r.at < b PROVE FALSE
    <3>1. r.at \in Int /\ at < r.at /\ r.at < now /\ at - TimeLock < r.at
      BY <1>1, <1>3, <2>1, <2>2
    <3>2. r.at \in times
      BY <1>4, <3>1
    <3> HIDE DEF times
    <3>3. r.at \in points
      BY <1>2, <3>1, <3>2
    <3> QED BY <1>10, <2>2, <3>3
  <2>3. ASSUME NEW r \in R, a < r.at + TimeLock, r.at + TimeLock < b PROVE FALSE
    <3> DEFINE c == r.at + TimeLock
    <3>1. r.at \in Int /\ at < c /\ c < now /\ at - TimeLock < r.at /\ r.at < now
      BY <1>1, <1>3, <2>1, <2>3
    <3>2. c \in times
      BY <1>4, <3>1
    <3> HIDE DEF times
    <3>3. c \in points
      BY <1>2, <3>1, <3>2
    <3> QED BY <1>10, <2>3, <3>3
  <2> QED BY <2>2, <2>3 DEF Calm
<1> QED BY <1>7, <1>8, <1>9, <1>10 DEF points, S

\* Times that divide a span of time into calm ones.
AreCheckpoints(points, R, at, now) ==
  /\ points \subseteq at .. now /\ IsFiniteSet(points)
  /\ at \in points /\ now \in points
  /\ \A a, b \in points :
       a < b /\ (\A c \in points : ~(a < c /\ c < b)) => Calm(R, a, b)

(* No dip at the checkpoints from one of them on, no dip at all.           *)
LEMMA AllOver ==
  ASSUME NEW R, IsLog(R), NEW at \in Int, NEW now \in Int, NEW points,
         AreCheckpoints(points, R, at, now), NEW q \in points, NEW limit \in Int,
         \A c \in points : q <= c => Score(R, c) >= limit,
         NEW t \in q .. now
  PROVE  Score(R, t) >= limit
<1>1. \A c \in points : c \in Int /\ c <= now
  BY DEF AreCheckpoints
<1>2. CASE t \in points
  BY <1>1, <1>2
<1>3. CASE t \notin points
  <2> DEFINE L == {c \in points : c <= t}
             H == {c \in points : t <= c}
             a == Max(L)
             b == Min(H)
  <2>1. L \subseteq Int /\ IsFiniteSet(L) /\ L # {}
    <3>1. q \in L
      BY <1>1
    <3>2. IsFiniteSet(L)
      BY FS_Subset DEF AreCheckpoints
    <3> QED BY <1>1, <3>1, <3>2
  <2>2. H \subseteq Int /\ IsFiniteSet(H) /\ H # {}
    <3>1. now \in H
      BY DEF AreCheckpoints
    <3>2. IsFiniteSet(H)
      BY FS_Subset DEF AreCheckpoints
    <3> QED BY <1>1, <3>1, <3>2
  <2>3. a \in L /\ \A y \in L : y <= a
    <3> HIDE DEF L
    <3> QED BY <2>1, MaxOfInts
  <2>4. b \in H /\ \A y \in H : b <= y
    <3> HIDE DEF H
    <3> QED BY <2>2, MinOfInts
  <2>5. q \in L /\ t \in Int /\ q \in Int
    BY <1>1
  <2> HIDE DEF a, b
  <2>6. /\ a \in points /\ b \in points /\ a \in Int /\ b \in Int
        /\ q <= a /\ a < t /\ t < b
    <3>1. a \in points /\ a <= t /\ b \in points /\ t <= b
      BY <2>3, <2>4
    <3>2. a # t /\ b # t
      BY <1>3, <3>1
    <3> QED BY <1>1, <2>3, <2>5, <3>1, <3>2
  <2>7. \A c \in points : ~(a < c /\ c < b)
    <3> SUFFICES ASSUME NEW c \in points, a < c, c < b PROVE FALSE
      OBVIOUS
    <3>1. c \in L \/ c \in H
      BY <1>1, <2>5
    <3>2. c <= a \/ b <= c
      BY <2>3, <2>4, <3>1
    <3> QED BY <1>1, <2>6, <3>2
  <2>8. Calm(R, a, b)
    BY <2>6, <2>7 DEF AreCheckpoints
  <2>9. Score(R, a) >= limit /\ Score(R, b) >= limit
    BY <2>6
  <2>10. t \in a .. b /\ a < b
    BY <2>5, <2>6
  <2> QED BY <2>6, <2>8, <2>9, <2>10, BetweenOver
<1> QED BY <1>2, <1>3

(***************************************************************************)
(* What a refresh finds, if it comes after the last one: the weighted vote *)
(* was over the limit throughout, or the last time since which it is.      *)
(***************************************************************************)
LEMMA OverSince ==
  ASSUME NEW R, IsLog(R), NEW at \in Int, NEW now \in Int, at <= now,
         NEW limit \in Int, Score(R, now) >= limit, NEW since
  PROVE  LET x == OverThresholdSince(States(R, at - TimeLock, now), since, at, now, limit)
         IN
         \/ /\ \A t \in at .. now : Score(R, t) >= limit
            /\ x = IF since # None THEN since ELSE at
         \/ /\ x \in Int /\ at < x /\ x <= now
            /\ \A t \in x .. now : Score(R, t) >= limit
            /\ Score(R, x - 1) < limit
<1> DEFINE S == States(R, at - TimeLock, now)
           points == Checkpoints(S, at, now)
           below == {c \in points : Weighted(S, c) < limit}
           last == Max(below)
           above == {c \in points : c > last}
           next == Min(above)
           x == OverThresholdSince(S, since, at, now, limit)
<1>1. TimeLock \in Nat /\ at - TimeLock \in Int
  BY ConstantsAssumption
<1>2. \A c \in at .. now : Weighted(S, c) = Score(R, c) /\ c \in Int
  <2> SUFFICES ASSUME NEW c \in at .. now PROVE Weighted(S, c) = Score(R, c)
    OBVIOUS
  <2> DEFINE from == at - TimeLock
  <2>1. c \in Int /\ c <= now /\ from \in Int /\ from + TimeLock <= c
    BY <1>1
  <2>2. S = States(R, from, now)
    OBVIOUS
  <2> HIDE DEF from, S, points, below, last, above, next, x
  <2>3. Weighted(States(R, from, now), c) = Score(R, c)
    BY <2>1, WeightedIsScore
  <2> QED BY <2>2, <2>3
<1>3. x = IF below = {} THEN IF since # None THEN since ELSE at
          ELSE Crossing(S, last, next, limit)
  BY DEF OverThresholdSince
<1> HIDE DEF x
<1>4. CASE at = now
  <2>1. points = {now}
    BY <1>4 DEF Checkpoints
  <2>2. now \in at .. now /\ \A t \in at .. now : t = now
    BY <1>4
  <2>3. ~(Weighted(S, now) < limit)
    <3>1. Weighted(S, now) = Score(R, now) /\ Score(R, now) \in Int
      BY <1>2, <2>2, ScoreType
    <3> QED BY <3>1
  <2> HIDE DEF points
  <2>4. below = {}
    BY <2>1, <2>3
  <2>5. \A t \in at .. now : Score(R, t) >= limit
    BY <2>2
  <2> QED BY <1>3, <2>4, <2>5 DEF x, S
<1>5. CASE at < now
  <2>1. AreCheckpoints(points, R, at, now)
    BY <1>5, CheckpointsAre DEF AreCheckpoints
  <2> HIDE DEF points, S
  <2>2. /\ points \subseteq at .. now /\ IsFiniteSet(points)
        /\ at \in points /\ now \in points /\ points \subseteq Int
    BY <2>1 DEF AreCheckpoints
  <2>3. \A c \in points : Weighted(S, c) = Score(R, c) /\ Score(R, c) \in Int
    BY <1>2, <2>2, ScoreType
  <2>4. CASE below = {}
    <3>1. \A c \in points : at <= c => Score(R, c) >= limit
      BY <2>3, <2>4
    <3>2. \A t \in at .. now : Score(R, t) >= limit
      BY <2>1, <2>2, <3>1, AllOver
    <3> QED BY <1>3, <2>4, <3>2 DEF x, S
  <2>5. CASE below # {}
    <3>1. below \subseteq points /\ below \subseteq Int
      BY <2>2
    <3>2. IsFiniteSet(below)
      <4> HIDE DEF below
      <4> QED BY <2>2, <3>1, FS_Subset
    <3>3. last \in below /\ \A y \in below : y <= last
      <4> HIDE DEF below
      <4> QED BY <2>5, <3>1, <3>2, MaxOfInts
    <3> HIDE DEF last
    <3>4. last \in points /\ last \in Int /\ Score(R, last) < limit
      BY <2>3, <3>1, <3>3
    <3>5. \A c \in points : last < c => Score(R, c) >= limit
      <4> SUFFICES ASSUME NEW c \in points, last < c PROVE Score(R, c) >= limit
        OBVIOUS
      <4>1. c \notin below
        BY <2>2, <3>3, <3>4
      <4> QED BY <2>3, <4>1
    <3>6. last < now
      <4>1. last <= now /\ last # now
        BY <2>2, <2>3, <3>4
      <4> QED BY <3>4, <4>1
    <3>7. above \subseteq points /\ above \subseteq Int /\ above # {}
      BY <2>2, <3>6
    <3>8. IsFiniteSet(above)
      <4> HIDE DEF above
      <4> QED BY <2>2, <3>7, FS_Subset
    <3>9. next \in above /\ \A y \in above : next <= y
      <4> HIDE DEF above
      <4> QED BY <3>7, <3>8, MinOfInts
    <3> HIDE DEF next
    <3>10. next \in points /\ next \in Int /\ last < next /\ next <= now
      BY <2>2, <3>7, <3>9
    <3>11. \A c \in points : ~(last < c /\ c < next)
      BY <2>2, <3>9, <3>10
    <3>12. Calm(R, last, next)
      BY <2>1, <3>4, <3>10, <3>11 DEF AreCheckpoints
    <3>13. Score(R, next) >= limit
      BY <3>5, <3>10
    <3>14. /\ Weighted(S, last) = Score(R, last)
           /\ Weighted(S, next) = Score(R, next)
      BY <2>3, <3>4, <3>10
    <3>15. x = Crossing(S, last, next, limit)
      BY <1>3, <2>5
    <3>16. /\ x \in Int /\ last < x /\ x <= next
           /\ \A t \in x .. next : Score(R, t) >= limit
           /\ Score(R, x - 1) < limit
      BY <3>4, <3>10, <3>12, <3>13, <3>14, <3>15, CrossingIs
    <3>17. \A t \in next .. now : Score(R, t) >= limit
      <4>1. \A c \in points : next <= c => Score(R, c) >= limit
        <5> SUFFICES ASSUME NEW c \in points, next <= c
                     PROVE  Score(R, c) >= limit
          OBVIOUS
        <5>1. c \in Int /\ last < c
          BY <2>2, <3>4, <3>10
        <5> QED BY <3>5, <5>1
      <4> QED BY <2>1, <3>10, <4>1, AllOver
    <3>18. \A t \in x .. now : Score(R, t) >= limit
      <4>1. \A t \in x .. now : t \in x .. next \/ t \in next .. now
        BY <3>10, <3>16
      <4> QED BY <3>16, <3>17, <4>1
    <3>19. at < x /\ x <= now
      BY <2>2, <3>4, <3>10, <3>16
    <3> QED BY <3>16, <3>18, <3>19 DEF x, S
  <2> QED BY <2>4, <2>5
<1> QED BY <1>4, <1>5

-----------------------------------------------------------------------------
(***************************************************************************)
(* What later votes change, and what they do not.                          *)
(***************************************************************************)

(* The floor of a weighted vote reaches a threshold when the vote does.    *)
LEMMA FloorIsOver ==
  ASSUME NEW a \in Int, NEW t \in Int
  PROVE  a \div TimeLock \in Int /\ (a \div TimeLock >= t <=> a >= t * TimeLock)
<1> DEFINE L == TimeLock
           q == a \div L
           r == a % L
<1>1. L \in Int /\ L > 0
  BY ConstantsAssumption
<1>2. q \in Int /\ r \in Int /\ 0 <= r /\ r < L /\ a = L * q + r
  BY <1>1
<1> HIDE DEF q, r, L
<1>3. t * L = L * t
  BY <1>1
<1>4. ASSUME q >= t PROVE a >= t * L
  <2>1. L * t <= L * q
    BY <1>1, <1>2, <1>4, TimesMonotone
  <2> QED BY <1>1, <1>2, <1>3, <2>1
<1>5. ASSUME a >= t * L PROVE q >= t
  <2>1. L * (q + 1) = L * q + L
    BY <1>1, <1>2
  <2>2. L * t < L * (q + 1)
    BY <1>1, <1>2, <1>3, <1>5, <2>1
  <2>3. t < q + 1
    BY <1>1, <1>2, <2>2, TimesCancel
  <2> QED BY <1>2, <2>3
<1> QED BY <1>2, <1>4, <1>5 DEF q, L

(* A row added to a log changes nothing before its time.                   *)
LEMMA RowAdded ==
  ASSUME NEW R, IsLog(R), NEW r, IsRow(r), \A s \in R : s.at < r.at
  PROVE  /\ IsLog(R \cup {r})
         /\ \A u \in Int : u <= r.at => Score(R \cup {r}, u) = Score(R, u)
<1> DEFINE Q == R \cup {r}
<1>1. IsLog(Q)
  <2>1. IsFiniteSet(Q)
    BY FS_AddElement DEF IsLog
  <2>2. \A s \in Q : IsRow(s)
    BY DEF IsLog
  <2>3. \A s \in R : s.at # r.at
    BY DEF IsLog, IsRow
  <2> QED BY <2>1, <2>2, <2>3 DEF IsLog
<1>2. ASSUME NEW u \in Int, u <= r.at PROVE Score(Q, u) = Score(R, u)
  <2>1. ASSUME NEW i \in 1 .. TimeLock PROVE Standing(Q, u - i) = Standing(R, u - i)
    <3>1. ~(r.at <= u - i)
      BY <1>2 DEF IsRow
    <3>2. {s \in Q : s.at <= u - i} = {s \in R : s.at <= u - i}
      BY <3>1
    <3> HIDE DEF Q
    <3> QED BY <3>2 DEF Standing
  <2> HIDE DEF Q
  <2>2. [i \in 1 .. TimeLock |-> Standing(Q, u - i)]
          = [i \in 1 .. TimeLock |-> Standing(R, u - i)]
    BY <2>1
  <2> QED BY <2>2 DEF Score
<1> QED BY <1>1, <1>2

(* Before its first row, a log weighs nothing.                             *)
LEMMA ScoreBefore ==
  ASSUME NEW R, IsLog(R), NEW t \in Int, \A r \in R : t <= r.at
  PROVE  Score(R, t) = 0
<1> DEFINE f == [i \in 1 .. TimeLock |-> Standing(R, t - i)]
<1>1. \A i \in 1 .. TimeLock : f[i] = 0
  <2> SUFFICES ASSUME NEW i \in 1 .. TimeLock PROVE Standing(R, t - i) = 0
    OBVIOUS
  <2>1. t - i \in Int /\ \A r \in R : ~(r.at <= t - i)
    BY DEF IsLog, IsRow
  <2> QED BY <2>1, StandingIs
<1>2. IsFiniteSet(1 .. TimeLock)
  BY ConstantsAssumption, FS_Interval
<1> HIDE DEF f
<1>3. Total(f, 1 .. TimeLock) = 0
  BY <1>1, <1>2, TotalZero
<1> QED BY <1>3 DEF Score, f

(* One time lock after its last row, a log weighs the same for good.       *)
LEMMA ScoreSettles ==
  ASSUME NEW R, IsLog(R), NEW t \in Int, NEW u \in Int, t <= u,
         \A r \in R : r.at <= t - TimeLock
  PROVE  Score(R, u) = Score(R, t)
<1>1. TimeLock \in Nat
  BY ConstantsAssumption
<1>2. ASSUME NEW i \in 1 .. TimeLock PROVE Standing(R, u - i) = Standing(R, t - i)
  <2>1. t - i \in Int /\ u - i \in Int /\ t - i <= u - i
    BY <1>1
  <2>2. \A r \in R : ~(t - i < r.at /\ r.at <= u - i)
    BY <1>1 DEF IsLog, IsRow
  <2> QED BY <2>1, <2>2, StandingStays
<1>3. [i \in 1 .. TimeLock |-> Standing(R, u - i)]
        = [i \in 1 .. TimeLock |-> Standing(R, t - i)]
  BY <1>2
<1> QED BY <1>3 DEF Score

(***************************************************************************)
(* A refresh that comes after a later one looks at a part of the votes     *)
(* only: when none is negative, what it finds is not more than the         *)
(* weighted vote at any time up to that of the later one.                  *)
(***************************************************************************)
LEMMA PartWeighsLess ==
  ASSUME NEW R, IsLog(R), \A r \in R : r.votes \in Nat,
         NEW from \in Int, NEW p \in Int, NEW t \in Int, p <= t, t <= from + TimeLock
  PROVE  Total([i \in 1 .. TimeLock |->
                  IF p - i < from THEN 0 ELSE Standing(R, p - i)], 1 .. TimeLock)
           <= Score(R, t)
<1> DEFINE I == 1 .. TimeLock
           k == t - p
           f == [i \in I |-> IF p - i < from THEN 0 ELSE Standing(R, p - i)]
           g == [j \in I |-> Standing(R, t - j)]
           h == [i \in I |-> i + k]
           W == {i \in I : from <= p - i}
           V == {h[i] : i \in W}
           c == [j \in I |-> IF j \in V THEN g[j] ELSE 0]
<1>1. TimeLock \in Nat /\ IsFiniteSet(I) /\ k \in Nat
  BY FS_Interval, ConstantsAssumption
<1>2. \A u \in Int : Standing(R, u) \in Nat
  <2> SUFFICES ASSUME NEW u \in Int PROVE Standing(R, u) \in Nat
    OBVIOUS
  <2>1. CASE \A r \in R : ~(r.at <= u)
    <3>1. Standing(R, u) = 0
      BY <2>1, StandingIs
    <3> QED BY <3>1
  <2>2. CASE \E n \in R : n.at <= u /\ \A r \in R : r.at <= u => r.at <= n.at
    BY <2>2, StandingIs
  <2>3. \/ \A r \in R : ~(r.at <= u)
        \/ \E n \in R : n.at <= u /\ \A r \in R : r.at <= u => r.at <= n.at
    BY StandingIs
  <2> QED BY <2>1, <2>2, <2>3
<1>3. ASSUME NEW i \in I
      PROVE  /\ p - i \in Int /\ t - i \in Int /\ f[i] \in Int /\ g[i] \in Nat
             /\ i \notin W => f[i] = 0
  <2>1. i \in Int /\ p - i \in Int /\ t - i \in Int
    BY <1>1
  <2>2. Standing(R, p - i) \in Nat /\ Standing(R, t - i) \in Nat
    BY <1>2, <2>1
  <2> QED BY <2>1, <2>2
<1>4. ASSUME NEW i \in W PROVE h[i] \in I /\ g[h[i]] = f[i] /\ f[i] \in Int
  <2>1. i \in I /\ i \in Int /\ from <= p - i
    OBVIOUS
  <2>2. i + k \in I /\ t - (i + k) = p - i /\ ~(p - i < from)
    BY <1>1, <2>1
  <2> QED BY <1>3, <2>1, <2>2
<1>5. V \subseteq I /\ W \subseteq I
  BY <1>4
<1>6. Total(f, I) = Total(f, W)
  <2> HIDE DEF f, I, W
  <2> QED BY <1>1, <1>3, <1>5, TotalOfSupport
<1>7. Total(f, W) = Total(g, V)
  <2>1. \A i, j \in W : h[i] = h[j] => i = j
    BY <1>1
  <2>2. IsFiniteSet(W)
    BY <1>1, <1>5, FS_Subset
  <2> HIDE DEF f, g, h, W, I
  <2> QED BY <1>4, <2>1, <2>2, TotalRename
<1>8. /\ \A j \in I : c[j] \in Int /\ g[j] \in Int /\ c[j] <= g[j]
      /\ \A j \in I \ V : c[j] = 0
      /\ \A j \in V : c[j] = g[j]
  <2> HIDE DEF g, V
  <2> QED BY <1>3, <1>5
<1>9. Total(g, V) = Total(c, V)
  <2>1. IsFiniteSet(V)
    BY <1>1, <1>5, FS_Subset
  <2> HIDE DEF c, g, V, I
  <2> QED BY <1>8, <2>1, TotalCongruence
<1>10. Total(c, I) = Total(c, V) /\ Total(c, I) <= Total(g, I)
  <2> HIDE DEF c, g, V, I
  <2>1. Total(c, I) = Total(c, V)
    BY <1>1, <1>5, <1>8, TotalOfSupport
  <2>2. Total(c, I) <= Total(g, I)
    BY <1>1, <1>8, TotalMonotone
  <2> QED BY <2>1, <2>2
<1>11. Total(f, I) <= Total(g, I)
  <2> HIDE DEF c, f, g, V, I, W
  <2> QED BY <1>6, <1>7, <1>9, <1>10
<1> QED BY <1>11 DEF Score

-----------------------------------------------------------------------------
(***************************************************************************)
(* What an entry says of the log of its drop.                              *)
(***************************************************************************)
Over(R, u, t) == Score(R, u) >= t * TimeLock

IsEntry(e) == e.vote \in Int /\ e.at \in Nat /\ e.since \in Int \cup {None}

\* The log has been over the threshold since the entry's time.
Held(R, e, t) ==
  e.since # None => e.since <= e.at /\ \A u \in e.since .. e.at : Over(R, u, t)

\* And not before.
Exact(R, e, t) ==
  IF e.since = None THEN ~Over(R, e.at, t)
  ELSE e.since = 0 \/ ~Over(R, e.since - 1, t)

Reach(e) == IF e.since = None THEN e.at ELSE e.since

\* What a refresh makes of an entry.
Renewed(R, e, now, t) ==
  LET states == States(R, e.at - TimeLock, now)
      vote   == Weighted(states, now)
  IN  [vote  |-> vote \div TimeLock, at |-> now,
       since |-> IF vote < t * TimeLock THEN None
                 ELSE OverThresholdSince(states, e.since, e.at, now, t * TimeLock)]

(***************************************************************************)
(* A refresh that is not older than the entry makes it right.              *)
(***************************************************************************)
LEMMA RenewedLater ==
  ASSUME NEW R, IsLog(R), NEW e, IsEntry(e), NEW now \in Nat, e.at <= now,
         NEW t \in Nat
  PROVE  LET x == Renewed(R, e, now, t) IN
         /\ IsEntry(x) /\ x.at = now /\ x.vote = Score(R, now) \div TimeLock
         /\ Held(R, e, t) => Held(R, x, t)
         /\ Exact(R, x, t) \/ (~Exact(R, e, t) /\ Reach(x) = Reach(e))
<1> DEFINE x == Renewed(R, e, now, t)
           S == States(R, e.at - TimeLock, now)
           limit == t * TimeLock
           y == OverThresholdSince(S, e.since, e.at, now, limit)
           v == Score(R, now)
<1>1. /\ TimeLock \in Nat /\ e.at \in Int /\ now \in Int /\ limit \in Int
      /\ e.at - TimeLock \in Int /\ None \notin Int /\ e.since \in Int \cup {None}
  BY ConstantsAssumption DEF IsEntry
<1>2. Weighted(S, now) = v /\ v \in Int
  <2> DEFINE from == e.at - TimeLock
  <2>1. from \in Int /\ now <= now /\ from + TimeLock <= now
    BY <1>1
  <2>2. S = States(R, from, now)
    OBVIOUS
  <2> HIDE DEF from, S
  <2>3. Weighted(S, now) = Score(R, now)
    BY <1>1, <2>1, <2>2, WeightedIsScore
  <2> QED BY <1>1, <2>3, ScoreType
<1>3. v \div TimeLock \in Int
  BY <1>2, FloorIsOver
<1>4. /\ x.vote = v \div TimeLock /\ x.at = now
      /\ x.since = IF v < limit THEN None ELSE y
  BY <1>2 DEF Renewed
<1> HIDE DEF x
<1>5. CASE v < limit
  <2>1. x.since = None
    BY <1>4, <1>5
  <2>2. ~Over(R, x.at, t)
    BY <1>1, <1>2, <1>4, <1>5 DEF Over
  <2>3. IsEntry(x) /\ Held(R, x, t) /\ Exact(R, x, t)
    BY <1>3, <1>4, <2>1, <2>2 DEF IsEntry, Held, Exact
  <2> QED BY <1>4, <2>3 DEF x
<1>6. CASE ~(v < limit)
  <2>1. v >= limit /\ x.since = y
    BY <1>1, <1>2, <1>4, <1>6
  <2>2. \/ /\ \A u \in e.at .. now : Score(R, u) >= limit
           /\ y = IF e.since # None THEN e.since ELSE e.at
        \/ /\ y \in Int /\ e.at < y /\ y <= now
           /\ \A u \in y .. now : Score(R, u) >= limit
           /\ Score(R, y - 1) < limit
    BY <1>1, <2>1, OverSince
  <2> HIDE DEF y, v, S
  <2>3. CASE /\ \A u \in e.at .. now : Score(R, u) >= limit
             /\ y = IF e.since # None THEN e.since ELSE e.at
    <3>1. \A u \in e.at .. now : Over(R, u, t)
      BY <2>3 DEF Over
    <3>2. x.since = Reach(e) /\ x.since \in Int /\ Reach(x) = Reach(e)
      BY <1>1, <2>1, <2>3 DEF Reach
    <3>3. IsEntry(x)
      BY <1>3, <1>4, <3>2 DEF IsEntry
    <3>4. ASSUME Held(R, e, t) PROVE Held(R, x, t)
      <4>1. CASE e.since = None
        <5>1. x.since = e.at
          BY <3>2, <4>1 DEF Reach
        <5> QED BY <1>1, <1>4, <3>1, <5>1 DEF Held
      <4>2. CASE e.since # None
        <5>1. /\ x.since = e.since /\ e.since <= e.at /\ e.since \in Int
              /\ \A u \in e.since .. e.at : Over(R, u, t)
          BY <1>1, <3>2, <3>4, <4>2 DEF Reach, Held
        <5>2. \A u \in e.since .. now : u \in e.since .. e.at \/ u \in e.at .. now
          BY <1>1, <5>1
        <5> QED BY <1>1, <1>4, <3>1, <5>1, <5>2 DEF Held
      <4> QED BY <4>1, <4>2
    <3>5. ASSUME Exact(R, e, t) PROVE Exact(R, x, t)
      <4>1. e.since # None
        <5>1. e.at \in e.at .. now
          BY <1>1
        <5> QED BY <3>1, <3>5, <5>1 DEF Exact
      <4> QED BY <1>1, <3>2, <3>5, <4>1 DEF Exact, Reach
    <3> QED BY <1>4, <3>2, <3>3, <3>4, <3>5 DEF x, v
  <2>4. CASE /\ y \in Int /\ e.at < y /\ y <= now
             /\ \A u \in y .. now : Score(R, u) >= limit
             /\ Score(R, y - 1) < limit
    <3>1. Score(R, y - 1) \in Int
      BY <2>4, ScoreType
    <3>2. ~Over(R, y - 1, t)
      BY <1>1, <2>4, <3>1 DEF Over
    <3>3. x.since # None
      BY <1>1, <2>1, <2>4
    <3>4. IsEntry(x) /\ Held(R, x, t) /\ Exact(R, x, t)
      BY <1>3, <1>4, <2>1, <2>4, <3>2, <3>3 DEF IsEntry, Held, Exact, Over
    <3> QED BY <1>4, <3>4 DEF x, v
  <2> QED BY <2>2, <2>3, <2>4
<1> QED BY <1>5, <1>6

(***************************************************************************)
(* One that is older leaves the time since which the log is over the       *)
(* threshold as it is, or takes it back: it finds too small a vote, if no  *)
(* vote is negative.                                                       *)
(***************************************************************************)
LEMMA RenewedEarlier ==
  ASSUME NEW R, IsLog(R), NEW e, IsEntry(e), NEW now \in Nat, now < e.at,
         NEW t \in Nat
  PROVE  LET x == Renewed(R, e, now, t) IN
         /\ IsEntry(x) /\ x.at = now
         /\ (\A r \in R : r.votes \in Nat) /\ Held(R, e, t)
              /\ (Exact(R, e, t) \/ Reach(e) <= now) =>
              /\ Held(R, x, t)
              /\ x.since = None \/ Exact(R, x, t)
                   \/ (~Exact(R, e, t) /\ Reach(x) = Reach(e))
<1> DEFINE x == Renewed(R, e, now, t)
           from == e.at - TimeLock
           S == States(R, from, now)
           limit == t * TimeLock
           y == OverThresholdSince(S, e.since, e.at, now, limit)
           v == Weighted(S, now)
           f == [i \in 1 .. TimeLock |-> IF now - i < from THEN 0 ELSE Standing(R, now - i)]
<1>1. /\ TimeLock \in Nat /\ e.at \in Int /\ now \in Int /\ limit \in Int
      /\ from \in Int /\ None \notin Int /\ e.since \in Int \cup {None}
  BY ConstantsAssumption DEF IsEntry
<1>2. v = Total(f, 1 .. TimeLock)
  BY <1>1, WeightedIs
<1>3. v \in Int
  <2>1. \A i \in 1 .. TimeLock : f[i] \in Int
    <3> SUFFICES ASSUME NEW i \in 1 .. TimeLock PROVE f[i] \in Int
      OBVIOUS
    <3>1. now - i \in Int
      BY <1>1
    <3>2. Standing(R, now - i) \in Int
      BY <3>1, StandingIs
    <3> QED BY <3>2
  <2>2. IsFiniteSet(1 .. TimeLock)
    BY <1>1, FS_Interval
  <2> HIDE DEF f
  <2> QED BY <1>2, <2>1, <2>2, TotalType
<1>4. v \div TimeLock \in Int
  <2> HIDE DEF v
  <2> QED BY <1>3, FloorIsOver
<1>5. y = IF v < limit THEN y ELSE IF e.since # None THEN e.since ELSE e.at
  <2>1. Checkpoints(S, e.at, now) = {now}
    BY <1>1 DEF Checkpoints
  <2>2. ~(v < limit) => {c \in {now} : Weighted(S, c) < limit} = {}
    OBVIOUS
  <2> HIDE DEF S, limit
  <2> QED BY <2>1, <2>2 DEF OverThresholdSince
<1>6. /\ x.vote = v \div TimeLock /\ x.at = now
      /\ x.since = IF v < limit THEN None ELSE y
  BY DEF Renewed
<1> HIDE DEF x, y, v, f, S
<1>7. x.since = IF v < limit THEN None ELSE Reach(e)
  BY <1>5, <1>6 DEF Reach
<1>8. Reach(e) \in Int
  BY <1>1 DEF Reach
<1>9. IsEntry(x)
  BY <1>4, <1>6, <1>7, <1>8 DEF IsEntry
<1>10. ASSUME \A r \in R : r.votes \in Nat, Held(R, e, t),
              Exact(R, e, t) \/ Reach(e) <= now, ~(v < limit)
       PROVE  Held(R, x, t) /\ (Exact(R, e, t) => Exact(R, x, t)) /\ Reach(x) = Reach(e)
  <2>1. \A u \in now .. e.at : Over(R, u, t)
    <3> SUFFICES ASSUME NEW u \in now .. e.at PROVE Over(R, u, t)
      OBVIOUS
    <3>1. u \in Int /\ now <= u /\ u <= from + TimeLock
      BY <1>1
    <3>2. v <= Score(R, u)
      BY <1>1, <1>2, <1>10, <3>1, PartWeighsLess DEF f
    <3>3. Score(R, u) \in Int
      BY <3>1, ScoreType
    <3> QED BY <1>1, <1>3, <1>10, <3>2, <3>3 DEF Over
  <2>2. e.since # None
    <3> SUFFICES ASSUME e.since = None PROVE FALSE
      OBVIOUS
    <3>1. Reach(e) = e.at /\ ~(Reach(e) <= now)
      BY <1>1 DEF Reach
    <3>2. ~Over(R, e.at, t)
      BY <1>10, <3>1 DEF Exact
    <3>3. e.at \in now .. e.at
      BY <1>1
    <3> QED BY <2>1, <3>2, <3>3
  <2>3. x.since = e.since /\ e.since \in Int /\ Reach(e) = e.since
    BY <1>1, <1>7, <1>10, <2>2 DEF Reach
  <2>4. e.since <= e.at /\ \A u \in e.since .. e.at : Over(R, u, t)
    BY <1>10, <2>2 DEF Held
  <2>5. e.since <= now
    <3> SUFFICES ASSUME now < e.since PROVE FALSE
      BY <1>1, <2>3
    <3>1. e.since # 0 /\ ~(Reach(e) <= now)
      BY <1>1, <2>3
    <3>2. ~Over(R, e.since - 1, t)
      BY <1>10, <2>2, <3>1 DEF Exact
    <3>3. e.since - 1 \in now .. e.at
      BY <1>1, <2>3, <2>4
    <3> QED BY <2>1, <3>2, <3>3
  <2>6. Held(R, x, t)
    <3>1. \A u \in e.since .. now : u \in e.since .. e.at
      BY <1>1, <2>3
    <3> QED BY <1>6, <2>3, <2>4, <2>5, <3>1 DEF Held
  <2>7. Exact(R, e, t) => Exact(R, x, t)
    BY <2>2, <2>3 DEF Exact
  <2>8. Reach(x) = Reach(e)
    BY <2>2, <2>3 DEF Reach
  <2> QED BY <2>6, <2>7, <2>8
<1>11. v < limit => x.since = None /\ Held(R, x, t)
  BY <1>7 DEF Held
<1> QED BY <1>6, <1>9, <1>10, <1>11 DEF x

-----------------------------------------------------------------------------
(***************************************************************************)
(* What is true of the entry e of an open drop d with the log R: L, V and  *)
(* T are the drops that are late, overtaken and outdated, and W the        *)
(* Lambdas that are still to refresh it, each for its time n[l].           *)
(*   - Its vote is that of its time.                                       *)
(*   - The time since which the drop is over the threshold t is right; in  *)
(*     a drop that was overtaken it is not too early, and if it is too     *)
(*     late then no refresh that is still to come can move it back.        *)
(*   - Two refreshes that are still to come are not both older.            *)
(***************************************************************************)
NatVotes == VoteValues \subseteq Nat

EntryOK(d, R, e, t, L, V, T, W, n) ==
  /\ IsEntry(e)
  /\ d \notin L \cup V => e.at = 0 \/ e.vote = Score(R, e.at) \div TimeLock
  /\ d \notin L \cup T =>
       /\ d \notin V \/ NatVotes => Held(R, e, t)
       /\ d \in V \/ Exact(R, e, t)
       /\ NatVotes => Exact(R, e, t) \/ \A l \in W : Reach(e) <= n[l]
  /\ W = Loops => \E l \in Loops : e.at <= n[l]

\* What surrounds an entry changes without harm to it.
Around(e, L, V, T, W, n, L2, V2, T2, W2, n2) ==
  /\ L \subseteq L2 /\ V \subseteq V2 /\ T \subseteq T2
  /\ W \subseteq Loops /\ W2 \subseteq Loops
  /\ \A l \in Loops : n2[l] \in Int
  /\ \A l \in W2 : (l \in W /\ n2[l] = n[l]) \/ e.at <= n2[l]

(***************************************************************************)
(* An entry stays right while votes come in that it could not have seen,   *)
(* Lambdas start with a time not before its own and others end.            *)
(***************************************************************************)
LEMMA EntryStays ==
  ASSUME NEW d, NEW R, NEW e, NEW t, NEW L, NEW V, NEW T, NEW W, NEW n,
         EntryOK(d, R, e, t, L, V, T, W, n),
         NEW R2, NEW L2, NEW V2, NEW T2, NEW W2, NEW n2,
         Around(e, L, V, T, W, n, L2, V2, T2, W2, n2),
         d \notin L2 => \A u \in Int : u <= e.at => Score(R2, u) = Score(R, u)
  PROVE  EntryOK(d, R2, e, t, L2, V2, T2, W2, n2)
<1> USE DEF Around
<1>1. IsEntry(e) /\ e.at \in Int /\ e.since \in Int \cup {None} /\ None \notin Int
  BY ConstantsAssumption DEF EntryOK, IsEntry
<1>2. d \notin L2 \cup V2 => e.at = 0 \/ e.vote = Score(R2, e.at) \div TimeLock
  <2> SUFFICES ASSUME d \notin L2 \cup V2, e.at # 0
               PROVE  e.vote = Score(R2, e.at) \div TimeLock
    OBVIOUS
  <2>1. e.vote = Score(R, e.at) \div TimeLock
    BY DEF EntryOK
  <2>2. Score(R2, e.at) = Score(R, e.at)
    BY <1>1
  <2> QED BY <2>1, <2>2
<1>3. ASSUME d \notin L2 \cup T2
      PROVE  /\ d \notin V2 \/ NatVotes => Held(R2, e, t)
             /\ d \in V2 \/ Exact(R2, e, t)
             /\ NatVotes => Exact(R2, e, t) \/ \A l \in W2 : Reach(e) <= n2[l]
  <2>1. \A u \in Int : u <= e.at => (Over(R2, u, t) <=> Over(R, u, t))
    BY <1>3 DEF Over
  <2>2. /\ d \notin V \/ NatVotes => Held(R, e, t)
        /\ d \in V \/ Exact(R, e, t)
        /\ NatVotes => Exact(R, e, t) \/ \A l \in W : Reach(e) <= n[l]
    BY <1>3 DEF EntryOK
  <2>3. ASSUME Held(R, e, t) PROVE Held(R2, e, t)
    <3> SUFFICES ASSUME e.since # None
                 PROVE  e.since <= e.at /\ \A u \in e.since .. e.at : Over(R2, u, t)
      BY DEF Held
    <3>1. /\ e.since \in Int /\ e.since <= e.at
          /\ \A u \in e.since .. e.at : Over(R, u, t)
      BY <1>1, <2>3 DEF Held
    <3> QED BY <1>1, <2>1, <3>1
  <2>4. ASSUME Held(R, e, t), Exact(R, e, t) PROVE Exact(R2, e, t)
    <3>1. CASE e.since = None
      BY <1>1, <2>1, <2>4, <3>1 DEF Exact
    <3>2. CASE e.since # None
      <4>1. e.since \in Int /\ e.since - 1 \in Int /\ e.since - 1 <= e.at
        BY <1>1, <2>4, <3>2 DEF Held
      <4> QED BY <2>1, <2>4, <3>2, <4>1 DEF Exact
    <3> QED BY <3>1, <3>2
  <2>5. ASSUME NatVotes, ~Exact(R2, e, t), NEW l \in W2 PROVE Reach(e) <= n2[l]
    <3>1. Held(R, e, t) /\ ~Exact(R, e, t)
      BY <2>2, <2>4, <2>5
    <3>2. Reach(e) <= e.at /\ Reach(e) \in Int
      BY <1>1, <3>1 DEF Held, Reach
    <3>3. n2[l] \in Int
      OBVIOUS
    <3> QED BY <1>1, <2>2, <2>5, <3>1, <3>2, <3>3
  <2> QED BY <2>2, <2>3, <2>4, <2>5
<1>4. ASSUME W2 = Loops PROVE \E l \in Loops : e.at <= n2[l]
  BY <1>4 DEF EntryOK
<1> QED BY <1>1, <1>2, <1>3, <1>4 DEF EntryOK

(***************************************************************************)
(* A refresh of the entry, by one of those that are still to come.         *)
(***************************************************************************)
LEMMA EntryRefreshed ==
  ASSUME NEW d, NEW R, IsLog(R), \A r \in R : r.votes \in VoteValues,
         NEW e, NEW t \in Nat, NEW L, NEW V, NEW T, NEW W \in SUBSET Loops, NEW n,
         EntryOK(d, R, e, t, L, V, T, W, n), \A k \in Loops : n[k] \in Nat,
         NEW l \in W, NEW s \in Nat
  PROVE  EntryOK(d, R, Renewed(R, e, n[l], s), t,
                 L, IF n[l] < e.at THEN V \cup {d} ELSE V,
                 IF s # t THEN T \cup {d} ELSE T, W \ {l}, n)
<1> DEFINE now == n[l]
           x == Renewed(R, e, now, s)
           V2 == IF now < e.at THEN V \cup {d} ELSE V
           T2 == IF s # t THEN T \cup {d} ELSE T
           W2 == W \ {l}
<1>1. /\ l \in Loops /\ now \in Nat /\ IsEntry(e) /\ e.at \in Nat
  BY DEF EntryOK, IsEntry
<1>2. W2 # Loops
  BY <1>1
<1>3. NatVotes => \A r \in R : r.votes \in Nat
  BY DEF NatVotes
<1>4. CASE e.at <= now
  <2>1. V2 = V
    BY <1>1, <1>4
  <2>2. /\ IsEntry(x) /\ x.at = now /\ x.vote = Score(R, now) \div TimeLock
        /\ Held(R, e, s) => Held(R, x, s)
        /\ Exact(R, x, s) \/ (~Exact(R, e, s) /\ Reach(x) = Reach(e))
    BY <1>1, <1>4, RenewedLater
  <2> HIDE DEF x
  <2>3. ASSUME d \notin L \cup T2
        PROVE  /\ d \notin V \/ NatVotes => Held(R, x, t)
               /\ d \in V \/ Exact(R, x, t)
               /\ NatVotes => Exact(R, x, t) \/ \A k \in W2 : Reach(x) <= n[k]
    <3>1. s = t /\ d \notin L \cup T
      BY <2>3
    <3>2. /\ d \notin V \/ NatVotes => Held(R, e, t)
          /\ d \in V \/ Exact(R, e, t)
          /\ NatVotes => Exact(R, e, t) \/ \A k \in W : Reach(e) <= n[k]
      BY <3>1 DEF EntryOK
    <3> QED BY <2>2, <3>1, <3>2
  <2>4. EntryOK(d, R, x, t, L, V, T2, W2, n)
    <3> HIDE DEF T2, W2, now
    <3> QED BY <1>2, <2>2, <2>3 DEF EntryOK
  <2> QED BY <2>1, <2>4 DEF x
<1>5. CASE now < e.at
  <2>1. V2 = V \cup {d}
    BY <1>5
  <2>2. /\ IsEntry(x) /\ x.at = now
        /\ (\A r \in R : r.votes \in Nat) /\ Held(R, e, s)
             /\ (Exact(R, e, s) \/ Reach(e) <= now) =>
             /\ Held(R, x, s)
             /\ x.since = None \/ Exact(R, x, s)
                  \/ (~Exact(R, e, s) /\ Reach(x) = Reach(e))
    BY <1>1, <1>5, RenewedEarlier
  <2>3. \A k \in W2 : now <= n[k]
    <3> SUFFICES ASSUME NEW k \in W2 PROVE now <= n[k]
      OBVIOUS
    <3>1. W = Loops /\ Loops = {k, l}
      <4>1. k \in Loops /\ k # l /\ k \in W
        OBVIOUS
      <4>2. Loops = {k, l}
        BY <1>1, <4>1 DEF Loops
      <4> QED BY <4>1, <4>2
    <3>2. PICK j \in Loops : e.at <= n[j]
      BY <3>1 DEF EntryOK
    <3>3. n[j] \in Nat /\ n[k] \in Nat
      BY <3>1
    <3>4. j = k
      BY <1>1, <1>5, <3>1, <3>2, <3>3
    <3> QED BY <1>1, <1>5, <3>2, <3>3, <3>4
  <2> HIDE DEF x
  <2>4. ASSUME d \notin L \cup T2, NatVotes
        PROVE  /\ Held(R, x, t)
               /\ Exact(R, x, t) \/ \A k \in W2 : Reach(x) <= n[k]
    <3>1. s = t /\ d \notin L \cup T
      BY <2>4
    <3>2. /\ Held(R, e, t)
          /\ Exact(R, e, t) \/ \A k \in W : Reach(e) <= n[k]
      BY <2>4, <3>1 DEF EntryOK
    <3>3. /\ Held(R, x, t)
          /\ x.since = None \/ Exact(R, x, t)
               \/ (~Exact(R, e, t) /\ Reach(x) = Reach(e))
      BY <1>3, <2>2, <2>4, <3>1, <3>2
    <3>4. x.since = None => Reach(x) = now
      BY <2>2 DEF Reach
    <3> QED BY <2>3, <3>2, <3>3, <3>4
  <2>5. EntryOK(d, R, x, t, L, V \cup {d}, T2, W2, n)
    <3> HIDE DEF T2, W2, now
    <3> QED BY <1>2, <2>2, <2>4 DEF EntryOK
  <2> QED BY <2>1, <2>5 DEF x
<1> QED BY <1>1, <1>4, <1>5

(***************************************************************************)
(* A candidate whose vote v was below the threshold s of the pass.         *)
(***************************************************************************)
LEMMA EntryChecked ==
  ASSUME NEW d, NEW R, NEW t \in Nat, NEW L, NEW V, NEW T,
         NEW W, "decisions" \notin W, NEW n, NEW time \in Nat, NEW s \in Nat,
         s # t => d \in T, NEW v \in Int,
         d \notin L => v = Score(R, time) \div TimeLock /\ ~Over(R, time, s)
  PROVE  EntryOK(d, R, [vote |-> v, at |-> time, since |-> None], t, L, V, T, W, n)
<1> DEFINE x == [vote |-> v, at |-> time, since |-> None]
<1>1. IsEntry(x) /\ Held(R, x, t) /\ (d \notin L => x.vote = Score(R, x.at) \div TimeLock)
  BY DEF IsEntry, Held
<1>2. d \notin L \cup T => Exact(R, x, t)
  BY DEF Exact
<1>3. W # Loops
  BY DEF Loops
<1> HIDE DEF x
<1>4. EntryOK(d, R, x, t, L, V, T, W, n)
  BY <1>1, <1>2, <1>3 DEF EntryOK
<1> QED BY <1>4 DEF x

(***************************************************************************)
(* An entry that starts anew from time 0, when the threshold changes.      *)
(***************************************************************************)
LEMMA EntryCleared ==
  ASSUME NEW d, NEW R, IsLog(R), \A r \in R : 0 <= r.at, NEW vote \in Int,
         NEW t \in Nat \ {0}, NEW L, NEW V, NEW T, NEW W, NEW n,
         \A l \in Loops : n[l] \in Nat
  PROVE  EntryOK(d, R, [vote |-> vote, at |-> 0, since |-> None], t, L, V, T, W, n)
<1> DEFINE x == [vote |-> vote, at |-> 0, since |-> None]
<1>1. TimeLock \in Nat \ {0} /\ t * TimeLock \in Int /\ t * TimeLock > 0
  <2>1. TimeLock \in Nat \ {0}
    BY ConstantsAssumption
  <2>2. TimeLock * 1 <= TimeLock * t /\ TimeLock * t = t * TimeLock
    BY <2>1, TimesMonotone
  <2>3. TimeLock * 1 = TimeLock
    BY <2>1
  <2> QED BY <2>1, <2>2, <2>3
<1>2. Score(R, 0) = 0
  BY ScoreBefore
<1>3. ~Over(R, 0, t)
  BY <1>1, <1>2 DEF Over
<1>4. IsEntry(x) /\ Held(R, x, t) /\ Exact(R, x, t) /\ x.at = 0
  BY <1>3 DEF IsEntry, Held, Exact
<1>5. \E l \in Loops : 0 <= n[l]
  <2>1. "decisions" \in Loops
    BY DEF Loops
  <2> QED BY <2>1
<1> HIDE DEF x
<1>6. EntryOK(d, R, x, t, L, V, T, W, n)
  BY <1>4, <1>5 DEF EntryOK
<1> QED BY <1>6 DEF x

-----------------------------------------------------------------------------
(***************************************************************************)
(* The inductive invariant.                                                *)
(***************************************************************************)

\* The rows of a drop are a log of the past; a vote to come is newer.
VotesInv ==
  /\ history = [d \in Drops |-> history[d]] /\ voting = [d \in Drops |-> voting[d]]
  /\ \A d \in Drops :
       /\ IsLog(history[d]) /\ history[d] # {}
       /\ \A r \in history[d] : 0 <= r.at /\ r.at <= clock /\ r.votes \in VoteValues
       /\ voting[d] # None =>
            /\ IsRow(voting[d]) /\ voting[d].votes \in VoteValues
            /\ 0 <= voting[d].at /\ voting[d].at <= clock
            /\ \A r \in history[d] : r.at < voting[d].at

\* A pass at work has noted a time that is not to come, and a threshold.
PassInv ==
  /\ threshold \in Thresholds
  /\ \A l \in Loops :
       /\ pass[l].now \in Nat /\ pass[l].now <= clock
       /\ pass[l].phase \in {"refresh", "check", "formalize", "correct"} =>
            pass[l].threshold \in Thresholds
       /\ pass[l].phase = "refresh" => pass[l].todo \subseteq Drops

\* The Lambdas that are still to refresh a drop, and their times.
Waiting(d) == {l \in Loops : pass[l].phase = "refresh" /\ d \in pass[l].todo}

Nows == [l \in Loops |-> pass[l].now]

\* A record with the fields of an entry.
IsBoardRow(e) == e = [vote |-> e.vote, at |-> e.at, since |-> e.since]

EntryFine(d) ==
  /\ entry[d] # None /\ IsBoardRow(entry[d]) /\ entry[d].at <= clock
  /\ EntryOK(d, history[d], entry[d], threshold, late, overtaken, outdated,
             Waiting(d), Nows)

EntryInv == entry = [d \in Drops |-> entry[d]] /\ \A d \in open : EntryFine(d)

(* The vote of the candidate that has been looked at is that of the time   *)
(* of the pass; the candidate wins if it is over the threshold.            *)
ChosenInv ==
  LET p    == Decisions
      d    == Min(p.todo)
      time == Min({p.now, p.next})
  IN  p.phase \in {"formalize", "correct"} =>
        /\ p.vote \in Int
        /\ d \notin late =>
             /\ p.vote = Score(history[d], time) \div TimeLock
             /\ p.phase = "formalize" <=> Over(history[d], time, p.threshold)

\* A winner was.
Deserved(w) ==
  /\ w.drop \in Drops /\ w.seen \in Nat
  /\ w.drop \notin late =>
       /\ Over(history[w.drop], w.seen, w.threshold)
       /\ w.vote = Score(history[w.drop], w.seen) \div TimeLock

WinnersInv == \A i \in 1 .. Len(winners) : Deserved(winners[i])

BoardInv ==
  DecisionInv /\ VotesInv /\ PassInv /\ EntryInv /\ ChosenInv /\ WinnersInv

(* Rows are added, one drop at a time, by votes that took a later time.    *)
LEMMA VotesStep ==
  ASSUME DecisionInv, VotesInv, [Next]_vars
  PROVE  VotesInv' /\ clock' \in Nat /\ clock <= clock'
<1>1. clock \in Nat
  BY DEF DecisionInv, ShapeOK
<1>2. ASSUME UNCHANGED votes, clock' \in Nat, clock <= clock' PROVE VotesInv'
  <2>1. UNCHANGED <<history, voting>>
    BY <1>2 DEF votes
  <2>2. \A d \in Drops :
          /\ IsLog(history'[d]) /\ history'[d] # {}
          /\ \A r \in history'[d] : 0 <= r.at /\ r.at <= clock' /\ r.votes \in VoteValues
          /\ voting'[d] # None =>
               /\ IsRow(voting'[d]) /\ voting'[d].votes \in VoteValues
               /\ 0 <= voting'[d].at /\ voting'[d].at <= clock'
               /\ \A r \in history'[d] : r.at < voting'[d].at
    <3> SUFFICES ASSUME NEW d \in Drops
                 PROVE  /\ \A r \in history[d] : r.at <= clock'
                        /\ voting[d] # None => voting[d].at <= clock'
      BY <2>1 DEF VotesInv
    <3>1. /\ \A r \in history[d] : r.at \in Int /\ r.at <= clock
          /\ voting[d] # None => voting[d].at \in Int /\ voting[d].at <= clock
      BY DEF VotesInv, IsLog, IsRow
    <3> QED BY <1>1, <1>2, <3>1
  <2> QED BY <2>1, <2>2 DEF VotesInv
<1>3. CASE Tick
  <2>1. clock' \in Nat /\ clock <= clock' /\ UNCHANGED votes
    BY <1>1, <1>3 DEF Tick
  <2> QED BY <1>2, <2>1
<1>4. ASSUME NEW d \in Drops, CommitVote(d) PROVE VotesInv' /\ clock' = clock
  <2> DEFINE r == voting[d]
  <2>1. /\ r # None /\ clock' = clock
        /\ history' = [history EXCEPT ![d] = @ \cup {r}]
        /\ voting' = [voting EXCEPT ![d] = None]
    BY <1>4 DEF CommitVote
  <2>2. /\ IsLog(history[d]) /\ IsRow(r) /\ r.votes \in VoteValues
        /\ 0 <= r.at /\ r.at <= clock /\ \A s \in history[d] : s.at < r.at
    BY <2>1 DEF VotesInv
  <2>3. history'[d] = history[d] \cup {r} /\ voting'[d] = None
    BY <2>1 DEF VotesInv
  <2>4. IsLog(history'[d]) /\ history'[d] # {}
    <3>1. IsLog(history[d] \cup {r})
      <4> HIDE DEF r
      <4> QED BY <2>2, RowAdded
    <3> QED BY <2>3, <3>1
  <2>5. \A s \in history'[d] : 0 <= s.at /\ s.at <= clock /\ s.votes \in VoteValues
    BY <2>2, <2>3 DEF VotesInv
  <2>6. \A k \in Drops : k # d => history'[k] = history[k] /\ voting'[k] = voting[k]
    BY <2>1 DEF VotesInv
  <2>7. /\ history' = [k \in Drops |-> history'[k]]
        /\ voting' = [k \in Drops |-> voting'[k]]
    BY <2>1 DEF VotesInv
  <2> HIDE DEF r
  <2> QED BY <2>1, <2>3, <2>4, <2>5, <2>6, <2>7 DEF VotesInv
<1>5. ASSUME NEW d \in Drops, NEW v \in VoteValues, BeginVote(d, v)
      PROVE  VotesInv' /\ clock' = clock
  <2> DEFINE r == [at |-> clock, votes |-> v]
  <2>1. /\ clock' = clock /\ history' = history
        /\ voting' = [voting EXCEPT ![d] = r]
        /\ \A s \in history[d] : s.at < clock
    BY <1>5 DEF BeginVote
  <2>2. IsRow(r) /\ r.votes \in VoteValues /\ r.at = clock
    BY <1>1, ConstantsAssumption DEF IsRow
  <2> HIDE DEF r
  <2>3. voting'[d] = r /\ \A k \in Drops : k # d => voting'[k] = voting[k]
    BY <2>1 DEF VotesInv
  <2>4. voting' = [k \in Drops |-> voting'[k]]
    BY <2>1 DEF VotesInv
  <2> QED BY <1>1, <2>1, <2>2, <2>3, <2>4 DEF VotesInv
<1>6. ASSUME UNCHANGED <<votes, clock>> PROVE VotesInv' /\ clock' \in Nat /\ clock <= clock'
  BY <1>1, <1>2, <1>6
<1>7. CASE UNCHANGED vars
  BY <1>6, <1>7 DEF vars
<1>8. CASE \E t \in Thresholds : UpdateThreshold(t)
  <2>1. UNCHANGED <<votes, clock>>
    BY <1>8 DEF UpdateThreshold
  <2> QED BY <1>6, <2>1
<1>9. CASE \/ \E l \in Loops : StartPass(l) \/ FinishRefresh(l) \/ Crash(l)
           \/ \E l \in Loops, d \in Drops : RefreshDrop(l, d) \/ RefreshFails(l, d)
  <2>1. UNCHANGED <<votes, clock>>
    BY <1>9 DEF StartPass, FinishRefresh, Crash, RefreshDrop, RefreshFails
  <2> QED BY <1>6, <2>1
<1>10. CASE FindCandidates \/ CheckCandidate \/ CorrectEntry \/ Formalize
             \/ FinishApproval
  <2>1. UNCHANGED <<votes, clock>>
    BY <1>10 DEF FindCandidates, CheckCandidate, CorrectEntry, Formalize,
                 FinishApproval
  <2> QED BY <1>6, <2>1
<1> QED BY <1>1, <1>3, <1>4, <1>5, <1>7, <1>8, <1>9, <1>10 DEF Next, Tick

(* Every pass takes its time from the clock and its threshold from the     *)
(* wave's settings.                                                        *)
LEMMA PassStep ==
  ASSUME DecisionInv, PassInv, clock' \in Nat, clock <= clock', [Next]_vars
  PROVE  PassInv'
<1> DEFINE Fine(p) == /\ p.now \in Nat /\ p.now <= clock'
                      /\ p.phase \in {"refresh", "check", "formalize", "correct"} =>
                           p.threshold \in Thresholds
                      /\ p.phase = "refresh" => p.todo \subseteq Drops
<1>1. clock \in Nat /\ pass = [l \in Loops |-> pass[l]] /\ \A l \in Loops : IsPass(pass[l])
  BY DEF DecisionInv, ShapeOK
<1>2. \A l \in Loops : Fine(pass[l])
  <2> SUFFICES ASSUME NEW l \in Loops PROVE Fine(pass[l])
    OBVIOUS
  <2>1. pass[l].now \in Nat /\ pass[l].now <= clock /\ clock' \in Nat
    BY DEF PassInv
  <2>2. pass[l].now <= clock'
    BY <1>1, <2>1
  <2> QED BY <2>1, <2>2 DEF PassInv
<1>3. Fine(Idle) /\ Idle.phase = "idle"
  BY DEF Idle
<1>4. ASSUME NEW l \in Loops, NEW q, Fine(q), pass' = [pass EXCEPT ![l] = q],
             threshold' \in Thresholds
      PROVE  PassInv'
  <2>1. \A k \in Loops : pass'[k] = IF k = l THEN q ELSE pass[k]
    BY <1>1, <1>4
  <2>2. \A k \in Loops : Fine(pass'[k])
    BY <1>2, <1>4, <2>1
  <2> QED BY <1>4, <2>2 DEF PassInv
<1>5. ASSUME NEW l \in Loops, NEW T, T \subseteq pass[l].todo,
             pass' = [pass EXCEPT ![l] = [pass[l] EXCEPT !.todo = T]], UNCHANGED threshold
      PROVE  PassInv'
  <2> DEFINE p == pass[l]
             q == [phase |-> p.phase, now |-> p.now, threshold |-> p.threshold,
                   todo |-> T, next |-> p.next, slots |-> p.slots, vote |-> p.vote]
  <2>1. [p EXCEPT !.todo = T] = q
    BY <1>1, PassUpdates
  <2>2. Fine(q)
    BY <1>2, <1>5
  <2>3. pass' = [pass EXCEPT ![l] = q]
    BY <1>5, <2>1
  <2> HIDE DEF q
  <2>4. threshold' \in Thresholds
    BY <1>5 DEF PassInv
  <2> QED BY <1>4, <2>2, <2>3, <2>4
<1>6. threshold \in Thresholds
  BY DEF PassInv
<1>7. ASSUME UNCHANGED pass, threshold' \in Thresholds PROVE PassInv'
  BY <1>2, <1>7 DEF PassInv
<1>8. CASE \/ UNCHANGED vars \/ Tick
           \/ \E d \in Drops : CommitVote(d) \/ \E v \in VoteValues : BeginVote(d, v)
           \/ \E t \in Thresholds : UpdateThreshold(t)
  <2>1. UNCHANGED pass /\ threshold' \in Thresholds
    BY <1>6, <1>8 DEF vars, Tick, CommitVote, BeginVote, UpdateThreshold
  <2> QED BY <1>7, <2>1
<1>9. ASSUME NEW l \in Loops, StartPass(l) PROVE PassInv'
  <2> DEFINE T == {d \in Drops : NeedsRefresh(d)}
             q == [phase |-> "refresh", now |-> clock, threshold |-> threshold,
                   todo |-> T, next |-> 0, slots |-> 0, vote |-> 0]
  <2>1. pass' = [pass EXCEPT ![l] = q] /\ threshold' = threshold
    BY <1>9 DEF StartPass
  <2>2. T \subseteq Drops
    OBVIOUS
  <2> HIDE DEF T
  <2>3. Fine(q)
    BY <1>1, <1>6, <2>2
  <2> HIDE DEF q
  <2> QED BY <1>4, <1>6, <2>1, <2>3
<1>10. ASSUME NEW l \in Loops, NEW d \in Drops, RefreshDrop(l, d) \/ RefreshFails(l, d)
       PROVE  PassInv'
  <2> DEFINE T == pass[l].todo \ {d}
  <2>1. /\ pass' = [pass EXCEPT ![l] = [pass[l] EXCEPT !.todo = T]]
        /\ UNCHANGED threshold
    BY <1>10 DEF RefreshDrop, RefreshFails
  <2>2. T \subseteq pass[l].todo
    OBVIOUS
  <2> HIDE DEF T
  <2> QED BY <1>5, <2>1, <2>2
<1>11. ASSUME NEW l \in Loops, FinishRefresh(l) \/ Crash(l) PROVE PassInv'
  <2> DEFINE q == [Idle EXCEPT !.phase = "approve"]
  <2>1. Fine(q)
    BY DEF Idle
  <2>2. threshold' = threshold /\ (pass' = [pass EXCEPT ![l] = q] \/ pass' = [pass EXCEPT ![l] = Idle])
    BY <1>11 DEF FinishRefresh, Crash
  <2> HIDE DEF q
  <2> QED BY <1>3, <1>4, <1>6, <2>1, <2>2
<1>12. CASE FindCandidates
  <2> DEFINE T == {d \in Drops : IsCandidate(d)}
             n == Max({clock, LatestDecision + 1})
             q == [phase |-> "check", now |-> clock, threshold |-> threshold,
                   todo |-> T, next |-> n, slots |-> MaxWinners - Len(winners),
                   vote |-> 0]
  <2>1. /\ pass' = [pass EXCEPT !["decisions"] = q] /\ threshold' = threshold
        /\ "decisions" \in Loops
    BY <1>12 DEF FindCandidates, Loops
  <2> HIDE DEF T, n
  <2>2. Fine(q)
    BY <1>1, <1>6
  <2> HIDE DEF q
  <2> QED BY <1>4, <1>6, <2>1, <2>2
<1>13. CASE CheckCandidate
  <2> DEFINE p == pass["decisions"]
             v == LiveVote(Min(p.todo), Min({p.now, p.next})) \div TimeLock
  <2>1. threshold' = threshold /\ "decisions" \in Loops /\ p.phase = "check"
    BY <1>13 DEF CheckCandidate, Loops
  <2>2. PICK f \in {"formalize", "correct"} :
          pass' = [pass EXCEPT !["decisions"] =
                     [phase |-> f, now |-> p.now, threshold |-> p.threshold,
                      todo |-> p.todo, next |-> p.next, slots |-> p.slots, vote |-> v]]
    BY <1>13, CheckMoves
  <2> DEFINE q == [phase |-> f, now |-> p.now, threshold |-> p.threshold,
                   todo |-> p.todo, next |-> p.next, slots |-> p.slots, vote |-> v]
  <2> HIDE DEF v
  <2>3. Fine(q)
    BY <1>2, <2>1
  <2> HIDE DEF q
  <2> QED BY <1>4, <1>6, <2>1, <2>2, <2>3 DEF q
<1>14. CASE Formalize
  <2> DEFINE p == pass["decisions"]
             d == Min(p.todo)
             q == [phase |-> "check", now |-> p.now, threshold |-> p.threshold,
                   todo |-> p.todo \ {d}, next |-> p.next + 1,
                   slots |-> p.slots - 1, vote |-> p.vote]
  <2>1. /\ pass' = [pass EXCEPT !["decisions"] = q] /\ threshold' = threshold
        /\ "decisions" \in Loops /\ p.phase = "formalize"
    BY <1>14 DEF Formalize, Loops
  <2>2. Fine(q)
    BY <1>2, <2>1
  <2> HIDE DEF q
  <2> QED BY <1>4, <1>6, <2>1, <2>2
<1>16. CASE CorrectEntry
  <2> DEFINE p == pass["decisions"]
             T == p.todo \ {Min(p.todo)}
             q == [phase |-> "check", now |-> p.now, threshold |-> p.threshold,
                   todo |-> T, next |-> p.next, slots |-> p.slots, vote |-> 0]
  <2>1. /\ pass' = [pass EXCEPT !["decisions"] = q] /\ threshold' = threshold
        /\ "decisions" \in Loops /\ p.phase = "correct"
    BY <1>16 DEF CorrectEntry, Loops
  <2> HIDE DEF T
  <2>2. Fine(q)
    BY <1>2, <2>1
  <2> HIDE DEF q
  <2> QED BY <1>4, <1>6, <2>1, <2>2
<1>15. CASE FinishApproval
  <2>1. /\ pass' = [pass EXCEPT !["decisions"] = Idle] /\ threshold' = threshold
        /\ "decisions" \in Loops
    BY <1>15 DEF FinishApproval, Loops
  <2> QED BY <1>3, <1>4, <1>6, <2>1
<1> QED BY <1>8, <1>9, <1>10, <1>11, <1>12, <1>13, <1>14, <1>15, <1>16 DEF Next

-----------------------------------------------------------------------------
\* No Lambda starts to refresh drops; whoever is at it keeps its time.
PassShrinks ==
  \A j \in Loops : pass'[j].phase = "refresh" =>
    /\ pass[j].phase = "refresh" /\ pass'[j].todo \subseteq pass[j].todo
    /\ pass'[j].now = pass[j].now

(* Only StartPass makes drops wait for a refresh.                          *)
LEMMA PassesShrink ==
  ASSUME DecisionInv, [Next]_vars, \A l \in Loops : ~StartPass(l)
  PROVE  PassShrinks
<1>1. pass = [l \in Loops |-> pass[l]] /\ \A l \in Loops : IsPass(pass[l])
  BY DEF DecisionInv, ShapeOK
<1>2. ASSUME NEW l \in Loops, NEW q, pass' = [pass EXCEPT ![l] = q],
             q.phase = "refresh" =>
               /\ pass[l].phase = "refresh" /\ q.todo \subseteq pass[l].todo
               /\ q.now = pass[l].now
      PROVE  PassShrinks
  <2>1. \A j \in Loops : pass'[j] = IF j = l THEN q ELSE pass[j]
    BY <1>1, <1>2
  <2> QED BY <1>2, <2>1 DEF PassShrinks
<1>3. ASSUME UNCHANGED pass PROVE PassShrinks
  BY <1>3 DEF PassShrinks
<1>4. ASSUME NEW l \in Loops, NEW d,
             pass' = [pass EXCEPT ![l] = [pass[l] EXCEPT !.todo = @ \ {d}]]
      PROVE  PassShrinks
  <2> DEFINE p == pass[l]
             T == p.todo \ {d}
             q == [phase |-> p.phase, now |-> p.now, threshold |-> p.threshold,
                   todo |-> T, next |-> p.next, slots |-> p.slots, vote |-> p.vote]
  <2>1. pass' = [pass EXCEPT ![l] = [p EXCEPT !.todo = T]] /\ T \subseteq p.todo
    BY <1>4
  <2> HIDE DEF T
  <2>2. [p EXCEPT !.todo = T] = q
    BY <1>1, PassUpdates
  <2>3. pass' = [pass EXCEPT ![l] = q]
    BY <2>1, <2>2
  <2>4. q.phase = p.phase /\ q.todo \subseteq p.todo /\ q.now = p.now
    BY <2>1
  <2> HIDE DEF q
  <2> QED BY <1>2, <2>3, <2>4
<1>5. Idle.phase # "refresh"
  BY DEF Idle
<1>6. CASE \/ UNCHANGED vars \/ Tick
           \/ \E d \in Drops : CommitVote(d) \/ \E v \in VoteValues : BeginVote(d, v)
           \/ \E t \in Thresholds : UpdateThreshold(t)
  <2>1. UNCHANGED pass
    BY <1>6 DEF vars, Tick, CommitVote, BeginVote, UpdateThreshold
  <2> QED BY <1>3, <2>1
<1>7. ASSUME NEW l \in Loops, NEW d \in Drops, RefreshDrop(l, d) \/ RefreshFails(l, d)
      PROVE  PassShrinks
  <2>1. pass' = [pass EXCEPT ![l] = [pass[l] EXCEPT !.todo = @ \ {d}]]
    BY <1>7 DEF RefreshDrop, RefreshFails
  <2> QED BY <1>4, <2>1
<1>8. ASSUME NEW l \in Loops, FinishRefresh(l) \/ Crash(l) PROVE PassShrinks
  <2> DEFINE q == [Idle EXCEPT !.phase = "approve"]
  <2>1. q.phase # "refresh"
    BY DEF Idle
  <2>2. pass' = [pass EXCEPT ![l] = q] \/ pass' = [pass EXCEPT ![l] = Idle]
    BY <1>8 DEF FinishRefresh, Crash
  <2> HIDE DEF q
  <2> QED BY <1>2, <1>5, <2>1, <2>2
<1>9. CASE FindCandidates
  <2> DEFINE T == {d \in Drops : IsCandidate(d)}
             n == Max({clock, LatestDecision + 1})
             q == [phase |-> "check", now |-> clock, threshold |-> threshold,
                   todo |-> T, next |-> n, slots |-> MaxWinners - Len(winners),
                   vote |-> 0]
  <2>1. pass' = [pass EXCEPT !["decisions"] = q] /\ "decisions" \in Loops
    BY <1>9 DEF FindCandidates, Loops
  <2>2. q.phase # "refresh"
    OBVIOUS
  <2> HIDE DEF q
  <2> QED BY <1>2, <2>1, <2>2
<1>10. CASE CheckCandidate
  <2> DEFINE p == pass["decisions"]
             v == LiveVote(Min(p.todo), Min({p.now, p.next})) \div TimeLock
  <2>1. "decisions" \in Loops
    BY DEF Loops
  <2>2. PICK f \in {"formalize", "correct"} :
          pass' = [pass EXCEPT !["decisions"] =
                     [phase |-> f, now |-> p.now, threshold |-> p.threshold,
                      todo |-> p.todo, next |-> p.next, slots |-> p.slots, vote |-> v]]
    BY <1>10, CheckMoves
  <2> DEFINE q == [phase |-> f, now |-> p.now, threshold |-> p.threshold,
                   todo |-> p.todo, next |-> p.next, slots |-> p.slots, vote |-> v]
  <2>3. q.phase # "refresh" /\ pass' = [pass EXCEPT !["decisions"] = q]
    BY <2>2
  <2> HIDE DEF q
  <2> QED BY <1>2, <2>1, <2>3
<1>13. CASE CorrectEntry
  <2> DEFINE p == pass["decisions"]
             T == p.todo \ {Min(p.todo)}
             q == [phase |-> "check", now |-> p.now, threshold |-> p.threshold,
                   todo |-> T, next |-> p.next, slots |-> p.slots, vote |-> 0]
  <2>1. pass' = [pass EXCEPT !["decisions"] = q] /\ "decisions" \in Loops
    BY <1>13 DEF CorrectEntry, Loops
  <2>2. q.phase # "refresh"
    OBVIOUS
  <2> HIDE DEF q
  <2> QED BY <1>2, <2>1, <2>2
<1>11. CASE Formalize
  <2> DEFINE p == pass["decisions"]
             d == Min(p.todo)
             q == [phase |-> "check", now |-> p.now, threshold |-> p.threshold,
                   todo |-> p.todo \ {d}, next |-> p.next + 1,
                   slots |-> p.slots - 1, vote |-> p.vote]
  <2>1. pass' = [pass EXCEPT !["decisions"] = q] /\ "decisions" \in Loops
    BY <1>11 DEF Formalize, Loops
  <2>2. q.phase # "refresh"
    OBVIOUS
  <2> HIDE DEF q
  <2> QED BY <1>2, <2>1, <2>2
<1>12. CASE FinishApproval
  <2>1. pass' = [pass EXCEPT !["decisions"] = Idle] /\ "decisions" \in Loops
    BY <1>12 DEF FinishApproval, Loops
  <2> QED BY <1>2, <1>5, <2>1
<1> QED BY <1>6, <1>7, <1>8, <1>9, <1>10, <1>11, <1>12, <1>13 DEF Next

(***************************************************************************)
(* The entry of a drop that a step leaves alone.                           *)
(***************************************************************************)
LEMMA EntryKept ==
  ASSUME NEW d \in open, EntryFine(d), PassInv', clock \in Nat, clock' \in Nat,
         clock <= clock', entry'[d] = entry[d], threshold' = threshold,
         late \subseteq late', overtaken \subseteq overtaken',
         outdated \subseteq outdated',
         \A l \in Waiting(d)' : \/ l \in Waiting(d) /\ pass'[l].now = pass[l].now
                                \/ entry[d].at <= pass'[l].now,
         d \notin late' => \A u \in Int : u <= entry[d].at =>
                             Score(history'[d], u) = Score(history[d], u)
  PROVE  EntryFine(d)'
<1> DEFINE e == entry[d]
           W == Waiting(d)
           W2 == Waiting(d)'
           n == Nows
           n2 == Nows'
<1>1. /\ EntryOK(d, history[d], e, threshold, late, overtaken, outdated, W, n)
      /\ e.at \in Nat /\ e.at <= clock /\ e # None /\ IsBoardRow(e)
  BY DEF EntryFine, EntryOK, IsEntry
<1>2. W \subseteq Loops /\ W2 \subseteq Loops
  BY DEF Waiting
<1>3. \A l \in Loops : n[l] = pass[l].now /\ n2[l] = pass'[l].now /\ n2[l] \in Int
  BY DEF Nows, PassInv
<1>4. \A l \in W2 : (l \in W /\ n2[l] = n[l]) \/ e.at <= n2[l]
  BY <1>2, <1>3
<1>5. EntryFine(d)' <=>
        /\ e # None /\ IsBoardRow(e) /\ e.at <= clock'
        /\ EntryOK(d, history'[d], e, threshold, late', overtaken', outdated', W2, n2)
  BY DEF EntryFine
<1> HIDE DEF e, W, W2, n, n2
<1>6. Around(e, late, overtaken, outdated, W, n, late', overtaken', outdated', W2, n2)
  BY <1>2, <1>3, <1>4 DEF Around
<1>7. d \notin late' => \A u \in Int : u <= e.at =>
                          Score(history'[d], u) = Score(history[d], u)
  BY DEF e
<1>8. EntryOK(d, history'[d], e, threshold, late', overtaken', outdated', W2, n2)
  BY <1>1, <1>6, <1>7, EntryStays
<1>9. e.at <= clock'
  BY <1>1
<1> QED BY <1>1, <1>5, <1>8, <1>9

(* Steps in which only the surroundings of the entries change, and not the *)
(* votes: some drops are closed, passes go on or end.                      *)
LEMMA EntriesKept ==
  ASSUME EntryInv, PassInv', PassShrinks, clock \in Nat, clock' \in Nat,
         clock <= clock', UNCHANGED <<history, threshold, late, overtaken, outdated>>,
         open' \subseteq open, entry' = [d \in Drops |-> entry'[d]],
         \A d \in open' : entry'[d] = entry[d]
  PROVE  EntryInv'
<1> SUFFICES ASSUME NEW d \in open' PROVE EntryFine(d)'
  BY DEF EntryInv
<1>1. d \in open /\ EntryFine(d) /\ entry'[d] = entry[d]
  BY DEF EntryInv
<1>2. \A l \in Waiting(d)' : l \in Waiting(d) /\ pass'[l].now = pass[l].now
  BY DEF Waiting, PassShrinks
<1> QED BY <1>1, <1>2, EntryKept

(* An invocation starts, with a time that no entry is ahead of.            *)
LEMMA StartEntries ==
  ASSUME DecisionInv, EntryInv, PassInv', NEW l \in Loops, StartPass(l)
  PROVE  EntryInv'
<1> DEFINE T == {d \in Drops : NeedsRefresh(d)}
           q == [phase |-> "refresh", now |-> clock, threshold |-> threshold,
                 todo |-> T, next |-> 0, slots |-> 0, vote |-> 0]
<1>1. /\ pass' = [pass EXCEPT ![l] = q]
      /\ UNCHANGED <<clock, threshold, history, entry, open, late, overtaken, outdated>>
  BY DEF StartPass, votes, ghosts
<1>2. q.now = clock
  OBVIOUS
<1> HIDE DEF q
<1>3. clock \in Nat /\ \A j \in Loops : pass'[j] = IF j = l THEN q ELSE pass[j]
  BY <1>1 DEF DecisionInv, ShapeOK
<1> SUFFICES ASSUME NEW d \in open PROVE EntryFine(d)'
  BY <1>1 DEF EntryInv
<1>4. EntryFine(d)
  BY DEF EntryInv
<1>5. \A j \in Waiting(d)' : \/ j \in Waiting(d) /\ pass'[j].now = pass[j].now
                             \/ entry[d].at <= pass'[j].now
  <2> SUFFICES ASSUME NEW j \in Waiting(d)'
               PROVE  \/ j \in Waiting(d) /\ pass'[j].now = pass[j].now
                      \/ entry[d].at <= pass'[j].now
    OBVIOUS
  <2>1. j \in Loops
    BY DEF Waiting
  <2>2. CASE j = l
    BY <1>2, <1>3, <1>4, <2>1, <2>2 DEF EntryFine
  <2>3. CASE j # l
    BY <1>3, <2>1, <2>3 DEF Waiting
  <2> QED BY <2>2, <2>3
<1> QED BY <1>1, <1>3, <1>4, <1>5, EntryKept

(* A vote commits: whoever could have seen it makes its drop late.         *)
LEMMA CommitEntries ==
  ASSUME DecisionInv, VotesInv, EntryInv, PassInv', PassShrinks,
         NEW c \in Drops, CommitVote(c)
  PROVE  EntryInv'
<1> DEFINE r == voting[c]
<1>1. /\ r # None /\ history' = [history EXCEPT ![c] = @ \cup {r}]
      /\ late' = IF TooLate(c) THEN late \cup {c} ELSE late
      /\ UNCHANGED <<clock, threshold, entry, open, overtaken, outdated>>
  BY DEF CommitVote
<1>2. /\ IsLog(history[c]) /\ IsRow(r) /\ r.at \in Int
      /\ \A s \in history[c] : s.at < r.at
      /\ history'[c] = history[c] \cup {r}
      /\ \A k \in Drops : k # c => history'[k] = history[k]
  BY <1>1 DEF VotesInv, IsRow
<1>3. clock \in Nat /\ late \subseteq late' /\ open \subseteq Drops
  BY <1>1 DEF DecisionInv, ShapeOK
<1> SUFFICES ASSUME NEW d \in open PROVE EntryFine(d)'
  BY <1>1 DEF EntryInv
<1>4. EntryFine(d) /\ entry[d].at \in Nat /\ entry[d] # None
  BY DEF EntryInv, EntryFine, EntryOK, IsEntry
<1>5. \A j \in Waiting(d)' : j \in Waiting(d) /\ pass'[j].now = pass[j].now
  BY DEF Waiting, PassShrinks
<1>6. ASSUME d \notin late', NEW u \in Int, u <= entry[d].at
      PROVE  Score(history'[d], u) = Score(history[d], u)
  <2>1. CASE d # c
    BY <1>2, <1>3, <2>1
  <2>2. CASE d = c
    <3>1. ~TooLate(c)
      BY <1>1, <1>6, <2>2
    <3>2. ~(r.at < entry[c].at)
      BY <1>4, <2>2, <3>1 DEF TooLate
    <3>3. u <= r.at
      BY <1>2, <1>4, <1>6, <2>2, <3>2
    <3> HIDE DEF r
    <3>4. Score(history[c] \cup {r}, u) = Score(history[c], u)
      BY <1>2, <3>3, RowAdded
    <3> QED BY <1>2, <2>2, <3>4
  <2> QED BY <2>1, <2>2
<1>7. d \notin late' => \A u \in Int : u <= entry[d].at =>
                          Score(history'[d], u) = Score(history[d], u)
  BY <1>6
<1>8. /\ clock' \in Nat /\ clock <= clock' /\ entry'[d] = entry[d]
      /\ threshold' = threshold /\ overtaken \subseteq overtaken'
      /\ outdated \subseteq outdated'
  BY <1>1, <1>3
<1> QED BY <1>3, <1>4, <1>5, <1>7, <1>8, EntryKept

(* New settings: every entry starts anew.                                  *)
LEMMA UpdateEntries ==
  ASSUME DecisionInv, VotesInv, EntryInv, PassInv', NEW t \in Thresholds,
         UpdateThreshold(t)
  PROVE  EntryInv'
<1>1. /\ threshold' = t /\ entry' = EntriesCleared /\ outdated' = {} /\ overtaken' = {}
      /\ UNCHANGED <<clock, history, open, pass, late>>
  BY DEF UpdateThreshold, votes
<1>2. clock \in Nat /\ open \subseteq Drops /\ t \in Nat \ {0}
  BY ConstantsAssumption DEF DecisionInv, ShapeOK
<1>3. entry' = [d \in Drops |-> entry'[d]]
  BY <1>1 DEF EntriesCleared
<1> SUFFICES ASSUME NEW d \in open PROVE EntryFine(d)'
  BY <1>1, <1>3 DEF EntryInv
<1> DEFINE v == entry[d].vote
           x == [vote |-> v, at |-> 0, since |-> None]
<1>4. entry'[d] = x /\ v \in Int
  <2>1. EntryFine(d) /\ d \in Drops /\ entry[d] # None
    BY <1>2 DEF EntryInv, EntryFine
  <2>2. IsBoardRow(entry[d]) /\ v \in Int
    BY <2>1 DEF EntryFine, EntryOK, IsEntry
  <2>3. entry'[d] = [entry[d] EXCEPT !.since = None, !.at = 0]
    BY <1>1, <2>1 DEF EntriesCleared
  <2>4. [entry[d] EXCEPT !.since = None, !.at = 0]
          = [[entry[d] EXCEPT !.since = None] EXCEPT !.at = 0]
    OBVIOUS
  <2>5. [entry[d] EXCEPT !.since = None] = [vote |-> v, at |-> entry[d].at, since |-> None]
    BY <2>2 DEF IsBoardRow
  <2>6. [[vote |-> v, at |-> entry[d].at, since |-> None] EXCEPT !.at = 0] = x
    OBVIOUS
  <2> QED BY <2>2, <2>3, <2>4, <2>5, <2>6
<1>5. \A r \in history[d] : 0 <= r.at
  BY <1>2 DEF VotesInv
<1>6. IsLog(history[d]) /\ \A l \in Loops : Nows'[l] \in Nat
  BY <1>2 DEF VotesInv, Nows, PassInv
<1>7. x # None /\ IsBoardRow(x) /\ x.at = 0
  <2>1. x \in [vote : Int, at : Int, since : Int \cup {None}]
    BY <1>4
  <2> QED BY <2>1, ConstantsAssumption DEF IsBoardRow
<1> HIDE DEF x, v
<1>8. EntryOK(d, history[d], x, t, late, {}, {}, Waiting(d)', Nows')
  BY <1>2, <1>4, <1>5, <1>6, EntryCleared DEF x
<1> QED BY <1>1, <1>2, <1>4, <1>7, <1>8 DEF EntryFine

(* A refresh of one drop.                                                  *)
LEMMA RefreshEntries ==
  ASSUME DecisionInv, VotesInv, PassInv, EntryInv, PassInv', PassShrinks,
         NEW l \in Loops, NEW c \in Drops, RefreshDrop(l, c)
  PROVE  EntryInv'
<1> DEFINE p == pass[l]
           x == Refreshed(c, p.now, p.threshold)
<1>1. /\ p.phase = "refresh" /\ c \in p.todo
      /\ entry' = [entry EXCEPT ![c] = x]
      /\ pass' = [pass EXCEPT ![l] = [pass[l] EXCEPT !.todo = @ \ {c}]]
      /\ overtaken' = IF entry[c] # None /\ p.now < entry[c].at
                      THEN overtaken \cup {c} ELSE overtaken
      /\ outdated' = IF p.threshold # threshold THEN outdated \cup {c} ELSE outdated
      /\ UNCHANGED <<clock, threshold, history, open, late>>
  BY DEF RefreshDrop, votes
<1>2. /\ clock \in Nat /\ open \subseteq Drops /\ \A j \in Loops : IsPass(pass[j])
      /\ pass = [j \in Loops |-> pass[j]]
  BY DEF DecisionInv, ShapeOK
<1>3. /\ entry' = [d \in Drops |-> entry'[d]] /\ entry'[c] = x
      /\ \A d \in Drops : d # c => entry'[d] = entry[d]
  BY <1>1 DEF EntryInv
<1>4. overtaken \subseteq overtaken' /\ outdated \subseteq outdated'
  BY <1>1
<1> SUFFICES ASSUME NEW d \in open PROVE EntryFine(d)'
  BY <1>1, <1>3 DEF EntryInv
<1>5. EntryFine(d) /\ d \in Drops
  BY <1>2 DEF EntryInv
<1>6. \A j \in Waiting(d)' : j \in Waiting(d) /\ pass'[j].now = pass[j].now
  BY DEF Waiting, PassShrinks
<1>7. CASE d # c
  <2>1. /\ clock' \in Nat /\ clock <= clock' /\ entry'[d] = entry[d]
        /\ threshold' = threshold /\ late \subseteq late' /\ history'[d] = history[d]
    BY <1>1, <1>2, <1>3, <1>5, <1>7
  <2> QED BY <1>2, <1>4, <1>5, <1>6, <2>1, EntryKept
<1>8. CASE d = c
  <2> DEFINE R == history[c]
             e == entry[c]
             W == Waiting(c)
             n == Nows
             s == p.threshold
             V2 == IF n[l] < e.at THEN overtaken \cup {c} ELSE overtaken
             T2 == IF s # threshold THEN outdated \cup {c} ELSE outdated
  <2>1. /\ EntryOK(c, R, e, threshold, late, overtaken, outdated, W, n)
        /\ e # None
    BY <1>5, <1>8 DEF EntryFine
  <2>2. /\ IsLog(R) /\ \A r \in R : r.votes \in VoteValues
    BY DEF VotesInv
  <2>3. /\ l \in W /\ W \in SUBSET Loops /\ n[l] = p.now
        /\ \A k \in Loops : n[k] \in Nat
    BY <1>1 DEF Waiting, Nows, PassInv
  <2>4. s \in Nat /\ threshold \in Nat
    BY <1>1, ConstantsAssumption DEF PassInv
  <2>5. x = Renewed(R, e, n[l], s)
    BY <2>1, <2>3 DEF Refreshed, Renewed, VoteStates, States
  <2>6. overtaken' = V2 /\ outdated' = T2
    BY <1>1, <2>1, <2>3
  <2>7. \A j \in Loops :
          /\ pass'[j].phase = pass[j].phase /\ pass'[j].now = pass[j].now
          /\ pass'[j].todo = IF j = l THEN pass[j].todo \ {c} ELSE pass[j].todo
    <3> DEFINE T == p.todo \ {c}
               q == [phase |-> p.phase, now |-> p.now, threshold |-> p.threshold,
                     todo |-> T, next |-> p.next, slots |-> p.slots, vote |-> p.vote]
    <3>1. pass' = [pass EXCEPT ![l] = [p EXCEPT !.todo = T]]
      BY <1>1
    <3> HIDE DEF T
    <3>2. [p EXCEPT !.todo = T] = q
      BY <1>2, PassUpdates
    <3>3. pass'[l] = q /\ \A j \in Loops : j # l => pass'[j] = pass[j]
      BY <1>2, <3>1, <3>2
    <3>4. q.phase = p.phase /\ q.now = p.now /\ q.todo = T
      OBVIOUS
    <3> HIDE DEF q
    <3> QED BY <3>3, <3>4 DEF T
  <2>8. Waiting(c)' = W \ {l} /\ Nows' = n
    BY <1>1, <2>7 DEF Waiting, Nows
  <2>9. x.at = p.now /\ IsBoardRow(x) /\ x # None /\ p.now <= clock
    <3>1. x.at = p.now /\ IsBoardRow(x)
      BY DEF Refreshed, IsBoardRow
    <3>2. p.now <= clock
      BY DEF PassInv
    <3>3. IsEntry(x)
      <4> HIDE DEF x, R, e, W, n, s, V2, T2
      <4>1. EntryOK(c, R, Renewed(R, e, n[l], s), threshold, late, V2, T2, W \ {l}, n)
        BY <2>1, <2>2, <2>3, <2>4, EntryRefreshed DEF V2, T2
      <4> QED BY <2>5, <4>1 DEF EntryOK
    <3>4. x \in [vote : Int, at : Int, since : Int \cup {None}]
      <4> HIDE DEF x
      <4>1. x.vote \in Int /\ x.at \in Int /\ x.since \in Int \cup {None}
        BY <3>3 DEF IsEntry
      <4>2. x = [vote |-> x.vote, at |-> x.at, since |-> x.since]
        BY <3>1 DEF IsBoardRow
      <4> QED BY <4>1, <4>2
    <3>5. x # None
      <4> HIDE DEF x
      <4> QED BY <3>4, ConstantsAssumption
    <3> QED BY <3>1, <3>2, <3>5
  <2>10. EntryFine(c)' <=>
           /\ x # None /\ IsBoardRow(x) /\ x.at <= clock
           /\ EntryOK(c, R, x, threshold, late, V2, T2, W \ {l}, n)
    <3> HIDE DEF x, V2, T2, W, n
    <3> QED BY <1>1, <1>3, <2>6, <2>8 DEF EntryFine
  <2> HIDE DEF x, R, e, W, n, s, V2, T2
  <2>11. EntryOK(c, R, x, threshold, late, V2, T2, W \ {l}, n)
    BY <2>1, <2>2, <2>3, <2>4, <2>5, EntryRefreshed DEF V2, T2
  <2> QED BY <1>8, <2>9, <2>10, <2>11
<1> QED BY <1>7, <1>8

(* The candidate whose turn it is, and the time its vote is taken at.      *)
LEMMA Candidate ==
  ASSUME DecisionInv, PassInv, Decisions.phase \in {"check", "formalize", "correct"},
         Decisions.todo # {}
  PROVE  LET p == pass["decisions"]
             d == Min(p.todo)
             time == Min({p.now, p.next})
         IN
         /\ d \in open /\ d \in Drops /\ d \in p.todo
         /\ time \in Nat /\ time <= p.now /\ time <= clock
<1> DEFINE p == pass["decisions"]
           d == Min(p.todo)
           time == Min({p.now, p.next})
<1>1. p = Decisions
  BY DEF Decisions
<1>2. p.todo \subseteq open /\ open \subseteq Drops /\ p.next \in Nat /\ clock \in Nat
  BY <1>1 DEF DecisionInv, LoopOK, ShapeOK
<1>3. p.now \in Nat /\ p.now <= clock
  BY DEF PassInv, Loops
<1>4. d \in p.todo
  <2>1. p.todo \subseteq Drops /\ p.todo # {}
    BY <1>1, <1>2
  <2>2. Drops \subseteq Int /\ IsFiniteSet(Drops)
    BY ConstantsAssumption
  <2> HIDE DEF p
  <2>3. p.todo \subseteq Int /\ IsFiniteSet(p.todo)
    BY <2>1, <2>2, FS_Subset
  <2> QED BY <2>1, <2>3, MinOfInts
<1>5. time \in {p.now, p.next} /\ time <= p.now
  <2> DEFINE T == {p.now, p.next}
  <2>1. T \subseteq Int /\ T # {} /\ p.now \in T
    BY <1>2, <1>3
  <2>2. IsFiniteSet(T)
    <3>1. IsFiniteSet({p.now}) /\ T = {p.now} \cup {p.next}
      BY FS_Singleton
    <3> QED BY <3>1, FS_AddElement
  <2> HIDE DEF T
  <2>3. Min(T) \in T /\ \A y \in T : Min(T) <= y
    BY <2>1, <2>2, MinOfInts
  <2> QED BY <2>1, <2>3 DEF T
<1> HIDE DEF d, time
<1>6. time \in Nat /\ time <= clock
  BY <1>2, <1>3, <1>5
<1> QED BY <1>2, <1>4, <1>5, <1>6 DEF d, time

(* The entry of a candidate whose vote has fallen is put right.            *)
LEMMA CorrectEntries ==
  ASSUME DecisionInv, VotesInv, PassInv, EntryInv, ChosenInv, PassInv',
         PassShrinks, CorrectEntry
  PROVE  EntryInv'
<1> DEFINE p == pass["decisions"]
           c == Min(p.todo)
           time == Min({p.now, p.next})
           v == p.vote
           x == [vote |-> v, at |-> time, since |-> None]
           q == [phase |-> "check", now |-> p.now, threshold |-> p.threshold,
                 todo |-> p.todo \ {c}, next |-> p.next, slots |-> p.slots,
                 vote |-> 0]
           V2 == IF entry[c] # None /\ time < entry[c].at
                 THEN overtaken \cup {c} ELSE overtaken
           T2 == IF p.threshold # threshold THEN outdated \cup {c} ELSE outdated
<1>1. /\ p.phase = "correct" /\ entry' = [entry EXCEPT ![c] = x]
      /\ pass' = [pass EXCEPT !["decisions"] = q]
      /\ overtaken' = V2 /\ outdated' = T2
      /\ UNCHANGED <<clock, threshold, history, open, late>>
  BY DEF CorrectEntry, votes
<1>2. /\ clock \in Nat /\ clock' = clock /\ open \subseteq Drops /\ open' = open
      /\ "decisions" \in Loops /\ pass = [j \in Loops |-> pass[j]] /\ Decisions = p
  BY <1>1 DEF DecisionInv, ShapeOK, Loops, Decisions
<1>3. c \in open /\ c \in Drops /\ time \in Nat /\ time <= clock
  <2>1. p.todo # {}
    BY <1>1, <1>2 DEF DecisionInv, LoopOK
  <2> QED BY <1>1, <1>2, <2>1, Candidate
<1>4. overtaken \subseteq overtaken' /\ outdated \subseteq outdated'
  BY <1>1
<1>5. p.threshold \in Nat /\ threshold \in Nat
  BY <1>1, <1>2, ConstantsAssumption DEF PassInv
<1>6. /\ v \in Int
      /\ c \notin late => /\ v = Score(history[c], time) \div TimeLock
                          /\ ~Over(history[c], time, p.threshold)
  BY <1>1, <1>2 DEF ChosenInv
<1>7. IsBoardRow(x) /\ x.at = time
  BY DEF IsBoardRow
<1>8. pass'["decisions"].phase # "refresh"
  <2>1. q.phase = "check"
    OBVIOUS
  <2> HIDE DEF q
  <2> QED BY <1>1, <1>2, <2>1
<1> HIDE DEF v, time, c, q
<1>9. /\ entry' = [d \in Drops |-> entry'[d]] /\ entry'[c] = x
      /\ \A d \in Drops : d # c => entry'[d] = entry[d]
  BY <1>1, <1>3 DEF EntryInv
<1> SUFFICES ASSUME NEW d \in open PROVE EntryFine(d)'
  BY <1>1, <1>9 DEF EntryInv
<1>10. EntryFine(d) /\ d \in Drops
  BY <1>2 DEF EntryInv
<1>11. CASE d # c
  <2>1. /\ clock' \in Nat /\ clock <= clock' /\ entry'[d] = entry[d]
        /\ threshold' = threshold /\ late \subseteq late' /\ history'[d] = history[d]
    BY <1>1, <1>2, <1>9, <1>10, <1>11
  <2>2. \A j \in Waiting(d)' : j \in Waiting(d) /\ pass'[j].now = pass[j].now
    BY DEF Waiting, PassShrinks
  <2> QED BY <1>2, <1>4, <1>10, <2>1, <2>2, EntryKept
<1>12. CASE d = c
  <2> DEFINE W == Waiting(d)'
             n == Nows'
             s == p.threshold
             R == history[d]
             Td == IF s # threshold THEN outdated \cup {d} ELSE outdated
  <2>1. W \in SUBSET Loops /\ "decisions" \notin W
    BY <1>8 DEF Waiting
  <2>2. EntryFine(d)' <=>
          /\ x # None /\ IsBoardRow(x) /\ x.at <= clock
          /\ EntryOK(d, R, x, threshold, late, V2, Td, W, n)
    <3>1. entry'[d] = x /\ Td = T2
      BY <1>9, <1>12
    <3> HIDE DEF x, V2, T2, Td
    <3> QED BY <1>1, <3>1 DEF EntryFine
  <2>3. /\ d \notin late => v = Score(R, time) \div TimeLock /\ ~Over(R, time, s)
        /\ s \in Nat
    BY <1>5, <1>6, <1>12
  <2> HIDE DEF W, n, R, V2, s
  <2>4. EntryOK(d, R, x, threshold, late, V2, Td, W, n)
    <3>1. s # threshold => d \in Td
      OBVIOUS
    <3> HIDE DEF Td
    <3> QED BY <1>3, <1>5, <1>6, <2>1, <2>3, <3>1, EntryChecked
  <2>5. x \in [vote : Int, at : Int, since : Int \cup {None}]
    BY <1>3, <1>6
  <2>6. x # None
    <3> HIDE DEF x
    <3> QED BY <2>5, ConstantsAssumption
  <2> HIDE DEF x, Td
  <2> QED BY <1>3, <1>7, <2>2, <2>4, <2>6
<1> QED BY <1>11, <1>12

(***************************************************************************)
(* All steps.                                                              *)
(***************************************************************************)
LEMMA EntriesStep ==
  ASSUME DecisionInv, VotesInv, PassInv, EntryInv, ChosenInv, PassInv',
         clock' \in Nat, clock <= clock', [Next]_vars
  PROVE  EntryInv'
<1>1. clock \in Nat /\ entry = [d \in Drops |-> entry[d]] /\ open \subseteq Drops
  BY DEF DecisionInv, ShapeOK, EntryInv
<1>2. CASE \E l \in Loops : StartPass(l)
  BY <1>2, StartEntries
<1>3. CASE \A l \in Loops : ~StartPass(l)
  <2>1. PassShrinks
    BY <1>3, PassesShrink
  <2>2. CASE \/ UNCHANGED vars \/ Tick \/ FindCandidates \/ CheckCandidate
             \/ FinishApproval
             \/ \E d \in Drops, v \in VoteValues : BeginVote(d, v)
             \/ \E l \in Loops : Crash(l)
             \/ \E l \in Loops, d \in Drops : RefreshFails(l, d)
    <3>1. UNCHANGED <<history, threshold, entry, open, late, overtaken, outdated>>
      BY <2>2 DEF vars, votes, ghosts, Tick, FindCandidates, CheckCandidate,
                  FinishApproval, BeginVote, Crash, RefreshFails
    <3> QED BY <1>1, <2>1, <3>1, EntriesKept
  <2>3. CASE Formalize \/ \E l \in Loops : FinishRefresh(l)
    <3>1. /\ open' \subseteq open /\ entry' = WithoutStale(entry, open')
          /\ UNCHANGED <<history, threshold, late, overtaken, outdated>>
      BY <2>3 DEF Formalize, FinishRefresh, votes, ghosts
    <3>2. /\ entry' = [d \in Drops |-> entry'[d]]
          /\ \A d \in open' : entry'[d] = entry[d]
      BY <1>1, <3>1 DEF WithoutStale
    <3> QED BY <1>1, <2>1, <3>1, <3>2, EntriesKept
  <2>4. CASE \E d \in Drops : CommitVote(d)
    BY <2>1, <2>4, CommitEntries
  <2>5. CASE \E t \in Thresholds : UpdateThreshold(t)
    BY <2>5, UpdateEntries
  <2>6. CASE \E l \in Loops, d \in Drops : RefreshDrop(l, d)
    BY <2>1, <2>6, RefreshEntries
  <2>7. CASE CorrectEntry
    BY <2>1, <2>7, CorrectEntries
  <2> QED BY <1>3, <2>2, <2>3, <2>4, <2>5, <2>6, <2>7 DEF Next
<1> QED BY <1>2, <1>3

-----------------------------------------------------------------------------
(* Steps that neither choose nor add a winner, and add no vote.            *)
LEMMA WinnersKept ==
  ASSUME ChosenInv, WinnersInv, UNCHANGED <<history, winners>>, late \subseteq late',
         Decisions' = Decisions \/ Decisions'.phase \notin {"formalize", "correct"}
  PROVE  ChosenInv' /\ WinnersInv'
<1>1. ChosenInv'
  BY DEF ChosenInv
<1>2. WinnersInv'
  BY DEF WinnersInv, Deserved
<1> QED BY <1>1, <1>2

(* A vote commits too late for a winner or for the drop that is about to   *)
(* be one, or it changes nothing of what has been seen.                    *)
LEMMA CommitWinners ==
  ASSUME DecisionInv, VotesInv, PassInv, ChosenInv, WinnersInv,
         NEW c \in Drops, CommitVote(c)
  PROVE  ChosenInv' /\ WinnersInv'
<1> DEFINE r == voting[c]
<1>1. /\ r # None /\ history' = [history EXCEPT ![c] = @ \cup {r}]
      /\ late' = IF TooLate(c) THEN late \cup {c} ELSE late
      /\ UNCHANGED <<winners, pass>>
  BY DEF CommitVote
<1>2. /\ IsLog(history[c]) /\ IsRow(r) /\ r.at \in Int
      /\ \A s \in history[c] : s.at < r.at
      /\ history'[c] = history[c] \cup {r}
      /\ \A k \in Drops : k # c => history'[k] = history[k]
  BY <1>1 DEF VotesInv, IsRow
<1> HIDE DEF r
<1>3. ASSUME NEW k \in Drops, NEW u \in Int, k = c => u <= r.at
      PROVE  Score(history'[k], u) = Score(history[k], u)
  <2>1. CASE k # c
    BY <1>2, <2>1
  <2>2. CASE k = c
    <3>1. Score(history[c] \cup {r}, u) = Score(history[c], u)
      BY <1>2, <1>3, <2>2, RowAdded
    <3> QED BY <1>2, <2>2, <3>1
  <2> QED BY <2>1, <2>2
<1>4. WinnersInv'
  <2> SUFFICES ASSUME NEW i \in 1 .. Len(winners) PROVE Deserved(winners[i])'
    BY <1>1 DEF WinnersInv
  <2> DEFINE w == winners[i]
  <2>1. Deserved(w) /\ w.drop \in Drops /\ w.seen \in Nat
    BY DEF WinnersInv, Deserved
  <2>2. ASSUME w.drop \notin late'
        PROVE  Score(history'[w.drop], w.seen) = Score(history[w.drop], w.seen)
    <3>1. w.drop = c => ~(r.at < w.seen)
      BY <1>1, <2>2 DEF TooLate, r
    <3>2. w.drop = c => w.seen <= r.at
      BY <1>2, <2>1, <3>1
    <3> HIDE DEF w
    <3> QED BY <1>3, <2>1, <3>2
  <2>3. w.drop \notin late' => w.drop \notin late
    BY <1>1
  <2> QED BY <1>1, <2>1, <2>2, <2>3 DEF Deserved, Over
<1>5. ChosenInv'
  <2> DEFINE p == pass["decisions"]
             d == Min(p.todo)
             time == Min({p.now, p.next})
  <2>1. Decisions' = p /\ Decisions = p
    BY <1>1 DEF Decisions
  <2> SUFFICES ASSUME p.phase \in {"formalize", "correct"}, d \notin late'
               PROVE  /\ p.vote = Score(history'[d], time) \div TimeLock
                      /\ p.phase = "formalize" <=> Over(history'[d], time, p.threshold)
    BY <2>1 DEF ChosenInv
  <2>2. d \in Drops /\ time \in Nat /\ time <= p.now /\ p.now \in Nat
    <3>1. p.todo # {}
      BY <2>1 DEF DecisionInv, LoopOK
    <3> QED BY <2>1, <3>1, Candidate DEF PassInv, Loops
  <2>3. d \notin late
    BY <1>1
  <2>4. /\ p.vote = Score(history[d], time) \div TimeLock
        /\ p.phase = "formalize" <=> Over(history[d], time, p.threshold)
    BY <2>1, <2>3 DEF ChosenInv
  <2>5. d = c => ~(r.at < p.now)
    BY <1>1 DEF TooLate, r
  <2> HIDE DEF d, time, p
  <2>6. d = c => time <= r.at
    BY <1>2, <2>2, <2>5
  <2>7. Score(history'[d], time) = Score(history[d], time)
    BY <1>3, <2>2, <2>6
  <2> QED BY <2>4, <2>7 DEF Over
<1> QED BY <1>4, <1>5

(* Whoever is chosen is over the threshold by all votes so far, and        *)
(* whoever is left out is not.                                             *)
LEMMA CheckWinners ==
  ASSUME DecisionInv, VotesInv, PassInv, ChosenInv, WinnersInv, CheckCandidate
  PROVE  ChosenInv' /\ WinnersInv'
<1> DEFINE p == pass["decisions"]
           d == Min(p.todo)
           time == Min({p.now, p.next})
           v == LiveVote(d, time)
           y == v \div TimeLock
<1>1. /\ p.phase = "check" /\ p.todo # {} /\ UNCHANGED <<history, winners, late>>
  BY DEF CheckCandidate, NoMoreWinners, votes, ghosts
<1>2. /\ "decisions" \in Loops /\ pass = [j \in Loops |-> pass[j]] /\ Decisions = p
  BY DEF DecisionInv, ShapeOK, Loops, Decisions
<1>3. PICK f \in {"formalize", "correct"} :
        /\ f = "formalize" <=> y >= p.threshold
        /\ pass' = [pass EXCEPT !["decisions"] =
                      [phase |-> f, now |-> p.now, threshold |-> p.threshold,
                       todo |-> p.todo, next |-> p.next, slots |-> p.slots, vote |-> y]]
  BY CheckMoves
<1> DEFINE q == [phase |-> f, now |-> p.now, threshold |-> p.threshold,
                 todo |-> p.todo, next |-> p.next, slots |-> p.slots, vote |-> y]
<1>4. d \in Drops /\ time \in Nat
  BY <1>1, <1>2, Candidate
<1>5. p.threshold \in Nat
  BY <1>1, <1>2, ConstantsAssumption DEF PassInv
<1>6. IsLog(history[d])
  BY <1>4 DEF VotesInv
<1>7. v = Score(history[d], time) /\ v \in Int
  <2> DEFINE R == history[d]
             from == time - TimeLock
  <2>1. v = Weighted(States(R, from, time), time)
    BY DEF LiveVote, VoteStates, States
  <2>2. from \in Int /\ time \in Int /\ time <= time /\ from + TimeLock <= time
    BY <1>4, ConstantsAssumption
  <2> HIDE DEF R, from, v, time
  <2>3. IsLog(R)
    BY <1>6 DEF R
  <2>4. v = Score(R, time)
    BY <2>1, <2>2, <2>3, WeightedIsScore
  <2>5. Score(R, time) \in Int
    BY <2>2, <2>3, ScoreType
  <2> QED BY <2>4, <2>5 DEF R
<1>8. y \in Int /\ (y >= p.threshold <=> v >= p.threshold * TimeLock)
  <2> HIDE DEF v, p
  <2> QED BY <1>5, <1>7, FloorIsOver
<1>9. /\ y = Score(history[d], time) \div TimeLock
      /\ f = "formalize" <=> Over(history[d], time, p.threshold)
  BY <1>3, <1>7, <1>8 DEF Over
<1>10. /\ q.phase = f /\ q.todo = p.todo /\ q.now = p.now /\ q.next = p.next
       /\ q.threshold = p.threshold /\ q.vote = y
  OBVIOUS
<1>11. Decisions' = q
  <2>1. pass' = [pass EXCEPT !["decisions"] = q]
    BY <1>3
  <2> HIDE DEF q
  <2> QED BY <1>2, <2>1 DEF Decisions
<1> HIDE DEF q, y, v
<1>12. ChosenInv'
  BY <1>1, <1>8, <1>9, <1>10, <1>11 DEF ChosenInv
<1>13. WinnersInv'
  BY <1>1 DEF WinnersInv, Deserved
<1> QED BY <1>12, <1>13

(* The chosen one wins.                                                    *)
LEMMA FormalizeWinners ==
  ASSUME DecisionInv, PassInv, ChosenInv, WinnersInv, Formalize
  PROVE  ChosenInv' /\ WinnersInv'
<1> DEFINE p == pass["decisions"]
           d == Min(p.todo)
           time == Min({p.now, p.next})
           w == [drop |-> d, decided |-> p.next, seen |-> time,
                 threshold |-> p.threshold, vote |-> p.vote]
           q == [phase |-> "check", now |-> p.now, threshold |-> p.threshold,
                 todo |-> p.todo \ {d}, next |-> p.next + 1,
                 slots |-> p.slots - 1, vote |-> p.vote]
<1>1. /\ p.phase = "formalize" /\ winners' = Append(winners, w)
      /\ pass' = [pass EXCEPT !["decisions"] = q] /\ UNCHANGED <<history, late>>
  BY DEF Formalize, votes, ghosts
<1>2. Decisions = p /\ "decisions" \in Loops /\ pass = [j \in Loops |-> pass[j]]
  BY DEF Decisions, Loops, DecisionInv, ShapeOK
<1>3. d \in Drops /\ time \in Nat
  <2>1. p.todo # {}
    BY <1>1, <1>2 DEF DecisionInv, LoopOK
  <2> QED BY <1>1, <1>2, <2>1, Candidate
<1>4. d \notin late =>
        /\ Over(history[d], time, p.threshold)
        /\ p.vote = Score(history[d], time) \div TimeLock
  BY <1>1, <1>2 DEF ChosenInv
<1>5. ChosenInv'
  <2>1. q.phase = "check"
    OBVIOUS
  <2> HIDE DEF q
  <2>2. Decisions' = q
    BY <1>1, <1>2 DEF Decisions
  <2> QED BY <2>1, <2>2 DEF ChosenInv
<1>6. /\ w.drop = d /\ w.seen = time /\ w.threshold = p.threshold /\ w.vote = p.vote
  OBVIOUS
<1> HIDE DEF w, q, d, time
<1>7. /\ Len(winners) \in Nat /\ Len(winners') = Len(winners) + 1
      /\ winners'[Len(winners) + 1] = w
      /\ \A i \in 1 .. Len(winners) : winners'[i] = winners[i]
  BY <1>1, AppendFacts DEF DecisionInv, ShapeOK, IsSequence
<1>8. WinnersInv'
  <2> SUFFICES ASSUME NEW i \in 1 .. Len(winners') PROVE Deserved(winners[i])'
    BY DEF WinnersInv
  <2>1. CASE i \in 1 .. Len(winners)
    <3>1. Deserved(winners[i]) /\ winners'[i] = winners[i]
      BY <1>7, <2>1 DEF WinnersInv
    <3> QED BY <1>1, <3>1 DEF Deserved
  <2>2. CASE i = Len(winners) + 1
    <3>1. winners'[i] = w
      BY <1>7, <2>2
    <3> QED BY <1>1, <1>3, <1>4, <1>6, <3>1 DEF Deserved
  <2> QED BY <1>7, <2>1, <2>2
<1> QED BY <1>5, <1>8

(***************************************************************************)
(* All steps.                                                              *)
(***************************************************************************)
LEMMA WinnersStep ==
  ASSUME DecisionInv, VotesInv, PassInv, ChosenInv, WinnersInv, [Next]_vars
  PROVE  ChosenInv' /\ WinnersInv'
<1>1. pass = [j \in Loops |-> pass[j]] /\ Decisions = pass["decisions"]
      /\ "decisions" \in Loops
  BY DEF DecisionInv, ShapeOK, Decisions, Loops
<1>2. ASSUME NEW l \in Loops, NEW q, pass' = [pass EXCEPT ![l] = q],
             l = "decisions" => q.phase \notin {"formalize", "correct"}
      PROVE  Decisions' = Decisions \/ Decisions'.phase \notin {"formalize", "correct"}
  BY <1>1, <1>2 DEF Decisions
<1>3. Idle.phase \notin {"formalize", "correct"}
  BY DEF Idle
<1>4. CASE \/ UNCHANGED vars \/ Tick
           \/ \E d \in Drops, v \in VoteValues : BeginVote(d, v)
           \/ \E t \in Thresholds : UpdateThreshold(t)
  <2>1. UNCHANGED <<history, winners, late, pass>>
    BY <1>4 DEF vars, votes, ghosts, Tick, BeginVote, UpdateThreshold
  <2>2. Decisions' = Decisions
    BY <2>1 DEF Decisions
  <2> QED BY <2>1, <2>2, WinnersKept
<1>5. ASSUME NEW l \in Loops, StartPass(l) PROVE ChosenInv' /\ WinnersInv'
  <2> DEFINE T == {d \in Drops : NeedsRefresh(d)}
             q == [phase |-> "refresh", now |-> clock, threshold |-> threshold,
                   todo |-> T, next |-> 0, slots |-> 0, vote |-> 0]
  <2>1. UNCHANGED <<history, winners, late>> /\ pass' = [pass EXCEPT ![l] = q]
    BY <1>5 DEF StartPass, votes, ghosts
  <2>2. q.phase \notin {"formalize", "correct"}
    OBVIOUS
  <2> HIDE DEF q
  <2>3. Decisions' = Decisions \/ Decisions'.phase \notin {"formalize", "correct"}
    BY <1>2, <2>1, <2>2
  <2> QED BY <2>1, <2>3, WinnersKept
<1>6. ASSUME NEW l \in Loops, FinishRefresh(l) \/ Crash(l)
      PROVE  ChosenInv' /\ WinnersInv'
  <2> DEFINE q == [Idle EXCEPT !.phase = "approve"]
  <2>1. q.phase \notin {"formalize", "correct"}
    BY DEF Idle
  <2>2. /\ UNCHANGED <<history, winners, late>>
        /\ pass' = [pass EXCEPT ![l] = q] \/ pass' = [pass EXCEPT ![l] = Idle]
    BY <1>6 DEF FinishRefresh, Crash, votes, ghosts
  <2> HIDE DEF q
  <2>3. Decisions' = Decisions \/ Decisions'.phase \notin {"formalize", "correct"}
    BY <1>2, <1>3, <2>1, <2>2
  <2> QED BY <2>2, <2>3, WinnersKept
<1>7. ASSUME NEW l \in Loops, NEW d \in Drops, RefreshDrop(l, d) \/ RefreshFails(l, d)
      PROVE  ChosenInv' /\ WinnersInv'
  <2> DEFINE T == pass[l].todo \ {d}
             q == [pass[l] EXCEPT !.todo = T]
  <2>1. /\ UNCHANGED <<history, winners, late>> /\ pass[l].phase = "refresh"
        /\ pass' = [pass EXCEPT ![l] = q]
    BY <1>7 DEF RefreshDrop, RefreshFails, votes, ghosts
  <2> HIDE DEF T
  <2>2. q.phase \notin {"formalize", "correct"}
    BY <2>1, PassUpdates DEF DecisionInv, ShapeOK
  <2> HIDE DEF q
  <2>3. Decisions' = Decisions \/ Decisions'.phase \notin {"formalize", "correct"}
    BY <1>2, <2>1, <2>2
  <2> QED BY <2>1, <2>3, WinnersKept
<1>8. CASE FindCandidates
  <2> DEFINE T == {d \in Drops : IsCandidate(d)}
             n == Max({clock, LatestDecision + 1})
             q == [phase |-> "check", now |-> clock, threshold |-> threshold,
                   todo |-> T, next |-> n, slots |-> MaxWinners - Len(winners),
                   vote |-> 0]
  <2>1. UNCHANGED <<history, winners, late>> /\ pass' = [pass EXCEPT !["decisions"] = q]
    BY <1>8 DEF FindCandidates, votes, ghosts
  <2>2. q.phase \notin {"formalize", "correct"}
    OBVIOUS
  <2> HIDE DEF q
  <2>3. Decisions' = Decisions \/ Decisions'.phase \notin {"formalize", "correct"}
    BY <1>1, <1>2, <2>1, <2>2
  <2> QED BY <2>1, <2>3, WinnersKept
<1>9. CASE FinishApproval
  <2>1. UNCHANGED <<history, winners, late>> /\ pass' = [pass EXCEPT !["decisions"] = Idle]
    BY <1>9 DEF FinishApproval, votes, ghosts
  <2>2. Decisions' = Decisions \/ Decisions'.phase \notin {"formalize", "correct"}
    BY <1>1, <1>2, <1>3, <2>1
  <2> QED BY <2>1, <2>2, WinnersKept
<1>10. CASE CorrectEntry
  <2> DEFINE p == pass["decisions"]
             T == p.todo \ {Min(p.todo)}
             q == [phase |-> "check", now |-> p.now, threshold |-> p.threshold,
                   todo |-> T, next |-> p.next, slots |-> p.slots, vote |-> 0]
  <2>1. UNCHANGED <<history, winners, late>> /\ pass' = [pass EXCEPT !["decisions"] = q]
    BY <1>10 DEF CorrectEntry, votes
  <2>2. q.phase \notin {"formalize", "correct"}
    OBVIOUS
  <2> HIDE DEF q
  <2>3. Decisions' = Decisions \/ Decisions'.phase \notin {"formalize", "correct"}
    BY <1>1, <1>2, <2>1, <2>2
  <2> QED BY <2>1, <2>3, WinnersKept
<1> QED BY <1>4, <1>5, <1>6, <1>7, <1>8, <1>9, <1>10, CommitWinners, CheckWinners,
           FormalizeWinners DEF Next

(* No vote but the 0 of the creation, an entry at time 0 for every drop,   *)
(* and nobody at work.                                                     *)
LEMMA BoardInit == Init => BoardInv
<1> SUFFICES ASSUME Init PROVE BoardInv
  OBVIOUS
<1>1. DecisionInv
  BY InitInv
<1>2. /\ clock = 0 /\ threshold = InitialThreshold /\ open = Drops
      /\ history = [d \in Drops |-> {[at |-> 0, votes |-> 0]}]
      /\ voting = [d \in Drops |-> None]
      /\ entry = [d \in Drops |-> [vote |-> 0, at |-> 0, since |-> None]]
      /\ winners = <<>> /\ pass = [l \in Loops |-> Idle]
      /\ late = {} /\ overtaken = {} /\ outdated = {}
  BY DEF Init
<1>3. Idle.phase = "idle" /\ Idle.now = 0 /\ "decisions" \in Loops
  BY DEF Idle, Loops
<1> DEFINE r0 == [at |-> 0, votes |-> 0]
<1>4. IsLog({r0}) /\ {r0} # {}
      /\ \A r \in {r0} : 0 <= r.at /\ r.at <= 0 /\ r.votes \in VoteValues
  <2>1. IsRow(r0) /\ r0.at = 0 /\ r0.votes \in VoteValues
    BY ConstantsAssumption DEF IsRow
  <2>2. IsFiniteSet({r0})
    BY FS_Singleton
  <2> HIDE DEF r0
  <2> QED BY <2>1, <2>2 DEF IsLog
<1>5. VotesInv
  <2> HIDE DEF r0
  <2>1. history = [d \in Drops |-> {r0}]
    BY <1>2 DEF r0
  <2> QED BY <1>2, <1>4, <2>1 DEF VotesInv
<1>6. PassInv
  BY <1>2, <1>3, ConstantsAssumption DEF PassInv
<1>7. EntryInv
  <2> SUFFICES ASSUME NEW d \in open PROVE EntryFine(d)
    BY <1>2 DEF EntryInv
  <2> DEFINE x == [vote |-> 0, at |-> 0, since |-> None]
  <2>1. entry[d] = x /\ history[d] = {r0} /\ threshold \in Nat \ {0}
    BY <1>2, ConstantsAssumption
  <2>2. IsBoardRow(x) /\ x.at = 0 /\ x # None
    <3>1. x \in [vote : Int, at : Int, since : Int \cup {None}]
      OBVIOUS
    <3> QED BY <3>1, ConstantsAssumption DEF IsBoardRow
  <2>3. \A l \in Loops : Nows[l] \in Nat
    BY <1>2, <1>3 DEF Nows
  <2> DEFINE R == {r0}
             z == 0
  <2>4. z \in Int /\ IsLog(R) /\ \A r \in R : 0 <= r.at
    BY <1>4
  <2> HIDE DEF R, z
  <2>5. EntryOK(d, R, [vote |-> z, at |-> 0, since |-> None], threshold, late,
                overtaken, outdated, Waiting(d), Nows)
    BY <2>1, <2>3, <2>4, EntryCleared
  <2> HIDE DEF x
  <2>6. EntryOK(d, history[d], x, threshold, late, overtaken, outdated, Waiting(d), Nows)
    BY <2>1, <2>5 DEF R, x, z
  <2> QED BY <1>2, <2>1, <2>2, <2>6 DEF EntryFine
<1>8. ChosenInv
  BY <1>2, <1>3 DEF ChosenInv, Decisions
<1>9. WinnersInv
  BY <1>2 DEF WinnersInv
<1> QED BY <1>1, <1>5, <1>6, <1>7, <1>8, <1>9 DEF BoardInv

(* The invariant is inductive.                                             *)
LEMMA BoardStep == BoardInv /\ [Next]_vars => BoardInv'
<1> SUFFICES ASSUME BoardInv, [Next]_vars PROVE BoardInv'
  OBVIOUS
<1>1. DecisionInv /\ VotesInv /\ PassInv /\ EntryInv /\ ChosenInv /\ WinnersInv
  BY DEF BoardInv
<1>2. DecisionInv'
  BY <1>1, StepKeepsInv
<1>3. VotesInv' /\ clock' \in Nat /\ clock <= clock'
  BY <1>1, VotesStep
<1>4. PassInv'
  BY <1>1, <1>3, PassStep
<1>5. EntryInv'
  BY <1>1, <1>2, <1>3, <1>4, EntriesStep
<1>6. ChosenInv' /\ WinnersInv'
  BY <1>1, WinnersStep
<1> QED BY <1>2, <1>3, <1>4, <1>5, <1>6 DEF BoardInv

(* It holds in every state.                                                *)
LEMMA BoardInvariant == Spec => []BoardInv
BY BoardInit, BoardStep, PTL DEF Spec

(* The weighted vote by its definition is that of the drop's log.          *)
LEMMA TrueVoteIs ==
  ASSUME NEW d, NEW u
  PROVE  /\ TrueVote(d, u) = Score(history[d], u)
         /\ \A t : IsOver(d, u, t) <=> Over(history[d], u, t)
BY DEF TrueVote, InForce, Score, Standing, IsOver, Over

(***************************************************************************)
(* WinnersAreOver: whatever has happened to its votes and its entry since  *)
(* it became a candidate, a winner is over the threshold at the time of    *)
(* the decision, unless a vote with an earlier timestamp committed after   *)
(* the drop had been looked at (createApproveDecisions computes the vote   *)
(* anew; a vote takes its timestamp before its transaction commits).       *)
(***************************************************************************)
THEOREM WinnersDeserveIt == Spec => []WinnersAreOver
<1>1. BoardInv => WinnersAreOver
  <2> SUFFICES ASSUME BoardInv, NEW i \in 1 .. Len(winners)
               PROVE  LET w == winners[i] IN
                      w.drop \notin late =>
                        /\ IsOver(w.drop, w.seen, w.threshold)
                        /\ w.vote = TrueVote(w.drop, w.seen) \div TimeLock
    BY DEF WinnersAreOver
  <2>1. Deserved(winners[i])
    BY DEF BoardInv, WinnersInv
  <2> QED BY <2>1, TrueVoteIs DEF Deserved
<1> QED BY <1>1, BoardInvariant, PTL

(***************************************************************************)
(* SinceIsExact: over_threshold_since_ms is never too early, and not too   *)
(* late unless an older refresh wrote over a later one, for votes of any   *)
(* size, any time lock and any order of the two Lambdas, votes, failures   *)
(* and changes of the settings (findOverThresholdSince, refreshDrop).      *)
(***************************************************************************)
THEOREM SinceIsRight == Spec => []SinceIsExact
<1>1. BoardInv => SinceIsExact
  <2> SUFFICES ASSUME BoardInv, NEW d \in open \ Overrated
               PROVE  LET e == entry[d] IN
                      /\ e.since # None =>
                           /\ e.since <= e.at
                           /\ \A t \in e.since .. e.at : IsOver(d, t, threshold)
                      /\ d \notin overtaken =>
                           IF e.since = None THEN ~IsOver(d, e.at, threshold)
                           ELSE e.since = 0 \/ ~IsOver(d, e.since - 1, threshold)
    BY DEF SinceIsExact
  <2>1. EntryFine(d) /\ d \notin late \cup outdated
    BY DEF BoardInv, EntryInv, Overrated
  <2>2. d \notin overtaken \/ NatVotes
    BY DEF Overrated, NatVotes
  <2>3. /\ Held(history[d], entry[d], threshold)
        /\ d \in overtaken \/ Exact(history[d], entry[d], threshold)
    BY <2>1, <2>2 DEF EntryFine, EntryOK
  <2> QED BY <2>3, TrueVoteIs DEF Held, Exact
<1> QED BY <1>1, BoardInvariant, PTL

(***************************************************************************)
(* SettledEntriesAreRight: an entry that no refresh looks at any more      *)
(* shows the weighted vote of the present, and whether it is over the      *)
(* threshold (findDropsForWeightedLeaderboardRecalculation leaves drops    *)
(* alone whose newest vote is older than the last refresh's window).       *)
(***************************************************************************)
THEOREM SettledIsRight == Spec => []SettledEntriesAreRight
<1>1. BoardInv => SettledEntriesAreRight
  <2> SUFFICES ASSUME BoardInv, NEW d \in open \ (late \cup outdated \cup overtaken),
                      ~NeedsRefresh(d)
               PROVE  /\ entry[d].vote = TrueVote(d, clock) \div TimeLock
                      /\ entry[d].since # None <=> IsOver(d, clock, threshold)
    BY DEF SettledEntriesAreRight
  <2> DEFINE R == history[d]
             e == entry[d]
  <2>1. EntryFine(d) /\ d \in Drops /\ clock \in Nat
    BY DEF BoardInv, EntryInv, DecisionInv, ShapeOK
  <2>2. /\ e # None /\ IsEntry(e) /\ e.at \in Nat /\ e.at <= clock
        /\ e.since \in Int \cup {None}
        /\ e.at = 0 \/ e.vote = Score(R, e.at) \div TimeLock
        /\ Held(R, e, threshold) /\ Exact(R, e, threshold)
    BY <2>1 DEF EntryFine, EntryOK, IsEntry
  <2>3. IsLog(R) /\ R # {} /\ \A r \in R : r.at \in Int /\ 0 <= r.at
    BY <2>1 DEF BoardInv, VotesInv, IsLog, IsRow
  <2>4. Newest(R) \in R /\ \A r \in R : r.at <= Newest(R).at
    <3> HIDE DEF R
    <3> QED BY <2>3, NewestIs
  <2>5. ~(Newest(R).at >= e.at - TimeLock)
    BY <2>2, <2>3 DEF NeedsRefresh
  <2>6. TimeLock \in Nat
    BY ConstantsAssumption
  <2> HIDE DEF R, e
  <2>7. e.at # 0 /\ \A r \in R : r.at <= e.at - TimeLock
    BY <2>2, <2>3, <2>4, <2>5, <2>6
  <2>8. Score(R, clock) = Score(R, e.at)
    BY <2>1, <2>2, <2>3, <2>7, ScoreSettles
  <2>9. e.since # None <=> Over(R, e.at, threshold)
    <3>1. CASE e.since = None
      BY <2>2, <3>1 DEF Exact
    <3>2. CASE e.since # None
      <4>1. e.since \in Int /\ e.since <= e.at
        BY <2>2, <3>2 DEF Held
      <4>2. e.at \in e.since .. e.at
        BY <2>2, <4>1
      <4> QED BY <2>2, <3>2, <4>2 DEF Held
    <3> QED BY <3>1, <3>2
  <2>10. Over(R, clock, threshold) <=> Over(R, e.at, threshold)
    BY <2>8 DEF Over
  <2> QED BY <2>2, <2>7, <2>8, <2>9, <2>10, TrueVoteIs DEF R, e
<1> QED BY <1>1, BoardInvariant, PTL

(***************************************************************************)
(* CandidatesHeld: whoever is found to be a candidate has been over the    *)
(* threshold for the minimal duration, up to its last refresh.             *)
(***************************************************************************)
THEOREM CandidatesAreRight == Spec => CandidatesHeld
<1>1. BoardInv /\ [Next]_vars =>
        [pass["decisions"].phase = "approve" /\ pass'["decisions"].phase = "check" =>
           \A d \in pass'["decisions"].todo \ Overrated :
             \A t \in clock - MinDuration .. entry[d].at :
               IsOver(d, t, threshold)]_vars
  <2> SUFFICES ASSUME BoardInv, Next, pass["decisions"].phase = "approve",
                      pass'["decisions"].phase = "check",
                      NEW d \in pass'["decisions"].todo \ Overrated,
                      NEW t \in clock - MinDuration .. entry[d].at
               PROVE  IsOver(d, t, threshold)
    OBVIOUS
  <2> DEFINE p == pass["decisions"]
             T == {k \in Drops : IsCandidate(k)}
             q == [phase |-> "check", now |-> clock, threshold |-> threshold,
                   todo |-> T, next |-> Max({clock, LatestDecision + 1}),
                   slots |-> MaxWinners - Len(winners), vote |-> 0]
  <2>1. /\ pass = [j \in Loops |-> pass[j]] /\ "decisions" \in Loops
        /\ \A j \in Loops : IsPass(pass[j])
    BY DEF BoardInv, DecisionInv, ShapeOK, Loops
  <2>2. FindCandidates
    <3>1. ASSUME NEW l \in Loops, StartPass(l) \/ FinishRefresh(l) \/ Crash(l) PROVE FALSE
      <4>1. Idle.phase = "idle" /\ [Idle EXCEPT !.phase = "approve"].phase = "approve"
        BY DEF Idle
      <4>2. \E r : pass' = [pass EXCEPT ![l] = r] /\ r.phase # "check"
        BY <3>1, <4>1 DEF StartPass, FinishRefresh, Crash
      <4> QED BY <2>1, <4>2
    <3>2. ASSUME NEW l \in Loops, NEW k \in Drops, RefreshDrop(l, k) \/ RefreshFails(l, k)
          PROVE  FALSE
      <4>1. pass[l].phase = "refresh" /\ \A j \in Loops : j # l => pass'[j] = pass[j]
        BY <2>1, <3>2 DEF RefreshDrop, RefreshFails
      <4> QED BY <2>1, <4>1
    <3>3. ~UNCHANGED pass
      OBVIOUS
    <3>4. ~Tick /\ \A k \in Drops : ~CommitVote(k) /\ \A v \in VoteValues : ~BeginVote(k, v)
      BY <3>3 DEF Tick, CommitVote, BeginVote
    <3>5. ~CheckCandidate /\ ~CorrectEntry /\ ~Formalize /\ ~FinishApproval
      BY DEF CheckCandidate, CorrectEntry, Formalize, FinishApproval
    <3>6. \A x \in Thresholds : ~UpdateThreshold(x)
      BY <3>3 DEF UpdateThreshold
    <3> QED BY <3>1, <3>2, <3>4, <3>5, <3>6 DEF Next
  <2>3. d \in T
    <3>1. pass'["decisions"] = q
      BY <2>1, <2>2 DEF FindCandidates
    <3>2. q.todo = T
      OBVIOUS
    <3> HIDE DEF q
    <3> QED BY <3>1, <3>2
  <2> DEFINE e == entry[d]
  <2>4. /\ d \in open /\ e.since # None /\ e.since + MinDuration <= clock
    BY <2>3 DEF IsCandidate
  <2>5. EntryFine(d) /\ d \notin late \cup outdated
    BY <2>4 DEF BoardInv, EntryInv, Overrated
  <2>6. d \notin overtaken \/ NatVotes
    BY DEF Overrated, NatVotes
  <2>7. IsEntry(e) /\ Held(history[d], e, threshold)
    BY <2>5, <2>6 DEF EntryFine, EntryOK
  <2>8. e.since \in Int /\ e.at \in Int /\ MinDuration \in Int /\ clock \in Int
    <3>1. MinDuration \in Int /\ clock \in Int
      BY ConstantsAssumption DEF BoardInv, DecisionInv, ShapeOK
    <3>2. e.since \in Int /\ e.at \in Int
      <4> HIDE DEF e
      <4> QED BY <2>4, <2>7 DEF IsEntry
    <3> QED BY <3>1, <3>2
  <2>9. t \in e.since .. e.at
    <3>1. t \in clock - MinDuration .. e.at
      OBVIOUS
    <3> HIDE DEF e
    <3> QED BY <2>4, <2>8, <3>1
  <2> QED BY <2>4, <2>7, <2>9, TrueVoteIs DEF Held
<1> QED BY <1>1, BoardInvariant, PTL DEF CandidatesHeld, Spec
=============================================================================
