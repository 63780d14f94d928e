--------------------------- MODULE XtdhGrantsProofs ---------------------------
(***************************************************************************)
(* Proofs about XtdhGrants, for any number of grants and of changes, any   *)
(* rates, capacities, times and length of a day.                           *)
(*                                                                         *)
(* Inv is inductive.  To what is to be shown it adds what the two writers  *)
(* that decide about promises have read and nobody has disturbed since:    *)
(*   - CutSuffices: a re-review that has read and was not overtaken will,  *)
(*     when it writes, bring the promises within the capacity;             *)
(*   - RoomForGrant: a grant about to be approved on reads that still hold *)
(*     fits under the capacity for all the time it has left;               *)
(*   - Families: at each time the rows a grant has become promise together *)
(*     no more than the grant, one of them taking the place of another.    *)
(* A step may break one of these only by saying so (overtaken, stale,      *)
(* excused, doubled), which is what those variables are for.               *)
(*                                                                         *)
(* The first half is about tables of rows and knows no state: MaxSpent     *)
(* misses no time of the span it is asked about, a re-review cuts what is  *)
(* over, all that is over and nothing else, and every change of rows is    *)
(* one operation on tables, After, that disables rows and appends others.  *)
(***************************************************************************)
EXTENDS XtdhGrants, SumTheorems, SequenceTheorems, TLAPS

-----------------------------------------------------------------------------
(* Tables of rows and sums of their rates.                                 *)

\* Rows as they are stored: those that are granted have a beginning.
Table(R) ==
  /\ R \in Seq(Row)
  /\ \A i \in DOMAIN R : R[i].status = "GRANTED" => R[i].from # None

(***************************************************************************)
(* No grant ends before it begins, but for some that began by t.  (A grant *)
(* whose end passes while it is being approved is such a one.)             *)
(***************************************************************************)
InOrder(R, t) == \A i \in Granted(R) : R[i].from < R[i].to \/ R[i].from <= t

(***************************************************************************)
(* The fields of the rows of a table.                                      *)
(***************************************************************************)
LEMMA RowFacts ==
  ASSUME NEW R, Table(R)
  PROVE  /\ DOMAIN R = 1 .. Len(R) /\ Len(R) \in Nat /\ IsFiniteSet(DOMAIN R)
         /\ \A i \in DOMAIN R :
              /\ i \in Nat /\ R[i] \in Row
              /\ R[i].rate \in Nat /\ R[i].to \in 1 .. End /\ R[i].replaced \in Nat
              /\ R[i].from \in (0 .. End) \cup {None}
              /\ R[i].status \in {"PENDING", "FAILED", "GRANTED", "DISABLED"}
<1>1. R \in Seq(Row)
  BY DEF Table
<1>2. DOMAIN R = 1 .. Len(R) /\ Len(R) \in Nat
  BY <1>1, LenProperties
<1>3. IsFiniteSet(DOMAIN R)
  BY <1>2, FS_Interval
<1>4. ASSUME NEW i \in DOMAIN R PROVE R[i] \in Row
  BY <1>1, <1>2, ElementOfSeq
<1> QED BY <1>2, <1>3, <1>4 DEF Row

(***************************************************************************)
(* The fields of its grants.                                               *)
(***************************************************************************)
LEMMA GrantedFacts ==
  ASSUME NEW R, Table(R)
  PROVE  /\ Granted(R) \subseteq DOMAIN R /\ IsFiniteSet(Granted(R))
         /\ \A i \in Granted(R) :
              R[i].from \in 0 .. End /\ R[i].to \in 1 .. End /\ R[i].rate \in Nat
<1>1. Granted(R) \subseteq DOMAIN R
  BY DEF Granted
<1>2. IsFiniteSet(Granted(R))
  BY <1>1, RowFacts, FS_Subset
<1>3. ASSUME NEW i \in Granted(R)
      PROVE  R[i].from \in 0 .. End /\ R[i].to \in 1 .. End /\ R[i].rate \in Nat
  <2>1. i \in DOMAIN R /\ R[i].status = "GRANTED"
    BY DEF Granted
  <2>2. R[i].from # None
    BY <2>1 DEF Table
  <2> QED BY <2>1, <2>2, RowFacts
<1> QED BY <1>1, <1>2, <1>3

(***************************************************************************)
(* A sum of rates is a natural number.                                     *)
(***************************************************************************)
LEMMA RatesType ==
  ASSUME NEW R, Table(R), NEW I \in SUBSET DOMAIN R
  PROVE  IsFiniteSet(I) /\ RateOf(R, I) \in Nat
<1> DEFINE f == [i \in DOMAIN R |-> R[i].rate]
<1>1. IsFiniteSet(I)
  BY RowFacts, FS_Subset
<1>2. \A i \in I : f[i] \in Nat
  BY RowFacts
<1> HIDE DEF f
<1>3. Total(f, I) \in Nat
  BY <1>1, <1>2, TotalNat
<1> QED BY <1>1, <1>3 DEF RateOf, f

(***************************************************************************)
(* Fewer rows have no greater rate.                                        *)
(***************************************************************************)
LEMMA RatesSubset ==
  ASSUME NEW R, Table(R), NEW I \in SUBSET DOMAIN R, NEW J \in SUBSET I
  PROVE  RateOf(R, J) <= RateOf(R, I)
<1> DEFINE f == [i \in DOMAIN R |-> R[i].rate]
<1>1. IsFiniteSet(I)
  BY RowFacts, FS_Subset
<1>2. \A i \in I : f[i] \in Nat
  BY RowFacts
<1> HIDE DEF f
<1>3. Total(f, J) <= Total(f, I)
  BY <1>1, <1>2, TotalSubset
<1> QED BY <1>3 DEF RateOf, f

(***************************************************************************)
(* The rate of disjoint sets of rows is the sum of their rates.            *)
(***************************************************************************)
LEMMA RatesUnion ==
  ASSUME NEW R, Table(R), NEW I \in SUBSET DOMAIN R, NEW J \in SUBSET DOMAIN R,
         I \cap J = {}
  PROVE  RateOf(R, I \cup J) = RateOf(R, I) + RateOf(R, J)
<1> DEFINE f == [i \in DOMAIN R |-> R[i].rate]
<1>1. IsFiniteSet(I) /\ IsFiniteSet(J)
  BY RowFacts, FS_Subset
<1>2. \A i \in I \cup J : f[i] \in Int
  BY RowFacts
<1> HIDE DEF f
<1>3. Total(f, I \cup J) = Total(f, I) + Total(f, J)
  BY <1>1, <1>2, TotalUnion
<1> QED BY <1>3 DEF RateOf, f

(***************************************************************************)
(* The rate of some rows and that of the others make the rate of all.      *)
(***************************************************************************)
LEMMA RatesMinus ==
  ASSUME NEW R, Table(R), NEW I \in SUBSET DOMAIN R, NEW J \in SUBSET I
  PROVE  RateOf(R, I) = RateOf(R, J) + RateOf(R, I \ J)
<1> DEFINE K == I \ J
<1>1. J \cup K = I /\ J \cap K = {} /\ J \in SUBSET DOMAIN R /\ K \in SUBSET DOMAIN R
  OBVIOUS
<1> HIDE DEF K
<1>2. RateOf(R, J \cup K) = RateOf(R, J) + RateOf(R, K)
  BY <1>1, RatesUnion
<1> QED BY <1>1, <1>2 DEF K

(***************************************************************************)
(* The rate of one row, and of none.                                       *)
(***************************************************************************)
LEMMA RatesOne ==
  ASSUME NEW R, Table(R), NEW i \in DOMAIN R
  PROVE  RateOf(R, {i}) = R[i].rate /\ RateOf(R, {}) = 0
<1> DEFINE f == [k \in DOMAIN R |-> R[k].rate]
<1>1. f[i] \in Int /\ f[i] = R[i].rate
  BY RowFacts
<1> HIDE DEF f
<1>2. Total(f, {i}) = f[i] /\ Total(f, {}) = 0
  BY <1>1, TotalSingle, TotalEmpty
<1> QED BY <1>1, <1>2 DEF RateOf, f

-----------------------------------------------------------------------------
(* The sums of the two queries.                                            *)

(***************************************************************************)
(* The times at which what is promised may change, and the two ends of     *)
(* time.                                                                   *)
(***************************************************************************)
Edges(R) == {0, End} \cup {R[i].from : i \in Granted(R)} \cup {R[i].to : i \in Granted(R)}
\* The running sum of getOverflowedGrantsWithGrantorRates at ts.
Active(R, ts) ==
  RateOf(R, {i \in Granted(R) : R[i].from <= ts})
    - RateOf(R, {i \in Granted(R) : R[i].to # End /\ R[i].to <= ts})

\* The grants under way at a time.
At(R, t) == {i \in Granted(R) : Covers(R[i], t)}

(***************************************************************************)
(* Sets of times are finite sets of integers.                              *)
(***************************************************************************)
LEMMA FiniteTimes ==
  ASSUME NEW S, S \subseteq 0 .. End PROVE IsFiniteSet(S) /\ S \subseteq Int
<1>1. IsFiniteSet(0 .. End)
  BY FS_Interval, ConstantsAssumption
<1>2. IsFiniteSet(S)
  BY <1>1, FS_Subset
<1> QED BY <1>2

(***************************************************************************)
(* What is promised at a time is the rate of the grants under way.         *)
(***************************************************************************)
LEMMA AtFacts ==
  ASSUME NEW R, Table(R), NEW t
  PROVE  /\ At(R, t) \in SUBSET DOMAIN R /\ RateAt(R, t) = RateOf(R, At(R, t))
         /\ RateAt(R, t) \in Nat
         /\ \A i : i \in At(R, t) <=> i \in Granted(R) /\ R[i].from <= t /\ t < R[i].to
<1>1. At(R, t) \in SUBSET DOMAIN R
  BY DEF At, Granted
<1>2. RateAt(R, t) = RateOf(R, At(R, t))
  BY DEF RateAt, At
<1>3. \A i : i \in At(R, t) <=> i \in Granted(R) /\ R[i].from <= t /\ t < R[i].to
  BY DEF At, Covers
<1> QED BY <1>1, <1>2, <1>3, RatesType

(***************************************************************************)
(* Edges are times, and each grant begins and ends at one.                 *)
(***************************************************************************)
LEMMA EdgesFacts ==
  ASSUME NEW R, Table(R)
  PROVE  /\ Edges(R) \subseteq 0 .. End /\ IsFiniteSet(Edges(R)) /\ 0 \in Edges(R)
         /\ End \in Edges(R)
         /\ \A i \in Granted(R) : R[i].from \in Edges(R) /\ R[i].to \in Edges(R)
<1>1. Edges(R) \subseteq 0 .. End
  BY GrantedFacts, ConstantsAssumption DEF Edges
<1>2. IsFiniteSet(Edges(R))
  BY <1>1, FiniteTimes
<1> QED BY <1>1, <1>2 DEF Edges

(***************************************************************************)
(* What getGrantorsMaxSpentTdhRateInTimeSpan returns for a span is an      *)
(* upper bound of what is promised at every time of the span, although it  *)
(* looks at its edges only.  The running sum at the last edge up to t      *)
(* counts at least the grants under way at t: those at a, plus the ones    *)
(* that have begun, minus the ones that have ended, of which each was      *)
(* counted before.                                                         *)
(***************************************************************************)
THEOREM MaxSpentBounds ==
  ASSUME NEW R, Table(R), NEW a \in 0 .. End, NEW b \in 0 .. End, InOrder(R, a),
         NEW t \in a .. b - 1
  PROVE  MaxSpent(R, a, b) \in Int /\ RateAt(R, t) <= MaxSpent(R, a, b)
<1> DEFINE G      == Granted(R)
           B      == {i \in G : Covers(R[i], a)}
           base   == RateOf(R, B)
           starts == {i \in G : a < R[i].from /\ R[i].from < b /\ a < R[i].to}
           ends   == {i \in G : R[i].to # End /\ a < R[i].to /\ R[i].to <= b /\ R[i].from < b}
           edges  == {R[i].from : i \in starts} \cup {R[i].to : i \in ends}
           running(ts) == base + RateOf(R, {i \in starts : R[i].from <= ts})
                               - RateOf(R, {i \in ends : R[i].to <= ts})
           sums   == {base} \cup {running(ts) : ts \in edges}
<1>1. MaxSpent(R, a, b) = Max(sums)
  BY DEF MaxSpent
<1>2. /\ G \subseteq DOMAIN R
      /\ \A i \in G : R[i].from \in 0 .. End /\ R[i].to \in 1 .. End
  BY GrantedFacts
<1>3. edges \subseteq 0 .. End
  BY <1>2, ConstantsAssumption
<1>4. \A I \in SUBSET G : RateOf(R, I) \in Nat
  BY <1>2, RatesType
<1>5. sums \subseteq Int /\ sums # {} /\ IsFiniteSet(sums)
  <2>1. base \in Int
    BY <1>4
  <2>2. \A ts : running(ts) \in Int
    <3> TAKE ts
    <3>1. /\ {i \in starts : R[i].from <= ts} \in SUBSET G
          /\ {i \in ends : R[i].to <= ts} \in SUBSET G
      OBVIOUS
    <3> QED BY <2>1, <3>1, <1>4
  <2> HIDE DEF base
  <2> DEFINE run == [ts \in edges |-> running(ts)]
             Image == {run[ts] : ts \in edges}
  <2>3. \A ts \in edges : run[ts] = running(ts)
    OBVIOUS
  <2>4. sums = {base} \cup Image
    BY <2>3
  <2>5. IsFiniteSet(edges)
    BY <1>3, FiniteTimes
  <2> HIDE DEF run, edges
  <2>6. IsFiniteSet(Image)
    BY <2>5, ImageIsFinite
  <2> HIDE DEF Image
  <2>7. IsFiniteSet({base} \cup Image)
    BY <2>6, FS_Singleton, FS_Union
  <2>8. sums \subseteq Int
    BY <2>1, <2>2
  <2> QED BY <2>4, <2>7, <2>8
<1>6. \A x \in sums : x <= MaxSpent(R, a, b)
  BY <1>1, <1>5, MaxOfInts
<1>7. MaxSpent(R, a, b) \in Int
  BY <1>1, <1>5, MaxOfInts
<1> DEFINE past == {e \in edges : e <= t}
<1>8. CASE past = {}
  <2>1. At(R, t) \subseteq B
    <3> SUFFICES ASSUME NEW i \in At(R, t) PROVE i \in B
      OBVIOUS
    <3>1. i \in G /\ R[i].from <= t /\ t < R[i].to
      BY AtFacts
    <3>2. R[i].from <= a
      <4> SUFFICES ASSUME ~(R[i].from <= a) PROVE FALSE
        OBVIOUS
      <4>1. i \in starts
        BY <3>1, <1>2
      <4>2. R[i].from \in past
        BY <4>1, <3>1
      <4> QED BY <4>2, <1>8
    <3> QED BY <3>1, <3>2, <1>2 DEF Covers
  <2>2. RateOf(R, At(R, t)) <= RateOf(R, B)
    <3>1. B \in SUBSET DOMAIN R
      BY <1>2
    <3> HIDE DEF B
    <3> QED BY <2>1, <3>1, RatesSubset
  <2>3. base \in sums /\ base \in Nat
    BY <1>4
  <2>4. RateAt(R, t) = RateOf(R, At(R, t)) /\ RateAt(R, t) \in Nat
    BY AtFacts
  <2>5. base <= MaxSpent(R, a, b)
    BY <2>3, <1>6
  <2> HIDE DEF B
  <2> QED BY <2>2, <2>3, <2>4, <2>5, <1>7
<1>9. CASE past # {}
  <2> DEFINE e == Max(past)
             S == {i \in starts : R[i].from <= e}
             E == {i \in ends : R[i].to <= e}
             U == B \cup S
  <2>1. e \in past /\ \A x \in past : x <= e
    <3>1. past \subseteq 0 .. End
      BY <1>3
    <3> HIDE DEF past
    <3>2. IsFiniteSet(past) /\ past \subseteq Int
      BY <3>1, FiniteTimes
    <3> QED BY <1>9, <3>2, MaxOfInts
  <2> HIDE DEF e
  <2>2. e \in edges /\ e <= t /\ e \in 0 .. End
    BY <2>1, <1>3
  <2>3. running(e) = base + RateOf(R, S) - RateOf(R, E)
    OBVIOUS
  <2>4. /\ B \cap S = {} /\ B \in SUBSET DOMAIN R /\ S \in SUBSET DOMAIN R
        /\ U \in SUBSET DOMAIN R
    BY <1>2 DEF Covers
  <2>5. E \in SUBSET U
    <3> SUFFICES ASSUME NEW i \in E PROVE i \in U
      OBVIOUS
    <3>1. i \in G /\ a < R[i].to /\ R[i].to <= e /\ R[i].from < b
      OBVIOUS
    <3>2. CASE R[i].from <= a
      BY <3>1, <3>2 DEF Covers
    <3>3. CASE ~(R[i].from <= a)
      <4>1. R[i].from < R[i].to
        BY <3>1, <3>3 DEF InOrder
      <4>2. i \in starts
        BY <3>1, <3>3, <1>2
      <4>3. R[i].from <= e
        BY <3>1, <4>1, <1>2, <2>2
      <4> QED BY <4>2, <4>3
    <3> QED BY <3>2, <3>3
  <2>6. At(R, t) \in SUBSET (U \ E)
    <3> SUFFICES ASSUME NEW i \in At(R, t) PROVE i \in U \ E
      OBVIOUS
    <3>1. i \in G /\ R[i].from <= t /\ t < R[i].to
      BY AtFacts
    <3>2. i \notin E
      BY <3>1, <1>2, <2>2
    <3>3. CASE R[i].from <= a
      BY <3>1, <3>2, <3>3, <1>2 DEF Covers
    <3>4. CASE ~(R[i].from <= a)
      <4>1. i \in starts
        BY <3>1, <3>4, <1>2
      <4>2. R[i].from \in past
        BY <4>1, <3>1
      <4>3. R[i].from <= e
        BY <4>2, <2>1
      <4> QED BY <4>1, <4>3, <3>2
    <3> QED BY <3>3, <3>4
  <2>7. running(e) \in sums
    BY <2>2
  <2>8. U \ E \in SUBSET DOMAIN R
    BY <2>4
  <2> HIDE DEF S, E, B, sums, running, past
  <2>9. RateOf(R, U) = RateOf(R, B) + RateOf(R, S)
    BY <2>4, RatesUnion
  <2> HIDE DEF U
  <2>10. RateOf(R, U) = RateOf(R, E) + RateOf(R, U \ E)
    BY <2>4, <2>5, RatesMinus
  <2>11. RateOf(R, At(R, t)) <= RateOf(R, U \ E)
    BY <2>6, <2>8, RatesSubset
  <2>12. RateOf(R, U) \in Nat /\ RateOf(R, B) \in Nat /\ RateOf(R, S) \in Nat
         /\ RateOf(R, E) \in Nat /\ RateOf(R, U \ E) \in Nat
    BY <2>4, <2>5, <2>8, RatesType
  <2>13. running(e) = RateOf(R, U \ E)
    BY <2>3, <2>9, <2>10, <2>12
  <2>14. RateAt(R, t) = RateOf(R, At(R, t)) /\ RateAt(R, t) \in Nat
    BY AtFacts
  <2>15. RateOf(R, U \ E) <= MaxSpent(R, a, b)
    BY <2>7, <2>13, <1>6
  <2> QED BY <2>11, <2>12, <2>14, <2>15, <1>7
<1> QED BY <1>7, <1>8, <1>9

(***************************************************************************)
(* Between two edges the running sum of the re-review's query is what is   *)
(* promised.                                                               *)
(***************************************************************************)
LEMMA ActiveIsRate ==
  ASSUME NEW R, Table(R), NEW e \in 0 .. End - 1, NEW t \in 0 .. End - 1, e <= t,
         \A x \in Edges(R) : x <= t => x <= e, InOrder(R, t)
  PROVE  Active(R, e) = RateAt(R, t)
<1> DEFINE F == {i \in Granted(R) : R[i].from <= e}
           T == {i \in Granted(R) : R[i].to # End /\ R[i].to <= e}
<1>1. \A i \in Granted(R) : /\ R[i].from \in 0 .. End /\ R[i].to \in 1 .. End
                            /\ R[i].from <= t <=> R[i].from <= e
                            /\ R[i].to <= t <=> R[i].to <= e
  BY GrantedFacts, EdgesFacts
<1>2. T \in SUBSET F
  BY <1>1 DEF InOrder
<1>3. At(R, t) = F \ T
  BY <1>1, AtFacts, ConstantsAssumption
<1>4. F \in SUBSET DOMAIN R /\ T \in SUBSET DOMAIN R
  BY GrantedFacts
<1>5. Active(R, e) = RateOf(R, F) - RateOf(R, T)
  BY DEF Active
<1>6. RateAt(R, t) = RateOf(R, At(R, t))
  BY AtFacts
<1> HIDE DEF F, T
<1>7. RateOf(R, F) = RateOf(R, T) + RateOf(R, F \ T)
  BY <1>2, <1>4, RatesMinus
<1>8. F \ T \in SUBSET DOMAIN R
  BY <1>4
<1>9. RateOf(R, F) \in Nat /\ RateOf(R, T) \in Nat /\ RateOf(R, F \ T) \in Nat
  BY <1>4, <1>8, RatesType
<1> QED BY <1>3, <1>5, <1>6, <1>7, <1>9

(***************************************************************************)
(* Only grants overflow.                                                   *)
(***************************************************************************)
LEMMA OverflowedGranted ==
  ASSUME NEW R, NEW cap
  PROVE  Overflowed(R, cap) \subseteq Granted(R)
BY DEF Overflowed

(***************************************************************************)
(* There is a last edge up to each time.                                   *)
(***************************************************************************)
LEMMA LastEdge ==
  ASSUME NEW R, Table(R), NEW t \in 0 .. End - 1
  PROVE  \E e \in Edges(R) : e <= t /\ \A x \in Edges(R) : x <= t => x <= e
<1> DEFINE past == {e \in Edges(R) : e <= t}
<1>1. past \subseteq 0 .. End /\ 0 \in past
  BY EdgesFacts
<1>2. IsFiniteSet(past) /\ past \subseteq Int
  BY <1>1, FiniteTimes
<1> HIDE DEF past
<1>3. Max(past) \in past /\ \A x \in past : x <= Max(past)
  BY <1>1, <1>2, MaxOfInts
<1> QED BY <1>3 DEF past

\* The first edge after e.
FollowingEdge(R, e) == Min({x \in Edges(R) : x > e})

(***************************************************************************)
(* There is a first edge after each, but the last.                         *)
(***************************************************************************)
LEMMA NextEdge ==
  ASSUME NEW R, Table(R), NEW e \in Edges(R), e # End
  PROVE  /\ FollowingEdge(R, e) \in Edges(R) /\ FollowingEdge(R, e) > e
         /\ \A x \in Edges(R) : x > e => FollowingEdge(R, e) <= x
<1> DEFINE future == {x \in Edges(R) : x > e}
<1>1. future \subseteq 0 .. End /\ End \in future
  BY EdgesFacts
<1>2. IsFiniteSet(future) /\ future \subseteq Int
  BY <1>1, FiniteTimes
<1>3. FollowingEdge(R, e) = Min(future)
  BY DEF FollowingEdge
<1> HIDE DEF future
<1>4. Min(future) \in future /\ \A x \in future : Min(future) <= x
  BY <1>1, <1>2, MinOfInts
<1> QED BY <1>3, <1>4 DEF future

(***************************************************************************)
(* Overflowed in these words.                                              *)
(***************************************************************************)
LEMMA OverflowedIs ==
  ASSUME NEW R, NEW cap
  PROVE  Overflowed(R, cap) =
           {i \in Granted(R) : \E e \in Edges(R) :
              /\ e # End /\ Active(R, e) > cap
              /\ R[i].from < FollowingEdge(R, e) /\ e < R[i].to}
BY DEF Overflowed, FollowingEdge, Edges, Active

(***************************************************************************)
(* Where too much is promised, every grant under way is found.             *)
(***************************************************************************)
LEMMA OverflowedMeets ==
  ASSUME NEW R, Table(R), NEW cap \in Nat, NEW t \in 0 .. End - 1, InOrder(R, t),
         RateAt(R, t) > cap
  PROVE  At(R, t) \subseteq Overflowed(R, cap)
<1> SUFFICES ASSUME NEW i \in At(R, t) PROVE i \in Overflowed(R, cap)
  OBVIOUS
<1>1. i \in Granted(R) /\ R[i].from <= t /\ t < R[i].to
  BY AtFacts
<1>2. PICK e \in Edges(R) : e <= t /\ \A x \in Edges(R) : x <= t => x <= e
  BY LastEdge
<1>3. e \in 0 .. End - 1
  BY <1>2, EdgesFacts, ConstantsAssumption
<1>4. Active(R, e) > cap
  BY <1>2, <1>3, ActiveIsRate
<1>5. FollowingEdge(R, e) \in Edges(R) /\ FollowingEdge(R, e) > e
  BY <1>3, NextEdge
<1>6. FollowingEdge(R, e) > t
  BY <1>2, <1>3, <1>5, EdgesFacts
<1>7. R[i].from < FollowingEdge(R, e) /\ e < R[i].to
  BY <1>1, <1>2, <1>3, <1>5, <1>6, GrantedFacts, EdgesFacts
<1> QED BY <1>1, <1>3, <1>4, <1>7, OverflowedIs

(***************************************************************************)
(* No grant is found that meets no such time.                              *)
(***************************************************************************)
LEMMA OverflowedOnly ==
  ASSUME NEW R, Table(R), \A i \in Granted(R) : R[i].from < R[i].to, NEW cap \in Nat,
         NEW i \in Overflowed(R, cap)
  PROVE  \E t \in 0 .. End - 1 : RateAt(R, t) > cap /\ i \in At(R, t)
<1>1. PICK e \in Edges(R) : /\ i \in Granted(R) /\ e # End /\ Active(R, e) > cap
                            /\ R[i].from < FollowingEdge(R, e) /\ e < R[i].to
  BY OverflowedIs
<1>2. e \in 0 .. End - 1
  BY <1>1, EdgesFacts, ConstantsAssumption
<1>3. Active(R, e) = RateAt(R, e)
  BY <1>2, ActiveIsRate DEF InOrder
<1>4. R[i].from <= e
  BY <1>1, <1>2, NextEdge, GrantedFacts, EdgesFacts
<1>5. i \in At(R, e)
  BY <1>1, <1>4, AtFacts
<1> QED BY <1>1, <1>2, <1>3, <1>5

-----------------------------------------------------------------------------
(* Segments and pieces: what a row is cut to, moment by moment.            *)

(***************************************************************************)
(* Scaling rounds down: n shares scaled by c / n stay within c.            *)
(***************************************************************************)
LEMMA ScaledDown ==
  ASSUME NEW r \in Nat, NEW c \in Nat, NEW n \in Nat, c < n
  PROVE  LET q == (r * c) \div n IN q \in Nat /\ q <= r /\ n * q <= r * c
<1> DEFINE a == r * c
           q == a \div n
<1>1. a \in Nat
  OBVIOUS
<1> HIDE DEF a
<1>2. q \in Int /\ n * q <= a /\ a < n * q + n
  BY <1>1
<1> HIDE DEF q
<1>3. q >= 0
  <2>1. ASSUME q <= 0 - 1 PROVE FALSE
    <3>1. n * q <= 0 - n
      BY <1>2, <2>1
    <3> QED BY <1>1, <1>2, <3>1
  <2> QED BY <1>2, <2>1
<1>4. q <= r
  <2>1. ASSUME q >= r + 1 PROVE FALSE
    <3>1. n * q >= n * (r + 1)
      BY <1>2, <2>1
    <3>2. n * (r + 1) = n * r + n
      OBVIOUS
    <3>3. n * r >= r * c
      OBVIOUS
    <3> QED BY <1>1, <1>2, <3>1, <3>2, <3>3 DEF a
  <2> QED BY <1>2, <2>1
<1> QED BY <1>2, <1>3, <1>4 DEF a, q

(***************************************************************************)
(* Neighbours are points, in order, with none between them.                *)
(***************************************************************************)
LEMMA NeighboursFacts ==
  ASSUME NEW P, P \subseteq 0 .. End, NEW s \in Neighbours(P)
  PROVE  /\ s = <<s[1], s[2]>> /\ s[1] \in P /\ s[2] \in P /\ s[1] < s[2]
         /\ \A p \in P : p <= s[1] \/ s[2] <= p
BY DEF Neighbours

(***************************************************************************)
(* A time between two points lies between two neighbours.                  *)
(***************************************************************************)
LEMMA NeighboursAround ==
  ASSUME NEW P, P \subseteq 0 .. End, NEW t \in 0 .. End,
         NEW a \in P, a <= t, NEW b \in P, t < b
  PROVE  \E s \in Neighbours(P) : s[1] <= t /\ t < s[2]
<1> DEFINE lower == {p \in P : p <= t}
           upper == {p \in P : t < p}
           s == <<Max(lower), Min(upper)>>
<1>1. IsFiniteSet(lower) /\ lower \subseteq Int /\ IsFiniteSet(upper) /\ upper \subseteq Int
      /\ lower # {} /\ upper # {}
  BY FiniteTimes
<1>2. Max(lower) \in lower /\ \A x \in lower : x <= Max(lower)
  <2> HIDE DEF lower
  <2> QED BY <1>1, MaxOfInts
<1>3. Min(upper) \in upper /\ \A x \in upper : Min(upper) <= x
  <2> HIDE DEF upper
  <2> QED BY <1>1, MinOfInts
<1>4. s \in P \X P /\ s[1] = Max(lower) /\ s[2] = Min(upper)
  BY <1>2, <1>3
<1>5. s[1] \in lower /\ s[2] \in upper
  BY <1>2, <1>3, <1>4
<1>6. s[1] <= t /\ t < s[2] /\ s[1] \in 0 .. End /\ s[2] \in 0 .. End
  BY <1>5
<1>7. \A p \in P : p <= s[1] \/ s[2] <= p
  <2> TAKE p \in P
  <2>1. p \in lower \/ p \in upper
    OBVIOUS
  <2> QED BY <2>1, <1>2, <1>3, <1>4
<1> HIDE DEF s
<1>8. s \in Neighbours(P)
  BY <1>4, <1>6, <1>7 DEF Neighbours
<1> QED BY <1>6, <1>8

(***************************************************************************)
(* Two pairs of neighbours are the same or do not overlap.                 *)
(***************************************************************************)
LEMMA NeighboursApart ==
  ASSUME NEW P, P \subseteq 0 .. End, NEW s \in Neighbours(P), NEW u \in Neighbours(P)
  PROVE  s = u \/ s[2] <= u[1] \/ u[2] <= s[1]
<1>1. s = <<s[1], s[2]>> /\ s[1] \in P /\ s[2] \in P /\ s[1] < s[2]
  BY NeighboursFacts
<1>2. u = <<u[1], u[2]>> /\ u[1] \in P /\ u[2] \in P /\ u[1] < u[2]
  BY NeighboursFacts
<1>3. (u[1] <= s[1] \/ s[2] <= u[1]) /\ (u[2] <= s[1] \/ s[2] <= u[2])
  BY <1>2, NeighboursFacts
<1>4. (s[1] <= u[1] \/ u[2] <= s[1]) /\ (s[2] <= u[1] \/ u[2] <= s[2])
  BY <1>1, NeighboursFacts
<1>5. ASSUME ~(s[2] <= u[1]), ~(u[2] <= s[1]) PROVE s[1] = u[1] /\ s[2] = u[2]
  BY <1>1, <1>2, <1>3, <1>4, <1>5
<1> QED BY <1>1, <1>2, <1>5

(***************************************************************************)
(* A row is never cut to more than it promised.                            *)
(***************************************************************************)
LEMMA ScaledFacts ==
  ASSUME NEW R, Table(R), NEW I \in SUBSET Granted(R), NEW cap \in Nat, NEW i \in I,
         NEW t
  PROVE  /\ Scaled(R, I, cap, i, t) \in Nat /\ Scaled(R, I, cap, i, t) <= R[i].rate
         /\ {j \in I : Covers(R[j], t)} \in SUBSET DOMAIN R
         /\ RateOf(R, {j \in I : Covers(R[j], t)}) \in Nat
<1> DEFINE J == {j \in I : Covers(R[j], t)}
           total == RateOf(R, J)
<1>1. J \in SUBSET DOMAIN R
  BY GrantedFacts
<1>2. total \in Nat
  <2> HIDE DEF J
  <2> QED BY <1>1, RatesType
<1>3. R[i].rate \in Nat
  BY GrantedFacts
<1>4. Scaled(R, I, cap, i, t) = IF total <= cap THEN R[i].rate ELSE (R[i].rate * cap) \div total
  BY DEF Scaled
<1> HIDE DEF total
<1>5. CASE total <= cap
  BY <1>1, <1>2, <1>3, <1>4, <1>5 DEF total
<1>6. CASE ~(total <= cap)
  <2>1. cap < total
    BY <1>2, <1>6
  <2>2. /\ (R[i].rate * cap) \div total \in Nat
        /\ (R[i].rate * cap) \div total <= R[i].rate
    BY <1>2, <1>3, <2>1, ScaledDown
  <2> QED BY <1>1, <1>2, <1>4, <1>6, <2>2 DEF total
<1> QED BY <1>5, <1>6

\* Ends of the overflowed rows within row i.
Points(R, I, i) ==
  {p \in {R[j].from : j \in I} \cup {R[j].to : j \in I} : R[i].from <= p /\ p <= R[i].to}
(***************************************************************************)
(* Where the pieces of row i begin: at its own beginning and wherever it   *)
(* is cut to another rate.                                                 *)
(***************************************************************************)
Starts(R, I, cap, i) ==
  {s[1] : s \in {u \in Segments(R, I, i) :
     u[1] = R[i].from \/ Scaled(R, I, cap, i, u[1]) # Scaled(R, I, cap, i, u[1] - 1)}}

(***************************************************************************)
(* The ends of the overflowed rows within a row are between its own.       *)
(***************************************************************************)
LEMMA PointsFacts ==
  ASSUME NEW R, Table(R), NEW I \in SUBSET Granted(R), NEW i \in I,
         R[i].from < R[i].to
  PROVE  /\ Points(R, I, i) \subseteq 0 .. End
         /\ Points(R, I, i) \subseteq R[i].from .. R[i].to
         /\ R[i].from \in Points(R, I, i) /\ R[i].to \in Points(R, I, i)
         /\ R[i].from \in 0 .. End /\ R[i].to \in 1 .. End /\ R[i].rate \in Nat
         /\ \A j \in I : /\ R[j].from \in 0 .. End /\ R[j].to \in 1 .. End
                         /\ R[i].from <= R[j].from /\ R[j].from <= R[i].to => R[j].from \in Points(R, I, i)
                         /\ R[i].from <= R[j].to /\ R[j].to <= R[i].to => R[j].to \in Points(R, I, i)
<1>1. \A j \in I : R[j].from \in 0 .. End /\ R[j].to \in 1 .. End /\ R[j].rate \in Nat
  BY GrantedFacts
<1>2. Points(R, I, i) \subseteq 0 .. End
  BY <1>1, ConstantsAssumption DEF Points
<1>3. Points(R, I, i) \subseteq R[i].from .. R[i].to
  BY <1>1, <1>2 DEF Points
<1> QED BY <1>1, <1>2, <1>3 DEF Points

(***************************************************************************)
(* What a row is cut to changes at such ends only.                         *)
(***************************************************************************)
LEMMA ScaledStays ==
  ASSUME NEW R, Table(R), NEW I \in SUBSET Granted(R), NEW cap \in Nat, NEW i \in I,
         R[i].from < R[i].to, NEW t \in R[i].from + 1 .. R[i].to - 1, t \notin Points(R, I, i)
  PROVE  Scaled(R, I, cap, i, t) = Scaled(R, I, cap, i, t - 1)
<1>0. R[i].from \in 0 .. End /\ R[i].to \in 1 .. End
  BY PointsFacts
<1>1. ASSUME NEW j \in I PROVE Covers(R[j], t) <=> Covers(R[j], t - 1)
  <2>1. /\ R[j].from \in 0 .. End /\ R[j].to \in 1 .. End
        /\ R[i].from <= R[j].from /\ R[j].from <= R[i].to => R[j].from \in Points(R, I, i)
        /\ R[i].from <= R[j].to /\ R[j].to <= R[i].to => R[j].to \in Points(R, I, i)
    BY PointsFacts
  <2>2. R[j].from # t /\ R[j].to # t
    BY <1>0, <2>1
  <2> QED BY <1>0, <2>1, <2>2 DEF Covers
<1>2. {j \in I : Covers(R[j], t)} = {j \in I : Covers(R[j], t - 1)}
  BY <1>1
<1> QED BY <1>2 DEF Scaled

(***************************************************************************)
(* Pieces begin at the beginning of the row and exactly where the rate     *)
(* changes.                                                                *)
(***************************************************************************)
LEMMA StartsFacts ==
  ASSUME NEW R, Table(R), NEW I \in SUBSET Granted(R), NEW cap \in Nat, NEW i \in I,
         R[i].from < R[i].to
  PROVE  /\ R[i].from \in 0 .. End /\ R[i].to \in 1 .. End
         /\ Starts(R, I, cap, i) \subseteq R[i].from .. R[i].to - 1
         /\ R[i].from \in Starts(R, I, cap, i)
         /\ \A t \in R[i].from + 1 .. R[i].to - 1 :
              t \in Starts(R, I, cap, i)
                <=> Scaled(R, I, cap, i, t) # Scaled(R, I, cap, i, t - 1)
<1> DEFINE P == Points(R, I, i)
           from == R[i].from
           to == R[i].to
           at(t) == Scaled(R, I, cap, i, t)
<1>1. /\ P \subseteq 0 .. End /\ P \subseteq from .. to /\ from \in P /\ to \in P
      /\ from \in 0 .. End /\ to \in 1 .. End
  BY PointsFacts
<1>2. Segments(R, I, i) = Neighbours(P)
  BY DEF Segments, Points
<1>3. Starts(R, I, cap, i) =
        {s[1] : s \in {u \in Neighbours(P) : u[1] = from \/ at(u[1]) # at(u[1] - 1)}}
  BY <1>2 DEF Starts
<1>4. \A s \in Neighbours(P) : s[1] \in P /\ s[2] \in P /\ s[1] < s[2]
  BY <1>1, NeighboursFacts
<1>5. ASSUME NEW t \in P, t < to PROVE \E s \in Neighbours(P) : s[1] = t
  <2>1. PICK s \in Neighbours(P) : s[1] <= t /\ t < s[2]
    BY <1>1, <1>5, NeighboursAround
  <2>2. t <= s[1] \/ s[2] <= t
    BY <1>1, NeighboursFacts
  <2>3. s[1] \in 0 .. End /\ s[2] \in 0 .. End /\ t \in 0 .. End
    BY <1>1, <1>4
  <2> QED BY <2>1, <2>2, <2>3
<1>6. Starts(R, I, cap, i) \subseteq from .. to - 1
  <2> SUFFICES ASSUME NEW s \in Neighbours(P) PROVE s[1] \in from .. to - 1
    BY <1>3
  <2>1. s[1] \in P /\ s[2] \in P /\ s[1] < s[2]
    BY <1>4
  <2>2. s[1] \in from .. to /\ s[2] \in from .. to
    BY <1>1, <2>1
  <2> QED BY <1>1, <2>1, <2>2
<1>7. from \in Starts(R, I, cap, i)
  <2>1. PICK s \in Neighbours(P) : s[1] = from
    BY <1>1, <1>5
  <2> QED BY <1>3, <2>1
<1>8. ASSUME NEW t \in from + 1 .. to - 1
      PROVE  t \in Starts(R, I, cap, i) <=> at(t) # at(t - 1)
  <2>1. ASSUME at(t) # at(t - 1) PROVE t \in Starts(R, I, cap, i)
    <3>1. t \in P
      BY <2>1, ScaledStays
    <3>2. t < to
      BY <1>1
    <3>3. PICK s \in Neighbours(P) : s[1] = t
      BY <3>1, <3>2, <1>5
    <3>4. at(s[1]) # at(s[1] - 1)
      BY <2>1, <3>3
    <3> QED BY <1>3, <3>3, <3>4
  <2>2. ASSUME t \in Starts(R, I, cap, i) PROVE at(t) # at(t - 1)
    <3>1. PICK s \in Neighbours(P) : t = s[1] /\ (s[1] = from \/ at(s[1]) # at(s[1] - 1))
      BY <1>3, <2>2
    <3>2. t # from
      BY <1>1
    <3> QED BY <3>1, <3>2
  <2> QED BY <2>1, <2>2
<1> QED BY <1>1, <1>6, <1>7, <1>8

(***************************************************************************)
(* A piece lies within its row, has one rate, and is as long as that rate  *)
(* lasts.                                                                  *)
(***************************************************************************)
LEMMA PieceFacts ==
  ASSUME NEW R, Table(R), NEW I \in SUBSET Granted(R), NEW cap \in Nat, NEW i \in I,
         R[i].from < R[i].to, NEW s \in Merged(R, I, cap, i)
  PROVE  /\ s = <<s[1], s[2]>> /\ s[1] \in 0 .. End /\ s[2] \in 1 .. End
         /\ R[i].from <= s[1] /\ s[1] < s[2] /\ s[2] <= R[i].to
         /\ \A t \in s[1] .. s[2] - 1 : Scaled(R, I, cap, i, t) = Scaled(R, I, cap, i, s[1])
         /\ s[1] = R[i].from \/ Scaled(R, I, cap, i, s[1]) # Scaled(R, I, cap, i, s[1] - 1)
         /\ s[2] = R[i].to \/ Scaled(R, I, cap, i, s[2]) # Scaled(R, I, cap, i, s[2] - 1)
<1> DEFINE from == R[i].from
           to == R[i].to
           at(t) == Scaled(R, I, cap, i, t)
           C == Starts(R, I, cap, i)
           P == C \cup {to}
<1>1. /\ from \in 0 .. End /\ to \in 1 .. End /\ C \subseteq from .. to - 1
      /\ \A t \in from + 1 .. to - 1 : t \in C <=> at(t) # at(t - 1)
  BY StartsFacts
<1>2. s \in Neighbours(P)
  BY DEF Merged, Starts
<1>3. P \subseteq 0 .. End
  BY <1>1, ConstantsAssumption
<1>4. /\ s = <<s[1], s[2]>> /\ s[1] \in P /\ s[2] \in P /\ s[1] < s[2]
      /\ \A p \in P : p <= s[1] \/ s[2] <= p
  BY <1>2, <1>3, NeighboursFacts
<1> DEFINE a == s[1]
           b == s[2]
<1>5. a \in C /\ a \in 0 .. End /\ b \in 1 .. End /\ from <= a /\ a < b /\ b <= to
  BY <1>1, <1>3, <1>4
<1> DEFINE Bad == {t \in a .. b - 1 : at(t) # at(a)}
<1>6. Bad = {}
  <2> SUFFICES ASSUME Bad # {} PROVE FALSE
    OBVIOUS
  <2>1. Bad \subseteq 0 .. End
    <3>1. \A x \in a .. b - 1 : x \in 0 .. End
      BY <1>5, ConstantsAssumption
    <3> QED BY <3>1
  <2>2. Min(Bad) \in Bad /\ \A x \in Bad : Min(Bad) <= x
    <3> HIDE DEF Bad
    <3>1. IsFiniteSet(Bad) /\ Bad \subseteq Int
      BY <2>1, FiniteTimes
    <3> QED BY <3>1, MinOfInts
  <2> DEFINE t == Min(Bad)
  <2> HIDE DEF t
  <2>3. t \in a .. b - 1 /\ at(t) # at(a) /\ \A x \in Bad : t <= x
    BY <2>2 DEF t
  <2>4. t # a
    BY <2>3
  <2>5. t \in from + 1 .. to - 1 /\ t \in a + 1 .. b - 1
    BY <1>1, <1>5, <2>3, <2>4
  <2>6. t \notin C
    BY <1>4, <1>5, <2>5
  <2>7. at(t) = at(t - 1)
    BY <1>1, <2>5, <2>6
  <2>8. t - 1 \in a .. b - 1 /\ ~(t <= t - 1)
    BY <1>5, <2>5
  <2>9. at(t - 1) = at(a)
    BY <2>3, <2>8
  <2> QED BY <2>3, <2>7, <2>9
<1>7. a = from \/ at(a) # at(a - 1)
  BY <1>1, <1>5
<1>8. b = to \/ at(b) # at(b - 1)
  BY <1>1, <1>4, <1>5
<1> QED BY <1>4, <1>5, <1>6, <1>7, <1>8

(***************************************************************************)
(* Every time of a row is in one of its pieces.                            *)
(***************************************************************************)
LEMMA PieceAround ==
  ASSUME NEW R, Table(R), NEW I \in SUBSET Granted(R), NEW cap \in Nat, NEW i \in I,
         NEW t \in 0 .. End, R[i].from <= t, t < R[i].to
  PROVE  \E s \in Merged(R, I, cap, i) : s[1] <= t /\ t < s[2]
<1> DEFINE C == Starts(R, I, cap, i)
           P == C \cup {R[i].to}
<1>1. R[i].from \in 0 .. End /\ R[i].to \in 1 .. End
  BY GrantedFacts
<1>2. C \subseteq R[i].from .. R[i].to - 1 /\ R[i].from \in C
  BY <1>1, StartsFacts
<1>3. P \subseteq 0 .. End
  BY <1>1, <1>2, ConstantsAssumption
<1>4. \E s \in Neighbours(P) : s[1] <= t /\ t < s[2]
  BY <1>2, <1>3, NeighboursAround
<1> QED BY <1>4 DEF Merged, Starts

(***************************************************************************)
(* Pieces of one row do not overlap.                                       *)
(***************************************************************************)
LEMMA PiecesApart ==
  ASSUME NEW R, Table(R), NEW I \in SUBSET Granted(R), NEW cap \in Nat, NEW i \in I,
         R[i].from < R[i].to,
         NEW s \in Merged(R, I, cap, i), NEW u \in Merged(R, I, cap, i)
  PROVE  s = u \/ s[2] <= u[1] \/ u[2] <= s[1]
<1> DEFINE C == Starts(R, I, cap, i)
           P == C \cup {R[i].to}
<1>1. /\ C \subseteq R[i].from .. R[i].to - 1 /\ R[i].from \in 0 .. End
      /\ R[i].to \in 1 .. End
  BY StartsFacts
<1>2. P \subseteq 0 .. End
  BY <1>1, ConstantsAssumption
<1>3. s \in Neighbours(P) /\ u \in Neighbours(P)
  BY DEF Merged, Starts
<1> HIDE DEF P
<1> QED BY <1>2, <1>3, NeighboursApart

-----------------------------------------------------------------------------
(* The rows that buildReplacementGrants returns.                           *)

(***************************************************************************)
(* A finite set is listed with every element once.                         *)
(***************************************************************************)
LEMMA Listing ==
  ASSUME NEW S, IsFiniteSet(S)
  PROVE  /\ SetToSeq(S) \in Seq(S)
         /\ \A m, n \in DOMAIN SetToSeq(S) : m # n => SetToSeq(S)[m] # SetToSeq(S)[n]
         /\ \A x \in S : \E n \in DOMAIN SetToSeq(S) : SetToSeq(S)[n] = x
<1> DEFINE k == Cardinality(S)
           q == SetToSeq(S)
<1>1. PICK n \in Nat : ExistsBijection(1 .. n, S)
  BY FS_NatBijection
<1>2. k = n /\ k \in Nat
  BY <1>1, FS_CountingElements
<1>3. \E f : f \in Injection(1 .. k, S)
  BY <1>1, <1>2 DEF ExistsBijection, Bijection
<1>4. q = CHOOSE f \in [1 .. k -> S] : IsInjective(f)
  BY DEF SetToSeq
<1>5. \E f \in [1 .. k -> S] : IsInjective(f)
  BY <1>3 DEF Injection
<1> HIDE DEF q, k
<1>6. q \in [1 .. k -> S] /\ IsInjective(q)
  BY <1>4, <1>5
<1>7. q \in Injection(1 .. k, S)
  BY <1>6 DEF Injection
<1>8. IsFiniteSet(1 .. k) /\ Cardinality(1 .. k) = k
  BY <1>2, FS_Interval
<1>9. q \in Surjection(1 .. k, S)
  BY <1>7, <1>8, FS_Injection DEF k
<1>10. q \in Seq(S) /\ DOMAIN q = 1 .. k
  BY <1>2, <1>6, SeqDef
<1> QED BY <1>6, <1>9, <1>10 DEF q, IsInjective, Surjection

\* The pieces that are kept.
Kept(R, I, cap) ==
  UNION {{<<i, piece>> : piece \in {p \in Merged(R, I, cap, i) :
                                      IsKept(p, Scaled(R, I, cap, i, p[1]))}} :
           i \in {j \in I : R[j].from < R[j].to}}

(***************************************************************************)
(* The pieces that are kept, by the rows they belong to.                   *)
(***************************************************************************)
LEMMA KeptFacts ==
  ASSUME NEW R, Table(R), NEW I \in SUBSET Granted(R), NEW cap \in Nat
  PROVE  /\ IsFiniteSet(Kept(R, I, cap))
         /\ \A x \in Kept(R, I, cap) :
              /\ x = <<x[1], x[2]>> /\ x[1] \in I /\ R[x[1]].from < R[x[1]].to
              /\ x[2] \in Merged(R, I, cap, x[1])
              /\ IsKept(x[2], Scaled(R, I, cap, x[1], x[2][1]))
         /\ \A i \in I : \A s \in Merged(R, I, cap, i) :
              R[i].from < R[i].to /\ IsKept(s, Scaled(R, I, cap, i, s[1]))
                => <<i, s>> \in Kept(R, I, cap)
<1> DEFINE K == Kept(R, I, cap)
<1>1. ASSUME NEW x \in K
      PROVE  /\ x = <<x[1], x[2]>> /\ x[1] \in I /\ R[x[1]].from < R[x[1]].to
             /\ x[2] \in Merged(R, I, cap, x[1])
             /\ IsKept(x[2], Scaled(R, I, cap, x[1], x[2][1]))
  <2>1. PICK i \in I : /\ R[i].from < R[i].to
                       /\ x \in {<<i, piece>> : piece \in {p \in Merged(R, I, cap, i) :
                                      IsKept(p, Scaled(R, I, cap, i, p[1]))}}
    BY DEF Kept
  <2>2. PICK s \in Merged(R, I, cap, i) : x = <<i, s>> /\ IsKept(s, Scaled(R, I, cap, i, s[1]))
    BY <2>1
  <2>3. x[1] = i /\ x[2] = s
    BY <2>2
  <2> QED BY <2>1, <2>2, <2>3
<1>2. K \subseteq I \X ((0 .. End) \X (0 .. End))
  <2> SUFFICES ASSUME NEW x \in K PROVE x \in I \X ((0 .. End) \X (0 .. End))
    OBVIOUS
  <2>1. x = <<x[1], x[2]>> /\ x[1] \in I /\ R[x[1]].from < R[x[1]].to
        /\ x[2] \in Merged(R, I, cap, x[1])
    BY <1>1
  <2> DEFINE i == x[1]
             s == x[2]
  <2> HIDE DEF i, s
  <2>2. i \in I /\ s \in Merged(R, I, cap, i) /\ R[i].from < R[i].to
    BY <2>1 DEF i, s
  <2>3. /\ s = <<s[1], s[2]>> /\ s[1] \in 0 .. End /\ s[2] \in 1 .. End
        /\ R[i].from <= s[1] /\ s[1] < s[2] /\ s[2] <= R[i].to
    BY <2>2, PieceFacts
  <2>4. s \in (0 .. End) \X (0 .. End)
    <3>1. s[2] \in 0 .. End
      BY <2>3, ConstantsAssumption
    <3> QED BY <2>3, <3>1
  <2> QED BY <2>1, <2>2, <2>4 DEF i, s
<1>3. IsFiniteSet(I \X ((0 .. End) \X (0 .. End)))
  <2>1. IsFiniteSet(0 .. End)
    BY FS_Interval, ConstantsAssumption
  <2>2. IsFiniteSet((0 .. End) \X (0 .. End))
    BY <2>1, FS_Product
  <2>3. IsFiniteSet(I)
    BY GrantedFacts, FS_Subset
  <2> QED BY <2>2, <2>3, FS_Product
<1>4. IsFiniteSet(K)
  BY <1>2, <1>3, FS_Subset
<1>5. ASSUME NEW i \in I, NEW s \in Merged(R, I, cap, i), R[i].from < R[i].to,
             IsKept(s, Scaled(R, I, cap, i, s[1]))
      PROVE  <<i, s>> \in K
  BY <1>5 DEF Kept
<1> HIDE DEF K
<1>6. \A i \in I : \A s \in Merged(R, I, cap, i) :
              R[i].from < R[i].to /\ IsKept(s, Scaled(R, I, cap, i, s[1]))
                => <<i, s>> \in K
  BY <1>5
<1> QED BY <1>1, <1>4, <1>6 DEF K

\* The row that replaces row x[1] in the piece x[2].
Heir(R, I, cap, x) ==
  [status |-> "GRANTED", from |-> x[2][1], to |-> x[2][2],
   rate |-> Scaled(R, I, cap, x[1], x[2][1]), replaced |-> x[1]]

(***************************************************************************)
(* Replacements in these words.                                            *)
(***************************************************************************)
LEMMA ReplacementsAre ==
  ASSUME NEW R, NEW I, NEW cap
  PROVE  Replacements(R, I, cap) =
           [n \in DOMAIN SetToSeq(Kept(R, I, cap)) |->
              Heir(R, I, cap, SetToSeq(Kept(R, I, cap))[n])]
BY DEF Replacements, Kept, Heir

\* Row p replaces row p.replaced of I in one of its pieces.
IsPiece(R, I, cap, p) ==
  /\ p.status = "GRANTED" /\ p.replaced \in I
  /\ R[p.replaced].from <= p.from /\ p.from < p.to /\ p.to <= R[p.replaced].to
  /\ <<p.from, p.to>> \in Merged(R, I, cap, p.replaced)
  /\ p.rate = Scaled(R, I, cap, p.replaced, p.from)
  /\ IsKept(<<p.from, p.to>>, p.rate)

\* Rows that replace the same row follow each other.
Disjoint(new) ==
  \A m, n \in DOMAIN new : m # n /\ new[m].replaced = new[n].replaced =>
    new[m].to <= new[n].from \/ new[n].to <= new[m].from

\* A piece of I that is kept is among the rows.
Lists(new, R, I, cap) ==
  \A i \in I : \A s \in Merged(R, I, cap, i) :
    R[i].from < R[i].to /\ IsKept(s, Scaled(R, I, cap, i, s[1])) =>
      \E n \in DOMAIN new : new[n].replaced = i /\ new[n].from = s[1] /\ new[n].to = s[2]

(***************************************************************************)
(* The rows of a plan are pieces of overflowed rows, all that are kept,    *)
(* and those of one row do not overlap.                                    *)
(***************************************************************************)
LEMMA ReplacementsFacts ==
  ASSUME NEW R, Table(R), NEW I \in SUBSET Granted(R), NEW cap \in Nat
  PROVE  /\ Table(Replacements(R, I, cap)) /\ Disjoint(Replacements(R, I, cap))
         /\ \A n \in DOMAIN Replacements(R, I, cap) :
              IsPiece(R, I, cap, Replacements(R, I, cap)[n])
         /\ Lists(Replacements(R, I, cap), R, I, cap)
<1> DEFINE new == Replacements(R, I, cap)
           K == Kept(R, I, cap)
           q == SetToSeq(K)
<1>1. IsFiniteSet(K)
  BY KeptFacts
<1>2. /\ q \in Seq(K)
      /\ \A m, n \in DOMAIN q : m # n => q[m] # q[n]
      /\ \A x \in K : \E n \in DOMAIN q : q[n] = x
  <2> HIDE DEF K
  <2> QED BY <1>1, Listing
<1>3. new = [n \in DOMAIN q |-> Heir(R, I, cap, q[n])]
  BY ReplacementsAre
<1> HIDE DEF q, new
<1>4. Len(q) \in Nat /\ DOMAIN q = 1 .. Len(q) /\ \A n \in DOMAIN q : q[n] \in K
  BY <1>2, LenProperties
<1>5. DOMAIN new = 1 .. Len(q) /\ \A n \in DOMAIN new : new[n] = Heir(R, I, cap, q[n])
  BY <1>3, <1>4
<1>6. ASSUME NEW x \in K
      PROVE  /\ x = <<x[1], x[2]>> /\ x[1] \in I /\ R[x[1]].from < R[x[1]].to
             /\ x[2] \in Merged(R, I, cap, x[1])
             /\ IsKept(x[2], Scaled(R, I, cap, x[1], x[2][1]))
             /\ x[2] = <<x[2][1], x[2][2]>> /\ x[2][1] \in 0 .. End
             /\ x[2][2] \in 1 .. End
             /\ R[x[1]].from <= x[2][1] /\ x[2][1] < x[2][2] /\ x[2][2] <= R[x[1]].to
             /\ Scaled(R, I, cap, x[1], x[2][1]) \in Nat
             /\ Heir(R, I, cap, x) \in Row
  <2>1. /\ x = <<x[1], x[2]>> /\ x[1] \in I /\ R[x[1]].from < R[x[1]].to
        /\ x[2] \in Merged(R, I, cap, x[1])
        /\ IsKept(x[2], Scaled(R, I, cap, x[1], x[2][1]))
    BY KeptFacts
  <2> DEFINE i == x[1]
             s == x[2]
  <2>2. /\ s = <<s[1], s[2]>> /\ s[1] \in 0 .. End /\ s[2] \in 1 .. End
        /\ R[i].from <= s[1] /\ s[1] < s[2] /\ s[2] <= R[i].to
    <3> HIDE DEF i, s
    <3>1. i \in I /\ s \in Merged(R, I, cap, i) /\ R[i].from < R[i].to
      BY <2>1 DEF i, s
    <3> QED BY <3>1, PieceFacts
  <2>3. Scaled(R, I, cap, i, s[1]) \in Nat
    BY <2>1, ScaledFacts
  <2>4. i \in Nat
    BY <2>1, GrantedFacts, RowFacts
  <2>5. Heir(R, I, cap, x) \in Row
    BY <2>2, <2>3, <2>4 DEF Heir, Row
  <2> QED BY <2>1, <2>2, <2>3, <2>5
<1>7. \A n \in DOMAIN new : new[n] \in Row /\ new[n].from \in 0 .. End
  BY <1>4, <1>5, <1>6 DEF Heir
<1>8. Table(new)
  <2>1. new \in Seq(Row)
    <3>1. new \in [1 .. Len(q) -> Row]
      BY <1>3, <1>4, <1>5, <1>7
    <3> QED BY <1>4, <3>1, SeqDef
  <2>2. \A n \in DOMAIN new : new[n].from # None
    BY <1>7, ConstantsAssumption
  <2> QED BY <2>1, <2>2 DEF Table
<1>9. ASSUME NEW n \in DOMAIN new
      PROVE  /\ new[n].status = "GRANTED" /\ new[n].replaced \in I
             /\ R[new[n].replaced].from <= new[n].from /\ new[n].from < new[n].to
             /\ new[n].to <= R[new[n].replaced].to
             /\ <<new[n].from, new[n].to>> \in Merged(R, I, cap, new[n].replaced)
             /\ new[n].rate = Scaled(R, I, cap, new[n].replaced, new[n].from)
             /\ IsKept(<<new[n].from, new[n].to>>, new[n].rate)
             /\ q[n] = <<new[n].replaced, <<new[n].from, new[n].to>>>>
  <2> DEFINE x == q[n]
  <2>1. x \in K /\ new[n] = Heir(R, I, cap, x)
    BY <1>4, <1>5
  <2> HIDE DEF x
  <2>2. /\ new[n].status = "GRANTED" /\ new[n].replaced = x[1]
        /\ new[n].from = x[2][1]
        /\ new[n].to = x[2][2] /\ new[n].rate = Scaled(R, I, cap, x[1], x[2][1])
    BY <2>1 DEF Heir
  <2>3. /\ x = <<x[1], x[2]>> /\ x[1] \in I
        /\ x[2] \in Merged(R, I, cap, x[1])
        /\ IsKept(x[2], Scaled(R, I, cap, x[1], x[2][1]))
        /\ x[2] = <<x[2][1], x[2][2]>>
        /\ R[x[1]].from <= x[2][1] /\ x[2][1] < x[2][2] /\ x[2][2] <= R[x[1]].to
    BY <2>1, <1>6
  <2>4. x[2] = <<new[n].from, new[n].to>>
    BY <2>2, <2>3
  <2>5. x = <<new[n].replaced, <<new[n].from, new[n].to>>>>
    BY <2>2, <2>3, <2>4
  <2> QED BY <2>2, <2>3, <2>4, <2>5 DEF x
<1>10. ASSUME NEW m \in DOMAIN new, NEW n \in DOMAIN new, m # n,
              new[m].replaced = new[n].replaced
       PROVE  new[m].to <= new[n].from \/ new[n].to <= new[m].from
  <2> DEFINE i == new[n].replaced
             s == <<new[m].from, new[m].to>>
             u == <<new[n].from, new[n].to>>
  <2>1. i \in I /\ s \in Merged(R, I, cap, i) /\ u \in Merged(R, I, cap, i)
    BY <1>9, <1>10
  <2>2. s # u
    <3>1. q[m] # q[n]
      BY <1>2, <1>4, <1>5, <1>10
    <3> QED BY <1>9, <1>10, <3>1
  <2>3. R[i].from < R[i].to
    <3>1. R[i].from <= new[n].from /\ new[n].from < new[n].to /\ new[n].to <= R[i].to
      BY <1>9
    <3>2. /\ R[i].from \in Int /\ R[i].to \in Int /\ new[n].from \in Int
          /\ new[n].to \in Int
      BY <1>7, <2>1, GrantedFacts DEF Row
    <3> QED BY <3>1, <3>2
  <2>4. /\ s[1] = new[m].from /\ s[2] = new[m].to /\ u[1] = new[n].from
        /\ u[2] = new[n].to
    OBVIOUS
  <2> HIDE DEF i, s, u
  <2>5. s = u \/ s[2] <= u[1] \/ u[2] <= s[1]
    BY <2>1, <2>3, PiecesApart
  <2> QED BY <2>2, <2>4, <2>5
<1>11. ASSUME NEW i \in I, NEW s \in Merged(R, I, cap, i), R[i].from < R[i].to,
              IsKept(s, Scaled(R, I, cap, i, s[1]))
       PROVE  \E n \in DOMAIN new : /\ new[n].replaced = i /\ new[n].from = s[1]
                                    /\ new[n].to = s[2]
  <2>1. <<i, s>> \in K
    BY <1>11, KeptFacts
  <2>2. PICK n \in DOMAIN q : q[n] = <<i, s>>
    BY <2>1, <1>2
  <2>3. n \in DOMAIN new /\ new[n] = Heir(R, I, cap, <<i, s>>)
    BY <2>2, <1>4, <1>5
  <2> QED BY <2>3 DEF Heir
<1> HIDE DEF K
<1>12. \A i \in I : \A s \in Merged(R, I, cap, i) :
              R[i].from < R[i].to /\ IsKept(s, Scaled(R, I, cap, i, s[1])) =>
                \E n \in DOMAIN new : /\ new[n].replaced = i /\ new[n].from = s[1]
                                      /\ new[n].to = s[2]
  BY <1>11
<1>13. \A n \in DOMAIN new : IsPiece(R, I, cap, new[n])
  BY <1>9 DEF IsPiece
<1>14. Disjoint(new)
  BY <1>10 DEF Disjoint
<1>15. Lists(new, R, I, cap)
  BY <1>12 DEF Lists
<1> QED BY <1>8, <1>13, <1>14, <1>15 DEF new

-----------------------------------------------------------------------------
(* Rows are disabled and others appended.                                  *)

\* The table in which the rows C are disabled and the rows new appended.
After(R, C, new) == Disable(R, C) \o new

\* Rows of new replace rows C of R: within them, and one at a time.
Heirs(R, C, new) ==
  /\ C \subseteq DOMAIN R /\ \A i \in C : R[i].from \in 0 .. End
  /\ \A n \in DOMAIN new :
       /\ new[n].status = "GRANTED" /\ new[n].replaced \in C
       /\ R[new[n].replaced].from <= new[n].from /\ new[n].from < new[n].to
       /\ new[n].to <= R[new[n].replaced].to
       /\ new[n].rate <= R[new[n].replaced].rate
  /\ Disjoint(new)

(***************************************************************************)
(* Disabling rows changes their status and nothing else.                   *)
(***************************************************************************)
LEMMA DisableFacts ==
  ASSUME NEW R, Table(R), NEW C
  PROVE  /\ Table(Disable(R, C)) /\ Len(Disable(R, C)) = Len(R)
         /\ DOMAIN Disable(R, C) = DOMAIN R
         /\ \A i \in DOMAIN R : i \in C =>
              Disable(R, C)[i] = [R[i] EXCEPT !.status = "DISABLED"]
         /\ \A i \in DOMAIN R : i \notin C => Disable(R, C)[i] = R[i]
         /\ \A i \in DOMAIN R :
              /\ i \in C => Disable(R, C)[i].status = "DISABLED"
              /\ Disable(R, C)[i].from = R[i].from /\ Disable(R, C)[i].to = R[i].to
              /\ Disable(R, C)[i].rate = R[i].rate
              /\ Disable(R, C)[i].replaced = R[i].replaced
<1> DEFINE D == Disable(R, C)
<1>1. DOMAIN R = 1 .. Len(R) /\ Len(R) \in Nat /\ \A i \in DOMAIN R : R[i] \in Row
  BY RowFacts
<1>2. DOMAIN D = DOMAIN R
      /\ (\A i \in DOMAIN R : i \in C => D[i] = [R[i] EXCEPT !.status = "DISABLED"])
      /\ \A i \in DOMAIN R : i \notin C => D[i] = R[i]
  BY DEF Disable
<1>3. \A i \in DOMAIN R : D[i] \in Row
  BY <1>1, <1>2 DEF Row
<1>4. D = [i \in DOMAIN R |-> D[i]]
  BY DEF Disable
<1>5. D \in [1 .. Len(R) -> Row]
  BY <1>1, <1>3, <1>4
<1>6. D \in Seq(Row) /\ Len(D) = Len(R)
  <2>1. D \in Seq(Row)
    BY <1>1, <1>5, SeqDef
  <2>2. DOMAIN D = 1 .. Len(D) /\ Len(D) \in Nat
    BY <2>1, LenProperties
  <2> QED BY <1>1, <1>2, <2>1, <2>2
<1>7. \A i \in DOMAIN D : D[i].status = "GRANTED" => D[i].from # None
  <2> SUFFICES ASSUME NEW i \in DOMAIN R, D[i].status = "GRANTED"
               PROVE  D[i].from # None
    BY <1>2
  <2>1. i \notin C
    BY <1>1, <1>2 DEF Row
  <2> QED BY <1>2, <2>1 DEF Table
<1>8. \A i \in DOMAIN R : /\ i \in C => D[i].status = "DISABLED"
                         /\ D[i].from = R[i].from /\ D[i].to = R[i].to
                         /\ D[i].rate = R[i].rate /\ D[i].replaced = R[i].replaced
  BY <1>1, <1>2 DEF Row
<1> QED BY <1>2, <1>6, <1>7, <1>8 DEF Table

(***************************************************************************)
(* The rows of a table after a change: the old ones, some disabled, and    *)
(* then the new ones.                                                      *)
(***************************************************************************)
LEMMA AfterFacts ==
  ASSUME NEW R, Table(R), NEW C, NEW new, Table(new)
  PROVE  LET A == After(R, C, new) IN
         /\ Table(A) /\ Len(A) = Len(R) + Len(new)
         /\ \A i \in DOMAIN R : i \in DOMAIN A
         /\ \A n \in DOMAIN new : Len(R) + n \in DOMAIN A /\ Len(R) + n \notin DOMAIN R
         /\ \A i \in DOMAIN R : i \in C => A[i] = [R[i] EXCEPT !.status = "DISABLED"]
         /\ \A i \in DOMAIN R : i \notin C => A[i] = R[i]
         /\ \A i \in DOMAIN R :
              /\ i \in C => A[i].status = "DISABLED"
              /\ A[i].from = R[i].from /\ A[i].to = R[i].to
              /\ A[i].rate = R[i].rate /\ A[i].replaced = R[i].replaced
         /\ \A n \in DOMAIN new : A[Len(R) + n] = new[n]
         /\ \A i \in DOMAIN A : i \in DOMAIN R \/ \E n \in DOMAIN new : i = Len(R) + n
<1> DEFINE D == Disable(R, C)
           A == After(R, C, new)
<1>1. /\ Table(D) /\ Len(D) = Len(R) /\ DOMAIN D = DOMAIN R
      /\ \A i \in DOMAIN R : i \in C => D[i] = [R[i] EXCEPT !.status = "DISABLED"]
      /\ \A i \in DOMAIN R : i \notin C => D[i] = R[i]
      /\ \A i \in DOMAIN R : /\ i \in C => D[i].status = "DISABLED"
                             /\ D[i].from = R[i].from /\ D[i].to = R[i].to
                             /\ D[i].rate = R[i].rate /\ D[i].replaced = R[i].replaced
  BY DisableFacts
<1>2. /\ DOMAIN R = 1 .. Len(R) /\ Len(R) \in Nat
      /\ DOMAIN new = 1 .. Len(new) /\ Len(new) \in Nat
  BY RowFacts
<1> HIDE DEF D
<1>3. D \in Seq(Row) /\ new \in Seq(Row)
  BY <1>1 DEF Table
<1>4. A = D \o new
  BY DEF After, D
<1>5. /\ A \in Seq(Row) /\ Len(A) = Len(R) + Len(new)
      /\ \A i \in 1 .. Len(R) + Len(new) : A[i] = IF i <= Len(R) THEN D[i] ELSE new[i - Len(R)]
  <2>1. /\ D \o new \in Seq(Row) /\ Len(D \o new) = Len(D) + Len(new)
        /\ \A i \in 1 .. Len(D) + Len(new) :
             (D \o new)[i] = IF i <= Len(D) THEN D[i] ELSE new[i - Len(D)]
    BY <1>3, ConcatProperties
  <2> QED BY <2>1, <1>1, <1>4
<1> HIDE DEF A
<1>6. DOMAIN A = 1 .. Len(R) + Len(new)
  BY <1>5, LenProperties
<1>7. \A i \in DOMAIN R : i \in DOMAIN A /\ A[i] = D[i]
  BY <1>2, <1>5, <1>6
<1>8. ASSUME NEW n \in DOMAIN new
      PROVE  /\ Len(R) + n \in DOMAIN A /\ Len(R) + n \notin DOMAIN R
             /\ A[Len(R) + n] = new[n]
  <2>1. /\ Len(R) + n \in 1 .. Len(R) + Len(new) /\ ~(Len(R) + n <= Len(R))
        /\ (Len(R) + n) - Len(R) = n
    BY <1>2
  <2> QED BY <1>2, <1>5, <1>6, <2>1
<1>9. ASSUME NEW i \in DOMAIN A, i \notin DOMAIN R
      PROVE  \E n \in DOMAIN new : i = Len(R) + n
  <2>1. i - Len(R) \in DOMAIN new /\ i = Len(R) + (i - Len(R))
    BY <1>2, <1>6, <1>9
  <2> QED BY <2>1
<1>10. \A i \in DOMAIN A : A[i].status = "GRANTED" => A[i].from # None
  <2> SUFFICES ASSUME NEW i \in DOMAIN A, A[i].status = "GRANTED"
               PROVE  A[i].from # None
    OBVIOUS
  <2>1. CASE i \in DOMAIN R
    BY <2>1, <1>1, <1>7 DEF Table
  <2>2. CASE i \notin DOMAIN R
    <3>1. PICK n \in DOMAIN new : i = Len(R) + n
      BY <1>9, <2>2
    <3> QED BY <3>1, <1>8 DEF Table
  <2> QED BY <2>1, <2>2
<1>11. Table(A)
  BY <1>5, <1>10 DEF Table
<1>14. \A i \in DOMAIN R :
         /\ i \in C => A[i].status = "DISABLED"
         /\ A[i].from = R[i].from /\ A[i].to = R[i].to
         /\ A[i].rate = R[i].rate /\ A[i].replaced = R[i].replaced
  BY <1>1, <1>7
<1>12. \A i \in DOMAIN R : i \in C => A[i] = [R[i] EXCEPT !.status = "DISABLED"]
  BY <1>1, <1>7
<1>13. \A i \in DOMAIN R : i \notin C => A[i] = R[i]
  BY <1>1, <1>7
<1> QED BY <1>5, <1>7, <1>8, <1>9, <1>11, <1>12, <1>13, <1>14 DEF A

\* The grants of K under way at t, and their heirs.
Old(R, C, K, t) == {i \in At(R, t) : i \in K /\ i \notin C}
New(new, K, t) == {n \in DOMAIN new : new[n].replaced \in K /\ Covers(new[n], t)}
HeirsOf(R, new, K) == K \cup {Len(R) + n : n \in {m \in DOMAIN new : new[m].replaced \in K}}
NewRates(new) == [n \in DOMAIN new |-> new[n].rate]

(***************************************************************************)
(* What the heirs of the rows K promise after a change: what the rows of K *)
(* that stay promise, and what the new rows do.                            *)
(***************************************************************************)
LEMMA SumSplits ==
  ASSUME NEW R, Table(R), NEW C, NEW new, Table(new), Heirs(R, C, new), NEW t \in Int,
         NEW K \in SUBSET DOMAIN R
  PROVE  LET A == After(R, C, new) IN
         RateOf(A, {i \in At(A, t) : i \in HeirsOf(R, new, K)})
           = RateOf(R, Old(R, C, K, t)) + Total(NewRates(new), New(new, K, t))
<1> DEFINE A == After(R, C, new)
           X == Old(R, C, K, t)
           N == New(new, K, t)
           h == [n \in DOMAIN new |-> Len(R) + n]
           Y == {h[n] : n \in N}
           f == [i \in DOMAIN R |-> R[i].rate]
           g == NewRates(new)
           k == [i \in DOMAIN A |-> A[i].rate]
           W == {i \in At(A, t) : i \in HeirsOf(R, new, K)}
<1>1. /\ Table(A) /\ \A i \in DOMAIN R : i \in DOMAIN A
      /\ \A n \in DOMAIN new : Len(R) + n \in DOMAIN A /\ Len(R) + n \notin DOMAIN R
      /\ \A i \in DOMAIN R : i \in C => A[i].status = "DISABLED"
      /\ \A i \in DOMAIN R : i \notin C => A[i] = R[i]
      /\ \A n \in DOMAIN new : A[Len(R) + n] = new[n]
  BY AfterFacts
<1> HIDE DEF A
<1>2. X \in SUBSET DOMAIN R /\ IsFiniteSet(X) /\ X \cap C = {} /\ X \subseteq K
  <2>1. At(R, t) \in SUBSET DOMAIN R
    BY AtFacts
  <2>2. X \in SUBSET DOMAIN R /\ X \cap C = {} /\ X \subseteq K
    BY <2>1 DEF Old
  <2> QED BY <2>2, RatesType
<1>3. N \in SUBSET DOMAIN new /\ IsFiniteSet(N)
  <2>1. N \in SUBSET DOMAIN new
    BY DEF New
  <2> QED BY <2>1, RowFacts, FS_Subset
<1>4. W \subseteq X \cup Y
  <2> SUFFICES ASSUME NEW i \in W PROVE i \in X \cup Y
    OBVIOUS
  <2>1. i \in At(A, t) /\ i \in HeirsOf(R, new, K)
    OBVIOUS
  <2>2. i \in Granted(A) /\ A[i].from <= t /\ t < A[i].to
    BY <1>1, <2>1, AtFacts
  <2>3. CASE i \in K
    <3>1. i \in DOMAIN R
      BY <2>3
    <3>2. i \notin C
      BY <1>1, <2>2, <3>1 DEF Granted
    <3>3. i \in At(R, t)
      BY <1>1, <2>2, <3>1, <3>2, AtFacts DEF Granted
    <3> QED BY <2>3, <3>2, <3>3 DEF Old
  <2>4. CASE i \notin K
    <3>1. PICK n \in DOMAIN new : i = Len(R) + n /\ new[n].replaced \in K
      BY <2>1, <2>4 DEF HeirsOf
    <3>2. Covers(new[n], t)
      BY <1>1, <2>2, <3>1 DEF Covers
    <3>3. n \in N
      BY <3>1, <3>2 DEF New
    <3> QED BY <3>1, <3>3
  <2> QED BY <2>3, <2>4
<1>5. X \subseteq W
  <2> SUFFICES ASSUME NEW i \in X PROVE i \in W
    OBVIOUS
  <2>1. i \in DOMAIN R /\ i \notin C /\ i \in K /\ i \in At(R, t)
    BY <1>2 DEF Old
  <2>2. i \in Granted(R) /\ R[i].from <= t /\ t < R[i].to
    BY <2>1, AtFacts
  <2>3. A[i] = R[i] /\ i \in DOMAIN A
    BY <1>1, <2>1
  <2>4. i \in At(A, t)
    BY <1>1, <2>2, <2>3, AtFacts DEF Granted
  <2> QED BY <2>1, <2>4 DEF HeirsOf
<1>6. Y \subseteq W
  <2> SUFFICES ASSUME NEW n \in N PROVE Len(R) + n \in W
    BY <1>3
  <2>1. n \in DOMAIN new /\ new[n].replaced \in K /\ Covers(new[n], t)
    BY DEF New
  <2>2. new[n].status = "GRANTED"
    BY <2>1 DEF Heirs
  <2>3. A[Len(R) + n] = new[n] /\ Len(R) + n \in DOMAIN A
    BY <1>1, <2>1
  <2>4. Len(R) + n \in At(A, t)
    BY <1>1, <2>1, <2>2, <2>3, AtFacts DEF Granted, Covers
  <2> QED BY <2>1, <2>4 DEF HeirsOf
<1>7. W = X \cup Y
  BY <1>4, <1>5, <1>6
<1>8. X \cap Y = {} /\ Y \subseteq DOMAIN A
  <2>1. \A n \in N : h[n] = Len(R) + n /\ h[n] \in DOMAIN A /\ h[n] \notin DOMAIN R
    BY <1>1, <1>3
  <2> HIDE DEF h, N, X
  <2> QED BY <2>1, <1>2
<1>9. /\ \A i \in X : k[i] = f[i] /\ i \in DOMAIN A
      /\ \A n \in N : k[h[n]] = g[n]
      /\ \A i \in DOMAIN A : k[i] \in Int
      /\ \A n \in N : g[n] \in Int
  <2>1. \A i \in X : k[i] = f[i] /\ i \in DOMAIN A
    BY <1>1, <1>2
  <2>2. \A n \in N : k[h[n]] = g[n]
    BY <1>1, <1>3 DEF NewRates
  <2>3. \A i \in DOMAIN A : k[i] \in Int
    BY <1>1, RowFacts
  <2>4. \A n \in N : g[n] \in Int
    BY <1>3, RowFacts DEF NewRates
  <2> QED BY <2>1, <2>2, <2>3, <2>4
<1>10. \A m, n \in N : h[m] = h[n] => m = n
  BY <1>3, RowFacts
<1>11. RateOf(A, W) = Total(k, W) /\ RateOf(R, X) = Total(f, X)
  BY DEF RateOf
<1> HIDE DEF W, f, g, k, h, X, N
<1>12. Total(g, N) = Total(k, Y)
  BY <1>3, <1>9, <1>10, TotalRename
<1>13. IsFiniteSet(Y)
  BY <1>3, ImageIsFinite
<1> HIDE DEF Y
<1>14. Total(k, X \cup Y) = Total(k, X) + Total(k, Y)
  BY <1>2, <1>8, <1>9, <1>13, TotalUnion
<1>15. Total(k, X) = Total(f, X)
  BY <1>2, <1>9, TotalCongruence
<1>16. RateOf(A, W) = RateOf(R, X) + Total(g, N)
  BY <1>7, <1>11, <1>12, <1>14, <1>15
<1> QED BY <1>16 DEF W, X, N, g, A

(***************************************************************************)
(* Heirs that take the place of granted rows one at a time promise as much *)
(* as some of those rows do, when each promises what its row did.          *)
(***************************************************************************)
LEMMA ReplacedSum ==
  ASSUME NEW R, Table(R), NEW C, NEW new, Table(new), Heirs(R, C, new), NEW t \in Int,
         NEW K \in SUBSET DOMAIN R, K \cap C \subseteq Granted(R),
         NEW f, \A n \in New(new, K, t) : f[n] = R[new[n].replaced].rate
  PROVE  /\ IsFiniteSet(New(new, K, t))
         /\ \E Z \in SUBSET {i \in At(R, t) : i \in K /\ i \in C} :
              Total(f, New(new, K, t)) = RateOf(R, Z)
<1> DEFINE N == New(new, K, t)
           h == [n \in DOMAIN new |-> new[n].replaced]
           Z == {h[n] : n \in N}
           g == [i \in DOMAIN R |-> R[i].rate]
<1>1. N \in SUBSET DOMAIN new /\ IsFiniteSet(N)
  <2>1. N \in SUBSET DOMAIN new
    BY DEF New
  <2> QED BY <2>1, RowFacts, FS_Subset
<1>2. ASSUME NEW n \in N
      PROVE  /\ h[n] = new[n].replaced /\ h[n] \in C /\ h[n] \in K
             /\ h[n] \in At(R, t)
             /\ new[n].from \in 0 .. End /\ new[n].to \in 1 .. End
             /\ new[n].from <= t /\ t < new[n].to
  <2>1. n \in DOMAIN new /\ new[n].replaced \in K /\ new[n].from <= t /\ t < new[n].to
    BY DEF New, Covers
  <2> DEFINE i == new[n].replaced
  <2>2. /\ i \in C /\ R[i].from <= new[n].from /\ new[n].to <= R[i].to
        /\ new[n].status = "GRANTED"
    BY <2>1 DEF Heirs
  <2>3. i \in Granted(R)
    BY <2>1, <2>2
  <2>4. R[i].from \in 0 .. End /\ R[i].to \in 1 .. End
    BY <2>3, GrantedFacts
  <2>5. n \in Granted(new)
    BY <2>1, <2>2 DEF Granted
  <2>6. new[n].from \in 0 .. End /\ new[n].to \in 1 .. End
    BY <2>5, GrantedFacts
  <2>7. R[i].from <= t /\ t < R[i].to
    BY <2>1, <2>2, <2>4, <2>6
  <2>8. i \in At(R, t)
    BY <2>3, <2>7, AtFacts
  <2> QED BY <2>1, <2>2, <2>6, <2>8
<1>3. ASSUME NEW m \in N, NEW n \in N, h[m] = h[n] PROVE m = n
  <2>1. m \in DOMAIN new /\ n \in DOMAIN new /\ new[m].replaced = new[n].replaced
    BY <1>1, <1>3
  <2>2. ASSUME m # n PROVE FALSE
    <3>1. new[m].to <= new[n].from \/ new[n].to <= new[m].from
      BY <2>1, <2>2 DEF Heirs, Disjoint
    <3>2. /\ new[m].from \in 0 .. End /\ new[m].to \in 1 .. End
          /\ new[m].from <= t /\ t < new[m].to
      BY <1>2
    <3>3. /\ new[n].from \in 0 .. End /\ new[n].to \in 1 .. End
          /\ new[n].from <= t /\ t < new[n].to
      BY <1>2
    <3> QED BY <3>1, <3>2, <3>3
  <2> QED BY <2>2
<1>4. \A n \in N : f[n] \in Int /\ g[h[n]] = f[n]
  <2> SUFFICES ASSUME NEW n \in N PROVE f[n] \in Int /\ g[h[n]] = f[n]
    OBVIOUS
  <2>1. h[n] \in DOMAIN R /\ f[n] = R[h[n]].rate
    BY <1>2, AtFacts
  <2> QED BY <2>1, RowFacts
<1>5. Z \in SUBSET {i \in At(R, t) : i \in K /\ i \in C}
  BY <1>2
<1>6. RateOf(R, Z) = Total(g, Z)
  BY DEF RateOf
<1> HIDE DEF N, h, g
<1>7. Total(f, N) = Total(g, Z)
  BY <1>1, <1>3, <1>4, TotalRename
<1> QED BY <1>1, <1>5, <1>6, <1>7 DEF N

(***************************************************************************)
(* Heirs promise together no more than the rows they descend from did.     *)
(***************************************************************************)
LEMMA HeirsShrink ==
  ASSUME NEW R, Table(R), NEW C, NEW new, Table(new), Heirs(R, C, new), NEW t \in Int,
         NEW K \in SUBSET DOMAIN R, K \cap C \subseteq Granted(R)
  PROVE  LET A == After(R, C, new) IN
         RateOf(A, {i \in At(A, t) : i \in HeirsOf(R, new, K)})
           <= RateOf(R, {i \in At(R, t) : i \in K})
<1> DEFINE A == After(R, C, new)
           X == Old(R, C, K, t)
           N == New(new, K, t)
           f == [n \in DOMAIN new |-> R[new[n].replaced].rate]
           g == NewRates(new)
           W == {i \in At(R, t) : i \in K}
<1>1. RateOf(A, {i \in At(A, t) : i \in HeirsOf(R, new, K)}) = RateOf(R, X) + Total(g, N)
  BY SumSplits
<1>2. N \in SUBSET DOMAIN new
  BY DEF New
<1>3. \A n \in N : f[n] = R[new[n].replaced].rate
  BY <1>2
<1>4. \A n \in N : g[n] \in Int /\ f[n] \in Int /\ g[n] <= f[n]
  <2> SUFFICES ASSUME NEW n \in N PROVE g[n] \in Int /\ f[n] \in Int /\ g[n] <= f[n]
    OBVIOUS
  <2>1. n \in DOMAIN new
    BY <1>2
  <2>2. new[n].replaced \in DOMAIN R /\ new[n].rate <= R[new[n].replaced].rate
    BY <2>1 DEF Heirs
  <2> QED BY <2>1, <2>2, RowFacts DEF NewRates
<1>5. X \in SUBSET DOMAIN R /\ W \in SUBSET DOMAIN R /\ X \subseteq W /\ X \cap C = {}
  BY AtFacts DEF Old
<1> HIDE DEF f, X, N
<1>6. /\ IsFiniteSet(N)
      /\ \E Z \in SUBSET {i \in At(R, t) : i \in K /\ i \in C} : Total(f, N) = RateOf(R, Z)
  BY <1>3, ReplacedSum DEF N
<1>7. PICK Z \in SUBSET {i \in At(R, t) : i \in K /\ i \in C} : Total(f, N) = RateOf(R, Z)
  BY <1>6
<1>8. Total(g, N) <= Total(f, N)
  BY <1>4, <1>6, TotalMonotone
<1>9. Z \subseteq W /\ X \cap Z = {} /\ Z \in SUBSET DOMAIN R
  BY <1>5, <1>7
<1> HIDE DEF W
<1>10. RateOf(R, X \cup Z) = RateOf(R, X) + RateOf(R, Z)
  BY <1>5, <1>9, RatesUnion
<1>11. RateOf(R, X \cup Z) <= RateOf(R, W)
  BY <1>5, <1>9, RatesSubset
<1>12. RateOf(R, X) \in Nat /\ RateOf(R, Z) \in Nat /\ RateOf(R, W) \in Nat
  BY <1>5, <1>9, RatesType
<1>13. Total(g, N) \in Int
  BY <1>4, <1>6, TotalType
<1>14. RateOf(R, X) + Total(g, N) <= RateOf(R, W)
  BY <1>7, <1>8, <1>10, <1>11, <1>12, <1>13
<1> QED BY <1>1, <1>14 DEF W

-----------------------------------------------------------------------------
(* A cut brings what is promised within the capacity.                      *)

(***************************************************************************)
(* The rows of a plan are heirs of the overflowed ones.                    *)
(***************************************************************************)
LEMMA ReplacementsAreHeirs ==
  ASSUME NEW R, Table(R), NEW I \in SUBSET Granted(R), NEW cap \in Nat
  PROVE  Table(Replacements(R, I, cap)) /\ Heirs(R, I, Replacements(R, I, cap))
<1> DEFINE new == Replacements(R, I, cap)
<1>1. Table(new) /\ Disjoint(new) /\ \A n \in DOMAIN new : IsPiece(R, I, cap, new[n])
  BY ReplacementsFacts
<1> HIDE DEF new
<1>2. I \subseteq DOMAIN R /\ \A i \in I : R[i].from \in 0 .. End
  BY GrantedFacts
<1>3. ASSUME NEW n \in DOMAIN new
      PROVE  /\ new[n].status = "GRANTED" /\ new[n].replaced \in I
             /\ R[new[n].replaced].from <= new[n].from /\ new[n].from < new[n].to
             /\ new[n].to <= R[new[n].replaced].to
             /\ new[n].rate <= R[new[n].replaced].rate
  <2> DEFINE p == new[n]
  <2>1. IsPiece(R, I, cap, p)
    BY <1>1
  <2> HIDE DEF p
  <2>2. /\ p.status = "GRANTED" /\ p.replaced \in I
        /\ R[p.replaced].from <= p.from /\ p.from < p.to /\ p.to <= R[p.replaced].to
        /\ p.rate = Scaled(R, I, cap, p.replaced, p.from)
    BY <2>1 DEF IsPiece
  <2>3. p.rate <= R[p.replaced].rate
    BY <2>2, ScaledFacts
  <2> QED BY <2>2, <2>3 DEF p
<1>4. Heirs(R, I, new)
  BY <1>1, <1>2, <1>3 DEF Heirs
<1> QED BY <1>1, <1>4 DEF new

(***************************************************************************)
(* What a replacement promises at t is what its row is cut to at t.        *)
(***************************************************************************)
LEMMA HeirRate ==
  ASSUME NEW R, Table(R), NEW I \in SUBSET Granted(R), NEW cap \in Nat,
         NEW n \in DOMAIN Replacements(R, I, cap), NEW t \in Int,
         Covers(Replacements(R, I, cap)[n], t)
  PROVE  LET p == Replacements(R, I, cap)[n] IN
         /\ p.replaced \in I /\ p.replaced \in At(R, t) /\ t \in 0 .. End - 1
         /\ p.rate = Scaled(R, I, cap, p.replaced, t)
<1> DEFINE p == Replacements(R, I, cap)[n]
           i == p.replaced
           s == <<p.from, p.to>>
<1>0. IsPiece(R, I, cap, p) /\ Table(Replacements(R, I, cap))
  BY ReplacementsFacts
<1>1. /\ i \in I /\ R[i].from <= p.from /\ p.from < p.to /\ p.to <= R[i].to
      /\ s \in Merged(R, I, cap, i) /\ p.rate = Scaled(R, I, cap, i, p.from)
      /\ p.status = "GRANTED" /\ Table(Replacements(R, I, cap))
  <2> HIDE DEF p
  <2> QED BY <1>0 DEF IsPiece
<1>2. p.from \in 0 .. End /\ p.to \in 1 .. End
  BY <1>1, GrantedFacts DEF Granted
<1>3. p.from <= t /\ t < p.to
  BY DEF Covers
<1>4. R[i].from \in 0 .. End /\ R[i].to \in 1 .. End /\ i \in Granted(R)
  BY <1>1, GrantedFacts
<1>5. R[i].from < R[i].to /\ R[i].from <= t /\ t < R[i].to /\ t \in 0 .. End - 1
  BY <1>1, <1>2, <1>3, <1>4, ConstantsAssumption
<1>6. i \in At(R, t)
  BY <1>4, <1>5, AtFacts
<1>7. s[1] = p.from /\ s[2] = p.to
  OBVIOUS
<1> HIDE DEF p, i, s
<1>8. \A u \in s[1] .. s[2] - 1 : Scaled(R, I, cap, i, u) = Scaled(R, I, cap, i, s[1])
  BY <1>1, <1>5, PieceFacts
<1>9. t \in s[1] .. s[2] - 1
  BY <1>2, <1>3, <1>7
<1>10. p.rate = Scaled(R, I, cap, i, t)
  BY <1>1, <1>7, <1>8, <1>9
<1> QED BY <1>1, <1>5, <1>6, <1>10 DEF p, i

(***************************************************************************)
(* Where too much is promised, everything is scaled by all that is         *)
(* promised, since all the grants under way there have overflowed.         *)
(***************************************************************************)
LEMMA ScaledByAll ==
  ASSUME NEW R, Table(R), NEW cap \in Nat, NEW t \in 0 .. End - 1, InOrder(R, t),
         NEW i \in Overflowed(R, cap)
  PROVE  Scaled(R, Overflowed(R, cap), cap, i, t)
           = IF RateAt(R, t) > cap THEN (R[i].rate * cap) \div RateAt(R, t) ELSE R[i].rate
<1> DEFINE I == Overflowed(R, cap)
           J == {j \in I : Covers(R[j], t)}
           total == RateOf(R, J)
<1>1. I \in SUBSET Granted(R)
  BY OverflowedGranted
<1>2. Scaled(R, I, cap, i, t) = IF total <= cap THEN R[i].rate ELSE (R[i].rate * cap) \div total
  BY DEF Scaled
<1>3. /\ J \subseteq At(R, t) /\ At(R, t) \in SUBSET DOMAIN R
      /\ RateAt(R, t) = RateOf(R, At(R, t))
  BY <1>1, AtFacts DEF At
<1>4. total \in Nat /\ RateAt(R, t) \in Nat /\ total <= RateAt(R, t)
  <2> HIDE DEF J
  <2>1. J \in SUBSET DOMAIN R
    BY <1>3
  <2> QED BY <1>3, <2>1, RatesType, RatesSubset
<1>5. CASE RateAt(R, t) > cap
  <2>1. At(R, t) \subseteq I
    BY <1>5, OverflowedMeets
  <2>2. J = At(R, t)
    BY <1>3, <2>1 DEF At
  <2>3. total = RateAt(R, t)
    BY <1>3, <2>2
  <2> HIDE DEF total, I
  <2>4. ~(total <= cap)
    BY <1>4, <1>5, <2>3
  <2> QED BY <1>2, <1>5, <2>3, <2>4 DEF I
<1>6. CASE ~(RateAt(R, t) > cap)
  <2> HIDE DEF total, I
  <2>1. total <= cap
    BY <1>4, <1>6
  <2> QED BY <1>2, <1>6, <2>1 DEF I
<1> QED BY <1>5, <1>6

(***************************************************************************)
(* A re-review that writes what it has planned on rows that are still      *)
(* those it has read brings what is promised within the capacity, at every *)
(* time from the one up to which grants may be out of order.  This is what *)
(* getOverflowedGrantsWithGrantorRates and buildReplacementGrants are for. *)
(***************************************************************************)
THEOREM CutFits ==
  ASSUME NEW R, Table(R), NEW cap \in Nat, NEW t \in 0 .. End - 1, InOrder(R, t)
  PROVE  LET I == Overflowed(R, cap) IN
         RateAt(After(R, I, Replacements(R, I, cap)), t) <= cap
<1> DEFINE I == Overflowed(R, cap)
           new == Replacements(R, I, cap)
           A == After(R, I, new)
           K == DOMAIN R
           N == New(new, K, t)
           X == Old(R, I, K, t)
           g == NewRates(new)
           W == {i \in At(A, t) : i \in HeirsOf(R, new, K)}
           total == RateAt(R, t)
<1>1. I \in SUBSET Granted(R) /\ I \subseteq DOMAIN R
  BY OverflowedGranted, GrantedFacts
<1>2. Table(new) /\ Heirs(R, I, new)
  <2> HIDE DEF I
  <2> QED BY <1>1, ReplacementsAreHeirs
<1>3. Table(A) /\ W = At(A, t)
  <2> HIDE DEF I, new
  <2>1. /\ Table(A)
        /\ \A i \in DOMAIN A : i \in DOMAIN R \/ \E n \in DOMAIN new : i = Len(R) + n
    BY <1>2, AfterFacts
  <2>2. \A n \in DOMAIN new : new[n].replaced \in K
    BY <1>1, <1>2 DEF Heirs
  <2>3. At(A, t) \subseteq DOMAIN A
    BY <2>1, AtFacts
  <2> HIDE DEF A
  <2>4. \A i \in DOMAIN A : i \in HeirsOf(R, new, K)
    BY <2>1, <2>2 DEF HeirsOf
  <2> QED BY <2>1, <2>3, <2>4
<1>4. RateAt(A, t) = RateOf(A, W)
  BY <1>3, AtFacts
<1>5. total \in Nat /\ total = RateOf(R, At(R, t)) /\ At(R, t) \in SUBSET DOMAIN R
  BY AtFacts
<1>6. CASE total <= cap
  <2> HIDE DEF I, new, total
  <2>1. K \in SUBSET DOMAIN R /\ K \cap I \subseteq Granted(R)
    BY <1>1
  <2>2. RateOf(A, W) <= RateOf(R, {i \in At(R, t) : i \in K})
    BY <1>2, <2>1, HeirsShrink
  <2>3. {i \in At(R, t) : i \in K} = At(R, t)
    BY <1>5
  <2>4. RateAt(A, t) \in Nat
    BY <1>3, AtFacts
  <2>5. RateOf(A, W) <= total
    BY <1>5, <2>2, <2>3
  <2> HIDE DEF W, A, K
  <2>6. RateAt(A, t) <= cap
    BY <1>4, <1>5, <1>6, <2>4, <2>5
  <2> QED BY <2>6 DEF A, new, I
<1>7. CASE total > cap
  <2>1. At(R, t) \subseteq I
    BY <1>7, OverflowedMeets
  <2>2. X = {}
    BY <2>1 DEF Old
  <2>3. \A n \in N : /\ n \in DOMAIN new /\ new[n].replaced \in I
                     /\ new[n].rate = Scaled(R, I, cap, new[n].replaced, t)
    <3> SUFFICES ASSUME NEW n \in N
                 PROVE  /\ n \in DOMAIN new /\ new[n].replaced \in I
                        /\ new[n].rate = Scaled(R, I, cap, new[n].replaced, t)
      OBVIOUS
    <3>1. n \in DOMAIN new /\ Covers(new[n], t)
      BY DEF New
    <3> HIDE DEF I
    <3> QED BY <1>1, <3>1, HeirRate
  <2>4. \A n \in N : /\ g[n] \in Nat /\ R[new[n].replaced].rate \in Nat
                     /\ total * g[n] <= R[new[n].replaced].rate * cap
    <3> SUFFICES ASSUME NEW n \in N
                 PROVE  /\ g[n] \in Nat /\ R[new[n].replaced].rate \in Nat
                        /\ total * g[n] <= R[new[n].replaced].rate * cap
      OBVIOUS
    <3> DEFINE i == new[n].replaced
    <3>1. i \in I /\ g[n] = Scaled(R, I, cap, i, t)
      BY <2>3 DEF NewRates
    <3> HIDE DEF i, total
    <3>2. g[n] = (R[i].rate * cap) \div total
      BY <1>7, <3>1, ScaledByAll DEF total
    <3>3. R[i].rate \in Nat
      BY <1>1, <3>1, RowFacts
    <3> QED BY <1>5, <1>7, <3>2, <3>3, ScaledDown DEF i
  <2> DEFINE f == [n \in N |-> R[new[n].replaced].rate]
             u == [n \in N |-> total * g[n]]
             v == [n \in N |-> cap * f[n]]
  <2>5. \A n \in N : f[n] = R[new[n].replaced].rate
    OBVIOUS
  <2> HIDE DEF f
  <2>6. /\ IsFiniteSet(N)
        /\ \E Z \in SUBSET {i \in At(R, t) : i \in K /\ i \in I} : Total(f, N) = RateOf(R, Z)
    <3>1. K \in SUBSET DOMAIN R /\ K \cap I \subseteq Granted(R)
      BY <1>1
    <3> HIDE DEF I, new
    <3> QED BY <1>2, <2>5, <3>1, ReplacedSum
  <2>7. PICK Z \in SUBSET {i \in At(R, t) : i \in K /\ i \in I} : Total(f, N) = RateOf(R, Z)
    BY <2>6
  <2>8. RateOf(R, Z) <= total /\ RateOf(R, Z) \in Nat
    <3>1. Z \in SUBSET At(R, t) /\ Z \in SUBSET DOMAIN R
      BY <1>5, <2>7
    <3> QED BY <1>5, <3>1, RatesSubset, RatesType
  <2>9. RateOf(A, W) = RateOf(R, X) + Total(g, N)
    <3> HIDE DEF I, new
    <3>1. K \in SUBSET DOMAIN R
      OBVIOUS
    <3> QED BY <1>2, <3>1, SumSplits
  <2>10. RateOf(R, X) = 0
    BY <2>2, TotalEmpty DEF RateOf
  <2>11. \A n \in N : /\ g[n] \in Nat /\ f[n] \in Nat
                      /\ u[n] = total * g[n] /\ v[n] = cap * f[n]
                      /\ total * g[n] <= f[n] * cap
    BY <2>4, <2>5
  <2>12. RateOf(A, W) = Total(g, N)
    <3>1. Total(g, N) \in Int
      <4> HIDE DEF g, N
      <4> QED BY <2>6, <2>11, TotalType
    <3> QED BY <2>9, <2>10, <3>1
  <2> HIDE DEF g, N, u, v, total, W, A, I
  <2>13. \A n \in N : u[n] \in Int /\ v[n] \in Int /\ u[n] <= v[n]
    <3> TAKE n \in N
    <3>1. f[n] * cap = cap * f[n]
      BY <2>11
    <3> QED BY <1>5, <2>11, <3>1
  <2>14. Total(u, N) <= Total(v, N)
    BY <2>6, <2>13, TotalMonotone
  <2>15. Total(u, N) = total * Total(g, N)
    BY <1>5, <2>6, <2>11, TotalScale
  <2>16. Total(v, N) = cap * Total(f, N)
    BY <2>6, <2>11, TotalScale
  <2>17. Total(g, N) \in Nat /\ Total(f, N) \in Nat
    BY <2>6, <2>11, TotalNat
  <2>18. Total(g, N) <= cap
    <3> DEFINE a == Total(g, N)
               b == Total(f, N)
    <3>1. a \in Nat /\ b \in Nat /\ b <= total /\ total * a <= cap * b
      BY <2>7, <2>8, <2>14, <2>15, <2>16, <2>17
    <3> HIDE DEF a, b
    <3>2. cap * b <= cap * total
      BY <3>1, <1>5
    <3>3. ASSUME a >= cap + 1 PROVE FALSE
      <4>1. total * a >= total * (cap + 1)
        BY <3>1, <3>3, <1>5
      <4>2. total * (cap + 1) = cap * total + total
        BY <1>5
      <4>3. cap * total \in Nat /\ total * a \in Nat /\ cap * b \in Nat
        BY <1>5, <3>1
      <4> HIDE DEF total
      <4> QED BY <3>1, <3>2, <4>1, <4>2, <4>3, <1>5, <1>7
    <3>4. a <= cap
      BY <3>1, <3>3
    <3> QED BY <3>4 DEF a
  <2> QED BY <1>4, <2>12, <2>18 DEF A, I
<1>8. total <= cap \/ total > cap
  BY <1>5
<1> QED BY <1>6, <1>7, <1>8

-----------------------------------------------------------------------------
(* A cut is fair.                                                          *)

\* Every row is granted, and for a while.
AllSpans(R) ==
  Table(R) /\ \A i \in DOMAIN R : R[i].status = "GRANTED" /\ R[i].from < R[i].to

\* The times at which more is promised than the capacity.
Over(R, cap) == {t \in 0 .. End - 1 : RateAt(R, t) > cap}

(***************************************************************************)
(* The lesser and the greater of two numbers.                              *)
(***************************************************************************)
LEMMA MinMaxOfTwo ==
  ASSUME NEW a \in Int, NEW b \in Int
  PROVE  /\ Min({a, b}) = IF a <= b THEN a ELSE b
         /\ Max({a, b}) = IF a <= b THEN b ELSE a
<1> DEFINE S == {a, b}
<1>1. IsFiniteSet(S)
  <2>1. IsFiniteSet({a}) /\ IsFiniteSet({b}) /\ S = {a} \cup {b}
    BY FS_Singleton
  <2> QED BY <2>1, FS_Union
<1>2. S \subseteq Int /\ S # {}
  OBVIOUS
<1> HIDE DEF S
<1>3. Min(S) \in S /\ Max(S) \in S /\ \A y \in S : Min(S) <= y /\ y <= Max(S)
  BY <1>1, <1>2, MinOfInts, MaxOfInts
<1> QED BY <1>3 DEF S

(***************************************************************************)
(* A re-review touches exactly the grants that meet a time at which too    *)
(* much is promised.                                                       *)
(***************************************************************************)
LEMMA CutWhere ==
  ASSUME NEW R, AllSpans(R), NEW cap \in Nat
  PROVE  Overflowed(R, cap) = {i \in DOMAIN R : \E t \in Over(R, cap) : Covers(R[i], t)}
<1>1. Table(R) /\ (\A i \in DOMAIN R : i \in Granted(R) /\ R[i].from < R[i].to)
      /\ Granted(R) \subseteq DOMAIN R
  BY DEF AllSpans, Granted
<1>2. ASSUME NEW i \in Overflowed(R, cap)
      PROVE  i \in DOMAIN R /\ \E t \in Over(R, cap) : Covers(R[i], t)
  <2>1. PICK t \in 0 .. End - 1 : RateAt(R, t) > cap /\ i \in At(R, t)
    BY <1>1, OverflowedOnly
  <2>2. t \in Over(R, cap) /\ Covers(R[i], t) /\ i \in DOMAIN R
    BY <1>1, <2>1 DEF Over, At
  <2> QED BY <2>2
<1>3. ASSUME NEW i \in DOMAIN R, NEW t \in Over(R, cap), Covers(R[i], t)
      PROVE  i \in Overflowed(R, cap)
  <2>1. t \in 0 .. End - 1 /\ RateAt(R, t) > cap
    BY DEF Over
  <2>2. i \in At(R, t)
    BY <1>1, <1>3 DEF At
  <2>3. InOrder(R, t)
    BY <1>1 DEF InOrder
  <2> QED BY <1>1, <2>1, <2>2, <2>3, OverflowedMeets
<1> QED BY <1>2, <1>3

(***************************************************************************)
(* The stretch of one rate around t is the piece around t.                 *)
(***************************************************************************)
LEMMA AlikeIsPiece ==
  ASSUME NEW R, Table(R), NEW I \in SUBSET Granted(R), NEW cap \in Nat, NEW i \in I,
         R[i].from < R[i].to, NEW s \in Merged(R, I, cap, i), NEW t \in Int,
         s[1] <= t, t < s[2]
  PROVE  Alike(R, I, cap, i, t) = s[1] .. s[2] - 1
<1> DEFINE from == R[i].from
           to == R[i].to
           at(u) == Scaled(R, I, cap, i, u)
           a == s[1]
           b == s[2]
           run == Alike(R, I, cap, i, t)
<1>1. /\ a \in 0 .. End /\ b \in 1 .. End /\ from <= a /\ a < b /\ b <= to
      /\ \A u \in a .. b - 1 : at(u) = at(a)
      /\ a = from \/ at(a) # at(a - 1)
      /\ b = to \/ at(b) # at(b - 1)
  BY PieceFacts
<1>2. from \in 0 .. End /\ to \in 1 .. End
  BY GrantedFacts
<1>3. run = {u \in from .. to - 1 : \A v \in Min({t, u}) .. Max({t, u}) : at(v) = at(t)}
  BY DEF Alike
<1>4. at(t) = at(a)
  BY <1>1
<1> HIDE DEF from, to, at, a, b, run
<1>5. ASSUME NEW u \in a .. b - 1 PROVE u \in run
  <2>1. u \in from .. to - 1 /\ t \in a .. b - 1
    BY <1>1, <1>2 DEF a, b
  <2>2. \A v \in Min({t, u}) .. Max({t, u}) : v \in a .. b - 1
    BY <1>1, <2>1, MinMaxOfTwo
  <2> QED BY <1>1, <1>3, <1>4, <2>1, <2>2
<1>6. ASSUME NEW u \in run PROVE u \in a .. b - 1
  <2>1. u \in from .. to - 1 /\ \A v \in Min({t, u}) .. Max({t, u}) : at(v) = at(t)
    BY <1>3
  <2>2. a <= t /\ t < b
    BY DEF a, b
  <2>3. ASSUME u < a PROVE FALSE
    <3>1. a - 1 \in Min({t, u}) .. Max({t, u})
      BY <1>1, <1>2, <2>1, <2>2, <2>3, MinMaxOfTwo
    <3>2. at(a - 1) = at(a)
      BY <3>1, <2>1, <1>4
    <3>3. a # from
      BY <1>1, <1>2, <2>1, <2>3
    <3> QED BY <3>2, <3>3, <1>1
  <2>4. ASSUME b <= u PROVE FALSE
    <3>1. b - 1 \in Min({t, u}) .. Max({t, u}) /\ b \in Min({t, u}) .. Max({t, u})
      BY <1>1, <1>2, <2>1, <2>2, <2>4, MinMaxOfTwo
    <3>2. at(b - 1) = at(b)
      BY <3>1, <2>1
    <3>3. b # to
      BY <1>1, <1>2, <2>1, <2>4
    <3> QED BY <3>2, <3>3, <1>1
  <2> QED BY <1>1, <1>2, <2>1, <2>3, <2>4
<1>7. run = a .. b - 1
  BY <1>5, <1>6
<1> QED BY <1>7 DEF run, a, b

(***************************************************************************)
(* The ends and the size of an interval.                                   *)
(***************************************************************************)
LEMMA IntervalEnds ==
  ASSUME NEW a \in Int, NEW b \in Int, a < b
  PROVE  /\ Min(a .. b - 1) = a /\ Max(a .. b - 1) = b - 1
         /\ Cardinality(a .. b - 1) = b - a
<1> DEFINE S == a .. b - 1
<1>1. IsFiniteSet(S) /\ S \subseteq Int /\ a \in S /\ b - 1 \in S
  BY FS_Interval
<1>2. Cardinality(S) = b - a
  BY FS_Interval
<1>3. \A y \in S : a <= y /\ y <= b - 1
  OBVIOUS
<1> HIDE DEF S
<1>4. Min(S) \in S /\ Max(S) \in S /\ \A y \in S : Min(S) <= y /\ y <= Max(S)
  BY <1>1, MinOfInts, MaxOfInts
<1>5. Min(S) = a
  <2>1. a <= Min(S) /\ Min(S) <= a /\ Min(S) \in Int
    BY <1>1, <1>3, <1>4
  <2> QED BY <2>1
<1>6. Max(S) = b - 1
  <2>1. b - 1 <= Max(S) /\ Max(S) <= b - 1 /\ Max(S) \in Int
    BY <1>1, <1>3, <1>4
  <2> QED BY <2>1
<1> QED BY <1>2, <1>5, <1>6 DEF S

(***************************************************************************)
(* For any number of grants: at each time of an overflowed grant there is  *)
(* one replacement, of the same length as the stretch of one rate around   *)
(* it, with the grant's share of the capacity where too much is promised   *)
(* and its own rate elsewhere; there is none only where that share rounds  *)
(* to nothing or the stretch is shorter than a day.                        *)
(***************************************************************************)
THEOREM CutFair ==
  ASSUME NEW R, AllSpans(R), NEW cap \in Nat, NEW i \in Overflowed(R, cap),
         NEW t \in R[i].from .. R[i].to - 1
  PROVE  LET I     == Overflowed(R, cap)
             new   == Replacements(R, I, cap)
             run   == Alike(R, I, cap, i, t)
             short == Max(run) + 1 # End /\ Cardinality(run) < Day
             heirs == {n \in DOMAIN new : new[n].replaced = i /\ Covers(new[n], t)}
             fair  == IF t \in Over(R, cap) THEN (R[i].rate * cap) \div RateAt(R, t)
                                            ELSE R[i].rate
         IN  /\ heirs = {} <=> fair = 0 \/ short
             /\ Cardinality(heirs) <= 1
             /\ \A n \in heirs : /\ new[n].from = Min(run) /\ new[n].to = Max(run) + 1
                                 /\ new[n].rate = fair
<1> DEFINE I     == Overflowed(R, cap)
           new   == Replacements(R, I, cap)
           run   == Alike(R, I, cap, i, t)
           short == Max(run) + 1 # End /\ Cardinality(run) < Day
           heirs == {n \in DOMAIN new : new[n].replaced = i /\ Covers(new[n], t)}
           fair  == IF t \in Over(R, cap) THEN (R[i].rate * cap) \div RateAt(R, t)
                                          ELSE R[i].rate
           at(u) == Scaled(R, I, cap, i, u)
<1>1. /\ Table(R) /\ I \in SUBSET Granted(R) /\ i \in I /\ R[i].from < R[i].to
      /\ InOrder(R, t)
      /\ R[i].from \in 0 .. End /\ R[i].to \in 1 .. End /\ t \in 0 .. End - 1
      /\ R[i].from <= t /\ t < R[i].to
  <2>1. Table(R) /\ I \in SUBSET Granted(R) /\ Granted(R) \subseteq DOMAIN R
    BY OverflowedGranted DEF AllSpans, Granted
  <2>2. R[i].from \in 0 .. End /\ R[i].to \in 1 .. End
    BY <2>1, GrantedFacts
  <2>3. R[i].from < R[i].to /\ InOrder(R, t)
    BY <2>1 DEF AllSpans, InOrder
  <2>4. t \in 0 .. End - 1 /\ R[i].from <= t /\ t < R[i].to
    BY <2>2, ConstantsAssumption
  <2> QED BY <2>1, <2>2, <2>3, <2>4
<1>2. fair = at(t)
  BY <1>1, ScaledByAll DEF Over
<1> HIDE DEF I, new, run, short, heirs, fair, at
<1>3. PICK s \in Merged(R, I, cap, i) : s[1] <= t /\ t < s[2]
  <2>1. t \in 0 .. End
    BY <1>1, ConstantsAssumption
  <2> QED BY <1>1, <2>1, PieceAround
<1>4. /\ s[1] \in 0 .. End /\ s[2] \in 1 .. End /\ s[1] < s[2]
      /\ \A u \in s[1] .. s[2] - 1 : at(u) = at(s[1])
  <2>1. \A u \in s[1] .. s[2] - 1 : Scaled(R, I, cap, i, u) = Scaled(R, I, cap, i, s[1])
    BY <1>1, <1>3, PieceFacts
  <2>2. s[1] \in 0 .. End /\ s[2] \in 1 .. End /\ s[1] < s[2]
    BY <1>1, <1>3, PieceFacts
  <2> QED BY <2>1, <2>2 DEF at
<1>5. at(t) = at(s[1])
  BY <1>1, <1>3, <1>4
<1>6. run = s[1] .. s[2] - 1
  BY <1>1, <1>3, AlikeIsPiece DEF run
<1>7. Min(run) = s[1] /\ Max(run) + 1 = s[2] /\ Cardinality(run) = s[2] - s[1]
  BY <1>4, <1>6, IntervalEnds
<1>8. at(t) \in Nat
  BY <1>1, ScaledFacts DEF at
<1>9. IsKept(s, fair) <=> ~(fair = 0 \/ short)
  BY <1>2, <1>4, <1>7, <1>8, ConstantsAssumption DEF IsKept, short
<1>10. /\ Table(new) /\ Disjoint(new) /\ Lists(new, R, I, cap)
       /\ \A n \in DOMAIN new : IsPiece(R, I, cap, new[n])
  BY <1>1, ReplacementsFacts DEF new
<1>11. ASSUME NEW n \in heirs
       PROVE  /\ n \in DOMAIN new /\ new[n].from = s[1] /\ new[n].to = s[2]
              /\ new[n].rate = fair /\ IsKept(s, fair)
  <2> DEFINE p == new[n]
             u == <<p.from, p.to>>
  <2>1. n \in DOMAIN new /\ p.replaced = i /\ p.from <= t /\ t < p.to
    BY DEF Covers, heirs
  <2>2. IsPiece(R, I, cap, p)
    BY <1>10, <2>1
  <2> HIDE DEF p
  <2>3. u \in Merged(R, I, cap, i) /\ p.rate = at(p.from) /\ IsKept(u, p.rate)
    BY <2>1, <2>2 DEF IsPiece, at
  <2>4. u[1] = p.from /\ u[2] = p.to
    OBVIOUS
  <2> HIDE DEF u
  <2>5. u[1] \in 0 .. End /\ u[2] \in 1 .. End
    BY <1>1, <2>3, PieceFacts
  <2>6. s = u \/ s[2] <= u[1] \/ u[2] <= s[1]
    BY <1>1, <2>3, PiecesApart
  <2>7. s = u
    BY <1>1, <1>3, <1>4, <2>1, <2>4, <2>5, <2>6
  <2> QED BY <1>2, <1>5, <2>1, <2>3, <2>4, <2>7 DEF p
<1>12. ASSUME IsKept(s, fair) PROVE heirs # {}
  <2>1. IsKept(s, Scaled(R, I, cap, i, s[1]))
    BY <1>2, <1>5, <1>12 DEF at
  <2>2. PICK n \in DOMAIN new : new[n].replaced = i /\ new[n].from = s[1] /\ new[n].to = s[2]
    BY <1>1, <1>10, <2>1 DEF Lists
  <2>3. n \in heirs
    BY <1>3, <2>2 DEF Covers, heirs
  <2> QED BY <2>3
<1>13. ASSUME NEW m \in heirs, NEW n \in heirs PROVE m = n
  <2> SUFFICES ASSUME m # n PROVE FALSE
    OBVIOUS
  <2>0. new[m].replaced = i /\ new[n].replaced = i
    BY DEF heirs
  <2>1. new[m].to <= new[n].from \/ new[n].to <= new[m].from
    BY <1>10, <1>11, <2>0 DEF Disjoint, heirs
  <2> QED BY <1>4, <1>11, <2>1
<1>14. Cardinality(heirs) <= 1
  <2>1. CASE heirs = {}
    BY <2>1, FS_EmptySet
  <2>2. CASE heirs # {}
    <3>1. PICK n \in heirs : TRUE
      BY <2>2
    <3>2. heirs = {n}
      BY <1>13, <3>1
    <3>3. Cardinality({n}) = 1
      BY FS_Singleton
    <3> QED BY <3>2, <3>3
  <2> QED BY <2>1, <2>2
<1>15. heirs = {} <=> fair = 0 \/ short
  BY <1>9, <1>11, <1>12
<1>16. \A n \in heirs : /\ new[n].from = Min(run) /\ new[n].to = Max(run) + 1
                        /\ new[n].rate = fair
  BY <1>7, <1>11
<1> QED BY <1>14, <1>15, <1>16 DEF heirs, short, fair, run, new, I, at

(***************************************************************************)
(* Three grants of any span are such a table.                              *)
(***************************************************************************)
LEMMA SpansTable == ASSUME NEW R \in [1 .. 3 -> Spans] PROVE AllSpans(R)
<1>1. ASSUME NEW g \in Spans
      PROVE  /\ g \in Row /\ g.status = "GRANTED" /\ g.from \in 0 .. End - 1
             /\ g.to \in 1 .. End /\ g.from < g.to
  <2>1. /\ g \in [status : {"GRANTED"}, from : 0 .. End - 1, to : 1 .. End,
                  rate : Rates, replaced : {0}]
        /\ g.from < g.to
    BY DEF Spans
  <2>2. Rates \subseteq Nat /\ End \in Nat
    BY ConstantsAssumption
  <2>3. /\ g.status = "GRANTED" /\ g.from \in 0 .. End - 1 /\ g.to \in 1 .. End
        /\ g.rate \in Rates /\ g.replaced = 0 /\ g.from < g.to
        /\ g = [status |-> g.status, from |-> g.from, to |-> g.to, rate |-> g.rate,
                replaced |-> g.replaced]
    BY <2>1
  <2>4. g.from \in (0 .. End) \cup {None} /\ g.rate \in Nat /\ g.replaced \in Nat
        /\ g.status \in {"PENDING", "FAILED", "GRANTED", "DISABLED"}
    BY <2>2, <2>3
  <2>5. g \in Row
    BY <2>3, <2>4 DEF Row
  <2> QED BY <2>3, <2>5
<1>2. DOMAIN R = 1 .. 3 /\ \A i \in 1 .. 3 : R[i] \in Spans
  OBVIOUS
<1>3. R \in [1 .. 3 -> Row]
  BY <1>1, <1>2
<1>4. R \in Seq(Row)
  BY <1>3, SeqDef
<1>5. \A i \in DOMAIN R : R[i].status = "GRANTED" /\ R[i].from \in Int /\ R[i].from < R[i].to
  BY <1>1, <1>2
<1>6. \A i \in DOMAIN R : R[i].from # None
  BY <1>5, ConstantsAssumption
<1> QED BY <1>4, <1>5, <1>6 DEF AllSpans, Table

(***************************************************************************)
(* CutsAreFair is the case of three grants.                                *)
(***************************************************************************)
LEMMA CutsOfThree == ASSUME capacity \in Nat PROVE CutsAreFair
<1> SUFFICES ASSUME NEW R \in [1 .. 3 -> Spans]
             PROVE  LET I    == Overflowed(R, capacity)
                        new  == Replacements(R, I, capacity)
                        over == {t \in 0 .. End - 1 : RateAt(R, t) > capacity}
                    IN  /\ I = {i \in DOMAIN R : \E t \in over : Covers(R[i], t)}
                        /\ \A i \in I : \A t \in R[i].from .. R[i].to - 1 :
                             LET run   == Alike(R, I, capacity, i, t)
                                 short == Max(run) + 1 # End /\ Cardinality(run) < Day
                                 heirs == {n \in DOMAIN new : new[n].replaced = i /\ Covers(new[n], t)}
                                 fair  == IF t \in over THEN (R[i].rate * capacity) \div RateAt(R, t)
                                                       ELSE R[i].rate
                             IN  /\ heirs = {} <=> fair = 0 \/ short
                                 /\ Cardinality(heirs) <= 1
                                 /\ \A n \in heirs :
                                      /\ new[n].from = Min(run) /\ new[n].to = Max(run) + 1
                                      /\ new[n].rate = fair
  BY DEF CutsAreFair
<1>1. AllSpans(R)
  BY SpansTable
<1>2. Overflowed(R, capacity) = {i \in DOMAIN R : \E t \in Over(R, capacity) : Covers(R[i], t)}
  BY <1>1, CutWhere
<1> QED BY <1>1, <1>2, CutFair DEF Over

-----------------------------------------------------------------------------
(* The queue of pending rows.                                              *)

(***************************************************************************)
(* A row that leaves the queue.                                            *)
(***************************************************************************)
LEMMA WithoutFirst ==
  ASSUME NEW S, NEW q \in Seq(S), IsInjective(q), NEW e
  PROVE  /\ RemoveFirst(q, e) \in Seq(S) /\ IsInjective(RemoveFirst(q, e))
         /\ ToSet(RemoveFirst(q, e)) = ToSet(q) \ {e}
<1> DEFINE out == RemoveFirst(q, e)
           Found == {i \in 1 .. Len(q) : q[i] = e}
<1>1. q \in [1 .. Len(q) -> S] /\ Len(q) \in Nat /\ DOMAIN q = 1 .. Len(q)
  BY LenProperties
<1>2. CASE Found = {}
  <2>1. out = q
    BY <1>2 DEF RemoveFirst
  <2>2. e \notin ToSet(q)
    BY <1>1, <1>2 DEF ToSet
  <2> QED BY <2>1, <2>2
<1>3. CASE Found # {}
  <2> DEFINE m == Min(Found)
             a == SubSeq(q, 1, m - 1)
             b == SubSeq(q, m + 1, Len(q))
  <2>1. out = a \o b
    BY <1>3 DEF RemoveFirst, RemoveAt, SelectInSeq
  <2>2. m \in 1 .. Len(q) /\ q[m] = e
    <3>1. IsFiniteSet(1 .. Len(q))
      BY <1>1, FS_Interval
    <3>2. IsFiniteSet(Found) /\ Found \subseteq Int
      BY <3>1, FS_Subset
    <3>3. Min(Found) \in Found
      BY <3>2, <1>3, MinOfInts
    <3> QED BY <3>3
  <2> HIDE DEF m
  <2>3. \A i \in 1 .. m - 1 : q[i] \in S
    BY <1>1, <2>2
  <2>4. \A i \in m + 1 .. Len(q) : q[i] \in S
    BY <1>1, <2>2
  <2>5. a \in Seq(S) /\ Len(a) = m - 1 /\ \A i \in 1 .. m - 1 : a[i] = q[i]
    <3>1. /\ a \in Seq(S)
          /\ Len(a) = IF 1 <= m - 1 THEN m - 1 - 1 + 1 ELSE 0
          /\ \A i \in 1 .. m - 1 - 1 + 1 : a[i] = q[1 + i - 1]
      BY <2>2, <2>3, SubSeqProperties
    <3> QED BY <3>1, <2>2
  <2>6. /\ b \in Seq(S) /\ Len(b) = Len(q) - m
        /\ \A i \in 1 .. Len(q) - m : b[i] = q[m + i]
    <3>1. /\ b \in Seq(S)
          /\ Len(b) = IF m + 1 <= Len(q) THEN Len(q) - (m + 1) + 1 ELSE 0
          /\ \A i \in 1 .. Len(q) - (m + 1) + 1 : b[i] = q[m + 1 + i - 1]
      BY <1>1, <2>2, <2>4, SubSeqProperties
    <3>2. ASSUME NEW i \in 1 .. Len(q) - m PROVE b[i] = q[m + i]
      <4>1. i \in 1 .. Len(q) - (m + 1) + 1 /\ m + 1 + i - 1 = m + i
        BY <1>1, <2>2
      <4> QED BY <3>1, <4>1
    <3> HIDE DEF b
    <3>3. Len(b) = Len(q) - m
      <4>1. Len(q) \in Nat /\ m \in Int /\ m <= Len(q)
        BY <1>1, <2>2
      <4>2. Len(b) = IF m + 1 <= Len(q) THEN Len(q) - (m + 1) + 1 ELSE 0
        BY <3>1
      <4>3. CASE m + 1 <= Len(q)
        BY <4>1, <4>2, <4>3
      <4>4. CASE m = Len(q)
        BY <4>1, <4>2, <4>4
      <4> QED BY <4>1, <4>3, <4>4
    <3> QED BY <3>1, <3>2, <3>3
  <2> HIDE DEF a, b
  <2>7. /\ a \o b \in Seq(S) /\ Len(a \o b) = Len(q) - 1
        /\ \A i \in 1 .. Len(q) - 1 : (a \o b)[i] = IF i < m THEN q[i] ELSE q[i + 1]
    <3>1. /\ a \o b \in Seq(S) /\ Len(a \o b) = Len(a) + Len(b)
          /\ \A i \in 1 .. Len(a) + Len(b) : (a \o b)[i] = IF i <= Len(a) THEN a[i] ELSE b[i - Len(a)]
      BY <2>5, <2>6, ConcatProperties
    <3>2. Len(a) + Len(b) = Len(q) - 1
      BY <1>1, <2>2, <2>5, <2>6
    <3>3. ASSUME NEW i \in 1 .. Len(q) - 1
          PROVE  (a \o b)[i] = IF i < m THEN q[i] ELSE q[i + 1]
      <4>1. CASE i < m
        <5>1. i <= Len(a) /\ i \in 1 .. m - 1
          BY <4>1, <2>2, <2>5
        <5> QED BY <5>1, <4>1, <3>1, <3>2, <2>5
      <4>2. CASE m <= i
        <5>1. /\ i - Len(a) = i - m + 1 /\ ~(i <= Len(a))
              /\ i - m + 1 \in 1 .. Len(q) - m
          BY <4>2, <1>1, <2>2, <2>5
        <5>2. (a \o b)[i] = b[i - m + 1]
          BY <5>1, <3>1, <3>2
        <5>3. b[i - m + 1] = q[m + (i - m + 1)] /\ m + (i - m + 1) = i + 1
          BY <5>1, <2>2, <2>6
        <5> QED BY <5>2, <5>3, <4>2, <2>2
      <4>3. i < m \/ m <= i
        BY <2>2, <1>1
      <4> QED BY <4>1, <4>2, <4>3, Zenon
    <3> QED BY <3>1, <3>2, <3>3
  <2> DEFINE c == a \o b
  <2>8. DOMAIN c = 1 .. Len(q) - 1
    BY <2>7, LenProperties
  <2>9. /\ c \in Seq(S)
        /\ \A i \in 1 .. Len(q) - 1 : c[i] = IF i < m THEN q[i] ELSE q[i + 1]
    BY <2>7
  <2> HIDE DEF c
  <2>10. IsInjective(c)
    <3> SUFFICES ASSUME NEW i \in 1 .. Len(q) - 1, NEW j \in 1 .. Len(q) - 1, c[i] = c[j]
                 PROVE  i = j
      BY <2>8 DEF IsInjective
    <3> DEFINE u == IF i < m THEN i ELSE i + 1
               v == IF j < m THEN j ELSE j + 1
    <3>1. u \in 1 .. Len(q) /\ v \in 1 .. Len(q)
      BY <1>1, <2>2
    <3>2. c[i] = q[u] /\ c[j] = q[v]
      BY <2>9
    <3>3. u = v
      BY <3>1, <3>2, <1>1 DEF IsInjective
    <3> QED BY <3>3, <2>2
  <2>11. ToSet(c) = ToSet(q) \ {e}
    <3>1. ASSUME NEW i \in 1 .. Len(q) - 1 PROVE c[i] \in ToSet(q) \ {e}
      <4> DEFINE u == IF i < m THEN i ELSE i + 1
      <4>1. u \in 1 .. Len(q) /\ u # m /\ c[i] = q[u]
        BY <1>1, <2>2, <2>9
      <4> HIDE DEF u
      <4>2. q[u] # q[m]
        BY <4>1, <2>2, <1>1 DEF IsInjective
      <4> QED BY <4>1, <4>2, <2>2, <1>1 DEF ToSet
    <3>2. ASSUME NEW i \in 1 .. Len(q), q[i] # e
          PROVE  \E j \in 1 .. Len(q) - 1 : c[j] = q[i]
      <4>1. i < m \/ m < i
        BY <3>2, <2>2
      <4>2. CASE i < m
        <5>1. i \in 1 .. Len(q) - 1 /\ c[i] = q[i]
          BY <4>2, <2>2, <2>9, <1>1
        <5> QED BY <5>1
      <4>3. CASE m < i
        <5>1. i - 1 \in 1 .. Len(q) - 1 /\ c[i - 1] = q[i - 1 + 1] /\ i - 1 + 1 = i
          BY <4>3, <2>2, <2>9, <1>1
        <5> QED BY <5>1
      <4> QED BY <4>1, <4>2, <4>3
    <3> QED BY <3>1, <3>2, <2>8, <1>1 DEF ToSet
  <2> QED BY <2>1, <2>9, <2>10, <2>11 DEF c
<1> QED BY <1>2, <1>3

(***************************************************************************)
(* A row that joins the queue.                                             *)
(***************************************************************************)
LEMMA WithLast ==
  ASSUME NEW S, NEW q \in Seq(S), IsInjective(q), NEW e \in S, e \notin ToSet(q)
  PROVE  /\ q \o <<e>> = Append(q, e) /\ q \o <<e>> \in Seq(S)
         /\ IsInjective(q \o <<e>>)
         /\ ToSet(q \o <<e>>) = ToSet(q) \cup {e}
<1>1. q \o <<e>> = Append(q, e)
  BY AppendIsConcat
<1> DEFINE c == Append(q, e)
<1>2. DOMAIN q = 1 .. Len(q) /\ Len(q) \in Nat
  BY LenProperties
<1>3. /\ c \in Seq(S) /\ Len(c) = Len(q) + 1
      /\ (\A i \in 1 .. Len(q) : c[i] = q[i]) /\ c[Len(q) + 1] = e
  BY AppendProperties
<1> HIDE DEF c
<1>4. DOMAIN c = 1 .. Len(q) + 1
  BY <1>3, LenProperties
<1>5. \A i \in 1 .. Len(q) : q[i] # e
  BY <1>2 DEF ToSet
<1>6. ASSUME NEW i \in 1 .. Len(q) + 1 PROVE i \in 1 .. Len(q) \/ i = Len(q) + 1
  BY <1>2
<1>7. IsInjective(c)
  <2> SUFFICES ASSUME NEW i \in 1 .. Len(q) + 1, NEW j \in 1 .. Len(q) + 1, c[i] = c[j]
               PROVE  i = j
    BY <1>4 DEF IsInjective
  <2>1. CASE i \in 1 .. Len(q) /\ j \in 1 .. Len(q)
    BY <2>1, <1>2, <1>3 DEF IsInjective
  <2>2. CASE ~(i \in 1 .. Len(q) /\ j \in 1 .. Len(q))
    BY <2>2, <1>3, <1>5, <1>6
  <2> QED BY <2>1, <2>2
<1>8. ToSet(c) = ToSet(q) \cup {e}
  <2>1. Len(q) + 1 \in 1 .. Len(q) + 1 /\ 1 .. Len(q) \subseteq 1 .. Len(q) + 1
    BY <1>2
  <2> QED BY <2>1, <1>2, <1>3, <1>4, <1>6 DEF ToSet
<1> QED BY <1>1, <1>3, <1>7, <1>8 DEF c

(***************************************************************************)
(* The first row of the queue goes to its end.                             *)
(***************************************************************************)
LEMMA HeadLast ==
  ASSUME NEW S, NEW q \in Seq(S), IsInjective(q), q # <<>>
  PROVE  /\ Append(Tail(q), Head(q)) \in Seq(S)
         /\ IsInjective(Append(Tail(q), Head(q)))
         /\ ToSet(Append(Tail(q), Head(q))) = ToSet(q) /\ Head(q) \in ToSet(q)
<1> DEFINE h == Head(q)
           r == Tail(q)
<1>1. /\ h \in S /\ r \in Seq(S) /\ Len(r) = Len(q) - 1
      /\ \A i \in 1 .. Len(q) - 1 : r[i] = q[i + 1]
  BY HeadTailProperties
<1>2. DOMAIN q = 1 .. Len(q) /\ Len(q) \in Nat \ {0} /\ h = q[1]
  BY LenProperties, EmptySeq
<1> HIDE DEF h, r
<1>3. DOMAIN r = 1 .. Len(q) - 1
  BY <1>1, LenProperties
<1>4. IsInjective(r)
  <2> SUFFICES ASSUME NEW i \in 1 .. Len(q) - 1, NEW j \in 1 .. Len(q) - 1, r[i] = r[j]
               PROVE  i = j
    BY <1>3 DEF IsInjective
  <2>1. i + 1 \in 1 .. Len(q) /\ j + 1 \in 1 .. Len(q) /\ q[i + 1] = q[j + 1]
    BY <1>1, <1>2
  <2>2. i + 1 = j + 1
    BY <2>1, <1>2 DEF IsInjective
  <2> QED BY <2>2
<1>5. \A i \in 1 .. Len(q) - 1 : i + 1 \in 1 .. Len(q) /\ i + 1 # 1 /\ 1 \in 1 .. Len(q)
  BY <1>2
<1>6. h \notin ToSet(r)
  BY <1>1, <1>2, <1>3, <1>5 DEF ToSet, IsInjective
<1>7. ToSet(r) \cup {h} = ToSet(q)
  <2>1. \A i \in 1 .. Len(q) : i = 1 \/ (i - 1 \in 1 .. Len(q) - 1 /\ r[i - 1] = q[i])
    BY <1>1, <1>2
  <2>2. /\ ToSet(r) = {r[i] : i \in 1 .. Len(q) - 1}
        /\ ToSet(q) = {q[i] : i \in 1 .. Len(q)}
    BY <1>2, <1>3 DEF ToSet
  <2>3. \A i \in 1 .. Len(q) - 1 : r[i] \in {q[j] : j \in 1 .. Len(q)}
    BY <1>1, <1>5
  <2>4. h \in {q[j] : j \in 1 .. Len(q)}
    BY <1>2
  <2>5. \A i \in 1 .. Len(q) : q[i] = h \/ q[i] \in {r[j] : j \in 1 .. Len(q) - 1}
    BY <2>1, <1>2
  <2> QED BY <2>2, <2>3, <2>4, <2>5
<1>8. /\ r \o <<h>> = Append(r, h) /\ r \o <<h>> \in Seq(S) /\ IsInjective(r \o <<h>>)
      /\ ToSet(r \o <<h>>) = ToSet(r) \cup {h}
  BY <1>1, <1>4, <1>6, WithLast
<1> QED BY <1>7, <1>8 DEF h, r

-----------------------------------------------------------------------------
(* The rows a grant has become.                                            *)

\* A row is replaced by later rows only.
Chained(R) == \A i \in DOMAIN R : R[i].replaced < i

\* The roots of the first n rows, given those of the rows before them.
RootsTo(R, n, f) == [j \in 1 .. n |-> IF R[j].replaced = 0 THEN j ELSE f[R[j].replaced]]
Roots(R) ==
  CHOOSE f : f = [j \in DOMAIN R |-> IF R[j].replaced = 0 THEN j ELSE f[R[j].replaced]]

(***************************************************************************)
(* There is a function that gives each row its root: one for the first n   *)
(* rows extends to the next, and there are finitely many rows.             *)
(***************************************************************************)
LEMMA RootsExist ==
  ASSUME NEW R, Table(R), Chained(R) PROVE \E f : f = RootsTo(R, Len(R), f)
<1> DEFINE L == Len(R)
           Bad == {n \in 0 .. L : ~\E f : f = RootsTo(R, n, f)}
<1>1. /\ L \in Nat /\ DOMAIN R = 1 .. L
      /\ \A i \in 1 .. L : R[i].replaced \in Nat /\ R[i].replaced < i
  BY RowFacts DEF Chained
<1> SUFFICES ASSUME Bad # {} PROVE FALSE
  BY <1>1
<1>2. Bad \subseteq Int /\ IsFiniteSet(Bad)
  <2>1. Bad \subseteq 0 .. L
    OBVIOUS
  <2>2. IsFiniteSet(0 .. L)
    BY <1>1, FS_Interval
  <2> HIDE DEF Bad
  <2>3. Bad \subseteq Int
    BY <2>1
  <2>4. IsFiniteSet(Bad)
    BY <2>1, <2>2, FS_Subset
  <2> QED BY <2>3, <2>4
<1> DEFINE m == Min(Bad)
<1>3. m \in Bad /\ \A y \in Bad : m <= y
  BY <1>2, MinOfInts
<1> HIDE DEF m
<1>4. m # 0
  <2> DEFINE g == [j \in 1 .. 0 |-> 0]
  <2>1. g = RootsTo(R, 0, g)
    BY DEF RootsTo
  <2> QED BY <2>1, <1>3
<1>5. m - 1 \in 0 .. L /\ m - 1 \notin Bad /\ m \in 1 .. L
  BY <1>1, <1>3, <1>4
<1>6. PICK f : f = RootsTo(R, m - 1, f)
  BY <1>5
<1> DEFINE last == IF R[m].replaced = 0 THEN m ELSE f[R[m].replaced]
           g == [j \in 1 .. m |-> IF j = m THEN last ELSE f[j]]
           h == RootsTo(R, m, g)
<1>7. \A j \in 1 .. m : R[j].replaced \in Nat /\ R[j].replaced < j
  BY <1>1, <1>5
<1>8. \A j \in 1 .. m - 1 : f[j] = IF R[j].replaced = 0 THEN j ELSE f[R[j].replaced]
  BY <1>6 DEF RootsTo
<1>9. ASSUME NEW j \in 1 .. m PROVE g[j] = h[j]
  <2>1. h[j] = IF R[j].replaced = 0 THEN j ELSE g[R[j].replaced]
    BY DEF RootsTo
  <2>2. ASSUME R[j].replaced # 0 PROVE g[R[j].replaced] = f[R[j].replaced]
    <3>1. R[j].replaced \in 1 .. m /\ R[j].replaced # m
      BY <1>5, <1>7, <2>2
    <3> QED BY <3>1
  <2>3. g[j] = IF R[j].replaced = 0 THEN j ELSE f[R[j].replaced]
    <3>1. CASE j = m
      BY <3>1
    <3>2. CASE j # m
      <4>1. j \in 1 .. m - 1 /\ g[j] = f[j]
        BY <3>2, <1>5
      <4> QED BY <4>1, <1>8
    <3> QED BY <3>1, <3>2
  <2> HIDE DEF g, h
  <2> QED BY <2>1, <2>2, <2>3
<1>10. g = h
  <2>1. g = [j \in 1 .. m |-> g[j]] /\ h = [j \in 1 .. m |-> h[j]]
    BY DEF RootsTo
  <2> HIDE DEF g, h
  <2> QED BY <2>1, <1>9
<1> QED BY <1>3, <1>10

(***************************************************************************)
(* The root of a row is itself, or that of the row it replaces.            *)
(***************************************************************************)
LEMMA RootIs ==
  ASSUME NEW R, Table(R), Chained(R), NEW i \in DOMAIN R
  PROVE  Root(R, i) = IF R[i].replaced = 0 THEN i ELSE Root(R, R[i].replaced)
<1>1. DOMAIN R = 1 .. Len(R)
  BY RowFacts
<1>2. \E f : f = [j \in DOMAIN R |-> IF R[j].replaced = 0 THEN j ELSE f[R[j].replaced]]
  BY <1>1, RootsExist DEF RootsTo
<1>3. Roots(R) = [j \in DOMAIN R |-> IF R[j].replaced = 0 THEN j ELSE Roots(R)[R[j].replaced]]
  BY <1>2 DEF Roots
<1>4. \A j : Root(R, j) = Roots(R)[j]
  BY DEF Root, Roots
<1>5. Roots(R)[i] = IF R[i].replaced = 0 THEN i ELSE Roots(R)[R[i].replaced]
  BY <1>3
<1> QED BY <1>4, <1>5

(***************************************************************************)
(* A root is a row that replaces nothing: an argument by the first row of  *)
(* which it fails.                                                         *)
(***************************************************************************)
LEMMA RootFacts ==
  ASSUME NEW R, Table(R), Chained(R)
  PROVE  \A i \in DOMAIN R : Root(R, i) \in DOMAIN R /\ R[Root(R, i)].replaced = 0
<1> DEFINE Bad == {i \in DOMAIN R : ~(Root(R, i) \in DOMAIN R /\ R[Root(R, i)].replaced = 0)}
<1> SUFFICES ASSUME Bad # {} PROVE FALSE
  OBVIOUS
<1>1. /\ Len(R) \in Nat /\ DOMAIN R = 1 .. Len(R) /\ IsFiniteSet(DOMAIN R)
      /\ \A i \in 1 .. Len(R) : R[i].replaced \in Nat /\ R[i].replaced < i
  BY RowFacts DEF Chained
<1>2. Bad \subseteq Int /\ IsFiniteSet(Bad)
  BY <1>1, FS_Subset
<1> DEFINE m == Min(Bad)
<1>3. m \in Bad /\ \A y \in Bad : m <= y
  BY <1>2, MinOfInts
<1> HIDE DEF m
<1>4. m \in DOMAIN R /\ m \in 1 .. Len(R)
  BY <1>1, <1>3
<1>5. Root(R, m) = IF R[m].replaced = 0 THEN m ELSE Root(R, R[m].replaced)
  BY <1>4, RootIs
<1>6. R[m].replaced # 0
  BY <1>3, <1>4, <1>5
<1>7. R[m].replaced \in DOMAIN R /\ R[m].replaced < m
  BY <1>1, <1>4, <1>6
<1>8. R[m].replaced \notin Bad
  BY <1>1, <1>3, <1>4, <1>7
<1> QED BY <1>3, <1>5, <1>6, <1>7, <1>8

(***************************************************************************)
(* Later rows change no root.                                              *)
(***************************************************************************)
LEMMA RootStays ==
  ASSUME NEW R, Table(R), Chained(R), NEW A, Table(A), Chained(A),
         DOMAIN R \subseteq DOMAIN A, \A i \in DOMAIN R : A[i].replaced = R[i].replaced
  PROVE  \A i \in DOMAIN R : Root(A, i) = Root(R, i)
<1> DEFINE Bad == {i \in DOMAIN R : Root(A, i) # Root(R, i)}
<1> SUFFICES ASSUME Bad # {} PROVE FALSE
  OBVIOUS
<1>1. /\ Len(R) \in Nat /\ DOMAIN R = 1 .. Len(R) /\ IsFiniteSet(DOMAIN R)
      /\ \A i \in 1 .. Len(R) : R[i].replaced \in Nat /\ R[i].replaced < i
  BY RowFacts DEF Chained
<1>2. Bad \subseteq Int /\ IsFiniteSet(Bad)
  BY <1>1, FS_Subset
<1> DEFINE m == Min(Bad)
<1>3. m \in Bad /\ \A y \in Bad : m <= y
  BY <1>2, MinOfInts
<1> HIDE DEF m
<1>4. m \in DOMAIN R /\ m \in 1 .. Len(R)
  BY <1>1, <1>3
<1>5. Root(R, m) = IF R[m].replaced = 0 THEN m ELSE Root(R, R[m].replaced)
  BY <1>4, RootIs
<1>6. Root(A, m) = IF A[m].replaced = 0 THEN m ELSE Root(A, A[m].replaced)
  BY <1>4, RootIs
<1>7. A[m].replaced = R[m].replaced
  BY <1>4
<1>8. R[m].replaced # 0
  BY <1>3, <1>5, <1>6, <1>7
<1>9. R[m].replaced \in DOMAIN R /\ R[m].replaced < m
  BY <1>1, <1>4, <1>8
<1>10. R[m].replaced \notin Bad
  BY <1>1, <1>3, <1>4, <1>9
<1> QED BY <1>3, <1>5, <1>6, <1>7, <1>9, <1>10

\* The rows that a row has become.
Family(R, r) == {i \in DOMAIN R : Root(R, i) = r}

\* New rows either replace stored ones or nothing.
Follows(R, new) == \A n \in DOMAIN new : new[n].replaced \in DOMAIN R \cup {0}

(***************************************************************************)
(* After a change, old rows keep their roots and new ones have those of    *)
(* the rows they replace.                                                  *)
(***************************************************************************)
LEMMA AfterRoots ==
  ASSUME NEW R, Table(R), Chained(R), NEW C, NEW new, Table(new), Follows(R, new)
  PROVE  LET A == After(R, C, new) IN
         /\ Table(A) /\ Chained(A)
         /\ \A i \in DOMAIN R : Root(A, i) = Root(R, i)
         /\ \A n \in DOMAIN new :
              Root(A, Len(R) + n) = IF new[n].replaced = 0 THEN Len(R) + n ELSE Root(R, new[n].replaced)
<1> DEFINE A == After(R, C, new)
<1>1. /\ Table(A)
      /\ \A i \in DOMAIN R : i \in DOMAIN A /\ A[i].replaced = R[i].replaced
      /\ \A n \in DOMAIN new : Len(R) + n \in DOMAIN A /\ A[Len(R) + n] = new[n]
      /\ \A i \in DOMAIN A : i \in DOMAIN R \/ \E n \in DOMAIN new : i = Len(R) + n
  BY AfterFacts
<1>2. /\ Len(R) \in Nat /\ DOMAIN R = 1 .. Len(R)
      /\ DOMAIN new = 1 .. Len(new) /\ Len(new) \in Nat
  BY RowFacts
<1> HIDE DEF A
<1>3. ASSUME NEW i \in DOMAIN A PROVE A[i].replaced < i
  <2>1. CASE i \in DOMAIN R
    BY <2>1, <1>1 DEF Chained
  <2>2. CASE \E n \in DOMAIN new : i = Len(R) + n
    <3>1. PICK n \in DOMAIN new : i = Len(R) + n
      BY <2>2
    <3>2. A[i].replaced \in DOMAIN R \cup {0}
      BY <3>1, <1>1 DEF Follows
    <3> QED BY <3>1, <3>2, <1>2
  <2> QED BY <1>1, <2>1, <2>2
<1>4. Chained(A)
  BY <1>3 DEF Chained
<1>5. \A i \in DOMAIN R : Root(A, i) = Root(R, i)
  BY <1>1, <1>4, RootStays
<1>6. ASSUME NEW n \in DOMAIN new
      PROVE  Root(A, Len(R) + n) = IF new[n].replaced = 0 THEN Len(R) + n ELSE Root(R, new[n].replaced)
  <2>1. Len(R) + n \in DOMAIN A /\ A[Len(R) + n] = new[n]
    BY <1>1
  <2>2. Root(A, Len(R) + n) = IF A[Len(R) + n].replaced = 0 THEN Len(R) + n
                              ELSE Root(A, A[Len(R) + n].replaced)
    BY <1>1, <1>4, <2>1, RootIs
  <2>3. new[n].replaced \in DOMAIN R \cup {0}
    BY DEF Follows
  <2> QED BY <2>1, <2>2, <2>3, <1>5
<1> QED BY <1>1, <1>4, <1>5, <1>6 DEF A

(***************************************************************************)
(* The family of a stored row grows by the heirs of its members.           *)
(***************************************************************************)
LEMMA FamilyGrows ==
  ASSUME NEW R, Table(R), Chained(R), NEW C, NEW new, Table(new), Follows(R, new),
         NEW r \in DOMAIN R
  PROVE  Family(After(R, C, new), r) = HeirsOf(R, new, Family(R, r))
<1> DEFINE A == After(R, C, new)
           K == Family(R, r)
<1>1. /\ \A i \in DOMAIN R : i \in DOMAIN A
      /\ \A n \in DOMAIN new : Len(R) + n \in DOMAIN A /\ Len(R) + n \notin DOMAIN R
      /\ \A i \in DOMAIN A : i \in DOMAIN R \/ \E n \in DOMAIN new : i = Len(R) + n
  BY AfterFacts
<1>2. /\ \A i \in DOMAIN R : Root(A, i) = Root(R, i)
      /\ \A n \in DOMAIN new :
           Root(A, Len(R) + n) = IF new[n].replaced = 0 THEN Len(R) + n ELSE Root(R, new[n].replaced)
  BY AfterRoots
<1>3. 0 \notin DOMAIN R
  BY RowFacts
<1> HIDE DEF A
<1>4. \A i \in DOMAIN R : i \in Family(A, r) <=> i \in K
  BY <1>1, <1>2 DEF Family
<1>5. \A n \in DOMAIN new : Len(R) + n \in Family(A, r) <=> new[n].replaced \in K
  BY <1>1, <1>2, <1>3 DEF Family, Follows
<1>6. Family(A, r) \subseteq DOMAIN A /\ K \subseteq DOMAIN R
  BY DEF Family
<1> HIDE DEF K
<1>7. Family(A, r) = HeirsOf(R, new, K)
  BY <1>1, <1>4, <1>5, <1>6 DEF HeirsOf
<1> QED BY <1>7 DEF A, K

-----------------------------------------------------------------------------
(* Promises under a change of the table.                                   *)

\* The rows that wait to be decided.
Pendings(R) == {i \in DOMAIN R : R[i].status = "PENDING"}

\* The grants under way at t that are not in C.
Spared(R, C, t) == {i \in At(R, t) : i \notin C}

(***************************************************************************)
(* What is spared is under way.                                            *)
(***************************************************************************)
LEMMA SparedFacts ==
  ASSUME NEW R, Table(R), NEW C, NEW t
  PROVE  Spared(R, C, t) \in SUBSET DOMAIN R /\ Spared(R, C, t) \in SUBSET At(R, t)
BY AtFacts DEF Spared

(***************************************************************************)
(* Rows of the same rates have the same rate together.                     *)
(***************************************************************************)
LEMMA SameRates ==
  ASSUME NEW R, Table(R), NEW A, NEW I \in SUBSET DOMAIN R, I \subseteq DOMAIN A,
         \A i \in I : A[i].rate = R[i].rate
  PROVE  RateOf(A, I) = RateOf(R, I)
<1> DEFINE f == [i \in DOMAIN R |-> R[i].rate]
           g == [i \in DOMAIN A |-> A[i].rate]
<1>1. \A i \in I : f[i] = g[i]
  OBVIOUS
<1>2. IsFiniteSet(I)
  BY RatesType
<1> HIDE DEF f, g
<1>3. Total(f, I) = Total(g, I)
  BY <1>1, <1>2, TotalCongruence
<1> QED BY <1>3 DEF RateOf, f, g

(***************************************************************************)
(* The empty table.                                                        *)
(***************************************************************************)
LEMMA NoRows == Table(<<>>) /\ DOMAIN <<>> = {} /\ Len(<<>>) = 0
<1>1. <<>> \in Seq(Row) /\ Len(<<>>) = 0
  BY EmptySeq
<1>2. DOMAIN <<>> = {}
  OBVIOUS
<1> QED BY <1>1, <1>2 DEF Table

(***************************************************************************)
(* A table of one row.                                                     *)
(***************************************************************************)
LEMMA OneRow ==
  ASSUME NEW p \in Row, p.status = "GRANTED" => p.from # None
  PROVE  Table(<<p>>) /\ DOMAIN <<p>> = {1} /\ Len(<<p>>) = 1 /\ <<p>>[1] = p
<1>1. <<p>> \in Seq(Row) /\ Len(<<p>>) = 1 /\ <<p>>[1] = p
  OBVIOUS
<1>2. DOMAIN <<p>> = {1}
  OBVIOUS
<1> QED BY <1>1, <1>2 DEF Table

(***************************************************************************)
(* Heirs of rows remain heirs in a table that has these rows.              *)
(***************************************************************************)
LEMMA HeirsAgree ==
  ASSUME NEW R, NEW C, NEW new, Heirs(R, C, new), NEW A, C \subseteq DOMAIN A,
         \A i \in C : A[i].from = R[i].from /\ A[i].to = R[i].to /\ A[i].rate = R[i].rate
  PROVE  Heirs(A, C, new)
<1>1. \A i \in C : A[i].from \in 0 .. End
  BY DEF Heirs
<1>2. ASSUME NEW n \in DOMAIN new
      PROVE  /\ new[n].status = "GRANTED" /\ new[n].replaced \in C
             /\ A[new[n].replaced].from <= new[n].from /\ new[n].from < new[n].to
             /\ new[n].to <= A[new[n].replaced].to
             /\ new[n].rate <= A[new[n].replaced].rate
  <2>1. /\ new[n].status = "GRANTED" /\ new[n].replaced \in C
        /\ R[new[n].replaced].from <= new[n].from /\ new[n].from < new[n].to
        /\ new[n].to <= R[new[n].replaced].to
        /\ new[n].rate <= R[new[n].replaced].rate
    BY DEF Heirs
  <2> QED BY <2>1
<1>3. Disjoint(new)
  BY DEF Heirs
<1> QED BY <1>1, <1>2, <1>3 DEF Heirs

(***************************************************************************)
(* What is promised once a plan is written: by what it spares, and by      *)
(* itself.                                                                 *)
(***************************************************************************)
LEMMA WrittenRate ==
  ASSUME NEW R, Table(R), NEW C, NEW new, Table(new), Heirs(R, C, new), NEW t \in Int
  PROVE  RateAt(After(R, C, new), t)
           = RateOf(R, Spared(R, C, t))
               + Total(NewRates(new), {n \in DOMAIN new : Covers(new[n], t)})
<1> DEFINE A == After(R, C, new)
           K == DOMAIN R
           W == {i \in At(A, t) : i \in HeirsOf(R, new, K)}
<1>1. RateOf(A, W) = RateOf(R, Old(R, C, K, t)) + Total(NewRates(new), New(new, K, t))
  BY SumSplits
<1>2. Old(R, C, K, t) = Spared(R, C, t)
  BY AtFacts DEF Old, Spared
<1>3. \A n \in DOMAIN new : new[n].replaced \in K
  BY DEF Heirs
<1>4. New(new, K, t) = {n \in DOMAIN new : Covers(new[n], t)}
  BY <1>3 DEF New
<1>5. W = At(A, t)
  <2>1. \A i \in DOMAIN A : i \in DOMAIN R \/ \E n \in DOMAIN new : i = Len(R) + n
    BY AfterFacts
  <2>2. DOMAIN A \subseteq HeirsOf(R, new, K)
    BY <2>1, <1>3 DEF HeirsOf
  <2>3. Table(A)
    BY AfterFacts
  <2> HIDE DEF A
  <2>4. At(A, t) \subseteq DOMAIN A
    BY <2>3, AtFacts
  <2> QED BY <2>2, <2>4
<1>6. RateAt(A, t) = RateOf(A, At(A, t))
  BY AfterFacts, AtFacts
<1> QED BY <1>1, <1>2, <1>4, <1>5, <1>6

(***************************************************************************)
(* Writing a plan for granted rows promises no more.                       *)
(***************************************************************************)
LEMMA WrittenShrinks ==
  ASSUME NEW R, Table(R), NEW C, NEW new, Table(new), Heirs(R, C, new), NEW t \in Int,
         C \subseteq Granted(R)
  PROVE  RateAt(After(R, C, new), t) <= RateAt(R, t)
<1> DEFINE A == After(R, C, new)
           K == DOMAIN R
           W == {i \in At(A, t) : i \in HeirsOf(R, new, K)}
<1>1. RateOf(A, W) <= RateOf(R, {i \in At(R, t) : i \in K})
  BY HeirsShrink
<1>2. {i \in At(R, t) : i \in K} = At(R, t)
  BY AtFacts
<1>3. \A n \in DOMAIN new : new[n].replaced \in K
  BY DEF Heirs
<1>4. W = At(A, t)
  <2>1. \A i \in DOMAIN A : i \in DOMAIN R \/ \E n \in DOMAIN new : i = Len(R) + n
    BY AfterFacts
  <2>2. DOMAIN A \subseteq HeirsOf(R, new, K)
    BY <2>1, <1>3 DEF HeirsOf
  <2>3. Table(A)
    BY AfterFacts
  <2> HIDE DEF A
  <2>4. At(A, t) \subseteq DOMAIN A
    BY <2>3, AtFacts
  <2> QED BY <2>2, <2>4
<1>5. RateAt(A, t) = RateOf(A, At(A, t)) /\ RateAt(R, t) = RateOf(R, At(R, t))
  BY AfterFacts, AtFacts
<1> QED BY <1>1, <1>2, <1>4, <1>5

(***************************************************************************)
(* Rows that are not granted promise nothing.                              *)
(***************************************************************************)
LEMMA QuietAfter ==
  ASSUME NEW R, Table(R), NEW C, NEW new, Table(new), C \cap Granted(R) = {},
         \A n \in DOMAIN new : new[n].status # "GRANTED", NEW t
  PROVE  LET A == After(R, C, new) IN
         /\ Granted(A) = Granted(R) /\ At(A, t) = At(R, t)
         /\ \A i \in Granted(R) : A[i] = R[i]
         /\ RateAt(A, t) = RateAt(R, t)
         /\ \A I \in SUBSET Granted(R) : RateOf(A, I) = RateOf(R, I)
<1> DEFINE A == After(R, C, new)
<1>1. /\ Table(A)
      /\ \A i \in DOMAIN R : i \in DOMAIN A
      /\ \A i \in DOMAIN R : i \in C => A[i].status = "DISABLED"
      /\ \A i \in DOMAIN R : i \notin C => A[i] = R[i]
      /\ \A n \in DOMAIN new : A[Len(R) + n] = new[n]
      /\ \A i \in DOMAIN A : i \in DOMAIN R \/ \E n \in DOMAIN new : i = Len(R) + n
  BY AfterFacts
<1> HIDE DEF A
<1>2. ASSUME NEW i \in Granted(R) PROVE i \in Granted(A) /\ A[i] = R[i]
  BY <1>1 DEF Granted
<1>3. ASSUME NEW i \in Granted(A) PROVE i \in Granted(R)
  <2>1. i \in DOMAIN A /\ A[i].status = "GRANTED"
    BY DEF Granted
  <2>2. i \in DOMAIN R
    BY <1>1, <2>1
  <2> QED BY <1>1, <2>1, <2>2 DEF Granted
<1>4. Granted(A) = Granted(R)
  BY <1>2, <1>3
<1>5. At(A, t) = At(R, t)
  BY <1>2, <1>4 DEF At
<1>6. ASSUME NEW I \in SUBSET Granted(R) PROVE RateOf(A, I) = RateOf(R, I)
  <2>1. /\ I \in SUBSET DOMAIN R /\ I \subseteq DOMAIN A
        /\ \A i \in I : A[i].rate = R[i].rate
    BY <1>2 DEF Granted
  <2> QED BY <2>1, SameRates
<1>7. At(R, t) \in SUBSET Granted(R)
  BY DEF At
<1>8. RateAt(A, t) = RateAt(R, t)
  BY <1>1, <1>5, <1>6, <1>7, AtFacts
<1> QED BY <1>2, <1>4, <1>5, <1>6, <1>8 DEF A

(***************************************************************************)
(* A plan has the same effect before and after such rows come or go.       *)
(***************************************************************************)
LEMMA QuietWritten ==
  ASSUME NEW R, Table(R), NEW C, NEW new, Table(new), C \cap Granted(R) = {},
         \A n \in DOMAIN new : new[n].status # "GRANTED", NEW t \in Int,
         NEW cuts, NEW p, Table(p), Heirs(R, cuts, p)
  PROVE  RateAt(After(After(R, C, new), cuts, p), t) = RateAt(After(R, cuts, p), t)
<1> DEFINE A == After(R, C, new)
<1>1. /\ Table(A)
      /\ \A i \in DOMAIN R : i \in DOMAIN A
      /\ \A i \in DOMAIN R : A[i].from = R[i].from /\ A[i].to = R[i].to /\ A[i].rate = R[i].rate
  BY AfterFacts
<1>2. /\ At(A, t) = At(R, t)
      /\ \A I \in SUBSET Granted(R) : RateOf(A, I) = RateOf(R, I)
  BY QuietAfter
<1> HIDE DEF A
<1>3. cuts \subseteq DOMAIN R
  BY DEF Heirs
<1>4. Heirs(A, cuts, p)
  BY <1>1, <1>3, HeirsAgree
<1>5. /\ Spared(A, cuts, t) = Spared(R, cuts, t)
      /\ Spared(R, cuts, t) \in SUBSET Granted(R)
  BY <1>2 DEF Spared, At
<1>6. RateOf(A, Spared(A, cuts, t)) = RateOf(R, Spared(R, cuts, t))
  BY <1>2, <1>5
<1> DEFINE total == Total(NewRates(p), {n \in DOMAIN p : Covers(p[n], t)})
<1>7. RateAt(After(R, cuts, p), t) = RateOf(R, Spared(R, cuts, t)) + total
  BY WrittenRate
<1>8. RateAt(After(A, cuts, p), t) = RateOf(A, Spared(A, cuts, t)) + total
  BY <1>1, <1>4, WrittenRate
<1> QED BY <1>6, <1>7, <1>8 DEF A

-----------------------------------------------------------------------------
(* Promises of the rows that a grant has become.                           *)

\* The rows that r has become and that are under way at t, and their rate.
FamilyAt(R, r, t) == {i \in At(R, t) : i \in Family(R, r)}
FamilyRate(R, r, t) == RateOf(R, FamilyAt(R, r, t))

(***************************************************************************)
(* The rows a grant has become promise no more than it did, those in D     *)
(* aside; none promises more by itself; and one that is pending is the     *)
(* only one of its family that counts.                                     *)
(***************************************************************************)
HeirsFit(R, D) ==
  \A r \in DOMAIN R \ D : R[r].replaced = 0 =>
    \A t \in 0 .. End - 1 : FamilyRate(R, r, t) <= R[r].rate
HeirsSmaller(R) == \A i \in DOMAIN R : R[i].rate <= R[Root(R, i)].rate
PendingAlone(R) ==
  \A i \in Pendings(R) :
    /\ R[i].from = None
    /\ \A j \in DOMAIN R \ {i} :
         Root(R, j) = Root(R, i) => R[j].status = "DISABLED" /\ R[j].from = None

\* What holds of the families of a table.
Families(R, D) == HeirsFit(R, D) /\ HeirsSmaller(R) /\ PendingAlone(R)

(***************************************************************************)
(* What a family promises at t is a natural number.                        *)
(***************************************************************************)
LEMMA FamilyFacts ==
  ASSUME NEW R, Table(R), NEW r, NEW t
  PROVE  /\ FamilyAt(R, r, t) \in SUBSET DOMAIN R
         /\ FamilyAt(R, r, t) \in SUBSET Granted(R)
         /\ FamilyRate(R, r, t) \in Nat
         /\ FamilyAt(R, r, t) = {i \in Granted(R) : Root(R, i) = r /\ Covers(R[i], t)}
<1>1. FamilyAt(R, r, t) \in SUBSET DOMAIN R /\ FamilyAt(R, r, t) \in SUBSET Granted(R)
  BY AtFacts DEF FamilyAt, At
<1>2. FamilyRate(R, r, t) \in Nat
  BY <1>1, RatesType DEF FamilyRate
<1>3. FamilyAt(R, r, t) = {i \in Granted(R) : Root(R, i) = r /\ Covers(R[i], t)}
  BY DEF FamilyAt, At, Family, Granted
<1> QED BY <1>1, <1>2, <1>3

(***************************************************************************)
(* Rows that promise no more than the ones they replace keep within the    *)
(* root's promise.                                                         *)
(***************************************************************************)
LEMMA AfterSmaller ==
  ASSUME NEW R, Table(R), Chained(R), HeirsSmaller(R), NEW C, NEW new, Table(new),
         Follows(R, new),
         \A n \in DOMAIN new : new[n].replaced # 0 => new[n].rate <= R[new[n].replaced].rate
  PROVE  HeirsSmaller(After(R, C, new))
<1> DEFINE A == After(R, C, new)
<1>1. /\ \A i \in DOMAIN R : i \in DOMAIN A /\ A[i].rate = R[i].rate
      /\ \A n \in DOMAIN new : A[Len(R) + n] = new[n]
      /\ \A i \in DOMAIN A : i \in DOMAIN R \/ \E n \in DOMAIN new : i = Len(R) + n
  BY AfterFacts
<1>2. /\ \A i \in DOMAIN R : Root(A, i) = Root(R, i)
      /\ \A n \in DOMAIN new :
           Root(A, Len(R) + n) = IF new[n].replaced = 0 THEN Len(R) + n ELSE Root(R, new[n].replaced)
  BY AfterRoots
<1> HIDE DEF A
<1>3. \A i \in DOMAIN R : Root(R, i) \in DOMAIN R
  BY RootFacts
<1>4. ASSUME NEW i \in DOMAIN R PROVE A[i].rate <= A[Root(A, i)].rate
  BY <1>1, <1>2, <1>3 DEF HeirsSmaller
<1>5. ASSUME NEW n \in DOMAIN new
      PROVE  A[Len(R) + n].rate <= A[Root(A, Len(R) + n)].rate
  <2>1. new[n].rate \in Nat
    BY RowFacts
  <2>2. CASE new[n].replaced = 0
    BY <2>1, <2>2, <1>1, <1>2
  <2>3. CASE new[n].replaced # 0
    <3> DEFINE j == new[n].replaced
    <3>1. j \in DOMAIN R /\ Root(A, Len(R) + n) = Root(R, j)
      BY <2>3, <1>2 DEF Follows
    <3>2. R[j].rate \in Nat /\ R[Root(R, j)].rate \in Nat
      BY <3>1, <1>3, RowFacts
    <3>3. R[j].rate <= R[Root(R, j)].rate /\ new[n].rate <= R[j].rate
      BY <3>1, <2>3 DEF HeirsSmaller
    <3>4. A[Root(R, j)].rate = R[Root(R, j)].rate /\ A[Len(R) + n].rate = new[n].rate
      BY <3>1, <1>1, <1>3
    <3> HIDE DEF j
    <3> QED BY <3>1, <3>2, <3>3, <3>4, <2>1
  <2> QED BY <2>2, <2>3
<1>6. ASSUME NEW i \in DOMAIN A PROVE A[i].rate <= A[Root(A, i)].rate
  BY <1>1, <1>4, <1>5
<1> QED BY <1>6 DEF HeirsSmaller, A

(***************************************************************************)
(* No new row begins a family or waits, and rows are cut that were         *)
(* granted.                                                                *)
(***************************************************************************)
LEMMA AfterAlone ==
  ASSUME NEW R, Table(R), Chained(R), PendingAlone(R), NEW C, NEW new, Table(new),
         C \subseteq DOMAIN R, \A i \in C : R[i].from # None,
         \A n \in DOMAIN new : new[n].status # "PENDING" /\ new[n].replaced \in C
  PROVE  PendingAlone(After(R, C, new))
<1> DEFINE A == After(R, C, new)
<1>1. /\ \A i \in DOMAIN R : i \in DOMAIN A
      /\ \A i \in DOMAIN R : i \in C => A[i].status = "DISABLED"
      /\ \A i \in DOMAIN R : i \notin C => A[i] = R[i]
      /\ \A n \in DOMAIN new : A[Len(R) + n] = new[n]
      /\ \A i \in DOMAIN A : i \in DOMAIN R \/ \E n \in DOMAIN new : i = Len(R) + n
  BY AfterFacts
<1>2. 0 \notin DOMAIN R /\ Follows(R, new)
  BY RowFacts DEF Follows
<1>3. /\ \A i \in DOMAIN R : Root(A, i) = Root(R, i)
      /\ \A n \in DOMAIN new : Root(A, Len(R) + n) = Root(R, new[n].replaced)
  BY <1>2, AfterRoots
<1> HIDE DEF A
<1>0. ASSUME NEW i \in Pendings(A) PROVE A[i].from = None
  <2>1. i \in DOMAIN A /\ A[i].status = "PENDING"
    BY DEF Pendings
  <2>2. i \in DOMAIN R /\ A[i] = R[i] /\ i \in Pendings(R)
    BY <1>1, <2>1 DEF Pendings
  <2> QED BY <2>2 DEF PendingAlone
<1>4. SUFFICES ASSUME NEW i \in Pendings(A), NEW j \in DOMAIN A \ {i}, Root(A, j) = Root(A, i)
               PROVE  A[j].status = "DISABLED" /\ A[j].from = None
  BY <1>0 DEF PendingAlone, A
<1>5. i \in DOMAIN A /\ A[i].status = "PENDING"
  BY DEF Pendings
<1>6. i \in DOMAIN R /\ i \notin C /\ i \in Pendings(R)
  BY <1>1, <1>5 DEF Pendings
<1>7. \A k \in DOMAIN R \ {i} : Root(R, k) = Root(R, i) => R[k].status = "DISABLED" /\ R[k].from = None
  BY <1>6 DEF PendingAlone
<1>8. CASE j \in DOMAIN R
  <2>1. R[j].status = "DISABLED" /\ R[j].from = None
    BY <1>3, <1>4, <1>6, <1>7, <1>8
  <2>2. j \notin C
    BY <2>1
  <2> QED BY <2>1, <2>2, <1>1, <1>8
<1>9. CASE j \notin DOMAIN R
  <2>1. PICK n \in DOMAIN new : j = Len(R) + n
    BY <1>1, <1>9
  <2> DEFINE k == new[n].replaced
  <2>2. k \in C /\ k \in DOMAIN R /\ Root(R, k) = Root(R, i) /\ k # i
    BY <2>1, <1>3, <1>4, <1>6
  <2>3. R[k].from = None
    BY <2>2, <1>7
  <2> QED BY <2>2, <2>3
<1> QED BY <1>8, <1>9

(***************************************************************************)
(* Heirs that replace rows: families that had them granted promise no      *)
(* more, and the families of rows that were changed before are among the   *)
(* exceptions.                                                             *)
(***************************************************************************)
LEMMA FamiliesCut ==
  ASSUME NEW R, Table(R), Chained(R), NEW D, Families(R, D),
         NEW C, NEW new, Table(new), Heirs(R, C, new),
         NEW E, D \subseteq E,
         \A i \in C : R[i].status # "GRANTED" => Root(R, i) \in E
  PROVE  Families(After(R, C, new), E)
<1> DEFINE A == After(R, C, new)
<1>1. /\ Table(A)
      /\ \A i \in DOMAIN R : i \in DOMAIN A /\ A[i].rate = R[i].rate /\ A[i].replaced = R[i].replaced
      /\ \A n \in DOMAIN new : A[Len(R) + n] = new[n]
      /\ \A i \in DOMAIN A : i \in DOMAIN R \/ \E n \in DOMAIN new : i = Len(R) + n
  BY AfterFacts
<1>2. C \subseteq DOMAIN R /\ 0 \notin DOMAIN R /\ \A i \in C : R[i].from # None
  <2>1. C \subseteq DOMAIN R /\ \A i \in C : R[i].from \in 0 .. End
    BY DEF Heirs
  <2>2. \A i \in C : R[i].from # None
    BY <2>1, ConstantsAssumption
  <2> QED BY <2>1, <2>2, RowFacts
<1>3. \A n \in DOMAIN new : /\ new[n].replaced \in C /\ new[n].status = "GRANTED"
                            /\ new[n].rate <= R[new[n].replaced].rate
  BY DEF Heirs
<1>4. Follows(R, new)
  BY <1>2, <1>3 DEF Follows
<1>5. HeirsSmaller(A)
  BY <1>3, <1>4, AfterSmaller DEF Families
<1>6. PendingAlone(A)
  BY <1>2, <1>3, AfterAlone DEF Families
<1>7. ASSUME NEW r \in DOMAIN A \ E, A[r].replaced = 0, NEW t \in 0 .. End - 1
      PROVE  FamilyRate(A, r, t) <= A[r].rate
  <2> HIDE DEF A
  <2>1. r \in DOMAIN R
    BY <1>1, <1>2, <1>3, <1>7
  <2>2. r \notin D /\ R[r].replaced = 0 /\ A[r].rate = R[r].rate
    BY <2>1, <1>1, <1>7
  <2> DEFINE K == Family(R, r)
  <2>3. K \in SUBSET DOMAIN R /\ K \cap C \subseteq Granted(R)
    <3>1. \A i \in C : i \in K => R[i].status = "GRANTED"
      BY DEF Family
    <3> QED BY <3>1, <1>2 DEF Family, Granted
  <2>4. Family(A, r) = HeirsOf(R, new, K)
    BY <2>1, <1>4, FamilyGrows DEF A
  <2> HIDE DEF K
  <2>5. t \in Int
    BY ConstantsAssumption
  <2>6. RateOf(A, {i \in At(A, t) : i \in HeirsOf(R, new, K)}) <= RateOf(R, {i \in At(R, t) : i \in K})
    BY <2>3, <2>5, HeirsShrink DEF A
  <2>7. FamilyRate(A, r, t) = RateOf(A, {i \in At(A, t) : i \in HeirsOf(R, new, K)})
    BY <2>4 DEF FamilyRate, FamilyAt
  <2>8. FamilyRate(R, r, t) = RateOf(R, {i \in At(R, t) : i \in K})
    BY DEF FamilyRate, FamilyAt, K
  <2>9. FamilyRate(A, r, t) <= FamilyRate(R, r, t)
    BY <2>6, <2>7, <2>8
  <2>10. FamilyRate(R, r, t) <= R[r].rate
    BY <2>1, <2>2 DEF Families, HeirsFit
  <2>11. /\ FamilyRate(A, r, t) \in Nat /\ FamilyRate(R, r, t) \in Nat
         /\ R[r].rate \in Nat
    BY <1>1, <2>1, FamilyFacts, RowFacts
  <2> QED BY <2>2, <2>9, <2>10, <2>11
<1>8. HeirsFit(A, E)
  BY <1>7 DEF HeirsFit
<1> QED BY <1>5, <1>6, <1>8 DEF Families

(***************************************************************************)
(* Rows that are not granted leave what families promise alone.            *)
(***************************************************************************)
LEMMA QuietFit ==
  ASSUME NEW R, Table(R), Chained(R), NEW D, HeirsFit(R, D),
         NEW C, NEW new, Table(new), Follows(R, new), C \cap Granted(R) = {},
         \A n \in DOMAIN new : new[n].status # "GRANTED"
  PROVE  HeirsFit(After(R, C, new), D)
<1> DEFINE A == After(R, C, new)
<1>1. /\ Table(A)
      /\ \A i \in DOMAIN R : i \in DOMAIN A /\ A[i].rate = R[i].rate /\ A[i].replaced = R[i].replaced
      /\ \A n \in DOMAIN new : Len(R) + n \notin DOMAIN R
      /\ \A i \in DOMAIN A : i \in DOMAIN R \/ \E n \in DOMAIN new : i = Len(R) + n
  BY AfterFacts
<1>2. \A i \in DOMAIN R : Root(A, i) = Root(R, i)
  BY AfterRoots
<1>3. ASSUME NEW t
      PROVE  /\ At(A, t) = At(R, t) /\ At(R, t) \in SUBSET Granted(R)
             /\ At(R, t) \in SUBSET DOMAIN R
             /\ \A I \in SUBSET Granted(R) : RateOf(A, I) = RateOf(R, I)
  <2>1. /\ At(A, t) = At(R, t)
        /\ \A I \in SUBSET Granted(R) : RateOf(A, I) = RateOf(R, I)
    BY QuietAfter
  <2>2. At(R, t) \in SUBSET Granted(R)
    BY DEF At
  <2>3. At(R, t) \in SUBSET DOMAIN R
    BY AtFacts
  <2> QED BY <2>1, <2>2, <2>3
<1> HIDE DEF A
<1>4. ASSUME NEW r \in DOMAIN A \ D, A[r].replaced = 0, NEW t \in 0 .. End - 1
      PROVE  FamilyRate(A, r, t) <= A[r].rate
  <2>1. FamilyAt(A, r, t) = FamilyAt(R, r, t)
    BY <1>1, <1>2, <1>3 DEF FamilyAt, Family
  <2>2. FamilyRate(A, r, t) = FamilyRate(R, r, t)
    BY <2>1, <1>3, FamilyFacts DEF FamilyRate
  <2>3. CASE r \in DOMAIN R
    BY <2>2, <2>3, <1>1, <1>4 DEF HeirsFit
  <2>4. CASE r \notin DOMAIN R
    <3>1. \A i \in DOMAIN R : Root(R, i) # r
      BY <2>4, RootFacts
    <3>2. FamilyAt(R, r, t) = {}
      BY <3>1, FamilyFacts DEF FamilyAt, Family
    <3>3. FamilyRate(R, r, t) = 0
      <4>1. \E i : i \in DOMAIN A /\ i = r
        BY <1>4
      <4>2. r \in DOMAIN A /\ RateOf(A, {}) = 0
        BY <1>1, <1>4, RatesOne
      <4>3. {} \in SUBSET Granted(R)
        OBVIOUS
      <4>4. RateOf(R, {}) = 0
        BY <4>2, <4>3, <1>3
      <4> QED BY <3>2, <4>4 DEF FamilyRate
    <3>4. A[r].rate \in Nat
      BY <1>1, <1>4, RowFacts
    <3> QED BY <2>2, <3>3, <3>4
  <2> QED BY <2>3, <2>4
<1> QED BY <1>4 DEF HeirsFit, A

(***************************************************************************)
(* A grant begins.                                                         *)
(***************************************************************************)
LEMMA FamiliesBegin ==
  ASSUME NEW R, Table(R), Chained(R), NEW D, Families(R, D),
         NEW p \in Row, p.status = "PENDING", p.from = None, p.replaced = 0
  PROVE  Families(After(R, {}, <<p>>), D)
<1> DEFINE new == <<p>>
           A == After(R, {}, new)
<1>1. Table(new) /\ DOMAIN new = {1} /\ new[1] = p
  BY OneRow
<1>2. Follows(R, new)
  BY <1>1 DEF Follows
<1> HIDE DEF new
<1>3. /\ \A i \in DOMAIN R : i \in DOMAIN A /\ A[i] = R[i]
      /\ Len(R) + 1 \notin DOMAIN R /\ A[Len(R) + 1] = p
      /\ \A i \in DOMAIN A : i \in DOMAIN R \/ i = Len(R) + 1
  BY <1>1, AfterFacts
<1>4. /\ \A i \in DOMAIN R : Root(A, i) = Root(R, i)
      /\ Root(A, Len(R) + 1) = Len(R) + 1
  BY <1>1, <1>2, AfterRoots
<1>5. HeirsSmaller(A)
  BY <1>1, <1>2, AfterSmaller DEF Families
<1>6. HeirsFit(A, D)
  BY <1>1, <1>2, QuietFit DEF Families
<1> HIDE DEF A
<1>7. \A i \in DOMAIN R : Root(R, i) # Len(R) + 1
  BY <1>3, RootFacts
<1>8. ASSUME NEW i \in Pendings(A), NEW j \in DOMAIN A \ {i}, Root(A, j) = Root(A, i)
      PROVE  A[j].status = "DISABLED" /\ A[j].from = None
  <2>1. i \in DOMAIN A /\ A[i].status = "PENDING"
    BY DEF Pendings
  <2>2. i \in DOMAIN R /\ j \in DOMAIN R
    BY <2>1, <1>3, <1>4, <1>7, <1>8
  <2>3. i \in Pendings(R)
    BY <2>1, <2>2, <1>3 DEF Pendings
  <2>4. Root(R, j) = Root(R, i)
    BY <2>2, <1>4, <1>8
  <2> QED BY <2>2, <2>3, <2>4, <1>3 DEF Families, PendingAlone
<1>9. ASSUME NEW i \in Pendings(A) PROVE A[i].from = None
  <2>1. i \in DOMAIN A /\ A[i].status = "PENDING"
    BY DEF Pendings
  <2>2. CASE i = Len(R) + 1
    BY <2>2, <1>3, <1>1
  <2>3. CASE i \in DOMAIN R
    BY <2>1, <2>3, <1>3 DEF Families, PendingAlone, Pendings
  <2> QED BY <2>1, <2>2, <2>3, <1>3
<1>10. PendingAlone(A)
  BY <1>8, <1>9 DEF PendingAlone
<1> QED BY <1>5, <1>6, <1>10 DEF Families, A, new

(***************************************************************************)
(* A pending grant is changed, or ended.                                   *)
(***************************************************************************)
LEMMA FamiliesRenew ==
  ASSUME NEW R, Table(R), Chained(R), NEW D, Families(R, D), NEW k \in Pendings(R),
         NEW new, Table(new), DOMAIN new \subseteq {1},
         \A n \in DOMAIN new : /\ new[n].status = "PENDING" /\ new[n].from = None
                               /\ new[n].replaced = k /\ new[n].rate = R[k].rate
  PROVE  Families(After(R, {k}, new), D)
<1> DEFINE A == After(R, {k}, new)
<1>1. /\ k \in DOMAIN R /\ R[k].status = "PENDING" /\ R[k].from = None /\ k # 0
      /\ R[k].rate \in Nat
  BY RowFacts DEF Pendings, Families, PendingAlone
<1>2. Follows(R, new)
  BY <1>1 DEF Follows
<1>3. /\ \A i \in DOMAIN R : i \in DOMAIN A /\ A[i].from = R[i].from
      /\ A[k].status = "DISABLED"
      /\ \A i \in DOMAIN R : i # k => A[i] = R[i]
      /\ \A n \in DOMAIN new : A[Len(R) + n] = new[n] /\ Len(R) + n \notin DOMAIN R
      /\ \A i \in DOMAIN A : i \in DOMAIN R \/ \E n \in DOMAIN new : i = Len(R) + n
  BY <1>1, AfterFacts
<1>4. /\ \A i \in DOMAIN R : Root(A, i) = Root(R, i)
      /\ \A n \in DOMAIN new : Root(A, Len(R) + n) = Root(R, k)
  BY <1>1, <1>2, AfterRoots
<1>5. HeirsSmaller(A)
  BY <1>1, <1>2, AfterSmaller DEF Families
<1>6. HeirsFit(A, D)
  <2>1. {k} \cap Granted(R) = {}
    BY <1>1 DEF Granted
  <2> QED BY <2>1, <1>2, QuietFit DEF Families
<1> HIDE DEF A
<1>7. ASSUME NEW i \in Pendings(A), i \in DOMAIN R
      PROVE  /\ i \in Pendings(R) /\ A[i].from = None
             /\ \A n \in DOMAIN new : Root(A, Len(R) + n) # Root(A, i)
             /\ \A j \in DOMAIN R \ {i} :
                  Root(A, j) = Root(A, i) => A[j].status = "DISABLED" /\ A[j].from = None
  <2>1. i # k /\ i \in Pendings(R) /\ A[i] = R[i]
    BY <1>3, <1>7 DEF Pendings
  <2>2. /\ R[i].from = None
        /\ \A j \in DOMAIN R \ {i} : Root(R, j) = Root(R, i) => R[j].status = "DISABLED" /\ R[j].from = None
    BY <2>1 DEF Families, PendingAlone
  <2>3. Root(R, k) # Root(R, i)
    BY <2>1, <2>2, <1>1
  <2>4. \A n \in DOMAIN new : Root(A, Len(R) + n) # Root(A, i)
    BY <2>3, <1>4, <1>7
  <2>5. ASSUME NEW j \in DOMAIN R \ {i}, Root(A, j) = Root(A, i)
        PROVE  A[j].status = "DISABLED" /\ A[j].from = None
    <3>1. R[j].status = "DISABLED" /\ R[j].from = None
      BY <2>2, <2>5, <1>4, <1>7
    <3> QED BY <3>1, <1>3
  <2> QED BY <2>1, <2>2, <2>4, <2>5
<1>8. ASSUME NEW n \in DOMAIN new
      PROVE  /\ A[Len(R) + n].from = None
             /\ \A j \in DOMAIN A \ {Len(R) + n} :
                  Root(A, j) = Root(A, Len(R) + n) => A[j].status = "DISABLED" /\ A[j].from = None
  <2>1. ASSUME NEW j \in DOMAIN A \ {Len(R) + n}, Root(A, j) = Root(A, Len(R) + n)
        PROVE  A[j].status = "DISABLED" /\ A[j].from = None
    <3>1. j \in DOMAIN R
      BY <1>3, <2>1
    <3>2. Root(R, j) = Root(R, k)
      BY <3>1, <2>1, <1>4
    <3>3. CASE j = k
      BY <3>3, <1>1, <1>3
    <3>4. CASE j # k
      <4>1. R[j].status = "DISABLED" /\ R[j].from = None
        BY <3>1, <3>2, <3>4 DEF Families, PendingAlone
      <4> QED BY <4>1, <3>1, <3>4, <1>3
    <3> QED BY <3>3, <3>4
  <2> QED BY <2>1, <1>3
<1>9. ASSUME NEW i \in Pendings(A)
      PROVE  /\ A[i].from = None
             /\ \A j \in DOMAIN A \ {i} :
                  Root(A, j) = Root(A, i) => A[j].status = "DISABLED" /\ A[j].from = None
  <2>1. i \in DOMAIN A
    BY DEF Pendings
  <2>2. CASE i \in DOMAIN R
    BY <2>2, <1>7, <1>3
  <2>3. CASE i \notin DOMAIN R
    BY <2>1, <2>3, <1>8, <1>3
  <2> QED BY <2>2, <2>3
<1>10. PendingAlone(A)
  BY <1>9 DEF PendingAlone
<1> QED BY <1>5, <1>6, <1>10 DEF Families, A

(***************************************************************************)
(* A granted grant is extended.                                            *)
(***************************************************************************)
LEMMA FamiliesExtend ==
  ASSUME NEW R, Table(R), Chained(R), NEW D, Families(R, D), NEW k \in Granted(R),
         NEW p \in Row, p.status = "GRANTED", p.from # None, p.replaced = k,
         p.rate = R[k].rate,
         NEW E, D \subseteq E,
         (\E j \in Granted(R) \ {k} : Root(R, j) = Root(R, k)) => Root(R, k) \in E
  PROVE  Families(After(R, {k}, <<p>>), E)
<1> DEFINE new == <<p>>
           A == After(R, {k}, new)
           L == Len(R) + 1
<1>1. Table(new) /\ DOMAIN new = {1} /\ new[1] = p
  BY OneRow
<1>2. k \in DOMAIN R /\ k # 0 /\ R[k].from # None /\ R[k].rate \in Nat
  <2>1. k \in DOMAIN R /\ R[k].status = "GRANTED"
    BY DEF Granted
  <2> QED BY <2>1, RowFacts DEF Table
<1>3. Follows(R, new)
  BY <1>1, <1>2 DEF Follows
<1> HIDE DEF new
<1>4. /\ Table(A)
      /\ \A i \in DOMAIN R : i \in DOMAIN A /\ A[i].rate = R[i].rate /\ A[i].replaced = R[i].replaced
      /\ A[k].status = "DISABLED"
      /\ \A i \in DOMAIN R : i # k => A[i] = R[i]
      /\ A[L] = p /\ L \in DOMAIN A /\ L \notin DOMAIN R
      /\ \A i \in DOMAIN A : i \in DOMAIN R \/ i = L
  BY <1>1, <1>2, AfterFacts
<1>5. (\A i \in DOMAIN R : Root(A, i) = Root(R, i)) /\ Root(A, L) = Root(R, k)
  BY <1>1, <1>2, <1>3, AfterRoots
<1>6. HeirsSmaller(A)
  BY <1>1, <1>2, <1>3, AfterSmaller DEF Families
<1>7. PendingAlone(A)
  BY <1>1, <1>2, AfterAlone DEF Families
<1> HIDE DEF A, L
<1>8. ASSUME NEW r \in DOMAIN A \ E, A[r].replaced = 0, NEW t \in 0 .. End - 1
      PROVE  FamilyRate(A, r, t) <= A[r].rate
  <2>1. /\ r \in DOMAIN R /\ r \notin D /\ R[r].replaced = 0 /\ A[r].rate = R[r].rate
        /\ R[r].rate \in Nat
    BY <1>2, <1>4, <1>8, RowFacts
  <2>2. /\ FamilyAt(A, r, t) = {i \in Granted(A) : Root(A, i) = r /\ Covers(A[i], t)}
        /\ FamilyAt(R, r, t) = {i \in Granted(R) : Root(R, i) = r /\ Covers(R[i], t)}
    BY <1>4, FamilyFacts
  <2>3. Granted(A) = (Granted(R) \ {k}) \cup {L}
    BY <1>4 DEF Granted
  <2>4. Granted(R) \subseteq DOMAIN R
    BY DEF Granted
  <2>5. CASE r = Root(R, k)
    <3>1. \A j \in Granted(R) \ {k} : Root(R, j) # r
      BY <2>5, <1>8
    <3>2. FamilyAt(A, r, t) \subseteq {L}
      BY <2>2, <2>3, <2>4, <3>1, <1>5
    <3>3. FamilyRate(A, r, t) <= RateOf(A, {L})
      BY <3>2, <1>4, RatesSubset DEF FamilyRate
    <3>4. RateOf(A, {L}) = R[k].rate
      BY <1>4, RatesOne
    <3>5. R[k].rate <= R[r].rate
      BY <2>5, <1>2 DEF Families, HeirsSmaller
    <3>6. FamilyRate(A, r, t) \in Nat
      BY <1>4, FamilyFacts
    <3> QED BY <3>3, <3>4, <3>5, <3>6, <2>1, <1>2
  <2>6. CASE r # Root(R, k)
    <3>1. FamilyAt(A, r, t) = FamilyAt(R, r, t)
      BY <2>2, <2>3, <2>4, <2>6, <1>4, <1>5
    <3>2. FamilyAt(R, r, t) \in SUBSET DOMAIN R
      BY FamilyFacts
    <3>3. FamilyRate(A, r, t) = FamilyRate(R, r, t)
      BY <3>1, <3>2, <1>4, SameRates DEF FamilyRate
    <3>4. FamilyRate(R, r, t) <= R[r].rate
      BY <2>1 DEF Families, HeirsFit
    <3> QED BY <3>3, <3>4, <2>1
  <2> QED BY <2>5, <2>6
<1>9. HeirsFit(A, E)
  BY <1>8 DEF HeirsFit
<1> QED BY <1>6, <1>7, <1>9 DEF Families, A, new

\* A pending row is decided.
Decision(R, k, g) ==
  /\ k \in Pendings(R) /\ g \in Row /\ g.status \in {"FAILED", "GRANTED"}
  /\ g.status = "GRANTED" => g.from # None
  /\ g.to = R[k].to /\ g.rate = R[k].rate /\ g.replaced = R[k].replaced

\* Table A is R, with row k decided.
Became(R, A, k, g) ==
  /\ k \in DOMAIN R /\ R[k].status = "PENDING" /\ k \notin Granted(R)
  /\ Table(A) /\ DOMAIN A = DOMAIN R /\ Len(A) = Len(R) /\ A[k] = g
  /\ \A i \in DOMAIN R : A[i].rate = R[i].rate /\ A[i].replaced = R[i].replaced /\ A[i].to = R[i].to
  /\ \A i \in DOMAIN R : i # k => A[i] = R[i]
  /\ Granted(A) = Granted(R) \cup (IF g.status = "GRANTED" THEN {k} ELSE {})
  /\ Pendings(A) = Pendings(R) \ {k}

(***************************************************************************)
(* A table with one row decided.                                           *)
(***************************************************************************)
LEMMA DecidedFacts ==
  ASSUME NEW R, Table(R), NEW k, NEW g, Decision(R, k, g)
  PROVE  Became(R, [R EXCEPT ![k] = g], k, g)
<1> DEFINE A == [R EXCEPT ![k] = g]
<1>1. k \in DOMAIN R /\ R[k].status = "PENDING" /\ k \notin Granted(R)
  BY DEF Decision, Pendings, Granted
<1>2. R \in Seq(Row) /\ DOMAIN R = 1 .. Len(R)
  BY RowFacts DEF Table
<1>3. A \in Seq(Row) /\ Len(A) = Len(R)
  BY <1>1, <1>2, ExceptSeq DEF Decision
<1>4. DOMAIN A = DOMAIN R /\ A[k] = g /\ \A i \in DOMAIN R : i # k => A[i] = R[i]
  BY <1>1
<1> HIDE DEF A
<1>5. \A i \in DOMAIN R : A[i].rate = R[i].rate /\ A[i].replaced = R[i].replaced /\ A[i].to = R[i].to
  BY <1>4 DEF Decision
<1>6. Table(A)
  BY <1>3, <1>4 DEF Table, Decision
<1>7. Granted(A) = Granted(R) \cup (IF g.status = "GRANTED" THEN {k} ELSE {})
  BY <1>1, <1>4 DEF Granted
<1>8. Pendings(A) = Pendings(R) \ {k}
  BY <1>1, <1>4 DEF Pendings, Decision
<1> QED BY <1>1, <1>3, <1>4, <1>5, <1>6, <1>7, <1>8 DEF Became, A

(***************************************************************************)
(* A decision keeps the families: the row decided was the only one of its  *)
(* family that counts.                                                     *)
(***************************************************************************)
LEMMA FamiliesDecide ==
  ASSUME NEW R, Table(R), Chained(R), NEW D, Families(R, D), NEW k, NEW g, NEW A,
         Became(R, A, k, g)
  PROVE  Chained(A) /\ Families(A, D)
<1>1. /\ k \in DOMAIN R /\ R[k].status = "PENDING" /\ k \notin Granted(R)
      /\ Table(A) /\ DOMAIN A = DOMAIN R /\ A[k] = g
      /\ \A i \in DOMAIN R : A[i].rate = R[i].rate /\ A[i].replaced = R[i].replaced
      /\ \A i \in DOMAIN R : i # k => A[i] = R[i]
      /\ Granted(A) = Granted(R) \cup (IF g.status = "GRANTED" THEN {k} ELSE {})
      /\ Pendings(A) = Pendings(R) \ {k}
  BY DEF Became
<1>2. Chained(A)
  BY <1>1 DEF Chained
<1>3. \A i \in DOMAIN R : Root(A, i) = Root(R, i) /\ Root(R, i) \in DOMAIN R
  BY <1>1, <1>2, RootStays, RootFacts
<1>4. HeirsSmaller(A)
  BY <1>1, <1>3 DEF Families, HeirsSmaller
<1>5. PendingAlone(A)
  <2>1. ASSUME NEW i \in Pendings(A)
        PROVE  /\ A[i].from = None
               /\ \A j \in DOMAIN A \ {i} :
                    Root(A, j) = Root(A, i) => A[j].status = "DISABLED" /\ A[j].from = None
    <3>1. i \in Pendings(R) /\ i # k /\ i \in DOMAIN R
      BY <1>1 DEF Pendings
    <3>2. /\ R[i].from = None
          /\ \A j \in DOMAIN R \ {i} : Root(R, j) = Root(R, i) => R[j].status = "DISABLED" /\ R[j].from = None
      BY <3>1 DEF Families, PendingAlone
    <3>3. Root(R, k) # Root(R, i)
      BY <3>1, <3>2, <1>1
    <3> QED BY <3>1, <3>2, <3>3, <1>1, <1>3
  <2> QED BY <2>1 DEF PendingAlone
<1>6. ASSUME NEW r \in DOMAIN A \ D, A[r].replaced = 0, NEW t \in 0 .. End - 1
      PROVE  FamilyRate(A, r, t) <= A[r].rate
  <2>1. /\ r \in DOMAIN R /\ R[r].replaced = 0 /\ A[r].rate = R[r].rate
        /\ R[r].rate \in Nat /\ R[k].rate \in Nat
    BY <1>1, <1>6, RowFacts
  <2>2. /\ FamilyAt(A, r, t) = {i \in Granted(A) : Root(A, i) = r /\ Covers(A[i], t)}
        /\ FamilyAt(R, r, t) = {i \in Granted(R) : Root(R, i) = r /\ Covers(R[i], t)}
    BY <1>1, FamilyFacts
  <2>3. Granted(R) \subseteq DOMAIN R
    BY DEF Granted
  <2>4. CASE r = Root(R, k)
    <3>1. \A j \in DOMAIN R \ {k} : Root(R, j) = r => R[j].status = "DISABLED"
      BY <2>4, <1>1 DEF Families, PendingAlone, Pendings
    <3>2. \A j \in Granted(R) : Root(R, j) # r
      BY <3>1, <2>3, <1>1 DEF Granted
    <3>3. FamilyAt(A, r, t) \subseteq {k}
      BY <2>2, <2>3, <3>2, <1>1, <1>3
    <3>4. FamilyRate(A, r, t) <= RateOf(A, {k})
      BY <3>3, <1>1, RatesSubset DEF FamilyRate
    <3>5. RateOf(A, {k}) = R[k].rate
      BY <1>1, RatesOne
    <3>6. R[k].rate <= R[r].rate
      BY <2>4, <1>1 DEF Families, HeirsSmaller
    <3>7. FamilyRate(A, r, t) \in Nat
      BY <1>1, FamilyFacts
    <3> QED BY <3>4, <3>5, <3>6, <3>7, <2>1
  <2>5. CASE r # Root(R, k)
    <3>1. FamilyAt(A, r, t) = FamilyAt(R, r, t)
      BY <2>2, <2>3, <2>5, <1>1, <1>3
    <3>2. FamilyAt(R, r, t) \in SUBSET DOMAIN R
      BY FamilyFacts
    <3>3. FamilyRate(A, r, t) = FamilyRate(R, r, t)
      BY <3>1, <3>2, <1>1, SameRates DEF FamilyRate
    <3>4. FamilyRate(R, r, t) <= R[r].rate
      BY <2>1, <1>6 DEF Families, HeirsFit
    <3> QED BY <3>3, <3>4, <2>1
  <2> QED BY <2>4, <2>5
<1>7. HeirsFit(A, D)
  BY <1>6 DEF HeirsFit
<1> QED BY <1>2, <1>4, <1>5, <1>7 DEF Families

-----------------------------------------------------------------------------
(* The inductive invariant.                                                *)

\* The variables that hold numbers and flags.
PlainOK ==
  /\ now \in 0 .. End - 1 /\ capacity \in Capacities
  /\ Collection!TypeOK
  /\ verdict \in {"wait", "deny", "approve", None}
  /\ seen \subseteq DOMAIN rows
  /\ due \in BOOLEAN /\ phase \in {"idle", "read"}
  /\ created \in 0 .. MaxCreated /\ updated \in 0 .. MaxUpdated
  /\ faults \in 0 .. MaxFaults
  /\ stale \in BOOLEAN /\ overtaken \in BOOLEAN /\ excused \in BOOLEAN
  /\ doubled \subseteq DOMAIN rows

\* The rows: well formed, replaced by later ones only, in order of time.
RowsOK == Table(rows) /\ Chained(rows) /\ InOrder(rows, now)

\* A plan for rows that have been granted.
Planned(R, C, new) ==
  /\ Table(new) /\ Heirs(R, C, new)
  /\ \A i \in C : R[i].status \in {"GRANTED", "DISABLED"}

\* The queue holds the pending rows, each once.
QueueOK == queue \in Seq(Nat) /\ IsInjective(queue) /\ ToSet(queue) = Pendings(rows)

\* The reviewer holds a pending row and has made up its mind.
ReviewOK ==
  /\ reviewing \in Pendings(rows) \cup {None}
  /\ reviewing # None => verdict \in {"wait", "deny", "approve"}

\* The cut brings the promises within the capacity.
CutSuffices ==
  phase = "read" /\ ~overtaken =>
    /\ cut \subseteq Granted(rows)
    /\ \A t \in now .. End - 1 : RateAt(After(rows, cut, plan), t) <= capacity

\* There is room for the grant that is going to be approved.
RoomForGrant ==
  reviewing # None /\ verdict = "approve" /\ ~stale =>
    \A t \in now .. rows[reviewing].to - 1 : RateAt(rows, t) + rows[reviewing].rate <= capacity

(***************************************************************************)
(* What is promised, and will be by what is under way, is within the       *)
(* capacity.                                                               *)
(***************************************************************************)
Capped == CutSuffices /\ RoomForGrant /\ RatesWithinCapacity

\* The inductive invariant.
Inv ==
  /\ PlainOK /\ RowsOK /\ Planned(rows, cut, plan) /\ QueueOK /\ ReviewOK
  /\ Capped /\ Families(rows, doubled)

(***************************************************************************)
(* The numbers of the state.                                               *)
(***************************************************************************)
LEMMA CapacityType ==
  ASSUME PlainOK
  PROVE  capacity \in Nat /\ now \in Nat /\ now \in Int /\ End \in Nat
BY ConstantsAssumption DEF PlainOK

(***************************************************************************)
(* The invariant implies the types.                                        *)
(***************************************************************************)
LEMMA InvType == ASSUME Inv PROVE TypeOK
<1>1. PlainOK /\ Table(rows) /\ Planned(rows, cut, plan) /\ QueueOK /\ ReviewOK
  BY DEF Inv, RowsOK
<1>2. /\ rows \in Seq(Row)
      /\ \A i \in DOMAIN rows : rows[i].status = "GRANTED" => rows[i].from # None
  BY <1>1 DEF Table
<1>3. ToSet(queue) = {i \in DOMAIN rows : rows[i].status = "PENDING"}
  BY <1>1 DEF QueueOK, Pendings
<1>4. reviewing \in ToSet(queue) \cup {None}
  BY <1>1 DEF QueueOK, ReviewOK
<1>5. cut \subseteq DOMAIN rows /\ plan \in Seq(Row)
  BY <1>1 DEF Planned, Heirs, Table
<1> QED BY <1>1, <1>2, <1>3, <1>4, <1>5 DEF TypeOK, PlainOK

(***************************************************************************)
(* The invariant implies that heirs stay within their grant.               *)
(***************************************************************************)
LEMMA InvHeirs == ASSUME Inv PROVE HeirsWithinGrant
<1>1. Table(rows) /\ HeirsFit(rows, doubled)
  BY DEF Inv, RowsOK, Families
<1>2. ASSUME NEW r \in DOMAIN rows \ doubled, rows[r].replaced = 0,
             NEW t \in 0 .. End - 1
      PROVE  RateOf(rows, {i \in Granted(rows) : Root(rows, i) = r /\ Covers(rows[i], t)}) <= rows[r].rate
  <2>1. FamilyRate(rows, r, t) <= rows[r].rate
    BY <1>1, <1>2 DEF HeirsFit
  <2>2. FamilyAt(rows, r, t) = {i \in Granted(rows) : Root(rows, i) = r /\ Covers(rows[i], t)}
    BY <1>1, FamilyFacts
  <2> QED BY <2>1, <2>2 DEF FamilyRate
<1> QED BY <1>2 DEF HeirsWithinGrant

(***************************************************************************)
(* It holds initially.                                                     *)
(***************************************************************************)
LEMMA InvInit == ASSUME Init PROVE Inv
<1> USE DEF Init
<1>1. /\ 0 \in Nat /\ MaxCreated \in Nat /\ MaxUpdated \in Nat /\ MaxFaults \in Nat
      /\ End \in Nat \ {0}
  BY ConstantsAssumption
<1>2. DOMAIN rows = {} /\ Table(rows) /\ Table(plan) /\ DOMAIN plan = {}
  BY NoRows
<1>3. PlainOK
  <2>1. Collection!TypeOK
    BY DEF Collection!Init, Collection!TypeOK
  <2>2. now \in 0 .. End - 1 /\ capacity \in Capacities
    BY <1>1
  <2>3. /\ created \in 0 .. MaxCreated /\ updated \in 0 .. MaxUpdated
        /\ faults \in 0 .. MaxFaults
    BY <1>1
  <2>4. /\ verdict \in {"wait", "deny", "approve", None}
        /\ seen \subseteq DOMAIN rows /\ doubled \subseteq DOMAIN rows
        /\ due \in BOOLEAN /\ phase \in {"idle", "read"}
        /\ stale \in BOOLEAN /\ overtaken \in BOOLEAN /\ excused \in BOOLEAN
    OBVIOUS
  <2> QED BY <2>1, <2>2, <2>3, <2>4 DEF PlainOK
<1>4. RowsOK
  BY <1>2 DEF RowsOK, Chained, InOrder, Granted
<1>5. Planned(rows, cut, plan)
  BY <1>2 DEF Planned, Heirs, Disjoint
<1>6. QueueOK
  BY <1>2, EmptySeq DEF QueueOK, IsInjective, ToSet, Pendings
<1>7. ReviewOK
  BY DEF ReviewOK
<1>8. CutSuffices /\ RoomForGrant
  BY DEF CutSuffices, RoomForGrant
<1>9. RatesWithinCapacity
  <2>1. ASSUME NEW t \in now .. End - 1 PROVE RateAt(rows, t) <= capacity
    <3>1. At(rows, t) = {}
      BY <1>2 DEF At, Granted
    <3>2. Total([i \in DOMAIN rows |-> rows[i].rate], {}) = 0
      BY TotalEmpty
    <3>3. RateAt(rows, t) = 0
      BY <3>1, <3>2, <1>2, AtFacts DEF RateOf
    <3> QED BY <3>3, ConstantsAssumption
  <2> QED BY <2>1 DEF RatesWithinCapacity, Within
<1>10. Families(rows, doubled)
  BY <1>2 DEF Families, HeirsFit, HeirsSmaller, PendingAlone, Pendings
<1> QED BY <1>3, <1>4, <1>5, <1>6, <1>7, <1>8, <1>9, <1>10 DEF Inv, Capped

-----------------------------------------------------------------------------
(* Steps that promise nothing new.                                         *)

\* Promises only shrink.
Shrinks ==
  /\ now <= now' /\ now' \in Int /\ capacity <= capacity' /\ capacity' \in Int
  /\ excused => excused'
  /\ Table(rows') /\ \A t \in Int : RateAt(rows', t) <= RateAt(rows, t)

\* A re-review that goes on promises no more than before.
KeepsCut ==
  phase' = "read" /\ ~overtaken' =>
    /\ phase = "read" /\ ~overtaken /\ cut' \subseteq Granted(rows') /\ Table(plan')
    /\ \A t \in Int : RateAt(After(rows', cut', plan'), t) <= RateAt(After(rows, cut, plan), t)

\* A grant that is going to be approved stays as it is.
KeepsGrant ==
  reviewing' # None /\ verdict' = "approve" /\ ~stale' =>
    /\ reviewing' = reviewing /\ verdict' = verdict /\ ~stale
    /\ rows'[reviewing] = rows[reviewing]

(***************************************************************************)
(* A step that promises no more, and leaves alone or invalidates what is   *)
(* under way, keeps the promises within the capacity.                      *)
(***************************************************************************)
LEMMA CappedStays ==
  ASSUME Inv, Shrinks, KeepsCut, KeepsGrant PROVE Capped'
<1>1. /\ Table(rows) /\ Table(plan) /\ capacity \in Nat /\ now \in Int /\ End \in Nat
      /\ CutSuffices /\ RoomForGrant /\ RatesWithinCapacity
      /\ Pendings(rows) \subseteq DOMAIN rows /\ ReviewOK
  BY CapacityType DEF Inv, RowsOK, Planned, Capped, Pendings
<1>2. /\ now <= now' /\ now' \in Int /\ capacity <= capacity' /\ capacity' \in Int
      /\ excused => excused'
      /\ Table(rows') /\ \A t \in Int : RateAt(rows', t) <= RateAt(rows, t)
  BY DEF Shrinks
<1>3. \A t \in Int : RateAt(rows', t) \in Nat /\ RateAt(rows, t) \in Nat
  BY <1>1, <1>2, AtFacts
<1>4. RatesWithinCapacity'
  <2>1. ASSUME NEW t \in now' .. End - 1, ~excused PROVE RateAt(rows', t) <= capacity'
    <3>1. t \in now .. End - 1
      BY <1>1, <1>2
    <3>2. RateAt(rows, t) <= capacity
      BY <3>1, <2>1, <1>1 DEF RatesWithinCapacity, Within
    <3>3. t \in Int
      BY <1>1, <1>2
    <3> QED BY <3>2, <3>3, <1>1, <1>2, <1>3
  <2> QED BY <2>1, <1>2 DEF RatesWithinCapacity, Within
<1>5. CutSuffices'
  <2>1. ASSUME phase' = "read" /\ ~overtaken', NEW t \in now' .. End - 1
        PROVE  RateAt(After(rows', cut', plan'), t) <= capacity'
    <3>1. t \in now .. End - 1 /\ t \in Int
      BY <1>1, <1>2
    <3>2. /\ phase = "read" /\ ~overtaken /\ Table(plan')
          /\ RateAt(After(rows', cut', plan'), t) <= RateAt(After(rows, cut, plan), t)
      BY <3>1, <2>1 DEF KeepsCut
    <3>3. RateAt(After(rows, cut, plan), t) <= capacity
      BY <3>1, <3>2, <1>1 DEF CutSuffices
    <3>4. Table(After(rows, cut, plan)) /\ Table(After(rows', cut', plan'))
      BY <3>2, <1>1, <1>2, AfterFacts
    <3>5. /\ RateAt(After(rows, cut, plan), t) \in Nat
          /\ RateAt(After(rows', cut', plan'), t) \in Nat
      BY <3>4, AtFacts
    <3> QED BY <3>2, <3>3, <3>5, <1>1, <1>2
  <2>2. ASSUME phase' = "read" /\ ~overtaken' PROVE cut' \subseteq Granted(rows')
    BY <2>2 DEF KeepsCut
  <2> QED BY <2>1, <2>2 DEF CutSuffices
<1>6. RoomForGrant'
  <2>1. ASSUME reviewing' # None /\ verdict' = "approve" /\ ~stale',
               NEW t \in now' .. rows'[reviewing'].to - 1
        PROVE  RateAt(rows', t) + rows'[reviewing'].rate <= capacity'
    <3> DEFINE g == rows[reviewing]
    <3>1. /\ reviewing # None /\ verdict = "approve" /\ ~stale
          /\ rows'[reviewing'] = g
      BY <2>1 DEF KeepsGrant
    <3>2. reviewing \in DOMAIN rows /\ g.to \in 1 .. End /\ g.rate \in Nat
      BY <3>1, <1>1, RowFacts DEF ReviewOK
    <3>3. \A u \in now .. g.to - 1 : RateAt(rows, u) + g.rate <= capacity
      BY <3>1, <1>1 DEF RoomForGrant
    <3> HIDE DEF g
    <3>4. t \in now .. g.to - 1 /\ t \in Int
      BY <3>1, <3>2, <2>1, <1>1, <1>2
    <3>5. RateAt(rows, t) + g.rate <= capacity
      BY <3>3, <3>4
    <3> QED BY <3>1, <3>2, <3>4, <3>5, <1>1, <1>2, <1>3
  <2> QED BY <2>1 DEF RoomForGrant
<1> QED BY <1>4, <1>5, <1>6 DEF Capped

(***************************************************************************)
(* Rows that stay the same stay well formed when time goes on.             *)
(***************************************************************************)
LEMMA RowsStay ==
  ASSUME Inv, UNCHANGED <<rows, doubled>>, now' \in Int, now <= now'
  PROVE  RowsOK' /\ Families(rows, doubled)'
<1>1. /\ Table(rows) /\ Chained(rows) /\ InOrder(rows, now) /\ Families(rows, doubled)
      /\ now \in Int
  BY CapacityType DEF Inv, RowsOK
<1>2. InOrder(rows, now')
  BY <1>1, GrantedFacts DEF InOrder
<1>3. Table(rows') /\ Chained(rows') /\ InOrder(rows', now')
  BY <1>1, <1>2
<1>4. Families(rows', doubled')
  BY <1>1
<1> QED BY <1>3, <1>4 DEF RowsOK

(***************************************************************************)
(* A plan stays one when rows, cut and plan stay the same.                 *)
(***************************************************************************)
LEMMA CutStays ==
  ASSUME Inv, UNCHANGED <<rows, cut, plan>> PROVE Planned(rows, cut, plan)'
<1>1. Planned(rows, cut, plan)
  BY DEF Inv
<1> QED BY <1>1

(***************************************************************************)
(* A step that leaves the rows alone and lowers no capacity.               *)
(***************************************************************************)
LEMMA SameCapped ==
  ASSUME Inv, UNCHANGED rows, now' \in Int, now <= now', capacity' \in Int,
         capacity <= capacity',
         excused => excused',
         phase' = "read" /\ ~overtaken' => phase = "read" /\ ~overtaken /\ UNCHANGED <<cut, plan>>,
         reviewing' # None /\ verdict' = "approve" /\ ~stale' => ~stale /\ UNCHANGED <<reviewing, verdict>>
  PROVE  Capped'
<1>1. Table(rows) /\ Table(plan) /\ CutSuffices
  BY DEF Inv, RowsOK, Planned, Capped
<1>2. \A t \in Int : RateAt(rows, t) \in Nat
  BY <1>1, AtFacts
<1>3. Shrinks
  <2>1. Table(rows')
    BY <1>1
  <2>2. \A t \in Int : RateAt(rows', t) <= RateAt(rows, t)
    BY <1>2
  <2> QED BY <2>1, <2>2 DEF Shrinks
<1>4. KeepsCut
  <2>1. ASSUME phase' = "read" /\ ~overtaken'
        PROVE  /\ phase = "read" /\ ~overtaken /\ cut' \subseteq Granted(rows')
               /\ Table(plan')
               /\ \A t \in Int : RateAt(After(rows', cut', plan'), t) <= RateAt(After(rows, cut, plan), t)
    <3>1. phase = "read" /\ ~overtaken /\ cut' = cut /\ plan' = plan
      BY <2>1
    <3>2. cut \subseteq Granted(rows)
      BY <3>1, <1>1 DEF CutSuffices
    <3>3. Table(After(rows, cut, plan))
      BY <1>1, AfterFacts
    <3>4. \A t \in Int : RateAt(After(rows, cut, plan), t) \in Nat
      BY <3>3, AtFacts
    <3>5. After(rows', cut', plan') = After(rows, cut, plan)
      BY <3>1
    <3>6. cut' \subseteq Granted(rows') /\ Table(plan')
      BY <3>1, <3>2, <1>1
    <3>7. \A t \in Int : RateAt(After(rows', cut', plan'), t) <= RateAt(After(rows, cut, plan), t)
      BY <3>4, <3>5
    <3> QED BY <3>1, <3>6, <3>7
  <2> QED BY <2>1 DEF KeepsCut
<1>5. KeepsGrant
  BY DEF KeepsGrant
<1> QED BY <1>3, <1>4, <1>5, CappedStays

(***************************************************************************)
(* Time goes on.                                                           *)
(***************************************************************************)
LEMMA TickStep == ASSUME Inv, Tick PROVE Inv'
<1>1. PlainOK /\ QueueOK /\ ReviewOK
  BY DEF Inv
<1>2. /\ now \in Int /\ now' \in Int /\ now <= now' /\ now' \in 0 .. End - 1
      /\ capacity \in Int
  BY CapacityType, <1>1 DEF Tick, PlainOK
<1>3. /\ capacity' = capacity /\ rows' = rows /\ queue' = queue /\ status' = status
      /\ head' = head
      /\ reviewing' = reviewing /\ verdict' = verdict /\ seen' = seen
      /\ due' = due /\ phase' = phase /\ cut' = cut /\ plan' = plan
      /\ created' = created /\ updated' = updated /\ faults' = faults
      /\ stale' = stale /\ overtaken' = overtaken /\ excused' = excused
      /\ doubled' = doubled
  BY DEF Tick, reviewVars, loopVars, bounds, ghosts
<1>4. PlainOK'
  BY <1>1, <1>2, <1>3 DEF PlainOK, Collection!TypeOK
<1>5. QueueOK' /\ ReviewOK'
  BY <1>1, <1>3 DEF QueueOK, ReviewOK
<1>6. RowsOK' /\ Families(rows, doubled)'
  BY <1>2, <1>3, RowsStay
<1>7. Planned(rows, cut, plan)'
  BY <1>3, CutStays
<1>8. Capped'
  BY <1>2, <1>3, SameCapped
<1> QED BY <1>4, <1>5, <1>6, <1>7, <1>8 DEF Inv

(***************************************************************************)
(* The indexer moves the collection.                                       *)
(***************************************************************************)
LEMMA IndexingStep == ASSUME Inv, Indexing PROVE Inv'
<1>1. PlainOK /\ QueueOK /\ ReviewOK
  BY DEF Inv
<1>2. now \in Int /\ capacity \in Int
  BY CapacityType, <1>1
<1>3. /\ now' = now /\ capacity' = capacity /\ rows' = rows /\ queue' = queue
      /\ reviewing' = reviewing /\ verdict' = verdict /\ seen' = seen
      /\ due' = due /\ phase' = phase /\ cut' = cut /\ plan' = plan
      /\ created' = created /\ updated' = updated /\ faults' = faults
      /\ stale' = stale /\ overtaken' = overtaken /\ excused' = excused
      /\ doubled' = doubled
  BY DEF Indexing, Index, reviewVars, loopVars, bounds, ghosts
<1>4. Collection!TypeOK'
  BY <1>1
  DEF Indexing, Index, PlainOK, Collection!TypeOK, Collection!Begin,
      Collection!GoLive,
              Collection!GiveUp, Collection!Undecided, Collection!Decided, Collection!GivenUp
<1>5. PlainOK'
  BY <1>1, <1>3, <1>4 DEF PlainOK
<1>6. QueueOK' /\ ReviewOK'
  BY <1>1, <1>3 DEF QueueOK, ReviewOK
<1>7. RowsOK' /\ Families(rows, doubled)'
  BY <1>2, <1>3, RowsStay
<1>8. Planned(rows, cut, plan)'
  BY <1>3, CutStays
<1>9. Capped'
  BY <1>2, <1>3, SameCapped
<1> QED BY <1>5, <1>6, <1>7, <1>8, <1>9 DEF Inv

(***************************************************************************)
(* The capacity changes; when it falls, the excess is excused until the    *)
(* next re-review.                                                         *)
(***************************************************************************)
LEMMA CalculateStep == ASSUME Inv, NEW cap \in Capacities, Calculate(cap) PROVE Inv'
<1>1. PlainOK /\ QueueOK /\ ReviewOK /\ Capped /\ Table(rows)
  BY DEF Inv, RowsOK
<1>2. now \in Int /\ capacity \in Int /\ cap \in Int
  BY CapacityType, ConstantsAssumption, <1>1
<1>3. /\ now' = now /\ rows' = rows /\ queue' = queue /\ status' = status
      /\ head' = head
      /\ reviewing' = reviewing /\ verdict' = verdict /\ seen' = seen
      /\ phase' = phase /\ cut' = cut /\ plan' = plan
      /\ created' = created /\ updated' = updated /\ faults' = faults
      /\ doubled' = doubled
      /\ capacity' = cap /\ due' = TRUE /\ excused' = (excused \/ cap < capacity)
      /\ stale' = (reviewing # None /\ (stale \/ cap < capacity))
      /\ overtaken' = (phase = "read" /\ (overtaken \/ cap < capacity))
  BY DEF Calculate, Upset, reviewVars, bounds
<1>4. PlainOK'
  BY <1>1, <1>3 DEF PlainOK, Collection!TypeOK
<1>5. QueueOK' /\ ReviewOK'
  BY <1>1, <1>3 DEF QueueOK, ReviewOK
<1>6. RowsOK' /\ Families(rows, doubled)'
  BY <1>2, <1>3, RowsStay
<1>7. Planned(rows, cut, plan)'
  BY <1>3, CutStays
<1>8. Capped'
  <2>1. CASE cap < capacity
    <3>1. /\ excused' /\ ~(phase' = "read" /\ ~overtaken')
          /\ ~(reviewing' # None /\ ~stale')
      BY <2>1, <1>3
    <3> QED BY <3>1 DEF Capped, CutSuffices, RoomForGrant, RatesWithinCapacity
  <2>2. CASE ~(cap < capacity)
    <3>1. capacity <= capacity' /\ capacity' \in Int
      BY <2>2, <1>2, <1>3
    <3>2. /\ excused => excused'
          /\ phase' = "read" /\ ~overtaken' => phase = "read" /\ ~overtaken /\ UNCHANGED <<cut, plan>>
          /\ reviewing' # None /\ verdict' = "approve" /\ ~stale' =>
               ~stale /\ UNCHANGED <<reviewing, verdict>>
      BY <1>3
    <3> QED BY <3>1, <3>2, <1>2, <1>3, SameCapped
  <2> QED BY <2>1, <2>2
<1> QED BY <1>4, <1>5, <1>6, <1>7, <1>8 DEF Inv

(***************************************************************************)
(* The reviewer's transaction is rolled back.                              *)
(***************************************************************************)
LEMMA ReviewFailsStep == ASSUME Inv, ReviewFails PROVE Inv'
<1>1. PlainOK /\ QueueOK /\ ReviewOK
  BY DEF Inv
<1>2. now \in Int /\ capacity \in Int
  BY CapacityType, <1>1
<1>3. /\ now' = now /\ capacity' = capacity /\ rows' = rows /\ queue' = queue
      /\ status' = status /\ head' = head
      /\ reviewing' = None /\ verdict' = None /\ seen' = {} /\ stale' = FALSE
      /\ due' = due /\ phase' = phase /\ cut' = cut /\ plan' = plan
      /\ created' = created /\ updated' = updated /\ faults < MaxFaults
      /\ faults' = faults + 1
      /\ overtaken' = overtaken /\ excused' = excused /\ doubled' = doubled
  BY DEF ReviewFails, loopVars
<1>4. PlainOK'
  <2>1. faults' \in 0 .. MaxFaults
    BY <1>1, <1>3, ConstantsAssumption DEF PlainOK
  <2> QED BY <2>1, <1>1, <1>3 DEF PlainOK, Collection!TypeOK
<1>5. QueueOK' /\ ReviewOK'
  BY <1>1, <1>3 DEF QueueOK, ReviewOK
<1>6. RowsOK' /\ Families(rows, doubled)'
  BY <1>2, <1>3, RowsStay
<1>7. Planned(rows, cut, plan)'
  BY <1>3, CutStays
<1>8. Capped'
  BY <1>2, <1>3, SameCapped
<1> QED BY <1>4, <1>5, <1>6, <1>7, <1>8 DEF Inv

(***************************************************************************)
(* The reviewer stops.                                                     *)
(***************************************************************************)
LEMMA ReviewStopsStep == ASSUME Inv, ReviewStops PROVE Inv'
<1>1. PlainOK /\ QueueOK /\ ReviewOK
  BY DEF Inv
<1>2. now \in Int /\ capacity \in Int
  BY CapacityType, <1>1
<1>3. /\ now' = now /\ capacity' = capacity /\ rows' = rows /\ status' = status
      /\ head' = head
      /\ reviewing = None /\ reviewing' = None /\ verdict' = verdict /\ seen' = {}
      /\ due' = due /\ phase' = phase /\ cut' = cut /\ plan' = plan
      /\ created' = created /\ updated' = updated /\ faults' = faults
      /\ stale' = stale /\ overtaken' = overtaken /\ excused' = excused
      /\ doubled' = doubled
      /\ queue' = queue \/ (queue # <<>> /\ queue' = Append(Tail(queue), Head(queue)))
  BY DEF ReviewStops, loopVars, bounds, ghosts
<1>4. PlainOK'
  BY <1>1, <1>3 DEF PlainOK, Collection!TypeOK
<1>5. ReviewOK'
  BY <1>3 DEF ReviewOK
<1>6. QueueOK'
  <2>1. queue' \in Seq(Nat) /\ IsInjective(queue') /\ ToSet(queue') = ToSet(queue)
    BY <1>1, <1>3, HeadLast DEF QueueOK
  <2> QED BY <2>1, <1>1, <1>3 DEF QueueOK
<1>7. RowsOK' /\ Families(rows, doubled)'
  BY <1>2, <1>3, RowsStay
<1>8. Planned(rows, cut, plan)'
  BY <1>3, CutStays
<1>9. Capped'
  BY <1>2, <1>3, SameCapped
<1> QED BY <1>4, <1>5, <1>6, <1>7, <1>8, <1>9 DEF Inv

(***************************************************************************)
(* The re-review fails before it writes.                                   *)
(***************************************************************************)
LEMMA ReReviewFailsStep == ASSUME Inv, ReReviewFails PROVE Inv'
<1>1. PlainOK /\ QueueOK /\ ReviewOK
  BY DEF Inv
<1>2. now \in Int /\ capacity \in Int
  BY CapacityType, <1>1
<1>3. /\ now' = now /\ capacity' = capacity /\ rows' = rows /\ queue' = queue
      /\ status' = status /\ head' = head
      /\ reviewing' = reviewing /\ verdict' = verdict /\ seen' = seen
      /\ stale' = stale
      /\ due' = TRUE /\ phase' = "idle" /\ cut' = {} /\ plan' = <<>>
      /\ overtaken' = FALSE
      /\ created' = created /\ updated' = updated /\ faults < MaxFaults
      /\ faults' = faults + 1
      /\ excused' = excused /\ doubled' = doubled
  BY DEF ReReviewFails, reviewVars
<1>4. PlainOK'
  <2>1. faults' \in 0 .. MaxFaults
    BY <1>1, <1>3, ConstantsAssumption DEF PlainOK
  <2> QED BY <2>1, <1>1, <1>3 DEF PlainOK, Collection!TypeOK
<1>5. QueueOK' /\ ReviewOK'
  BY <1>1, <1>3 DEF QueueOK, ReviewOK
<1>6. RowsOK' /\ Families(rows, doubled)'
  BY <1>2, <1>3, RowsStay
<1>7. Planned(rows, cut, plan)'
  BY <1>3, NoRows DEF Planned, Heirs, Disjoint
<1>8. Capped'
  BY <1>2, <1>3, SameCapped
<1> QED BY <1>4, <1>5, <1>6, <1>7, <1>8 DEF Inv

(***************************************************************************)
(* The reviewer reads.  When it finds room, MaxSpent bounds what is        *)
(* promised for all the time the grant has left.                           *)
(***************************************************************************)
LEMMA ReviewBeginStep == ASSUME Inv, ReviewBegin PROVE Inv'
<1> DEFINE h == Head(queue)
           g == rows[h]
<1>1. PlainOK /\ QueueOK /\ ReviewOK /\ Capped /\ Table(rows) /\ InOrder(rows, now)
  BY DEF Inv, RowsOK
<1>2. now \in Int /\ capacity \in Int /\ now \in 0 .. End - 1 /\ End \in Nat
  BY CapacityType, <1>1 DEF PlainOK
<1>3. /\ now' = now /\ capacity' = capacity /\ rows' = rows /\ queue' = queue
      /\ status' = status /\ head' = head
      /\ reviewing = None /\ queue # <<>> /\ reviewing' = h
      /\ verdict' \in Verdicts(g)
      /\ seen' = seen \cup {h} /\ stale' = FALSE
      /\ due' = due /\ phase' = phase /\ cut' = cut /\ plan' = plan
      /\ created' = created /\ updated' = updated /\ faults' = faults
      /\ overtaken' = overtaken /\ excused' = excused /\ doubled' = doubled
  BY DEF ReviewBegin, loopVars, bounds
<1>4. h \in Pendings(rows) /\ h \in DOMAIN rows
  <2>1. h \in ToSet(queue)
    BY <1>1, <1>3, HeadLast DEF QueueOK
  <2> QED BY <2>1, <1>1 DEF QueueOK, Pendings
<1>5. /\ verdict' \in {"wait", "deny", "approve"}
      /\ verdict' = "approve" => ~(g.to < now) /\ ~(capacity - MaxSpent(rows, now, g.to) < g.rate)
  BY <1>3 DEF Verdicts
<1> HIDE DEF h
<1>6. PlainOK'
  BY <1>1, <1>3, <1>4, <1>5 DEF PlainOK, Collection!TypeOK
<1>7. QueueOK' /\ ReviewOK'
  BY <1>1, <1>3, <1>4, <1>5 DEF QueueOK, ReviewOK
<1>8. RowsOK' /\ Families(rows, doubled)'
  BY <1>2, <1>3, RowsStay
<1>9. Planned(rows, cut, plan)'
  BY <1>3, CutStays
<1>10. CutSuffices' /\ RatesWithinCapacity'
  BY <1>1, <1>3 DEF Capped, CutSuffices, RatesWithinCapacity, Within
<1>11. RoomForGrant'
  <2>1. ASSUME verdict' = "approve", NEW t \in now .. g.to - 1
        PROVE  RateAt(rows, t) + g.rate <= capacity
    <3>1. /\ g.to \in 1 .. End /\ g.to \in 0 .. End /\ now \in 0 .. End
          /\ g.rate \in Nat /\ t \in Int
      BY <1>1, <1>2, <1>4, RowFacts
    <3> DEFINE m == MaxSpent(rows, now, g.to)
    <3> HIDE DEF g
    <3>2. m \in Int /\ RateAt(rows, t) <= m
      BY <3>1, <1>1, <2>1, MaxSpentBounds
    <3>3. ~(capacity - m < g.rate)
      BY <2>1, <1>5
    <3> HIDE DEF m
    <3>4. RateAt(rows, t) \in Nat
      BY <1>1, AtFacts
    <3> QED BY <3>1, <3>2, <3>3, <3>4, <1>2
  <2> QED BY <2>1, <1>3 DEF RoomForGrant
<1> QED BY <1>6, <1>7, <1>8, <1>9, <1>10, <1>11 DEF Inv, Capped

(***************************************************************************)
(* The re-review reads, and plans a cut that suffices.                     *)
(***************************************************************************)
LEMMA ReReviewReadStep == ASSUME Inv, ReReviewRead PROVE Inv'
<1> DEFINE I == Overflowed(rows, capacity)
           new == Replacements(rows, I, capacity)
<1>1. PlainOK /\ QueueOK /\ ReviewOK /\ Capped /\ Table(rows) /\ InOrder(rows, now)
  BY DEF Inv, RowsOK
<1>2. now \in Int /\ capacity \in Nat /\ now \in 0 .. End - 1 /\ End \in Nat
  BY CapacityType, <1>1 DEF PlainOK
<1>3. /\ now' = now /\ capacity' = capacity /\ rows' = rows /\ queue' = queue
      /\ status' = status /\ head' = head
      /\ reviewing' = reviewing /\ verdict' = verdict /\ seen' = seen
      /\ stale' = stale
      /\ due' = FALSE /\ phase' = "read" /\ cut' = I /\ plan' = new
      /\ overtaken' = FALSE
      /\ created' = created /\ updated' = updated /\ faults' = faults
      /\ excused' = excused /\ doubled' = doubled
  BY DEF ReReviewRead, reviewVars, bounds
<1>4. I \in SUBSET Granted(rows)
  BY OverflowedGranted
<1>5. Table(new) /\ Heirs(rows, I, new)
  BY <1>1, <1>2, <1>4, ReplacementsAreHeirs
<1>6. \A t \in now .. End - 1 : RateAt(After(rows, I, new), t) <= capacity
  <2>1. ASSUME NEW t \in now .. End - 1 PROVE t \in 0 .. End - 1 /\ InOrder(rows, t)
    BY <1>1, <1>2, GrantedFacts DEF InOrder
  <2> QED BY <2>1, <1>1, <1>2, CutFits
<1> HIDE DEF I, new
<1>7. PlainOK'
  BY <1>1, <1>3 DEF PlainOK, Collection!TypeOK
<1>8. QueueOK' /\ ReviewOK'
  BY <1>1, <1>3 DEF QueueOK, ReviewOK
<1>9. RowsOK' /\ Families(rows, doubled)'
  BY <1>2, <1>3, RowsStay
<1>10. Planned(rows, cut, plan)'
  BY <1>3, <1>4, <1>5 DEF Planned, Granted
<1>11. CutSuffices'
  BY <1>3, <1>4, <1>6 DEF CutSuffices
<1>12. RoomForGrant' /\ RatesWithinCapacity'
  BY <1>1, <1>3 DEF Capped, RoomForGrant, RatesWithinCapacity, Within
<1> QED BY <1>7, <1>8, <1>9, <1>10, <1>11, <1>12 DEF Inv, Capped

-----------------------------------------------------------------------------
(* Steps that change rows: a creation, and the end of a re-review.         *)

(***************************************************************************)
(* How a table goes on.                                                    *)
(***************************************************************************)
LEMMA RowsAfter ==
  ASSUME NEW R, Table(R), Chained(R), NEW at \in Int, InOrder(R, at),
         NEW C, NEW new, Table(new), Follows(R, new),
         \A n \in DOMAIN new : new[n].status = "GRANTED" => new[n].from < new[n].to \/ new[n].from <= at
  PROVE  LET A == After(R, C, new) IN
         /\ Table(A) /\ Chained(A) /\ InOrder(A, at) /\ DOMAIN R \subseteq DOMAIN A
         /\ Pendings(A) = (Pendings(R) \ C)
              \cup {Len(R) + n : n \in {m \in DOMAIN new : new[m].status = "PENDING"}}
<1> DEFINE A == After(R, C, new)
<1>1. /\ Table(A)
      /\ \A i \in DOMAIN R : i \in DOMAIN A
      /\ \A n \in DOMAIN new : Len(R) + n \in DOMAIN A
      /\ \A i \in DOMAIN R : i \in C => A[i].status = "DISABLED"
      /\ \A i \in DOMAIN R : i \notin C => A[i] = R[i]
      /\ \A n \in DOMAIN new : A[Len(R) + n] = new[n]
      /\ \A i \in DOMAIN A : i \in DOMAIN R \/ \E n \in DOMAIN new : i = Len(R) + n
  BY AfterFacts
<1>2. Chained(A)
  BY AfterRoots
<1> HIDE DEF A
<1>3. ASSUME NEW i \in Granted(A) PROVE A[i].from < A[i].to \/ A[i].from <= at
  <2>1. i \in DOMAIN A /\ A[i].status = "GRANTED"
    BY DEF Granted
  <2>2. CASE i \in DOMAIN R
    <3>1. A[i] = R[i] /\ i \in Granted(R)
      BY <2>1, <2>2, <1>1 DEF Granted
    <3> QED BY <3>1 DEF InOrder
  <2>3. CASE i \notin DOMAIN R
    BY <2>1, <2>3, <1>1
  <2> QED BY <2>2, <2>3
<1>4. InOrder(A, at)
  BY <1>3 DEF InOrder
<1>5. ASSUME NEW i \in Pendings(A)
      PROVE  i \in Pendings(R) \ C
               \/ i \in {Len(R) + n : n \in {m \in DOMAIN new : new[m].status = "PENDING"}}
  BY <1>1 DEF Pendings
<1>6. Pendings(R) \ C \subseteq Pendings(A)
  BY <1>1 DEF Pendings
<1>7. \A n \in DOMAIN new : new[n].status = "PENDING" => Len(R) + n \in Pendings(A)
  BY <1>1 DEF Pendings
<1> QED BY <1>1, <1>2, <1>4, <1>5, <1>6, <1>7 DEF A

(***************************************************************************)
(* A plan stays one when other rows change.                                *)
(***************************************************************************)
LEMMA PlannedAfter ==
  ASSUME NEW R, Table(R), NEW C, NEW new, Table(new), NEW cuts, NEW p,
         Planned(R, cuts, p)
  PROVE  Planned(After(R, C, new), cuts, p)
<1> DEFINE A == After(R, C, new)
<1>1. cuts \subseteq DOMAIN R /\ Heirs(R, cuts, p) /\ Table(p)
      /\ \A i \in cuts : R[i].status \in {"GRANTED", "DISABLED"}
  BY DEF Planned, Heirs
<1>2. /\ \A i \in DOMAIN R : i \in DOMAIN A
      /\ \A i \in DOMAIN R : i \in C => A[i].status = "DISABLED"
      /\ \A i \in DOMAIN R : i \notin C => A[i] = R[i]
      /\ \A i \in DOMAIN R : A[i].from = R[i].from /\ A[i].to = R[i].to /\ A[i].rate = R[i].rate
  BY AfterFacts
<1> HIDE DEF A
<1>3. Heirs(A, cuts, p)
  BY <1>1, <1>2, HeirsAgree
<1>4. \A i \in cuts : A[i].status \in {"GRANTED", "DISABLED"}
  BY <1>1, <1>2
<1> QED BY <1>1, <1>3, <1>4 DEF Planned, A

(***************************************************************************)
(* A step that changes rows that are not granted.                          *)
(***************************************************************************)
LEMMA QuietCapped ==
  ASSUME Inv, NEW C, NEW new, Table(new), C \cap Granted(rows) = {},
         \A n \in DOMAIN new : new[n].status # "GRANTED",
         rows' = After(rows, C, new),
         UNCHANGED <<now, capacity, phase, cut, plan>>, excused => excused',
         phase = "read" /\ ~overtaken' => ~overtaken,
         reviewing' # None /\ verdict' = "approve" /\ ~stale' =>
           ~stale /\ UNCHANGED <<reviewing, verdict>> /\ reviewing \notin C
  PROVE  Capped'
<1>1. /\ Table(rows) /\ Table(plan) /\ Heirs(rows, cut, plan) /\ CutSuffices
      /\ ReviewOK
      /\ capacity \in Int /\ now \in Int
  BY CapacityType DEF Inv, RowsOK, Planned, Capped
<1>2. /\ Table(rows')
      /\ \A i \in DOMAIN rows : i \notin C => rows'[i] = rows[i]
  BY <1>1, AfterFacts
<1>3. \A t \in Int : RateAt(rows', t) = RateAt(rows, t)
  BY <1>1, QuietAfter
<1>4. Granted(rows') = Granted(rows)
  BY <1>1, QuietAfter
<1>5. \A t \in Int : RateAt(After(rows', cut, plan), t) = RateAt(After(rows, cut, plan), t)
  BY <1>1, QuietWritten
<1>6. \A t \in Int : RateAt(rows, t) \in Nat /\ RateAt(After(rows, cut, plan), t) \in Nat
  BY <1>1, AtFacts, AfterFacts
<1>7. Shrinks
  BY <1>1, <1>2, <1>3, <1>6 DEF Shrinks
<1>8. KeepsCut
  <2>1. ASSUME phase' = "read" /\ ~overtaken'
        PROVE  /\ phase = "read" /\ ~overtaken /\ cut' \subseteq Granted(rows')
               /\ Table(plan')
               /\ \A t \in Int : RateAt(After(rows', cut', plan'), t) <= RateAt(After(rows, cut, plan), t)
    <3>1. phase = "read" /\ ~overtaken /\ cut' = cut /\ plan' = plan
      BY <2>1
    <3>2. cut \subseteq Granted(rows)
      BY <3>1, <1>1 DEF CutSuffices
    <3>3. \A t \in Int : RateAt(After(rows', cut', plan'), t) <= RateAt(After(rows, cut, plan), t)
      BY <3>1, <1>5, <1>6
    <3> QED BY <3>1, <3>2, <3>3, <1>1, <1>4
  <2> QED BY <2>1 DEF KeepsCut
<1>9. KeepsGrant
  <2>1. ASSUME reviewing' # None /\ verdict' = "approve" /\ ~stale'
        PROVE  /\ reviewing' = reviewing /\ verdict' = verdict /\ ~stale
               /\ rows'[reviewing] = rows[reviewing]
    <3>1. reviewing' = reviewing /\ verdict' = verdict /\ ~stale /\ reviewing \notin C
      BY <2>1
    <3>2. reviewing \in DOMAIN rows
      BY <3>1, <2>1, <1>1 DEF ReviewOK, Pendings
    <3> QED BY <3>1, <3>2, <1>2
  <2> QED BY <2>1 DEF KeepsGrant
<1> QED BY <1>7, <1>8, <1>9, CappedStays

(***************************************************************************)
(* To append a row is to change the table.                                 *)
(***************************************************************************)
LEMMA AppendIsAfter ==
  ASSUME NEW R, Table(R), NEW p \in Row PROVE Append(R, p) = After(R, {}, <<p>>)
<1>1. R \in Seq(Row)
  BY DEF Table
<1>2. Append(R, p) = R \o <<p>>
  BY <1>1, AppendIsConcat
<1>3. Disable(R, {}) = R
  <2>1. R = [j \in DOMAIN R |-> R[j]]
    BY <1>1, LenProperties
  <2>2. Disable(R, {}) = [j \in DOMAIN R |-> R[j]]
    BY DEF Disable
  <2> QED BY <2>1, <2>2
<1> QED BY <1>2, <1>3 DEF After

(***************************************************************************)
(* A client creates a grant.                                               *)
(***************************************************************************)
LEMMA CreateStep ==
  ASSUME Inv, NEW rate \in Rates, NEW to \in Ends, Create(rate, to)
  PROVE  Inv'
<1> DEFINE p == Pending(rate, to)
           n == Len(rows) + 1
<1>1. /\ PlainOK /\ QueueOK /\ ReviewOK /\ Table(rows) /\ Chained(rows)
      /\ InOrder(rows, now)
      /\ Planned(rows, cut, plan) /\ Families(rows, doubled) /\ now \in Int
  BY CapacityType DEF Inv, RowsOK
<1>2. /\ created < MaxCreated /\ created' = created + 1
      /\ (status = "absent" /\ Collection!Request) \/ UNCHANGED <<status, head>>
      /\ rows' = Append(rows, p) /\ queue' = Append(queue, Len(rows'))
      /\ now' = now /\ capacity' = capacity
      /\ reviewing' = reviewing /\ verdict' = verdict /\ seen' = seen
      /\ due' = due /\ phase' = phase /\ cut' = cut /\ plan' = plan
      /\ updated' = updated /\ faults' = faults
      /\ stale' = stale /\ overtaken' = overtaken /\ excused' = excused
      /\ doubled' = doubled
  BY DEF Create, reviewVars, loopVars, ghosts
<1>3. /\ p \in Row /\ p.status = "PENDING" /\ p.from = None /\ p.replaced = 0
  <2>1. rate \in Nat /\ to \in 1 .. End
    BY ConstantsAssumption
  <2> QED BY <2>1 DEF Pending, Row
<1> HIDE DEF p
<1>4. Table(<<p>>) /\ DOMAIN <<p>> = {1} /\ <<p>>[1] = p
  BY <1>3, OneRow
<1> DEFINE new == <<p>>
<1>5. rows' = After(rows, {}, new)
  BY <1>1, <1>2, <1>3, AppendIsAfter
<1>6. Families(rows, doubled)'
  BY <1>1, <1>2, <1>3, <1>5, FamiliesBegin
<1> HIDE DEF new
<1>7. Follows(rows, new)
  BY <1>3, <1>4 DEF Follows, new
<1>8. Table(new) /\ DOMAIN new = {1} /\ new[1] = p
  BY <1>4 DEF new
<1>9. /\ Table(rows') /\ Chained(rows') /\ InOrder(rows', now)
      /\ DOMAIN rows \subseteq DOMAIN rows'
      /\ Pendings(rows') = Pendings(rows) \cup {n}
  <2>1. \A m \in DOMAIN new : new[m].status = "GRANTED" => new[m].from < new[m].to \/ new[m].from <= now
    BY <1>3, <1>8
  <2>2. /\ Table(rows') /\ Chained(rows') /\ InOrder(rows', now)
        /\ DOMAIN rows \subseteq DOMAIN rows'
        /\ Pendings(rows') = (Pendings(rows) \ {})
              \cup {Len(rows) + m : m \in {k \in DOMAIN new : new[k].status = "PENDING"}}
    BY <2>1, <1>1, <1>5, <1>7, <1>8, RowsAfter
  <2>3. {k \in DOMAIN new : new[k].status = "PENDING"} = {1}
    BY <1>3, <1>8
  <2> QED BY <2>2, <2>3
<1>10. Len(rows') = n /\ n \in Nat /\ n \notin Pendings(rows)
  <2>1. Len(rows) \in Nat /\ DOMAIN rows = 1 .. Len(rows) /\ rows \in Seq(Row)
    BY <1>1, RowFacts DEF Table
  <2>2. Len(Append(rows, p)) = n
    BY <2>1, <1>3, AppendProperties
  <2> QED BY <2>1, <2>2, <1>2 DEF Pendings
<1>11. QueueOK'
  <2>1. /\ queue' = Append(queue, n) /\ n \notin ToSet(queue) /\ queue \in Seq(Nat)
        /\ IsInjective(queue)
    BY <1>1, <1>2, <1>10 DEF QueueOK
  <2>2. /\ queue' \in Seq(Nat) /\ IsInjective(queue')
        /\ ToSet(queue') = ToSet(queue) \cup {n}
    <3>1. /\ queue \o <<n>> = Append(queue, n)
          /\ queue \o <<n>> \in Seq(Nat) /\ IsInjective(queue \o <<n>>)
          /\ ToSet(queue \o <<n>>) = ToSet(queue) \cup {n}
      <4> HIDE DEF n
      <4> QED BY <2>1, <1>10, WithLast
    <3>2. queue' = queue \o <<n>>
      BY <2>1, <3>1
    <3> QED BY <3>1, <3>2
  <2> QED BY <2>2, <1>1, <1>9 DEF QueueOK
<1>12. ReviewOK'
  BY <1>1, <1>2, <1>9 DEF ReviewOK
<1>13. PlainOK'
  <2>1. Collection!TypeOK'
    BY <1>1, <1>2
    DEF PlainOK, Collection!TypeOK, Collection!Request, Collection!Undecided
  <2>2. created' \in 0 .. MaxCreated
    BY <1>1, <1>2, ConstantsAssumption DEF PlainOK
  <2> QED BY <2>1, <2>2, <1>1, <1>2, <1>9 DEF PlainOK
<1>14. Capped'
  <2>1. {} \cap Granted(rows) = {} /\ \A m \in DOMAIN new : new[m].status # "GRANTED"
    BY <1>3, <1>8
  <2> QED BY <2>1, <1>2, <1>5, <1>8, QuietCapped
<1>15. RowsOK'
  BY <1>2, <1>9 DEF RowsOK
<1>16. Planned(rows, cut, plan)'
  BY <1>1, <1>2, <1>5, <1>8, PlannedAfter
<1> QED BY <1>6, <1>11, <1>12, <1>13, <1>14, <1>15, <1>16 DEF Inv

(***************************************************************************)
(* The re-review writes its plan, whatever has become of the rows since,   *)
(* and may fail when it has.                                               *)
(***************************************************************************)
LEMMA ReReviewWriteStep ==
  ASSUME Inv, NEW fails \in BOOLEAN, ReReviewWrite(fails)
  PROVE  Inv'
<1>1. /\ PlainOK /\ QueueOK /\ ReviewOK /\ Table(rows) /\ Chained(rows)
      /\ InOrder(rows, now)
      /\ Planned(rows, cut, plan) /\ Families(rows, doubled) /\ Capped
      /\ now \in Int /\ End \in Nat /\ capacity \in Nat
  BY CapacityType DEF Inv, RowsOK
<1> DEFINE upset == {Root(rows, i) : i \in {j \in cut : rows[j].status # "GRANTED"}}
<1>2. /\ phase = "read" /\ phase' = "idle" /\ cut' = {} /\ plan' = <<>>
      /\ (faults < MaxFaults /\ faults' = faults + 1 /\ due' = TRUE) \/ (faults' = faults /\ due' = due)
      /\ rows' = After(rows, cut, plan)
      /\ excused' = overtaken /\ overtaken' = FALSE
      /\ doubled' = doubled \cup upset
      /\ stale' = (reviewing # None /\ (stale \/ overtaken))
      /\ now' = now /\ capacity' = capacity /\ queue' = queue /\ status' = status
      /\ head' = head
      /\ reviewing' = reviewing /\ verdict' = verdict /\ seen' = seen
      /\ created' = created /\ updated' = updated
  BY DEF ReReviewWrite, Written, After, reviewVars
<1>3. /\ Table(plan) /\ Heirs(rows, cut, plan) /\ cut \subseteq DOMAIN rows
      /\ \A i \in cut : rows[i].status \in {"GRANTED", "DISABLED"}
      /\ \A n \in DOMAIN plan : plan[n].replaced \in cut /\ plan[n].status = "GRANTED"
                                  /\ plan[n].from < plan[n].to
  BY <1>1 DEF Planned, Heirs
<1>4. Follows(rows, plan)
  BY <1>3 DEF Follows
<1>5. /\ Table(rows') /\ Chained(rows') /\ InOrder(rows', now)
      /\ DOMAIN rows \subseteq DOMAIN rows'
      /\ Pendings(rows') = Pendings(rows)
  <2>1. /\ Table(rows') /\ Chained(rows') /\ InOrder(rows', now)
        /\ DOMAIN rows \subseteq DOMAIN rows'
        /\ Pendings(rows') = (Pendings(rows) \ cut)
             \cup {Len(rows) + n : n \in {m \in DOMAIN plan : plan[m].status = "PENDING"}}
    BY <1>1, <1>2, <1>3, <1>4, RowsAfter
  <2>2. {m \in DOMAIN plan : plan[m].status = "PENDING"} = {}
    BY <1>3
  <2>3. Pendings(rows) \ cut = Pendings(rows)
    BY <1>3 DEF Pendings
  <2> QED BY <2>1, <2>2, <2>3
<1>6. upset \subseteq DOMAIN rows
  BY <1>1, <1>3, RootFacts
<1>7. Families(rows, doubled)'
  <2>1. /\ doubled \subseteq doubled'
        /\ \A i \in cut : rows[i].status # "GRANTED" => Root(rows, i) \in doubled'
    BY <1>2
  <2> HIDE DEF upset
  <2> QED BY <2>1, <1>1, <1>2, <1>3, FamiliesCut
<1> HIDE DEF upset
<1>8. PlainOK'
  <2>1. faults' \in 0 .. MaxFaults /\ due' \in BOOLEAN
    <3>1. faults \in 0 .. MaxFaults /\ due \in BOOLEAN /\ MaxFaults \in Nat
      BY <1>1, ConstantsAssumption DEF PlainOK
    <3>2. CASE faults < MaxFaults /\ faults' = faults + 1 /\ due' = TRUE
      BY <3>1, <3>2
    <3>3. CASE faults' = faults /\ due' = due
      BY <3>1, <3>3
    <3> QED BY <3>2, <3>3, <1>2
  <2>2. seen' \subseteq DOMAIN rows' /\ doubled' \subseteq DOMAIN rows'
    BY <1>1, <1>2, <1>5, <1>6 DEF PlainOK
  <2>3. /\ stale' \in BOOLEAN /\ overtaken' \in BOOLEAN /\ excused' \in BOOLEAN
        /\ phase' \in {"idle", "read"}
    BY <1>1, <1>2 DEF PlainOK
  <2> QED BY <2>1, <2>2, <2>3, <1>1, <1>2 DEF PlainOK, Collection!TypeOK
<1>9. QueueOK' /\ ReviewOK'
  BY <1>1, <1>2, <1>5 DEF QueueOK, ReviewOK
<1>10. RowsOK'
  BY <1>2, <1>5 DEF RowsOK
<1>11. Planned(rows, cut, plan)'
  BY <1>2, NoRows DEF Planned, Heirs, Disjoint
<1>12. CutSuffices'
  BY <1>2 DEF CutSuffices
<1>13. RatesWithinCapacity'
  <2>1. ASSUME ~overtaken, NEW t \in now .. End - 1 PROVE RateAt(rows', t) <= capacity
    BY <2>1, <1>1, <1>2 DEF Capped, CutSuffices
  <2> QED BY <2>1, <1>2 DEF RatesWithinCapacity, Within
<1>14. RoomForGrant'
  <2>1. ASSUME reviewing # None, verdict = "approve", ~stale, ~overtaken,
               NEW t \in now .. rows'[reviewing].to - 1
        PROVE  RateAt(rows', t) + rows'[reviewing].rate <= capacity
    <3> DEFINE g == rows[reviewing]
    <3>1. reviewing \in DOMAIN rows /\ reviewing \notin cut
      BY <2>1, <1>1, <1>3 DEF ReviewOK, Pendings
    <3>2. rows'[reviewing] = g /\ g.to \in 1 .. End /\ g.rate \in Nat
      BY <3>1, <1>1, <1>2, <1>3, AfterFacts, RowFacts
    <3>3. cut \subseteq Granted(rows)
      BY <2>1, <1>1, <1>2 DEF Capped, CutSuffices
    <3>4. t \in Int /\ t \in now .. g.to - 1
      BY <3>2, <2>1, <1>1
    <3>5. RateAt(rows', t) <= RateAt(rows, t)
      BY <3>3, <3>4, <1>1, <1>2, <1>3, WrittenShrinks
    <3>6. RateAt(rows, t) + g.rate <= capacity
      BY <3>4, <2>1, <1>1 DEF Capped, RoomForGrant
    <3>7. RateAt(rows, t) \in Nat /\ RateAt(rows', t) \in Nat
      BY <1>1, <1>5, AtFacts
    <3> HIDE DEF g
    <3> QED BY <3>2, <3>5, <3>6, <3>7, <1>1
  <2> QED BY <2>1, <1>2 DEF RoomForGrant
<1> QED BY <1>7, <1>8, <1>9, <1>10, <1>11, <1>12, <1>13, <1>14 DEF Inv, Capped

-----------------------------------------------------------------------------
(* The decision of the reviewer.                                           *)

\* What a decision adds to the promises.
Added(g, t) == IF g.status = "GRANTED" /\ Covers(g, t) THEN g.rate ELSE 0

(***************************************************************************)
(* A decision adds its row to what a plan spares.                          *)
(***************************************************************************)
LEMMA DecisionAdds ==
  ASSUME NEW R, Table(R), NEW k, NEW g, Decision(R, k, g), NEW A, Became(R, A, k, g),
         NEW C, k \notin C, NEW t
  PROVE  RateOf(A, Spared(A, C, t)) = RateOf(R, Spared(R, C, t)) + Added(g, t)
<1> DEFINE S == Spared(R, C, t)
<1>1. /\ k \in DOMAIN R /\ k \notin Granted(R) /\ Table(A) /\ DOMAIN A = DOMAIN R
      /\ A[k] = g
      /\ \A i \in DOMAIN R : A[i].rate = R[i].rate
      /\ \A i \in DOMAIN R : i # k => A[i] = R[i]
      /\ Granted(A) = Granted(R) \cup (IF g.status = "GRANTED" THEN {k} ELSE {})
  BY DEF Became
<1>2. Granted(R) \subseteq DOMAIN R
  BY DEF Granted
<1>3. S \in SUBSET DOMAIN R /\ k \notin S
  BY <1>1, SparedFacts DEF Spared, At
<1>4. RateOf(A, S) = RateOf(R, S) /\ RateOf(R, S) \in Nat
  BY <1>1, <1>3, SameRates, RatesType
<1>5. CASE g.status = "GRANTED" /\ Covers(g, t)
  <2>1. Spared(A, C, t) = S \cup {k}
    BY <1>1, <1>2, <1>5 DEF Spared, At
  <2>2. {k} \in SUBSET DOMAIN A /\ S \cap {k} = {}
    BY <1>1, <1>3
  <2> HIDE DEF S
  <2>3. RateOf(A, S \cup {k}) = RateOf(A, S) + RateOf(A, {k})
    BY <2>2, <1>1, <1>3, RatesUnion
  <2>4. RateOf(A, {k}) = g.rate
    BY <1>1, RatesOne
  <2> QED BY <2>1, <2>3, <2>4, <1>4, <1>5 DEF Added, S
<1>6. CASE ~(g.status = "GRANTED" /\ Covers(g, t))
  <2>1. Spared(A, C, t) = S
    BY <1>1, <1>2, <1>6 DEF Spared, At
  <2> QED BY <2>1, <1>4, <1>6 DEF Added
<1> QED BY <1>5, <1>6

(***************************************************************************)
(* It adds the same to what is promised before and after the plan is       *)
(* written.                                                                *)
(***************************************************************************)
LEMMA DecisionRates ==
  ASSUME NEW R, Table(R), NEW k, NEW g, Decision(R, k, g), NEW A, Became(R, A, k, g),
         NEW C, NEW new, Planned(R, C, new), NEW t \in Int
  PROVE  /\ RateAt(A, t) = RateAt(R, t) + Added(g, t)
         /\ RateAt(After(A, C, new), t) = RateAt(After(R, C, new), t) + Added(g, t)
         /\ Added(g, t) \in Nat /\ RateAt(R, t) \in Nat
         /\ RateAt(After(R, C, new), t) \in Nat
         /\ Planned(A, C, new)
<1>1. /\ k \in DOMAIN R /\ R[k].status = "PENDING" /\ Table(A) /\ DOMAIN A = DOMAIN R
      /\ \A i \in DOMAIN R : i # k => A[i] = R[i]
  BY DEF Became
<1>2. Table(new) /\ Heirs(R, C, new) /\ C \subseteq DOMAIN R
      /\ \A i \in C : R[i].status \in {"GRANTED", "DISABLED"}
  BY DEF Planned, Heirs
<1>3. k \notin C
  BY <1>1, <1>2
<1>4. Planned(A, C, new)
  <2>1. \A i \in C : A[i] = R[i]
    BY <1>1, <1>2, <1>3
  <2>2. Heirs(A, C, new)
    BY <2>1, <1>1, <1>2, HeirsAgree
  <2> QED BY <2>1, <2>2, <1>2 DEF Planned
<1>5. g.rate \in Nat
  BY <1>1, RowFacts DEF Decision
<1>6. Added(g, t) \in Nat
  BY <1>5 DEF Added
<1>7. RateAt(A, t) = RateAt(R, t) + Added(g, t)
  <2>1. RateOf(A, Spared(A, {}, t)) = RateOf(R, Spared(R, {}, t)) + Added(g, t)
    BY DecisionAdds
  <2>2. Spared(A, {}, t) = At(A, t) /\ Spared(R, {}, t) = At(R, t)
    BY DEF Spared
  <2> QED BY <2>1, <2>2, <1>1, AtFacts
<1>8. RateAt(After(A, C, new), t) = RateAt(After(R, C, new), t) + Added(g, t)
  <2> DEFINE total == Total(NewRates(new), {n \in DOMAIN new : Covers(new[n], t)})
  <2>1. RateAt(After(R, C, new), t) = RateOf(R, Spared(R, C, t)) + total
    BY <1>2, WrittenRate
  <2>2. RateAt(After(A, C, new), t) = RateOf(A, Spared(A, C, t)) + total
    BY <1>1, <1>2, <1>4, WrittenRate DEF Planned
  <2>3. RateOf(A, Spared(A, C, t)) = RateOf(R, Spared(R, C, t)) + Added(g, t)
    BY <1>3, DecisionAdds
  <2>4. RateOf(R, Spared(R, C, t)) \in Nat
    BY SparedFacts, RatesType
  <2>5. total \in Int
    <3> DEFINE N == {n \in DOMAIN new : Covers(new[n], t)}
    <3>1. IsFiniteSet(N) /\ \A n \in N : NewRates(new)[n] \in Int
      <4>1. IsFiniteSet(DOMAIN new) /\ \A n \in DOMAIN new : new[n].rate \in Nat
        BY <1>2, RowFacts
      <4>2. N \subseteq DOMAIN new
        OBVIOUS
      <4>3. \A n \in N : NewRates(new)[n] \in Int
        BY <4>1 DEF NewRates
      <4> QED BY <4>1, <4>2, <4>3, FS_Subset
    <3> HIDE DEF N
    <3>2. Total(NewRates(new), N) \in Int
      BY <3>1, TotalType
    <3> QED BY <3>2 DEF N
  <2> HIDE DEF total
  <2> QED BY <2>1, <2>2, <2>3, <2>4, <2>5, <1>6
<1>9. RateAt(R, t) \in Nat /\ RateAt(After(R, C, new), t) \in Nat
  BY <1>2, AtFacts, AfterFacts
<1> QED BY <1>4, <1>6, <1>7, <1>8, <1>9

(***************************************************************************)
(* The parts of the invariant that a decision leaves to the case in hand.  *)
(***************************************************************************)
LEMMA DecideRest ==
  ASSUME Inv, ReviewDecide, RowsOK', Planned(rows, cut, plan)',
         Families(rows, doubled)', Capped',
         DOMAIN rows' = DOMAIN rows, QueueOK'
  PROVE  Inv'
<1>1. PlainOK
  BY DEF Inv
<1>2. PlainOK'
  BY <1>1 DEF ReviewDecide, PlainOK, Collection!TypeOK, loopVars, bounds
<1>3. ReviewOK'
  BY DEF ReviewDecide, ReviewOK
<1> QED BY <1>2, <1>3 DEF Inv

(***************************************************************************)
(* The reviewer decides: a grant that is approved on reads that still hold *)
(* has room, and one that is not excuses the excess.                       *)
(***************************************************************************)
LEMMA ReviewDecideStep == ASSUME Inv, ReviewDecide PROVE Inv'
<1> DEFINE k == reviewing
           g == rows[k]
           d == Decided(g)
           late == verdict = "approve" /\ stale
<1>1. /\ PlainOK /\ QueueOK /\ ReviewOK /\ Table(rows) /\ Chained(rows)
      /\ InOrder(rows, now)
      /\ Planned(rows, cut, plan) /\ Families(rows, doubled) /\ Capped /\ RowsOK
      /\ now \in Int /\ now \in 0 .. End - 1 /\ End \in Nat /\ capacity \in Nat
  BY CapacityType DEF Inv, RowsOK, PlainOK
<1>2. /\ k # None /\ rows' = [rows EXCEPT ![k] = d] /\ queue' = DecidedQueue(k)
      /\ reviewing' = None /\ verdict' = None
      /\ excused' = (excused \/ late) /\ stale' = FALSE
      /\ overtaken' = (phase = "read" /\ (overtaken \/ late))
      /\ now' = now /\ capacity' = capacity /\ phase' = phase /\ cut' = cut
      /\ plan' = plan
      /\ doubled' = doubled
  BY DEF ReviewDecide, loopVars
<1>3. /\ k \in Pendings(rows) /\ k \in DOMAIN rows /\ k \in Nat
      /\ verdict \in {"wait", "deny", "approve"}
  <2>1. k \in Pendings(rows) /\ verdict \in {"wait", "deny", "approve"}
    BY <1>1, <1>2 DEF ReviewOK
  <2>2. k \in DOMAIN rows
    BY <2>1 DEF Pendings
  <2> QED BY <2>1, <2>2, <1>1, RowFacts
<1>4. /\ RemoveFirst(queue, k) \in Seq(Nat) /\ IsInjective(RemoveFirst(queue, k))
      /\ ToSet(RemoveFirst(queue, k)) = Pendings(rows) \ {k}
  BY <1>1, WithoutFirst DEF QueueOK
<1>5. CASE verdict = "wait"
  <2>1. d = g
    BY <1>5 DEF Decided
  <2>2. rows' = rows
    <3>1. rows = [j \in DOMAIN rows |-> rows[j]]
      BY <1>1, LenProperties DEF Table
    <3> QED BY <3>1, <2>1, <1>2, <1>3
  <2>3. QueueOK'
    <3> DEFINE q == RemoveFirst(queue, k)
    <3>1. queue' = q \o <<k>>
      BY <1>2, <1>5 DEF DecidedQueue
    <3>2. /\ q \in Seq(Nat) /\ IsInjective(q) /\ k \notin ToSet(q)
          /\ ToSet(q) = Pendings(rows) \ {k}
      BY <1>4
    <3> HIDE DEF q
    <3>3. /\ q \o <<k>> \in Seq(Nat) /\ IsInjective(q \o <<k>>)
          /\ ToSet(q \o <<k>>) = ToSet(q) \cup {k}
      BY <3>2, <1>3, WithLast
    <3>4. ToSet(q \o <<k>>) = Pendings(rows)
      BY <3>2, <3>3, <1>3
    <3>5. Pendings(rows') = Pendings(rows)
      BY <2>2
    <3> QED BY <3>1, <3>3, <3>4, <3>5 DEF QueueOK
  <2>4. /\ (excused => excused')
        /\ (phase' = "read" /\ ~overtaken' => phase = "read" /\ ~overtaken)
    BY <1>2, <1>5
  <2> HIDE DEF late
  <2>5. Capped'
    BY <2>2, <2>4, <1>1, <1>2, SameCapped
  <2>6. RowsOK' /\ Families(rows, doubled)'
    BY <2>2, <1>1, <1>2, RowsStay
  <2>7. Planned(rows, cut, plan)'
    BY <2>2, <1>2, CutStays
  <2> QED BY <2>2, <2>3, <2>5, <2>6, <2>7, DecideRest
<1>6. CASE verdict # "wait"
  <2>1. /\ verdict = "deny" => d = [g EXCEPT !.status = "FAILED"]
        /\ verdict = "approve" => d = [g EXCEPT !.status = "GRANTED", !.from = now]
    BY DEF Decided
  <2>2. /\ d \in Row /\ d.to = g.to /\ d.rate = g.rate /\ d.replaced = g.replaced
        /\ verdict = "deny" => d.status = "FAILED"
        /\ verdict = "approve" => d.status = "GRANTED" /\ d.from = now
    <3>1. g \in Row
      BY <1>1, <1>3, RowFacts
    <3>2. CASE verdict = "deny"
      BY <3>1, <3>2, <2>1 DEF Row
    <3>3. CASE verdict = "approve"
      <4>1. now \in (0 .. End) \cup {None}
        BY <1>1
      <4> QED BY <3>1, <3>3, <4>1, <2>1 DEF Row
    <3> QED BY <3>2, <3>3, <1>3, <1>6
  <2> HIDE DEF d
  <2>3. Decision(rows, k, d)
    <3>1. now # None
      BY <1>1, ConstantsAssumption
    <3> QED BY <3>1, <2>2, <1>3, <1>6 DEF Decision
  <2>4. Became(rows, rows', k, d)
    BY <2>3, <1>1, <1>2, DecidedFacts
  <2>5. Chained(rows') /\ Families(rows', doubled)
    BY <2>3, <2>4, <1>1, FamiliesDecide
  <2>6. /\ Table(rows') /\ DOMAIN rows' = DOMAIN rows
        /\ Pendings(rows') = Pendings(rows) \ {k}
        /\ rows'[k] = d /\ \A i \in DOMAIN rows : i # k => rows'[i] = rows[i]
        /\ Granted(rows') = Granted(rows) \cup (IF d.status = "GRANTED" THEN {k} ELSE {})
        /\ k \notin Granted(rows) /\ Granted(rows) \subseteq DOMAIN rows
    BY <2>4 DEF Became, Granted
  <2>7. \A t \in Int :
          /\ RateAt(rows', t) = RateAt(rows, t) + Added(d, t)
          /\ RateAt(After(rows', cut, plan), t) = RateAt(After(rows, cut, plan), t) + Added(d, t)
          /\ Added(d, t) \in Nat /\ RateAt(rows, t) \in Nat
          /\ RateAt(After(rows, cut, plan), t) \in Nat
    BY <2>3, <2>4, <1>1, DecisionRates
  <2>8. Planned(rows', cut, plan)
    <3>1. 0 \in Int
      OBVIOUS
    <3> QED BY <3>1, <2>3, <2>4, <1>1, DecisionRates
  <2>9. RowsOK'
    <3>1. ASSUME NEW i \in Granted(rows')
          PROVE  rows'[i].from < rows'[i].to \/ rows'[i].from <= now
      <4>1. CASE i = k
        <5>1. d.status = "GRANTED"
          BY <4>1, <3>1, <2>6
        <5>2. d.from = now
          BY <5>1, <2>2, <1>3, <1>6
        <5> QED BY <4>1, <5>2, <2>6, <1>1
      <4>2. CASE i # k
        <5>1. i \in Granted(rows) /\ rows'[i] = rows[i]
          BY <4>2, <3>1, <2>6
        <5> QED BY <5>1, <1>1 DEF InOrder
      <4> QED BY <4>1, <4>2
    <3>2. InOrder(rows', now)
      BY <3>1 DEF InOrder
    <3> QED BY <3>2, <2>5, <2>6, <1>2 DEF RowsOK
  <2>10. QueueOK'
    <3> DEFINE q == RemoveFirst(queue, k)
    <3>1. queue' = q \o <<>>
      BY <1>2, <1>6 DEF DecidedQueue
    <3>2. q \in Seq(Nat) /\ IsInjective(q) /\ ToSet(q) = Pendings(rows')
      BY <1>4, <2>6
    <3> HIDE DEF q
    <3>3. queue' = q
      BY <3>1, <3>2, ConcatEmptySeq
    <3> QED BY <3>2, <3>3 DEF QueueOK
  <2>11. RoomForGrant'
    BY <1>2 DEF RoomForGrant
  <2>12. CASE late
    <3>1. excused' /\ ~(phase' = "read" /\ ~overtaken')
      BY <2>12, <1>2
    <3>2. Capped'
      BY <3>1, <2>11 DEF Capped, CutSuffices, RatesWithinCapacity
    <3> QED BY <3>2, <2>5, <2>6, <2>8, <2>9, <2>10, <1>2, DecideRest
  <2>13. CASE ~late
    <3>1. /\ (excused => excused')
          /\ (phase' = "read" /\ ~overtaken' => phase = "read" /\ ~overtaken)
      BY <2>13, <1>2
    <3>2. ASSUME NEW t \in now .. End - 1
          PROVE  t \in Int /\ (Added(d, t) = 0 \/ RateAt(rows, t) + Added(d, t) <= capacity)
      <4>1. t \in Int
        BY <1>1
      <4>2. ASSUME Added(d, t) # 0 PROVE RateAt(rows, t) + Added(d, t) <= capacity
        <5>1. d.status = "GRANTED" /\ Covers(d, t) /\ Added(d, t) = d.rate
          BY <4>2 DEF Added
        <5>2. verdict = "approve" /\ ~stale
          BY <5>1, <2>2, <2>13, <1>3, <1>6
        <5>3. t < g.to /\ g.to \in 1 .. End
          BY <5>1, <2>2, <1>1, <1>3, RowFacts DEF Covers
        <5>4. t \in now .. g.to - 1
          BY <5>3, <1>1
        <5>5. RateAt(rows, t) + g.rate <= capacity
          BY <5>2, <5>4, <1>1, <1>2 DEF Capped, RoomForGrant
        <5> QED BY <5>1, <5>5, <2>2
      <4> QED BY <4>1, <4>2
    <3>3. RatesWithinCapacity'
      <4>1. ASSUME ~excused, NEW t \in now .. End - 1
            PROVE  RateAt(rows', t) <= capacity
        <5>1. RateAt(rows, t) <= capacity
          BY <4>1, <1>1 DEF Capped, RatesWithinCapacity, Within
        <5> QED BY <5>1, <3>2, <2>7
      <4> QED BY <4>1, <3>1, <1>2 DEF RatesWithinCapacity, Within
    <3>4. CutSuffices'
      <4>1. ASSUME phase = "read", ~overtaken PROVE cut \subseteq Granted(rows')
        BY <4>1, <2>6, <1>1 DEF Capped, CutSuffices
      <4>2. ASSUME phase = "read", ~overtaken, NEW t \in now .. End - 1
            PROVE  RateAt(After(rows', cut, plan), t) <= capacity
        <5>1. /\ RateAt(After(rows, cut, plan), t) <= capacity
              /\ cut \subseteq Granted(rows)
          BY <4>2, <1>1 DEF Capped, CutSuffices
        <5>2. RateAt(After(rows, cut, plan), t) <= RateAt(rows, t)
          BY <5>1, <3>2, <1>1, WrittenShrinks DEF Planned
        <5> QED BY <5>1, <5>2, <3>2, <2>7, <1>1
      <4> QED BY <4>1, <4>2, <3>1, <1>2 DEF CutSuffices
    <3>5. Capped'
      BY <3>3, <3>4, <2>11 DEF Capped
    <3> QED BY <3>5, <2>5, <2>6, <2>8, <2>9, <2>10, <1>2, DecideRest
  <2> QED BY <2>12, <2>13
<1> QED BY <1>5, <1>6

-----------------------------------------------------------------------------
(* A client's change.                                                      *)

(***************************************************************************)
(* Heirs of granted rows that a cut spares leave no more promised after    *)
(* it.                                                                     *)
(***************************************************************************)
LEMMA SparedShrinks ==
  ASSUME NEW R, Table(R), NEW C, NEW new, Table(new), Heirs(R, C, new),
         C \subseteq Granted(R),
         NEW cuts, NEW p, Table(p), Heirs(R, cuts, p), cuts \cap C = {}, NEW t \in Int
  PROVE  RateAt(After(After(R, C, new), cuts, p), t) <= RateAt(After(R, cuts, p), t)
<1> DEFINE A == After(R, C, new)
           K == DOMAIN R \ cuts
<1>1. /\ Table(A)
      /\ \A i \in DOMAIN R : i \in DOMAIN A
      /\ \A n \in DOMAIN new : Len(R) + n \notin DOMAIN R
      /\ \A i \in DOMAIN R : A[i].from = R[i].from /\ A[i].to = R[i].to /\ A[i].rate = R[i].rate
      /\ \A i \in DOMAIN A : i \in DOMAIN R \/ \E n \in DOMAIN new : i = Len(R) + n
  BY AfterFacts
<1>2. cuts \subseteq DOMAIN R /\ \A n \in DOMAIN new : new[n].replaced \in K
  BY DEF Heirs
<1>3. RateOf(A, {i \in At(A, t) : i \in HeirsOf(R, new, K)}) <= RateOf(R, {i \in At(R, t) : i \in K})
  <2>1. K \in SUBSET DOMAIN R /\ K \cap C \subseteq Granted(R)
    OBVIOUS
  <2> HIDE DEF K
  <2> QED BY <2>1, HeirsShrink
<1> HIDE DEF A
<1>4. At(A, t) \subseteq DOMAIN A /\ At(R, t) \subseteq DOMAIN R
  BY <1>1, AtFacts
<1>5. \A i \in DOMAIN A : i \in HeirsOf(R, new, K) <=> i \notin cuts
  BY <1>1, <1>2 DEF HeirsOf
<1>6. {i \in At(A, t) : i \in HeirsOf(R, new, K)} = Spared(A, cuts, t)
  BY <1>4, <1>5 DEF Spared
<1>7. {i \in At(R, t) : i \in K} = Spared(R, cuts, t)
  BY <1>4 DEF Spared
<1>8. Heirs(A, cuts, p)
  BY <1>1, <1>2, HeirsAgree
<1> DEFINE total == Total(NewRates(p), {n \in DOMAIN p : Covers(p[n], t)})
<1>9. RateAt(After(R, cuts, p), t) = RateOf(R, Spared(R, cuts, t)) + total
  BY WrittenRate
<1>10. RateAt(After(A, cuts, p), t) = RateOf(A, Spared(A, cuts, t)) + total
  BY <1>1, <1>8, WrittenRate
<1>11. RateAt(After(R, cuts, p), t) \in Nat /\ RateAt(After(A, cuts, p), t) \in Nat
  BY <1>1, AfterFacts, AtFacts
<1>12. RateOf(R, Spared(R, cuts, t)) \in Nat /\ RateOf(A, Spared(A, cuts, t)) \in Nat
  BY <1>1, SparedFacts, RatesType
<1>13. total \in Int
  <2> DEFINE N == {n \in DOMAIN p : Covers(p[n], t)}
  <2>1. IsFiniteSet(DOMAIN p) /\ \A n \in DOMAIN p : p[n].rate \in Nat
    BY RowFacts
  <2>2. IsFiniteSet(N) /\ N \subseteq DOMAIN p
    BY <2>1, FS_Subset
  <2>3. \A n \in N : NewRates(p)[n] \in Int
    BY <2>1, <2>2 DEF NewRates
  <2> HIDE DEF N
  <2>4. Total(NewRates(p), N) \in Int
    BY <2>2, <2>3, TotalType
  <2> QED BY <2>4 DEF N
<1> HIDE DEF total
<1>14. RateOf(A, Spared(A, cuts, t)) <= RateOf(R, Spared(R, cuts, t))
  BY <1>3, <1>6, <1>7
<1> QED BY <1>9, <1>10, <1>12, <1>13, <1>14 DEF A

(***************************************************************************)
(* A granted row is changed to heirs of its own.                           *)
(***************************************************************************)
LEMMA ChangedCapped ==
  ASSUME Inv, NEW C, NEW new, Table(new), Heirs(rows, C, new),
         C \subseteq Granted(rows),
         rows' = After(rows, C, new),
         UNCHANGED <<now, capacity, phase, cut, plan, reviewing, verdict>>, excused => excused',
         phase = "read" /\ ~overtaken' => ~overtaken /\ cut \cap C = {},
         reviewing # None /\ ~stale' => ~stale
  PROVE  Capped'
<1>1. /\ Table(rows) /\ Table(plan) /\ Heirs(rows, cut, plan) /\ CutSuffices
      /\ ReviewOK
      /\ capacity \in Int /\ now \in Int
  BY CapacityType DEF Inv, RowsOK, Planned, Capped
<1>2. /\ Table(rows')
      /\ \A i \in DOMAIN rows : i \in DOMAIN rows'
      /\ \A i \in DOMAIN rows : i \notin C => rows'[i] = rows[i]
  BY <1>1, AfterFacts
<1>3. \A t \in Int : RateAt(rows', t) <= RateAt(rows, t)
  BY <1>1, WrittenShrinks
<1>4. Shrinks
  BY <1>1, <1>2, <1>3 DEF Shrinks
<1>5. KeepsCut
  <2>1. ASSUME phase' = "read" /\ ~overtaken'
        PROVE  /\ phase = "read" /\ ~overtaken /\ cut' \subseteq Granted(rows')
               /\ Table(plan')
               /\ \A t \in Int : RateAt(After(rows', cut', plan'), t) <= RateAt(After(rows, cut, plan), t)
    <3>1. /\ phase = "read" /\ ~overtaken /\ cut' = cut /\ plan' = plan
          /\ cut \cap C = {}
      BY <2>1
    <3>2. cut \subseteq Granted(rows)
      BY <3>1, <1>1 DEF CutSuffices
    <3>3. cut \subseteq Granted(rows')
      BY <3>1, <3>2, <1>2 DEF Granted
    <3>4. ASSUME NEW t \in Int
          PROVE  RateAt(After(rows', cut, plan), t) <= RateAt(After(rows, cut, plan), t)
      BY <3>1, <1>1, SparedShrinks
    <3> QED BY <3>1, <3>3, <3>4, <1>1
  <2> QED BY <2>1 DEF KeepsCut
<1>6. KeepsGrant
  <2>1. ASSUME reviewing' # None /\ verdict' = "approve" /\ ~stale'
        PROVE  /\ reviewing' = reviewing /\ verdict' = verdict /\ ~stale
               /\ rows'[reviewing] = rows[reviewing]
    <3>1. reviewing' = reviewing /\ verdict' = verdict /\ ~stale /\ reviewing # None
      BY <2>1
    <3>2. reviewing \in Pendings(rows)
      BY <3>1, <1>1 DEF ReviewOK
    <3>3. reviewing \in DOMAIN rows /\ reviewing \notin C
      BY <3>2 DEF Pendings, Granted
    <3> QED BY <3>1, <3>3, <1>2
  <2> QED BY <2>1 DEF KeepsGrant
<1> QED BY <1>4, <1>5, <1>6, CappedStays

\* The row that a client's change leaves, if any.
Renewed(g, i, to) ==
  IF NeedsReplacement(g, to) THEN <<[g EXCEPT !.to = to, !.replaced = i]>> ELSE <<>>

\* What is needed of that row.
Renewal(R, i, to, new) ==
  LET g == R[i] IN
  /\ Table(new) /\ DOMAIN new \subseteq {1} /\ Follows(R, new)
  /\ NeedsReplacement(g, to) => DOMAIN new = {1} /\ Len(new) = 1
  /\ ~NeedsReplacement(g, to) => new = <<>>
  /\ \A n \in DOMAIN new :
       /\ new[n] \in Row /\ new[n].status = g.status /\ new[n].from = g.from
       /\ new[n].to = to /\ new[n].rate = g.rate /\ new[n].replaced = i
       /\ g.status = "GRANTED" => g.from <= now \/ new[n].from < new[n].to
  /\ g.status = "GRANTED" /\ ~(to > g.to) => Heirs(R, {i}, new)

(***************************************************************************)
(* The row a client's change leaves is an heir unless it was extended.     *)
(***************************************************************************)
LEMMA RenewedFacts ==
  ASSUME NEW R, Table(R), now \in 0 .. End - 1, NEW i \in DOMAIN R, NEW to \in Ends,
         R[i].status \in {"PENDING", "GRANTED"}, InOrder(R, now)
  PROVE  Renewal(R, i, to, Renewed(R[i], i, to))
<1> DEFINE g == R[i]
           new == Renewed(g, i, to)
           p == [g EXCEPT !.to = to, !.replaced = i]
<1>1. /\ g \in Row /\ i \in Nat /\ g.to \in 1 .. End /\ g.rate \in Nat
      /\ g.from \in (0 .. End) \cup {None}
      /\ g.status = "GRANTED" => g.from # None
  BY RowFacts DEF Table
<1>2. to \in 1 .. End /\ End \in Nat /\ Day \in Nat \ {0} /\ now \in Int
  BY ConstantsAssumption
<1>3. /\ p \in Row /\ p.status = g.status /\ p.from = g.from /\ p.to = to
      /\ p.rate = g.rate /\ p.replaced = i
  BY <1>1, <1>2 DEF Row
<1>4. g.status = "GRANTED" => i \in Granted(R)
  BY DEF Granted
<1>5. ASSUME g.status = "GRANTED"
      PROVE  g.from \in 0 .. End /\ (g.from < g.to \/ g.from <= now)
  BY <1>1, <1>4, <1>5 DEF InOrder
<1>6. ASSUME g.status = "GRANTED", NeedsReplacement(g, to)
      PROVE  g.from <= now \/ g.from < to
  <2>1. g.from \in Int /\ g.from # None /\ (g.from < g.to \/ g.from <= now)
    BY <1>1, <1>5, <1>6
  <2>2. to = End \/ to - g.from > Day
    BY <1>6, <2>1 DEF NeedsReplacement
  <2>3. CASE to = End
    BY <2>1, <2>3, <1>1, <1>2
  <2>4. CASE to - g.from > Day
    BY <2>1, <2>4, <1>2
  <2> QED BY <2>2, <2>3, <2>4
<1>7. ASSUME g.status = "GRANTED", NeedsReplacement(g, to), ~(to > g.to)
      PROVE  g.from < to
  <2>1. g.from \in Int /\ g.from # None /\ (g.from < g.to \/ g.from <= now)
    BY <1>1, <1>5, <1>7
  <2>2. to = End \/ to - g.from > Day
    BY <1>7, <2>1 DEF NeedsReplacement
  <2>3. CASE to = End
    BY <2>1, <2>3, <1>2, <1>1
  <2>4. CASE to - g.from > Day
    BY <2>1, <2>4, <1>2
  <2> QED BY <2>2, <2>3, <2>4
<1> HIDE DEF g, p
<1>8. CASE NeedsReplacement(g, to)
  <2>1. new = <<p>>
    BY <1>8 DEF Renewed, p
  <2>2. Table(new) /\ DOMAIN new = {1} /\ Len(new) = 1 /\ new[1] = p
    BY <2>1, <1>1, <1>3, OneRow
  <2> HIDE DEF new
  <2>3. \A n \in DOMAIN new : new[n] = p
    BY <2>2
  <2>4. Follows(R, new)
    BY <2>3, <1>3 DEF Follows
  <2>5. ASSUME g.status = "GRANTED", ~(to > g.to) PROVE Heirs(R, {i}, new)
    <3>1. /\ R[i].from \in 0 .. End /\ R[i].from <= g.from /\ g.from < to
          /\ to <= R[i].to /\ g.rate <= R[i].rate
      BY <1>1, <1>2, <1>5, <1>7, <1>8, <2>5 DEF g
    <3>2. Disjoint(new)
      BY <2>2 DEF Disjoint
    <3> QED BY <3>1, <3>2, <2>3, <2>5, <1>3 DEF Heirs
  <2>6. \A n \in DOMAIN new : g.status = "GRANTED" => g.from <= now \/ new[n].from < new[n].to
    BY <2>3, <1>3, <1>6, <1>8
  <2> QED BY <2>2, <2>3, <2>4, <2>5, <2>6, <1>3, <1>8 DEF new, g, Renewal
<1>9. CASE ~NeedsReplacement(g, to)
  <2>1. new = <<>>
    BY <1>9 DEF Renewed
  <2>2. Table(new) /\ DOMAIN new = {}
    BY <2>1, NoRows
  <2> HIDE DEF new
  <2>3. ASSUME g.status = "GRANTED" PROVE Heirs(R, {i}, new)
    BY <2>2, <2>3, <1>5 DEF Heirs, Disjoint, g
  <2> QED BY <2>1, <2>2, <2>3, <1>9 DEF new, g, Follows, Renewal
<1> QED BY <1>8, <1>9

\* What an update does, told once.
Updated(i, to, new) ==
  LET g == rows[i]
      extended == g.status = "GRANTED" /\ to > g.to
  IN  /\ updated < MaxUpdated /\ updated' = updated + 1
      /\ g.status \in {"PENDING", "GRANTED"} /\ reviewing # i
      /\ new = Renewed(g, i, to) /\ rows' = After(rows, {i}, new)
      /\ queue' = RemoveFirst(queue, i) \o
           (IF NeedsReplacement(g, to) /\ g.status = "PENDING" THEN <<Len(rows')>> ELSE <<>>)
      /\ excused' = (excused \/ extended)
      /\ stale' = (reviewing # None /\ (stale \/ extended))
      /\ overtaken' = (phase = "read" /\ (overtaken \/ extended \/ i \in cut))
      /\ doubled' = doubled \cup (IF extended /\ Siblings(i) # {} THEN {Root(rows, i)} ELSE {})
      /\ now' = now /\ capacity' = capacity /\ status' = status /\ head' = head
      /\ reviewing' = reviewing /\ verdict' = verdict /\ seen' = seen
      /\ due' = due /\ phase' = phase /\ cut' = cut /\ plan' = plan
      /\ created' = created /\ faults' = faults

(***************************************************************************)
(* An update in these words.                                               *)
(***************************************************************************)
LEMMA UpdateTold ==
  ASSUME NEW i \in DOMAIN rows, NEW to \in Ends, Update(i, to)
  PROVE  Updated(i, to, Renewed(rows[i], i, to))
BY DEF Update, Updated, Renewed, After, Upset, reviewVars, loopVars

(***************************************************************************)
(* The rows, the queue and the plan after an update.                       *)
(***************************************************************************)
LEMMA UpdateRows ==
  ASSUME Inv, NEW i \in DOMAIN rows, NEW to \in Ends, NEW new, Updated(i, to, new)
  PROVE  /\ RowsOK' /\ Planned(rows, cut, plan)' /\ QueueOK' /\ ReviewOK'
         /\ DOMAIN rows \subseteq DOMAIN rows'
<1> DEFINE g == rows[i]
<1>1. /\ QueueOK /\ ReviewOK /\ Table(rows) /\ Chained(rows) /\ InOrder(rows, now)
      /\ Planned(rows, cut, plan) /\ now \in Int /\ now \in 0 .. End - 1
  BY CapacityType DEF Inv, RowsOK, PlainOK
<1>2. /\ g.status \in {"PENDING", "GRANTED"} /\ reviewing # i
      /\ new = Renewed(g, i, to) /\ rows' = After(rows, {i}, new)
      /\ queue' = RemoveFirst(queue, i) \o
           (IF NeedsReplacement(g, to) /\ g.status = "PENDING" THEN <<Len(rows')>> ELSE <<>>)
      /\ now' = now /\ reviewing' = reviewing /\ verdict' = verdict /\ cut' = cut
      /\ plan' = plan
  BY DEF Updated
<1>3. /\ Table(new) /\ DOMAIN new \subseteq {1} /\ Follows(rows, new)
      /\ NeedsReplacement(g, to) => DOMAIN new = {1} /\ Len(new) = 1
      /\ ~NeedsReplacement(g, to) => new = <<>>
      /\ \A n \in DOMAIN new :
           /\ new[n].status = g.status /\ new[n].from = g.from
           /\ g.status = "GRANTED" => g.from <= now \/ new[n].from < new[n].to
  <2>1. Renewal(rows, i, to, new)
    BY <1>1, <1>2, RenewedFacts
  <2> HIDE DEF g
  <2> QED BY <2>1 DEF Renewal, g
<1> HIDE DEF g
<1>4. \A n \in DOMAIN new : new[n].status = "GRANTED" => new[n].from < new[n].to \/ new[n].from <= now
  BY <1>3
<1>5. /\ Table(rows') /\ Chained(rows') /\ InOrder(rows', now)
      /\ DOMAIN rows \subseteq DOMAIN rows'
      /\ Pendings(rows') = (Pendings(rows) \ {i})
           \cup {Len(rows) + n : n \in {m \in DOMAIN new : new[m].status = "PENDING"}}
  <2>1. /\ Table(rows) /\ Chained(rows) /\ InOrder(rows, now) /\ now \in Int
        /\ Table(new) /\ Follows(rows, new) /\ rows' = After(rows, {i}, new)
    BY <1>1, <1>2, <1>3
  <2> QED BY <2>1, <1>4, RowsAfter
<1>6. RowsOK'
  BY <1>2, <1>5 DEF RowsOK
<1>7. Planned(rows, cut, plan)'
  <2>1. Table(plan)
    BY <1>1 DEF Planned
  <2> QED BY <1>1, <1>2, <1>3, PlannedAfter
<1>8. ReviewOK'
  BY <1>1, <1>2, <1>5 DEF ReviewOK
<1>9. QueueOK'
  <2> DEFINE q == RemoveFirst(queue, i)
  <2>1. q \in Seq(Nat) /\ IsInjective(q) /\ ToSet(q) = Pendings(rows) \ {i}
    BY <1>1, WithoutFirst DEF QueueOK
  <2>2. /\ Len(rows) \in Nat /\ DOMAIN rows = 1 .. Len(rows)
        /\ Pendings(rows) \subseteq DOMAIN rows
    BY <1>1, RowFacts DEF Pendings
  <2> HIDE DEF q
  <2>3. CASE NeedsReplacement(g, to) /\ g.status = "PENDING"
    <3>1. Len(rows') = Len(rows) + 1
      <4>1. Len(After(rows, {i}, new)) = Len(rows) + Len(new)
        BY <1>1, <1>3, AfterFacts
      <4> QED BY <4>1, <2>3, <1>2, <1>3
    <3> DEFINE n == Len(rows')
    <3>2. queue' = q \o <<n>> /\ n = Len(rows) + 1 /\ n \in Nat /\ n \notin ToSet(q)
      BY <3>1, <2>1, <2>2, <2>3, <1>2 DEF q
    <3>3. {m \in DOMAIN new : new[m].status = "PENDING"} = {1}
      BY <2>3, <1>3
    <3>4. Pendings(rows') = (Pendings(rows) \ {i}) \cup {n}
      BY <3>1, <3>3, <1>5
    <3> HIDE DEF n
    <3>5. /\ q \o <<n>> \in Seq(Nat) /\ IsInjective(q \o <<n>>)
          /\ ToSet(q \o <<n>>) = ToSet(q) \cup {n}
      BY <3>2, <2>1, WithLast
    <3> QED BY <3>2, <3>4, <3>5, <2>1 DEF QueueOK
  <2>4. CASE ~(NeedsReplacement(g, to) /\ g.status = "PENDING")
    <3>1. queue' = q
      <4>1. queue' = q \o <<>>
        BY <2>4, <1>2 DEF q
      <4> QED BY <4>1, <2>1, ConcatEmptySeq
    <3>2. {m \in DOMAIN new : new[m].status = "PENDING"} = {}
      <4>1. CASE g.status = "PENDING"
        <5>1. new = <<>>
          BY <4>1, <2>4, <1>3
        <5> QED BY <5>1, NoRows
      <4>2. CASE g.status # "PENDING"
        BY <4>2, <1>3
      <4> QED BY <4>1, <4>2
    <3>3. Pendings(rows') = Pendings(rows) \ {i}
      BY <3>2, <1>5
    <3> QED BY <3>1, <3>3, <2>1 DEF QueueOK
  <2> QED BY <2>3, <2>4
<1> QED BY <1>5, <1>6, <1>7, <1>8, <1>9

(***************************************************************************)
(* A client changes the end of a grant.                                    *)
(***************************************************************************)
LEMMA UpdateStep ==
  ASSUME Inv, NEW i \in DOMAIN rows, NEW to \in Ends, Update(i, to)
  PROVE  Inv'
<1> DEFINE g   == rows[i]
           new == Renewed(g, i, to)
           extended == g.status = "GRANTED" /\ to > g.to
           more == IF extended /\ Siblings(i) # {} THEN {Root(rows, i)} ELSE {}
<1>1. /\ PlainOK /\ Table(rows) /\ Chained(rows) /\ InOrder(rows, now) /\ ReviewOK
      /\ Families(rows, doubled) /\ now \in 0 .. End - 1
  BY DEF Inv, RowsOK, PlainOK
<1>2. Updated(i, to, new)
  BY UpdateTold
<1>3. /\ RowsOK' /\ Planned(rows, cut, plan)' /\ QueueOK' /\ ReviewOK'
      /\ DOMAIN rows \subseteq DOMAIN rows'
  <2> HIDE DEF new
  <2> QED BY <1>2, UpdateRows
<1>4. /\ updated < MaxUpdated /\ updated' = updated + 1
      /\ g.status \in {"PENDING", "GRANTED"} /\ reviewing # i
      /\ rows' = After(rows, {i}, new)
      /\ excused' = (excused \/ extended)
      /\ stale' = (reviewing # None /\ (stale \/ extended))
      /\ overtaken' = (phase = "read" /\ (overtaken \/ extended \/ i \in cut))
      /\ doubled' = doubled \cup more
      /\ now' = now /\ capacity' = capacity /\ status' = status /\ head' = head
      /\ reviewing' = reviewing /\ verdict' = verdict /\ seen' = seen
      /\ due' = due /\ phase' = phase /\ cut' = cut /\ plan' = plan
      /\ created' = created /\ faults' = faults
  BY <1>2 DEF Updated
<1>5. /\ Table(new) /\ DOMAIN new \subseteq {1} /\ Follows(rows, new)
      /\ NeedsReplacement(g, to) => DOMAIN new = {1} /\ Len(new) = 1
      /\ ~NeedsReplacement(g, to) => new = <<>>
      /\ \A n \in DOMAIN new :
           /\ new[n] \in Row /\ new[n].status = g.status /\ new[n].from = g.from
           /\ new[n].rate = g.rate /\ new[n].replaced = i
      /\ g.status = "GRANTED" /\ ~(to > g.to) => Heirs(rows, {i}, new)
  <2>1. Renewal(rows, i, to, new)
    BY <1>1, <1>4, RenewedFacts
  <2> HIDE DEF new, g
  <2> QED BY <2>1 DEF Renewal, g
<1>6. i \in Nat /\ i # 0 /\ Root(rows, i) \in DOMAIN rows
  BY <1>1, RowFacts, RootFacts
<1>7. more \subseteq DOMAIN rows
  BY <1>6
<1> HIDE DEF new
<1>8. PlainOK'
  <2>1. updated' \in 0 .. MaxUpdated
    BY <1>1, <1>4, ConstantsAssumption DEF PlainOK
  <2>2. seen' \subseteq DOMAIN rows' /\ doubled' \subseteq DOMAIN rows'
    BY <1>1, <1>3, <1>4, <1>7 DEF PlainOK
  <2>3. stale' \in BOOLEAN /\ overtaken' \in BOOLEAN /\ excused' \in BOOLEAN
    <3>1. stale \in BOOLEAN /\ overtaken \in BOOLEAN /\ excused \in BOOLEAN
      BY <1>1 DEF PlainOK
    <3> QED BY <3>1, <1>4
  <2> HIDE DEF more, extended
  <2> QED BY <2>1, <2>2, <2>3, <1>1, <1>4 DEF PlainOK, Collection!TypeOK
<1>9. CASE g.status = "PENDING"
  <2>1. i \in Pendings(rows) /\ {i} \cap Granted(rows) = {} /\ ~extended /\ more = {}
    BY <1>9 DEF Pendings, Granted
  <2>2. \A n \in DOMAIN new : /\ new[n].status = "PENDING" /\ new[n].from = None
                              /\ new[n].replaced = i /\ new[n].rate = rows[i].rate
    <3>1. g.from = None
      BY <2>1, <1>1 DEF Families, PendingAlone
    <3> QED BY <3>1, <1>5, <1>9
  <2>3. Families(rows', doubled)
    BY <2>1, <2>2, <1>1, <1>4, <1>5, FamiliesRenew
  <2>4. doubled' = doubled
    BY <2>1, <1>4
  <2>5. (excused => excused') /\ (phase = "read" /\ ~overtaken' => ~overtaken)
        /\ (reviewing' # None /\ verdict' = "approve" /\ ~stale' =>
              ~stale /\ UNCHANGED <<reviewing, verdict>> /\ reviewing \notin {i})
    BY <1>4
  <2>6. Capped'
    <3>1. \A n \in DOMAIN new : new[n].status # "GRANTED"
      BY <2>2
    <3> HIDE DEF g, extended, more
    <3> QED BY <3>1, <2>1, <2>5, <1>4, <1>5, QuietCapped
  <2> QED BY <2>3, <2>4, <2>6, <1>3, <1>8 DEF Inv
<1>10. CASE g.status = "GRANTED" /\ ~extended
  <2>1. {i} \subseteq Granted(rows) /\ Heirs(rows, {i}, new)
    BY <1>5, <1>10 DEF Granted
  <2>2. doubled' = doubled
    BY <1>4, <1>10
  <2>3. Families(rows', doubled)
    <3>1. \A j \in {i} : rows[j].status # "GRANTED" => Root(rows, j) \in doubled
      BY <1>10
    <3> QED BY <3>1, <2>1, <1>1, <1>4, <1>5, FamiliesCut
  <2>4. /\ excused => excused'
        /\ phase = "read" /\ ~overtaken' => ~overtaken /\ i \notin cut
        /\ reviewing # None /\ ~stale' => ~stale
    BY <1>4
  <2>5. Capped'
    <3>1. phase' = "read" /\ ~overtaken' => ~overtaken /\ cut \cap {i} = {}
      BY <2>4, <1>4
    <3>2. UNCHANGED <<now, capacity, phase, cut, plan, reviewing, verdict>>
      BY <1>4
    <3> HIDE DEF g, extended, more
    <3> QED BY <3>1, <3>2, <2>1, <2>4, <1>4, <1>5, ChangedCapped
  <2> QED BY <2>2, <2>3, <2>5, <1>3, <1>8 DEF Inv
<1>11. CASE extended
  <2>1. i \in Granted(rows) /\ rows[i].from # None
    BY <1>1, <1>11 DEF Granted, Table
  <2>2. excused' /\ ~(phase' = "read" /\ ~overtaken') /\ (reviewing' # None => stale')
    BY <1>4, <1>11
  <2>3. Capped'
    BY <2>2 DEF Capped, CutSuffices, RoomForGrant, RatesWithinCapacity
  <2>4. Families(rows', doubled')
    <3>1. doubled \subseteq doubled'
      BY <1>4
    <3>2. CASE NeedsReplacement(g, to)
      <4> DEFINE p == [g EXCEPT !.to = to, !.replaced = i]
      <4>1. new = <<p>>
        BY <3>2 DEF Renewed, new
      <4>2. new[1] = p /\ DOMAIN new = {1}
        BY <4>1
      <4>3. /\ p \in Row /\ p.status = "GRANTED" /\ p.from # None
            /\ p.replaced = i /\ p.rate = rows[i].rate
        BY <4>2, <2>1, <1>5, <1>11
      <4>4. (\E j \in Granted(rows) \ {i} : Root(rows, j) = Root(rows, i)) => Root(rows, i) \in doubled'
        BY <1>4, <1>11 DEF Siblings
      <4> HIDE DEF p
      <4>5. Families(After(rows, {i}, <<p>>), doubled')
        BY <4>3, <4>4, <3>1, <2>1, <1>1, FamiliesExtend
      <4> QED BY <4>1, <4>5, <1>4
    <3>3. CASE ~NeedsReplacement(g, to)
      <4>1. new = <<>>
        BY <3>3, <1>5
      <4>2. rows[i].from \in 0 .. End
        BY <2>1, <1>1, RowFacts
      <4>3. Heirs(rows, {i}, new)
        BY <4>1, <4>2, NoRows DEF Heirs, Disjoint
      <4>4. \A j \in {i} : rows[j].status # "GRANTED" => Root(rows, j) \in doubled'
        BY <1>11
      <4> QED BY <4>3, <4>4, <3>1, <1>1, <1>4, <1>5, FamiliesCut
    <3> QED BY <3>2, <3>3
  <2> QED BY <2>3, <2>4, <1>3, <1>8 DEF Inv
<1> QED BY <1>4, <1>9, <1>10, <1>11

-----------------------------------------------------------------------------
(* The theorems.                                                           *)

(***************************************************************************)
(* Nothing changes.                                                        *)
(***************************************************************************)
LEMMA InvStutter == ASSUME Inv, UNCHANGED vars PROVE Inv'
<1>1. /\ now' = now /\ capacity' = capacity /\ rows' = rows /\ queue' = queue
      /\ status' = status /\ head' = head
      /\ reviewing' = reviewing /\ verdict' = verdict /\ seen' = seen
      /\ due' = due /\ phase' = phase /\ cut' = cut /\ plan' = plan
      /\ created' = created /\ updated' = updated /\ faults' = faults
      /\ stale' = stale /\ overtaken' = overtaken /\ excused' = excused
      /\ doubled' = doubled
  BY DEF vars, reviewVars, loopVars, bounds, ghosts
<1>2. /\ PlainOK /\ QueueOK /\ ReviewOK /\ Capped /\ Planned(rows, cut, plan)
      /\ now \in Int
  BY CapacityType DEF Inv
<1>3. PlainOK'
  BY <1>1, <1>2 DEF PlainOK, Collection!TypeOK
<1>4. QueueOK' /\ ReviewOK' /\ Planned(rows, cut, plan)'
  BY <1>1, <1>2 DEF QueueOK, ReviewOK
<1>5. RowsOK' /\ Families(rows, doubled)'
  BY <1>1, <1>2, RowsStay
<1>6. Capped'
  BY <1>1, <1>2 DEF Capped, CutSuffices, RoomForGrant, RatesWithinCapacity, Within
<1> QED BY <1>3, <1>4, <1>5, <1>6 DEF Inv

(***************************************************************************)
(* Every step keeps the invariant.                                         *)
(***************************************************************************)
LEMMA InvNext == Inv /\ [Next]_vars => Inv'
<1> SUFFICES ASSUME Inv, [Next]_vars PROVE Inv'
  OBVIOUS
<1>1. ASSUME NEW rate \in Rates, NEW to \in Ends, Create(rate, to) PROVE Inv'
  BY <1>1, CreateStep
<1>2. ASSUME NEW i \in DOMAIN rows, NEW to \in Ends, Update(i, to) PROVE Inv'
  BY <1>2, UpdateStep
<1>3. CASE ReviewBegin
  BY <1>3, ReviewBeginStep
<1>4. CASE ReviewDecide
  BY <1>4, ReviewDecideStep
<1>5. CASE ReviewStops
  BY <1>5, ReviewStopsStep
<1>6. CASE ReviewFails
  BY <1>6, ReviewFailsStep
<1>7. ASSUME NEW cap \in Capacities, Calculate(cap) PROVE Inv'
  BY <1>7, CalculateStep
<1>8. CASE ReReviewRead
  BY <1>8, ReReviewReadStep
<1>9. ASSUME NEW fails \in BOOLEAN, ReReviewWrite(fails) PROVE Inv'
  BY <1>9, ReReviewWriteStep
<1>10. CASE ReReviewFails
  BY <1>10, ReReviewFailsStep
<1>11. CASE Indexing
  BY <1>11, IndexingStep
<1>12. CASE Tick
  BY <1>12, TickStep
<1>13. CASE UNCHANGED vars
  BY <1>13, InvStutter
<1> QED
  BY <1>1, <1>2, <1>3, <1>4, <1>5, <1>6, <1>7, <1>8, <1>9, <1>10, <1>11, <1>12, <1>13
     DEF Next, Review, Calculates

(***************************************************************************)
(* The invariant holds.                                                    *)
(***************************************************************************)
THEOREM Invariance == Spec => []Inv
<1>1. Init => Inv
  BY InvInit
<1>2. Inv /\ [Next]_vars => Inv'
  BY InvNext
<1> QED BY <1>1, <1>2, PTL DEF Spec

(***************************************************************************)
(* Every variable has its type: rows, the queue of pending rows, the       *)
(* reviewer's and the re-review's local state.                             *)
(***************************************************************************)
THEOREM TypeCorrect == Spec => []TypeOK
<1>1. Inv => TypeOK
  BY InvType
<1> QED BY <1>1, Invariance, PTL

(***************************************************************************)
(* At every time from now on what the grantor's grants promise is within   *)
(* the capacity, unless something is excused that the next re-review cuts: *)
(* the reviewer, the re-review and the clients never exceed it by          *)
(* themselves.                                                             *)
(***************************************************************************)
THEOREM PromisesKept == Spec => []RatesWithinCapacity
<1>1. Inv => RatesWithinCapacity
  BY DEF Inv, Capped
<1> QED BY <1>1, Invariance, PTL

(***************************************************************************)
(* However often a grant was changed and cut, the rows it has become       *)
(* promise together no more than it did, but for the families of which a   *)
(* client extended or changed a row under a cut.                           *)
(***************************************************************************)
THEOREM HeirsPromiseNoMore == Spec => []HeirsWithinGrant
<1>1. Inv => HeirsWithinGrant
  BY InvHeirs
<1> QED BY <1>1, Invariance, PTL

(***************************************************************************)
(* buildReplacementGrants cuts every three grants as the rule asks.        *)
(***************************************************************************)
THEOREM CutsFollowTheRule == Spec => []CutsAreFair
<1>1. Inv => CutsAreFair
  <2> SUFFICES ASSUME Inv PROVE CutsAreFair
    OBVIOUS
  <2>1. capacity \in Nat
    BY CapacityType DEF Inv
  <2> QED BY <2>1, CutsOfThree
<1> QED BY <1>1, Invariance, PTL
=============================================================================
