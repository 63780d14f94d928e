----------------------------- MODULE SumTheorems -----------------------------
(***************************************************************************)
(* What Total computes, for every finite set.  Total folds the set in an   *)
(* order of its own; the lemmas say that the order does not matter, and    *)
(* how a sum follows changes of its addends.  The least and the greatest   *)
(* of finitely many integers come at the end.                              *)
(*                                                                         *)
(* All inductions go by SubsetInduction: a set of subsets that contains    *)
(* the empty one, and every subset it contains but for some element of it, *)
(* contains the whole; among the subsets it missed there would be a least. *)
(***************************************************************************)
EXTENDS Sums, FiniteSetTheorems, WellFoundedInduction, TLAPS

(* Induction over the subsets of a finite set.                             *)
LEMMA SubsetInduction ==
  ASSUME NEW S, IsFiniteSet(S), NEW G, {} \in G,
         \A T \in SUBSET S : T # {} /\ (\A x \in T : T \ {x} \in G) => T \in G
  PROVE  \A T \in SUBSET S : T \in G
<1> DEFINE Missed == {T \in SUBSET S : T \notin G}
<1> SUFFICES ASSUME Missed # {} PROVE FALSE
  OBVIOUS
<1>1. Missed \subseteq SUBSET S
  OBVIOUS
<1>2. ASSUME NEW T \in Missed PROVE T \in SUBSET S /\ T \notin G
  OBVIOUS
<1>3. ASSUME NEW T \in SUBSET S, T \notin G PROVE T \in Missed
  BY <1>3
<1> HIDE DEF Missed
<1>4. FiniteSubsetsOf(S) = SUBSET S
  BY FS_FiniteSubsetsOfFinite
<1>5. IsWellFoundedOn(StrictSubsetOrdering(S), SUBSET S)
  BY <1>4, FS_StrictSubsetOrderingWellFounded
<1>6. PICK T \in Missed : \A U \in Missed : <<U, T>> \notin StrictSubsetOrdering(S)
  BY <1>5, <1>1, WFMin
<1>7. PICK x \in T : T \ {x} \notin G
  BY <1>2
<1>8. T \ {x} \in Missed
  BY <1>2, <1>3, <1>7
<1>9. <<T \ {x}, T>> \in StrictSubsetOrdering(S)
  BY <1>2 DEF StrictSubsetOrdering
<1> QED BY <1>6, <1>8, <1>9
-----------------------------------------------------------------------------
(* The function by which Total is defined.                                 *)
Pick(s) == CHOOSE x \in s : TRUE

Partial(f, U, g) ==
  [s \in SUBSET U |-> IF s = {} THEN 0 ELSE f[Pick(s)] + g[s \ {Pick(s)}]]

SumsOf(f, U) == CHOOSE g : g = Partial(f, U, g)

(* The sum is what that function gives for the whole set.                  *)
LEMMA TotalIsPartial ==
  ASSUME NEW f, NEW S PROVE Total(f, S) = SumsOf(f, S)[S]
BY DEF Total, MapThenSumSet, MapThenFoldSet, SumsOf, Partial, Pick

(* What is picked from a set is in it.                                     *)
LEMMA PickIsIn == ASSUME NEW s, s # {} PROVE Pick(s) \in s
BY DEF Pick

(* Two such functions agree where both are defined.                        *)
LEMMA PartialUnique ==
  ASSUME NEW f, NEW U, NEW V, IsFiniteSet(U), U \subseteq V,
         NEW g, g = Partial(f, U, g), NEW h, h = Partial(f, V, h)
  PROVE  \A s \in SUBSET U : g[s] = h[s]
<1> DEFINE Same == {s \in SUBSET U : g[s] = h[s]}
<1>1. {} \in Same
  <2>1. g[{}] = 0 /\ h[{}] = 0
    BY DEF Partial
  <2> QED BY <2>1
<1>2. ASSUME NEW s \in SUBSET U, s # {}, \A x \in s : s \ {x} \in Same
      PROVE  s \in Same
  <2>1. Pick(s) \in s
    BY <1>2, PickIsIn
  <2>2. g[s \ {Pick(s)}] = h[s \ {Pick(s)}]
    BY <1>2, <2>1
  <2>3. s \in SUBSET V
    BY <1>2
  <2>4. g[s] = f[Pick(s)] + g[s \ {Pick(s)}]
    BY <1>2 DEF Partial
  <2>5. h[s] = f[Pick(s)] + h[s \ {Pick(s)}]
    BY <1>2, <2>3 DEF Partial
  <2> QED BY <2>2, <2>4, <2>5
<1> HIDE DEF Same
<1>3. \A s \in SUBSET U : s \in Same
  BY <1>1, <1>2, SubsetInduction
<1> QED BY <1>3 DEF Same

(* Hence two of them agree on what both are defined for.                   *)
LEMMA PartialAgree ==
  ASSUME NEW f, NEW U, NEW V, NEW W, IsFiniteSet(W), W \subseteq U, W \subseteq V,
         NEW g, g = Partial(f, U, g), NEW h, h = Partial(f, V, h)
  PROVE  g[W] = h[W]
<1> DEFINE k == Partial(f, W, g)
<1>1. \A s \in SUBSET W : s # {} => g[s] = f[Pick(s)] + g[s \ {Pick(s)}]
  BY DEF Partial
<1>2. g[{}] = 0
  BY DEF Partial
<1>3. k = [s \in SUBSET W |-> g[s]]
  BY <1>1, <1>2 DEF Partial
<1>4. \A s \in SUBSET W : s # {} => s \ {Pick(s)} \in SUBSET W
  OBVIOUS
<1>5. k = Partial(f, W, k)
  BY <1>3, <1>4 DEF Partial
<1> HIDE DEF k
<1>6. \A s \in SUBSET W : k[s] = g[s]
  BY <1>5, PartialUnique
<1>7. \A s \in SUBSET W : k[s] = h[s]
  BY <1>5, PartialUnique
<1> QED BY <1>6, <1>7

(* A function of that kind exists for every finite set.                    *)
LEMMA PartialExists ==
  ASSUME NEW f, NEW S, IsFiniteSet(S)
  PROVE  \A U \in SUBSET S : SumsOf(f, U) = Partial(f, U, SumsOf(f, U))
<1> DEFINE Good == {U \in SUBSET S : \E g : g = Partial(f, U, g)}
<1>1. {} \in Good
  <2> DEFINE g == [s \in {{}} |-> 0]
  <2>1. SUBSET {} = {{}}
    OBVIOUS
  <2>2. g = Partial(f, {}, g)
    BY <2>1 DEF Partial
  <2> QED BY <2>2
<1>2. ASSUME NEW T \in SUBSET S, T # {}, \A x \in T : T \ {x} \in Good
      PROVE  T \in Good
  <2> DEFINE D(x)  == T \ {x}
             G(x)  == SumsOf(f, D(x))
             r     == [s \in SUBSET T |->
                         IF s = {} THEN 0
                         ELSE f[Pick(s)] + G(Pick(s))[s \ {Pick(s)}]]
  <2>1. ASSUME NEW x \in T PROVE G(x) = Partial(f, D(x), G(x))
    BY <1>2 DEF SumsOf
  <2>2. ASSUME NEW s \in SUBSET T, s # {}
        PROVE  r[s \ {Pick(s)}] = G(Pick(s))[s \ {Pick(s)}]
    <3> DEFINE x == Pick(s)
               u == s \ {x}
               y == Pick(u)
    <3>1. x \in s /\ x \in T /\ u \in SUBSET D(x) /\ u \in SUBSET T
      BY <2>2, PickIsIn
    <3>2. G(x) = Partial(f, D(x), G(x))
      BY <2>1, <3>1
    <3>3. CASE u = {}
      BY <3>1, <3>2, <3>3 DEF Partial
    <3>4. CASE u # {}
      <4>1. y \in u /\ y \in T
        BY <3>1, <3>4, PickIsIn
      <4>2. G(y) = Partial(f, D(y), G(y))
        BY <2>1, <4>1
      <4>3. G(x)[u] = f[y] + G(x)[u \ {y}]
        BY <3>1, <3>2, <3>4 DEF Partial
      <4>4. r[u] = f[y] + G(y)[u \ {y}]
        BY <3>1, <3>4
      <4>5. G(x)[u \ {y}] = G(y)[u \ {y}]
        <5>1. u \ {y} \subseteq D(x) /\ u \ {y} \subseteq D(y)
          BY <3>1
        <5>2. IsFiniteSet(u \ {y})
          BY <3>1, FS_Subset
        <5> HIDE DEF D, G, x, y, u
        <5> QED BY <3>2, <4>2, <5>1, <5>2, PartialAgree
      <4> QED BY <4>3, <4>4, <4>5
    <3> QED BY <3>3, <3>4
  <2>3. r = Partial(f, T, r)
    BY <2>2 DEF Partial
  <2> QED BY <2>3
<1> HIDE DEF Good
<1>3. \A U \in SUBSET S : U \in Good
  BY <1>1, <1>2, SubsetInduction
<1> QED BY <1>3 DEF Good, SumsOf
-----------------------------------------------------------------------------
(* The sum over the empty set.                                             *)
LEMMA TotalEmpty == ASSUME NEW f PROVE Total(f, {}) = 0
<1>1. IsFiniteSet({}) /\ {} \in SUBSET {}
  BY FS_EmptySet
<1>2. SumsOf(f, {}) = Partial(f, {}, SumsOf(f, {}))
  BY <1>1, PartialExists
<1>3. SumsOf(f, {})[{}] = 0
  BY <1>2 DEF Partial
<1> QED BY <1>3, TotalIsPartial

(* One addend after the other, in the order of Total.                      *)
LEMMA TotalStep ==
  ASSUME NEW f, NEW S, IsFiniteSet(S), S # {}
  PROVE  Pick(S) \in S /\ Total(f, S) = f[Pick(S)] + Total(f, S \ {Pick(S)})
<1> DEFINE p == Pick(S)
           W == S \ {p}
           G == SumsOf(f, S)
           H == SumsOf(f, W)
<1>1. p \in S
  BY PickIsIn
<1>2. G = Partial(f, S, G) /\ H = Partial(f, W, H)
  BY PartialExists
<1>3. G[S] = f[p] + G[W]
  BY <1>2 DEF Partial
<1>4. IsFiniteSet(W) /\ W \subseteq S /\ W \subseteq W
  BY FS_Subset
<1>5. Total(f, S) = G[S] /\ Total(f, W) = H[W]
  BY TotalIsPartial
<1> HIDE DEF G, H, W
<1>6. G[W] = H[W]
  BY <1>2, <1>4, PartialAgree
<1> QED BY <1>1, <1>3, <1>5, <1>6 DEF W

(* Sums of integers are integers.                                          *)
LEMMA TotalType ==
  ASSUME NEW f, NEW S, IsFiniteSet(S), \A x \in S : f[x] \in Int
  PROVE  Total(f, S) \in Int
<1> DEFINE Good == {T \in SUBSET S : Total(f, T) \in Int}
<1>1. {} \in Good
  BY TotalEmpty
<1>2. ASSUME NEW T \in SUBSET S, T # {}, \A x \in T : T \ {x} \in Good
      PROVE  T \in Good
  <2>1. IsFiniteSet(T)
    BY FS_Subset
  <2>2. Pick(T) \in T /\ Total(f, T) = f[Pick(T)] + Total(f, T \ {Pick(T)})
    BY <1>2, <2>1, TotalStep
  <2>3. Total(f, T \ {Pick(T)}) \in Int
    BY <1>2, <2>2
  <2> QED BY <2>2, <2>3
<1> HIDE DEF Good
<1>3. \A T \in SUBSET S : T \in Good
  BY <1>1, <1>2, SubsetInduction
<1> QED BY <1>3 DEF Good

(* Sums do not depend on the order of the addends.                         *)
LEMMA TotalRemove ==
  ASSUME NEW f, NEW S, IsFiniteSet(S), \A x \in S : f[x] \in Int, NEW y \in S
  PROVE  Total(f, S) = f[y] + Total(f, S \ {y})
<1> DEFINE Good == {T \in SUBSET S : \A x \in T : Total(f, T) = f[x] + Total(f, T \ {x})}
<1>1. {} \in Good
  OBVIOUS
<1>2. ASSUME NEW T \in SUBSET S, T # {}, \A x \in T : T \ {x} \in Good
      PROVE  T \in Good
  <2>1. IsFiniteSet(T)
    BY FS_Subset
  <2> DEFINE p == Pick(T)
  <2>2. p \in T /\ Total(f, T) = f[p] + Total(f, T \ {p})
    BY <1>2, <2>1, TotalStep
  <2> HIDE DEF p
  <2>3. ASSUME NEW x \in T, x # p PROVE Total(f, T) = f[x] + Total(f, T \ {x})
    <3>1. Total(f, T \ {p}) = f[x] + Total(f, (T \ {p}) \ {x})
      BY <1>2, <2>2, <2>3
    <3>2. Total(f, T \ {x}) = f[p] + Total(f, (T \ {x}) \ {p})
      BY <1>2, <2>2, <2>3
    <3>3. (T \ {x}) \ {p} = (T \ {p}) \ {x}
      OBVIOUS
    <3> DEFINE rest == Total(f, (T \ {p}) \ {x})
    <3>4. IsFiniteSet((T \ {p}) \ {x}) /\ \A z \in (T \ {p}) \ {x} : f[z] \in Int
      BY FS_Subset
    <3>5. rest \in Int
      BY <3>4, TotalType
    <3>6. f[x] \in Int /\ f[p] \in Int
      BY <2>2
    <3>7. Total(f, T \ {x}) = f[p] + rest /\ Total(f, T \ {p}) = f[x] + rest
      BY <3>1, <3>2, <3>3
    <3> HIDE DEF rest
    <3> QED BY <2>2, <3>5, <3>6, <3>7
  <2> QED BY <2>2, <2>3
<1> HIDE DEF Good
<1>3. \A T \in SUBSET S : T \in Good
  BY <1>1, <1>2, SubsetInduction
<1> QED BY <1>3 DEF Good

(* Equal addends, equal sums.                                              *)
LEMMA TotalCongruence ==
  ASSUME NEW f, NEW g, NEW S, IsFiniteSet(S), \A x \in S : f[x] = g[x]
  PROVE  Total(f, S) = Total(g, S)
<1> DEFINE Good == {T \in SUBSET S : Total(f, T) = Total(g, T)}
<1>1. {} \in Good
  BY TotalEmpty
<1>2. ASSUME NEW T \in SUBSET S, T # {}, \A x \in T : T \ {x} \in Good
      PROVE  T \in Good
  <2>1. IsFiniteSet(T)
    BY FS_Subset
  <2>2. Pick(T) \in T
    BY <1>2, PickIsIn
  <2>3. Total(f, T) = f[Pick(T)] + Total(f, T \ {Pick(T)})
    BY <1>2, <2>1, TotalStep
  <2>4. Total(g, T) = g[Pick(T)] + Total(g, T \ {Pick(T)})
    BY <1>2, <2>1, TotalStep
  <2>5. Total(f, T \ {Pick(T)}) = Total(g, T \ {Pick(T)}) /\ f[Pick(T)] = g[Pick(T)]
    BY <1>2, <2>2
  <2> QED BY <2>3, <2>4, <2>5
<1> HIDE DEF Good
<1>3. \A T \in SUBSET S : T \in Good
  BY <1>1, <1>2, SubsetInduction
<1> QED BY <1>3 DEF Good

(* One addend changes: the sum changes by as much.                         *)
LEMMA TotalChange ==
  ASSUME NEW f, NEW g, NEW S, IsFiniteSet(S), NEW y \in S,
         \A x \in S : f[x] \in Int /\ g[x] \in Int,
         \A x \in S \ {y} : f[x] = g[x]
  PROVE  Total(g, S) = Total(f, S) + g[y] - f[y]
<1>1. IsFiniteSet(S \ {y})
  BY FS_Subset
<1>2. Total(f, S \ {y}) = Total(g, S \ {y})
  BY <1>1, TotalCongruence
<1>3. Total(f, S) = f[y] + Total(f, S \ {y})
  BY TotalRemove
<1>4. Total(g, S) = g[y] + Total(g, S \ {y})
  BY TotalRemove
<1>5. Total(f, S \ {y}) \in Int
  BY <1>1, TotalType
<1> QED BY <1>2, <1>3, <1>4, <1>5

(* The sum of the sums of two columns.                                     *)
LEMMA TotalAdd ==
  ASSUME NEW f, NEW g, NEW h, NEW S, IsFiniteSet(S),
         \A x \in S : f[x] \in Int /\ g[x] \in Int /\ h[x] = f[x] + g[x]
  PROVE  Total(h, S) = Total(f, S) + Total(g, S)
<1> DEFINE Good == {T \in SUBSET S : Total(h, T) = Total(f, T) + Total(g, T)}
<1>1. {} \in Good
  BY TotalEmpty
<1>2. ASSUME NEW T \in SUBSET S, T # {}, \A x \in T : T \ {x} \in Good
      PROVE  T \in Good
  <2> DEFINE p == Pick(T)
             R == T \ {p}
  <2>1. IsFiniteSet(T) /\ IsFiniteSet(R)
    BY FS_Subset
  <2>2. p \in T
    BY <1>2, PickIsIn
  <2>3. Total(f, T) = f[p] + Total(f, R)
    BY <1>2, <2>1, TotalStep
  <2>4. Total(g, T) = g[p] + Total(g, R)
    BY <1>2, <2>1, TotalStep
  <2>5. Total(h, T) = h[p] + Total(h, R)
    BY <1>2, <2>1, TotalStep
  <2>6. Total(h, R) = Total(f, R) + Total(g, R)
    BY <1>2, <2>2
  <2>7. Total(f, R) \in Int /\ Total(g, R) \in Int
    BY <2>1, TotalType
  <2>8. f[p] \in Int /\ g[p] \in Int /\ h[p] = f[p] + g[p]
    BY <2>2
  <2> HIDE DEF p, R
  <2> QED BY <2>3, <2>4, <2>5, <2>6, <2>7, <2>8
<1> HIDE DEF Good
<1>3. \A T \in SUBSET S : T \in Good
  BY <1>1, <1>2, SubsetInduction
<1> QED BY <1>3 DEF Good

(* Greater addends, a greater sum.                                         *)
LEMMA TotalMonotone ==
  ASSUME NEW f, NEW g, NEW S, IsFiniteSet(S),
         \A x \in S : f[x] \in Int /\ g[x] \in Int /\ f[x] <= g[x]
  PROVE  Total(f, S) <= Total(g, S)
<1> DEFINE Good == {T \in SUBSET S : Total(f, T) <= Total(g, T)}
<1>1. {} \in Good
  BY TotalEmpty
<1>2. ASSUME NEW T \in SUBSET S, T # {}, \A x \in T : T \ {x} \in Good
      PROVE  T \in Good
  <2> DEFINE p == Pick(T)
             R == T \ {p}
  <2>1. IsFiniteSet(T) /\ IsFiniteSet(R)
    BY FS_Subset
  <2>2. p \in T
    BY <1>2, PickIsIn
  <2>3. Total(f, T) = f[p] + Total(f, R)
    BY <1>2, <2>1, TotalStep
  <2>4. Total(g, T) = g[p] + Total(g, R)
    BY <1>2, <2>1, TotalStep
  <2>5. Total(f, R) <= Total(g, R)
    BY <1>2, <2>2
  <2>6. Total(f, R) \in Int /\ Total(g, R) \in Int
    BY <2>1, TotalType
  <2>7. f[p] \in Int /\ g[p] \in Int /\ f[p] <= g[p]
    BY <2>2
  <2> HIDE DEF p, R
  <2> QED BY <2>3, <2>4, <2>5, <2>6, <2>7
<1> HIDE DEF Good
<1>3. \A T \in SUBSET S : T \in Good
  BY <1>1, <1>2, SubsetInduction
<1> QED BY <1>3 DEF Good

(* Addends that are 0 do not count.                                        *)
LEMMA TotalZero ==
  ASSUME NEW f, NEW S, IsFiniteSet(S), \A x \in S : f[x] = 0
  PROVE  Total(f, S) = 0
<1> DEFINE Good == {T \in SUBSET S : Total(f, T) = 0}
<1>1. {} \in Good
  BY TotalEmpty
<1>2. ASSUME NEW T \in SUBSET S, T # {}, \A x \in T : T \ {x} \in Good
      PROVE  T \in Good
  <2>1. IsFiniteSet(T)
    BY FS_Subset
  <2>2. Pick(T) \in T /\ Total(f, T) = f[Pick(T)] + Total(f, T \ {Pick(T)})
    BY <1>2, <2>1, TotalStep
  <2>3. Total(f, T \ {Pick(T)}) = 0 /\ f[Pick(T)] = 0
    BY <1>2, <2>2
  <2> QED BY <2>2, <2>3
<1> HIDE DEF Good
<1>3. \A T \in SUBSET S : T \in Good
  BY <1>1, <1>2, SubsetInduction
<1> QED BY <1>3 DEF Good

(* Hence a sum may leave them out.                                         *)
LEMMA TotalOfSupport ==
  ASSUME NEW f, NEW S, IsFiniteSet(S), NEW W \in SUBSET S,
         \A x \in S : f[x] \in Int, \A x \in S \ W : f[x] = 0
  PROVE  Total(f, S) = Total(f, W)
<1> DEFINE Good == {T \in SUBSET S : Total(f, T) = Total(f, T \cap W)}
<1>1. {} \in Good
  OBVIOUS
<1>2. ASSUME NEW T \in SUBSET S, T # {}, \A x \in T : T \ {x} \in Good
      PROVE  T \in Good
  <2> DEFINE p == Pick(T)
             R == T \ {p}
  <2>1. IsFiniteSet(T) /\ IsFiniteSet(R) /\ IsFiniteSet(T \cap W)
    BY FS_Subset
  <2>2. p \in T
    BY <1>2, PickIsIn
  <2>3. Total(f, T) = f[p] + Total(f, R)
    BY <1>2, <2>1, TotalStep
  <2>4. Total(f, R) = Total(f, R \cap W)
    BY <1>2, <2>2
  <2>5. CASE p \in W
    <3>1. p \in T \cap W /\ (T \cap W) \ {p} = R \cap W
      BY <2>2, <2>5
    <3>2. \A x \in T \cap W : f[x] \in Int
      OBVIOUS
    <3> HIDE DEF p, R
    <3>3. Total(f, T \cap W) = f[p] + Total(f, (T \cap W) \ {p})
      BY <2>1, <3>1, <3>2, TotalRemove
    <3>4. Total(f, T) = Total(f, T \cap W)
      BY <2>3, <2>4, <3>1, <3>3
    <3> QED BY <3>4
  <2>6. CASE p \notin W
    <3>1. T \cap W = R \cap W /\ f[p] = 0
      BY <2>2, <2>6
    <3>2. \A x \in R : f[x] \in Int
      OBVIOUS
    <3> HIDE DEF p, R
    <3>3. Total(f, R) \in Int
      BY <2>1, <3>2, TotalType
    <3>4. Total(f, T \cap W) = Total(f, R \cap W)
      BY <3>1
    <3>5. Total(f, T) = Total(f, R)
      BY <2>3, <3>1, <3>3
    <3> QED BY <2>4, <3>4, <3>5
  <2> QED BY <2>5, <2>6
<1> HIDE DEF Good
<1>3. \A T \in SUBSET S : T \in Good
  BY <1>1, <1>2, SubsetInduction
<1>4. S \cap W = W
  OBVIOUS
<1> QED BY <1>3, <1>4 DEF Good

(* Sums of natural numbers are natural numbers, and none of the addends is *)
(* greater than the sum.                                                   *)
LEMMA TotalNat ==
  ASSUME NEW f, NEW S, IsFiniteSet(S), \A x \in S : f[x] \in Nat
  PROVE  Total(f, S) \in Nat /\ \A x \in S : f[x] <= Total(f, S)
<1> DEFINE Good == {T \in SUBSET S : Total(f, T) \in Nat}
<1>1. {} \in Good
  BY TotalEmpty
<1>2. ASSUME NEW T \in SUBSET S, T # {}, \A x \in T : T \ {x} \in Good
      PROVE  T \in Good
  <2>1. IsFiniteSet(T)
    BY FS_Subset
  <2>2. Pick(T) \in T /\ Total(f, T) = f[Pick(T)] + Total(f, T \ {Pick(T)})
    BY <1>2, <2>1, TotalStep
  <2>3. Total(f, T \ {Pick(T)}) \in Nat
    BY <1>2, <2>2
  <2> QED BY <2>2, <2>3
<1> HIDE DEF Good
<1>3. \A T \in SUBSET S : T \in Good
  BY <1>1, <1>2, SubsetInduction
<1>4. \A T \in SUBSET S : Total(f, T) \in Nat
  BY <1>3 DEF Good
<1>5. ASSUME NEW x \in S PROVE f[x] <= Total(f, S)
  <2>1. Total(f, S) = f[x] + Total(f, S \ {x})
    BY TotalRemove
  <2>2. Total(f, S \ {x}) \in Nat /\ f[x] \in Nat
    BY <1>4
  <2> QED BY <2>1, <2>2
<1> QED BY <1>4, <1>5

(* Counting is adding up ones.                                             *)
LEMMA TotalCounts ==
  ASSUME NEW S, IsFiniteSet(S), NEW W \in SUBSET S
  PROVE  Total([x \in S |-> IF x \in W THEN 1 ELSE 0], S) = Cardinality(W)
<1> DEFINE f == [x \in S |-> IF x \in W THEN 1 ELSE 0]
           Good == {T \in SUBSET W : Total(f, T) = Cardinality(T)}
<1>1. {} \in Good
  BY TotalEmpty, FS_EmptySet
<1>2. ASSUME NEW T \in SUBSET W, T # {}, \A x \in T : T \ {x} \in Good
      PROVE  T \in Good
  <2>1. IsFiniteSet(T)
    BY FS_Subset
  <2>2. Pick(T) \in T /\ Total(f, T) = f[Pick(T)] + Total(f, T \ {Pick(T)})
    BY <1>2, <2>1, TotalStep
  <2>3. Total(f, T \ {Pick(T)}) = Cardinality(T \ {Pick(T)}) /\ f[Pick(T)] = 1
    BY <1>2, <2>2
  <2>4. Cardinality(T \ {Pick(T)}) = Cardinality(T) - 1 /\ Cardinality(T) \in Nat
    BY <2>1, <2>2, FS_RemoveElement, FS_CardinalityType
  <2> QED BY <2>2, <2>3, <2>4
<1>3. IsFiniteSet(W)
  BY FS_Subset
<1>4. (\A x \in S : f[x] \in Int) /\ \A x \in S \ W : f[x] = 0
  OBVIOUS
<1> HIDE DEF Good, f
<1>5. W \in Good
  BY <1>1, <1>2, <1>3, SubsetInduction
<1>6. Total(f, S) = Total(f, W)
  BY <1>4, TotalOfSupport
<1> QED BY <1>5, <1>6 DEF Good, f

(* A common factor.                                                        *)
LEMMA TotalScale ==
  ASSUME NEW f, NEW h, NEW S, IsFiniteSet(S), NEW k \in Int,
         \A x \in S : f[x] \in Int /\ h[x] = k * f[x]
  PROVE  Total(h, S) = k * Total(f, S)
<1> DEFINE Good == {T \in SUBSET S : Total(h, T) = k * Total(f, T)}
<1>1. {} \in Good
  BY TotalEmpty
<1>2. ASSUME NEW T \in SUBSET S, T # {}, \A x \in T : T \ {x} \in Good
      PROVE  T \in Good
  <2> DEFINE p == Pick(T)
             R == T \ {p}
  <2>1. IsFiniteSet(T) /\ IsFiniteSet(R)
    BY FS_Subset
  <2>2. p \in T
    BY <1>2, PickIsIn
  <2>3. Total(f, T) = f[p] + Total(f, R)
    BY <1>2, <2>1, TotalStep
  <2>4. Total(h, T) = h[p] + Total(h, R)
    BY <1>2, <2>1, TotalStep
  <2>5. Total(h, R) = k * Total(f, R) /\ h[p] = k * f[p]
    BY <1>2, <2>2
  <2>6. Total(f, R) \in Int /\ f[p] \in Int
    BY <2>1, <2>2, TotalType
  <2>7. \A m, n \in Int : k * (m + n) = k * m + k * n
    OBVIOUS
  <2> HIDE DEF p, R
  <2>8. Total(h, T) = k * Total(f, T)
    BY <2>3, <2>4, <2>5, <2>6, <2>7
  <2> QED BY <2>8
<1> HIDE DEF Good
<1>3. \A T \in SUBSET S : T \in Good
  BY <1>1, <1>2, SubsetInduction
<1> QED BY <1>3 DEF Good

(* The sum over a single element, or over an interval and one more.        *)
LEMMA TotalSingle ==
  ASSUME NEW f, NEW x, f[x] \in Int
  PROVE  Total(f, {x}) = f[x]
<1>1. IsFiniteSet({x}) /\ x \in {x} /\ {x} \ {x} = {}
  BY FS_Singleton
<1>2. \A y \in {x} : f[y] \in Int
  OBVIOUS
<1>3. Total(f, {x}) = f[x] + Total(f, {x} \ {x})
  BY <1>1, <1>2, TotalRemove
<1> QED BY <1>1, <1>3, TotalEmpty

(* As many names as elements at most.                                      *)
LEMMA ImageIsFinite ==
  ASSUME NEW S, IsFiniteSet(S), NEW h
  PROVE  IsFiniteSet({h[x] : x \in S})
<1> DEFINE Image(T) == {h[x] : x \in T}
           Good == {T \in SUBSET S : IsFiniteSet(Image(T))}
<1>1. {} \in Good
  <2>1. Image({}) = {}
    OBVIOUS
  <2> QED BY <2>1, FS_EmptySet
<1>2. ASSUME NEW T \in SUBSET S, T # {}, \A x \in T : T \ {x} \in Good
      PROVE  T \in Good
  <2>1. PICK x \in T : IsFiniteSet(Image(T \ {x}))
    BY <1>2
  <2>2. Image(T) = Image(T \ {x}) \cup {h[x]}
    OBVIOUS
  <2> HIDE DEF Image
  <2> DEFINE I == Image(T \ {x})
             y == h[x]
  <2>3. IsFiniteSet(I \cup {y})
    <3> HIDE DEF I, y
    <3>1. IsFiniteSet(I)
      BY <2>1 DEF I
    <3> QED BY <3>1, FS_AddElement
  <2>4. IsFiniteSet(Image(T))
    BY <2>2, <2>3
  <2> QED BY <2>4
<1> HIDE DEF Good
<1>3. \A T \in SUBSET S : T \in Good
  BY <1>1, <1>2, SubsetInduction
<1> QED BY <1>3 DEF Good

(* The addends under other names.                                          *)
LEMMA TotalRename ==
  ASSUME NEW f, NEW g, NEW S, NEW h, IsFiniteSet(S),
         \A x \in S : f[x] \in Int /\ g[h[x]] = f[x],
         \A x, y \in S : h[x] = h[y] => x = y
  PROVE  Total(f, S) = Total(g, {h[x] : x \in S})
<1> DEFINE Image(T) == {h[x] : x \in T}
           Good == {T \in SUBSET S : Total(f, T) = Total(g, Image(T))}
<1>1. {} \in Good
  <2>1. Image({}) = {}
    OBVIOUS
  <2> QED BY <2>1, TotalEmpty
<1>2. ASSUME NEW T \in SUBSET S, T # {}, \A x \in T : T \ {x} \in Good
      PROVE  T \in Good
  <2> DEFINE p == Pick(T)
             R == T \ {p}
  <2>1. IsFiniteSet(T)
    BY FS_Subset
  <2>2. p \in T /\ Total(f, T) = f[p] + Total(f, R)
    BY <1>2, <2>1, TotalStep
  <2>3. Total(f, R) = Total(g, Image(R))
    BY <1>2, <2>2
  <2>4. Image(T) \ {h[p]} = Image(R) /\ h[p] \in Image(T)
    BY <2>2
  <2>5. IsFiniteSet(Image(T)) /\ \A y \in Image(T) : g[y] \in Int
    <3>1. \A y \in Image(T) : g[y] \in Int
      OBVIOUS
    <3> QED BY <2>1, <3>1, ImageIsFinite
  <2> HIDE DEF Image, p, R
  <2>6. Total(g, Image(T)) = g[h[p]] + Total(g, Image(T) \ {h[p]})
    BY <2>4, <2>5, TotalRemove
  <2>7. g[h[p]] = f[p]
    BY <2>2
  <2>8. Total(f, T) = Total(g, Image(T))
    BY <2>2, <2>3, <2>4, <2>6, <2>7
  <2> QED BY <2>8
<1> HIDE DEF Good
<1>3. \A T \in SUBSET S : T \in Good
  BY <1>1, <1>2, SubsetInduction
<1> QED BY <1>3 DEF Good

(* A table adds up to the same by rows and by columns.                     *)
LEMMA TotalSwap ==
  ASSUME NEW f, NEW S, NEW T, IsFiniteSet(S), IsFiniteSet(T),
         \A x \in S, y \in T : f[x][y] \in Int
  PROVE  Total([x \in S |-> Total([y \in T |-> f[x][y]], T)], S)
           = Total([y \in T |-> Total([x \in S |-> f[x][y]], S)], T)
<1> DEFINE Row(x) == [y \in T |-> f[x][y]]
           rows   == [x \in S |-> Total(Row(x), T)]
           Col(U, y) == Total([x \in S |-> f[x][y]], U)
           cols(U) == [y \in T |-> Col(U, y)]
           Good == {U \in SUBSET S : Total(rows, U) = Total(cols(U), T)}
<1>0. ASSUME NEW U \in SUBSET S, NEW y \in T PROVE Col(U, y) \in Int
  <2> DEFINE c == [x \in S |-> f[x][y]]
  <2>1. IsFiniteSet(U) /\ \A x \in U : c[x] \in Int
    BY FS_Subset
  <2> HIDE DEF c
  <2>2. Total(c, U) \in Int
    BY <2>1, TotalType
  <2> QED BY <2>2 DEF c
<1>1. {} \in Good
  <2>1. \A y \in T : cols({})[y] = 0
    BY TotalEmpty
  <2> HIDE DEF cols
  <2>2. Total(cols({}), T) = 0
    BY <2>1, TotalZero
  <2> QED BY <2>2, TotalEmpty
<1>2. ASSUME NEW U \in SUBSET S, U # {}, \A x \in U : U \ {x} \in Good
      PROVE  U \in Good
  <2> DEFINE p == Pick(U)
             R == U \ {p}
  <2>1. IsFiniteSet(U)
    BY FS_Subset
  <2>2. p \in U /\ Total(rows, U) = rows[p] + Total(rows, R)
    BY <1>2, <2>1, TotalStep
  <2>3. Total(rows, R) = Total(cols(R), T)
    BY <1>2, <2>2
  <2>4. rows[p] = Total(Row(p), T)
    BY <2>2
  <2>5. ASSUME NEW y \in T
        PROVE  /\ Row(p)[y] \in Int /\ cols(R)[y] \in Int
               /\ cols(U)[y] = Row(p)[y] + cols(R)[y]
    <3> DEFINE c == [x \in S |-> f[x][y]]
    <3>1. Row(p)[y] = c[p] /\ c[p] \in Int
      BY <2>2
    <3>2. cols(R)[y] \in Int
      BY <1>0
    <3>3. \A x \in U : c[x] \in Int
      OBVIOUS
    <3>4. cols(U)[y] = Total(c, U) /\ cols(R)[y] = Total(c, R)
      OBVIOUS
    <3> HIDE DEF c, cols, p
    <3>5. Total(c, U) = c[p] + Total(c, U \ {p})
      BY <2>1, <2>2, <3>3, TotalRemove
    <3> QED BY <3>1, <3>2, <3>4, <3>5
  <2> HIDE DEF p, R, rows, cols, Row
  <2>6. Total(cols(U), T) = Total(Row(p), T) + Total(cols(R), T)
    BY <2>5, TotalAdd
  <2>7. Total(rows, U) = Total(cols(U), T)
    BY <2>2, <2>3, <2>4, <2>6
  <2> QED BY <2>7
<1> HIDE DEF Good, rows, cols
<1>3. \A U \in SUBSET S : U \in Good
  BY <1>1, <1>2, SubsetInduction
<1>4. Total(rows, S) = Total(cols(S), T)
  BY <1>3 DEF Good
<1> QED BY <1>4 DEF rows, cols

(* An addend that occurs as often as the elements of a set say.            *)
LEMMA TotalRepeated ==
  ASSUME NEW S, IsFiniteSet(S), NEW W \in SUBSET S, NEW k \in Int
  PROVE  Total([x \in S |-> IF x \in W THEN k ELSE 0], S) = k * Cardinality(W)
<1> DEFINE f == [x \in S |-> IF x \in W THEN 1 ELSE 0]
           h == [x \in S |-> IF x \in W THEN k ELSE 0]
<1>1. \A x \in S : f[x] \in Int /\ h[x] = k * f[x]
  OBVIOUS
<1>2. Total(f, S) = Cardinality(W)
  BY TotalCounts
<1> HIDE DEF f, h
<1>3. Total(h, S) = k * Total(f, S)
  BY <1>1, TotalScale
<1> QED BY <1>2, <1>3 DEF h

(* A sum over two sets without a common element.                           *)
LEMMA TotalUnion ==
  ASSUME NEW f, NEW S, IsFiniteSet(S), NEW T, IsFiniteSet(T), S \cap T = {},
         \A x \in S \cup T : f[x] \in Int
  PROVE  Total(f, S \cup T) = Total(f, S) + Total(f, T)
<1> DEFINE U == S \cup T
           g == [x \in U |-> IF x \in S THEN f[x] ELSE 0]
           h == [x \in U |-> IF x \in T THEN f[x] ELSE 0]
           k == [x \in U |-> f[x]]
<1>1. IsFiniteSet(U)
  BY FS_Union
<1>2. \A x \in U : g[x] \in Int /\ h[x] \in Int /\ k[x] = g[x] + h[x]
  OBVIOUS
<1>3. (\A x \in U : k[x] = f[x]) /\ (\A x \in S : g[x] = f[x]) /\ (\A x \in T : h[x] = f[x])
  OBVIOUS
<1>4. S \in SUBSET U /\ T \in SUBSET U
      /\ (\A x \in U \ S : g[x] = 0) /\ (\A x \in U \ T : h[x] = 0)
  OBVIOUS
<1> HIDE DEF g, h, k, U
<1>5. Total(k, U) = Total(g, U) + Total(h, U)
  BY <1>1, <1>2, TotalAdd
<1>6. Total(k, U) = Total(f, U)
  BY <1>1, <1>3, TotalCongruence
<1>7. Total(g, U) = Total(g, S) /\ Total(h, U) = Total(h, T)
  BY <1>1, <1>2, <1>4, TotalOfSupport
<1>8. Total(g, S) = Total(f, S) /\ Total(h, T) = Total(f, T)
  BY <1>3, TotalCongruence
<1> QED BY <1>5, <1>6, <1>7, <1>8 DEF U

(* Fewer addends that are not negative, no greater sum.                    *)
LEMMA TotalSubset ==
  ASSUME NEW f, NEW S, IsFiniteSet(S), NEW T \in SUBSET S, \A x \in S : f[x] \in Nat
  PROVE  Total(f, T) <= Total(f, S)
<1> DEFINE rest == S \ T
<1>1. IsFiniteSet(T) /\ IsFiniteSet(rest)
  BY FS_Subset
<1>2. T \cap rest = {} /\ T \cup rest = S
  OBVIOUS
<1>3. (\A x \in T : f[x] \in Nat) /\ \A x \in rest : f[x] \in Nat
  OBVIOUS
<1> HIDE DEF rest
<1>4. Total(f, T \cup rest) = Total(f, T) + Total(f, rest)
  BY <1>1, <1>2, TotalUnion
<1>5. Total(f, T) \in Nat /\ Total(f, rest) \in Nat
  BY <1>1, <1>3, TotalNat
<1>6. Total(f, S) = Total(f, T) + Total(f, rest)
  BY <1>2, <1>4
<1> QED BY <1>5, <1>6
-----------------------------------------------------------------------------
(* The least and the greatest of finitely many integers.                   *)
LEMMA MinOfInts ==
  ASSUME NEW T, T \subseteq Int, IsFiniteSet(T), T # {}
  PROVE  Min(T) \in T /\ \A y \in T : Min(T) <= y
<1> DEFINE Below(x) == {y \in T : y < x}
           Belows == {Below(x) : x \in T}
<1>1. IsWellFoundedOn(StrictSubsetOrdering(T), SUBSET T)
  BY FS_FiniteSubsetsOfFinite, FS_StrictSubsetOrderingWellFounded
<1>2. Belows \subseteq SUBSET T /\ Belows # {}
  OBVIOUS
<1>3. PICK B \in Belows : \A C \in Belows : <<C, B>> \notin StrictSubsetOrdering(T)
  <2> HIDE DEF Belows
  <2> QED BY <1>1, <1>2, WFMin
<1>4. PICK x \in T : B = Below(x)
  OBVIOUS
<1>5. ASSUME NEW y \in T, y < x
      PROVE  FALSE
  <2>1. \A z \in T : z < y => z < x
    BY <1>5
  <2>2. Below(y) \subseteq Below(x)
    BY <2>1
  <2>3. y \in Below(x) /\ y \notin Below(y)
    BY <1>5
  <2>4. <<Below(y), B>> \in StrictSubsetOrdering(T)
    BY <1>4, <2>2, <2>3 DEF StrictSubsetOrdering
  <2> QED BY <1>3, <2>4
<1>6. \A y \in T : x <= y
  BY <1>5
<1> QED BY <1>6 DEF Min

(* The same for the greatest.                                              *)
LEMMA MaxOfInts ==
  ASSUME NEW T, T \subseteq Int, IsFiniteSet(T), T # {}
  PROVE  Max(T) \in T /\ \A y \in T : y <= Max(T)
<1> DEFINE minus == [x \in T |-> 0 - x]
           N == {minus[x] : x \in T}
<1>1. N \subseteq Int /\ N # {}
  <2>1. \A x \in T : minus[x] \in Int
    OBVIOUS
  <2> HIDE DEF minus
  <2> QED BY <2>1
<1>2. IsFiniteSet(N)
  <2> HIDE DEF minus
  <2> QED BY ImageIsFinite
<1> HIDE DEF N
<1>3. Min(N) \in N /\ \A y \in N : Min(N) <= y
  BY <1>1, <1>2, MinOfInts
<1>4. PICK x \in T : Min(N) = 0 - x
  BY <1>3 DEF N
<1>5. ASSUME NEW y \in T PROVE y <= x
  <2>1. 0 - y \in N
    BY DEF N
  <2>2. 0 - x <= 0 - y
    BY <1>3, <1>4, <2>1
  <2> QED BY <2>2
<1> QED BY <1>5 DEF Max
=============================================================================
