------------------------- MODULE RatingsLedgerProofs -------------------------
(***************************************************************************)
(* The books of the ratings are right in every behaviour, for every set of *)
(* raters, targets, requests and connections.                              *)
(***************************************************************************)
EXTENDS RatingsLedger, SumTheorems

\* What an open request rates is what it has been asked for.
OpenOK(s) ==
  IF Open(s) THEN /\ req[s] \in Requests
                  /\ todo[s] \subseteq req[s].on /\ rated[s] \subseteq req[s].on
                  /\ req[s].kind = "edit" => todo[s] = {}
             ELSE todo[s] = {} /\ rated[s] = {} /\ owed[s] = Zeros /\ paid[s] = 0

\* The ratings that an edit has read are the present ones: it holds the row.
EditOK(s) ==
  Open(s) /\ req[s].kind = "edit" =>
    \A t \in rated[s] : seen[s][t] = rating[RaterOf[s]][t]

\* What the request owes for the targets it is going to commit.
Charged(s) == [t \in Targets |-> IF t \in rated[s] THEN owed[s][t] ELSE 0]

\* The balance is charged with what is owed for the targets that are rated.
PaidOK(s) ==
  /\ paid[s] = Total(Charged(s), Targets)
  /\ \A t \in todo[s] : owed[s][t] = 0 /\ (t \in rated[s] <=> req[s].kind = "bulkRep")

\* Whatever the request has charged, the balance stays within the allowance.
AllowanceOK(s) ==
  spent[RaterOf[s]] \in 0 .. Allowance /\ spent[RaterOf[s]] + paid[s] \in 0 .. Allowance

\* The rater's ratings if request s were to commit now.
Outcome(s) ==
  [t \in Targets |-> IF t \in rated[s] THEN NewRating(s, t) ELSE rating[RaterOf[s]][t]]

\* A request that is not stale has seen the present ratings ...
SeenOK(s) ==
  Open(s) /\ s \notin stale =>
    \A t \in Targets : req[s].kind = "bulkRate" \/ t \in req[s].on =>
      seen[s][t] = rating[RaterOf[s]][t]

\* ... and leaves its rater within the credit.
OutcomeOK(s) ==
  Open(s) /\ s \notin stale /\ RaterOf[s] \notin excused =>
    Spending(Outcome(s)) <= credit[RaterOf[s]]

RequestOK(s) ==
  OpenOK(s) /\ EditOK(s) /\ PaidOK(s) /\ AllowanceOK(s) /\ SeenOK(s) /\ OutcomeOK(s)

\* One request of a rater at a time has charged the balance.
ActionOK(s, q) == s # q /\ RaterOf[s] = RaterOf[q] => paid[s] = 0 \/ paid[q] = 0

RequestsOK ==
  /\ \A s \in Sessions : RequestOK(s)
  /\ \A s, q \in Sessions : ActionOK(s, q)

\* What the over-rates Lambda knows of raters that have not moved is true.
JobOK ==
  /\ jpc = "read" => tally[jrater] > 0
  /\ jpc # "idle" =>
       \A r \in Raters \ jmoved : tally[r] > 0 =>
         tally[r] = Spending(rating[r]) /\ jcredit[r] = credit[r]
  /\ jpc = "read" /\ jrater \notin jmoved => jseen = rating[jrater]

BooksOK == RepIsTheSum /\ AggregationsAreExact /\ CreditKept /\ ProxyBooksBalance

LedgerInv == TypeOK /\ RequestsOK /\ JobOK /\ BooksOK
-----------------------------------------------------------------------------
(* Bags of events.                                                         *)

(* The number of copies of an element is a natural number.                 *)
LEMMA CopiesType ==
  ASSUME NEW B, IsABag(B), NEW e PROVE Copies(e, B) \in Nat
BY DEF IsABag, Copies, BagIn, BagToSet

(* Adding one copy of each element of a set.                               *)
LEMMA BagPlusSet ==
  ASSUME NEW A, IsABag(A), NEW S
  PROVE  /\ IsABag(A (+) SetToBag(S))
         /\ BagToSet(A (+) SetToBag(S)) = BagToSet(A) \cup S
         /\ \A e : Copies(e, A (+) SetToBag(S)) = Copies(e, A) + IF e \in S THEN 1 ELSE 0
BY DEF IsABag, BagToSet, SetToBag, Copies, BagIn, (+)

(* Taking away a bag that is contained in another.                         *)
LEMMA BagMinus ==
  ASSUME NEW A, IsABag(A), NEW B, IsABag(B),
         \A e : Copies(e, B) <= Copies(e, A)
  PROVE  /\ IsABag(A (-) B)
         /\ BagToSet(A (-) B) \subseteq BagToSet(A)
         /\ \A e : Copies(e, A (-) B) = Copies(e, A) - Copies(e, B)
BY DEF IsABag, BagToSet, Copies, BagIn, (-)

\* What the events on target t in a bag add up to, an event weighing w[e].
Gain(B, t, w) ==
  Total([e \in EventsOf(B, t) |-> Copies(e, B) * w[e]], EventsOf(B, t))

(* The sum may as well be taken over other events on the target.           *)
LEMMA GainOver ==
  ASSUME NEW B, IsABag(B), NEW t, NEW D, IsFiniteSet(D),
         EventsOf(B, t) \subseteq D, \A e \in D : e.target = t,
         NEW w, \A e \in D : w[e] \in Int
  PROVE  Gain(B, t, w) = Total([e \in D |-> Copies(e, B) * w[e]], D)
<1> DEFINE E == EventsOf(B, t)
           f == [e \in D |-> Copies(e, B) * w[e]]
           g == [e \in E |-> Copies(e, B) * w[e]]
<1>1. \A e \in D : Copies(e, B) * w[e] \in Int
  BY CopiesType
<1>2. \A e \in D \ E : Copies(e, B) = 0
  BY DEF EventsOf, Copies, BagIn
<1>3. \A e \in D \ E : Copies(e, B) * w[e] = 0
  BY <1>2
<1>4. Total(f, D) = Total(f, E)
  BY <1>1, <1>3, TotalOfSupport
<1>5. IsFiniteSet(E)
  BY FS_Subset
<1>6. \A e \in E : f[e] = g[e]
  OBVIOUS
<1> HIDE DEF f, g, E
<1>7. Total(f, E) = Total(g, E)
  BY <1>5, <1>6, TotalCongruence
<1> QED BY <1>4, <1>7 DEF Gain, f, g, E

(* Events that are taken out of the bag take their part of the sum along.  *)
LEMMA GainMinus ==
  ASSUME NEW A, IsABag(A), IsFiniteSet(BagToSet(A)), NEW B, IsABag(B),
         \A e : Copies(e, B) <= Copies(e, A),
         NEW t, NEW w, \A e \in BagToSet(A) : w[e] \in Int
  PROVE  Gain(A (-) B, t, w) = Gain(A, t, w) - Gain(B, t, w)
<1> DEFINE D == EventsOf(A, t)
           C == A (-) B
           a == [e \in D |-> Copies(e, A) * w[e]]
           b == [e \in D |-> Copies(e, B) * w[e]]
           c == [e \in D |-> Copies(e, C) * w[e]]
<1>1. IsFiniteSet(D) /\ (\A e \in D : e.target = t) /\ \A e \in D : w[e] \in Int
  BY FS_Subset DEF EventsOf
<1>2. IsABag(C) /\ BagToSet(C) \subseteq BagToSet(A) /\ \A e : Copies(e, C) = Copies(e, A) - Copies(e, B)
  BY BagMinus
<1>3. \A e \in BagToSet(B) : Copies(e, B) > 0
  BY DEF IsABag, Copies, BagIn, BagToSet
<1>4. \A e : e \notin BagToSet(A) => Copies(e, A) = 0
  BY DEF Copies, BagIn
<1>5. ASSUME NEW e \in BagToSet(B) PROVE e \in BagToSet(A)
  <2>1. Copies(e, B) \in Nat /\ Copies(e, B) > 0 /\ Copies(e, B) <= Copies(e, A)
    BY <1>3, CopiesType
  <2>2. Copies(e, A) # 0
    BY <2>1
  <2> QED BY <1>4, <2>2
<1>6. EventsOf(B, t) \subseteq D /\ EventsOf(C, t) \subseteq D
  BY <1>2, <1>5 DEF EventsOf
<1>7. \A e \in D : a[e] \in Int /\ b[e] \in Int /\ c[e] \in Int /\ a[e] = b[e] + c[e]
  <2> TAKE e \in D
  <2>1. Copies(e, A) \in Int /\ Copies(e, B) \in Int /\ Copies(e, C) \in Int /\ w[e] \in Int
    BY <1>1, <1>2, CopiesType
  <2>2. Copies(e, C) = Copies(e, A) - Copies(e, B)
    BY <1>2
  <2>3. \A m, n, k \in Int : m * k = n * k + (m - n) * k
    OBVIOUS
  <2> HIDE DEF C, D
  <2> QED BY <2>1, <2>2, <2>3
<1>8. Gain(A, t, w) = Total(a, D)
  BY <1>1, GainOver
<1> HIDE DEF C, D
<1>9. Gain(B, t, w) = Total(b, D)
  BY <1>1, <1>6, GainOver
<1>10. Gain(C, t, w) = Total(c, D)
  BY <1>1, <1>2, <1>6, GainOver
<1> HIDE DEF a, b, c
<1>11. Total(a, D) = Total(b, D) + Total(c, D)
  BY <1>1, <1>7, TotalAdd
<1>12. Total(b, D) \in Int /\ Total(c, D) \in Int
  BY <1>1, <1>7, TotalType
<1> QED BY <1>8, <1>9, <1>10, <1>11, <1>12 DEF C

(* Events on other targets do not count.                                   *)
LEMMA GainElsewhere ==
  ASSUME NEW A, IsABag(A), IsFiniteSet(BagToSet(A)), NEW S,
         NEW t, \A e \in S : e.target # t, NEW w, \A e \in BagToSet(A) : w[e] \in Int
  PROVE  Gain(A (+) SetToBag(S), t, w) = Gain(A, t, w)
<1> DEFINE C == A (+) SetToBag(S)
           D == EventsOf(A, t)
<1>1. IsABag(C) /\ BagToSet(C) = BagToSet(A) \cup S
      /\ \A e : Copies(e, C) = Copies(e, A) + IF e \in S THEN 1 ELSE 0
  BY BagPlusSet
<1>2. EventsOf(C, t) = D
  BY <1>1 DEF EventsOf
<1>3. \A e \in D : Copies(e, C) = Copies(e, A)
  BY <1>1, CopiesType DEF EventsOf
<1> HIDE DEF C
<1>4. [e \in D |-> Copies(e, C) * w[e]] = [e \in D |-> Copies(e, A) * w[e]]
  BY <1>3
<1> QED BY <1>2, <1>4 DEF Gain, C

(* The only new event on the target adds its weight.                       *)
LEMMA GainPlus ==
  ASSUME NEW A, IsABag(A), IsFiniteSet(BagToSet(A)), NEW S,
         NEW x \in S, \A e \in S : e.target = x.target => e = x,
         NEW w, \A e \in BagToSet(A) \cup {x} : w[e] \in Int
  PROVE  Gain(A (+) SetToBag(S), x.target, w) = Gain(A, x.target, w) + w[x]
<1> DEFINE t == x.target
           C == A (+) SetToBag(S)
           D == EventsOf(A, t) \cup {x}
           a == [e \in D |-> Copies(e, A) * w[e]]
           c == [e \in D |-> Copies(e, C) * w[e]]
<1>1. IsABag(C) /\ BagToSet(C) = BagToSet(A) \cup S
      /\ \A e : Copies(e, C) = Copies(e, A) + IF e \in S THEN 1 ELSE 0
  BY BagPlusSet
<1>2. IsFiniteSet(D)
  <2>1. IsFiniteSet(EventsOf(A, t))
    BY FS_Subset DEF EventsOf
  <2> QED BY <2>1, FS_AddElement
<1>3. (\A e \in D : e.target = t) /\ EventsOf(A, t) \subseteq D /\ EventsOf(C, t) \subseteq D
  BY <1>1 DEF EventsOf
<1>4. \A e \in D : w[e] \in Int
  BY DEF EventsOf
<1>5. \A e \in D \ {x} : e \notin S
  BY <1>3
<1>6. \A e \in D : Copies(e, A) \in Int /\ Copies(e, C) \in Int
  BY <1>1, CopiesType
<1>7. (\A e \in D \ {x} : Copies(e, C) = Copies(e, A)) /\ Copies(x, C) = Copies(x, A) + 1
  BY <1>1, <1>5, <1>6
<1>8. x \in D
  OBVIOUS
<1> HIDE DEF C, D, t
<1>9. Gain(A, t, w) = Total(a, D) /\ Gain(C, t, w) = Total(c, D)
  BY <1>1, <1>2, <1>3, <1>4, GainOver
<1>10. \A e \in D : a[e] \in Int /\ c[e] \in Int
  BY <1>4, <1>6
<1>11. \A e \in D \ {x} : a[e] = c[e]
  BY <1>7
<1>12. c[x] = a[x] + w[x]
  <2>1. \A n, k \in Int : (n + 1) * k = n * k + k
    OBVIOUS
  <2> QED BY <1>4, <1>6, <1>7, <1>8, <2>1
<1>13. w[x] \in Int
  BY <1>4, <1>8
<1> HIDE DEF a, c
<1>14. Total(c, D) = Total(a, D) + c[x] - a[x]
  BY <1>2, <1>8, <1>10, <1>11, TotalChange
<1>15. Total(a, D) \in Int /\ a[x] \in Int
  BY <1>2, <1>8, <1>10, TotalType
<1> QED BY <1>9, <1>12, <1>13, <1>14, <1>15 DEF C, t
-----------------------------------------------------------------------------
(* Rows of ratings.                                                        *)

(* Absolute values and spendings are natural numbers.                      *)
LEMMA SpendingType ==
  ASSUME NEW row \in [Targets -> Int] PROVE Spending(row) \in Nat
<1>1. \A t \in Targets : [u \in Targets |-> Abs(row[u])][t] \in Nat
  BY DEF Abs
<1> QED BY <1>1, ConstantsAssumption, TotalNat DEF Spending

(* A rating that changes changes the spending by as much.                  *)
LEMMA SpendingChange ==
  ASSUME NEW a \in [Targets -> Int], NEW b \in [Targets -> Int], NEW t \in Targets,
         \A u \in Targets \ {t} : a[u] = b[u]
  PROVE  Spending(b) = Spending(a) + Abs(b[t]) - Abs(a[t])
<1> DEFINE f == [u \in Targets |-> Abs(a[u])]
           g == [u \in Targets |-> Abs(b[u])]
<1>1. \A u \in Targets : f[u] \in Int /\ g[u] \in Int
  BY DEF Abs
<1>2. \A u \in Targets \ {t} : f[u] = g[u]
  OBVIOUS
<1>3. f[t] = Abs(a[t]) /\ g[t] = Abs(b[t])
  OBVIOUS
<1> HIDE DEF f, g
<1>4. Total(g, Targets) = Total(f, Targets) + g[t] - f[t]
  BY <1>1, <1>2, ConstantsAssumption, TotalChange
<1> QED BY <1>3, <1>4 DEF Spending, f, g

(* So do several: the sum of the changes.                                  *)
LEMMA SpendingChanges ==
  ASSUME NEW a \in [Targets -> Int], NEW b \in [Targets -> Int],
         NEW T \in SUBSET Targets, \A u \in Targets \ T : a[u] = b[u]
  PROVE  Spending(b) = Spending(a) + Total([t \in T |-> Abs(b[t]) - Abs(a[t])], T)
<1> DEFINE f == [u \in Targets |-> Abs(a[u])]
           h == [u \in Targets |-> Abs(b[u])]
           g == [u \in Targets |-> Abs(b[u]) - Abs(a[u])]
           k == [t \in T |-> Abs(b[t]) - Abs(a[t])]
<1>1. \A u \in Targets : f[u] \in Int /\ g[u] \in Int /\ h[u] = f[u] + g[u]
  BY DEF Abs
<1>2. \A u \in Targets \ T : g[u] = 0
  BY DEF Abs
<1>3. \A u \in T : g[u] = k[u]
  OBVIOUS
<1>4. IsFiniteSet(T)
  BY ConstantsAssumption, FS_Subset
<1> HIDE DEF f, g, h, k
<1>5. Total(h, Targets) = Total(f, Targets) + Total(g, Targets)
  BY <1>1, ConstantsAssumption, TotalAdd
<1>6. Total(g, Targets) = Total(g, T)
  BY <1>1, <1>2, ConstantsAssumption, TotalOfSupport
<1>7. Total(g, T) = Total(k, T)
  BY <1>3, <1>4, TotalCongruence
<1> QED BY <1>5, <1>6, <1>7 DEF Spending, f, h, k
-----------------------------------------------------------------------------
(* Requests.                                                               *)

\* What session q's request consists of.
RequestKept(q) ==
  /\ pc'[q] = pc[q] /\ req'[q] = req[q] /\ seen'[q] = seen[q] /\ todo'[q] = todo[q]
  /\ rated'[q] = rated[q] /\ owed'[q] = owed[q] /\ paid'[q] = paid[q]

(* A request is as right as before when neither it nor its rater changes.  *)
LEMMA RequestFrame ==
  ASSUME NEW q \in Sessions, RequestOK(q), RequestKept(q),
         q \in stale => q \in stale', RaterOf[q] \in excused => RaterOf[q] \in excused',
         rating'[RaterOf[q]] = rating[RaterOf[q]], spent'[RaterOf[q]] = spent[RaterOf[q]],
         Open(q) /\ q \notin stale' => credit'[RaterOf[q]] = credit[RaterOf[q]]
  PROVE  RequestOK(q)'
<1>1. Open(q)' = Open(q)
  BY DEF Open, RequestKept
<1>2. Charged(q)' = Charged(q)
  BY DEF Charged, RequestKept
<1>3. Outcome(q)' = Outcome(q)
  <2>1. \A t \in Targets : NewRating(q, t)' = NewRating(q, t)
    BY DEF NewRating, RequestKept
  <2> QED BY <2>1 DEF Outcome, RequestKept
<1>4. OpenOK(q)'
  BY <1>1 DEF RequestOK, OpenOK, RequestKept
<1>5. EditOK(q)'
  BY <1>1 DEF RequestOK, EditOK, RequestKept
<1>6. PaidOK(q)'
  BY <1>2 DEF RequestOK, PaidOK, RequestKept
<1>7. AllowanceOK(q)'
  BY DEF RequestOK, AllowanceOK, RequestKept
<1>8. SeenOK(q)'
  BY <1>1 DEF RequestOK, SeenOK, RequestKept
<1>9. OutcomeOK(q)'
  BY <1>1, <1>3 DEF RequestOK, OutcomeOK
<1> QED BY <1>4, <1>5, <1>6, <1>7, <1>8, <1>9 DEF RequestOK

(* The rest is as right as before when a request has not written yet.      *)
LEMMA UnwrittenFrame ==
  ASSUME LedgerInv, Unwritten, UNCHANGED <<due, jobVars, txVars>>
  PROVE  LedgerTypeOK' /\ JobTypeOK' /\ EventsTypeOK' /\ JobOK' /\ BooksOK'
<1> USE DEF Unwritten, ledger, outbox, books, jobVars, txVars
<1>1. LedgerTypeOK' /\ JobTypeOK'
  BY DEF LedgerInv, TypeOK, LedgerTypeOK, JobTypeOK
<1>2. EventsTypeOK'
  BY DEF LedgerInv, TypeOK, EventsTypeOK, Locked
<1>3. JobOK'
  BY DEF LedgerInv, JobOK
<1>4. RepIsTheSum' /\ CreditKept' /\ ProxyBooksBalance'
  BY DEF LedgerInv, BooksOK, RepIsTheSum, CreditKept, ProxyBooksBalance, Received
<1>5. AggregationsAreExact'
  BY DEF LedgerInv, BooksOK, AggregationsAreExact, Received
<1> QED BY <1>1, <1>2, <1>3, <1>4, <1>5 DEF BooksOK

(* A step of one request that writes nothing yet.                          *)
LEMMA RequestStep ==
  ASSUME LedgerInv, Unwritten, UNCHANGED <<due, jobVars, txVars>>,
         NEW s \in Sessions, RequestsTypeOK', faults' \in 0 .. MaxFaults, stale' \subseteq Sessions,
         \A q \in Sessions \ {s} : RequestKept(q) /\ (q \in stale => q \in stale'),
         RequestOK(s)', \A q \in Sessions \ {s} : RaterOf[s] = RaterOf[q] => paid'[s] = 0 \/ paid[q] = 0
  PROVE  LedgerInv'
<1>1. LedgerTypeOK' /\ JobTypeOK' /\ EventsTypeOK' /\ JobOK' /\ BooksOK'
  BY UnwrittenFrame
<1>2. GhostsTypeOK'
  BY DEF LedgerInv, TypeOK, GhostsTypeOK, Unwritten
<1>3. ASSUME NEW q \in Sessions PROVE RequestOK(q)'
  <2>1. CASE q = s
    BY <2>1
  <2>2. CASE q # s
    <3>1. RequestOK(q) /\ RequestKept(q) /\ (q \in stale => q \in stale')
      BY <2>2 DEF LedgerInv, RequestsOK
    <3> QED BY <3>1, RequestFrame DEF Unwritten, ledger, books
  <2> QED BY <2>1, <2>2
<1>4. ASSUME NEW p \in Sessions, NEW q \in Sessions PROVE ActionOK(p, q)'
  <2>1. ActionOK(p, q)
    BY DEF LedgerInv, RequestsOK
  <2>2. \A u \in Sessions \ {s} : paid'[u] = paid[u]
    BY DEF RequestKept
  <2> QED BY <2>1, <2>2 DEF ActionOK
<1> QED BY <1>1, <1>2, <1>3, <1>4 DEF LedgerInv, TypeOK, RequestsOK

(* A request that has ended.                                               *)
LEMMA EndedRequest ==
  ASSUME RequestsTypeOK, NEW s \in Sessions,
         NEW o \in {"done", "refused", "mismatch"}, EndRequest(s, o)
  PROVE  /\ RequestsTypeOK'
         /\ \A q \in Sessions \ {s} : RequestKept(q)
         /\ paid'[s] = 0
         /\ spent'[RaterOf[s]] \in 0 .. Allowance => RequestOK(s)'
<1>1. RequestsTypeOK'
  <2>1. Zeros \in [Targets -> Int]
    BY DEF Zeros
  <2> QED BY <2>1 DEF RequestsTypeOK, EndRequest
<1>2. \A q \in Sessions \ {s} : RequestKept(q)
  BY DEF RequestsTypeOK, EndRequest, RequestKept
<1>3. /\ pc'[s] = o /\ todo'[s] = {} /\ rated'[s] = {} /\ owed'[s] = Zeros /\ paid'[s] = 0
  BY DEF RequestsTypeOK, EndRequest
<1>4. ~Open(s)'
  BY <1>3 DEF Open
<1>5. Total(Charged(s)', Targets) = 0
  BY <1>3, ConstantsAssumption, TotalZero DEF Charged
<1>6. spent'[RaterOf[s]] \in 0 .. Allowance => RequestOK(s)'
  <2>1. OpenOK(s)' /\ EditOK(s)' /\ SeenOK(s)' /\ OutcomeOK(s)'
    BY <1>3, <1>4 DEF OpenOK, EditOK, SeenOK, OutcomeOK
  <2>2. PaidOK(s)'
    BY <1>3, <1>5 DEF PaidOK
  <2>3. spent'[RaterOf[s]] \in 0 .. Allowance => AllowanceOK(s)'
    BY <1>3 DEF AllowanceOK
  <2> QED BY <2>1, <2>2, <2>3 DEF RequestOK
<1> QED BY <1>1, <1>2, <1>3, <1>6

(* A request that fails takes nothing with it.                             *)
LEMMA RollBackStep ==
  ASSUME LedgerInv, NEW s \in Sessions, NEW o \in {"refused", "mismatch"}, RollBack(s, o),
         UNCHANGED <<due, jobVars, txVars>>, faults' \in 0 .. MaxFaults
  PROVE  LedgerInv'
<1>1. RequestsTypeOK /\ EndRequest(s, o)
  BY DEF LedgerInv, TypeOK, RollBack
<1>2. /\ RequestsTypeOK' /\ paid'[s] = 0
      /\ \A q \in Sessions \ {s} : RequestKept(q)
      /\ spent'[RaterOf[s]] \in 0 .. Allowance => RequestOK(s)'
  BY <1>1, EndedRequest
<1>3. Unwritten
  BY DEF RollBack, Unwritten
<1>4. spent'[RaterOf[s]] \in 0 .. Allowance
  BY <1>3 DEF LedgerInv, RequestsOK, RequestOK, AllowanceOK, Unwritten, books
<1>5. stale' \subseteq Sessions /\ \A q \in Sessions \ {s} : q \in stale => q \in stale'
  BY DEF RollBack, LedgerInv, TypeOK, GhostsTypeOK
<1> QED BY <1>2, <1>3, <1>4, <1>5, RequestStep

(* Requests are what clients may ask for.                                  *)
LEMMA RequestTyped ==
  ASSUME NEW q \in Requests
  PROVE  /\ q.kind \in {"edit", "bulkRate", "bulkRep"} /\ q.on \in SUBSET Targets
         /\ q.amount \in Int /\ q.proxy \in BOOLEAN
BY ConstantsAssumption DEF RequestType

(* A charge is an integer, and 0 for requests of no proxy.                 *)
LEMMA ChargeType ==
  ASSUME LedgerTypeOK, NEW q, NEW r \in Raters, NEW t \in Targets,
         NEW old \in Int, NEW n \in Int
  PROVE  Charge(q, r, t, old, n) \in Int /\ (~q.proxy => Charge(q, r, t, old, n) = 0)
<1>1. Abs(n) - Abs(old) \in Int /\ outstanding[r][t] \in Int
  BY DEF Abs, LedgerTypeOK
<1>2. \A d \in Int : Applied(r, t, d) \in Int
  BY <1>1 DEF Applied, Least
<1> QED BY <1>1, <1>2 DEF Charge

(* A charge that is booked keeps the balance within the allowance, and is  *)
(* the only one under way for the rater.                                   *)
LEMMA ChargeFits ==
  ASSUME LedgerInv, NEW s \in Sessions, NEW a \in Int, Booked(s, a), a # 0 => ActionFree(s)
  PROVE  /\ spent[RaterOf[s]] + (paid[s] + a) \in 0 .. Allowance
         /\ \A q \in Sessions \ {s} : RaterOf[s] = RaterOf[q] => paid[s] + a = 0 \/ paid[q] = 0
<1>1. AllowanceOK(s) /\ Allowance \in Nat
  BY ConstantsAssumption DEF LedgerInv, RequestsOK, RequestOK
<1>2. spent[RaterOf[s]] \in Int /\ paid[s] \in Int
  BY ConstantsAssumption DEF LedgerInv, TypeOK, LedgerTypeOK, RequestsTypeOK
<1>3. spent[RaterOf[s]] + (paid[s] + a) \in 0 .. Allowance
  BY <1>1, <1>2 DEF AllowanceOK, Booked
<1>4. ASSUME NEW q \in Sessions \ {s}, RaterOf[s] = RaterOf[q]
      PROVE  paid[s] + a = 0 \/ paid[q] = 0
  <2>1. ActionOK(s, q) /\ OpenOK(q)
    BY DEF LedgerInv, RequestsOK, RequestOK
  <2>2. CASE a = 0
    BY <2>1, <2>2, <1>2, <1>4 DEF ActionOK
  <2>3. CASE a # 0
    BY <2>1, <2>3, <1>4 DEF ActionFree, HoldsAction, OpenOK
  <2> QED BY <2>2, <2>3
<1> QED BY <1>3, <1>4

(* What is owed grows by the charge for a target that joins.               *)
LEMMA ChargedMore ==
  ASSUME RequestsTypeOK, RequestsTypeOK', NEW s \in Sessions, NEW t \in Targets,
         Charged(s)[t] = 0, t \in rated'[s],
         \A u \in Targets \ {t} : owed'[s][u] = owed[s][u] /\ (u \in rated'[s] <=> u \in rated[s])
  PROVE  Total(Charged(s)', Targets) = Total(Charged(s), Targets) + owed'[s][t]
<1> DEFINE f == Charged(s)
           g == Charged(s)'
<1>1. \A u \in Targets : f[u] \in Int /\ g[u] \in Int
  BY DEF RequestsTypeOK, Charged
<1>2. \A u \in Targets \ {t} : f[u] = g[u]
  BY DEF Charged
<1>3. g[t] = owed'[s][t] /\ f[t] = 0
  BY DEF Charged
<1> HIDE DEF f, g
<1>4. Total(g, Targets) = Total(f, Targets) + g[t] - f[t]
  BY <1>1, <1>2, ConstantsAssumption, TotalChange
<1>5. Total(f, Targets) \in Int /\ g[t] \in Int
  BY <1>1, ConstantsAssumption, TotalType
<1> QED BY <1>3, <1>4, <1>5 DEF f, g

(* The rows of the database and of a request.                              *)
LEMMA RowTypes ==
  ASSUME TypeOK, NEW s \in Sessions
  PROVE  /\ RaterOf[s] \in Raters
         /\ rating[RaterOf[s]] \in [Targets -> Int] /\ credit[RaterOf[s]] \in Nat
         /\ seen[s] \in [Targets -> Int] /\ owed[s] \in [Targets -> Int]
         /\ paid[s] \in Int /\ rated[s] \in SUBSET Targets /\ todo[s] \in SUBSET Targets
BY ConstantsAssumption DEF TypeOK, LedgerTypeOK, RequestsTypeOK

(* A single edit.                                                          *)
LEMMA EditStep == ASSUME LedgerInv, NEW s \in Sessions, Edit(s) PROVE LedgerInv'
<1> DEFINE r == RaterOf[s]
<1>1. PICK q \in Requests, t \in Targets :
        LET a == Charge(q, r, t, rating[r][t], q.amount)
            affordable == Affordable(rating[r], t, q.amount, credit[r])
        IN
        /\ pc[s] = "idle" /\ q.kind = "edit" /\ q.on = {t}
        /\ RowFree(r, t, s) /\ (q.proxy => ActionFree(s))
        /\ \/ RollBack(s, "refused")
           \/ RollBack(s, Unbooked(a))
           \/ /\ affordable /\ Booked(s, a)
              /\ pc' = [pc EXCEPT ![s] = "ready"]
              /\ req' = [req EXCEPT ![s] = q]
              /\ seen' = [seen EXCEPT ![s] = rating[r]]
              /\ rated' = [rated EXCEPT ![s] = {t}]
              /\ owed' = [owed EXCEPT ![s] = [Zeros EXCEPT ![t] = a]]
              /\ paid' = [paid EXCEPT ![s] = a]
              /\ UNCHANGED <<todo, stale>> /\ Unwritten
        /\ ElsewhereUnchanged
  BY DEF Edit
<1> DEFINE a == Charge(q, r, t, rating[r][t], q.amount)
<1>2. faults' \in 0 .. MaxFaults /\ UNCHANGED <<due, jobVars, txVars>>
  BY <1>1 DEF LedgerInv, TypeOK, GhostsTypeOK, ElsewhereUnchanged
<1>3. CASE RollBack(s, "refused")
  BY <1>2, <1>3, RollBackStep
<1>4. CASE RollBack(s, Unbooked(a))
  BY <1>2, <1>4, RollBackStep DEF Unbooked
<1>5. CASE /\ Affordable(rating[r], t, q.amount, credit[r]) /\ Booked(s, a)
           /\ pc' = [pc EXCEPT ![s] = "ready"]
           /\ req' = [req EXCEPT ![s] = q]
           /\ seen' = [seen EXCEPT ![s] = rating[r]]
           /\ rated' = [rated EXCEPT ![s] = {t}]
           /\ owed' = [owed EXCEPT ![s] = [Zeros EXCEPT ![t] = a]]
           /\ paid' = [paid EXCEPT ![s] = a]
           /\ UNCHANGED <<todo, stale>> /\ Unwritten
  <2>1. TypeOK /\ OpenOK(s) /\ ~Open(s)
    BY <1>1 DEF LedgerInv, RequestsOK, RequestOK, Open
  <2>2. /\ RaterOf[s] \in Raters /\ rating[r] \in [Targets -> Int] /\ credit[r] \in Nat
        /\ paid[s] = 0 /\ todo[s] = {} /\ rated[s] = {} /\ owed[s] = Zeros
    BY <2>1, RowTypes DEF OpenOK
  <2>3. q.amount \in Int /\ q.proxy \in BOOLEAN
    BY RequestTyped
  <2>4. a \in Int /\ (a # 0 => ActionFree(s))
    BY <1>1, <2>1, <2>2, <2>3, ChargeType DEF TypeOK
  <2> HIDE DEF a
  <2>5. RequestsTypeOK'
    <3>1. [Zeros EXCEPT ![t] = a] \in [Targets -> Int]
      BY <2>4 DEF Zeros
    <3> QED BY <1>5, <2>1, <2>2, <2>4, <3>1 DEF TypeOK, RequestsTypeOK
  <2>6. /\ pc'[s] = "ready" /\ req'[s] = q /\ seen'[s] = rating[r] /\ rated'[s] = {t}
        /\ owed'[s] = [Zeros EXCEPT ![t] = a] /\ paid'[s] = a /\ todo'[s] = {}
    BY <1>5, <2>1, <2>2 DEF TypeOK, RequestsTypeOK
  <2>7. \A p \in Sessions \ {s} : RequestKept(p) /\ (p \in stale => p \in stale')
    BY <1>5, <2>1 DEF TypeOK, RequestsTypeOK, RequestKept
  <2>8. rating' = rating /\ credit' = credit /\ spent' = spent /\ excused' = excused
    BY <1>5 DEF Unwritten, ledger, books
  <2>9. paid[s] + a = a /\ AllowanceOK(s)
    BY <2>2, <2>4 DEF LedgerInv, RequestsOK, RequestOK
  <2>10. /\ spent[r] + a \in 0 .. Allowance
         /\ \A p \in Sessions \ {s} : RaterOf[s] = RaterOf[p] => a = 0 \/ paid[p] = 0
    BY <1>5, <2>4, <2>9, ChargeFits
  <2>11. OpenOK(s)' /\ EditOK(s)' /\ SeenOK(s)'
    BY <1>1, <2>6, <2>8 DEF OpenOK, EditOK, SeenOK, Open
  <2>12. PaidOK(s)'
    <3>1. Total(Charged(s)', Targets) = Total(Charged(s), Targets) + a
      <4>1. owed'[s][t] = a /\ t \in rated'[s] /\ Charged(s)[t] = 0
        BY <2>2, <2>6 DEF Zeros, Charged
      <4>2. \A u \in Targets \ {t} : owed'[s][u] = owed[s][u] /\ (u \in rated'[s] <=> u \in rated[s])
        BY <2>2, <2>6 DEF Zeros
      <4>3. Total(Charged(s)', Targets) = Total(Charged(s), Targets) + owed'[s][t]
        BY <2>1, <2>5, <4>1, <4>2, ChargedMore DEF TypeOK
      <4> QED BY <4>1, <4>3
    <3>2. Total(Charged(s), Targets) = 0
      BY <2>2 DEF LedgerInv, RequestsOK, RequestOK, PaidOK
    <3> QED BY <2>4, <2>6, <3>1, <3>2 DEF PaidOK
  <2>13. AllowanceOK(s)'
    BY <2>6, <2>8, <2>9, <2>10 DEF AllowanceOK
  <2>14. OutcomeOK(s)'
    <3> DEFINE b == Outcome(s)'
    <3>1. b = [rating[r] EXCEPT ![t] = q.amount]
      <4>1. NewRating(s, t)' = q.amount
        BY <1>1, <2>6 DEF NewRating
      <4> QED BY <2>2, <2>6, <2>8, <4>1 DEF Outcome
    <3>2. b \in [Targets -> Int] /\ b[t] = q.amount /\ \A u \in Targets \ {t} : rating[r][u] = b[u]
      BY <2>2, <2>3, <3>1
    <3> HIDE DEF b
    <3>3. Spending(b) = Spending(rating[r]) + Abs(b[t]) - Abs(rating[r][t])
      BY <2>2, <3>2, SpendingChange
    <3>4. Spending(b) <= credit[r]
      BY <1>5, <3>2, <3>3 DEF Affordable
    <3> QED BY <2>8, <3>4 DEF OutcomeOK, b
  <2>15. RequestOK(s)'
    BY <2>11, <2>12, <2>13, <2>14 DEF RequestOK
  <2>16. stale' \subseteq Sessions /\ Unwritten
    BY <1>5, <2>1 DEF TypeOK, GhostsTypeOK
  <2> QED BY <1>2, <2>5, <2>6, <2>7, <2>10, <2>15, <2>16, RequestStep
<1> QED BY <1>1, <1>3, <1>4, <1>5

(* The reads of a bulk rating.                                             *)
LEMMA BeginBulkRateStep ==
  ASSUME LedgerInv, NEW s \in Sessions, BeginBulkRate(s) PROVE LedgerInv'
<1> DEFINE r == RaterOf[s]
<1>1. PICK q \in Requests :
        /\ pc[s] = "idle" /\ q.kind = "bulkRate"
        /\ pc' = [pc EXCEPT ![s] = "rating"]
        /\ req' = [req EXCEPT ![s] = q]
        /\ seen' = [seen EXCEPT ![s] = rating[r]]
        /\ todo' = [todo EXCEPT ![s] = q.on]
        /\ UNCHANGED <<rated, owed, paid, stale>>
        /\ Unwritten /\ ElsewhereUnchanged
  BY DEF BeginBulkRate
<1>2. faults' \in 0 .. MaxFaults /\ UNCHANGED <<due, jobVars, txVars>>
  BY <1>1 DEF LedgerInv, TypeOK, GhostsTypeOK, ElsewhereUnchanged
<1>3. TypeOK /\ RequestOK(s) /\ ~Open(s)
  BY <1>1 DEF LedgerInv, RequestsOK, Open
<1>4. /\ rating[r] \in [Targets -> Int] /\ credit[r] \in Nat
      /\ paid[s] = 0 /\ rated[s] = {} /\ owed[s] = Zeros
  BY <1>3, RowTypes DEF RequestOK, OpenOK
<1>5. q.on \in SUBSET Targets
  BY RequestTyped
<1>6. RequestsTypeOK'
  BY <1>1, <1>3, <1>4, <1>5 DEF TypeOK, RequestsTypeOK
<1>7. /\ pc'[s] = "rating" /\ req'[s] = q /\ seen'[s] = rating[r] /\ todo'[s] = q.on
      /\ rated'[s] = {} /\ owed'[s] = Zeros /\ paid'[s] = 0
  BY <1>1, <1>3, <1>4 DEF TypeOK, RequestsTypeOK
<1>8. \A p \in Sessions \ {s} : RequestKept(p) /\ (p \in stale => p \in stale')
  BY <1>1, <1>3 DEF TypeOK, RequestsTypeOK, RequestKept
<1>9. rating' = rating /\ credit' = credit /\ spent' = spent /\ excused' = excused
  BY <1>1 DEF Unwritten, ledger, books
<1>10. OpenOK(s)' /\ EditOK(s)' /\ SeenOK(s)'
  BY <1>1, <1>7, <1>9 DEF OpenOK, EditOK, SeenOK, Open
<1>11. PaidOK(s)' /\ AllowanceOK(s)'
  <2>1. Charged(s)' = Charged(s)
    BY <1>4, <1>7 DEF Charged
  <2>2. \A t \in q.on : Zeros[t] = 0
    BY <1>5 DEF Zeros
  <2> QED BY <1>1, <1>3, <1>4, <1>7, <1>9, <2>1, <2>2 DEF RequestOK, PaidOK, AllowanceOK
<1>12. OutcomeOK(s)'
  <2>1. Outcome(s)' = rating[r]
    BY <1>4, <1>7, <1>9 DEF Outcome
  <2>2. r \notin excused => Spending(rating[r]) <= credit[r]
    BY <1>3, RowTypes DEF LedgerInv, BooksOK, CreditKept
  <2> QED BY <1>9, <2>1, <2>2 DEF OutcomeOK
<1>13. RequestOK(s)'
  BY <1>10, <1>11, <1>12 DEF RequestOK
<1>14. stale' \subseteq Sessions
  BY <1>1, <1>3 DEF TypeOK, GhostsTypeOK
<1> QED BY <1>1, <1>2, <1>6, <1>7, <1>8, <1>13, <1>14, RequestStep

(* One target of a bulk rating, rated or given up.                         *)
LEMMA RateNextStep == ASSUME LedgerInv, NEW s \in Sessions, RateNext(s) PROVE LedgerInv'
<1> DEFINE r == RaterOf[s]
<1>1. PICK t \in todo[s] :
        LET n == NewRating(s, t)
            a == Charge(req[s], r, t, seen[s][t], n)
        IN
        /\ pc[s] = "rating" /\ req[s].kind = "bulkRate"
        /\ (req[s].proxy => ActionFree(s))
        /\ \/ RollBack(s, "refused")
           \/ /\ Affordable(Row(s), t, n, credit[r])
              /\ Step(s, t)
              /\ rated' = [rated EXCEPT ![s] = IF Booked(s, a) THEN @ \cup {t} ELSE @]
              /\ owed' = [owed EXCEPT ![s] = [@ EXCEPT ![t] = a]]
              /\ paid' = [paid EXCEPT ![s] = IF Booked(s, a) THEN @ + a ELSE @]
              /\ UNCHANGED stale /\ Unwritten
        /\ ElsewhereUnchanged
  BY DEF RateNext
<1> DEFINE n == NewRating(s, t)
           a == Charge(req[s], r, t, seen[s][t], n)
<1>2. faults' \in 0 .. MaxFaults /\ UNCHANGED <<due, jobVars, txVars>>
  BY <1>1 DEF LedgerInv, TypeOK, GhostsTypeOK, ElsewhereUnchanged
<1>3. CASE RollBack(s, "refused")
  BY <1>2, <1>3, RollBackStep
<1>4. CASE /\ Affordable(Row(s), t, n, credit[r])
           /\ Step(s, t)
           /\ rated' = [rated EXCEPT ![s] = IF Booked(s, a) THEN @ \cup {t} ELSE @]
           /\ owed' = [owed EXCEPT ![s] = [@ EXCEPT ![t] = a]]
           /\ paid' = [paid EXCEPT ![s] = IF Booked(s, a) THEN @ + a ELSE @]
           /\ UNCHANGED stale /\ Unwritten
  <2>1. TypeOK /\ RequestOK(s) /\ Open(s)
    BY <1>1 DEF LedgerInv, RequestsOK, Open
  <2>2. /\ RaterOf[s] \in Raters /\ rating[r] \in [Targets -> Int] /\ credit[r] \in Nat
        /\ seen[s] \in [Targets -> Int] /\ owed[s] \in [Targets -> Int]
        /\ paid[s] \in Int /\ rated[s] \in SUBSET Targets /\ todo[s] \in SUBSET Targets
    BY <2>1, RowTypes
  <2>3. req[s] \in Requests /\ todo[s] \subseteq req[s].on /\ rated[s] \subseteq req[s].on
    BY <2>1 DEF RequestOK, OpenOK
  <2>4. req[s].amount \in Int /\ req[s].proxy \in BOOLEAN
    BY <2>3, RequestTyped
  <2>5. \A u \in Targets : NewRating(s, u) = seen[s][u] + req[s].amount
    BY <1>1 DEF NewRating
  <2>6. t \in Targets /\ t \notin rated[s] /\ owed[s][t] = 0 /\ n \in Int
    BY <1>1, <2>1, <2>2, <2>4, <2>5 DEF RequestOK, PaidOK
  <2>7. a \in Int /\ (a # 0 => ActionFree(s))
    BY <1>1, <2>1, <2>2, <2>4, <2>6, ChargeType DEF TypeOK
  <2> HIDE DEF a, n
  <2>8. RequestsTypeOK'
    BY <1>4, <2>1, <2>2, <2>6, <2>7 DEF TypeOK, RequestsTypeOK, Step
  <2>9. /\ pc'[s] \in {"rating", "ready"} /\ req'[s] = req[s] /\ seen'[s] = seen[s]
        /\ todo'[s] = todo[s] \ {t} /\ owed'[s] = [owed[s] EXCEPT ![t] = a]
        /\ rated'[s] = IF Booked(s, a) THEN rated[s] \cup {t} ELSE rated[s]
        /\ paid'[s] = IF Booked(s, a) THEN paid[s] + a ELSE paid[s]
    BY <1>4, <2>1 DEF TypeOK, RequestsTypeOK, Step
  <2>10. \A p \in Sessions \ {s} : RequestKept(p) /\ (p \in stale => p \in stale')
    BY <1>4, <2>1 DEF TypeOK, RequestsTypeOK, RequestKept, Step
  <2>11. rating' = rating /\ credit' = credit /\ spent' = spent /\ excused' = excused /\ stale' = stale
    BY <1>4 DEF Unwritten, ledger, books
  <2>12. Open(s)' /\ Open(s)
    BY <2>1, <2>9 DEF Open
  <2>13. OpenOK(s)' /\ EditOK(s)' /\ SeenOK(s)'
    BY <1>1, <2>1, <2>3, <2>9, <2>11, <2>12 DEF RequestOK, OpenOK, EditOK, SeenOK
  <2>14. \A u \in Targets \ {t} : owed'[s][u] = owed[s][u] /\ (u \in rated'[s] <=> u \in rated[s])
    BY <2>2, <2>9
  <2>15. \A u \in todo'[s] : owed'[s][u] = 0 /\ (u \in rated'[s] <=> req'[s].kind = "bulkRep")
    BY <2>1, <2>2, <2>9, <2>14 DEF RequestOK, PaidOK
  <2>16. CASE Booked(s, a)
    <3>1. /\ spent[r] + (paid[s] + a) \in 0 .. Allowance
          /\ \A p \in Sessions \ {s} : RaterOf[s] = RaterOf[p] => paid[s] + a = 0 \/ paid[p] = 0
      BY <2>7, <2>16, ChargeFits
    <3>2. owed'[s][t] = a /\ t \in rated'[s] /\ Charged(s)[t] = 0
      BY <2>2, <2>6, <2>9, <2>16 DEF Charged
    <3>3. Total(Charged(s)', Targets) = Total(Charged(s), Targets) + a
      <4>1. Total(Charged(s)', Targets) = Total(Charged(s), Targets) + owed'[s][t]
        BY <2>1, <2>6, <2>8, <2>14, <3>2, ChargedMore DEF TypeOK
      <4> QED BY <3>2, <4>1
    <3>4. PaidOK(s)'
      BY <2>1, <2>9, <2>15, <2>16, <3>3 DEF RequestOK, PaidOK
    <3>5. AllowanceOK(s)'
      BY <2>1, <2>9, <2>11, <2>16, <3>1 DEF RequestOK, AllowanceOK
    <3>6. OutcomeOK(s)'
      <4> SUFFICES ASSUME s \notin stale, r \notin excused
                   PROVE  Spending(Outcome(s)') <= credit[r]
        BY <2>11 DEF OutcomeOK
      <4> DEFINE b == Outcome(s)'
                 c == Row(s)
      <4>1. \A u \in Targets : seen[s][u] = rating[r][u]
        BY <1>1, <2>1, <2>12 DEF RequestOK, SeenOK
      <4>2. \A u \in Targets : NewRating(s, u)' = NewRating(s, u)
        BY <2>9 DEF NewRating
      <4>3. c \in [Targets -> Int]
        BY <2>2, <2>4, <2>5 DEF Row
      <4>4. b \in [Targets -> Int]
        BY <2>2, <2>4, <2>5, <2>11, <4>2 DEF Outcome
      <4>5. \A u \in Targets \ {t} : c[u] = b[u]
        BY <2>11, <2>14, <4>1, <4>2 DEF Row, Outcome
      <4>6. b[t] = n
        BY <2>6, <2>9, <2>16, <4>2 DEF Outcome, n
      <4> HIDE DEF b, c
      <4>7. Spending(b) = Spending(c) + Abs(b[t]) - Abs(c[t])
        BY <2>6, <4>3, <4>4, <4>5, SpendingChange
      <4>8. Spending(c) + Abs(n) - Abs(c[t]) <= credit[r]
        BY <1>4 DEF Affordable, c
      <4> QED BY <4>6, <4>7, <4>8 DEF b
    <3>7. RequestOK(s)'
      BY <2>13, <3>4, <3>5, <3>6 DEF RequestOK
    <3>8. stale' \subseteq Sessions /\ Unwritten
      BY <1>4, <2>1 DEF TypeOK, GhostsTypeOK
    <3> QED BY <1>2, <2>8, <2>9, <2>10, <2>16, <3>1, <3>7, <3>8, RequestStep
  <2>17. CASE ~Booked(s, a)
    <3>1. rated'[s] = rated[s] /\ paid'[s] = paid[s]
      BY <2>9, <2>17
    <3>2. Charged(s)' = Charged(s)
      BY <2>6, <2>14, <3>1 DEF Charged
    <3>3. PaidOK(s)' /\ AllowanceOK(s)'
      BY <2>1, <2>11, <2>15, <3>1, <3>2 DEF RequestOK, PaidOK, AllowanceOK
    <3>4. OutcomeOK(s)'
      <4>1. \A u \in Targets : NewRating(s, u)' = NewRating(s, u)
        BY <2>9 DEF NewRating
      <4>2. Outcome(s)' = Outcome(s)
        BY <2>11, <3>1, <4>1 DEF Outcome
      <4> QED BY <2>1, <2>11, <2>12, <4>2 DEF RequestOK, OutcomeOK
    <3>5. RequestOK(s)'
      BY <2>13, <3>3, <3>4 DEF RequestOK
    <3>6. \A p \in Sessions \ {s} : RaterOf[s] = RaterOf[p] => paid'[s] = 0 \/ paid[p] = 0
      BY <3>1 DEF LedgerInv, RequestsOK, ActionOK
    <3>7. stale' \subseteq Sessions /\ Unwritten
      BY <1>4, <2>1 DEF TypeOK, GhostsTypeOK
    <3> QED BY <1>2, <2>8, <2>10, <3>5, <3>6, <3>7, RequestStep
  <2> QED BY <2>16, <2>17
<1> QED BY <1>1, <1>3, <1>4

(* The reads and the check of a bulk REP request.                          *)
LEMMA BulkRepStep == ASSUME LedgerInv, NEW s \in Sessions, BulkRep(s) PROVE LedgerInv'
<1> DEFINE r == RaterOf[s]
<1>1. PICK q \in Requests, p \in [Targets -> Raters] :
        LET old == [t \in Targets |-> IF t \in q.on THEN rating[p[t]][t] ELSE 0]
            changed == {t \in q.on : old[t] # q.amount}
            wasted == Total([t \in changed |-> Abs(q.amount) - Abs(old[t])], changed)
        IN
        /\ pc[s] = "idle" /\ q.kind = "bulkRep"
        /\ \/ RollBack(s, "refused")
           \/ /\ credit[r] - Spending(rating[r]) >= wasted
              /\ pc' = [pc EXCEPT ![s] = IF q.proxy /\ changed # {} THEN "rating" ELSE "ready"]
              /\ req' = [req EXCEPT ![s] = q]
              /\ seen' = [seen EXCEPT ![s] = old]
              /\ todo' = [todo EXCEPT ![s] = IF q.proxy THEN changed ELSE {}]
              /\ rated' = [rated EXCEPT ![s] = changed]
              /\ stale' = IF \E t \in q.on : old[t] # rating[r][t]
                          THEN stale \cup {s} ELSE stale
              /\ UNCHANGED <<owed, paid>> /\ Unwritten
        /\ ElsewhereUnchanged
  BY ZenonT(30) DEF BulkRep
<1> DEFINE old == [t \in Targets |-> IF t \in q.on THEN rating[p[t]][t] ELSE 0]
           changed == {t \in q.on : old[t] # q.amount}
           wasted == Total([t \in changed |-> Abs(q.amount) - Abs(old[t])], changed)
<1>2. faults' \in 0 .. MaxFaults /\ UNCHANGED <<due, jobVars, txVars>>
  BY <1>1 DEF LedgerInv, TypeOK, GhostsTypeOK, ElsewhereUnchanged
<1>3. CASE RollBack(s, "refused")
  BY <1>2, <1>3, RollBackStep
<1>4. CASE /\ credit[r] - Spending(rating[r]) >= wasted
           /\ pc' = [pc EXCEPT ![s] = IF q.proxy /\ changed # {} THEN "rating" ELSE "ready"]
           /\ req' = [req EXCEPT ![s] = q]
           /\ seen' = [seen EXCEPT ![s] = old]
           /\ todo' = [todo EXCEPT ![s] = IF q.proxy THEN changed ELSE {}]
           /\ rated' = [rated EXCEPT ![s] = changed]
           /\ stale' = IF \E t \in q.on : old[t] # rating[r][t] THEN stale \cup {s} ELSE stale
           /\ UNCHANGED <<owed, paid>> /\ Unwritten
  <2>1. TypeOK /\ RequestOK(s) /\ ~Open(s)
    BY <1>1 DEF LedgerInv, RequestsOK, Open
  <2>2. /\ RaterOf[s] \in Raters /\ rating[r] \in [Targets -> Int] /\ credit[r] \in Nat
        /\ paid[s] = 0 /\ owed[s] = Zeros
    BY <2>1, RowTypes DEF RequestOK, OpenOK
  <2>3. q.amount \in Int /\ q.proxy \in BOOLEAN /\ q.on \in SUBSET Targets
    BY RequestTyped
  <2>4. old \in [Targets -> Int]
    BY <2>1 DEF TypeOK, LedgerTypeOK
  <2>5. changed \in SUBSET Targets /\ changed \subseteq q.on
    BY <2>3
  <2>6. \A t \in q.on \ changed : old[t] = q.amount
    OBVIOUS
  <2> HIDE DEF old, changed
  <2>7. RequestsTypeOK'
    BY <1>4, <2>1, <2>4, <2>5 DEF TypeOK, RequestsTypeOK
  <2>8. /\ pc'[s] \in {"rating", "ready"} /\ req'[s] = q /\ seen'[s] = old
        /\ todo'[s] \subseteq changed /\ rated'[s] = changed /\ owed'[s] = Zeros /\ paid'[s] = 0
    BY <1>4, <2>1, <2>2 DEF TypeOK, RequestsTypeOK
  <2>9. \A u \in Sessions \ {s} : RequestKept(u) /\ (u \in stale => u \in stale')
    BY <1>4, <2>1 DEF TypeOK, RequestsTypeOK, RequestKept
  <2>10. rating' = rating /\ credit' = credit /\ spent' = spent /\ excused' = excused
    BY <1>4 DEF Unwritten, ledger, books
  <2>11. s \notin stale' => \A t \in q.on : old[t] = rating[r][t]
    BY <1>4
  <2>12. OpenOK(s)' /\ EditOK(s)' /\ SeenOK(s)'
    BY <1>1, <2>5, <2>8, <2>10, <2>11 DEF OpenOK, EditOK, SeenOK, Open
  <2>13. PaidOK(s)' /\ AllowanceOK(s)'
    <3>1. \A t \in Targets : Charged(s)'[t] = 0
      BY <2>8 DEF Charged, Zeros
    <3>2. Total(Charged(s)', Targets) = 0
      BY <3>1, ConstantsAssumption, TotalZero
    <3>3. PaidOK(s)'
      BY <1>1, <2>5, <2>8, <3>2 DEF PaidOK, Zeros
    <3>4. AllowanceOK(s)'
      BY <2>1, <2>2, <2>8, <2>10 DEF RequestOK, AllowanceOK
    <3> QED BY <3>3, <3>4
  <2>14. OutcomeOK(s)'
    <3> SUFFICES ASSUME s \notin stale' PROVE Spending(Outcome(s)') <= credit[r]
      BY <2>10 DEF OutcomeOK
    <3> DEFINE b == Outcome(s)'
               f == [t \in changed |-> Abs(b[t]) - Abs(rating[r][t])]
               g == [t \in changed |-> Abs(q.amount) - Abs(old[t])]
    <3>1. \A t \in Targets : NewRating(s, t)' = q.amount
      BY <1>1, <2>8 DEF NewRating
    <3>2. b = [t \in Targets |-> IF t \in changed THEN q.amount ELSE rating[r][t]]
      BY <2>8, <2>10, <3>1 DEF Outcome
    <3>3. /\ b \in [Targets -> Int] /\ (\A t \in changed : b[t] = q.amount)
          /\ \A t \in Targets \ changed : rating[r][t] = b[t]
      BY <2>2, <2>3, <2>5, <3>2
    <3> HIDE DEF b
    <3>4. Spending(b) = Spending(rating[r]) + Total(f, changed)
      BY <2>2, <2>5, <3>3, SpendingChanges
    <3>5. f = g
      BY <2>5, <2>11, <3>3
    <3>6. IsFiniteSet(changed) /\ \A t \in changed : g[t] \in Int
      BY <2>3, <2>4, <2>5, ConstantsAssumption, FS_Subset DEF Abs
    <3> HIDE DEF g, f
    <3>7. Total(g, changed) \in Int
      BY <3>6, TotalType
    <3>8. Spending(rating[r]) \in Int
      BY <2>2, SpendingType
    <3> QED BY <1>4, <2>2, <3>4, <3>5, <3>7, <3>8 DEF b, g
  <2>15. RequestOK(s)'
    BY <2>12, <2>13, <2>14 DEF RequestOK
  <2>16. stale' \subseteq Sessions /\ Unwritten
    BY <1>4, <2>1 DEF TypeOK, GhostsTypeOK
  <2> QED BY <1>2, <2>7, <2>8, <2>9, <2>15, <2>16, RequestStep
<1> QED BY <1>1, <1>3, <1>4

(* One target of a bulk REP request charged to the proxy.                  *)
LEMMA ChargeNextStep == ASSUME LedgerInv, NEW s \in Sessions, ChargeNext(s) PROVE LedgerInv'
<1> DEFINE r == RaterOf[s]
<1>1. PICK t \in todo[s] :
        LET a == Charge(req[s], r, t, seen[s][t], req[s].amount) IN
        /\ pc[s] = "rating" /\ req[s].kind = "bulkRep" /\ ActionFree(s)
        /\ \/ RollBack(s, Unbooked(a))
           \/ /\ Booked(s, a)
              /\ Step(s, t)
              /\ owed' = [owed EXCEPT ![s] = [@ EXCEPT ![t] = a]]
              /\ paid' = [paid EXCEPT ![s] = @ + a]
              /\ UNCHANGED <<rated, stale>> /\ Unwritten
        /\ ElsewhereUnchanged
  BY DEF ChargeNext
<1> DEFINE a == Charge(req[s], r, t, seen[s][t], req[s].amount)
<1>2. faults' \in 0 .. MaxFaults /\ UNCHANGED <<due, jobVars, txVars>>
  BY <1>1 DEF LedgerInv, TypeOK, GhostsTypeOK, ElsewhereUnchanged
<1>3. CASE RollBack(s, Unbooked(a))
  BY <1>2, <1>3, RollBackStep DEF Unbooked
<1>4. CASE /\ Booked(s, a)
           /\ Step(s, t)
           /\ owed' = [owed EXCEPT ![s] = [@ EXCEPT ![t] = a]]
           /\ paid' = [paid EXCEPT ![s] = @ + a]
           /\ UNCHANGED <<rated, stale>> /\ Unwritten
  <2>1. TypeOK /\ RequestOK(s) /\ Open(s)
    BY <1>1 DEF LedgerInv, RequestsOK, Open
  <2>2. /\ RaterOf[s] \in Raters /\ seen[s] \in [Targets -> Int] /\ owed[s] \in [Targets -> Int]
        /\ paid[s] \in Int /\ rated[s] \in SUBSET Targets /\ todo[s] \in SUBSET Targets
    BY <2>1, RowTypes
  <2>3. req[s] \in Requests
    BY <2>1 DEF RequestOK, OpenOK
  <2>4. req[s].amount \in Int
    BY <2>3, RequestTyped
  <2>5. t \in Targets /\ t \in rated[s] /\ owed[s][t] = 0
    BY <1>1, <2>1, <2>2 DEF RequestOK, PaidOK
  <2>6. a \in Int
    BY <2>1, <2>2, <2>4, <2>5, ChargeType DEF TypeOK
  <2> HIDE DEF a
  <2>7. RequestsTypeOK'
    BY <1>4, <2>1, <2>2, <2>5, <2>6 DEF TypeOK, RequestsTypeOK, Step
  <2>8. /\ pc'[s] \in {"rating", "ready"} /\ req'[s] = req[s] /\ seen'[s] = seen[s]
        /\ todo'[s] = todo[s] \ {t} /\ rated'[s] = rated[s]
        /\ owed'[s] = [owed[s] EXCEPT ![t] = a] /\ paid'[s] = paid[s] + a
    BY <1>4, <2>1 DEF TypeOK, RequestsTypeOK, Step
  <2>9. \A p \in Sessions \ {s} : RequestKept(p) /\ (p \in stale => p \in stale')
    BY <1>4, <2>1 DEF TypeOK, RequestsTypeOK, RequestKept, Step
  <2>10. rating' = rating /\ credit' = credit /\ spent' = spent /\ excused' = excused /\ stale' = stale
    BY <1>4 DEF Unwritten, ledger, books
  <2>11. Open(s)' /\ Open(s)
    BY <2>1, <2>8 DEF Open
  <2>12. OpenOK(s)' /\ EditOK(s)' /\ SeenOK(s)'
    BY <1>1, <2>1, <2>8, <2>10, <2>11 DEF RequestOK, OpenOK, EditOK, SeenOK
  <2>13. \A u \in Targets \ {t} : owed'[s][u] = owed[s][u] /\ (u \in rated'[s] <=> u \in rated[s])
    BY <2>2, <2>8
  <2>14. /\ spent[r] + (paid[s] + a) \in 0 .. Allowance
         /\ \A p \in Sessions \ {s} : RaterOf[s] = RaterOf[p] => paid[s] + a = 0 \/ paid[p] = 0
    BY <1>1, <1>4, <2>6, ChargeFits
  <2>15. PaidOK(s)'
    <3>1. owed'[s][t] = a /\ t \in rated'[s] /\ Charged(s)[t] = 0
      BY <2>2, <2>5, <2>8 DEF Charged
    <3>2. Total(Charged(s)', Targets) = Total(Charged(s), Targets) + owed'[s][t]
      BY <2>1, <2>5, <2>7, <2>13, <3>1, ChargedMore DEF TypeOK
    <3>3. \A u \in todo'[s] : owed'[s][u] = 0 /\ (u \in rated'[s] <=> req'[s].kind = "bulkRep")
      BY <2>1, <2>2, <2>8, <2>13 DEF RequestOK, PaidOK
    <3> QED BY <2>1, <2>8, <3>1, <3>2, <3>3 DEF RequestOK, PaidOK
  <2>16. AllowanceOK(s)'
    BY <2>1, <2>8, <2>10, <2>14 DEF RequestOK, AllowanceOK
  <2>17. OutcomeOK(s)'
    <3>1. \A u \in Targets : NewRating(s, u)' = NewRating(s, u)
      BY <2>8 DEF NewRating
    <3>2. Outcome(s)' = Outcome(s)
      BY <2>8, <2>10, <3>1 DEF Outcome
    <3> QED BY <2>1, <2>10, <2>11, <3>2 DEF RequestOK, OutcomeOK
  <2>18. RequestOK(s)'
    BY <2>12, <2>15, <2>16, <2>17 DEF RequestOK
  <2>19. stale' \subseteq Sessions /\ Unwritten
    BY <1>4, <2>1 DEF TypeOK, GhostsTypeOK
  <2> QED BY <1>2, <2>7, <2>8, <2>9, <2>14, <2>18, <2>19, RequestStep
<1> QED BY <1>1, <1>3, <1>4

(* A request that dies.                                                    *)
LEMMA RequestFailsStep == ASSUME LedgerInv, NEW s \in Sessions, RequestFails(s) PROVE LedgerInv'
<1>1. faults' \in 0 .. MaxFaults
  BY ConstantsAssumption DEF RequestFails, LedgerInv, TypeOK, GhostsTypeOK
<1> QED BY <1>1, RollBackStep DEF RequestFails
-----------------------------------------------------------------------------
(* Commits.                                                                *)

\* What an event adds to the score and to the number of raters.
ScoreWeight == [e \in EventType |-> e.new - e.old]
RatersWeight == [e \in EventType |-> Counts(e.new) - Counts(e.old)]

(* Events of ratings weigh integers.                                       *)
LEMMA WeightTypes ==
  /\ \A e \in EventType : ScoreWeight[e] \in Int /\ ScoreWeight[e] = e.new - e.old
  /\ \A e \in EventType : /\ RatersWeight[e] \in Int
                          /\ RatersWeight[e] = Counts(e.new) - Counts(e.old)
BY DEF EventType, ScoreWeight, RatersWeight, Counts

(* The two sums of a bag of events are gains.                              *)
LEMMA SumsAreGains ==
  ASSUME NEW B, BagToSet(B) \subseteq EventType, NEW t
  PROVE  ScoreOf(B, t) = Gain(B, t, ScoreWeight) /\ RatersOf(B, t) = Gain(B, t, RatersWeight)
<1>1. EventsOf(B, t) \subseteq EventType
  BY DEF EventsOf
<1>2. [e \in EventsOf(B, t) |-> Copies(e, B) * (e.new - e.old)]
        = [e \in EventsOf(B, t) |-> Copies(e, B) * ScoreWeight[e]]
  BY <1>1 DEF ScoreWeight
<1>3. [e \in EventsOf(B, t) |-> Copies(e, B) * (Counts(e.new) - Counts(e.old))]
        = [e \in EventsOf(B, t) |-> Copies(e, B) * RatersWeight[e]]
  BY <1>1 DEF RatersWeight
<1> QED BY <1>2, <1>3 DEF ScoreOf, RatersOf, Gain

(* The sums are integers.                                                  *)
LEMMA SumsTypes ==
  ASSUME NEW B, IsABag(B), IsFiniteSet(BagToSet(B)), BagToSet(B) \subseteq EventType, NEW t
  PROVE  ScoreOf(B, t) \in Int /\ RatersOf(B, t) \in Int
<1>1. IsFiniteSet(EventsOf(B, t))
  BY FS_Subset DEF EventsOf
<1>2. \A e \in EventsOf(B, t) : Copies(e, B) \in Int /\ ScoreWeight[e] \in Int /\ RatersWeight[e] \in Int
  BY CopiesType, WeightTypes DEF EventsOf
<1>3. \A e \in EventsOf(B, t) : Copies(e, B) * ScoreWeight[e] \in Int
  BY <1>2
<1>4. \A e \in EventsOf(B, t) : Copies(e, B) * RatersWeight[e] \in Int
  BY <1>2
<1>5. Gain(B, t, ScoreWeight) \in Int
  BY <1>1, <1>3, TotalType DEF Gain
<1>6. Gain(B, t, RatersWeight) \in Int
  BY <1>1, <1>4, TotalType DEF Gain
<1> QED BY <1>5, <1>6, SumsAreGains

(* One rater's rating changes what the target has received by as much.     *)
LEMMA ReceivedChange ==
  ASSUME rating \in [Raters -> [Targets -> Int]], rating' \in [Raters -> [Targets -> Int]],
         NEW r \in Raters, NEW t \in Targets, \A q \in Raters \ {r} : rating'[q] = rating[q]
  PROVE  /\ Received(t) \in Int
         /\ Received(t)' = Received(t) + rating'[r][t] - rating[r][t]
<1> DEFINE f == [q \in Raters |-> rating[q][t]]
           g == [q \in Raters |-> rating'[q][t]]
<1>1. \A q \in Raters : f[q] \in Int /\ g[q] \in Int
  OBVIOUS
<1>2. \A q \in Raters \ {r} : f[q] = g[q]
  OBVIOUS
<1>3. f[r] = rating[r][t] /\ g[r] = rating'[r][t]
  OBVIOUS
<1> HIDE DEF f, g
<1>4. Total(g, Raters) = Total(f, Raters) + g[r] - f[r]
  BY <1>1, <1>2, ConstantsAssumption, TotalChange
<1>5. Total(f, Raters) \in Int
  BY <1>1, ConstantsAssumption, TotalType
<1> QED BY <1>3, <1>4, <1>5 DEF Received, f, g

\* The raters of a target.
RatersNow(t) == {r \in Raters : rating[r][t] # 0}

(* And the number of raters by one at most.                                *)
LEMMA RatersChange ==
  ASSUME rating \in [Raters -> [Targets -> Int]], rating' \in [Raters -> [Targets -> Int]],
         NEW r \in Raters, NEW t \in Targets, \A q \in Raters \ {r} : rating'[q] = rating[q]
  PROVE  /\ Cardinality(RatersNow(t)) \in Int
         /\ Cardinality(RatersNow(t)')
              = Cardinality(RatersNow(t)) + Counts(rating'[r][t]) - Counts(rating[r][t])
<1> DEFINE A == RatersNow(t)
           B == RatersNow(t)'
           f == [q \in Raters |-> IF q \in A THEN 1 ELSE 0]
           g == [q \in Raters |-> IF q \in B THEN 1 ELSE 0]
<1>1. A \in SUBSET Raters /\ B \in SUBSET Raters
  BY DEF RatersNow
<1>2. \A q \in Raters \ {r} : q \in A <=> q \in B
  BY DEF RatersNow
<1>3. f[r] = Counts(rating[r][t]) /\ g[r] = Counts(rating'[r][t])
  BY DEF RatersNow, Counts
<1> HIDE DEF A, B
<1>4. \A q \in Raters : f[q] \in Int /\ g[q] \in Int
  OBVIOUS
<1>5. \A q \in Raters \ {r} : f[q] = g[q]
  BY <1>2
<1>6. Total(f, Raters) = Cardinality(A) /\ Total(g, Raters) = Cardinality(B)
  BY <1>1, ConstantsAssumption, TotalCounts
<1> HIDE DEF f, g
<1>7. Total(g, Raters) = Total(f, Raters) + g[r] - f[r]
  BY <1>4, <1>5, ConstantsAssumption, TotalChange
<1>8. Total(f, Raters) \in Int
  BY <1>4, ConstantsAssumption, TotalType
<1> QED BY <1>3, <1>6, <1>7, <1>8 DEF A, B

\* A commit by somebody who writes over what he has not seen on the targets
\* in B at most.
Writes(r, T, old, new, B) ==
  /\ r \in Raters /\ T \in SUBSET Targets /\ B \in SUBSET Targets
  /\ old \in [Targets -> Int] /\ new \in [Targets -> Int]
  /\ Write(r, T, old, new, B) /\ Blind(r, T, old) \subseteq B
  /\ UNCHANGED txVars

(* It leaves tables and outbox well-formed.                                *)
LEMMA WriteTypes ==
  ASSUME TypeOK, NEW r, NEW T, NEW old, NEW new, NEW B, Writes(r, T, old, new, B)
  PROVE  /\ rating' \in [Raters -> [Targets -> Int]] /\ rep' \in [Targets -> Int]
         /\ rating'[r] = [t \in Targets |-> IF t \in T THEN new[t] ELSE rating[r][t]]
         /\ \A q \in Raters \ {r} : rating'[q] = rating[q]
         /\ EventsTypeOK'
<1>0. /\ r \in Raters /\ T \in SUBSET Targets /\ B \in SUBSET Targets
      /\ old \in [Targets -> Int] /\ new \in [Targets -> Int]
      /\ Write(r, T, old, new, B) /\ Blind(r, T, old) \subseteq B
      /\ UNCHANGED txVars
  BY DEF Writes
<1> USE <1>0
<1>1. /\ rating' \in [Raters -> [Targets -> Int]] /\ rep' \in [Targets -> Int]
      /\ rating'[r] = [t \in Targets |-> IF t \in T THEN new[t] ELSE rating[r][t]]
      /\ \A q \in Raters \ {r} : rating'[q] = rating[q]
  BY DEF TypeOK, LedgerTypeOK, Write
<1>2. EventsTypeOK'
  <2> DEFINE S == {[target |-> t, old |-> old[t], new |-> new[t]] : t \in T}
  <2>1. events' = events (+) SetToBag(S)
    BY DEF Write
  <2>2. S \subseteq EventType
    BY DEF EventType
  <2>3. IsFiniteSet(S)
    <3>1. IsFiniteSet(T)
      BY ConstantsAssumption, FS_Subset
    <3> DEFINE h == [t \in T |-> [target |-> t, old |-> old[t], new |-> new[t]]]
    <3>2. S = {h[t] : t \in T}
      OBVIOUS
    <3>3. h \in Surjection(T, S)
      BY DEF Surjection
    <3> HIDE DEF S, h
    <3> QED BY <3>1, <3>3, FS_Surjection
  <2> HIDE DEF S
  <2>4. /\ IsABag(events) /\ BagToSet(events) \subseteq EventType /\ IsFiniteSet(BagToSet(events))
        /\ DOMAIN batch = Connections
        /\ \A c \in Connections : IsABag(batch[c]) /\ BagToSet(batch[c]) \subseteq BagToSet(events)
        /\ \A e \in BagToSet(events) : Locked(e) <= Copies(e, events)
        /\ runner \in Connections \cup {None} /\ batch' = batch /\ runner' = runner
    BY DEF TypeOK, EventsTypeOK, txVars
  <2>5. /\ IsABag(events') /\ BagToSet(events') = BagToSet(events) \cup S
        /\ \A e : Copies(e, events') = Copies(e, events) + IF e \in S THEN 1 ELSE 0
    BY <2>1, <2>4, BagPlusSet
  <2>6. IsFiniteSet(BagToSet(events'))
    BY <2>3, <2>4, <2>5, FS_Union, ZenonT(30)
  <2>7. ASSUME NEW e \in BagToSet(events') PROVE Locked(e)' <= Copies(e, events')
    <3>1. Copies(e, events) \in Nat /\ Copies(e, events) <= Copies(e, events')
      BY <2>4, <2>5, CopiesType
    <3>2. Locked(e)' = Locked(e)
      BY <2>4 DEF Locked
    <3>3. Locked(e) <= Copies(e, events)
      <4>1. CASE e \in BagToSet(events)
        BY <2>4, <4>1
      <4>2. CASE e \notin BagToSet(events)
        <5>1. \A c \in Connections : Copies(e, batch[c]) = 0
          BY <2>4, <4>2 DEF Copies, BagIn
        <5>2. Locked(e) = 0
          BY <5>1, ConstantsAssumption, TotalZero DEF Locked
        <5> QED BY <3>1, <5>2
      <4> QED BY <4>1, <4>2
    <3>4. Locked(e) \in Int
      <4>1. \A c \in Connections : Copies(e, batch[c]) \in Int
        BY <2>4, CopiesType
      <4> QED BY <4>1, ConstantsAssumption, TotalType DEF Locked
    <3> QED BY <3>1, <3>2, <3>3, <3>4, <2>5, CopiesType
  <2> QED BY <2>2, <2>4, <2>5, <2>6, <2>7 DEF EventsTypeOK
<1> QED BY <1>1, <1>2

(* rep stays the sum of the ratings where nothing unseen is written over.  *)
LEMMA WriteRep ==
  ASSUME TypeOK, NEW r, NEW T, NEW old, NEW new, NEW B, Writes(r, T, old, new, B),
         RepIsTheSum
  PROVE  RepIsTheSum'
<1>0. /\ r \in Raters /\ T \in SUBSET Targets /\ B \in SUBSET Targets
      /\ old \in [Targets -> Int] /\ new \in [Targets -> Int]
      /\ Write(r, T, old, new, B) /\ Blind(r, T, old) \subseteq B
      /\ UNCHANGED txVars
  BY DEF Writes
<1> USE <1>0
<1>1. /\ rating \in [Raters -> [Targets -> Int]] /\ rating' \in [Raters -> [Targets -> Int]]
      /\ rating'[r] = [t \in Targets |-> IF t \in T THEN new[t] ELSE rating[r][t]]
      /\ \A q \in Raters \ {r} : rating'[q] = rating[q]
  <2>1. rating \in [Raters -> [Targets -> Int]]
    BY DEF TypeOK, LedgerTypeOK
  <2> QED BY <2>1, WriteTypes
<1>2. ASSUME NEW t \in Targets \ unseen' PROVE rep'[t] = Received(t)'
  <2>1. t \notin unseen /\ t \notin B
    BY <1>2 DEF Write
  <2>2. t \in T => old[t] = rating[r][t]
    BY <2>1 DEF Blind
  <2>3. rep[t] = Received(t)
    BY <2>1 DEF RepIsTheSum
  <2>4. Received(t) \in Int /\ Received(t)' = Received(t) + rating'[r][t] - rating[r][t]
    BY <1>1, ReceivedChange
  <2>5. rep'[t] = rep[t] + IF t \in T THEN new[t] - old[t] ELSE 0
    BY DEF Write
  <2>6. rating'[r][t] = IF t \in T THEN new[t] ELSE rating[r][t]
    BY <1>1
  <2>7. rating[r][t] \in Int /\ new[t] \in Int
    BY <1>1
  <2> QED BY <2>2, <2>3, <2>4, <2>5, <2>6, <2>7
<1> QED BY <1>2 DEF RepIsTheSum

(* And the events make up for the difference to the aggregations.          *)
LEMMA WriteAggregations ==
  ASSUME TypeOK, NEW r, NEW T, NEW old, NEW new, NEW B, Writes(r, T, old, new, B),
         AggregationsAreExact, UNCHANGED <<score, raters>>
  PROVE  AggregationsAreExact'
<1>0. /\ r \in Raters /\ T \in SUBSET Targets /\ B \in SUBSET Targets
      /\ old \in [Targets -> Int] /\ new \in [Targets -> Int]
      /\ Write(r, T, old, new, B) /\ Blind(r, T, old) \subseteq B
      /\ UNCHANGED txVars
  BY DEF Writes
<1> USE <1>0
<1> DEFINE ev(t) == [target |-> t, old |-> old[t], new |-> new[t]]
           S == {ev(t) : t \in T}
<1>1. /\ rating \in [Raters -> [Targets -> Int]] /\ rating' \in [Raters -> [Targets -> Int]]
      /\ rating'[r] = [t \in Targets |-> IF t \in T THEN new[t] ELSE rating[r][t]]
      /\ \A q \in Raters \ {r} : rating'[q] = rating[q]
      /\ EventsTypeOK /\ EventsTypeOK'
  <2>1. rating \in [Raters -> [Targets -> Int]] /\ EventsTypeOK
    BY DEF TypeOK, LedgerTypeOK
  <2> QED BY <2>1, WriteTypes
<1>2. events' = events (+) SetToBag(S)
  BY DEF Write
<1>3. /\ IsABag(events) /\ IsFiniteSet(BagToSet(events)) /\ BagToSet(events) \subseteq EventType
      /\ BagToSet(events') \subseteq EventType
  BY <1>1 DEF EventsTypeOK
<1>4. \A e \in BagToSet(events) : ScoreWeight[e] \in Int /\ RatersWeight[e] \in Int
  BY <1>3, WeightTypes
<1>5. ASSUME NEW t \in Targets \ corrupt'
      PROVE  /\ score'[t] + ScoreOf(events', t) = Received(t)'
             /\ raters'[t] + RatersOf(events', t) = Cardinality(RatersNow(t)')
  <2>1. t \notin corrupt /\ t \notin B
    BY <1>5 DEF Write
  <2>2. t \in T => old[t] = rating[r][t]
    BY <2>1 DEF Blind
  <2>3. /\ score[t] + ScoreOf(events, t) = Received(t)
        /\ raters[t] + RatersOf(events, t) = Cardinality(RatersNow(t))
    BY <2>1 DEF AggregationsAreExact, RatersNow
  <2>4. Received(t) \in Int /\ Received(t)' = Received(t) + rating'[r][t] - rating[r][t]
    BY <1>1, ReceivedChange
  <2>5. /\ Cardinality(RatersNow(t)) \in Int
        /\ Cardinality(RatersNow(t)')
             = Cardinality(RatersNow(t)) + Counts(rating'[r][t]) - Counts(rating[r][t])
    BY <1>1, RatersChange
  <2>6. rating'[r][t] = IF t \in T THEN new[t] ELSE rating[r][t]
    BY <1>1
  <2>7. rating[r][t] \in Int /\ new[t] \in Int /\ score[t] \in Int /\ raters[t] \in Int
    BY <1>1 DEF TypeOK, LedgerTypeOK
  <2>8. ScoreOf(events, t) \in Int /\ RatersOf(events, t) \in Int
    BY <1>3, SumsTypes
  <2>9. CASE t \notin T
    <3>1. \A e \in S : e.target # t
      BY <2>9
    <3> HIDE DEF S
    <3>2. Gain(events', t, ScoreWeight) = Gain(events, t, ScoreWeight)
      BY <1>2, <1>3, <1>4, <3>1, GainElsewhere
    <3>3. Gain(events', t, RatersWeight) = Gain(events, t, RatersWeight)
      BY <1>2, <1>3, <1>4, <3>1, GainElsewhere
    <3>4. ScoreOf(events', t) = ScoreOf(events, t) /\ RatersOf(events', t) = RatersOf(events, t)
      BY <1>3, <3>2, <3>3, SumsAreGains
    <3> QED BY <2>3, <2>4, <2>5, <2>6, <2>7, <2>9, <3>4 DEF Counts
  <2>10. CASE t \in T
    <3> DEFINE x == ev(t)
    <3>1. x \in S /\ x.target = t /\ (\A e \in S : e.target = t => e = x)
      BY <2>10
    <3>2. x \in EventType /\ x.old = rating[r][t] /\ x.new = rating'[r][t]
      BY <2>2, <2>6, <2>7, <2>10 DEF EventType
    <3> HIDE DEF S, x
    <3>3. \A e \in BagToSet(events) \cup {x} : ScoreWeight[e] \in Int /\ RatersWeight[e] \in Int
      BY <1>4, <3>2, WeightTypes
    <3>4. Gain(events', t, ScoreWeight) = Gain(events, t, ScoreWeight) + ScoreWeight[x]
      BY <1>2, <1>3, <3>1, <3>3, GainPlus
    <3>5. Gain(events', t, RatersWeight) = Gain(events, t, RatersWeight) + RatersWeight[x]
      BY <1>2, <1>3, <3>1, <3>3, GainPlus
    <3>6. /\ ScoreWeight[x] = rating'[r][t] - rating[r][t]
          /\ RatersWeight[x] = Counts(rating'[r][t]) - Counts(rating[r][t])
      BY <3>2, WeightTypes
    <3>7. /\ ScoreOf(events', t) = ScoreOf(events, t) + (rating'[r][t] - rating[r][t])
          /\ RatersOf(events', t)
               = RatersOf(events, t) + (Counts(rating'[r][t]) - Counts(rating[r][t]))
      BY <1>3, <3>4, <3>5, <3>6, SumsAreGains
    <3>8. /\ Counts(rating'[r][t]) \in Int /\ Counts(rating[r][t]) \in Int
          /\ rating'[r][t] \in Int /\ score' = score /\ raters' = raters
      BY <2>6, <2>7 DEF Counts
    <3> QED BY <2>3, <2>4, <2>5, <2>7, <2>8, <3>7, <3>8
  <2> QED BY <2>9, <2>10
<1> QED BY <1>5 DEF AggregationsAreExact, RatersNow

(* A commit finds the rater's credit, the proxy's books and the other      *)
(* requests as they have to be, and leaves them so.                        *)
LEMMA CommitStep == ASSUME LedgerInv, NEW s \in Sessions, Commit(s) PROVE LedgerInv'
<1> DEFINE r == RaterOf[s]
           new == [t \in Targets |-> NewRating(s, t)]
           blind == IF req[s].kind = "edit" THEN {} ELSE Blind(r, rated[s], seen[s])
           charged == {t \in Targets : owed[s][t] # 0}
<1>1. TypeOK /\ RequestOK(s) /\ Open(s) /\ JobOK /\ BooksOK
  BY DEF LedgerInv, RequestsOK, Commit, Open
<1>2. /\ r \in Raters /\ rating[r] \in [Targets -> Int] /\ credit[r] \in Nat
      /\ seen[s] \in [Targets -> Int] /\ owed[s] \in [Targets -> Int]
      /\ paid[s] \in Int /\ rated[s] \in SUBSET Targets
  BY <1>1, RowTypes
<1>3. req[s] \in Requests /\ req[s].amount \in Int
  BY <1>1, RequestTyped DEF RequestOK, OpenOK
<1>4. new \in [Targets -> Int]
  BY <1>2, <1>3 DEF NewRating
<1>5. Blind(r, rated[s], seen[s]) \subseteq blind /\ blind \in SUBSET Targets
  BY <1>1, <1>2 DEF RequestOK, EditOK, Blind
<1>6. Writes(r, rated[s], seen[s], new, blind)
  <2>1. Write(r, rated[s], seen[s], new, blind) /\ UNCHANGED txVars
    BY DEF Commit, ElsewhereUnchanged
  <2> HIDE DEF new, blind, r
  <2> QED BY <1>2, <1>4, <1>5, <2>1 DEF Writes
<1>7. /\ rating' \in [Raters -> [Targets -> Int]] /\ rep' \in [Targets -> Int]
      /\ rating'[r] = [t \in Targets |-> IF t \in rated[s] THEN new[t] ELSE rating[r][t]]
      /\ \A p \in Raters \ {r} : rating'[p] = rating[p]
      /\ EventsTypeOK'
  BY <1>1, <1>6, WriteTypes
<1>8. /\ pc[s] = "ready" /\ (\A t \in rated[s] : RowFree(r, t, s))
      /\ spent' = [spent EXCEPT ![r] = @ + paid[s]]
      /\ outstanding' = [outstanding EXCEPT ![r] = [t \in Targets |-> @[t] + owed[s][t]]]
      /\ stale' = (stale \ {s}) \cup Others(r, s)
      /\ jmoved' = jmoved \cup {r}
      /\ excused' = (IF s \in stale THEN excused \cup {r} ELSE excused)
      /\ swallowed' = (IF charged \subseteq rated[s] THEN swallowed ELSE swallowed \cup {r})
      /\ EndRequest(s, "done")
      /\ UNCHANGED <<score, raters>> /\ UNCHANGED <<due, jobVars, txVars, faults>>
  BY DEF Commit, ElsewhereUnchanged
<1>9. unseen' = unseen \cup blind /\ corrupt' = corrupt \cup blind /\ credit' = credit
  BY <1>6 DEF Writes, Write
<1>10. /\ RequestsTypeOK' /\ paid'[s] = 0
       /\ \A q \in Sessions \ {s} : RequestKept(q)
       /\ spent'[r] \in 0 .. Allowance => RequestOK(s)'
  <2>1. RequestsTypeOK
    BY <1>1 DEF TypeOK
  <2> QED BY <1>8, <2>1, EndedRequest
<1>11. /\ spent'[r] = spent[r] + paid[s] /\ (\A p \in Raters \ {r} : spent'[p] = spent[p])
       /\ spent' \in [Raters -> Int]
  BY <1>1, <1>2, <1>8 DEF TypeOK, LedgerTypeOK
<1>12. /\ outstanding' \in [Raters -> [Targets -> Int]]
       /\ outstanding'[r] = [t \in Targets |-> outstanding[r][t] + owed[s][t]]
       /\ \A p \in Raters \ {r} : outstanding'[p] = outstanding[p]
  BY <1>1, <1>2, <1>8 DEF TypeOK, LedgerTypeOK
<1>13. LedgerTypeOK' /\ JobTypeOK'
  BY <1>1, <1>7, <1>8, <1>9, <1>11, <1>12 DEF TypeOK, LedgerTypeOK, JobTypeOK, jobVars
<1>14. GhostsTypeOK'
  <2>1. Others(r, s) \subseteq Sessions
    BY DEF Others
  <2> QED BY <1>1, <1>2, <1>5, <1>8, <1>9, <2>1 DEF TypeOK, GhostsTypeOK
<1> HIDE DEF new, blind, charged
<1>15. spent[r] \in Int /\ spent'[r] \in 0 .. Allowance
  BY <1>1, <1>2, <1>11 DEF RequestOK, AllowanceOK, TypeOK, LedgerTypeOK
<1>16. ASSUME NEW q \in Sessions \ {s}, NEW p \in Sessions \ {s}
       PROVE  ActionOK(q, p)' /\ ActionOK(s, q)' /\ ActionOK(q, s)'
  <2>1. ActionOK(q, p)
    BY DEF LedgerInv, RequestsOK
  <2> QED BY <1>10, <2>1 DEF ActionOK, RequestKept
<1>17. \A q, p \in Sessions : ActionOK(q, p)'
  BY <1>10, <1>16 DEF ActionOK
<1>18. ASSUME NEW q \in Sessions PROVE RequestOK(q)'
  <2>1. CASE q = s
    BY <1>10, <1>15, <2>1
  <2>2. CASE q # s
    <3>1. RequestOK(q) /\ RequestKept(q) /\ RaterOf[q] \in Raters
      BY <1>1, <1>10, <2>2, RowTypes DEF LedgerInv, RequestsOK
    <3>2. (q \in stale => q \in stale') /\ (RaterOf[q] \in excused => RaterOf[q] \in excused')
      BY <1>8, <2>2
    <3>3. CASE RaterOf[q] # r
      BY <1>7, <1>9, <1>11, <3>1, <3>2, <3>3, RequestFrame
    <3>4. CASE RaterOf[q] = r
      <4>1. Open(q)' = Open(q) /\ Charged(q)' = Charged(q)
        BY <3>1 DEF Open, Charged, RequestKept
      <4>2. Open(q) => q \in stale'
        BY <1>8, <2>2, <3>4 DEF Others
      <4>3. OpenOK(q)' /\ SeenOK(q)' /\ OutcomeOK(q)' /\ PaidOK(q)'
        BY <3>1, <4>1, <4>2 DEF RequestOK, OpenOK, SeenOK, OutcomeOK, PaidOK, RequestKept
      <4>4. EditOK(q)'
        <5> SUFFICES ASSUME Open(q), req[q].kind = "edit", NEW t \in rated[q]
                     PROVE  seen[q][t] = rating'[r][t]
          BY <3>1, <3>4, <4>1 DEF EditOK, RequestKept
        <5>1. HoldsRow(q, t) /\ t \in Targets /\ seen[q][t] = rating[r][t]
          BY <1>1, <3>1, <3>4, RowTypes DEF RequestOK, OpenOK, EditOK, HoldsRow
        <5>2. t \notin rated[s]
          BY <1>8, <2>2, <3>4, <5>1 DEF RowFree
        <5> QED BY <1>7, <5>1, <5>2
      <4>5. AllowanceOK(q)'
        <5>1. ActionOK(s, q) /\ AllowanceOK(q) /\ paid'[q] = paid[q] /\ paid[q] \in Int
          BY <1>1, <3>1, RowTypes DEF LedgerInv, RequestsOK, RequestOK, RequestKept
        <5>2. paid[s] = 0 \/ paid[q] = 0
          BY <2>2, <3>4, <5>1 DEF ActionOK
        <5> QED BY <1>2, <1>11, <1>15, <3>4, <5>1, <5>2 DEF AllowanceOK
      <4> QED BY <4>3, <4>4, <4>5 DEF RequestOK
    <3> QED BY <3>3, <3>4
  <2> QED BY <2>1, <2>2
<1>19. JobOK'
  <2>1. \A p \in Raters \ jmoved' : rating'[p] = rating[p] /\ p # r /\ p \notin jmoved
    BY <1>7, <1>8
  <2>2. /\ jpc' = jpc /\ tally' = tally /\ jcredit' = jcredit /\ jrater' = jrater /\ jseen' = jseen
        /\ (jpc = "read" => jrater \in Raters)
    BY <1>1, <1>8 DEF jobVars, TypeOK, JobTypeOK
  <2> QED BY <1>1, <1>9, <2>1, <2>2 DEF JobOK
<1>20. RepIsTheSum' /\ AggregationsAreExact'
  BY <1>1, <1>6, <1>8, WriteRep, WriteAggregations DEF BooksOK
<1>21. ASSUME NEW p \in Raters \ excused' PROVE Spending(rating'[p]) <= credit'[p]
  <2>1. p \notin excused /\ (p = r => s \notin stale)
    BY <1>8
  <2>2. CASE p # r
    BY <1>1, <1>7, <1>9, <2>1, <2>2 DEF BooksOK, CreditKept
  <2>3. CASE p = r
    <3>1. Spending(Outcome(s)) <= credit[r]
      BY <1>1, <2>1, <2>3 DEF RequestOK, OutcomeOK
    <3>2. rating'[r] = Outcome(s)
      BY <1>2, <1>7 DEF Outcome, new
    <3> QED BY <1>9, <2>3, <3>1, <3>2
  <2> QED BY <2>2, <2>3
<1>22. ASSUME NEW p \in Raters
       PROVE  /\ spent'[p] <= Allowance
              /\ p \notin swallowed' => spent'[p] = Total(outstanding'[p], Targets)
  <2>1. /\ spent[p] <= Allowance
        /\ p \notin swallowed => spent[p] = Total(outstanding[p], Targets)
    BY <1>1 DEF BooksOK, ProxyBooksBalance
  <2>2. CASE p # r
    BY <1>8, <1>11, <1>12, <2>1, <2>2
  <2>3. CASE p = r
    <3> SUFFICES ASSUME p \notin swallowed'
                 PROVE  spent'[r] = Total(outstanding'[r], Targets)
      BY <1>15, <2>3, ConstantsAssumption
    <3>1. p \notin swallowed /\ charged \subseteq rated[s]
      BY <1>8, <2>3
    <3>2. Charged(s) = owed[s]
      BY <1>2, <3>1 DEF Charged, charged
    <3>3. paid[s] = Total(owed[s], Targets)
      BY <1>1, <3>2 DEF RequestOK, PaidOK
    <3>4. outstanding[r] \in [Targets -> Int]
      BY <1>1, <1>2 DEF TypeOK, LedgerTypeOK
    <3>5. \A t \in Targets : /\ outstanding[r][t] \in Int /\ owed[s][t] \in Int
                             /\ outstanding'[r][t] = outstanding[r][t] + owed[s][t]
      BY <1>2, <1>12, <3>4
    <3>6. Total(outstanding'[r], Targets)
            = Total(outstanding[r], Targets) + Total(owed[s], Targets)
      BY <3>5, ConstantsAssumption, TotalAdd
    <3> QED BY <1>11, <2>1, <2>3, <3>1, <3>3, <3>6
  <2> QED BY <2>2, <2>3
<1>23. BooksOK'
  BY <1>20, <1>21, <1>22 DEF BooksOK, CreditKept, ProxyBooksBalance
<1> QED BY <1>7, <1>10, <1>13, <1>14, <1>17, <1>18, <1>19, <1>23
        DEF LedgerInv, TypeOK, RequestsOK
-----------------------------------------------------------------------------
(* The recalculation and the over-rates Lambda.                            *)

(* What they do not touch.                                                 *)
LEMMA RequestsFrame ==
  ASSUME LedgerInv, UNCHANGED reqVars
  PROVE  /\ RequestsTypeOK' /\ \A q \in Sessions : RequestKept(q)
         /\ \A q, p \in Sessions : ActionOK(q, p)'
BY DEF LedgerInv, TypeOK, RequestsOK, RequestsTypeOK, RequestKept, ActionOK, reqVars

(* The daily recalculation.                                                *)
LEMMA RecalculateStep == ASSUME LedgerInv, Recalculate PROVE LedgerInv'
<1>1. PICK new \in {f \in [Raters -> UNION Range(Credits)] : \A r \in Raters : f[r] \in Credits[r]} :
        LET changed == {r \in Raters : new[r] # credit[r]} IN
        /\ credit' = new
        /\ rep' = [t \in Targets |-> Received(t)]
        /\ due' = TRUE
        /\ unseen' = {}
        /\ stale' = stale \cup {s \in Sessions : Open(s) /\ RaterOf[s] \in changed}
        /\ jmoved' = jmoved \cup changed
        /\ excused' = excused \cup {r \in Raters : Spending(rating[r]) > new[r]}
        /\ UNCHANGED <<rating, outbox, books, reqVars, jobVars, txVars, faults, corrupt, swallowed>>
  BY DEF Recalculate
<1>2. credit' \in [Raters -> Nat]
  BY <1>1, ConstantsAssumption
<1>3. TypeOK /\ JobOK /\ BooksOK
  BY DEF LedgerInv
<1>4. \A t \in Targets : Received(t) \in Int /\ Received(t)' = Received(t)
  <2> TAKE t \in Targets
  <2>1. \A r \in Raters : [q \in Raters |-> rating[q][t]][r] \in Int
    BY <1>3 DEF TypeOK, LedgerTypeOK
  <2> QED BY <1>1, <2>1, ConstantsAssumption, TotalType DEF Received
<1>5. LedgerTypeOK' /\ JobTypeOK'
  BY <1>1, <1>2, <1>3, <1>4 DEF TypeOK, LedgerTypeOK, JobTypeOK, outbox, books, jobVars
<1>6. GhostsTypeOK'
  BY <1>1, <1>3 DEF TypeOK, GhostsTypeOK
<1>7. EventsTypeOK'
  BY <1>1, <1>3 DEF TypeOK, EventsTypeOK, Locked, outbox, txVars
<1>8. /\ RequestsTypeOK' /\ (\A q \in Sessions : RequestKept(q))
      /\ \A q, p \in Sessions : ActionOK(q, p)'
  BY <1>1, RequestsFrame
<1>9. ASSUME NEW q \in Sessions PROVE RequestOK(q)'
  <2>1. RequestOK(q) /\ RaterOf[q] \in Raters
    BY <1>3, RowTypes DEF LedgerInv, RequestsOK
  <2>2. Open(q) /\ q \notin stale' => credit'[RaterOf[q]] = credit[RaterOf[q]]
    BY <1>1, <2>1
  <2>3. /\ q \in stale => q \in stale'
        /\ RaterOf[q] \in excused => RaterOf[q] \in excused'
        /\ rating' = rating /\ spent' = spent
    BY <1>1 DEF books
  <2> QED BY <1>8, <2>1, <2>2, <2>3, RequestFrame
<1>10. JobOK'
  <2>1. \A r \in Raters \ jmoved' : r \notin jmoved /\ credit'[r] = credit[r]
    BY <1>1
  <2>2. /\ rating' = rating /\ jpc' = jpc /\ tally' = tally /\ jcredit' = jcredit
        /\ jrater' = jrater /\ jseen' = jseen /\ (jpc = "read" => jrater \in Raters)
        /\ jmoved \subseteq jmoved'
    BY <1>1, <1>3 DEF jobVars, TypeOK, JobTypeOK
  <2> QED BY <1>3, <2>1, <2>2 DEF JobOK
<1>11. RepIsTheSum'
  BY <1>1, <1>4 DEF RepIsTheSum
<1>12. AggregationsAreExact'
  BY <1>1, <1>3, <1>4 DEF BooksOK, AggregationsAreExact, outbox
<1>13. CreditKept'
  <2>1. ASSUME NEW r \in Raters \ excused' PROVE Spending(rating[r]) <= new[r]
    <3>1. Spending(rating[r]) \in Nat /\ new[r] \in Nat
      BY <1>1, <1>2, <1>3, SpendingType DEF TypeOK, LedgerTypeOK
    <3> QED BY <1>1, <2>1, <3>1
  <2> QED BY <1>1, <2>1 DEF CreditKept
<1>14. ProxyBooksBalance'
  BY <1>1, <1>3 DEF BooksOK, ProxyBooksBalance, books
<1> QED BY <1>5, <1>6, <1>7, <1>8, <1>9, <1>10, <1>11, <1>12, <1>13, <1>14
        DEF LedgerInv, TypeOK, RequestsOK, BooksOK

(* Steps of the over-rates Lambda that write nothing.                      *)
LEMMA JobFrame ==
  ASSUME LedgerInv, JobUnchanged, UNCHANGED <<ledger, events, stale, unseen, corrupt, excused>>,
         JobTypeOK', faults' \in 0 .. MaxFaults, jmoved' \subseteq Raters, JobOK'
  PROVE  LedgerInv'
<1> USE DEF JobUnchanged, ledger, books, txVars
<1>1. LedgerTypeOK' /\ GhostsTypeOK'
  BY DEF LedgerInv, TypeOK, LedgerTypeOK, GhostsTypeOK
<1>2. EventsTypeOK'
  BY DEF LedgerInv, TypeOK, EventsTypeOK, Locked
<1>3. /\ RequestsTypeOK' /\ (\A q \in Sessions : RequestKept(q))
      /\ \A q, p \in Sessions : ActionOK(q, p)'
  BY RequestsFrame
<1>4. ASSUME NEW q \in Sessions PROVE RequestOK(q)'
  <2>1. RequestOK(q)
    BY DEF LedgerInv, RequestsOK
  <2> QED BY <1>3, <2>1, RequestFrame
<1>5. RepIsTheSum' /\ CreditKept' /\ ProxyBooksBalance'
  BY DEF LedgerInv, BooksOK, RepIsTheSum, CreditKept, ProxyBooksBalance, Received
<1>6. AggregationsAreExact'
  BY DEF LedgerInv, BooksOK, AggregationsAreExact, Received
<1> QED BY <1>1, <1>2, <1>3, <1>4, <1>5, <1>6 DEF LedgerInv, TypeOK, RequestsOK, BooksOK

(* The over-rates Lambda finds the raters that are over.                   *)
LEMMA JobBeginStep == ASSUME LedgerInv, JobBegin PROVE LedgerInv'
<1>1. \A r \in Raters : rating[r] \in [Targets -> Int] /\ Spending(rating[r]) \in Nat
  BY SpendingType DEF LedgerInv, TypeOK, LedgerTypeOK
<1>2. JobTypeOK'
  BY <1>1 DEF LedgerInv, TypeOK, LedgerTypeOK, JobTypeOK, JobBegin
<1>3. JobOK'
  BY <1>1 DEF JobBegin, JobOK, ledger
<1>4. faults' \in 0 .. MaxFaults /\ jmoved' \subseteq Raters
  BY DEF JobBegin, LedgerInv, TypeOK, GhostsTypeOK
<1> QED BY <1>2, <1>3, <1>4, JobFrame DEF JobBegin

(* It reads the ratings of one of them.                                    *)
LEMMA JobReadStep == ASSUME LedgerInv, NEW r \in Raters, JobRead(r) PROVE LedgerInv'
<1>1. JobTypeOK'
  BY DEF LedgerInv, TypeOK, LedgerTypeOK, JobTypeOK, JobRead
<1>2. JobOK'
  BY DEF LedgerInv, JobRead, JobOK, ledger
<1>3. faults' \in 0 .. MaxFaults /\ jmoved' \subseteq Raters
  BY DEF JobRead, LedgerInv, TypeOK, GhostsTypeOK
<1> QED BY <1>1, <1>2, <1>3, JobFrame DEF JobRead

(* It is done.                                                             *)
LEMMA JobEndStep == ASSUME LedgerInv, JobEnd PROVE LedgerInv'
<1>1. JobTypeOK'
  BY DEF LedgerInv, TypeOK, JobTypeOK, JobEnd
<1>2. JobOK'
  BY DEF JobEnd, JobOK
<1>3. faults' \in 0 .. MaxFaults /\ jmoved' \subseteq Raters
  BY DEF JobEnd, LedgerInv, TypeOK, GhostsTypeOK
<1> QED BY <1>1, <1>2, <1>3, JobFrame DEF JobEnd

(* It fails.                                                               *)
LEMMA JobFailsStep == ASSUME LedgerInv, JobFails PROVE LedgerInv'
<1>1. JobTypeOK'
  BY DEF LedgerInv, TypeOK, JobTypeOK, JobFails, Zeros
<1>2. JobOK'
  BY DEF JobFails, JobOK
<1>3. faults' \in 0 .. MaxFaults /\ jmoved' \subseteq Raters
  BY ConstantsAssumption DEF JobFails, LedgerInv, TypeOK, GhostsTypeOK
<1> QED BY <1>1, <1>2, <1>3, JobFrame DEF JobFails

(* A share is the rating times credit over spending, towards zero.         *)
LEMMA ShareSize ==
  ASSUME JobTypeOK, jpc = "read", tally[jrater] > 0, NEW n \in Int
  PROVE  /\ Share(n) \in Int /\ Abs(Share(n)) \in Nat
         /\ tally[jrater] * Abs(Share(n)) <= Abs(n) * jcredit[jrater]
<1>1. tally[jrater] \in Nat \ {0} /\ jcredit[jrater] \in Nat /\ Abs(n) \in Nat
  BY DEF JobTypeOK, Abs
<1>2. \A a \in Nat, b \in Nat \ {0} : a \div b \in Nat /\ b * (a \div b) <= a
  OBVIOUS
<1>3. Abs(n) * jcredit[jrater] \in Nat
  <2>1. \A a, b \in Nat : a * b \in Nat
    OBVIOUS
  <2> QED BY <1>1, <2>1
<1> DEFINE size == (Abs(n) * jcredit[jrater]) \div tally[jrater]
<1>4. size \in Nat /\ tally[jrater] * size <= Abs(n) * jcredit[jrater]
  BY <1>1, <1>2, <1>3
<1> HIDE DEF size
<1>5. Share(n) = IF n < 0 THEN -size ELSE size
  BY DEF Share, size
<1>6. Abs(Share(n)) = size /\ Share(n) \in Int
  BY <1>4, <1>5 DEF Abs
<1> QED BY <1>4, <1>6

\* The over-rater's ratings with those of P cut to their shares.
CutRow(P) == [t \in Targets |-> IF t \in P THEN Share(jseen[t]) ELSE jseen[t]]

(* The loop cuts enough: either it ends because the ratings are within the *)
(* credit, or all of them are cut to their shares.                         *)
LEMMA CutIsEnough ==
  ASSUME JobTypeOK, jpc = "read", tally[jrater] > 0, tally[jrater] = Spending(jseen),
         NEW P \in Cuts
  PROVE  Spending(CutRow(P)) <= jcredit[jrater]
<1> DEFINE k == tally[jrater]
           c == jcredit[jrater]
           b == CutRow(P)
           f == [t \in P |-> Abs(jseen[t]) - Abs(Share(jseen[t]))]
           g == [t \in P |-> Abs(b[t]) - Abs(jseen[t])]
<1>1. P \in SUBSET Targets /\ jseen \in [Targets -> Int] /\ k \in Nat \ {0} /\ c \in Nat
  BY DEF Cuts, JobTypeOK
<1>2. \A t \in Targets : /\ Share(jseen[t]) \in Int /\ Abs(Share(jseen[t])) \in Nat
                         /\ k * Abs(Share(jseen[t])) <= Abs(jseen[t]) * c
  BY <1>1, ShareSize
<1>3. b \in [Targets -> Int] /\ (\A t \in Targets \ P : jseen[t] = b[t])
      /\ \A t \in P : b[t] = Share(jseen[t])
  BY <1>1, <1>2 DEF CutRow
<1>4. IsFiniteSet(P) /\ IsFiniteSet(Targets)
  BY <1>1, ConstantsAssumption, FS_Subset
<1>5. CASE Over(P) <= 0
  <2>1. Over(P) = k - c - Total(f, P)
    BY DEF Over
  <2>2. \A t \in P : f[t] \in Int /\ g[t] \in Int /\ f[t] + g[t] = 0
    BY <1>1, <1>2, <1>3 DEF Abs
  <2> DEFINE z == [t \in P |-> 0]
  <2>3. \A t \in P : f[t] \in Int /\ g[t] \in Int /\ z[t] = f[t] + g[t]
    BY <2>2
  <2> HIDE DEF b, k, c
  <2>4. Spending(b) = k + Total(g, P)
    BY <1>1, <1>3, SpendingChanges DEF k
  <2> HIDE DEF f, g, z
  <2>5. Total(z, P) = Total(f, P) + Total(g, P)
    BY <1>4, <2>3, TotalAdd
  <2>6. Total(z, P) = 0
    BY <1>4, TotalZero DEF z
  <2>7. Total(f, P) \in Int /\ Total(g, P) \in Int
    BY <1>4, <2>3, TotalType
  <2>8. Spending(b) <= c
    BY <1>1, <1>5, <2>1, <2>4, <2>5, <2>6, <2>7
  <2> QED BY <2>8 DEF b, c
<1>6. CASE ~(Over(P) <= 0)
  <2>1. \A t \in Targets : jseen[t] # 0 => t \in P
    BY <1>6 DEF Cuts
  <2> DEFINE m == [t \in Targets |-> Abs(b[t])]
             n == [t \in Targets |-> Abs(jseen[t])]
             km == [t \in Targets |-> k * m[t]]
             cn == [t \in Targets |-> c * n[t]]
  <2>2. \A t \in Targets : m[t] \in Nat /\ n[t] \in Nat
    BY <1>1, <1>3 DEF Abs
  <2>3. \A t \in Targets : k * Abs(b[t]) <= c * Abs(jseen[t])
    <3> TAKE t \in Targets
    <3>1. \A i \in Int : i * c = c * i
      BY <1>1
    <3>2. CASE t \in P
      <4>1. Abs(jseen[t]) \in Int
        BY <1>1 DEF Abs
      <4> HIDE DEF b, k, c
      <4> QED BY <1>2, <1>3, <3>1, <3>2, <4>1
    <3>3. CASE t \notin P
      <4>1. Abs(b[t]) = 0 /\ Abs(jseen[t]) = 0
        BY <1>3, <2>1, <3>3 DEF Abs
      <4> HIDE DEF b
      <4> QED BY <1>1, <4>1
    <3> QED BY <3>2, <3>3
  <2>4. \A i, j \in Int : i * j \in Int
    OBVIOUS
  <2> HIDE DEF b, k, c
  <2>5. \A t \in Targets : /\ m[t] \in Int /\ km[t] = k * m[t] /\ km[t] \in Int
                           /\ n[t] \in Int /\ cn[t] = c * n[t] /\ cn[t] \in Int
                           /\ km[t] <= cn[t]
    BY <1>1, <2>2, <2>3, <2>4
  <2>6. Total(m, Targets) = Spending(b) /\ Total(n, Targets) = k
    BY DEF Spending, k
  <2> HIDE DEF m, n, km, cn
  <2>7. Total(km, Targets) = k * Total(m, Targets)
    BY <1>1, <1>4, <2>5, TotalScale
  <2>8. Total(cn, Targets) = c * Total(n, Targets)
    BY <1>1, <1>4, <2>5, TotalScale
  <2>9. Total(km, Targets) <= Total(cn, Targets)
    BY <1>4, <2>5, TotalMonotone
  <2>10. Spending(b) \in Nat
    BY <1>3, SpendingType
  <2>11. k * Spending(b) <= c * k
    BY <2>6, <2>7, <2>8, <2>9
  <2>12. \A i \in Nat \ {0}, j \in Nat, l \in Nat : i * j <= l * i => j <= l
    OBVIOUS
  <2>13. Spending(b) <= c
    BY <1>1, <2>10, <2>11, <2>12
  <2> QED BY <2>13 DEF b, c
<1> QED BY <1>5, <1>6

(* The over-rates Lambda writes over what it has not seen, but only for    *)
(* raters that are excused then, or of targets whose sums are.             *)
LEMMA JobWriteStep == ASSUME LedgerInv, JobWrite PROVE LedgerInv'
<1>1. TypeOK /\ JobOK /\ BooksOK /\ JobTypeOK
  BY DEF LedgerInv, TypeOK
<1>2. /\ jpc = "read" /\ tally' = [tally EXCEPT ![jrater] = 0]
      /\ jpc' = "tallied" /\ jrater' = None /\ jseen' = Zeros
      /\ stale' = stale \cup Others(jrater, None)
      /\ excused' = (IF jrater \in jmoved THEN excused \cup {jrater} ELSE excused \ {jrater})
      /\ UNCHANGED <<jcredit, due, faults, jmoved>> /\ JobUnchanged
  BY DEF JobWrite
<1> DEFINE r == jrater
           new == [t \in Targets |-> Share(jseen[t])]
<1>3. PICK P \in Cuts :
        /\ \A t \in P : RowFree(r, t, None)
        /\ Write(r, P, jseen, new, Blind(r, P, jseen))
  BY DEF JobWrite
<1>4. /\ r \in Raters /\ jseen \in [Targets -> Int] /\ P \in SUBSET Targets
      /\ tally[r] > 0
  BY <1>1, <1>2 DEF JobTypeOK, JobOK, Cuts
<1>5. new \in [Targets -> Int]
  BY <1>1, <1>2, <1>4, ShareSize
<1>6. Writes(r, P, jseen, new, Blind(r, P, jseen))
  <2>1. Blind(r, P, jseen) \in SUBSET Targets
    BY <1>4 DEF Blind
  <2>2. UNCHANGED txVars
    BY <1>2 DEF JobUnchanged, txVars
  <2> HIDE DEF new, r
  <2> QED BY <1>3, <1>4, <1>5, <2>1, <2>2 DEF Writes
<1>7. /\ rating' \in [Raters -> [Targets -> Int]] /\ rep' \in [Targets -> Int]
      /\ rating'[r] = [t \in Targets |-> IF t \in P THEN new[t] ELSE rating[r][t]]
      /\ \A p \in Raters \ {r} : rating'[p] = rating[p]
      /\ EventsTypeOK'
  BY <1>1, <1>6, WriteTypes
<1>8. /\ unseen' = unseen \cup Blind(r, P, jseen) /\ corrupt' = corrupt \cup Blind(r, P, jseen)
      /\ credit' = credit
  BY <1>3 DEF Write
<1>9. LedgerTypeOK' /\ JobTypeOK'
  <2>1. LedgerTypeOK
    BY <1>1 DEF TypeOK
  <2>2. LedgerTypeOK'
    BY <1>2, <1>7, <1>8, <2>1 DEF LedgerTypeOK, JobUnchanged, books
  <2>3. JobTypeOK'
    BY <1>1, <1>2, <1>4 DEF JobTypeOK, Zeros
  <2> QED BY <2>2, <2>3
<1>10. GhostsTypeOK'
  <2>1. Others(r, None) \subseteq Sessions /\ Blind(r, P, jseen) \subseteq Targets
    BY <1>4 DEF Others, Blind
  <2> QED BY <1>1, <1>2, <1>4, <1>8, <2>1 DEF TypeOK, GhostsTypeOK, JobUnchanged
<1>11. /\ RequestsTypeOK' /\ (\A q \in Sessions : RequestKept(q))
       /\ \A q, p \in Sessions : ActionOK(q, p)'
  BY <1>2, RequestsFrame DEF JobUnchanged
<1>12. ASSUME NEW q \in Sessions PROVE RequestOK(q)'
  <2>1. RequestOK(q) /\ RequestKept(q) /\ RaterOf[q] \in Raters /\ q # None
    BY <1>1, <1>11, RowTypes, ConstantsAssumption DEF LedgerInv, RequestsOK
  <2>2. q \in stale => q \in stale'
    BY <1>2
  <2>3. spent' = spent
    BY <1>2 DEF JobUnchanged, books
  <2>4. CASE RaterOf[q] # r
    <3>1. RaterOf[q] \in excused => RaterOf[q] \in excused'
      BY <1>2, <2>4
    <3> QED BY <1>7, <1>8, <2>1, <2>2, <2>3, <2>4, <3>1, RequestFrame
  <2>5. CASE RaterOf[q] = r
    <3>1. Open(q)' = Open(q) /\ Charged(q)' = Charged(q)
      BY <2>1 DEF Open, Charged, RequestKept
    <3>2. Open(q) => q \in stale'
      BY <1>2, <2>1, <2>5 DEF Others
    <3>3. OpenOK(q)' /\ SeenOK(q)' /\ OutcomeOK(q)' /\ PaidOK(q)' /\ AllowanceOK(q)'
      BY <2>1, <2>3, <3>1, <3>2
         DEF RequestOK, OpenOK, SeenOK, OutcomeOK, PaidOK, AllowanceOK, RequestKept
    <3>4. EditOK(q)'
      <4> SUFFICES ASSUME Open(q), req[q].kind = "edit", NEW t \in rated[q]
                   PROVE  seen[q][t] = rating'[r][t]
        BY <2>1, <2>5, <3>1 DEF EditOK, RequestKept
      <4>1. HoldsRow(q, t) /\ t \in Targets /\ seen[q][t] = rating[r][t]
        BY <1>1, <2>1, <2>5, RowTypes DEF RequestOK, OpenOK, EditOK, HoldsRow
      <4>2. t \notin P
        BY <1>3, <2>1, <2>5, <4>1 DEF RowFree
      <4> QED BY <1>7, <4>1, <4>2
    <3> QED BY <3>3, <3>4 DEF RequestOK
  <2> QED BY <2>4, <2>5
<1>13. JobOK'
  <2>1. ASSUME NEW p \in Raters \ jmoved, tally'[p] > 0
        PROVE  tally'[p] = Spending(rating'[p]) /\ jcredit'[p] = credit'[p]
    <3>1. p # r /\ tally'[p] = tally[p]
      BY <1>1, <1>2, <1>4, <2>1 DEF JobTypeOK
    <3> QED BY <1>1, <1>2, <1>7, <1>8, <2>1, <3>1 DEF JobOK
  <2> QED BY <1>2, <2>1 DEF JobOK
<1>14. RepIsTheSum' /\ AggregationsAreExact'
  <2>1. UNCHANGED <<score, raters>>
    BY <1>2 DEF JobUnchanged
  <2> QED BY <1>1, <1>6, <2>1, WriteRep, WriteAggregations DEF BooksOK
<1>15. ASSUME NEW p \in Raters \ excused' PROVE Spending(rating'[p]) <= credit'[p]
  <2>1. CASE p # r
    BY <1>1, <1>2, <1>7, <1>8, <1>15, <2>1 DEF BooksOK, CreditKept
  <2>2. CASE p = r
    <3>1. r \notin jmoved
      BY <1>2, <1>15, <2>2
    <3>2. tally[r] = Spending(rating[r]) /\ jcredit[r] = credit[r] /\ jseen = rating[r]
      BY <1>1, <1>2, <1>4, <3>1 DEF JobOK
    <3>3. rating'[r] = CutRow(P)
      BY <1>4, <1>7, <3>2 DEF CutRow
    <3>4. Spending(CutRow(P)) <= jcredit[r]
      BY <1>1, <1>2, <1>4, <3>2, CutIsEnough
    <3> QED BY <1>8, <2>2, <3>2, <3>3, <3>4
  <2> QED BY <2>1, <2>2
<1>16. CreditKept' /\ ProxyBooksBalance'
  BY <1>1, <1>2, <1>15 DEF BooksOK, CreditKept, ProxyBooksBalance, JobUnchanged, books
<1> QED BY <1>7, <1>9, <1>10, <1>11, <1>12, <1>13, <1>14, <1>16
        DEF LedgerInv, TypeOK, RequestsOK, BooksOK
-----------------------------------------------------------------------------
(* The event Lambda.                                                       *)

(* What it does not touch.                                                 *)
LEMMA OutboxFrame ==
  ASSUME LedgerInv, OutboxUnchanged, faults' \in 0 .. MaxFaults,
         score' \in [Targets -> Int], raters' \in [Targets -> Int], EventsTypeOK',
         AggregationsAreExact'
  PROVE  LedgerInv'
<1> USE DEF OutboxUnchanged, ledger, books, ghosts
<1>1. LedgerTypeOK' /\ GhostsTypeOK' /\ JobTypeOK'
  BY DEF LedgerInv, TypeOK, LedgerTypeOK, GhostsTypeOK, JobTypeOK, jobVars
<1>2. /\ RequestsTypeOK' /\ (\A q \in Sessions : RequestKept(q))
      /\ \A q, p \in Sessions : ActionOK(q, p)'
  BY RequestsFrame
<1>3. ASSUME NEW q \in Sessions PROVE RequestOK(q)'
  <2>1. RequestOK(q)
    BY DEF LedgerInv, RequestsOK
  <2> QED BY <1>2, <2>1, RequestFrame
<1>4. JobOK'
  BY DEF LedgerInv, JobOK, jobVars
<1>5. RepIsTheSum' /\ CreditKept' /\ ProxyBooksBalance'
  BY DEF LedgerInv, BooksOK, RepIsTheSum, CreditKept, ProxyBooksBalance, Received
<1> QED BY <1>1, <1>2, <1>3, <1>4, <1>5 DEF LedgerInv, TypeOK, RequestsOK, BooksOK

(* The bag of events, the locks on them, and the one the Lambda gives up.  *)
LEMMA LockedFacts ==
  ASSUME EventsTypeOK
  PROVE  /\ \A e : \A c \in Connections :
              Copies(e, batch[c]) \in Nat /\ Copies(e, batch[c]) <= Locked(e)
         /\ \A e : Locked(e) \in Nat /\ Locked(e) <= Copies(e, events) /\ Copies(e, events) \in Nat
<1>1. \A e : \A c \in Connections : Copies(e, batch[c]) \in Nat
  BY CopiesType DEF EventsTypeOK
<1>2. ASSUME NEW e
      PROVE  Locked(e) \in Nat /\ \A c \in Connections : Copies(e, batch[c]) <= Locked(e)
  <2> DEFINE f == [c \in Connections |-> Copies(e, batch[c])]
  <2>1. \A c \in Connections : f[c] \in Nat
    BY <1>1
  <2>2. Total(f, Connections) \in Nat /\ \A c \in Connections : f[c] <= Total(f, Connections)
    BY <2>1, ConstantsAssumption, TotalNat
  <2> QED BY <2>2 DEF Locked
<1>3. ASSUME NEW e PROVE Locked(e) <= Copies(e, events) /\ Copies(e, events) \in Nat
  <2>1. Copies(e, events) \in Nat
    BY CopiesType DEF EventsTypeOK
  <2>2. CASE e \in BagToSet(events)
    BY <2>1, <2>2 DEF EventsTypeOK
  <2>3. CASE e \notin BagToSet(events)
    <3>1. \A c \in Connections : Copies(e, batch[c]) = 0
      BY <2>3 DEF EventsTypeOK, Copies, BagIn
    <3>2. Locked(e) = 0
      BY <3>1, ConstantsAssumption, TotalZero DEF Locked
    <3> QED BY <2>1, <3>2
  <2> QED BY <2>1, <2>2, <2>3
<1> QED BY <1>1, <1>2, <1>3

(* One connection's batch changes: so do the locks.                        *)
LEMMA LockedChange ==
  ASSUME EventsTypeOK, NEW c \in Connections, NEW B, IsABag(B),
         batch' = [batch EXCEPT ![c] = B]
  PROVE  \A e : Locked(e)' = Locked(e) + Copies(e, B) - Copies(e, batch[c])
<1> TAKE e
<1> DEFINE f == [d \in Connections |-> Copies(e, batch[d])]
           g == [d \in Connections |-> Copies(e, batch'[d])]
<1>1. batch'[c] = B /\ \A d \in Connections \ {c} : batch'[d] = batch[d]
  BY DEF EventsTypeOK
<1>2. \A d \in Connections : f[d] \in Int /\ g[d] \in Int
  <2>1. \A d \in Connections : IsABag(batch[d]) /\ IsABag(batch'[d])
    BY <1>1 DEF EventsTypeOK
  <2> QED BY <2>1, CopiesType
<1>3. \A d \in Connections \ {c} : f[d] = g[d]
  BY <1>1
<1>4. f[c] = Copies(e, batch[c]) /\ g[c] = Copies(e, B)
  BY <1>1
<1> HIDE DEF f, g
<1>5. Total(g, Connections) = Total(f, Connections) + g[c] - f[c]
  BY <1>2, <1>3, ConstantsAssumption, TotalChange
<1> QED BY <1>4, <1>5 DEF Locked, f, g

(* The empty bag.                                                          *)
LEMMA EmptyBagFacts == IsABag(EmptyBag) /\ BagToSet(EmptyBag) = {} /\ \A e : Copies(e, EmptyBag) = 0
BY DEF IsABag, BagToSet, EmptyBag, SetToBag, Copies, BagIn

(* A batch takes no more of the events than nobody has locked.             *)
LEMMA BatchFits ==
  ASSUME EventsTypeOK, NEW B \in Batches
  PROVE  /\ IsABag(B) /\ BagToSet(B) \subseteq BagToSet(events)
         /\ \A e : Copies(e, B) \in Nat /\ Locked(e) + Copies(e, B) <= Copies(e, events)
<1>1. PICK D \in SUBSET BagToSet(Lockable) : B \in [D -> 1 .. BatchSize]
  BY DEF Batches
<1>2. BatchSize \in Nat
  BY ConstantsAssumption
<1>3. IsABag(B) /\ DOMAIN B = D
  BY <1>1, <1>2 DEF IsABag
<1>4. /\ BagToSet(Lockable) \subseteq BagToSet(events)
      /\ \A e \in BagToSet(Lockable) : Lockable[e] = Copies(e, events) - Locked(e)
  BY DEF Lockable, BagToSet
<1>5. \A e \in D : B[e] <= Lockable[e]
  BY <1>3 DEF Batches, \sqsubseteq
<1>6. BagToSet(B) \subseteq BagToSet(events)
  BY <1>1, <1>3, <1>4 DEF BagToSet
<1>7. ASSUME NEW e PROVE Copies(e, B) \in Nat /\ Locked(e) + Copies(e, B) <= Copies(e, events)
  <2>1. Copies(e, B) \in Nat
    BY <1>3, CopiesType
  <2>2. Locked(e) \in Nat /\ Locked(e) <= Copies(e, events) /\ Copies(e, events) \in Nat
    BY LockedFacts
  <2>3. CASE e \in D
    <3>1. Copies(e, B) = B[e] /\ B[e] <= Copies(e, events) - Locked(e)
      BY <1>1, <1>3, <1>4, <1>5, <2>3 DEF Copies, BagIn, BagToSet
    <3> QED BY <2>1, <2>2, <3>1
  <2>4. CASE e \notin D
    BY <1>3, <2>2, <2>4 DEF Copies, BagIn, BagToSet
  <2> QED BY <2>1, <2>3, <2>4
<1> QED BY <1>3, <1>6, <1>7

(* A batch that is locked.                                                 *)
LEMMA LockNewEventsStep ==
  ASSUME LedgerInv, NEW c \in Connections, LockNewEvents(c) PROVE LedgerInv'
<1>1. EventsTypeOK /\ LedgerTypeOK /\ faults \in 0 .. MaxFaults
  BY DEF LedgerInv, TypeOK, GhostsTypeOK
<1>2. PICK B \in Batches : batch' = [batch EXCEPT ![c] = B]
  BY DEF LockNewEvents
<1>3. batch[c] = EmptyBag /\ runner' = c /\ UNCHANGED <<outbox, faults>> /\ OutboxUnchanged
  BY DEF LockNewEvents
<1>4. /\ IsABag(B) /\ BagToSet(B) \subseteq BagToSet(events)
      /\ \A e : Copies(e, B) \in Nat /\ Locked(e) + Copies(e, B) <= Copies(e, events)
  BY <1>1, BatchFits
<1>5. \A e : Locked(e)' = Locked(e) + Copies(e, B)
  <2> TAKE e
  <2>1. Locked(e)' = Locked(e) + Copies(e, B) - Copies(e, batch[c])
    BY <1>1, <1>2, <1>4, LockedChange
  <2>2. Copies(e, batch[c]) = 0 /\ Locked(e) \in Nat /\ Copies(e, B) \in Nat
    BY <1>1, <1>3, <1>4, EmptyBagFacts, LockedFacts
  <2> QED BY <2>1, <2>2
<1>6. EventsTypeOK'
  BY <1>1, <1>2, <1>3, <1>4, <1>5 DEF EventsTypeOK, outbox
<1>7. AggregationsAreExact' /\ score' \in [Targets -> Int] /\ raters' \in [Targets -> Int]
  BY <1>1, <1>3 DEF LedgerInv, BooksOK, AggregationsAreExact, Received, LedgerTypeOK,
                    OutboxUnchanged, ledger, outbox, ghosts
<1> QED BY <1>1, <1>3, <1>6, <1>7, OutboxFrame

(* A batch that is counted leaves the outbox together with its locks.      *)
LEMMA ProcessBatchStep ==
  ASSUME LedgerInv, NEW c \in Connections, ProcessBatch(c) PROVE LedgerInv'
<1> DEFINE B == batch[c]
<1>1. EventsTypeOK /\ LedgerTypeOK /\ faults \in 0 .. MaxFaults
  BY DEF LedgerInv, TypeOK, GhostsTypeOK
<1>2. /\ score' = [t \in Targets |-> score[t] + ScoreOf(B, t)]
      /\ raters' = [t \in Targets |-> raters[t] + RatersOf(B, t)]
      /\ events' = events (-) B
      /\ batch' = [batch EXCEPT ![c] = EmptyBag]
      /\ UNCHANGED <<runner, faults>> /\ OutboxUnchanged
  BY DEF ProcessBatch
<1>3. /\ IsABag(events) /\ IsFiniteSet(BagToSet(events)) /\ BagToSet(events) \subseteq EventType
      /\ IsABag(B) /\ BagToSet(B) \subseteq BagToSet(events)
  BY <1>1 DEF EventsTypeOK
<1>4. \A e : /\ Copies(e, B) \in Nat /\ Copies(e, B) <= Locked(e)
             /\ Locked(e) \in Nat /\ Locked(e) <= Copies(e, events) /\ Copies(e, events) \in Nat
  BY <1>1, LockedFacts
<1>5. \A e : Copies(e, B) <= Copies(e, events)
  BY <1>4
<1> HIDE DEF B
<1>6. /\ IsABag(events') /\ BagToSet(events') \subseteq BagToSet(events)
      /\ \A e : Copies(e, events') = Copies(e, events) - Copies(e, B)
  BY <1>2, <1>3, <1>5, BagMinus
<1>7. \A e : Locked(e)' = Locked(e) - Copies(e, B)
  <2> TAKE e
  <2>1. Locked(e)' = Locked(e) + Copies(e, EmptyBag) - Copies(e, batch[c])
    BY <1>1, <1>2, EmptyBagFacts, LockedChange
  <2>2. Copies(e, EmptyBag) = 0 /\ Locked(e) \in Nat /\ Copies(e, B) \in Nat
    BY <1>4, EmptyBagFacts
  <2> QED BY <2>1, <2>2 DEF B
<1>8. \A e : Locked(e)' <= Copies(e, events')
  BY <1>4, <1>6, <1>7
<1>9. IsFiniteSet(BagToSet(events')) /\ BagToSet(events') \subseteq EventType
  BY <1>3, <1>6, FS_Subset
<1>10. /\ DOMAIN batch' = Connections /\ batch'[c] = EmptyBag
       /\ \A d \in Connections \ {c} : batch'[d] = batch[d]
       /\ \A d \in Connections : IsABag(batch'[d])
  BY <1>1, <1>2, EmptyBagFacts DEF EventsTypeOK
<1>11. ASSUME NEW d \in Connections, NEW e \in BagToSet(batch'[d]) PROVE e \in BagToSet(events')
  <2> DEFINE f == [x \in Connections |-> Copies(e, batch'[x])]
  <2>1. \A x \in Connections : f[x] \in Nat
    BY <1>10, CopiesType
  <2>2. f[d] <= Total(f, Connections) /\ Total(f, Connections) \in Nat
    BY <2>1, ConstantsAssumption, TotalNat
  <2>3. Total(f, Connections) = Locked(e)'
    BY DEF Locked
  <2>4. f[d] > 0
    BY <1>10, <1>11 DEF IsABag, Copies, BagIn, BagToSet
  <2>5. f[d] \in Nat /\ Copies(e, events') \in Nat
    BY <1>6, <2>1, CopiesType
  <2> HIDE DEF f
  <2>6. Copies(e, events') # 0
    BY <1>8, <2>2, <2>3, <2>4, <2>5
  <2> QED BY <2>6 DEF Copies, BagIn
<1>12. EventsTypeOK'
  <2>1. runner' \in Connections \cup {None}
    BY <1>1, <1>2 DEF EventsTypeOK
  <2> QED BY <1>6, <1>8, <1>9, <1>10, <1>11, <2>1 DEF EventsTypeOK
<1>13. BagToSet(B) \subseteq EventType /\ IsFiniteSet(BagToSet(B))
  BY <1>3, FS_Subset
<1>14. \A t \in Targets : ScoreOf(B, t) \in Int /\ RatersOf(B, t) \in Int
  BY <1>3, <1>13, SumsTypes
<1>15. score' \in [Targets -> Int] /\ raters' \in [Targets -> Int]
  BY <1>1, <1>2, <1>14 DEF LedgerTypeOK
<1>16. ASSUME NEW t
       PROVE  /\ ScoreOf(events', t) = ScoreOf(events, t) - ScoreOf(B, t)
              /\ RatersOf(events', t) = RatersOf(events, t) - RatersOf(B, t)
  <2>1. \A e \in BagToSet(events) : ScoreWeight[e] \in Int /\ RatersWeight[e] \in Int
    BY <1>3, WeightTypes
  <2>2. Gain(events', t, ScoreWeight) = Gain(events, t, ScoreWeight) - Gain(B, t, ScoreWeight)
    BY <1>2, <1>3, <1>5, <2>1, GainMinus
  <2>3. Gain(events', t, RatersWeight) = Gain(events, t, RatersWeight) - Gain(B, t, RatersWeight)
    BY <1>2, <1>3, <1>5, <2>1, GainMinus
  <2> QED BY <1>3, <1>9, <1>13, <2>2, <2>3, SumsAreGains
<1>17. AggregationsAreExact'
  <2> SUFFICES ASSUME NEW t \in Targets \ corrupt
               PROVE  /\ score'[t] + ScoreOf(events', t) = Received(t)
                      /\ raters'[t] + RatersOf(events', t) = Cardinality(RatersNow(t))
    BY <1>2 DEF AggregationsAreExact, RatersNow, OutboxUnchanged, ledger, ghosts, Received
  <2>1. /\ score[t] + ScoreOf(events, t) = Received(t)
        /\ raters[t] + RatersOf(events, t) = Cardinality(RatersNow(t))
    BY DEF LedgerInv, BooksOK, AggregationsAreExact, RatersNow
  <2>2. /\ score'[t] = score[t] + ScoreOf(B, t) /\ raters'[t] = raters[t] + RatersOf(B, t)
        /\ score[t] \in Int /\ raters[t] \in Int
    BY <1>1, <1>2 DEF LedgerTypeOK
  <2>3. ScoreOf(events, t) \in Int /\ RatersOf(events, t) \in Int
    BY <1>3, SumsTypes
  <2> QED BY <1>14, <1>16, <2>1, <2>2, <2>3
<1> QED BY <1>1, <1>2, <1>12, <1>15, <1>17, OutboxFrame

(* A runner that comes or goes.                                            *)
LEMMA RunnerStep ==
  ASSUME LedgerInv, OutboxUnchanged, UNCHANGED <<outbox, batch>>,
         runner' = None, faults' \in 0 .. MaxFaults
  PROVE  LedgerInv'
<1>1. EventsTypeOK'
  BY DEF LedgerInv, TypeOK, EventsTypeOK, Locked, outbox
<1>2. AggregationsAreExact' /\ score' \in [Targets -> Int] /\ raters' \in [Targets -> Int]
  BY DEF LedgerInv, BooksOK, AggregationsAreExact, Received, TypeOK, LedgerTypeOK,
         OutboxUnchanged, ledger, outbox, ghosts
<1> QED BY <1>1, <1>2, OutboxFrame

(* Locks that the server gives back.                                       *)
LEMMA ServerRollsBackStep ==
  ASSUME LedgerInv, NEW c \in Connections, ServerRollsBack(c) PROVE LedgerInv'
<1>1. EventsTypeOK /\ LedgerTypeOK /\ faults \in 0 .. MaxFaults
  BY DEF LedgerInv, TypeOK, GhostsTypeOK
<1>2. batch' = [batch EXCEPT ![c] = EmptyBag] /\ UNCHANGED <<outbox, runner, faults>> /\ OutboxUnchanged
  BY DEF ServerRollsBack
<1>3. \A e : Locked(e)' <= Copies(e, events)
  <2> TAKE e
  <2>1. Locked(e)' = Locked(e) + Copies(e, EmptyBag) - Copies(e, batch[c])
    BY <1>1, <1>2, EmptyBagFacts, LockedChange
  <2>2. Copies(e, EmptyBag) = 0
    BY EmptyBagFacts
  <2>3. /\ Locked(e) \in Nat /\ Copies(e, batch[c]) \in Nat
        /\ Locked(e) <= Copies(e, events) /\ Copies(e, events) \in Nat
    BY <1>1, LockedFacts
  <2> QED BY <2>1, <2>2, <2>3
<1>4. EventsTypeOK'
  BY <1>1, <1>2, <1>3, EmptyBagFacts DEF EventsTypeOK, outbox
<1>5. AggregationsAreExact' /\ score' \in [Targets -> Int] /\ raters' \in [Targets -> Int]
  BY <1>1, <1>2 DEF LedgerInv, BooksOK, AggregationsAreExact, Received, LedgerTypeOK,
                    OutboxUnchanged, ledger, outbox, ghosts
<1> QED BY <1>1, <1>2, <1>4, <1>5, OutboxFrame
-----------------------------------------------------------------------------
(* At first nothing is under way.                                          *)
LEMMA InitialInv == ASSUME Init PROVE LedgerInv
<1> USE DEF Init
<1>1. Initial \in [Raters -> [Targets -> Int]] /\ Zeros \in [Targets -> Int]
  BY ConstantsAssumption DEF Zeros
<1>2. ASSUME NEW t \in Targets PROVE rep[t] = Received(t) /\ rep[t] \in Int
  <2>1. \A r \in Raters : [q \in Raters |-> Initial[q][t]][r] \in Int
    BY <1>1
  <2>2. rep[t] = Received(t)
    BY DEF Received
  <2> QED BY <2>1, <2>2, ConstantsAssumption, TotalType DEF Received
<1>3. ASSUME NEW t \in Targets
      PROVE  raters[t] = Cardinality(RatersNow(t)) /\ raters[t] \in Int
  <2>1. raters[t] = Cardinality(RatersNow(t))
    BY DEF RatersNow
  <2>2. IsFiniteSet(RatersNow(t))
    BY ConstantsAssumption, FS_Subset DEF RatersNow
  <2> QED BY <2>1, <2>2, FS_CardinalityType
<1>4. LedgerTypeOK
  <2>1. rep \in [Targets -> Int] /\ raters \in [Targets -> Int]
    BY <1>2, <1>3
  <2> QED BY <1>1, <2>1, ConstantsAssumption DEF LedgerTypeOK
<1>5. RequestsTypeOK /\ JobTypeOK /\ GhostsTypeOK
  <2>1. RequestsTypeOK
    BY <1>1 DEF RequestsTypeOK
  <2>2. JobTypeOK
    BY <1>1 DEF JobTypeOK
  <2>3. GhostsTypeOK
    BY ConstantsAssumption DEF GhostsTypeOK
  <2> QED BY <2>1, <2>2, <2>3
<1>6. EventsTypeOK
  <2>1. IsFiniteSet(BagToSet(EmptyBag))
    BY EmptyBagFacts, FS_EmptySet
  <2> QED BY <2>1, EmptyBagFacts DEF EventsTypeOK
<1>7. ASSUME NEW s \in Sessions PROVE RequestOK(s)
  <2>1. /\ ~Open(s) /\ todo[s] = {} /\ rated[s] = {} /\ owed[s] = Zeros /\ paid[s] = 0
        /\ spent[RaterOf[s]] = 0 /\ Allowance \in Nat
    BY ConstantsAssumption DEF Open
  <2>2. Total(Charged(s), Targets) = 0
    BY <2>1, ConstantsAssumption, TotalZero DEF Charged
  <2>3. OpenOK(s) /\ EditOK(s) /\ AllowanceOK(s) /\ SeenOK(s) /\ OutcomeOK(s)
    BY <2>1 DEF OpenOK, EditOK, AllowanceOK, SeenOK, OutcomeOK
  <2>4. PaidOK(s)
    BY <2>1, <2>2 DEF PaidOK
  <2> QED BY <2>3, <2>4 DEF RequestOK
<1>8. RequestsOK /\ JobOK
  BY <1>7 DEF RequestsOK, ActionOK, JobOK
<1>9. RepIsTheSum
  BY <1>2 DEF RepIsTheSum
<1>10. AggregationsAreExact
  <2>1. ASSUME NEW t \in Targets PROVE ScoreOf(EmptyBag, t) = 0 /\ RatersOf(EmptyBag, t) = 0
    <3>1. EventsOf(EmptyBag, t) = {}
      BY EmptyBagFacts DEF EventsOf
    <3> QED BY <3>1, TotalEmpty DEF ScoreOf, RatersOf
  <2>2. ASSUME NEW t \in Targets
        PROVE  /\ score[t] + ScoreOf(events, t) = Received(t)
               /\ raters[t] + RatersOf(events, t) = Cardinality(RatersNow(t))
    <3>1. score[t] = rep[t] /\ events = EmptyBag
      OBVIOUS
    <3> QED BY <1>2, <1>3, <2>1, <3>1
  <2> QED BY <2>2 DEF AggregationsAreExact, RatersNow
<1>11. CreditKept
  <2>1. \A r \in Raters : Spending(Initial[r]) \in Nat /\ InitialCredit \in Nat
    BY <1>1, ConstantsAssumption, SpendingType
  <2> QED BY <2>1 DEF CreditKept
<1>12. ProxyBooksBalance
  <2>1. Total(Zeros, Targets) = 0
    BY ConstantsAssumption, TotalZero DEF Zeros
  <2> QED BY <2>1, ConstantsAssumption DEF ProxyBooksBalance
<1> QED BY <1>4, <1>5, <1>6, <1>8, <1>9, <1>10, <1>11, <1>12 DEF LedgerInv, TypeOK, BooksOK

(* A behaviour that stutters.                                              *)
LEMMA StutteringStep == ASSUME LedgerInv, UNCHANGED vars PROVE LedgerInv'
<1> USE DEF vars, outbox, txVars, jobVars, ghosts
<1>1. OutboxUnchanged /\ UNCHANGED <<outbox, txVars, faults>>
  BY DEF OutboxUnchanged
<1>2. EventsTypeOK'
  BY DEF LedgerInv, TypeOK, EventsTypeOK, Locked
<1>3. AggregationsAreExact' /\ score' \in [Targets -> Int] /\ raters' \in [Targets -> Int]
  BY DEF LedgerInv, BooksOK, AggregationsAreExact, Received, TypeOK, LedgerTypeOK, ledger
<1>4. faults' \in 0 .. MaxFaults
  BY DEF LedgerInv, TypeOK, GhostsTypeOK
<1> QED BY <1>1, <1>2, <1>3, <1>4, OutboxFrame

(* Every step keeps the books.                                             *)
LEMMA InductiveStep == ASSUME LedgerInv, [Next]_vars PROVE LedgerInv'
<1>1. ASSUME NEW s \in Sessions, Request(s) \/ Proceed(s) \/ RequestFails(s) PROVE LedgerInv'
  BY <1>1, EditStep, BeginBulkRateStep, BulkRepStep, RateNextStep, ChargeNextStep, CommitStep,
     RequestFailsStep DEF Request, Proceed
<1>2. CASE Recalculate
  BY <1>2, RecalculateStep
<1>3. CASE Job \/ JobFails
  BY <1>3, JobBeginStep, JobReadStep, JobWriteStep, JobEndStep, JobFailsStep DEF Job
<1>4. ASSUME NEW c \in Connections, LambdaEnds(c) PROVE LedgerInv'
  <2>1. faults' \in 0 .. MaxFaults
    BY <1>4 DEF LambdaEnds, LedgerInv, TypeOK, GhostsTypeOK
  <2> QED BY <1>4, <2>1, RunnerStep DEF LambdaEnds
<1>5. ASSUME NEW c \in Connections, LambdaFails(c) PROVE LedgerInv'
  <2>1. faults' \in 0 .. MaxFaults
    BY <1>5, ConstantsAssumption DEF LambdaFails, LedgerInv, TypeOK, GhostsTypeOK
  <2> QED BY <1>5, <2>1, RunnerStep DEF LambdaFails
<1>6. CASE EventLambda
  BY <1>4, <1>6, LockNewEventsStep, ProcessBatchStep DEF EventLambda
<1>7. ASSUME NEW c \in Connections, LambdaFails(c) \/ ServerRollsBack(c) PROVE LedgerInv'
  BY <1>5, <1>7, ServerRollsBackStep
<1>8. CASE UNCHANGED vars
  BY <1>8, StutteringStep
<1> QED BY <1>1, <1>2, <1>3, <1>6, <1>7, <1>8 DEF Next

(* The books are in order in every behaviour.                              *)
THEOREM BooksInOrder == Spec => []LedgerInv
<1>1. Init => LedgerInv
  BY InitialInv
<1>2. LedgerInv /\ [Next]_vars => LedgerInv'
  BY InductiveStep
<1> QED BY <1>1, <1>2, PTL DEF Spec

(* Every variable keeps its type, and no event is locked twice or lost     *)
(* while it is locked.                                                     *)
THEOREM TypeCorrect == Spec => []TypeOK
<1>1. LedgerInv => TypeOK
  BY DEF LedgerInv
<1> QED BY <1>1, BooksInOrder, PTL

(* identities.rep is the sum of the ratings, unless somebody has written   *)
(* over a rating he had not seen since the last recalculation.             *)
THEOREM RepCorrect == Spec => []RepIsTheSum
<1>1. LedgerInv => RepIsTheSum
  BY DEF LedgerInv, BooksOK
<1> QED BY <1>1, BooksInOrder, PTL

(* Every change of a rating is counted exactly once, whatever invocations  *)
(* of the event Lambda fail and whatever they leave locked.                *)
THEOREM AggregationsCorrect == Spec => []AggregationsAreExact
<1>1. LedgerInv => AggregationsAreExact
  BY DEF LedgerInv, BooksOK
<1> QED BY <1>1, BooksInOrder, PTL

(* Nobody who commits on a true view of the rater brings the ratings above *)
(* the credit, and the over-rates Lambda brings them back below it.        *)
THEOREM CreditCorrect == Spec => []CreditKept
<1>1. LedgerInv => CreditKept
  BY DEF LedgerInv, BooksOK
<1> QED BY <1>1, BooksInOrder, PTL

(* A proxy's balance is what is outstanding and within the allowance.      *)
THEOREM ProxyBooksCorrect == Spec => []ProxyBooksBalance
<1>1. LedgerInv => ProxyBooksBalance
  BY DEF LedgerInv, BooksOK
<1> QED BY <1>1, BooksInOrder, PTL
=============================================================================
