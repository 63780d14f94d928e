---------------------------- MODULE MCRatingsLedger ----------------------------
(* Small instances of RatingsLedger for TLC. *)
EXTENDS RatingsLedger, TLC

CONSTANTS r1, r2, t1, t2, s1, s2, c1, c2

OneRater == [s \in Sessions |-> r1]

\* r1 has rated t1; r2 has rated both and sends nothing itself.
Rated == (r1 :> (t1 :> 1 @@ t2 :> 0)) @@ (r2 :> (t1 :> 1 @@ t2 :> -1))

\* Only r1 loses credit, with the first recalculation.
OneLoses == (r1 :> {1}) @@ (r2 :> {2})

Asks(k, T, n, p) == [kind |-> k, on |-> T, amount |-> n, proxy |-> p]

AllKinds ==
  {Asks("edit", {t2}, -1, FALSE), Asks("edit", {t2}, 1, TRUE), Asks("edit", {t2}, 0, TRUE),
   Asks("bulkRate", {t1, t2}, 1, TRUE), Asks("bulkRep", {t1, t2}, 1, TRUE)}

\* r2 has given t2 the rating that r1 asks for.
OneBulkRep == {Asks("bulkRep", {t1, t2}, -1, FALSE)}
=============================================================================
