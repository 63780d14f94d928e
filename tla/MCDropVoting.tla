----------------------------- MODULE MCDropVoting -----------------------------
(* Small instances of DropVoting for TLC. *)
EXTENDS DropVoting, TLC

CONSTANTS v1, v2, s1, s2

OneVoterTwice == [s \in Sessions |-> v1]
TwoVoters == (s1 :> v1) @@ (s2 :> v2)

DropSymmetry == Permutations(Drops)

OneOrNone == {0, 1}
GainsAndLosses == {-1, 0, 1}
=============================================================================
