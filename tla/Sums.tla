-------------------------------- MODULE Sums --------------------------------
(* Sums over finite sets, for columns that MySQL adds up with sum(...).    *)
EXTENDS Integers, FiniteSetsExt

Total(f, S) == MapThenSumSet(LAMBDA x : f[x], S)
=============================================================================
