---------------------------- MODULE MCXtdhGrants ----------------------------
(* Grants of rate 4 against capacities of 8 and 6, on a clock of three.    *)
EXTENDS XtdhGrants
=============================================================================
