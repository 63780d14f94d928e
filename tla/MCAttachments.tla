---------------------------- MODULE MCAttachments ----------------------------
(***************************************************************************)
(* Instances of Attachments.                                               *)
(***************************************************************************)
EXTENDS Attachments, TLC

ExecutionSymmetry ==
  Permutations(Requests) \cup Permutations(Orchestrators)
    \cup Permutations(Processors)

AllResults  == {"NO_THREATS_FOUND"} \cup Blocking \cup Failing
TwoResults  == {"NO_THREATS_FOUND", "UNSUPPORTED"}
=============================================================================
