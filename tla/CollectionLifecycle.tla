------------------------ MODULE CollectionLifecycle -------------------------
(***************************************************************************)
(* What the indexer of external collections promises to whoever asks for a *)
(* collection, and what the review of xTDH grants relies on: once asked    *)
(* for, a collection is decided upon, and the decision stands.  It is      *)
(* either live, and its head only moves forward, or given up on, in        *)
(* ERROR_SNAPSHOTTING or UNINDEXABLE.                                      *)
(***************************************************************************)
EXTENDS Naturals

CONSTANT Heads  \* blocks a head can be at, natural numbers

VARIABLES status, head

Undecided == {"WAITING_FOR_SNAPSHOTTING", "SNAPSHOTTING"}
GivenUp   == {"ERROR_SNAPSHOTTING", "UNINDEXABLE"}
Decided   == {"LIVE_TAILING"} \cup GivenUp

TypeOK == status \in {"absent"} \cup Undecided \cup Decided /\ head \in Heads \cup {0}

Init == status = "absent" /\ head = 0

Request ==
  /\ status = "absent" /\ status' = "WAITING_FOR_SNAPSHOTTING"
  /\ UNCHANGED head

Begin ==
  /\ status = "WAITING_FOR_SNAPSHOTTING" /\ status' = "SNAPSHOTTING"
  /\ UNCHANGED head

GoLive ==
  /\ status = "SNAPSHOTTING" /\ status' = "LIVE_TAILING"
  /\ head' \in Heads

GiveUp ==
  /\ status = "SNAPSHOTTING" /\ status' \in GivenUp
  /\ UNCHANGED head

Advance ==
  /\ status = "LIVE_TAILING" /\ UNCHANGED status
  /\ head' \in Heads /\ head' >= head

Next == Request \/ Begin \/ GoLive \/ GiveUp \/ Advance

Spec     == Init /\ [][Next]_<<status, head>>
FairSpec == Spec /\ WF_<<status, head>>(Begin)
                 /\ WF_<<status, head>>(GoLive \/ GiveUp)
=============================================================================
