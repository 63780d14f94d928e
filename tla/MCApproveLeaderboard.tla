------------------------ MODULE MCApproveLeaderboard ------------------------
(* Small instances of ApproveLeaderboard. *)
EXTENDS ApproveLeaderboard
=============================================================================
