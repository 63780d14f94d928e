-------------------------- MODULE MCWaveDropMetrics ---------------------------
(* Small instances of WaveDropMetrics for TLC. *)
EXTENDS WaveDropMetrics, TLC

ClockOne == {0}
=============================================================================
