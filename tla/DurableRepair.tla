----------------------------- MODULE DurableRepair -----------------------------
(***************************************************************************)
(* What the asynchronous repair of drop counters promises: a repair that   *)
(* is owed for a wave is discharged only when every counter table of the   *)
(* wave counts all committed deletions.  Nothing is said of rows, versions, *)
(* batches, messages or who does the work.                                 *)
(***************************************************************************)
EXTENDS Naturals

CONSTANTS Waves, MetricTables

VARIABLES
  deletes,   \* deletes[w]: committed deletions of drops of wave w
  metrics,   \* metrics[w][t]: deletions table t was last recounted with
  owed       \* waves whose repair is still owed

vars == <<deletes, metrics, owed>>

Init ==
  /\ deletes = [w \in Waves |-> 0]
  /\ metrics = [w \in Waves |-> [t \in MetricTables |-> 0]]
  /\ owed = {}

Delete(w) ==
  /\ deletes' = [deletes EXCEPT ![w] = @ + 1]
  /\ owed' = owed \cup {w}
  /\ UNCHANGED metrics

\* A wave may be marked without need.
Owe(w) ==
  /\ owed' = owed \cup {w}
  /\ UNCHANGED <<deletes, metrics>>

Recount(w, t) ==
  /\ metrics' = [metrics EXCEPT ![w][t] = deletes[w]]
  /\ UNCHANGED <<deletes, owed>>

Discharge(w) ==
  /\ \A t \in MetricTables : metrics[w][t] = deletes[w]
  /\ owed' = owed \ {w}
  /\ UNCHANGED <<deletes, metrics>>

Next ==
  \E w \in Waves :
    \/ Delete(w)
    \/ Owe(w)
    \/ \E t \in MetricTables : Recount(w, t)
    \/ Discharge(w)

Spec == Init /\ [][Next]_vars
=============================================================================
