------------------------- MODULE WaveDropMetricsProofs -------------------------
(***************************************************************************)
(* Proofs about WaveDropMetrics, for every set of waves, requests and      *)
(* tables and every bound.  The argument: a selected row stays in the      *)
(* table, because the only refresher deletes rows, so a write that         *)
(* re-dirties the wave finds the row and gives it a later version; hence a *)
(* row whose version is still the captured one was not re-dirtied since,   *)
(* and its recounted tables are up to date (RecountOK).                    *)
(***************************************************************************)
EXTENDS WaveDropMetrics, TLAPS

(***************************************************************************)
(* Marking a wave (markWaveDropMetricsDirty) leaves it with a row that can *)
(* be selected, at a later version than the row it had, and touches no     *)
(* other wave.                                                             *)
(***************************************************************************)
LEMMA MarkFacts ==
  ASSUME TypeOK, NEW w \in Waves, Mark(w)
  PROVE  /\ requested' = requested \cup {w}
         /\ requested' \subseteq Waves
         /\ dirtyAt' \in [Waves -> Nat]
         /\ attempts' \in [Waves -> 0 .. MaxAttempts]
         /\ attempts'[w] = 0
         /\ w \in requested => dirtyAt'[w] > dirtyAt[w]
         /\ \A v \in Waves : v # w => /\ dirtyAt'[v] = dirtyAt[v]
                                      /\ attempts'[v] = attempts[v]
  BY ConstantsAssumption DEF TypeOK, Mark, Greatest

(***************************************************************************)
(* The captured-version delete removes the row of the captured version and *)
(* touches nothing else.                                                   *)
(***************************************************************************)
LEMMA DeleteFacts ==
  ASSUME TypeOK, DeleteCaptured(row)
  PROVE  /\ requested' = IF Captured(row) THEN requested \ {row.wave}
                                          ELSE requested
         /\ dirtyAt' \in [Waves -> Nat]
         /\ attempts' \in [Waves -> 0 .. MaxAttempts]
         /\ \A v \in Waves : v # row.wave => /\ dirtyAt'[v] = dirtyAt[v]
                                             /\ attempts'[v] = attempts[v]
         /\ ~Captured(row) => UNCHANGED requestVars
         /\ row.wave \in Waves
<1>1. row.wave \in Waves
  BY DEF TypeOK, Rows
<1>2. CASE Captured(row)
  <2>1. /\ requested' = requested \ {row.wave}
        /\ dirtyAt' = [dirtyAt EXCEPT ![row.wave] = 0]
        /\ attempts' = [attempts EXCEPT ![row.wave] = 0]
    BY <1>2 DEF DeleteCaptured
  <2> QED BY <1>1, <1>2, <2>1, ConstantsAssumption DEF TypeOK
<1>3. CASE ~Captured(row)
  BY <1>1, <1>3 DEF TypeOK, DeleteCaptured, requestVars
<1> QED BY <1>1, <1>2, <1>3

(***************************************************************************)
(* A recount brings one table of one wave up to date and changes no other. *)
(***************************************************************************)
LEMMA ResyncFacts ==
  ASSUME TypeOK, NEW w \in Waves, NEW t \in MetricTables, Resync(w, t)
  PROVE  /\ metrics' \in [Waves -> [MetricTables -> Nat]]
         /\ \A v \in Waves, u \in MetricTables :
              metrics'[v][u] = IF v = w /\ u = t THEN deletes[w]
                                                ELSE metrics[v][u]
<1>1. metrics' = [metrics EXCEPT ![w] = [metrics[w] EXCEPT ![t] = deletes[w]]]
  BY DEF TypeOK, Resync
<1>2. deletes[w] \in Nat /\ metrics[w] \in [MetricTables -> Nat]
  BY DEF TypeOK
<1>3. [metrics[w] EXCEPT ![t] = deletes[w]] \in [MetricTables -> Nat]
  BY <1>2
<1> QED BY <1>1, <1>2, <1>3 DEF TypeOK

(***************************************************************************)
(* Nothing is owed before the first request.                               *)
(***************************************************************************)
LEMMA InitInv == Init => IInv
<1> SUFFICES ASSUME Init PROVE IInv
  OBVIOUS
<1>1. TypeOK
  <2>1. metrics \in [Waves -> [MetricTables -> Nat]]
    BY DEF Init
  <2>2. row \in Rows
    BY DEF Init, Rows
  <2>3. batch \subseteq Rows /\ todo \subseteq MetricTables
        /\ wtodo \in [Writers -> SUBSET MetricTables]
    BY DEF Init
  <2>4. wpc \in [Writers -> {"idle", "committed", "direct", "enqueue"}]
        /\ wwave \in [Writers -> Waves]
    BY DEF Init
  <2>5. attempts \in [Waves -> 0 .. MaxAttempts]
    BY ConstantsAssumption DEF Init
  <2>6. wake \in BOOLEAN /\ full \in BOOLEAN
    BY DEF Init
  <2>7. deletes \in [Waves -> Nat] /\ dirtyAt \in [Waves -> Nat]
    BY DEF Init
  <2>8. faults \in 0 .. MaxFaults /\ batches \in Nat
    BY ConstantsAssumption DEF Init
  <2>9. requested \subseteq Waves /\ failed \subseteq Waves
        /\ rpc \in {"idle", "select", "next", "resync", "delete", "record",
                    "check", "continue"}
    BY DEF Init
  <2> QED
    BY <2>1, <2>2, <2>3, <2>4, <2>5, <2>6, <2>7, <2>8, <2>9 DEF TypeOK
<1>2. BatchOK /\ RowOK /\ RecountOK
  BY DEF Init, BatchOK, RowOK, RecountOK, Busy
<1>3. NoLostRepair
  BY DEF Init, NoLostRepair, Behind
<1> QED BY <1>1, <1>2, <1>3 DEF IInv

(***************************************************************************)
(* A deletion marks its wave's row together with the drop, or fails to     *)
(* mark it, which excuses the wave.                                        *)
(***************************************************************************)
LEMMA DeleteDropInv ==
  ASSUME IInv, NEW a \in Writers, NEW w \in Waves, DeleteDrop(a, w)
  PROVE  IInv'
<1> USE DEF DeleteDrop, refresherVars
<1>0. TypeOK BY DEF IInv
<1>1. CASE Mark(w) /\ UNCHANGED faults
  <2>1. TypeOK'
    BY <1>0, <1>1, MarkFacts DEF TypeOK
  <2>2. BatchOK'
    BY <1>0, <1>1, MarkFacts, ConstantsAssumption
       DEF IInv, TypeOK, BatchOK, Busy, Rows
  <2>3. RowOK'
    BY <1>0, <1>1, MarkFacts, ConstantsAssumption
       DEF IInv, TypeOK, RowOK, Busy, Rows, Captured
  <2>4. RecountOK'
    <3>1. CASE row.wave = w
      BY <1>0, <1>1, <3>1, MarkFacts
         DEF IInv, TypeOK, RowOK, Captured, Rows, RecountOK
    <3>2. CASE row.wave # w
      BY <1>0, <1>1, <3>2, MarkFacts
         DEF IInv, TypeOK, RecountOK, Captured, Rows, Excused, AboutToMark
    <3> QED BY <3>1, <3>2
  <2>5. NoLostRepair'
    BY <1>0, <1>1, MarkFacts
       DEF IInv, TypeOK, NoLostRepair, Behind, Excused, AboutToMark
  <2> QED BY <2>1, <2>2, <2>3, <2>4, <2>5 DEF IInv
<1>2. CASE Fault /\ UNCHANGED requestVars
  <2> USE DEF Fault, requestVars
  <2>1. TypeOK'
    BY <1>0, <1>2, ConstantsAssumption DEF TypeOK
  <2>2. BatchOK'
    BY <1>0, <1>2 DEF IInv, BatchOK, Busy
  <2>3. RowOK'
    BY <1>0, <1>2 DEF IInv, RowOK, Busy, Captured
  <2>4. Excused(w)'
    BY <1>0, <1>2 DEF TypeOK, Excused, AboutToMark
  <2>5. \A v \in Waves : Excused(v) => Excused(v)'
    BY <1>0, <1>2 DEF TypeOK, Excused, AboutToMark
  <2>6. RecountOK'
    BY <1>0, <1>2, <2>4, <2>5 DEF IInv, TypeOK, RecountOK, Captured, Rows
  <2>7. NoLostRepair'
    BY <1>0, <1>2, <2>4, <2>5 DEF IInv, TypeOK, NoLostRepair, Behind
  <2> QED BY <2>1, <2>2, <2>3, <2>6, <2>7 DEF IInv
<1> QED BY <1>1, <1>2

(***************************************************************************)
(* The second mark gives the row a later version and all its attempts      *)
(* back.                                                                   *)
(***************************************************************************)
LEMMA MarkAgainInv ==
  ASSUME IInv, NEW a \in Writers, MarkAgain(a)
  PROVE  IInv'
<1> DEFINE w == wwave[a]
<1> USE DEF MarkAgain, refresherVars
<1>0. TypeOK /\ w \in Waves BY DEF IInv, TypeOK
<1>1. TypeOK'
  BY <1>0, MarkFacts DEF TypeOK
<1>2. BatchOK'
  BY <1>0, MarkFacts, ConstantsAssumption DEF IInv, TypeOK, BatchOK, Busy, Rows
<1>3. RowOK'
  BY <1>0, MarkFacts, ConstantsAssumption
     DEF IInv, TypeOK, RowOK, Busy, Rows, Captured
<1>4. \A v \in Waves : v # w /\ Excused(v) => Excused(v)'
  BY <1>0 DEF TypeOK, Excused, AboutToMark
<1>5. RecountOK'
  <2>1. CASE row.wave = w
    BY <1>0, <2>1, MarkFacts
       DEF IInv, TypeOK, RowOK, Captured, Rows, RecountOK
  <2>2. CASE row.wave # w
    BY <1>0, <1>4, <2>2, MarkFacts
       DEF IInv, TypeOK, RecountOK, Captured, Rows
  <2> QED BY <2>1, <2>2
<1>6. NoLostRepair'
  BY <1>0, <1>4, MarkFacts DEF IInv, TypeOK, NoLostRepair, Behind
<1> QED BY <1>1, <1>2, <1>3, <1>5, <1>6 DEF IInv

(***************************************************************************)
(* A failure may take away the request that was about to mark a wave, but  *)
(* then it is not the first one: whatever was excused stays excused.       *)
(***************************************************************************)
LEMMA FaultExcuses ==
  ASSUME TypeOK, Fault, NEW v \in Waves, Excused(v)
  PROVE  Excused(v)'
  BY ConstantsAssumption DEF TypeOK, Fault, Excused

(***************************************************************************)
(* Steps that leave the rows of the table, the counters and the refresher  *)
(* alone, and only change what requests do, keep the invariant.            *)
(***************************************************************************)
LEMMA MarkAgainFailsInv ==
  ASSUME IInv, NEW a \in Writers, MarkAgainFails(a)
  PROVE  IInv'
<1> DEFINE w == wwave[a]
<1> USE DEF MarkAgainFails, refresherVars
<1>0. TypeOK /\ w \in Waves BY DEF IInv, TypeOK
<1>1. CASE Mark(w)
  <2>1. TypeOK'
    BY <1>0, <1>1, MarkFacts, ConstantsAssumption DEF TypeOK, Fault
  <2>2. BatchOK'
    BY <1>0, <1>1, MarkFacts, ConstantsAssumption
       DEF IInv, TypeOK, BatchOK, Busy, Rows
  <2>3. RowOK'
    BY <1>0, <1>1, MarkFacts, ConstantsAssumption
       DEF IInv, TypeOK, RowOK, Busy, Rows, Captured
  <2>4. RecountOK'
    <3>1. CASE row.wave = w
      BY <1>0, <1>1, <3>1, MarkFacts
         DEF IInv, TypeOK, RowOK, Captured, Rows, RecountOK
    <3>2. CASE row.wave # w
      BY <1>0, <1>1, <3>2, MarkFacts, FaultExcuses
         DEF IInv, TypeOK, RecountOK, Captured, Rows
    <3> QED BY <3>1, <3>2
  <2>5. NoLostRepair'
    BY <1>0, <1>1, MarkFacts, FaultExcuses
       DEF IInv, TypeOK, NoLostRepair, Behind
  <2> QED BY <2>1, <2>2, <2>3, <2>4, <2>5 DEF IInv
<1>2. CASE UNCHANGED requestVars
  <2> USE DEF requestVars
  <2>1. TypeOK'
    BY <1>0, <1>2, ConstantsAssumption DEF TypeOK, Fault
  <2>2. BatchOK' /\ RowOK'
    BY <1>0, <1>2 DEF IInv, BatchOK, RowOK, Busy, Captured
  <2>3. RecountOK'
    BY <1>0, <1>2, FaultExcuses DEF IInv, TypeOK, RecountOK, Captured, Rows
  <2>4. NoLostRepair'
    BY <1>0, <1>2, FaultExcuses DEF IInv, TypeOK, NoLostRepair, Behind
  <2> QED BY <2>1, <2>2, <2>3, <2>4 DEF IInv
<1> QED BY <1>1, <1>2

(***************************************************************************)
(* A recount by the request itself brings one table up to date, or fails   *)
(* and changes none.                                                       *)
(***************************************************************************)
LEMMA DirectResyncInv ==
  ASSUME IInv, NEW a \in Writers, NEW t \in MetricTables, DirectResync(a, t)
  PROVE  IInv'
<1> USE DEF DirectResync, refresherVars, requestVars
<1>0. TypeOK /\ wwave[a] \in Waves BY DEF IInv, TypeOK
<1>1. TypeOK'
  <2>1. metrics' \in [Waves -> [MetricTables -> Nat]]
    BY <1>0, ResyncFacts DEF TypeOK
  <2> QED BY <1>0, <2>1, ConstantsAssumption DEF TypeOK, Fault
<1>2. BatchOK' /\ RowOK'
  BY <1>0 DEF IInv, BatchOK, RowOK, Busy, Captured
<1>3. \A v \in Waves : Excused(v) => Excused(v)'
  BY <1>0 DEF TypeOK, Excused, AboutToMark, Fault
<1>4. \A v \in Waves, u \in MetricTables :
        metrics[v][u] = deletes[v] => metrics'[v][u] = deletes'[v]
  BY <1>0, ResyncFacts
<1>5. RecountOK'
  BY <1>0, <1>3, <1>4 DEF IInv, TypeOK, RecountOK, Captured, Rows
<1>6. NoLostRepair'
  BY <1>0, <1>3, <1>4 DEF IInv, TypeOK, NoLostRepair, Behind
<1> QED BY <1>1, <1>2, <1>5, <1>6 DEF IInv

(***************************************************************************)
(* The wake-up changes no row and no table.                                *)
(***************************************************************************)
LEMMA EnqueueInv ==
  ASSUME IInv, NEW a \in Writers, Enqueue(a)
  PROVE  IInv'
<1> USE DEF Enqueue, refresherVars, requestVars
<1>0. TypeOK BY DEF IInv
<1>1. TypeOK'
  <2>1. CASE wake' = TRUE /\ UNCHANGED faults
    BY <1>0, <2>1 DEF TypeOK
  <2>2. CASE Fault /\ UNCHANGED wake
    BY <1>0, <2>2, ConstantsAssumption DEF TypeOK, Fault
  <2> QED BY <2>1, <2>2
<1>2. BatchOK' /\ RowOK'
  BY <1>0 DEF IInv, BatchOK, RowOK, Busy, Captured
<1>3. \A v \in Waves : Excused(v) => Excused(v)'
  BY <1>0 DEF TypeOK, Excused, AboutToMark, Fault
<1>4. RecountOK' /\ NoLostRepair'
  BY <1>0, <1>3
     DEF IInv, TypeOK, RecountOK, Captured, Rows, NoLostRepair, Behind
<1> QED BY <1>1, <1>2, <1>4 DEF IInv

(***************************************************************************)
(* A request that dies leaves the rows it has marked.                      *)
(***************************************************************************)
LEMMA WriterCrashInv ==
  ASSUME IInv, NEW a \in Writers, WriterCrash(a)
  PROVE  IInv'
<1> USE DEF WriterCrash, refresherVars, requestVars
<1>0. TypeOK BY DEF IInv
<1>1. TypeOK'
  BY <1>0, ConstantsAssumption DEF TypeOK, Fault
<1>2. BatchOK' /\ RowOK'
  BY <1>0 DEF IInv, BatchOK, RowOK, Busy, Captured
<1>3. RecountOK' /\ NoLostRepair'
  BY <1>0, FaultExcuses
     DEF IInv, TypeOK, RecountOK, Captured, Rows, NoLostRepair, Behind
<1> QED BY <1>1, <1>2, <1>3 DEF IInv

(***************************************************************************)
(* The steps of the refresher.                                             *)
(***************************************************************************)
LEMMA InvokeInv ==
  ASSUME IInv, Invoke, wake' \in BOOLEAN
  PROVE  IInv'
<1> USE DEF Invoke, writerVars, requestVars
<1>0. TypeOK BY DEF IInv
<1>1. TypeOK'
  BY <1>0 DEF TypeOK
<1>2. BatchOK' /\ RowOK'
  BY <1>0 DEF IInv, BatchOK, RowOK, Busy, Captured
<1>3. RecountOK' /\ NoLostRepair'
  BY <1>0 DEF IInv, RecountOK, NoLostRepair, Behind, Excused, AboutToMark
<1> QED BY <1>1, <1>2, <1>3 DEF IInv

(***************************************************************************)
(* The refresher reads rows as they are.                                   *)
(***************************************************************************)
LEMMA SelectRowsInv ==
  ASSUME IInv, SelectRows
  PROVE  IInv'
<1> USE DEF SelectRows, writerVars, requestVars
<1>0. TypeOK BY DEF IInv
<1>1. PICK chosen \in SUBSET Selectable :
        /\ batch' = {[wave |-> w, dirtyAt |-> dirtyAt[w]] : w \in chosen}
        /\ full' = (Cardinality(chosen) = BatchSize)
        /\ rpc' = IF chosen = {} THEN "idle" ELSE "next"
  OBVIOUS
<1>2. chosen \subseteq Waves /\ \A w \in chosen : w \in Selectable
  BY <1>0 DEF TypeOK, Selectable
<1>3. \A r \in batch' : /\ r.wave \in chosen
                         /\ r.dirtyAt = dirtyAt[r.wave]
                         /\ r = [wave |-> r.wave, dirtyAt |-> dirtyAt[r.wave]]
  BY <1>1
<1>4. TypeOK'
  <2>1. batch' \subseteq Rows
    BY <1>0, <1>1, <1>2 DEF TypeOK, Rows
  <2>2. full' \in BOOLEAN
    BY <1>1
  <2>3. rpc' \in {"idle", "next"}
    BY <1>1
  <2> QED BY <1>0, <2>1, <2>2, <2>3 DEF TypeOK
<1>5. BatchOK'
  <2>1. \A r \in batch' : /\ r.wave \in requested
                           /\ r.dirtyAt <= dirtyAt[r.wave]
                           /\ attempts[r.wave] < MaxAttempts
                           /\ r.wave \notin failed
    BY <1>0, <1>2, <1>3 DEF TypeOK, Selectable
  <2>2. \A r, s \in batch' : r.wave = s.wave => r = s
    BY <1>3
  <2>3. ~Busy'
    BY <1>1 DEF Busy
  <2> QED BY <2>1, <2>2, <2>3 DEF BatchOK
<1>6. RowOK' /\ RecountOK'
  BY <1>1 DEF RowOK, Busy, RecountOK
<1>7. NoLostRepair'
  BY <1>0 DEF IInv, NoLostRepair, Behind, Excused, AboutToMark
<1> QED BY <1>4, <1>5, <1>6, <1>7 DEF IInv

(***************************************************************************)
(* The refresher takes a row it has read: no table changes.                *)
(***************************************************************************)
LEMMA TakeRowInv ==
  ASSUME IInv, TakeRow
  PROVE  IInv'
<1> USE DEF TakeRow, writerVars, requestVars
<1>0. TypeOK BY DEF IInv
<1>1. row' \in batch /\ batch' = batch \ {row'}
  OBVIOUS
<1>2. TypeOK'
  BY <1>0, <1>1 DEF TypeOK
<1>3. BatchOK'
  BY <1>0, <1>1 DEF IInv, BatchOK, Busy
<1>4. RowOK'
  BY <1>0, <1>1 DEF IInv, BatchOK, RowOK, Busy, Captured
<1>5. RecountOK' /\ NoLostRepair'
  BY <1>0, <1>1
     DEF IInv, RecountOK, NoLostRepair, Behind, Excused, AboutToMark
<1> QED BY <1>2, <1>3, <1>4, <1>5 DEF IInv

(***************************************************************************)
(* A table recounted for a row is up to date with the deletions so far.    *)
(***************************************************************************)
LEMMA ResyncRowInv ==
  ASSUME IInv, NEW t \in MetricTables, ResyncRow(t)
  PROVE  IInv'
<1> USE DEF ResyncRow, writerVars, requestVars
<1>0. TypeOK /\ row.wave \in Waves BY DEF IInv, TypeOK, Rows
<1>1. TypeOK'
  BY <1>0, ResyncFacts DEF TypeOK
<1>2. BatchOK'
  BY <1>0 DEF IInv, BatchOK, Busy
<1>3. RowOK'
  BY <1>0 DEF IInv, TypeOK, RowOK, Busy, Captured
<1>4. \A v \in Waves, u \in MetricTables :
        /\ metrics[v][u] = deletes[v] => metrics'[v][u] = deletes'[v]
        /\ v = row.wave /\ u = t => metrics'[v][u] = deletes'[v]
  BY <1>0, ResyncFacts
<1>5. \A v \in Waves : Excused(v) => Excused(v)'
  BY DEF Excused, AboutToMark
<1>6. RecountOK'
  BY <1>0, <1>4, <1>5 DEF IInv, TypeOK, RecountOK, Captured
<1>7. NoLostRepair'
  BY <1>0, <1>4, <1>5 DEF IInv, NoLostRepair, Behind
<1> QED BY <1>1, <1>2, <1>3, <1>6, <1>7 DEF IInv

(***************************************************************************)
(* A recount that fails changes no row and no table.                       *)
(***************************************************************************)
LEMMA ResyncRowFailsInv ==
  ASSUME IInv, ResyncRowFails
  PROVE  IInv'
<1> USE DEF ResyncRowFails, writerVars, requestVars
<1>0. TypeOK BY DEF IInv
<1>1. TypeOK'
  BY <1>0, ConstantsAssumption DEF TypeOK, Fault
<1>2. BatchOK' /\ RowOK'
  BY <1>0 DEF IInv, BatchOK, RowOK, Busy, Captured
<1>3. RecountOK' /\ NoLostRepair'
  BY <1>0, FaultExcuses DEF IInv, RecountOK, NoLostRepair, Behind
<1> QED BY <1>1, <1>2, <1>3 DEF IInv

(***************************************************************************)
(* The row the refresher deletes belongs to counters that are up to date,  *)
(* unless the wave is excused.                                             *)
(***************************************************************************)
LEMMA DeleteIsSafe ==
  ASSUME IInv, rpc = "delete", Captured(row)
  PROVE  ~Behind(row.wave) \/ Excused(row.wave)
  BY DEF IInv, RowOK, RecountOK, Behind

(***************************************************************************)
(* A row is deleted only at the version whose tables were recounted.       *)
(***************************************************************************)
LEMMA DeleteRowInv ==
  ASSUME IInv, DeleteRow
  PROVE  IInv'
<1> USE DEF DeleteRow, writerVars
<1>0. TypeOK /\ row.wave \in Waves BY DEF IInv, TypeOK, Rows
<1>1. TypeOK'
  BY <1>0, DeleteFacts DEF TypeOK
<1>2. BatchOK'
  BY <1>0, DeleteFacts DEF IInv, TypeOK, BatchOK, Busy, Rows
<1>3. RowOK' /\ RecountOK'
  BY DEF RowOK, RecountOK, Busy
<1>4. NoLostRepair'
  BY <1>0, DeleteFacts, DeleteIsSafe
     DEF IInv, NoLostRepair, Behind, Excused, AboutToMark
<1> QED BY <1>1, <1>2, <1>3, <1>4 DEF IInv

(***************************************************************************)
(* A delete that reports an error may have taken effect, and is still one  *)
(* of the captured version.                                                *)
(***************************************************************************)
LEMMA DeleteRowFailsInv ==
  ASSUME IInv, DeleteRowFails
  PROVE  IInv'
<1> USE DEF DeleteRowFails, writerVars
<1>0. TypeOK /\ row.wave \in Waves BY DEF IInv, TypeOK, Rows
<1>1. CASE DeleteCaptured(row)
  <2>1. TypeOK'
    BY <1>0, <1>1, DeleteFacts, ConstantsAssumption DEF TypeOK, Fault
  <2>2. BatchOK'
    BY <1>0, <1>1, DeleteFacts DEF IInv, TypeOK, BatchOK, Busy, Rows
  <2>3. RowOK' /\ RecountOK'
    <3>1. ~Captured(row)'
      BY <1>0, <1>1, DeleteFacts DEF Captured, requestVars
    <3> QED BY <3>1 DEF IInv, RowOK, RecountOK, Busy
  <2>4. NoLostRepair'
    BY <1>0, <1>1, DeleteFacts, DeleteIsSafe, FaultExcuses
       DEF IInv, NoLostRepair, Behind
  <2> QED BY <2>1, <2>2, <2>3, <2>4 DEF IInv
<1>2. CASE UNCHANGED requestVars
  <2> USE DEF requestVars
  <2>1. TypeOK'
    BY <1>0, <1>2, ConstantsAssumption DEF TypeOK, Fault
  <2>2. BatchOK' /\ RowOK'
    BY <1>0, <1>2 DEF IInv, BatchOK, RowOK, Busy, Captured
  <2>3. RecountOK' /\ NoLostRepair'
    BY <1>0, <1>2, FaultExcuses DEF IInv, RecountOK, NoLostRepair, Behind
  <2> QED BY <2>1, <2>2, <2>3 DEF IInv
<1> QED BY <1>1, <1>2

(***************************************************************************)
(* An attempt is counted only against the captured version, and the row    *)
(* stays.                                                                  *)
(***************************************************************************)
LEMMA RecordFailureInv ==
  ASSUME IInv, RecordFailure
  PROVE  IInv'
<1> USE DEF RecordFailure, writerVars
<1>0. TypeOK /\ row.wave \in Waves BY DEF IInv, TypeOK, Rows
<1>1. /\ attempts' \in [Waves -> 0 .. MaxAttempts]
      /\ \A v \in Waves : v # row.wave => attempts'[v] = attempts[v]
  <2>1. CASE Captured(row)
    <3>1. attempts[row.wave] \in Nat /\ attempts[row.wave] + 1 <= MaxAttempts
      BY <1>0, <2>1, ConstantsAssumption DEF IInv, TypeOK, RowOK, Busy
    <3> QED BY <1>0, <2>1, <3>1, ConstantsAssumption DEF TypeOK
  <2>2. CASE ~Captured(row)
    BY <1>0, <2>2 DEF TypeOK
  <2> QED BY <2>1, <2>2
<1>2. TypeOK'
  BY <1>0, <1>1 DEF TypeOK
<1>3. BatchOK'
  BY <1>0, <1>1 DEF IInv, TypeOK, BatchOK, Busy, Rows
<1>4. RowOK' /\ RecountOK'
  BY DEF RowOK, RecountOK, Busy
<1>5. NoLostRepair'
  BY DEF IInv, NoLostRepair, Behind, Excused, AboutToMark
<1> QED BY <1>2, <1>3, <1>4, <1>5 DEF IInv

(***************************************************************************)
(* Steps between batches, and the death of the refresher, change neither   *)
(* the table nor the counters.                                             *)
(***************************************************************************)
LEMMA ControlInv ==
  ASSUME IInv, BatchDone \/ CheckMore \/ Continue \/ RefresherCrash
  PROVE  IInv'
<1> USE DEF writerVars, requestVars
<1>0. TypeOK BY DEF IInv
<1>1. CASE BatchDone
  <2>1. TypeOK'
    BY <1>0, <1>1 DEF TypeOK, BatchDone
  <2>2. BatchOK' /\ RowOK' /\ RecountOK'
    BY <1>1 DEF BatchDone, BatchOK, RowOK, RecountOK, Busy
  <2>3. NoLostRepair'
    BY <1>1 DEF BatchDone, IInv, NoLostRepair, Behind, Excused, AboutToMark
  <2> QED BY <2>1, <2>2, <2>3 DEF IInv
<1>2. CASE CheckMore
  BY <1>0, <1>2
     DEF CheckMore, IInv, TypeOK, BatchOK, RowOK, RecountOK, Busy,
         NoLostRepair, Behind, Excused, AboutToMark
<1>3. CASE Continue
  BY <1>0, <1>3
     DEF Continue, IInv, TypeOK, BatchOK, RowOK, RecountOK, Busy,
         NoLostRepair, Behind, Excused, AboutToMark
<1>4. CASE RefresherCrash
  <2> USE DEF RefresherCrash
  <2>1. TypeOK'
    <3>1. wake' \in BOOLEAN
      BY <1>0, <1>4 DEF TypeOK
    <3>2. faults' \in 0 .. MaxFaults
      BY <1>0, <1>4, ConstantsAssumption DEF TypeOK, Fault
    <3>3. rpc' \in {"idle"} /\ batch' = {}
      BY <1>4
    <3> QED BY <1>0, <1>4, <3>1, <3>2, <3>3 DEF TypeOK
  <2>2. BatchOK' /\ RowOK' /\ RecountOK'
    BY <1>4 DEF BatchOK, RowOK, RecountOK, Busy
  <2>3. NoLostRepair'
    BY <1>0, <1>4, FaultExcuses DEF IInv, NoLostRepair, Behind
  <2> QED BY <2>1, <2>2, <2>3 DEF IInv
<1> QED BY <1>1, <1>2, <1>3, <1>4

(***************************************************************************)
(* IInv is inductive: it survives every step and every stutter.            *)
(***************************************************************************)
LEMMA NextInv ==
  ASSUME IInv, [Next]_vars
  PROVE  IInv'
<1>1. CASE \E a \in Writers : WriterNext(a)
  <2>1. PICK a \in Writers : WriterNext(a)
    BY <1>1
  <2>2. CASE \E w \in Waves : DeleteDrop(a, w)
    <3>1. PICK w \in Waves : DeleteDrop(a, w)
      BY <2>2
    <3> QED BY <3>1, DeleteDropInv
  <2>3. CASE MarkAgain(a)
    BY <2>3, MarkAgainInv
  <2>4. CASE MarkAgainFails(a)
    BY <2>4, MarkAgainFailsInv
  <2>5. CASE \E t \in MetricTables : DirectResync(a, t)
    BY <2>5, DirectResyncInv
  <2>6. CASE Enqueue(a)
    BY <2>6, EnqueueInv
  <2>7. CASE WriterCrash(a)
    BY <2>7, WriterCrashInv
  <2> QED BY <2>1, <2>2, <2>3, <2>4, <2>5, <2>6, <2>7 DEF WriterNext
<1>2. CASE RefresherNext
  <2>1. CASE InvokeByMessage \/ InvokeBySchedule
    BY <2>1, InvokeInv DEF InvokeByMessage, InvokeBySchedule, IInv, TypeOK
  <2>2. CASE SelectRows
    BY <2>2, SelectRowsInv
  <2>3. CASE TakeRow
    BY <2>3, TakeRowInv
  <2>4. CASE \E t \in MetricTables : ResyncRow(t)
    BY <2>4, ResyncRowInv
  <2>5. CASE ResyncRowFails
    BY <2>5, ResyncRowFailsInv
  <2>6. CASE DeleteRow
    BY <2>6, DeleteRowInv
  <2>7. CASE DeleteRowFails
    BY <2>7, DeleteRowFailsInv
  <2>8. CASE RecordFailure
    BY <2>8, RecordFailureInv
  <2>9. CASE BatchDone \/ CheckMore \/ Continue \/ RefresherCrash
    BY <2>9, ControlInv
  <2> QED
    BY <1>2, <2>1, <2>2, <2>3, <2>4, <2>5, <2>6, <2>7, <2>8, <2>9
       DEF RefresherNext, RefresherStep
<1>3. CASE UNCHANGED vars
  BY <1>3
     DEF vars, requestVars, writerVars, refresherVars, IInv, TypeOK, BatchOK,
         RowOK, RecountOK, Busy, Captured, NoLostRepair, Behind, Excused,
         AboutToMark
<1> QED BY <1>1, <1>2, <1>3 DEF Next

(***************************************************************************)
(* Every reachable state satisfies the inductive invariant.                *)
(***************************************************************************)
THEOREM Invariance == Spec => []IInv
<1>1. Init => IInv
  BY InitInv
<1>2. IInv /\ [Next]_vars => IInv'
  BY NextInv
<1> QED BY <1>1, <1>2, PTL DEF Spec

(***************************************************************************)
(* Every variable keeps its type; in particular no row collects more than  *)
(* MaxAttempts failures.                                                   *)
(***************************************************************************)
THEOREM TypeCorrect == Spec => []TypeOK
<1>1. IInv => TypeOK
  BY DEF IInv
<1> QED BY <1>1, Invariance, PTL

(***************************************************************************)
(* No single failure loses a repair (the marks in and after the delete     *)
(* transaction and the captured-version delete of the refresher).          *)
(***************************************************************************)
THEOREM NoSingleFailureLosesARepair == Spec => []NoLostRepair
<1>1. IInv => NoLostRepair
  BY DEF IInv
<1> QED BY <1>1, Invariance, PTL

(***************************************************************************)
(* No invocation of the refresher takes a wave again that failed in it.    *)
(***************************************************************************)
THEOREM FailsOncePerInvocation == Spec => []OneFailurePerInvocation
<1>1. IInv => OneFailurePerInvocation
  BY DEF IInv, OneFailurePerInvocation, BatchOK, RowOK
<1> QED BY <1>1, Invariance, PTL

-----------------------------------------------------------------------------
(***************************************************************************)
(* A step that leaves the request table alone leaves parked rows alone.    *)
(***************************************************************************)
LEMMA TableUntouched ==
  ASSUME UNCHANGED requestVars
  PROVE  \A w \in Waves : StaysParked(w)
BY DEF requestVars, StaysParked

(***************************************************************************)
(* A mark by an API request ends only the parking of the wave it marks.    *)
(***************************************************************************)
LEMMA MarkEndsParking ==
  ASSUME TypeOK, NEW v \in Waves, Mark(v), UNCHANGED refresherVars
  PROVE  \A w \in Waves : StaysParked(w)
BY MarkFacts DEF StaysParked

(***************************************************************************)
(* The refresher deletes no parked row: the row it captured is not parked. *)
(***************************************************************************)
LEMMA DeleteSparesParked ==
  ASSUME IInv, rpc = "delete", DeleteCaptured(row)
  PROVE  \A w \in Waves : StaysParked(w)
<1>1. TypeOK
  BY DEF IInv
<1>2. Captured(row) => attempts[row.wave] < MaxAttempts
  BY DEF IInv, RowOK, Busy
<1>3. CASE Captured(row)
  <2> SUFFICES ASSUME NEW w \in Waves,
                      w \in requested, attempts[w] = MaxAttempts
               PROVE  w \in requested' /\ dirtyAt'[w] = dirtyAt[w]
                        /\ attempts'[w] = attempts[w]
    BY DEF StaysParked
  <2>1. w # row.wave
    BY <1>2, <1>3, ConstantsAssumption
  <2> QED BY <1>1, <1>3, <2>1, DeleteFacts
<1>4. CASE ~Captured(row)
  BY <1>1, <1>4, DeleteFacts, TableUntouched
<1> QED BY <1>3, <1>4

(***************************************************************************)
(* Only a write that re-dirties the wave ends the parking of a row.        *)
(***************************************************************************)
LEMMA NextSparesParked ==
  ASSUME IInv, [Next]_vars
  PROVE  \A w \in Waves : StaysParked(w)
<1>0. TypeOK
  BY DEF IInv
<1>1. CASE \E a \in Writers : WriterNext(a)
  <2>1. PICK a \in Writers : WriterNext(a)
    BY <1>1
  <2>2. CASE \E w \in Waves : DeleteDrop(a, w)
    BY <1>0, <2>2, MarkEndsParking, TableUntouched DEF DeleteDrop
  <2>3. CASE MarkAgain(a) \/ MarkAgainFails(a)
    <3>1. wwave[a] \in Waves
      BY <1>0 DEF TypeOK
    <3> QED BY <1>0, <2>3, <3>1, MarkEndsParking, TableUntouched
               DEF MarkAgain, MarkAgainFails
  <2>4. CASE \/ \E t \in MetricTables : DirectResync(a, t)
             \/ Enqueue(a)
             \/ WriterCrash(a)
    BY <2>4, TableUntouched DEF DirectResync, Enqueue, WriterCrash
  <2> QED BY <2>1, <2>2, <2>3, <2>4 DEF WriterNext
<1>2. CASE DeleteRow \/ DeleteRowFails
  BY <1>2, DeleteSparesParked, TableUntouched DEF DeleteRow, DeleteRowFails
<1>3. CASE RecordFailure
  <2>1. UNCHANGED <<requested, dirtyAt>>
    BY <1>3 DEF RecordFailure
  <2>2. \A w \in Waves : attempts[w] = MaxAttempts => attempts'[w] = attempts[w]
    BY <1>0, <1>3, ConstantsAssumption
       DEF RecordFailure, IInv, RowOK, Busy, TypeOK
  <2> QED BY <2>1, <2>2 DEF StaysParked
<1>4. CASE \/ InvokeByMessage \/ InvokeBySchedule \/ SelectRows \/ TakeRow
           \/ \E t \in MetricTables : ResyncRow(t)
           \/ ResyncRowFails \/ BatchDone \/ CheckMore \/ Continue
           \/ RefresherCrash
  BY <1>4, TableUntouched
     DEF InvokeByMessage, InvokeBySchedule, Invoke, SelectRows, TakeRow,
         ResyncRow, ResyncRowFails, BatchDone, CheckMore, Continue,
         RefresherCrash
<1>5. CASE UNCHANGED vars
  BY <1>5, TableUntouched DEF vars
<1> QED BY <1>1, <1>2, <1>3, <1>4, <1>5
           DEF Next, RefresherNext, RefresherStep

(***************************************************************************)
(* A parked row keeps its version and its attempts until a write           *)
(* re-dirties the wave ("Park poison rows until another write re-dirties   *)
(* the wave").                                                             *)
(***************************************************************************)
THEOREM ParkedRowsWait == Spec => ParkedUntilRedirtied
<1>1. IInv /\ [Next]_vars => [\A w \in Waves : StaysParked(w)]_vars
  BY NextSparesParked
<1> QED BY <1>1, Invariance, PTL DEF Spec, ParkedUntilRedirtied

-----------------------------------------------------------------------------
(***************************************************************************)
(* With at most one failure, a wave for which no repair is owed is counted *)
(* in full.                                                                *)
(***************************************************************************)
LEMMA UnowedIsRepaired ==
  ASSUME MaxFaults <= 1, IInv, NEW w \in Waves, w \notin Owed
  PROVE  \A t \in MetricTables : metrics[w][t] = deletes[w]
<1>1. ~(faults >= 2)
  BY ConstantsAssumption DEF IInv, TypeOK
<1> QED BY <1>1 DEF IInv, NoLostRepair, Excused, Behind, Owed

(***************************************************************************)
(* A step that changes no counter and takes at most the wave w off the     *)
(* owed ones discharges w or changes nothing.                              *)
(***************************************************************************)
LEMMA Discharges ==
  ASSUME MaxFaults <= 1, IInv', NEW w \in Waves,
         UNCHANGED <<deletes, metrics>>,
         Owed' = Owed \/ Owed' = Owed \ {w}
  PROVE  [Promise!Next]_(Promise!vars)
<1>1. CASE Owed' = Owed
  BY <1>1 DEF Promise!vars
<1>2. CASE Owed' = Owed \ {w}
  <2>1. ~(faults >= 2)'
    BY ConstantsAssumption DEF IInv, TypeOK
  <2>2. w \notin Owed'
    BY <1>2
  <2>3. \A t \in MetricTables : metrics'[w][t] = deletes'[w]
    BY <2>1, <2>2 DEF IInv, NoLostRepair, Excused, Behind, Owed
  <2>4. Promise!Discharge(w)
    BY <1>2, <2>3 DEF Promise!Discharge
  <2> QED BY <2>4 DEF Promise!Next
<1> QED BY <1>1, <1>2

(***************************************************************************)
(* An API request that deletes a drop owes the repair of its wave from the *)
(* commit on; what it does next keeps the promise.                         *)
(***************************************************************************)
LEMMA WriterKeepsPromise ==
  ASSUME MaxFaults <= 1, IInv, IInv', NEW a \in Writers, WriterNext(a)
  PROVE  [Promise!Next]_(Promise!vars)
<1>0. TypeOK /\ TypeOK' /\ wwave[a] \in Waves
  BY DEF IInv, TypeOK
<1>1. CASE \E w \in Waves : DeleteDrop(a, w)
  <2>1. PICK w \in Waves : DeleteDrop(a, w)
    BY <1>1
  <2>2. requested' = requested \/ requested' = requested \cup {w}
    BY <2>1 DEF DeleteDrop, Mark, requestVars
  <2>3. \A v \in Waves \ {w} : AboutToMark(v)' <=> AboutToMark(v)
    BY <1>0, <2>1 DEF DeleteDrop, AboutToMark, TypeOK
  <2>4. AboutToMark(w)'
    BY <1>0, <2>1 DEF DeleteDrop, AboutToMark, TypeOK
  <2>5. Owed' = Owed \cup {w}
    BY <1>0, <2>2, <2>3, <2>4 DEF Owed
  <2>6. Promise!Delete(w)
    BY <2>1, <2>5 DEF Promise!Delete, DeleteDrop
  <2> QED BY <2>6 DEF Promise!Next
<1>2. CASE MarkAgain(a) \/ MarkAgainFails(a) \/ WriterCrash(a)
  <2>0. PICK w \in Waves : w = wwave[a]
    BY <1>0
  <2>1. UNCHANGED <<deletes, metrics>>
    BY <1>2 DEF MarkAgain, MarkAgainFails, WriterCrash
  <2>2. requested' = requested \/ requested' = requested \cup {w}
    BY <2>0, <1>2
       DEF MarkAgain, MarkAgainFails, WriterCrash, Mark, requestVars
  <2>3. \A v \in Waves \ {w} : AboutToMark(v)' <=> AboutToMark(v)
    BY <1>0, <2>0, <1>2
       DEF MarkAgain, MarkAgainFails, WriterCrash, AboutToMark, TypeOK
  <2>4. wpc[a] = "committed" => AboutToMark(w)
    BY <2>0 DEF AboutToMark
  <2>5. wpc[a] # "committed" => requested' = requested
    BY <1>2 DEF MarkAgain, MarkAgainFails, WriterCrash, requestVars
  <2>6. AboutToMark(w)' => AboutToMark(w)
    BY <1>0, <2>0, <1>2
       DEF MarkAgain, MarkAgainFails, WriterCrash, AboutToMark, TypeOK
  <2>7. Owed' = Owed \/ Owed' = Owed \ {w}
    <3>1. Owed \ {w} \subseteq Owed' /\ Owed' \ {w} \subseteq Owed
      BY <2>2, <2>3 DEF Owed
    <3>2. w \in Owed' => w \in Owed
      BY <2>2, <2>4, <2>5, <2>6 DEF Owed
    <3> QED BY <3>1, <3>2
  <2> QED BY <1>0, <2>1, <2>7, Discharges
<1>3. CASE \E t \in MetricTables : DirectResync(a, t)
  <2>1. PICK t \in MetricTables : DirectResync(a, t)
    BY <1>3
  <2>2. \A v \in Waves : AboutToMark(v)' <=> AboutToMark(v)
    BY <1>0, <2>1 DEF DirectResync, AboutToMark, TypeOK
  <2>3. UNCHANGED <<deletes, requested>> /\ Owed' = Owed
    BY <2>1, <2>2 DEF DirectResync, requestVars, Owed
  <2>4. CASE Resync(wwave[a], t)
    BY <1>0, <2>3, <2>4 DEF Resync, Promise!Next, Promise!Recount
  <2>5. CASE UNCHANGED metrics
    BY <2>3, <2>5 DEF Promise!vars
  <2> QED BY <2>1, <2>4, <2>5 DEF DirectResync
<1>4. CASE Enqueue(a)
  <2>1. \A v \in Waves : AboutToMark(v)' <=> AboutToMark(v)
    BY <1>0, <1>4 DEF Enqueue, AboutToMark, TypeOK
  <2> QED BY <1>4, <2>1 DEF Enqueue, requestVars, Owed, Promise!vars
<1> QED BY <1>1, <1>2, <1>3, <1>4 DEF WriterNext

(***************************************************************************)
(* The refresher discharges a repair only by deleting the captured version *)
(* of its row.                                                             *)
(***************************************************************************)
LEMMA RefresherKeepsPromise ==
  ASSUME MaxFaults <= 1, IInv, IInv', RefresherNext
  PROVE  [Promise!Next]_(Promise!vars)
<1>0. TypeOK /\ row.wave \in Waves
  BY DEF IInv, TypeOK, Rows
<1>1. UNCHANGED <<deletes, writerVars>>
  BY DEF RefresherNext, InvokeByMessage, InvokeBySchedule, Invoke,
         RefresherStep, SelectRows, TakeRow, ResyncRow, DeleteRow,
         RecordFailure, BatchDone, CheckMore, Continue, ResyncRowFails,
         DeleteRowFails, RefresherCrash
<1>2. \A v \in Waves : AboutToMark(v)' <=> AboutToMark(v)
  BY <1>1 DEF writerVars, AboutToMark
<1>3. CASE DeleteRow \/ DeleteRowFails
  <2>1. requested' = requested \/ requested' = requested \ {row.wave}
    BY <1>3 DEF DeleteRow, DeleteRowFails, DeleteCaptured, requestVars
  <2>2. Owed' = Owed \/ Owed' = Owed \ {row.wave}
    BY <1>0, <1>2, <2>1 DEF Owed
  <2>3. UNCHANGED metrics
    BY <1>3 DEF DeleteRow, DeleteRowFails
  <2> QED BY <1>0, <1>1, <2>2, <2>3, Discharges
<1>4. CASE \E t \in MetricTables : ResyncRow(t)
  <2>1. PICK t \in MetricTables : ResyncRow(t)
    BY <1>4
  <2>2. requested' = requested /\ Resync(row.wave, t)
    BY <2>1 DEF ResyncRow, requestVars
  <2>3. Owed' = Owed
    BY <1>2, <2>2 DEF Owed
  <2>4. Promise!Recount(row.wave, t)
    BY <1>1, <2>2, <2>3 DEF Resync, Promise!Recount
  <2> QED BY <1>0, <2>4 DEF Promise!Next
<1>5. CASE \/ InvokeByMessage \/ InvokeBySchedule \/ SelectRows \/ TakeRow
           \/ ResyncRowFails \/ RecordFailure \/ BatchDone \/ CheckMore
           \/ Continue \/ RefresherCrash
  <2>1. UNCHANGED <<metrics, requested>>
    BY <1>5
       DEF InvokeByMessage, InvokeBySchedule, Invoke, SelectRows, TakeRow,
           ResyncRowFails, RecordFailure, BatchDone, CheckMore, Continue,
           RefresherCrash, requestVars
  <2> QED BY <1>1, <1>2, <2>1 DEF Owed, Promise!vars
<1> QED BY <1>3, <1>4, <1>5 DEF RefresherNext, RefresherStep

(***************************************************************************)
(* With at most one failure the request table implements the durable       *)
(* promise: a repair, once owed, is discharged only by counters that count *)
(* every committed deletion.                                               *)
(***************************************************************************)
THEOREM ImplementsDurableRepair ==
  ASSUME MaxFaults <= 1
  PROVE  Spec => KeepsPromise
<1>1. Init => Promise!Init
  BY DEF Init, Promise!Init, Owed, AboutToMark
<1>2. IInv /\ IInv' /\ [Next]_vars => [Promise!Next]_(Promise!vars)
  <2> SUFFICES ASSUME IInv, IInv', [Next]_vars
               PROVE  [Promise!Next]_(Promise!vars)
    OBVIOUS
  <2>1. CASE \E a \in Writers : WriterNext(a)
    BY <2>1, WriterKeepsPromise
  <2>2. CASE RefresherNext
    BY <2>2, RefresherKeepsPromise
  <2>3. CASE UNCHANGED vars
    BY <2>3
       DEF vars, requestVars, writerVars, Owed, AboutToMark, Promise!vars
  <2> QED BY <2>1, <2>2, <2>3 DEF Next
<1> QED BY <1>1, <1>2, Invariance, PTL DEF Spec, KeepsPromise, Promise!Spec
=============================================================================
