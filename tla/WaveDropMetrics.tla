---------------------------- MODULE WaveDropMetrics ----------------------------
(***************************************************************************)
(* The drop counters of a wave (tables wave_metrics and                    *)
(* wave_dropper_metrics) are repaired asynchronously after a drop is       *)
(* deleted.  The transaction that deletes the drop writes a request row    *)
(* for the wave in wave_drop_metrics_refresh_requests; after the commit    *)
(* the API marks the wave once more and wakes the refresher through a FIFO *)
(* queue; a schedule wakes it too.  The refresher drains the table: it     *)
(* recounts both counter tables of a wave and deletes the request row only *)
(* if its version (dirty_at) is still the one it captured.                 *)
(*                                                                         *)
(* Writers are the API requests that delete a drop for good.  There is one *)
(* refresher: the Lambda has reservedConcurrency 1.  A recount is one      *)
(* locking SQL statement per table (update .. join (select ..) at          *)
(* REPEATABLE READ), so it sees every committed deletion of the wave: the  *)
(* model keeps, per wave, how many deletions are committed and how many of *)
(* them each counter table has been recounted with.                        *)
(***************************************************************************)
EXTENDS Integers, FiniteSets

CONSTANTS
  Waves,            \* the waves drops are deleted from
  Writers,          \* concurrent API requests that delete a drop
  MetricTables,     \* the counter tables a refresh recounts
  BatchSize,        \* rows the refresher selects at once
  MaxBatches,       \* batches one invocation of the refresher may drain
  MaxAttempts,      \* failures after which a row is parked
  Times,            \* values Time.currentMillis() may return
  MaxDeletes,       \* bound: deletions per wave
  MaxFaults         \* bound: failed calls and killed Lambdas in a behaviour

ASSUME ConstantsAssumption ==
  /\ IsFiniteSet(Waves)
  /\ MetricTables # {}
  /\ BatchSize \in Nat \ {0}
  /\ MaxBatches \in Nat \ {0}
  /\ MaxAttempts \in Nat \ {0}
  /\ Times \subseteq Nat
  /\ MaxDeletes \in Nat
  /\ MaxFaults \in Nat

VARIABLES
  deletes,     \* deletes[w]: committed deletions of drops of wave w
  metrics,     \* metrics[w][t]: deletions table t was last recounted with
  requested,   \* waves that have a row in the request table
  dirtyAt,     \* dirtyAt[w]: version of the row (0 when there is none)
  attempts,    \* attempts[w]: failed refreshes of this version of the row
  wake,        \* a wake-up message is visible in the FIFO queue
  wpc,         \* wpc[a]: what the API request a does next
  wwave,       \* wwave[a]: the wave a deletes from
  wtodo,       \* wtodo[a]: tables a still has to recount directly
  rpc,         \* what the refresher does next
  batch,       \* selected rows the refresher has not taken yet
  row,         \* the row the refresher works on
  todo,        \* tables the refresher still has to recount for that row
  failed,      \* waves that failed in this invocation
  batches,     \* batches this invocation has completed
  full,        \* whether the last selection returned BatchSize rows
  faults       \* failures so far

requestVars   == <<requested, dirtyAt, attempts>>
writerVars    == <<wpc, wwave, wtodo>>
refresherVars == <<rpc, batch, row, todo, failed, batches, full>>
vars == <<deletes, metrics, requestVars, wake, writerVars, refresherVars,
          faults>>

Rows == [wave : Waves, dirtyAt : Nat]

Greatest(a, b) == IF a >= b THEN a ELSE b

TypeOK ==
  /\ deletes \in [Waves -> Nat]
  /\ metrics \in [Waves -> [MetricTables -> Nat]]
  /\ requested \subseteq Waves
  /\ dirtyAt \in [Waves -> Nat]
  /\ attempts \in [Waves -> 0 .. MaxAttempts]
  /\ wake \in BOOLEAN
  /\ wpc \in [Writers -> {"idle", "committed", "direct", "enqueue"}]
  /\ wwave \in [Writers -> Waves]
  /\ wtodo \in [Writers -> SUBSET MetricTables]
  /\ rpc \in {"idle", "select", "next", "resync", "delete", "record",
              "check", "continue"}
  /\ batch \subseteq Rows
  /\ row \in Rows
  /\ todo \subseteq MetricTables
  /\ failed \subseteq Waves
  /\ batches \in Nat
  /\ full \in BOOLEAN
  /\ faults \in 0 .. MaxFaults

Init ==
  /\ deletes = [w \in Waves |-> 0]
  /\ metrics = [w \in Waves |-> [t \in MetricTables |-> 0]]
  /\ requested = {}
  /\ dirtyAt = [w \in Waves |-> 0]
  /\ attempts = [w \in Waves |-> 0]
  /\ wake = FALSE
  /\ wpc = [a \in Writers |-> "idle"]
  /\ wwave \in [Writers -> Waves]
  /\ wtodo = [a \in Writers |-> {}]
  /\ rpc = "idle"
  /\ batch = {}
  /\ row \in [wave : Waves, dirtyAt : {0}]
  /\ todo = {}
  /\ failed = {}
  /\ batches = 0
  /\ full = FALSE
  /\ faults = 0

(***************************************************************************)
(* A call that fails or a Lambda that is killed.                           *)
(***************************************************************************)
Fault ==
  /\ faults < MaxFaults
  /\ faults' = faults + 1

-----------------------------------------------------------------------------
(***************************************************************************)
(* Statements on the request table.                                        *)
(***************************************************************************)

\* Faulty variant: a re-dirtied row takes the clock as its version.
MarkWallClock(w) ==
  \E now \in Times :
    /\ requested' = requested \cup {w}
    /\ dirtyAt' = [dirtyAt EXCEPT ![w] = now]
    /\ attempts' = [attempts EXCEPT ![w] = 0]

\* Faulty variant: a re-dirtied row keeps its attempts.
MarkKeepsAttempts(w) ==
  \E now \in Times :
    /\ requested' = requested \cup {w}
    /\ dirtyAt' = [dirtyAt EXCEPT ![w] =
                     IF w \in requested THEN Greatest(now, @ + 1) ELSE now]
    /\ UNCHANGED attempts

\* insert .. on duplicate key update: a re-dirtied row gets a later version.
Mark(w) ==
  \E now \in Times :
    /\ requested' = requested \cup {w}
    /\ dirtyAt' = [dirtyAt EXCEPT ![w] =
                     IF w \in requested THEN Greatest(now, @ + 1) ELSE now]
    /\ attempts' = [attempts EXCEPT ![w] = 0]

\* The captured-version condition of the delete and of the failure update.
Captured(r) == r.wave \in requested /\ dirtyAt[r.wave] = r.dirtyAt

\* Faulty variant: the row is deleted whatever its version.
DeleteByWave(r) ==
  /\ requested' = requested \ {r.wave}
  /\ dirtyAt' = [dirtyAt EXCEPT ![r.wave] = 0]
  /\ attempts' = [attempts EXCEPT ![r.wave] = 0]

DeleteCaptured(r) ==
  IF Captured(r)
    THEN /\ requested' = requested \ {r.wave}
         /\ dirtyAt' = [dirtyAt EXCEPT ![r.wave] = 0]
         /\ attempts' = [attempts EXCEPT ![r.wave] = 0]
    ELSE UNCHANGED requestVars

\* Faulty variants of the selection: parked rows are returned; waves that
\* failed are returned; a row is parked one failure early.
SelectableParked  == {w \in requested : w \notin failed}
SelectableFailed  == {w \in requested : attempts[w] < MaxAttempts}
SelectableTooFew  == {w \in requested : attempts[w] + 1 < MaxAttempts
                                        /\ w \notin failed}

\* Rows a selection may return: not parked and not failed in this invocation.
Selectable == {w \in requested : attempts[w] < MaxAttempts /\ w \notin failed}

\* update .. join: table t of wave w is recounted with what is committed.
Resync(w, t) == metrics' = [metrics EXCEPT ![w][t] = deletes[w]]

-----------------------------------------------------------------------------
(***************************************************************************)
(* The API request that deletes a drop.                                    *)
(***************************************************************************)

\* The transaction: the drop is deleted and the wave is marked in it.  A mark
\* that fails is swallowed and the transaction commits without it.
DeleteDrop(a, w) ==
  /\ wpc[a] = "idle"
  /\ deletes[w] < MaxDeletes
  /\ deletes' = [deletes EXCEPT ![w] = @ + 1]
  /\ wpc' = [wpc EXCEPT ![a] = "committed"]
  /\ wwave' = [wwave EXCEPT ![a] = w]
  /\ \/ Mark(w) /\ UNCHANGED faults
     \/ Fault /\ UNCHANGED requestVars
  /\ UNCHANGED <<metrics, wake, wtodo, refresherVars>>

\* After the commit: a second mark, then a wake-up.
MarkAgain(a) ==
  /\ wpc[a] = "committed"
  /\ Mark(wwave[a])
  /\ wpc' = [wpc EXCEPT ![a] = "enqueue"]
  /\ UNCHANGED <<deletes, metrics, wake, wwave, wtodo, refresherVars, faults>>

\* The second mark reports an error, whether or not it took effect: the
\* request recounts the wave itself and sends no wake-up.
MarkAgainFails(a) ==
  /\ wpc[a] = "committed"
  /\ Fault
  /\ Mark(wwave[a]) \/ UNCHANGED requestVars
  /\ wpc' = [wpc EXCEPT ![a] = "direct"]
  /\ wtodo' = [wtodo EXCEPT ![a] = MetricTables]
  /\ UNCHANGED <<deletes, metrics, wake, wwave, refresherVars>>

\* One statement of the direct recount ends, with or without an error.
DirectResync(a, t) ==
  /\ wpc[a] = "direct"
  /\ t \in wtodo[a]
  /\ wtodo' = [wtodo EXCEPT ![a] = @ \ {t}]
  /\ wpc' = IF wtodo[a] = {t} THEN [wpc EXCEPT ![a] = "idle"] ELSE wpc
  /\ \/ Resync(wwave[a], t) /\ UNCHANGED faults
     \/ Fault /\ UNCHANGED metrics
  /\ UNCHANGED <<deletes, requestVars, wake, wwave, refresherVars>>

\* The wake-up is best effort.
Enqueue(a) ==
  /\ wpc[a] = "enqueue"
  /\ wpc' = [wpc EXCEPT ![a] = "idle"]
  /\ \/ wake' = TRUE /\ UNCHANGED faults
     \/ Fault /\ UNCHANGED wake
  /\ UNCHANGED <<deletes, metrics, requestVars, wwave, wtodo, refresherVars>>

\* The API Lambda is killed after the commit.
WriterCrash(a) ==
  /\ wpc[a] # "idle"
  /\ Fault
  /\ wpc' = [wpc EXCEPT ![a] = "idle"]
  /\ wtodo' = [wtodo EXCEPT ![a] = {}]
  /\ UNCHANGED <<deletes, metrics, requestVars, wake, wwave, refresherVars>>

-----------------------------------------------------------------------------
(***************************************************************************)
(* One invocation of the refresher.                                        *)
(***************************************************************************)
Invoke ==
  /\ rpc = "idle"
  /\ rpc' = "select"
  /\ failed' = {}
  /\ batches' = 0
  /\ UNCHANGED <<deletes, metrics, requestVars, writerVars, batch, row, todo,
                 full, faults>>

InvokeByMessage  == wake /\ wake' = FALSE /\ Invoke
InvokeBySchedule == UNCHANGED wake /\ Invoke

\* Select the oldest rows, at most BatchSize of them; stop if there are none.
SelectRows ==
  /\ rpc = "select"
  /\ \E chosen \in SUBSET Selectable :
       /\ IF Cardinality(Selectable) <= BatchSize
            THEN chosen = Selectable
            ELSE Cardinality(chosen) = BatchSize
       /\ \A w \in chosen, v \in Selectable \ chosen : dirtyAt[w] <= dirtyAt[v]
       /\ batch' = {[wave |-> w, dirtyAt |-> dirtyAt[w]] : w \in chosen}
       /\ full' = (Cardinality(chosen) = BatchSize)
       /\ rpc' = IF chosen = {} THEN "idle" ELSE "next"
  /\ UNCHANGED <<deletes, metrics, requestVars, wake, writerVars, row, todo,
                 failed, batches, faults>>

TakeRow ==
  /\ rpc = "next"
  /\ \E r \in batch :
       /\ \A s \in batch : r.dirtyAt <= s.dirtyAt
       /\ row' = r
       /\ batch' = batch \ {r}
  /\ todo' = MetricTables
  /\ rpc' = "resync"
  /\ UNCHANGED <<deletes, metrics, requestVars, wake, writerVars, failed,
                 batches, full, faults>>

ResyncRow(t) ==
  /\ rpc = "resync"
  /\ t \in todo
  /\ Resync(row.wave, t)
  /\ todo' = todo \ {t}
  /\ rpc' = IF todo = {t} THEN "delete" ELSE "resync"
  /\ UNCHANGED <<deletes, requestVars, wake, writerVars, batch, row, failed,
                 batches, full, faults>>

\* A recount fails; the statements already issued may have taken effect.
ResyncRowFails ==
  /\ rpc = "resync"
  /\ Fault
  /\ rpc' = "record"
  /\ UNCHANGED <<deletes, metrics, requestVars, wake, writerVars, batch, row,
                 todo, failed, batches, full>>

DeleteRow ==
  /\ rpc = "delete"
  /\ DeleteCaptured(row)
  /\ rpc' = "next"
  /\ UNCHANGED <<deletes, metrics, wake, writerVars, batch, row, todo, failed,
                 batches, full, faults>>

\* The delete reports an error, whether or not it took effect.
DeleteRowFails ==
  /\ rpc = "delete"
  /\ Fault
  /\ DeleteCaptured(row) \/ UNCHANGED requestVars
  /\ rpc' = "record"
  /\ UNCHANGED <<deletes, metrics, wake, writerVars, batch, row, todo, failed,
                 batches, full>>

RecordFailure ==
  /\ rpc = "record"
  /\ attempts' = IF Captured(row)
                   THEN [attempts EXCEPT ![row.wave] = @ + 1]
                   ELSE attempts
  /\ failed' = failed \cup {row.wave}
  /\ rpc' = "next"
  /\ UNCHANGED <<deletes, metrics, requested, dirtyAt, wake, writerVars, batch,
                 row, todo, batches, full, faults>>

\* The batch is done: look for more rows, stop, or hand over.
BatchDone ==
  /\ rpc = "next"
  /\ batch = {}
  /\ batches' = batches + 1
  /\ rpc' = CASE batches + 1 >= MaxBatches -> "check"
              [] batches + 1 < MaxBatches /\ full -> "select"
              [] OTHER -> "idle"
  /\ UNCHANGED <<deletes, metrics, requestVars, wake, writerVars, batch, row,
                 todo, failed, full, faults>>

\* Faulty variant: an invocation never hands over.
CheckMoreNever ==
  /\ rpc = "check"
  /\ rpc' = "idle"
  /\ UNCHANGED <<deletes, metrics, requestVars, wake, writerVars, batch, row,
                 todo, failed, batches, full, faults>>

CheckMore ==
  /\ rpc = "check"
  /\ rpc' = IF Selectable # {} THEN "continue" ELSE "idle"
  /\ UNCHANGED <<deletes, metrics, requestVars, wake, writerVars, batch, row,
                 todo, failed, batches, full, faults>>

Continue ==
  /\ rpc = "continue"
  /\ wake' = TRUE
  /\ rpc' = "idle"
  /\ UNCHANGED <<deletes, metrics, requestVars, writerVars, batch, row, todo,
                 failed, batches, full, faults>>

\* The Lambda dies, or a call outside the per-row try block throws.  The
\* message that started it, if one did, comes back unless it is dead-lettered.
RefresherCrash ==
  /\ rpc # "idle"
  /\ Fault
  /\ wake' \in {wake, TRUE}
  /\ rpc' = "idle"
  /\ batch' = {}
  /\ UNCHANGED <<deletes, metrics, requestVars, writerVars, row, todo, failed,
                 batches, full>>

-----------------------------------------------------------------------------
WriterNext(a) ==
  \/ \E w \in Waves : DeleteDrop(a, w)
  \/ MarkAgain(a)
  \/ MarkAgainFails(a)
  \/ \E t \in MetricTables : DirectResync(a, t)
  \/ Enqueue(a)
  \/ WriterCrash(a)

\* What the refresher does when no call fails.
RefresherStep ==
  \/ SelectRows
  \/ TakeRow
  \/ \E t \in MetricTables : ResyncRow(t)
  \/ DeleteRow
  \/ RecordFailure
  \/ BatchDone
  \/ CheckMore
  \/ Continue

RefresherNext ==
  \/ InvokeByMessage
  \/ InvokeBySchedule
  \/ RefresherStep
  \/ ResyncRowFails
  \/ DeleteRowFails
  \/ RefresherCrash

Next == (\E a \in Writers : WriterNext(a)) \/ RefresherNext

\* A request that has committed runs on, the queue invokes the refresher, and a
\* running invocation makes progress. That the schedule keeps invoking it is
\* assumed where a property says so.
Fairness ==
  /\ \A a \in Writers :
       /\ WF_vars(MarkAgain(a))
       /\ WF_vars(\E t \in MetricTables : DirectResync(a, t))
       /\ WF_vars(Enqueue(a))
  /\ WF_vars(InvokeByMessage)
  /\ WF_vars(RefresherStep)

Spec     == Init /\ [][Next]_vars
FairSpec == Spec /\ Fairness

-----------------------------------------------------------------------------
(***************************************************************************)
(* Properties.                                                             *)
(***************************************************************************)
Behind(w) == \E t \in MetricTables : metrics[w][t] # deletes[w]

\* An API request has committed a deletion of wave w and is about to mark w.
AboutToMark(w) == \E a \in Writers : wwave[a] = w /\ wpc[a] = "committed"

(***************************************************************************)
(* No single failure loses a repair: counters that lag behind a committed  *)
(* deletion have a request row, unless a call failed and the request that  *)
(* deleted the drop is about to mark the wave again, or at least two calls *)
(* failed.  (The marks inside and after the transaction, greatest(..) on   *)
(* dirty_at, and the captured-version delete.)                             *)
(***************************************************************************)
Excused(w) == faults >= 2 \/ (faults = 1 /\ AboutToMark(w))

NoLostRepair ==
  \A w \in Waves : Behind(w) => (w \in requested \/ Excused(w))

(***************************************************************************)
(* The inductive invariant behind the properties above and below.          *)
(***************************************************************************)
Busy == rpc \in {"resync", "delete", "record"}

\* Selected rows not taken yet: one per wave, still in the table at the same
\* or a later version, not parked, and not failed in this invocation.
BatchOK ==
  /\ \A r \in batch :
       /\ r.wave \in requested
       /\ r.dirtyAt <= dirtyAt[r.wave]
       /\ attempts[r.wave] < MaxAttempts
       /\ rpc # "idle" => r.wave \notin failed
       /\ Busy => r.wave # row.wave
  /\ \A r, s \in batch : r.wave = s.wave => r = s

\* The row being worked on; after a delete whose outcome is unknown it may be
\* gone, or inserted anew.
RowOK ==
  /\ rpc \in {"resync", "delete"} =>
       row.wave \in requested /\ row.dirtyAt <= dirtyAt[row.wave]
  /\ Busy => row.wave \notin failed
  /\ Busy /\ Captured(row) => attempts[row.wave] < MaxAttempts
  /\ rpc = "delete" => todo = {}

\* As long as the captured version is the current one, the tables already
\* recounted are up to date.
RecountOK ==
  rpc \in {"resync", "delete"} /\ Captured(row) =>
    \/ \A t \in MetricTables \ todo : metrics[row.wave][t] = deletes[row.wave]
    \/ Excused(row.wave)

IInv == TypeOK /\ BatchOK /\ RowOK /\ RecountOK /\ NoLostRepair

(***************************************************************************)
(* A wave that failed in this invocation is not taken again by it, so that *)
(* one invocation cannot use up the attempts of a row (the failedWaveIds   *)
(* exclusion of refreshDirtyWaveDropMetrics).                              *)
(***************************************************************************)
OneFailurePerInvocation ==
  /\ rpc # "idle" => \A r \in batch : r.wave \notin failed
  /\ Busy => row.wave \notin failed

\* What a step leaves of a parked row.
StaysParked(w) ==
  (w \in requested /\ attempts[w] = MaxAttempts) =>
    /\ w \in requested'
    /\ \/ dirtyAt'[w] = dirtyAt[w] /\ attempts'[w] = attempts[w]
       \/ /\ dirtyAt'[w] > dirtyAt[w] /\ attempts'[w] = 0
          /\ UNCHANGED refresherVars

(***************************************************************************)
(* A parked row keeps its version and its attempts until a write re-dirties *)
(* the wave, which gives it a later version and all its attempts back       *)
(* ("Park poison rows until another write re-dirties the wave and resets    *)
(* attempts"): only a step of a writer ends the parking.                   *)
(***************************************************************************)
ParkedUntilRedirtied == [][\A w \in Waves : StaysParked(w)]_vars

(***************************************************************************)
(* With the schedule, every committed deletion is eventually counted by    *)
(* every counter table, although a call fails or a Lambda is killed.       *)
(***************************************************************************)
EventuallyRepaired ==
  WF_vars(InvokeBySchedule) => \A w \in Waves : Behind(w) ~> ~Behind(w)

(***************************************************************************)
(* Without the schedule too, as long as nothing fails: the wake-up after   *)
(* each deletion and the refresher's own continuation messages are enough. *)
(***************************************************************************)
WakeupsSuffice ==
  [](faults = 0) => \A w \in Waves : Behind(w) ~> ~Behind(w)

(***************************************************************************)
(* With at most one failure the request table implements the durable       *)
(* promise: a repair is owed while the wave has a row or the request that  *)
(* deleted the drop is about to mark it.                                   *)
(***************************************************************************)
Owed == requested \cup {w \in Waves : AboutToMark(w)}

Promise == INSTANCE DurableRepair WITH owed <- Owed

KeepsPromise == Promise!Spec
=============================================================================
