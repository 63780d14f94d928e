------------------------------ MODULE Attachments ------------------------------
(***************************************************************************)
(* The life of one drop attachment: upload to a private bucket, malware    *)
(* scan, validation and publication on IPFS.                               *)
(*                                                                         *)
(* The API completes the multipart upload and then marks the row           *)
(* VERIFYING.  The object's arrival sends an event to the orchestrator,    *)
(* which polls, by messages it sends to itself, first the row (until it is *)
(* VERIFYING) and then the GuardDuty tag of the object, and hands a clean  *)
(* file to the processor through a second queue.  The processor claims the *)
(* row (VERIFYING -> PROCESSING), validates, publishes and settles it.     *)
(*                                                                         *)
(* Both queues deliver at least once; both Lambdas may run several         *)
(* executions at a time; every call may fail and every execution may be    *)
(* killed.  Rows of different attachments never meet in a statement, so    *)
(* one attachment is enough.                                               *)
(***************************************************************************)
EXTENDS Integers, FiniteSets

CONSTANTS
  Requests,        \* completion requests of the client
  Orchestrators,   \* concurrent executions of attachmentsOrchestrator
  Processors,      \* concurrent executions of attachmentsProcessor
  ScanResults,     \* final values of the GuardDuty tag that may occur
  MaxPolls,        \* MAX_GUARDDUTY_POLL_ATTEMPTS
  MaxReceives,     \* deliveries after which a message is dead-lettered
  RepeatsSucceed,  \* S3 answers a repeated completion with success
  MaxFaults,       \* bound: failed calls and killed executions
  MaxDuplicates    \* bound: duplicate deliveries

Blocking == {"THREATS_FOUND", "UNSUPPORTED"}
Failing  == {"ACCESS_DENIED", "FAILED"}

ASSUME ConstantsAssumption ==
  /\ ScanResults \subseteq {"NO_THREATS_FOUND"} \cup Blocking \cup Failing
  /\ MaxPolls \in Nat
  /\ MaxReceives \in Nat \ {0}
  /\ RepeatsSucceed \in BOOLEAN
  /\ MaxFaults \in Nat
  /\ MaxDuplicates \in Nat

VARIABLES
  status,      \* column status ("none": there is no row yet)
  scan,        \* column guardduty_status
  verdict,     \* column verdict
  linked,      \* whether the row has the IPFS url
  object,      \* the private bucket holds the completed upload
  tag,         \* GuardDuty tag of the object ("none": not tagged yet)
  valid,       \* the content passes validation
  published,   \* IPFS holds the file
  orch,        \* messages for the orchestrator
  work,        \* messages for the processor: how often each was received
  qpc,         \* qpc[q]: what completion request q does next
  opc,         \* opc[o]: what orchestrator execution o does next
  omsg,        \* omsg[o]: the message o handles
  ppc,         \* ppc[p]: what processor execution p does next
  pmsg,        \* pmsg[p]: receive count of the message p handles
  lost,        \* work was lost: a message dead-lettered, or a claim abandoned
  faults,      \* failures so far
  duplicates   \* duplicate deliveries so far

rowVars  == <<status, scan, verdict, linked>>
fileVars == <<object, tag, valid, published>>
orchVars == <<opc, omsg>>
procVars == <<ppc, pmsg>>
vars == <<rowVars, fileVars, orch, work, qpc, orchVars, procVars, lost, faults,
          duplicates>>

Statuses == {"UPLOADING", "VERIFYING", "PROCESSING", "READY", "BLOCKED",
             "FAILED"}
Claiming == {"validate", "publish", "settle", "release", "block"}
Messages == [upload : 0 .. MaxPolls, scan : 0 .. MaxPolls,
             receives : 0 .. MaxReceives - 1]
Verdicts == {"none", "UPLOAD_COMPLETION_TIMEOUT", "MALWARE_SCAN_TIMEOUT",
             "MALWARE_SCAN", "VALIDATED_FOR_PUBLIC_IPFS"}

FirstMessage == [upload |-> 0, scan |-> 0, receives |-> 0]

TypeOK ==
  /\ status \in Statuses \cup {"none"}
  /\ scan \in ScanResults \cup {"none"}
  /\ verdict \in Verdicts
  /\ linked \in BOOLEAN
  /\ object \in BOOLEAN
  /\ tag \in ScanResults \cup {"none"}
  /\ valid \in BOOLEAN
  /\ published \in BOOLEAN
  /\ orch \subseteq Messages
  /\ work \subseteq 0 .. MaxReceives - 1
  /\ qpc \in [Requests -> {"ready", "update", "done"}]
  /\ opc \in [Orchestrators -> {"idle", "read", "tag", "pollUpload",
       "pollScan", "expire", "timeout", "clean", "enqueue", "block", "fail",
       "finish"}]
  /\ omsg \in [Orchestrators -> Messages]
  /\ ppc \in [Processors -> {"idle", "read", "claim", "finish"} \cup Claiming]
  /\ pmsg \in [Processors -> 0 .. MaxReceives - 1]
  /\ lost \in BOOLEAN
  /\ faults \in 0 .. MaxFaults
  /\ duplicates \in 0 .. MaxDuplicates

Init ==
  /\ status = "none" /\ scan = "none" /\ verdict = "none" /\ linked = FALSE
  /\ object = FALSE /\ tag = "none" /\ published = FALSE
  /\ valid \in BOOLEAN
  /\ orch = {} /\ work = {}
  /\ qpc = [q \in Requests |-> "ready"]
  /\ opc = [o \in Orchestrators |-> "idle"]
  /\ omsg = [o \in Orchestrators |-> FirstMessage]
  /\ ppc = [p \in Processors |-> "idle"]
  /\ pmsg = [p \in Processors |-> 0]
  /\ lost = FALSE /\ faults = 0 /\ duplicates = 0

Fault ==
  /\ faults < MaxFaults
  /\ faults' = faults + 1

\* A delivery takes the message off the queue or is one of two.
Take(take) ==
  \/ take /\ UNCHANGED duplicates
  \/ ~take /\ duplicates < MaxDuplicates /\ duplicates' = duplicates + 1

-----------------------------------------------------------------------------
(***************************************************************************)
(* The API and S3.                                                         *)
(***************************************************************************)

\* The row is written before the client learns the upload id.
Create ==
  /\ status = "none"
  /\ status' = "UPLOADING"
  /\ UNCHANGED <<scan, verdict, linked, fileVars, orch, work, qpc, orchVars,
                 procVars, lost, faults, duplicates>>

\* S3 assembles the object, which sends the object-created event.
Assemble ==
  /\ ~object
  /\ object' = TRUE
  /\ orch' = orch \cup {FirstMessage}

\* CompleteMultipartUpload; a repeated one is answered with NoSuchUpload,
\* which becomes a 400, or with success.
CompleteUpload(q) ==
  /\ qpc[q] = "ready"
  /\ status # "none"
  /\ \/ Assemble /\ qpc' = [qpc EXCEPT ![q] = "update"]
     \/ /\ object /\ UNCHANGED <<object, orch>>
        /\ qpc' = [qpc EXCEPT ![q] = IF RepeatsSucceed THEN "update"
                                                       ELSE "done"]
  /\ UNCHANGED <<rowVars, tag, valid, published, work, orchVars, procVars,
                 lost, faults, duplicates>>

\* The call to S3 fails, or the API Lambda dies, with or without effect.
CompleteUploadFails(q) ==
  /\ qpc[q] = "ready"
  /\ status # "none"
  /\ Fault
  /\ Assemble \/ UNCHANGED <<object, orch>>
  /\ qpc' = [qpc EXCEPT ![q] = "done"]
  /\ UNCHANGED <<rowVars, tag, valid, published, work, orchVars, procVars,
                 lost, duplicates>>

\* The status is written whatever it is.
MarkVerifying(q) ==
  /\ qpc[q] = "update"
  /\ qpc' = [qpc EXCEPT ![q] = "done"]
  /\ status' = "VERIFYING"
  /\ UNCHANGED <<scan, verdict, linked, fileVars, orch, work, orchVars,
                 procVars, lost, faults, duplicates>>

MarkVerifyingFails(q) ==
  /\ qpc[q] = "update"
  /\ Fault
  /\ qpc' = [qpc EXCEPT ![q] = "done"]
  /\ UNCHANGED <<rowVars, fileVars, orch, work, orchVars, procVars, lost,
                 duplicates>>

\* GuardDuty tags the object, once.
Scan ==
  /\ object /\ tag = "none"
  /\ tag' \in ScanResults
  /\ UNCHANGED <<rowVars, object, valid, published, orch, work, qpc, orchVars,
                 procVars, lost, faults, duplicates>>

-----------------------------------------------------------------------------
(***************************************************************************)
(* The orchestrator.                                                       *)
(***************************************************************************)
ReceiveMessage(o) ==
  /\ opc[o] = "idle"
  /\ \E m \in orch, take \in BOOLEAN :
       /\ Take(take)
       /\ orch' = IF take THEN orch \ {m} ELSE orch
       /\ omsg' = [omsg EXCEPT ![o] = m]
  /\ opc' = [opc EXCEPT ![o] = "read"]
  /\ UNCHANGED <<rowVars, fileVars, work, qpc, procVars, lost, faults>>

Goto(o, pc) == opc' = [opc EXCEPT ![o] = pc] /\ UNCHANGED omsg

\* The row is final or claimed, not VERIFYING yet, or VERIFYING.  The polls
\* take over an hour and an API request seconds: when the last poll reads the
\* row, no completion is still on its way to it.
ReadRow(o) ==
  /\ opc[o] = "read"
  /\ \/ /\ status \in {"READY", "BLOCKED", "FAILED", "PROCESSING"}
        /\ Goto(o, "finish")
     \/ /\ status = "UPLOADING" /\ omsg[o].upload < MaxPolls
        /\ Goto(o, "pollUpload")
     \/ /\ status = "UPLOADING" /\ omsg[o].upload >= MaxPolls
        /\ \A q \in Requests : qpc[q] # "update"
        /\ Goto(o, "expire")
     \/ /\ status = "VERIFYING"
        /\ Goto(o, "tag")
  /\ UNCHANGED <<rowVars, fileVars, orch, work, qpc, procVars, lost, faults,
                 duplicates>>

\* Faulty variant: only detected threats block a file.
ReadTagUnsupportedIsClean(o) ==
  /\ opc[o] = "tag"
  /\ \/ tag = "none" /\ omsg[o].scan < MaxPolls  /\ Goto(o, "pollScan")
     \/ tag = "none" /\ omsg[o].scan >= MaxPolls /\ Goto(o, "timeout")
     \/ tag \in {"NO_THREATS_FOUND", "UNSUPPORTED"} /\ Goto(o, "clean")
     \/ tag = "THREATS_FOUND" /\ Goto(o, "block")
     \/ tag \in Failing  /\ Goto(o, "fail")
  /\ UNCHANGED <<rowVars, fileVars, orch, work, qpc, procVars, lost, faults,
                 duplicates>>

ReadTag(o) ==
  /\ opc[o] = "tag"
  /\ \/ tag = "none" /\ omsg[o].scan < MaxPolls  /\ Goto(o, "pollScan")
     \/ tag = "none" /\ omsg[o].scan >= MaxPolls /\ Goto(o, "timeout")
     \/ tag = "NO_THREATS_FOUND" /\ Goto(o, "clean")
     \/ tag \in Blocking /\ Goto(o, "block")
     \/ tag \in Failing  /\ Goto(o, "fail")
  /\ UNCHANGED <<rowVars, fileVars, orch, work, qpc, procVars, lost, faults,
                 duplicates>>

\* The message that follows m, after u polls of the upload and s of the scan.
MorePolls(m, u, s) ==
  [upload |-> m.upload + u, scan |-> m.scan + s, receives |-> 0]

\* Faulty variant: a poll for the scan is forgotten.
PollUploadOnly(o) ==
  /\ opc[o] \in {"pollUpload", "pollScan"}
  /\ orch' = IF opc[o] = "pollUpload"
               THEN orch \cup {MorePolls(omsg[o], 1, 0)}
               ELSE orch
  /\ Goto(o, "finish")
  /\ UNCHANGED <<rowVars, fileVars, work, qpc, procVars, lost, faults,
                 duplicates>>

\* A delayed message to itself.
Poll(o) ==
  /\ \/ /\ opc[o] = "pollUpload"
        /\ orch' = orch \cup {MorePolls(omsg[o], 1, 0)}
     \/ /\ opc[o] = "pollScan"
        /\ orch' = orch \cup {MorePolls(omsg[o], 0, 1)}
  /\ Goto(o, "finish")
  /\ UNCHANGED <<rowVars, fileVars, work, qpc, procVars, lost, faults,
                 duplicates>>

\* Faulty variant: the transition ignores the status it starts from.
TransitionAnyway(from, to, newScan, newVerdict) ==
  /\ status' = to /\ scan' = newScan /\ verdict' = newVerdict
  /\ UNCHANGED linked

\* update .. where status = :fromStatus
Transition(from, to, newScan, newVerdict) ==
  IF status = from
    THEN /\ status' = to /\ scan' = newScan /\ verdict' = newVerdict
         /\ UNCHANGED linked
    ELSE UNCHANGED rowVars

\* The attachment is given up, for want of a completed upload or of a scan
\* result, or because of the scan's result.
GiveUp(o) ==
  /\ \/ /\ opc[o] = "expire"
        /\ Transition("UPLOADING", "FAILED", scan, "UPLOAD_COMPLETION_TIMEOUT")
     \/ /\ opc[o] = "timeout"
        /\ Transition("VERIFYING", "FAILED", scan, "MALWARE_SCAN_TIMEOUT")
     \/ opc[o] = "block" /\ Transition("VERIFYING", "BLOCKED", tag, "MALWARE_SCAN")
     \/ opc[o] = "fail"  /\ Transition("VERIFYING", "FAILED", tag, "MALWARE_SCAN")
  /\ Goto(o, "finish")
  /\ UNCHANGED <<fileVars, orch, work, qpc, procVars, lost, faults, duplicates>>

RecordClean(o) ==
  /\ opc[o] = "clean"
  /\ Transition("VERIFYING", "VERIFYING", tag, verdict)
  /\ Goto(o, IF status = "VERIFYING" THEN "enqueue" ELSE "finish")
  /\ UNCHANGED <<fileVars, orch, work, qpc, procVars, lost, faults, duplicates>>

EnqueueProcessing(o) ==
  /\ opc[o] = "enqueue"
  /\ work' = work \cup {0}
  /\ Goto(o, "finish")
  /\ UNCHANGED <<rowVars, fileVars, orch, qpc, procVars, lost, faults,
                 duplicates>>

\* The handler returns and the message is gone.
FinishMessage(o) ==
  /\ opc[o] = "finish"
  /\ Goto(o, "idle")
  /\ UNCHANGED <<rowVars, fileVars, orch, work, qpc, procVars, lost, faults,
                 duplicates>>

\* A call fails or the execution is killed: the message comes back, or is
\* dead-lettered.
OrchestratorFails(o) ==
  /\ opc[o] # "idle"
  /\ Fault
  /\ IF omsg[o].receives + 1 < MaxReceives
       THEN /\ orch' = orch \cup {[omsg[o] EXCEPT !.receives = @ + 1]}
            /\ UNCHANGED lost
       ELSE lost' = TRUE /\ UNCHANGED orch
  /\ Goto(o, "idle")
  /\ UNCHANGED <<rowVars, fileVars, work, qpc, procVars, duplicates>>

-----------------------------------------------------------------------------
(***************************************************************************)
(* The processor.                                                          *)
(***************************************************************************)
ReceiveWork(p) ==
  /\ ppc[p] = "idle"
  /\ \E n \in work, take \in BOOLEAN :
       /\ Take(take)
       /\ work' = IF take THEN work \ {n} ELSE work
       /\ pmsg' = [pmsg EXCEPT ![p] = n]
  /\ ppc' = [ppc EXCEPT ![p] = "read"]
  /\ UNCHANGED <<rowVars, fileVars, orch, qpc, orchVars, lost, faults>>

Continue(p, pc) == ppc' = [ppc EXCEPT ![p] = pc] /\ UNCHANGED pmsg

\* Only an attachment in VERIFYING is processed.
ReadStatus(p) ==
  /\ ppc[p] = "read"
  /\ Continue(p, IF status = "VERIFYING" THEN "claim" ELSE "finish")
  /\ UNCHANGED <<rowVars, fileVars, orch, work, qpc, orchVars, lost, faults,
                 duplicates>>

\* Faulty variant: the claim trusts the status that was read.
ClaimUnconditionally(p) ==
  /\ ppc[p] = "claim"
  /\ status' = "PROCESSING"
  /\ Continue(p, "validate")
  /\ UNCHANGED <<scan, verdict, linked, fileVars, orch, work, qpc, orchVars,
                 lost, faults, duplicates>>

Claim(p) ==
  /\ ppc[p] = "claim"
  /\ Transition("VERIFYING", "PROCESSING", scan, verdict)
  /\ Continue(p, IF status = "VERIFYING" THEN "validate" ELSE "finish")
  /\ UNCHANGED <<fileVars, orch, work, qpc, orchVars, lost, faults, duplicates>>

\* Download and validation: a violation blocks the attachment.
Validate(p) ==
  /\ ppc[p] = "validate"
  /\ Continue(p, IF valid THEN "publish" ELSE "block")
  /\ UNCHANGED <<rowVars, fileVars, orch, work, qpc, orchVars, lost, faults,
                 duplicates>>

\* The download fails.
ValidateFails(p) ==
  /\ ppc[p] = "validate"
  /\ Fault
  /\ Continue(p, "release")
  /\ UNCHANGED <<rowVars, fileVars, orch, work, qpc, orchVars, lost, duplicates>>

\* Upload to IPFS.
Publish(p) ==
  /\ ppc[p] = "publish"
  /\ published' = TRUE
  /\ Continue(p, "settle")
  /\ UNCHANGED <<rowVars, object, tag, valid, orch, work, qpc, orchVars, lost,
                 faults, duplicates>>

\* The upload fails; the file may be on IPFS all the same.
PublishFails(p) ==
  /\ ppc[p] = "publish"
  /\ Fault
  /\ published' = TRUE \/ UNCHANGED published
  /\ Continue(p, "release")
  /\ UNCHANGED <<rowVars, object, tag, valid, orch, work, qpc, orchVars, lost,
                 duplicates>>

\* update .. set status = 'READY' where id = :id
WriteReady ==
  /\ status' = "READY"
  /\ verdict' = "VALIDATED_FOR_PUBLIC_IPFS"
  /\ linked' = TRUE
  /\ UNCHANGED scan

Settle(p) ==
  /\ ppc[p] = "settle"
  /\ WriteReady
  /\ Continue(p, "finish")
  /\ UNCHANGED <<fileVars, orch, work, qpc, orchVars, lost, faults, duplicates>>

SettleFails(p) ==
  /\ ppc[p] = "settle"
  /\ Fault
  /\ WriteReady \/ UNCHANGED rowVars
  /\ Continue(p, "release")
  /\ UNCHANGED <<fileVars, orch, work, qpc, orchVars, lost, duplicates>>

\* The message comes back, or is dead-lettered.
ReturnWork(p) ==
  IF pmsg[p] + 1 < MaxReceives
    THEN work' = work \cup {pmsg[p] + 1} /\ UNCHANGED lost
    ELSE lost' = TRUE /\ UNCHANGED work

\* Faulty variant: a failed attempt keeps its claim.
ReleaseForgotten(p) ==
  /\ \/ ppc[p] = "release" /\ UNCHANGED status
     \/ ppc[p] = "block"   /\ status' = "BLOCKED"
  /\ ReturnWork(p)
  /\ Continue(p, "idle")
  /\ UNCHANGED <<scan, verdict, linked, fileVars, orch, qpc, orchVars, faults,
                 duplicates>>

\* The catch block: the status is written whatever it is, then the error is
\* thrown again and the message comes back.
Release(p) ==
  /\ \/ ppc[p] = "release" /\ status' = "VERIFYING"
     \/ ppc[p] = "block"   /\ status' = "BLOCKED"
  /\ ReturnWork(p)
  /\ Continue(p, "idle")
  /\ UNCHANGED <<scan, verdict, linked, fileVars, orch, qpc, orchVars, faults,
                 duplicates>>

FinishWork(p) ==
  /\ ppc[p] = "finish"
  /\ Continue(p, "idle")
  /\ UNCHANGED <<rowVars, fileVars, orch, work, qpc, orchVars, lost, faults,
                 duplicates>>

\* The execution is killed, or a call outside the try block or in the catch
\* block fails.  A claim it holds is never given up.
ProcessorFails(p) ==
  /\ ppc[p] # "idle"
  /\ Fault
  /\ IF ppc[p] \in Claiming
       THEN /\ lost' = TRUE
            /\ work' = IF pmsg[p] + 1 < MaxReceives
                         THEN work \cup {pmsg[p] + 1} ELSE work
       ELSE ReturnWork(p)
  /\ Continue(p, "idle")
  /\ UNCHANGED <<rowVars, fileVars, orch, qpc, orchVars, duplicates>>

-----------------------------------------------------------------------------
OrchestratorStep(o) ==
  \/ ReceiveMessage(o) \/ ReadRow(o) \/ ReadTag(o) \/ Poll(o) \/ GiveUp(o)
  \/ RecordClean(o) \/ EnqueueProcessing(o) \/ FinishMessage(o)

ProcessorStep(p) ==
  \/ ReceiveWork(p) \/ ReadStatus(p) \/ Claim(p) \/ Validate(p) \/ Publish(p)
  \/ Settle(p) \/ Release(p) \/ FinishWork(p)

\* Nothing is on its way.
Quiet ==
  /\ orch = {} /\ work = {}
  /\ \A q \in Requests : qpc[q] # "update"
  /\ \A o \in Orchestrators : opc[o] = "idle"
  /\ \A p \in Processors : ppc[p] = "idle"

Terminated ==
  /\ Quiet
  /\ \A q \in Requests : qpc[q] = "done"
  /\ UNCHANGED vars

Next ==
  \/ Create
  \/ Scan
  \/ \E q \in Requests :
       \/ CompleteUpload(q) \/ CompleteUploadFails(q)
       \/ MarkVerifying(q)  \/ MarkVerifyingFails(q)
  \/ \E o \in Orchestrators : OrchestratorStep(o) \/ OrchestratorFails(o)
  \/ \E p \in Processors :
       \/ ProcessorStep(p) \/ ValidateFails(p) \/ PublishFails(p)
       \/ SettleFails(p) \/ ProcessorFails(p)
  \/ Terminated

\* Requests and executions that have started run on; the queues deliver.
\* GuardDuty may never answer and the client may never complete the upload.
Fairness ==
  /\ \A q \in Requests : WF_vars(MarkVerifying(q))
  /\ \A o \in Orchestrators : WF_vars(OrchestratorStep(o))
  /\ \A p \in Processors : WF_vars(ProcessorStep(p))

Spec     == Init /\ [][Next]_vars
FairSpec == Spec /\ Fairness

-----------------------------------------------------------------------------
(***************************************************************************)
(* Properties.                                                             *)
(***************************************************************************)
Settled == status \in {"READY", "BLOCKED", "FAILED"}

(***************************************************************************)
(* Nothing is published, and no attachment shown as scanned and validated, *)
(* unless GuardDuty found the object clean and its content passed          *)
(* validation; what is shown as validated is published and carries the     *)
(* result of the scan (mapAttachmentSafetyToApi, "Only files uploaded      *)
(* through this attachment pipeline can show Scanned and validated").      *)
(***************************************************************************)
OnlyCleanIsPublished ==
  /\ published => tag = "NO_THREATS_FOUND" /\ valid
  /\ status = "READY" => /\ published /\ linked /\ scan = "NO_THREATS_FOUND"
                         /\ verdict = "VALIDATED_FOR_PUBLIC_IPFS"

(***************************************************************************)
(* At most one execution of the processor works on an attachment, and the  *)
(* row stays claimed for it until it settles it (the claim by conditional  *)
(* update), except that an execution whose READY was written but reported  *)
(* as failed is about to release a READY row.                              *)
(***************************************************************************)
Claimed(p) == ppc[p] \in Claiming

SingleClaim ==
  \A p \in Processors : Claimed(p) =>
    /\ status = "PROCESSING" \/ (status = "READY" /\ ppc[p] = "release")
    /\ \A r \in Processors : Claimed(r) => r = p

(***************************************************************************)
(* BLOCKED and FAILED are final and READY is left only by the execution    *)
(* that published ("stale retry messages do not overwrite newer attachment *)
(* states"), although three of the writers do not look at the status.      *)
(***************************************************************************)
FinalStatesStay ==
  [][/\ status \in {"BLOCKED", "FAILED"} => status' = status
     /\ status = "READY" /\ status' # "READY" =>
          /\ status' = "VERIFYING"
          /\ \E p \in Processors : ppc[p] = "release" /\ ppc'[p] = "idle"]_vars

(***************************************************************************)
(* An uploaded attachment that nobody works on and no message waits for is *)
(* settled, unless a message was dead-lettered or a claim abandoned.       *)
(***************************************************************************)
NothingStranded == object /\ Quiet => Settled \/ lost

(***************************************************************************)
(* An uploaded attachment is settled for good in the end, unless work was  *)
(* lost: an answer of GuardDuty is not needed.                             *)
(***************************************************************************)
EventuallySettled == object ~> [](Settled \/ lost)

(***************************************************************************)
(* The inductive invariants behind the properties above.                   *)
(***************************************************************************)

\* A message is sent again only while it has polls left.
PollOK ==
  \A o \in Orchestrators :
    /\ opc[o] = "pollUpload" => omsg[o].upload < MaxPolls
    /\ opc[o] = "pollScan"   => omsg[o].scan < MaxPolls

TypeInv == TypeOK /\ PollOK

\* Only a clean file reaches the processor, and only a valid one IPFS.
CleanOK ==
  /\ scan # "none" => scan = tag
  /\ \A o \in Orchestrators :
       /\ opc[o] = "clean"   => tag = "NO_THREATS_FOUND"
       /\ opc[o] = "enqueue" => scan = "NO_THREATS_FOUND"
       /\ opc[o] = "block"   => tag \in Blocking
       /\ opc[o] = "fail"    => tag \in Failing
  /\ work # {} => scan = "NO_THREATS_FOUND"
  /\ \A p \in Processors :
       /\ ppc[p] # "idle" => scan = "NO_THREATS_FOUND"
       /\ ppc[p] \in {"publish", "settle"} => valid
       /\ ppc[p] = "settle" => published

CleanInv == TypeInv /\ CleanOK /\ OnlyCleanIsPublished

\* Nothing happens to a row before its object is there; a completion on its
\* way to the row finds it UPLOADING, and there is one.
CompletionOK ==
  /\ ~object => status \in {"none", "UPLOADING"}
  /\ orch # {} => object
  /\ \A o \in Orchestrators : opc[o] # "idle" => object
  /\ \A q \in Requests : qpc[q] = "update" =>
       /\ object /\ status = "UPLOADING"
       /\ \A r \in Requests : qpc[r] = "update" => r = q
       /\ \A o \in Orchestrators : opc[o] # "expire"

ClaimInv == TypeInv /\ CompletionOK /\ SingleClaim

\* Somebody will look at an uploaded attachment's row again, or work was lost:
\* executions and messages that go on from the status the row has.
Watched(looking, working) ==
  \/ lost \/ orch # {}
  \/ \E o \in Orchestrators : opc[o] \in looking
  \/ \E p \in Processors : ppc[p] \in working

WatchOK ==
  object =>
    /\ status # "none"
    /\ status = "UPLOADING" => Watched({"read", "pollUpload", "expire"}, {})
    /\ status = "VERIFYING" =>
         \/ work # {}
         \/ Watched({"read", "tag", "pollUpload", "pollScan", "timeout", "clean",
                     "enqueue", "block", "fail"}, {"read", "claim"})
    /\ status = "PROCESSING" => lost \/ \E p \in Processors : Claimed(p)

WatchInv == ClaimInv /\ WatchOK
=============================================================================
