------------------------------ MODULE MediaProofs ------------------------------
(***************************************************************************)
(* Proofs about the two pipelines that take media from outside in hand,    *)
(* Attachments and NftLinks.  They share no state; the theorems about one  *)
(* speak of its specification alone.                                       *)
(***************************************************************************)
EXTENDS Attachments, NftLinks, TLAPS

-----------------------------------------------------------------------------
(***************************************************************************)
(* Proofs about Attachments, for any number of requests and executions and *)
(* any bounds.  Three arguments: a message for the processor exists only   *)
(* for a row whose scan was recorded clean (CleanOK), whatever the client  *)
(* and S3 do; and, when S3 refuses repeated completions, the only          *)
(* completion finds the row UPLOADING (CompletionOK), so that no write     *)
(* gets between a claim and its settlement (SingleClaim), and somebody who *)
(* will move it looks after every row that is not settled (WatchOK).       *)
(***************************************************************************)

(***************************************************************************)
(* In the initial state nothing is on its way and nothing is published.    *)
(***************************************************************************)
LEMMA InitInv == Init => CleanInv /\ ClaimInv
<1> SUFFICES ASSUME Init PROVE CleanInv /\ ClaimInv
  OBVIOUS
<1>1. TypeOK
  <2>1. FirstMessage \in Messages /\ 0 \in 0 .. MaxReceives - 1
    BY ConstantsAssumption DEF FirstMessage, Messages
  <2>2. omsg \in [Orchestrators -> Messages]
          /\ pmsg \in [Processors -> 0 .. MaxReceives - 1]
    BY <2>1 DEF Init
  <2>3. faults \in 0 .. MaxFaults /\ duplicates \in 0 .. MaxDuplicates
    BY ConstantsAssumption DEF Init
  <2>4. linked \in BOOLEAN /\ object \in BOOLEAN /\ valid \in BOOLEAN
          /\ published \in BOOLEAN /\ lost \in BOOLEAN
    BY DEF Init
  <2>5. /\ qpc \in [Requests -> {"ready", "update", "done"}]
        /\ opc \in [Orchestrators -> {"idle"}]
        /\ ppc \in [Processors -> {"idle"}]
    BY DEF Init
  <2> QED BY <2>2, <2>3, <2>4, <2>5 DEF Init, TypeOK, Verdicts
<1>2. /\ PollOK /\ CleanOK /\ OnlyCleanIsPublished
      /\ CompletionOK /\ SingleClaim
  BY DEF Init, PollOK, CleanOK, OnlyCleanIsPublished, CompletionOK, SingleClaim,
         Claimed, Claiming
<1> QED BY <1>1, <1>2 DEF TypeInv, CleanInv, ClaimInv

(***************************************************************************)
(* A message that is sent or sent back has few enough polls and receives.  *)
(***************************************************************************)
LEMMA MessageFacts ==
  ASSUME TypeOK, NEW o \in Orchestrators
  PROVE  /\ omsg[o].upload < MaxPolls => MorePolls(omsg[o], 1, 0) \in Messages
         /\ omsg[o].scan < MaxPolls => MorePolls(omsg[o], 0, 1) \in Messages
         /\ omsg[o].receives + 1 < MaxReceives =>
              [omsg[o] EXCEPT !.receives = @ + 1] \in Messages
<1>1. PICK u \in 0 .. MaxPolls, s \in 0 .. MaxPolls,
           r \in 0 .. MaxReceives - 1 :
        omsg[o] = [upload |-> u, scan |-> s, receives |-> r]
  BY DEF TypeOK, Messages
<1>2. 0 \in 0 .. MaxReceives - 1
  BY ConstantsAssumption
<1>3. omsg[o].upload = u /\ omsg[o].scan = s /\ omsg[o].receives = r
  BY <1>1
<1>4. omsg[o].upload < MaxPolls => MorePolls(omsg[o], 1, 0) \in Messages
  BY <1>2, <1>3, ConstantsAssumption DEF Messages, MorePolls
<1>5. omsg[o].scan < MaxPolls => MorePolls(omsg[o], 0, 1) \in Messages
  BY <1>2, <1>3, ConstantsAssumption DEF Messages, MorePolls
<1>6. r + 1 < MaxReceives =>
        [upload |-> u, scan |-> s, receives |-> r + 1] \in Messages
  BY ConstantsAssumption DEF Messages
<1>7. [omsg[o] EXCEPT !.receives = @ + 1]
        = [upload |-> u, scan |-> s, receives |-> r + 1]
  BY <1>1
<1> QED BY <1>3, <1>4, <1>5, <1>6, <1>7

(***************************************************************************)
(* A conditional update keeps the columns' types.                          *)
(***************************************************************************)
LEMMA TransitionTypeOK ==
  ASSUME TypeOK, NEW from, NEW to \in Statuses,
         NEW newScan \in ScanResults \cup {"none"}, NEW newVerdict \in Verdicts,
         Transition(from, to, newScan, newVerdict)
  PROVE  /\ status' \in Statuses \cup {"none"}
         /\ scan' \in ScanResults \cup {"none"}
         /\ verdict' \in Verdicts
         /\ linked' \in BOOLEAN
  BY DEF TypeOK, Transition, rowVars

(***************************************************************************)
(* Type correctness of the API's steps and of GuardDuty's.                 *)
(***************************************************************************)
LEMMA ApiTypeInv ==
  ASSUME TypeInv,
         \/ Create \/ Scan
         \/ \E q \in Requests :
              \/ CompleteUpload(q) \/ CompleteUploadFails(q)
              \/ MarkVerifying(q)  \/ MarkVerifyingFails(q)
  PROVE  TypeInv'
<1> USE DEF rowVars, fileVars, orchVars, procVars
<1>1. /\ UNCHANGED <<orchVars, procVars, scan, verdict, linked, valid,
                     published, work, lost, duplicates>>
      /\ status' \in {status, "UPLOADING", "VERIFYING"}
      /\ tag' \in ScanResults \cup {tag}
      /\ object' \in {object, TRUE}
      /\ orch' \in {orch, orch \cup {FirstMessage}}
      /\ faults' = faults \/ Fault
      /\ \/ qpc' = qpc
         \/ \E q \in Requests, at \in {"update", "done"} :
              qpc' = [qpc EXCEPT ![q] = at]
  BY DEF Create, Scan, CompleteUpload, CompleteUploadFails, MarkVerifying,
         MarkVerifyingFails, Assemble
<1>2. FirstMessage \in Messages
  BY ConstantsAssumption DEF FirstMessage, Messages
<1>3. orch' \subseteq Messages
  BY <1>1, <1>2 DEF TypeInv, TypeOK
<1>4. faults' \in 0 .. MaxFaults /\ duplicates' \in 0 .. MaxDuplicates
  BY <1>1, ConstantsAssumption DEF TypeInv, TypeOK, Fault
<1>5. object' \in BOOLEAN
  BY <1>1 DEF TypeInv, TypeOK
<1>6. qpc' \in [Requests -> {"ready", "update", "done"}]
  BY <1>1 DEF TypeInv, TypeOK
<1>7. /\ status' \in Statuses \cup {"none"}
      /\ tag' \in ScanResults \cup {"none"}
  BY <1>1 DEF TypeInv, TypeOK, Statuses
<1>8. TypeOK'
  BY <1>1, <1>3, <1>4, <1>5, <1>6, <1>7 DEF TypeInv, TypeOK
<1>9. PollOK'
  BY <1>1 DEF TypeInv, PollOK
<1> QED BY <1>8, <1>9 DEF TypeInv

(***************************************************************************)
(* Type correctness of the orchestrator's steps.                           *)
(***************************************************************************)
LEMMA OrchestratorTypeInv ==
  ASSUME TypeInv, NEW o \in Orchestrators,
         OrchestratorStep(o) \/ OrchestratorFails(o)
  PROVE  TypeInv'
<1> USE DEF rowVars, fileVars, orchVars, procVars
<1>0. TypeOK /\ PollOK
  BY DEF TypeInv
<1>1. CASE ReceiveMessage(o)
  <2>1. PICK m \in orch, take \in BOOLEAN :
          /\ Take(take)
          /\ orch' = IF take THEN orch \ {m} ELSE orch
          /\ omsg' = [omsg EXCEPT ![o] = m]
    BY <1>1 DEF ReceiveMessage
  <2>2. orch' \subseteq Messages /\ omsg' \in [Orchestrators -> Messages]
    BY <1>0, <2>1 DEF TypeOK
  <2>3. duplicates' \in 0 .. MaxDuplicates
    BY <1>0, <2>1, ConstantsAssumption DEF TypeOK, Take
  <2>4. opc' = [opc EXCEPT ![o] = "read"]
          /\ UNCHANGED <<rowVars, fileVars, work, qpc, procVars, lost, faults>>
    BY <1>1 DEF ReceiveMessage
  <2>5. TypeOK'
    BY <1>0, <2>2, <2>3, <2>4 DEF TypeOK
  <2>6. PollOK'
    BY <1>0, <2>1, <2>4 DEF PollOK, TypeOK
  <2> QED BY <2>5, <2>6 DEF TypeInv
<1>2. CASE ReadRow(o)
  <2>1. PICK at \in {"finish", "pollUpload", "expire", "tag"} :
          /\ opc' = [opc EXCEPT ![o] = at]
          /\ at = "pollUpload" => omsg[o].upload < MaxPolls
    BY <1>2 DEF ReadRow, Goto
  <2>2. UNCHANGED <<rowVars, fileVars, orch, work, qpc, omsg, procVars, lost,
                    faults, duplicates>>
    BY <1>2 DEF ReadRow, Goto
  <2>3. TypeOK'
    BY <1>0, <2>1, <2>2 DEF TypeOK
  <2>4. PollOK'
    BY <1>0, <2>1, <2>2 DEF PollOK, TypeOK
  <2> QED BY <2>3, <2>4 DEF TypeInv
<1>3. CASE ReadTag(o)
  <2>1. PICK at \in {"pollScan", "timeout", "clean", "block", "fail"} :
          /\ opc' = [opc EXCEPT ![o] = at]
          /\ at = "pollScan" => omsg[o].scan < MaxPolls
    BY <1>3 DEF ReadTag, Goto
  <2>2. UNCHANGED <<rowVars, fileVars, orch, work, qpc, omsg, procVars, lost,
                    faults, duplicates>>
    BY <1>3 DEF ReadTag, Goto
  <2>3. TypeOK'
    BY <1>0, <2>1, <2>2 DEF TypeOK
  <2>4. PollOK'
    BY <1>0, <2>1, <2>2 DEF PollOK, TypeOK
  <2> QED BY <2>3, <2>4 DEF TypeInv
<1>4. CASE Poll(o)
  <2> USE DEF Poll, Goto
  <2>1. orch' \subseteq Messages
    <3>1. CASE opc[o] = "pollUpload"
      <4>1. MorePolls(omsg[o], 1, 0) \in Messages
        BY <1>0, <3>1, MessageFacts DEF PollOK
      <4>2. orch' = orch \cup {MorePolls(omsg[o], 1, 0)}
        BY <1>4, <3>1
      <4> QED BY <1>0, <4>1, <4>2 DEF TypeOK
    <3>2. CASE opc[o] = "pollScan"
      <4>1. MorePolls(omsg[o], 0, 1) \in Messages
        BY <1>0, <3>2, MessageFacts DEF PollOK
      <4>2. orch' = orch \cup {MorePolls(omsg[o], 0, 1)}
        BY <1>4, <3>2
      <4> QED BY <1>0, <4>1, <4>2 DEF TypeOK
    <3> QED BY <1>4, <3>1, <3>2
  <2>2. TypeOK'
    BY <1>0, <1>4, <2>1 DEF TypeOK
  <2>3. PollOK'
    BY <1>0, <1>4 DEF PollOK, TypeOK
  <2> QED BY <2>2, <2>3 DEF TypeInv
<1>5. CASE GiveUp(o)
  <2> USE DEF GiveUp, Goto
  <2>1. /\ status' \in Statuses \cup {"none"}
        /\ scan' \in ScanResults \cup {"none"}
        /\ verdict' \in Verdicts
        /\ linked' \in BOOLEAN
    BY <1>0, <1>5, TransitionTypeOK DEF TypeOK, Statuses, Verdicts
  <2>2. TypeOK'
    BY <1>0, <1>5, <2>1 DEF TypeOK
  <2>3. PollOK'
    BY <1>0, <1>5 DEF PollOK, TypeOK
  <2> QED BY <2>2, <2>3 DEF TypeInv
<1>6. CASE RecordClean(o)
  <2> USE DEF RecordClean, Goto
  <2>1. /\ status' \in Statuses \cup {"none"}
        /\ scan' \in ScanResults \cup {"none"}
        /\ verdict' \in Verdicts
        /\ linked' \in BOOLEAN
    BY <1>0, <1>6, TransitionTypeOK DEF TypeOK, Statuses, Verdicts
  <2>2. TypeOK'
    BY <1>0, <1>6, <2>1 DEF TypeOK
  <2>3. PollOK'
    BY <1>0, <1>6 DEF PollOK, TypeOK
  <2> QED BY <2>2, <2>3 DEF TypeInv
<1>7. CASE EnqueueProcessing(o)
  <2> USE DEF EnqueueProcessing, Goto
  <2>1. work' \subseteq 0 .. MaxReceives - 1
    BY <1>0, <1>7, ConstantsAssumption DEF TypeOK
  <2>2. TypeOK'
    BY <1>0, <1>7, <2>1 DEF TypeOK
  <2>3. PollOK'
    BY <1>0, <1>7 DEF PollOK, TypeOK
  <2> QED BY <2>2, <2>3 DEF TypeInv
<1>8. CASE FinishMessage(o)
  <2> USE DEF FinishMessage, Goto
  <2>1. TypeOK'
    BY <1>0, <1>8 DEF TypeOK
  <2>2. PollOK'
    BY <1>0, <1>8 DEF PollOK, TypeOK
  <2> QED BY <2>1, <2>2 DEF TypeInv
<1>9. CASE OrchestratorFails(o)
  <2> USE DEF OrchestratorFails, Goto
  <2>1. orch' \subseteq Messages
    BY <1>0, <1>9, MessageFacts DEF TypeOK
  <2>2. lost' \in BOOLEAN
    BY <1>0, <1>9 DEF TypeOK
  <2>3. faults' \in 0 .. MaxFaults
    BY <1>0, <1>9, ConstantsAssumption DEF TypeOK, Fault
  <2>4. TypeOK'
    BY <1>0, <1>9, <2>1, <2>2, <2>3 DEF TypeOK
  <2>5. PollOK'
    BY <1>0, <1>9 DEF PollOK, TypeOK
  <2> QED BY <2>4, <2>5 DEF TypeInv
<1> QED BY <1>1, <1>2, <1>3, <1>4, <1>5, <1>6, <1>7, <1>8, <1>9
           DEF OrchestratorStep

(***************************************************************************)
(* A message for the processor that comes back was received one time more, *)
(* and less often than allowed.                                            *)
(***************************************************************************)
LEMMA ReturnFacts ==
  ASSUME TypeOK, NEW p \in Processors
  PROVE  /\ ReturnWork(p) =>
              work' \subseteq 0 .. MaxReceives - 1 /\ lost' \in BOOLEAN
         /\ pmsg[p] + 1 < MaxReceives =>
              work \cup {pmsg[p] + 1} \subseteq 0 .. MaxReceives - 1
<1>1. pmsg[p] \in 0 .. MaxReceives - 1
  BY DEF TypeOK
<1>2. pmsg[p] + 1 < MaxReceives => pmsg[p] + 1 \in 0 .. MaxReceives - 1
  BY <1>1, ConstantsAssumption
<1>3. pmsg[p] + 1 < MaxReceives =>
        work \cup {pmsg[p] + 1} \subseteq 0 .. MaxReceives - 1
  BY <1>2 DEF TypeOK
<1>4. ReturnWork(p) => work' \subseteq 0 .. MaxReceives - 1
  BY <1>3 DEF ReturnWork, TypeOK
<1>5. ReturnWork(p) => lost' \in BOOLEAN
  BY DEF ReturnWork, TypeOK
<1> QED BY <1>3, <1>4, <1>5

(***************************************************************************)
(* Type correctness of the processor's steps.                              *)
(***************************************************************************)
LEMMA ProcessorTypeInv ==
  ASSUME TypeInv, NEW p \in Processors,
         \/ ProcessorStep(p) \/ ValidateFails(p) \/ PublishFails(p)
         \/ SettleFails(p) \/ ProcessorFails(p)
  PROVE  TypeInv'
<1> USE DEF rowVars, fileVars, orchVars, procVars
<1>0. TypeOK /\ PollOK
  BY DEF TypeInv
<1>1. UNCHANGED <<object, tag, valid, orch, qpc, opc, omsg>>
  BY DEF ProcessorStep, ReceiveWork, ReadStatus, Claim, Validate, Publish,
         Settle, Release, FinishWork, ValidateFails, PublishFails, SettleFails,
         ProcessorFails
<1>2. ppc' \in [Processors -> {"idle", "read", "claim", "finish"} \cup Claiming]
  <2>1. PICK at \in {"idle", "read", "claim", "finish"} \cup Claiming :
          ppc' = [ppc EXCEPT ![p] = at]
    BY DEF ProcessorStep, ReceiveWork, ReadStatus, Claim, Validate, Publish,
           Settle, Release, FinishWork, ValidateFails, PublishFails,
           SettleFails, ProcessorFails, Continue, Claiming
  <2> QED BY <1>0, <2>1 DEF TypeOK
<1>3. pmsg' \in [Processors -> 0 .. MaxReceives - 1]
  <2>1. UNCHANGED pmsg \/ \E n \in work : pmsg' = [pmsg EXCEPT ![p] = n]
    BY DEF ProcessorStep, ReceiveWork, ReadStatus, Claim, Validate, Publish,
           Settle, Release, FinishWork, ValidateFails, PublishFails,
           SettleFails, ProcessorFails, Continue
  <2> QED BY <1>0, <2>1 DEF TypeOK
<1>4. work' \subseteq 0 .. MaxReceives - 1
  <2>1. work' \subseteq work \/ ReturnWork(p)
          \/ /\ pmsg[p] + 1 < MaxReceives
             /\ work' = work \cup {pmsg[p] + 1}
    BY DEF ProcessorStep, ReceiveWork, ReadStatus, Claim, Validate, Publish,
           Settle, Release, FinishWork, ValidateFails, PublishFails,
           SettleFails, ProcessorFails
  <2> QED BY <1>0, <2>1, ReturnFacts DEF TypeOK
<1>5. lost' \in BOOLEAN
  <2>1. lost' = lost \/ lost' = TRUE
    BY DEF ProcessorStep, ReceiveWork, ReadStatus, Claim, Validate, Publish,
           Settle, Release, FinishWork, ValidateFails, PublishFails,
           SettleFails, ProcessorFails, ReturnWork
  <2> QED BY <1>0, <2>1 DEF TypeOK
<1>6. faults' \in 0 .. MaxFaults
  <2>1. UNCHANGED faults \/ Fault
    BY DEF ProcessorStep, ReceiveWork, ReadStatus, Claim, Validate, Publish,
           Settle, Release, FinishWork, ValidateFails, PublishFails,
           SettleFails, ProcessorFails
  <2> QED BY <1>0, <2>1, ConstantsAssumption DEF TypeOK, Fault
<1>7. duplicates' \in 0 .. MaxDuplicates
  <2>1. UNCHANGED duplicates \/ \E take \in BOOLEAN : Take(take)
    BY DEF ProcessorStep, ReceiveWork, ReadStatus, Claim, Validate, Publish,
           Settle, Release, FinishWork, ValidateFails, PublishFails,
           SettleFails, ProcessorFails
  <2> QED BY <1>0, <2>1, ConstantsAssumption DEF TypeOK, Take
<1>8. /\ status' \in Statuses \cup {"none"}
      /\ scan' \in ScanResults \cup {"none"}
      /\ verdict' \in Verdicts
  <2>1. /\ status' \in {status, "PROCESSING", "READY", "BLOCKED", "VERIFYING"}
        /\ scan' = scan
        /\ verdict' \in {verdict, "VALIDATED_FOR_PUBLIC_IPFS"}
    BY DEF ProcessorStep, ReceiveWork, ReadStatus, Claim, Validate, Publish,
           Settle, Release, FinishWork, ValidateFails, PublishFails,
           SettleFails, ProcessorFails, Transition, WriteReady
  <2> QED BY <1>0, <2>1 DEF TypeOK, Statuses, Verdicts
<1>9. linked' \in BOOLEAN /\ published' \in BOOLEAN
  <2>1. (linked' = linked \/ linked' = TRUE)
          /\ (published' = published \/ published' = TRUE)
    BY DEF ProcessorStep, ReceiveWork, ReadStatus, Claim, Validate, Publish,
           Settle, Release, FinishWork, ValidateFails, PublishFails,
           SettleFails, ProcessorFails, Transition, WriteReady
  <2> QED BY <1>0, <2>1 DEF TypeOK
<1>10. TypeOK'
  BY <1>0, <1>1, <1>2, <1>3, <1>4, <1>5, <1>6, <1>7, <1>8, <1>9 DEF TypeOK
<1>11. PollOK'
  BY <1>0, <1>1 DEF PollOK
<1> QED BY <1>10, <1>11 DEF TypeInv

(***************************************************************************)
(* A stutter keeps the types.                                              *)
(***************************************************************************)
LEMMA StutterTypeInv == TypeInv /\ UNCHANGED vars => TypeInv'
BY DEF TypeInv, TypeOK, PollOK, vars, rowVars, fileVars, orchVars, procVars

(***************************************************************************)
(* Every step keeps the types.                                             *)
(***************************************************************************)
LEMMA NextTypeInv == TypeInv /\ [Next]_vars => TypeInv'
<1> SUFFICES ASSUME TypeInv, [Next]_vars PROVE TypeInv'
  OBVIOUS
<1>1. CASE \/ Create \/ Scan
           \/ \E q \in Requests :
                \/ CompleteUpload(q) \/ CompleteUploadFails(q)
                \/ MarkVerifying(q)  \/ MarkVerifyingFails(q)
  BY <1>1, ApiTypeInv
<1>2. CASE \E o \in Orchestrators : OrchestratorStep(o) \/ OrchestratorFails(o)
  BY <1>2, OrchestratorTypeInv
<1>3. CASE \E p \in Processors :
             \/ ProcessorStep(p) \/ ValidateFails(p) \/ PublishFails(p)
             \/ SettleFails(p) \/ ProcessorFails(p)
  BY <1>3, ProcessorTypeInv
<1>4. CASE Terminated \/ UNCHANGED vars
  BY <1>4, StutterTypeInv DEF Terminated
<1> QED BY <1>1, <1>2, <1>3, <1>4 DEF Next

-----------------------------------------------------------------------------
(***************************************************************************)
(* The steps of the API and of GuardDuty: the scan result of an object     *)
(* comes once, so that what the row recorded of it stays true.             *)
(***************************************************************************)
LEMMA ApiCleanInv ==
  ASSUME CleanInv,
         \/ Create \/ Scan
         \/ \E q \in Requests :
              \/ CompleteUpload(q) \/ CompleteUploadFails(q)
              \/ MarkVerifying(q)  \/ MarkVerifyingFails(q)
  PROVE  CleanOK' /\ OnlyCleanIsPublished'
<1>1. /\ UNCHANGED <<opc, ppc, scan, verdict, linked, valid, published, work>>
      /\ status' \in {status, "UPLOADING", "VERIFYING"}
      /\ tag' = tag \/ tag = "none"
  BY DEF Create, Scan, CompleteUpload, CompleteUploadFails, MarkVerifying,
         MarkVerifyingFails, Assemble, rowVars, fileVars, orchVars, procVars
<1>2. CleanOK'
  BY <1>1 DEF CleanInv, CleanOK, Blocking, Failing
<1>3. OnlyCleanIsPublished'
  BY <1>1 DEF CleanInv, OnlyCleanIsPublished
<1> QED BY <1>2, <1>3

(***************************************************************************)
(* The orchestrator's steps: only the clean tag leads to the processor.    *)
(***************************************************************************)
LEMMA OrchestratorCleanInv ==
  ASSUME CleanInv, NEW o \in Orchestrators,
         OrchestratorStep(o) \/ OrchestratorFails(o)
  PROVE  CleanOK' /\ OnlyCleanIsPublished'
<1> USE DEF CleanOK, OnlyCleanIsPublished, TypeOK, Goto, Blocking, Failing,
            rowVars, fileVars, orchVars, procVars
<1>0. TypeOK /\ CleanOK /\ OnlyCleanIsPublished
  BY DEF CleanInv, TypeInv
<1>1. CASE ReceiveMessage(o)
  BY <1>0, <1>1 DEF ReceiveMessage
<1>2. CASE ReadRow(o)
  BY <1>0, <1>2 DEF ReadRow
<1>3. CASE ReadTag(o)
  BY <1>0, <1>3 DEF ReadTag
<1>4. CASE Poll(o)
  BY <1>0, <1>4 DEF Poll
<1>5. CASE GiveUp(o)
  BY <1>0, <1>5 DEF GiveUp, Transition
<1>6. CASE RecordClean(o)
  BY <1>0, <1>6 DEF RecordClean, Transition
<1>7. CASE EnqueueProcessing(o)
  BY <1>0, <1>7 DEF EnqueueProcessing
<1>8. CASE FinishMessage(o)
  BY <1>0, <1>8 DEF FinishMessage
<1>9. CASE OrchestratorFails(o)
  BY <1>0, <1>9 DEF OrchestratorFails
<1> QED BY <1>1, <1>2, <1>3, <1>4, <1>5, <1>6, <1>7, <1>8, <1>9
           DEF OrchestratorStep

(***************************************************************************)
(* The processor's steps: only a valid file is published, and only what    *)
(* was published becomes READY.                                            *)
(***************************************************************************)
LEMMA ProcessorCleanInv ==
  ASSUME CleanInv, NEW p \in Processors,
         \/ ProcessorStep(p) \/ ValidateFails(p) \/ PublishFails(p)
         \/ SettleFails(p) \/ ProcessorFails(p)
  PROVE  CleanOK' /\ OnlyCleanIsPublished'
<1> USE DEF CleanOK, OnlyCleanIsPublished, TypeOK, Continue, Blocking, Failing,
            rowVars, fileVars, orchVars, procVars
<1>0. TypeOK /\ CleanOK /\ OnlyCleanIsPublished
  BY DEF CleanInv, TypeInv
<1>1. CASE ReceiveWork(p)
  BY <1>0, <1>1 DEF ReceiveWork
<1>2. CASE ReadStatus(p)
  BY <1>0, <1>2 DEF ReadStatus
<1>3. CASE Claim(p)
  BY <1>0, <1>3 DEF Claim, Transition
<1>4. CASE Validate(p)
  BY <1>0, <1>4 DEF Validate
<1>5. CASE Publish(p)
  BY <1>0, <1>5 DEF Publish
<1>6. CASE Settle(p)
  BY <1>0, <1>6 DEF Settle, WriteReady
<1>7. CASE Release(p)
  BY <1>0, <1>7 DEF Release, ReturnWork
<1>8. CASE FinishWork(p)
  BY <1>0, <1>8 DEF FinishWork
<1>9. CASE ValidateFails(p)
  BY <1>0, <1>9 DEF ValidateFails
<1>10. CASE PublishFails(p)
  BY <1>0, <1>10 DEF PublishFails
<1>11. CASE SettleFails(p)
  <2> USE DEF SettleFails
  <2>1. CASE WriteReady
    BY <1>0, <1>11, <2>1 DEF WriteReady
  <2>2. CASE UNCHANGED rowVars
    BY <1>0, <1>11, <2>2
  <2> QED BY <1>11, <2>1, <2>2
<1>12. CASE ProcessorFails(p)
  BY <1>0, <1>12 DEF ProcessorFails, ReturnWork, Claiming
<1> QED BY <1>1, <1>2, <1>3, <1>4, <1>5, <1>6, <1>7, <1>8, <1>9, <1>10, <1>11, <1>12
           DEF ProcessorStep

-----------------------------------------------------------------------------
(***************************************************************************)
(* The steps of the API and of GuardDuty, when S3 refuses repeated         *)
(* completions: only the completion that assembled the object marks the    *)
(* row, which is UPLOADING until then.                                     *)
(***************************************************************************)
LEMMA ApiClaimInv ==
  ASSUME ClaimInv, ~RepeatsSucceed,
         \/ Create \/ Scan
         \/ \E q \in Requests :
              \/ CompleteUpload(q) \/ CompleteUploadFails(q)
              \/ MarkVerifying(q)  \/ MarkVerifyingFails(q)
  PROVE  CompletionOK' /\ SingleClaim'
<1> USE DEF CompletionOK, SingleClaim, Claimed, Claiming, TypeOK,
            rowVars, fileVars, orchVars, procVars
<1>0. TypeOK /\ CompletionOK /\ SingleClaim
  BY DEF ClaimInv, TypeInv
<1>1. CASE Create
  BY <1>0, <1>1 DEF Create
<1>2. CASE Scan
  BY <1>0, <1>2 DEF Scan
<1>3. ASSUME NEW q \in Requests,
             \/ CompleteUpload(q) \/ CompleteUploadFails(q)
             \/ MarkVerifying(q)  \/ MarkVerifyingFails(q)
      PROVE  CompletionOK' /\ SingleClaim'
  <2>1. CASE CompleteUpload(q)
    BY <1>0, <2>1 DEF CompleteUpload, Assemble
  <2>2. CASE CompleteUploadFails(q)
    BY <1>0, <2>2 DEF CompleteUploadFails, Assemble
  <2>3. CASE MarkVerifying(q)
    BY <1>0, <2>3 DEF MarkVerifying
  <2>4. CASE MarkVerifyingFails(q)
    BY <1>0, <2>4 DEF MarkVerifyingFails
  <2> QED BY <1>3, <2>1, <2>2, <2>3, <2>4
<1> QED BY <1>1, <1>2, <1>3

(***************************************************************************)
(* The orchestrator's steps: its updates start from a state in which no    *)
(* execution holds a claim.                                                *)
(***************************************************************************)
LEMMA OrchestratorClaimInv ==
  ASSUME ClaimInv, NEW o \in Orchestrators,
         OrchestratorStep(o) \/ OrchestratorFails(o)
  PROVE  CompletionOK' /\ SingleClaim'
<1> USE DEF CompletionOK, SingleClaim, Claimed, Claiming, TypeOK, Goto,
            rowVars, fileVars, orchVars, procVars
<1>0. TypeOK /\ CompletionOK /\ SingleClaim
  BY DEF ClaimInv, TypeInv
<1>1. CASE ReceiveMessage(o)
  BY <1>0, <1>1 DEF ReceiveMessage
<1>2. CASE ReadRow(o)
  BY <1>0, <1>2 DEF ReadRow
<1>3. CASE ReadTag(o)
  BY <1>0, <1>3 DEF ReadTag
<1>4. CASE Poll(o)
  BY <1>0, <1>4 DEF Poll
<1>5. CASE GiveUp(o)
  BY <1>0, <1>5 DEF GiveUp, Transition
<1>6. CASE RecordClean(o)
  BY <1>0, <1>6 DEF RecordClean, Transition
<1>7. CASE EnqueueProcessing(o)
  BY <1>0, <1>7 DEF EnqueueProcessing
<1>8. CASE FinishMessage(o)
  BY <1>0, <1>8 DEF FinishMessage
<1>9. CASE OrchestratorFails(o)
  BY <1>0, <1>9 DEF OrchestratorFails
<1> QED BY <1>1, <1>2, <1>3, <1>4, <1>5, <1>6, <1>7, <1>8, <1>9
           DEF OrchestratorStep

(***************************************************************************)
(* The processor's steps: a claim is taken when nobody holds one.          *)
(***************************************************************************)
LEMMA ProcessorClaimInv ==
  ASSUME ClaimInv, NEW p \in Processors,
         \/ ProcessorStep(p) \/ ValidateFails(p) \/ PublishFails(p)
         \/ SettleFails(p) \/ ProcessorFails(p)
  PROVE  CompletionOK' /\ SingleClaim'
<1> USE DEF CompletionOK, SingleClaim, Claimed, Claiming, TypeOK, Continue,
            rowVars, fileVars, orchVars, procVars
<1>0. TypeOK /\ CompletionOK /\ SingleClaim
  BY DEF ClaimInv, TypeInv
<1>1. CASE ReceiveWork(p)
  BY <1>0, <1>1 DEF ReceiveWork
<1>2. CASE ReadStatus(p)
  BY <1>0, <1>2 DEF ReadStatus
<1>3. CASE Claim(p)
  BY <1>0, <1>3 DEF Claim, Transition
<1>4. CASE Validate(p)
  BY <1>0, <1>4 DEF Validate
<1>5. CASE Publish(p)
  BY <1>0, <1>5 DEF Publish
<1>6. CASE Settle(p)
  BY <1>0, <1>6 DEF Settle, WriteReady
<1>7. CASE Release(p)
  BY <1>0, <1>7 DEF Release, ReturnWork
<1>8. CASE FinishWork(p)
  BY <1>0, <1>8 DEF FinishWork
<1>9. CASE ValidateFails(p)
  BY <1>0, <1>9 DEF ValidateFails
<1>10. CASE PublishFails(p)
  BY <1>0, <1>10 DEF PublishFails
<1>11. CASE SettleFails(p)
  BY <1>0, <1>11 DEF SettleFails, WriteReady
<1>12. CASE ProcessorFails(p)
  BY <1>0, <1>12 DEF ProcessorFails, ReturnWork
<1> QED BY <1>1, <1>2, <1>3, <1>4, <1>5, <1>6, <1>7, <1>8, <1>9, <1>10, <1>11, <1>12
           DEF ProcessorStep

-----------------------------------------------------------------------------
(***************************************************************************)
(* Every step keeps what is published clean.                               *)
(***************************************************************************)
LEMMA NextCleanInv == CleanInv /\ [Next]_vars => CleanInv'
<1> SUFFICES ASSUME CleanInv, [Next]_vars PROVE CleanInv'
  OBVIOUS
<1>1. TypeInv'
  BY NextTypeInv DEF CleanInv
<1>2. CASE \/ Create \/ Scan
           \/ \E q \in Requests :
                \/ CompleteUpload(q) \/ CompleteUploadFails(q)
                \/ MarkVerifying(q)  \/ MarkVerifyingFails(q)
  BY <1>1, <1>2, ApiCleanInv DEF CleanInv
<1>3. CASE \E o \in Orchestrators : OrchestratorStep(o) \/ OrchestratorFails(o)
  BY <1>1, <1>3, OrchestratorCleanInv DEF CleanInv
<1>4. CASE \E p \in Processors :
             \/ ProcessorStep(p) \/ ValidateFails(p) \/ PublishFails(p)
             \/ SettleFails(p) \/ ProcessorFails(p)
  BY <1>1, <1>4, ProcessorCleanInv DEF CleanInv
<1>5. CASE Terminated \/ UNCHANGED vars
  BY <1>1, <1>5 DEF Terminated, CleanInv, CleanOK, OnlyCleanIsPublished, vars,
     rowVars, fileVars, orchVars, procVars
<1> QED BY <1>2, <1>3, <1>4, <1>5 DEF Next

(***************************************************************************)
(* Every step keeps the claims, when S3 refuses repeated completions.      *)
(***************************************************************************)
LEMMA NextClaimInv ==
  ASSUME ~RepeatsSucceed PROVE ClaimInv /\ [Next]_vars => ClaimInv'
<1> SUFFICES ASSUME ClaimInv, [Next]_vars PROVE ClaimInv'
  OBVIOUS
<1>1. TypeInv'
  BY NextTypeInv DEF ClaimInv
<1>2. CASE \/ Create \/ Scan
           \/ \E q \in Requests :
                \/ CompleteUpload(q) \/ CompleteUploadFails(q)
                \/ MarkVerifying(q)  \/ MarkVerifyingFails(q)
  BY <1>1, <1>2, ApiClaimInv DEF ClaimInv
<1>3. CASE \E o \in Orchestrators : OrchestratorStep(o) \/ OrchestratorFails(o)
  BY <1>1, <1>3, OrchestratorClaimInv DEF ClaimInv
<1>4. CASE \E p \in Processors :
             \/ ProcessorStep(p) \/ ValidateFails(p) \/ PublishFails(p)
             \/ SettleFails(p) \/ ProcessorFails(p)
  BY <1>1, <1>4, ProcessorClaimInv DEF ClaimInv
<1>5. CASE Terminated \/ UNCHANGED vars
  BY <1>1, <1>5 DEF Terminated, ClaimInv, CompletionOK, SingleClaim, Claimed,
     vars, rowVars, fileVars, orchVars, procVars
<1> QED BY <1>2, <1>3, <1>4, <1>5 DEF Next

(***************************************************************************)
(* The columns, queues and executions keep their types.                    *)
(***************************************************************************)
THEOREM TypeCorrect == Spec => []TypeOK
<1>1. Init => TypeInv
  BY InitInv DEF CleanInv
<1>2. TypeInv => TypeOK
  BY DEF TypeInv
<1> QED BY <1>1, <1>2, NextTypeInv, PTL DEF Spec

(***************************************************************************)
(* Whatever the client, S3 and GuardDuty do and whatever fails, only a     *)
(* file found clean and valid is published or shown as validated.          *)
(***************************************************************************)
THEOREM PublishedIsClean == Spec => []OnlyCleanIsPublished
<1>1. Init => CleanInv
  BY InitInv
<1>2. CleanInv => OnlyCleanIsPublished
  BY DEF CleanInv
<1> QED BY <1>1, <1>2, NextCleanInv, PTL DEF Spec

(***************************************************************************)
(* When S3 refuses repeated completions, at most one execution of the      *)
(* processor works on an attachment, and the row says so.                  *)
(***************************************************************************)
THEOREM OneClaimAtATime == ASSUME ~RepeatsSucceed PROVE Spec => []SingleClaim
<1>1. Init => ClaimInv
  BY InitInv
<1>2. ClaimInv => SingleClaim
  BY DEF ClaimInv
<1>3. ClaimInv /\ [Next]_vars => ClaimInv'
  BY NextClaimInv
<1> QED BY <1>1, <1>2, <1>3, PTL DEF Spec

(***************************************************************************)
(* A step taken where no completion is on its way to a final row and no    *)
(* claim is held on a BLOCKED or FAILED one leaves final statuses alone.   *)
(***************************************************************************)
LEMMA FinalStep ==
  ASSUME ClaimInv, ~RepeatsSucceed, [Next]_vars
  PROVE  /\ status \in {"BLOCKED", "FAILED"} => status' = status
         /\ status = "READY" /\ status' # "READY" =>
              /\ status' = "VERIFYING"
              /\ \E p \in Processors : ppc[p] = "release" /\ ppc'[p] = "idle"
<1> USE DEF rowVars, fileVars, orchVars, procVars
<1>0. TypeOK /\ CompletionOK /\ SingleClaim
  BY DEF ClaimInv, TypeInv
<1>1. CASE \/ Create \/ Scan
           \/ \E q \in Requests :
                \/ CompleteUpload(q) \/ CompleteUploadFails(q)
                \/ MarkVerifying(q)  \/ MarkVerifyingFails(q)
  BY <1>0, <1>1 DEF Create, Scan, CompleteUpload, CompleteUploadFails,
     MarkVerifying, MarkVerifyingFails, CompletionOK
<1>2. CASE \E o \in Orchestrators : OrchestratorStep(o) \/ OrchestratorFails(o)
  BY <1>2 DEF OrchestratorStep, ReceiveMessage, ReadRow, ReadTag, Poll, GiveUp,
     RecordClean, EnqueueProcessing, FinishMessage, OrchestratorFails,
     Transition
<1>3. ASSUME NEW p \in Processors,
             \/ ProcessorStep(p) \/ ValidateFails(p) \/ PublishFails(p)
             \/ SettleFails(p) \/ ProcessorFails(p)
      PROVE  /\ status \in {"BLOCKED", "FAILED"} => status' = status
             /\ status = "READY" /\ status' # "READY" =>
                  /\ status' = "VERIFYING"
                  /\ ppc[p] = "release" /\ ppc'[p] = "idle"
  <2>1. CASE Claim(p)
    BY <2>1 DEF Claim, Transition
  <2>2. CASE Settle(p) \/ SettleFails(p)
    BY <1>0, <2>2 DEF Settle, SettleFails, WriteReady, SingleClaim, Claimed,
       Claiming
  <2>3. CASE Release(p)
    BY <1>0, <2>3 DEF Release, Continue, SingleClaim, Claimed, Claiming, TypeOK
  <2>4. CASE \/ ReceiveWork(p) \/ ReadStatus(p) \/ Validate(p) \/ Publish(p)
             \/ FinishWork(p) \/ ValidateFails(p) \/ PublishFails(p)
             \/ ProcessorFails(p)
    BY <2>4 DEF ReceiveWork, ReadStatus, Validate, Publish, FinishWork,
       ValidateFails, PublishFails, ProcessorFails
  <2> QED BY <1>3, <2>1, <2>2, <2>3, <2>4 DEF ProcessorStep
<1>4. CASE Terminated \/ UNCHANGED vars
  BY <1>4 DEF Terminated, vars
<1> QED BY <1>1, <1>2, <1>3, <1>4 DEF Next

(***************************************************************************)
(* When S3 refuses repeated completions, BLOCKED and FAILED are final, and *)
(* READY is left only by the execution that published.                     *)
(***************************************************************************)
THEOREM FinalStatesAreFinal ==
  ASSUME ~RepeatsSucceed PROVE Spec => FinalStatesStay
<1>1. Init => ClaimInv
  BY InitInv
<1>2. ClaimInv /\ [Next]_vars => ClaimInv'
  BY NextClaimInv
<1>3. ClaimInv /\ [Next]_vars =>
        [/\ status \in {"BLOCKED", "FAILED"} => status' = status
         /\ status = "READY" /\ status' # "READY" =>
              /\ status' = "VERIFYING"
              /\ \E p \in Processors :
                   ppc[p] = "release" /\ ppc'[p] = "idle"]_vars
  BY FinalStep
<1> QED BY <1>1, <1>2, <1>3, PTL DEF Spec, FinalStatesStay
-----------------------------------------------------------------------------
(***************************************************************************)
(* The API's steps leave the attachment to the message that the object's   *)
(* arrival sends.                                                          *)
(***************************************************************************)
LEMMA ApiWatch ==
  ASSUME ClaimInv, WatchOK, ~RepeatsSucceed,
         \/ Create \/ Scan
         \/ \E q \in Requests :
              \/ CompleteUpload(q) \/ CompleteUploadFails(q)
              \/ MarkVerifying(q)  \/ MarkVerifyingFails(q)
  PROVE  WatchOK'
<1> USE DEF WatchOK, Watched, Claimed, Claiming, TypeOK,
            rowVars, fileVars, orchVars, procVars
<1>0. TypeOK /\ CompletionOK /\ WatchOK /\ SingleClaim
  BY DEF ClaimInv, TypeInv
<1>1. CASE Create
  BY <1>0, <1>1 DEF Create
<1>2. CASE Scan
  BY <1>0, <1>2 DEF Scan
<1>3. ASSUME NEW q \in Requests,
             \/ CompleteUpload(q) \/ CompleteUploadFails(q)
             \/ MarkVerifying(q)  \/ MarkVerifyingFails(q)
      PROVE  WatchOK'
  <2>1. CASE CompleteUpload(q)
    BY <1>0, <2>1 DEF CompleteUpload, Assemble, CompletionOK
  <2>2. CASE CompleteUploadFails(q)
    BY <1>0, <2>2 DEF CompleteUploadFails, Assemble, CompletionOK
  <2>3. CASE MarkVerifying(q)
    BY <1>0, <2>3 DEF MarkVerifying, CompletionOK
  <2>4. CASE MarkVerifyingFails(q)
    BY <1>0, <2>4 DEF MarkVerifyingFails
  <2> QED BY <1>3, <2>1, <2>2, <2>3, <2>4
<1> QED BY <1>1, <1>2, <1>3

(***************************************************************************)
(* An execution of the orchestrator leaves an attachment that is not       *)
(* settled to a message of its own or to the processor.                    *)
(***************************************************************************)
LEMMA OrchestratorWatch ==
  ASSUME ClaimInv, WatchOK, NEW o \in Orchestrators,
         OrchestratorStep(o) \/ OrchestratorFails(o)
  PROVE  WatchOK'
<1> USE DEF WatchOK, Watched, Claimed, Claiming, TypeOK, Goto,
            rowVars, fileVars, orchVars, procVars
<1>0. TypeOK /\ CompletionOK /\ WatchOK
  BY DEF ClaimInv, TypeInv
<1>1. CASE ReceiveMessage(o)
  BY <1>0, <1>1 DEF ReceiveMessage
<1>2. CASE ReadRow(o)
  BY <1>0, <1>2 DEF ReadRow
<1>3. CASE ReadTag(o)
  BY <1>0, <1>3 DEF ReadTag
<1>4. CASE Poll(o)
  BY <1>0, <1>4 DEF Poll
<1>5. CASE GiveUp(o)
  BY <1>0, <1>5 DEF GiveUp, Transition
<1>6. CASE RecordClean(o)
  BY <1>0, <1>6 DEF RecordClean, Transition
<1>7. CASE EnqueueProcessing(o)
  BY <1>0, <1>7 DEF EnqueueProcessing
<1>8. CASE FinishMessage(o)
  BY <1>0, <1>8 DEF FinishMessage
<1>9. CASE OrchestratorFails(o)
  BY <1>0, <1>9 DEF OrchestratorFails
<1> QED BY <1>1, <1>2, <1>3, <1>4, <1>5, <1>6, <1>7, <1>8, <1>9
           DEF OrchestratorStep

(***************************************************************************)
(* An execution of the processor settles it, keeps it claimed, or gives it *)
(* back with its message.                                                  *)
(***************************************************************************)
LEMMA ProcessorWatch ==
  ASSUME ClaimInv, WatchOK, NEW p \in Processors,
         \/ ProcessorStep(p) \/ ValidateFails(p) \/ PublishFails(p)
         \/ SettleFails(p) \/ ProcessorFails(p)
  PROVE  WatchOK'
<1> USE DEF WatchOK, Watched, Claimed, Claiming, TypeOK, Continue,
            rowVars, fileVars, orchVars, procVars
<1>0. TypeOK /\ CompletionOK /\ SingleClaim /\ WatchOK
  BY DEF ClaimInv, TypeInv
<1>1. CASE ReceiveWork(p)
  BY <1>0, <1>1 DEF ReceiveWork
<1>2. CASE ReadStatus(p)
  BY <1>0, <1>2 DEF ReadStatus
<1>3. CASE Claim(p)
  BY <1>0, <1>3 DEF Claim, Transition
<1>4. CASE Validate(p)
  BY <1>0, <1>4 DEF Validate
<1>5. CASE Publish(p)
  BY <1>0, <1>5 DEF Publish
<1>6. CASE Settle(p)
  BY <1>0, <1>6 DEF Settle, WriteReady
<1>7. CASE Release(p)
  BY <1>0, <1>7 DEF Release, ReturnWork
<1>8. CASE FinishWork(p)
  BY <1>0, <1>8 DEF FinishWork
<1>9. CASE ValidateFails(p)
  BY <1>0, <1>9 DEF ValidateFails
<1>10. CASE PublishFails(p)
  BY <1>0, <1>10 DEF PublishFails
<1>11. CASE SettleFails(p)
  BY <1>0, <1>11 DEF SettleFails, WriteReady
<1>12. CASE ProcessorFails(p)
  BY <1>0, <1>12 DEF ProcessorFails, ReturnWork
<1> QED BY <1>1, <1>2, <1>3, <1>4, <1>5, <1>6, <1>7, <1>8, <1>9, <1>10, <1>11, <1>12
           DEF ProcessorStep

(***************************************************************************)
(* Every step keeps WatchInv, when a repeated write may fail like a first  *)
(* one.                                                                    *)
(***************************************************************************)
LEMMA NextWatch ==
  ASSUME ~RepeatsSucceed PROVE WatchInv /\ [Next]_vars => WatchInv'
<1> SUFFICES ASSUME WatchInv, [Next]_vars PROVE WatchInv'
  OBVIOUS
<1>1. ClaimInv'
  BY NextClaimInv DEF WatchInv
<1>2. CASE \/ Create \/ Scan
           \/ \E q \in Requests :
                \/ CompleteUpload(q) \/ CompleteUploadFails(q)
                \/ MarkVerifying(q)  \/ MarkVerifyingFails(q)
  BY <1>1, <1>2, ApiWatch DEF WatchInv
<1>3. CASE \E o \in Orchestrators : OrchestratorStep(o) \/ OrchestratorFails(o)
  BY <1>1, <1>3, OrchestratorWatch DEF WatchInv
<1>4. CASE \E p \in Processors :
             \/ ProcessorStep(p) \/ ValidateFails(p) \/ PublishFails(p)
             \/ SettleFails(p) \/ ProcessorFails(p)
  BY <1>1, <1>4, ProcessorWatch DEF WatchInv
<1>5. CASE Terminated \/ UNCHANGED vars
  BY <1>1, <1>5 DEF Terminated, WatchInv, WatchOK, Watched, Claimed, vars,
     rowVars, fileVars, orchVars, procVars
<1> QED BY <1>2, <1>3, <1>4, <1>5 DEF Next

(***************************************************************************)
(* When S3 refuses repeated completions, an uploaded attachment that no    *)
(* message and no execution will look at again is settled, unless a        *)
(* message was dead-lettered or a claim abandoned.                         *)
(***************************************************************************)
THEOREM NobodyIsStranded ==
  ASSUME ~RepeatsSucceed PROVE Spec => []NothingStranded
<1>1. Init => WatchInv
  BY InitInv DEF Init, WatchInv, WatchOK
<1>2. WatchInv /\ [Next]_vars => WatchInv'
  BY NextWatch
<1>3. WatchInv => NothingStranded
  BY DEF WatchInv, ClaimInv, TypeInv, TypeOK, WatchOK, Watched, NothingStranded,
         Quiet, Settled, Statuses, Claimed, Claiming
<1> QED BY <1>1, <1>2, <1>3, PTL DEF Spec

-----------------------------------------------------------------------------
(***************************************************************************)
(* Proofs about NftLinks, for any media, any number of resolvers and       *)
(* workers and any times with LockTTL <= MinInterval.  The row remembers   *)
(* every resolver that is within the time of its lock: its lock is at      *)
(* least as young, or it was tried since (Remembered).  Either keeps       *)
(* another resolver from locking the row, so that OneHolder holds although *)
(* a late resolver clears a lock that is not its own.                      *)
(***************************************************************************)

Remembered ==
  \A r \in Resolvers : Holds(r) =>
    \/ lock # None /\ lock <= since[r]
    \/ tried <= since[r]

LockInv == LinkTypeOK /\ Remembered /\ OneHolder

(***************************************************************************)
(* Ages: they stay within their range, keep their order and never fall.    *)
(***************************************************************************)
LEMMA OlderFacts ==
  /\ \A a \in 0 .. Old : Older(a) \in 0 .. Old /\ a <= Older(a)
  /\ \A a, b \in 0 .. Old : a <= b => Older(a) <= Older(b)
  /\ Older(None) = None /\ None \notin 0 .. Old
  /\ 0 \in 0 .. Old /\ Old \in 0 .. Old
BY TimesAssumption DEF Older, Old

(***************************************************************************)
(* Variables that a step leaves alone keep their types.                    *)
(***************************************************************************)
LEMMA Frames ==
  ASSUME LinkTypeOK
  PROVE  /\ UNCHANGED <<site, cardVars>> => CardTypeOK'
         /\ UNCHANGED previewVars => PreviewTypeOK'
         /\ UNCHANGED jobs => (jobs \subseteq Media)'
         /\ UNCHANGED resolverVars => ResolversTypeOK'
         /\ UNCHANGED workerVars => WorkersTypeOK'
         /\ UNCHANGED bounds => BoundsTypeOK'
         /\ /\ changes' = changes
            /\ failures < MaxFailures /\ failures' = failures + 1
            => BoundsTypeOK'
<1> USE DEF LinkTypeOK
<1>1. UNCHANGED <<site, cardVars>> => CardTypeOK'
  BY DEF CardTypeOK, cardVars
<1>2. UNCHANGED previewVars => PreviewTypeOK'
  BY DEF PreviewTypeOK, previewVars
<1>3. UNCHANGED resolverVars => ResolversTypeOK'
  BY DEF ResolversTypeOK, CardsHeld, resolverVars
<1>4. UNCHANGED workerVars => WorkersTypeOK'
  BY DEF WorkersTypeOK, workerVars
<1>5. /\ UNCHANGED bounds => BoundsTypeOK'
      /\ /\ changes' = changes
         /\ failures < MaxFailures /\ failures' = failures + 1
         => BoundsTypeOK'
  BY TimesAssumption DEF BoundsTypeOK, bounds
<1> QED BY <1>1, <1>2, <1>3, <1>4, <1>5

(***************************************************************************)
(* Initially the row is free and nobody is at work.                        *)
(***************************************************************************)
LEMMA InitLock == LinkInit => LockInv
<1> SUFFICES ASSUME LinkInit PROVE LockInv
  OBVIOUS
<1>1. CardTypeOK /\ PreviewTypeOK /\ jobs \subseteq Media
  BY OlderFacts DEF LinkInit, CardTypeOK, PreviewTypeOK
<1>2. ResolversTypeOK
  BY OlderFacts DEF LinkInit, ResolversTypeOK, CardsHeld
<1>3. WorkersTypeOK /\ BoundsTypeOK
  BY TimesAssumption DEF LinkInit, WorkersTypeOK, BoundsTypeOK
<1>4. Remembered /\ OneHolder
  BY DEF LinkInit, Remembered, OneHolder, Holds
<1> QED BY <1>1, <1>2, <1>3, <1>4 DEF LockInv, LinkTypeOK

(***************************************************************************)
(* A resolver that leaves, a worker that ends, the writes of the row.      *)
(***************************************************************************)
LEMMA LeaveTypes ==
  ASSUME ResolversTypeOK, NEW r \in Resolvers, NEW after \in {"mark", "send", "idle"},
         Leave(r, after),
         after = "mark" => card[r] \in Cards, after = "send" => card[r] \in Media
  PROVE  ResolversTypeOK'
<1>1. /\ pc' \in [Resolvers -> {"idle", "resolve", "store", "giveUp", "mark", "send"}]
      /\ since' \in [Resolvers -> 0 .. Old]
      /\ card' \in [Resolvers -> Cards \cup {None}]
  BY OlderFacts DEF Leave, ResolversTypeOK
<1>2. \A o \in Resolvers : o # r => pc'[o] = pc[o] /\ card'[o] = card[o]
  BY DEF Leave, ResolversTypeOK
<1>3. pc'[r] = after /\ (after # "idle" => card'[r] = card[r])
  BY DEF Leave, ResolversTypeOK
<1>4. CardsHeld
  BY DEF ResolversTypeOK
<1>5. CardsHeld'
  BY <1>2, <1>3, <1>4 DEF CardsHeld
<1> QED BY <1>1, <1>5 DEF ResolversTypeOK

(***************************************************************************)
(* A media worker that ends keeps the types of the workers.                *)
(***************************************************************************)
LEMMA EndWorkTypes ==
  ASSUME WorkersTypeOK, NEW w \in Workers, EndWork(w)
  PROVE  WorkersTypeOK'
BY DEF EndWork, WorkersTypeOK

(***************************************************************************)
(* A card that is stored keeps the types of the cards.                     *)
(***************************************************************************)
LEMMA StoredTypes ==
  ASSUME CardTypeOK, NEW m \in Cards, Stored(m), UNCHANGED site
  PROVE  CardTypeOK'
BY OlderFacts DEF Stored, CardTypeOK

(***************************************************************************)
(* A preview that is marked keeps the types of the previews.               *)
(***************************************************************************)
LEMMA MarkedTypes ==
  ASSUME PreviewTypeOK, NEW m \in Cards, Marked(m)
  PROVE  PreviewTypeOK'
BY DEF Marked, PreviewTypeOK, Cards, previewVars

(***************************************************************************)
(* A preview that is finished keeps the types of the previews.             *)
(***************************************************************************)
LEMMA FinishedTypes ==
  ASSUME PreviewTypeOK, NEW m \in Media, Finished(m)
  PROVE  PreviewTypeOK'
BY DEF Finished, PreviewTypeOK

(***************************************************************************)
(* Steps of resolvers keep the types.                                      *)
(***************************************************************************)
LEMMA ResolverTypes ==
  ASSUME LinkTypeOK, NEW r \in Resolvers,
         Lock(r) \/ Resolving(r) \/ AttemptFails(r) \/ PreviewErrs(r) \/ KillResolver(r)
  PROVE  LinkTypeOK'
<1>0. CardTypeOK /\ PreviewTypeOK /\ ResolversTypeOK /\ CardsHeld /\ jobs \subseteq Media
  BY DEF LinkTypeOK, ResolversTypeOK
<1>1. CASE Lock(r)
  <2>1. ResolversTypeOK'
    BY <1>0, <1>1, OlderFacts DEF Lock, ResolversTypeOK, CardsHeld
  <2>2. CardTypeOK'
    BY <1>0, <1>1, OlderFacts DEF Lock, CardTypeOK
  <2> QED BY <1>1, <2>1, <2>2, Frames DEF Lock, LinkTypeOK
<1>2. CASE Resolve(r)
  <2>1. ResolversTypeOK'
    BY <1>0, <1>2 DEF Resolve, ResolversTypeOK, CardsHeld, CardTypeOK
  <2> QED BY <1>2, <2>1, Frames DEF Resolve, LinkTypeOK
<1>3. CASE Store(r)
  <2>1. card[r] \in Cards
    BY <1>0, <1>3 DEF Store, CardsHeld
  <2>2. CardTypeOK'
    BY <1>0, <1>3, <2>1, StoredTypes DEF Store
  <2>3. ResolversTypeOK'
    BY <1>0, <1>3, <2>1, LeaveTypes DEF Store
  <2> QED BY <1>3, <2>2, <2>3, Frames DEF Store, LinkTypeOK
<1>4. CASE AttemptFails(r)
  <2>1. pc[r] = "store" => card[r] \in Cards
    BY <1>0 DEF CardsHeld
  <2>2. UNCHANGED site /\ (UNCHANGED cardVars \/ (pc[r] = "store" /\ Stored(card[r])))
    BY <1>4 DEF AttemptFails
  <2>3. CardTypeOK'
    BY <1>0, <2>1, <2>2, StoredTypes, Frames
  <2>4. ResolversTypeOK'
    BY <1>0, <1>4 DEF AttemptFails, ResolversTypeOK, CardsHeld
  <2> QED BY <1>4, <2>3, <2>4, Frames DEF AttemptFails, LinkTypeOK
<1>5. CASE UpdateWithFailure(r)
  <2>1. ResolversTypeOK'
    BY <1>0, <1>5, LeaveTypes DEF UpdateWithFailure
  <2>2. CardTypeOK'
    BY <1>0, <1>5, OlderFacts DEF UpdateWithFailure, CardTypeOK
  <2> QED BY <1>5, <2>1, <2>2, Frames DEF UpdateWithFailure, LinkTypeOK
<1>6. CASE Mark(r)
  <2>1. card[r] \in Cards
    BY <1>0, <1>6 DEF Mark, CardsHeld
  <2>2. PreviewTypeOK'
    BY <1>0, <1>6, <2>1, MarkedTypes DEF Mark
  <2>3. ResolversTypeOK'
    BY <1>0, <1>6, <2>1, LeaveTypes DEF Mark, Cards
  <2> QED BY <1>6, <2>2, <2>3, Frames DEF Mark, LinkTypeOK
<1>7. CASE Send(r)
  <2>1. jobs' \subseteq Media
    BY <1>0, <1>7 DEF Send, CardsHeld
  <2>2. ResolversTypeOK'
    BY <1>0, <1>7, LeaveTypes DEF Send
  <2> QED BY <1>7, <2>1, <2>2, Frames DEF Send, LinkTypeOK
<1>8. CASE PreviewErrs(r)
  <2>1. /\ pc[r] = "mark" => card[r] \in Cards
        /\ pc[r] = "send" => card[r] \in Media
    BY <1>0 DEF CardsHeld
  <2>2. \/ UNCHANGED <<previewVars, jobs>>
        \/ pc[r] = "mark" /\ Marked(card[r]) /\ UNCHANGED jobs
        \/ pc[r] = "send" /\ jobs' = jobs \cup {card[r]} /\ UNCHANGED previewVars
    BY <1>8 DEF PreviewErrs
  <2>3. PreviewTypeOK' /\ jobs' \subseteq Media
    BY <1>0, <2>1, <2>2, MarkedTypes, Frames
  <2>4. ResolversTypeOK'
    BY <1>0, <1>8, LeaveTypes DEF PreviewErrs
  <2> QED BY <1>8, <2>3, <2>4, Frames DEF PreviewErrs, LinkTypeOK
<1>9. CASE KillResolver(r)
  <2>1. ResolversTypeOK'
    BY <1>0, <1>9, LeaveTypes DEF KillResolver
  <2> QED BY <1>9, <2>1, Frames DEF KillResolver, LinkTypeOK
<1> QED BY <1>1, <1>2, <1>3, <1>4, <1>5, <1>6, <1>7, <1>8, <1>9 DEF Resolving

(***************************************************************************)
(* Steps of workers keep the types.                                        *)
(***************************************************************************)
LEMMA WorkerTypes ==
  ASSUME LinkTypeOK, NEW w \in Workers,
         \/ \E h \in Media : TakeJob(w, h) \/ SkipRow(w, h)
         \/ Working(w) \/ Redeliver(w) \/ WorkFails(w) \/ KillWorker(w)
  PROVE  LinkTypeOK'
<1>0. CardTypeOK /\ PreviewTypeOK /\ WorkersTypeOK /\ jobs \subseteq Media
  BY DEF LinkTypeOK
<1>1. ASSUME NEW h \in Media, TakeJob(w, h) PROVE LinkTypeOK'
  <2>1. WorkersTypeOK'
    BY <1>0, <1>1 DEF TakeJob, WorkersTypeOK, CardTypeOK, workerVars
  <2>2. PreviewTypeOK' /\ jobs' \subseteq Media
    BY <1>0, <1>1 DEF TakeJob, PreviewTypeOK
  <2> QED BY <1>1, <2>1, <2>2, Frames DEF TakeJob, LinkTypeOK
<1>7. ASSUME NEW h \in Media, SkipRow(w, h) PROVE LinkTypeOK'
  <2>1. jobs' \subseteq Media
    BY <1>0, <1>7 DEF SkipRow
  <2> QED BY <1>7, <2>1, Frames DEF SkipRow, LinkTypeOK
<1>2. CASE Reject(w) \/ Fail(w)
  <2>1. WorkersTypeOK'
    BY <1>0, <1>2, EndWorkTypes DEF Reject, Fail
  <2>2. PreviewTypeOK'
    BY <1>0, <1>2 DEF Reject, Fail, PreviewTypeOK
  <2> QED BY <1>2, <2>1, <2>2, Frames DEF Reject, Fail, LinkTypeOK
<1>3. CASE Finish(w)
  <2>1. source[w] \in Media
    BY <1>0, <1>3 DEF Finish, WorkersTypeOK
  <2>2. PreviewTypeOK'
    BY <1>0, <1>3, <2>1, FinishedTypes DEF Finish
  <2>3. WorkersTypeOK'
    BY <1>0, <1>3, EndWorkTypes DEF Finish
  <2> QED BY <1>3, <2>2, <2>3, Frames DEF Finish, LinkTypeOK
<1>4. CASE WorkFails(w)
  <2>1. source[w] \in Media
    BY <1>0, <1>4 DEF WorkFails, WorkersTypeOK
  <2>2. PreviewTypeOK'
    BY <1>0, <1>4, <2>1, FinishedTypes, Frames DEF WorkFails
  <2>3. WorkersTypeOK'
    BY <1>0, <1>4 DEF WorkFails, WorkersTypeOK
  <2> QED BY <1>4, <2>2, <2>3, Frames DEF WorkFails, LinkTypeOK
<1>5. CASE Redeliver(w)
  <2>1. jobs' \subseteq Media
    BY <1>0, <1>5 DEF Redeliver, WorkersTypeOK
  <2> QED BY <1>5, <2>1, Frames DEF Redeliver, LinkTypeOK
<1>6. CASE KillWorker(w)
  <2>1. jobs' \subseteq Media
    BY <1>0, <1>6 DEF KillWorker, WorkersTypeOK
  <2>2. WorkersTypeOK'
    BY <1>0, <1>6, EndWorkTypes DEF KillWorker
  <2> QED BY <1>6, <2>1, <2>2, Frames DEF KillWorker, LinkTypeOK
<1> QED BY <1>1, <1>2, <1>3, <1>4, <1>5, <1>6, <1>7 DEF Working

(***************************************************************************)
(* Every step keeps the types.                                             *)
(***************************************************************************)
LEMMA StepTypes ==
  ASSUME LinkTypeOK, [LinkNext]_linkVars
  PROVE  LinkTypeOK'
<1>1. CASE UNCHANGED linkVars
  BY <1>1, Frames DEF LinkTypeOK, linkVars
<1>2. CASE Tick
  <2>1. CardTypeOK'
    BY <1>2, OlderFacts DEF Tick, LinkTypeOK, CardTypeOK
  <2>2. ResolversTypeOK'
    BY <1>2, OlderFacts DEF Tick, LinkTypeOK, ResolversTypeOK, CardsHeld
  <2> QED BY <1>2, <2>1, <2>2, Frames DEF Tick, LinkTypeOK
<1>3. ASSUME NEW m \in Cards, Republish(m) PROVE LinkTypeOK'
  <2>1. CardTypeOK' /\ BoundsTypeOK'
    BY <1>3, TimesAssumption
    DEF Republish, LinkTypeOK, CardTypeOK, BoundsTypeOK, cardVars
  <2> QED BY <1>3, <2>1, Frames DEF Republish, LinkTypeOK
<1> QED BY <1>1, <1>2, <1>3, ResolverTypes, WorkerTypes DEF LinkNext, Faults

(***************************************************************************)
(* What a step does to the row's memory of the resolvers in their time.    *)
(***************************************************************************)
LEMMA StepRemembers ==
  ASSUME LockInv, [LinkNext]_linkVars
  PROVE  Remembered' /\ OneHolder'
<1> USE DEF LockInv
<1>1. /\ since \in [Resolvers -> 0 .. Old]
      /\ pc \in [Resolvers -> {"idle", "resolve", "store", "giveUp", "mark", "send"}]
      /\ lock \in (0 .. Old) \cup {None} /\ tried \in 0 .. Old
  BY DEF LinkTypeOK, CardTypeOK, ResolversTypeOK
<1>2. CASE UNCHANGED <<lock, tried, pc, since>>
  BY <1>2 DEF Remembered, OneHolder, Holds
<1>3. CASE Tick
  <2>1. \A r \in Resolvers : since'[r] = Older(since[r])
    BY <1>3 DEF Tick
  <2>2. \A r \in Resolvers : Holds(r)' => Holds(r)
    BY <1>1, <1>3, <2>1, OlderFacts, TimesAssumption DEF Tick, Holds, Old
  <2>3. ASSUME NEW r \in Resolvers, Holds(r)'
        PROVE  (lock' # None /\ lock' <= since'[r]) \/ tried' <= since'[r]
    BY <1>1, <1>3, <2>1, <2>2, <2>3, OlderFacts, TimesAssumption
    DEF Tick, Remembered, Old
  <2> QED BY <2>2, <2>3 DEF Remembered, OneHolder
<1>4. ASSUME NEW r \in Resolvers, Lock(r) PROVE Remembered' /\ OneHolder'
  <2>1. \A o \in Resolvers : ~Holds(o)
    BY <1>1, <1>4, TimesAssumption DEF Lock, IsLockable, Remembered, Holds, Old
  <2>2. \A o \in Resolvers : Holds(o)' => o = r
    BY <1>1, <1>4, <2>1 DEF Lock, Holds
  <2>3. since'[r] = 0 /\ lock' = 0
    BY <1>1, <1>4 DEF Lock
  <2> QED BY <2>2, <2>3, TimesAssumption DEF Remembered, OneHolder
<1>5. ASSUME NEW r \in Resolvers,
             Resolving(r) \/ AttemptFails(r) \/ PreviewErrs(r) \/ KillResolver(r)
      PROVE  Remembered' /\ OneHolder'
  <2>1. \A o \in Resolvers : Holds(o)' => Holds(o) /\ since'[o] = since[o]
    BY <1>1, <1>5, TimesAssumption
    DEF Resolving, Resolve, Store, UpdateWithFailure, Mark, Send, AttemptFails,
        PreviewErrs,
        KillResolver, Leave, Holds, Old
  <2>2. UNCHANGED <<lock, tried>> \/ tried' = 0
    BY <1>5 DEF Resolving, Resolve, Store, Stored, UpdateWithFailure, Mark, Send,
        AttemptFails,
        PreviewErrs, KillResolver, cardVars
  <2> QED BY <1>1, <2>1, <2>2 DEF Remembered, OneHolder
<1>6. ASSUME NEW w \in Workers,
             \/ \E h \in Media : TakeJob(w, h) \/ SkipRow(w, h)
             \/ Working(w) \/ Redeliver(w) \/ WorkFails(w) \/ KillWorker(w)
      PROVE  UNCHANGED <<lock, tried, pc, since>>
  BY <1>6 DEF TakeJob, SkipRow, Working, Reject, Finish, Fail, Redeliver, WorkFails, KillWorker,
     cardVars, resolverVars
<1>7. ASSUME NEW m \in Cards, Republish(m) PROVE UNCHANGED <<lock, tried, pc, since>>
  BY <1>7 DEF Republish, cardVars, resolverVars
<1>8. CASE UNCHANGED linkVars
  BY <1>2, <1>8 DEF linkVars, cardVars, resolverVars
<1> QED BY <1>2, <1>3, <1>4, <1>5, <1>6, <1>7, <1>8 DEF LinkNext, Faults

(***************************************************************************)
(* The types of the row, of the messages, of the resolvers and workers.    *)
(***************************************************************************)
THEOREM LinkTypeCorrect == LinkSpec => []LinkTypeOK
<1>1. LinkInit => LinkTypeOK
  BY InitLock DEF LockInv
<1>2. LinkTypeOK /\ [LinkNext]_linkVars => LinkTypeOK'
  BY StepTypes
<1> QED BY <1>1, <1>2, PTL DEF LinkSpec

(***************************************************************************)
(* No two resolvers work on the link within the time of their locks: what  *)
(* a late resolver unlocks stays closed until the next one's time is over. *)
(***************************************************************************)
THEOREM HoldersAreAlone == LinkSpec => []OneHolder
<1>1. LinkInit => LockInv
  BY InitLock
<1>2. LockInv /\ [LinkNext]_linkVars => LockInv'
  BY StepTypes, StepRemembers DEF LockInv
<1>3. LockInv => OneHolder
  BY DEF LockInv
<1> QED BY <1>1, <1>2, <1>3, PTL DEF LinkSpec

(***************************************************************************)
(* A step that does not give a preview up leaves none behind: a mark is    *)
(* followed by its sender, a message by the worker that takes the preview  *)
(* over, and a worker by an outcome.  The failures of attempts, of the     *)
(* work, and second deliveries are such steps.                             *)
(***************************************************************************)
LEMMA StepAttends ==
  ASSUME LinkTypeOK, [LinkNext]_linkVars, Unattended'
  PROVE  Unattended \/ Abandons
<1>1. /\ pc \in [Resolvers -> {"idle", "resolve", "store", "giveUp", "mark", "send"}]
      /\ card \in [Resolvers -> Cards \cup {None}]
      /\ wpc \in [Workers -> {"idle", "work", "fail"}]
  BY DEF LinkTypeOK, ResolversTypeOK, WorkersTypeOK
<1>3. CASE UNCHANGED <<preview, hash, jobs, pc, card, wpc>>
  BY <1>3 DEF Unattended
<1>2. ASSUME NEW w \in Workers, Redeliver(w) \/ WorkFails(w) PROVE Unattended
  <2>1. CASE Redeliver(w)
    BY <2>1 DEF Redeliver, Unattended, previewVars, resolverVars, workerVars
  <2>2. CASE WorkFails(w)
    <3>1. wpc'[w] = "fail" /\ wpc[w] = "work" /\ UNCHANGED <<jobs, pc, card>>
      BY <1>1, <2>2 DEF WorkFails, resolverVars
    <3>2. preview' \in {"READY", "SKIPPED"} \/ UNCHANGED <<preview, hash>>
      BY <2>2 DEF WorkFails, Finished, previewVars
    <3> QED BY <3>1, <3>2 DEF Unattended
  <2> QED BY <1>2, <2>1, <2>2
<1>4. ASSUME NEW r \in Resolvers,
             AttemptFails(r) \/ (pc[r] # "send" /\ KillResolver(r))
      PROVE  Unattended
  <2>1. UNCHANGED <<preview, hash, jobs, wpc>> /\ pc[r] # "send"
    BY <1>4 DEF AttemptFails, KillResolver, previewVars, workerVars
  <2>2. \A o \in Resolvers \ {r} : pc'[o] = pc[o] /\ card'[o] = card[o]
    BY <1>1, <1>4 DEF AttemptFails, KillResolver, Leave
  <2> QED BY <2>1, <2>2 DEF Unattended
<1>11. CASE Faults
  BY <1>2, <1>4, <1>11 DEF Faults, Abandons
<1>5. ASSUME NEW r \in Resolvers, Resolve(r) \/ Store(r) \/ UpdateWithFailure(r) \/ Lock(r)
      PROVE  Unattended
  <2>1. UNCHANGED <<preview, hash, jobs, wpc>>
    BY <1>5 DEF Resolve, Store, UpdateWithFailure, Lock, previewVars, workerVars
  <2>2. pc[r] # "send" /\ \A o \in Resolvers \ {r} : pc'[o] = pc[o] /\ card'[o] = card[o]
    BY <1>1, <1>5 DEF Resolve, Store, UpdateWithFailure, Lock, Leave
  <2> QED BY <2>1, <2>2 DEF Unattended
<1>6. ASSUME NEW r \in Resolvers, Mark(r) PROVE Unattended
  <2>1. UNCHANGED <<jobs, wpc>> /\ pc[r] = "mark"
    BY <1>6 DEF Mark, workerVars
  <2>2. \A o \in Resolvers \ {r} : pc'[o] = pc[o] /\ card'[o] = card[o]
    BY <1>1, <1>6 DEF Mark, Leave
  <2>3. CASE card[r] # NoSource /\ IsNeeded(card[r])
    <3>1. preview' = "PENDING" /\ hash' = card[r]
      BY <1>6, <2>3 DEF Mark, Marked
    <3>2. pc'[r] = "send" /\ card'[r] = card[r]
      BY <1>1, <1>6, <2>3 DEF Mark, Leave
    <3> QED BY <3>1, <3>2 DEF Unattended
  <2>4. CASE card[r] = NoSource
    BY <1>6, <2>4 DEF Mark, Marked, Unattended
  <2>5. CASE card[r] # NoSource /\ ~IsNeeded(card[r])
    <3>1. UNCHANGED <<preview, hash>>
      BY <1>6, <2>5 DEF Mark, Marked, previewVars
    <3> QED BY <2>1, <2>2, <3>1 DEF Unattended
  <2> QED BY <2>3, <2>4, <2>5
<1>7. ASSUME NEW r \in Resolvers, Send(r) PROVE Unattended
  <2>1. UNCHANGED <<preview, hash, wpc>> /\ jobs' = jobs \cup {card[r]}
    BY <1>7 DEF Send, previewVars, workerVars
  <2>2. \A o \in Resolvers \ {r} : pc'[o] = pc[o] /\ card'[o] = card[o]
    BY <1>1, <1>7 DEF Send, Leave
  <2> QED BY <2>1, <2>2 DEF Unattended
<1>8. ASSUME NEW w \in Workers, NEW h \in Media, TakeJob(w, h) PROVE Unattended
  <2>1. UNCHANGED <<hash, pc, card>> /\ jobs' = jobs \ {h}
    BY <1>8 DEF TakeJob, resolverVars
  <2>2. CASE preview = "PENDING" /\ hash = h
    <3>1. preview' = "PROCESSING" /\ wpc'[w] = "work"
      BY <1>1, <1>8, <2>2 DEF TakeJob
    <3> QED BY <3>1 DEF Unattended
  <2>3. CASE ~(preview = "PENDING" /\ hash = h)
    <3>1. UNCHANGED <<preview, wpc>>
      BY <1>8, <2>3 DEF TakeJob, workerVars
    <3> QED BY <2>1, <2>3, <3>1 DEF Unattended
  <2> QED BY <2>2, <2>3
<1>9. ASSUME NEW w \in Workers, Working(w) PROVE Unattended
  BY <1>9 DEF Working, Reject, Finish, Finished, Fail, Unattended
<1>10. CASE Tick \/ (\E m \in Cards : Republish(m)) \/ UNCHANGED linkVars
  BY <1>3, <1>10 DEF Tick, Republish, linkVars, previewVars, resolverVars, workerVars
<1> QED BY <1>5, <1>6, <1>7, <1>8, <1>9, <1>10, <1>11 DEF LinkNext, Resolving, Abandons

(***************************************************************************)
(* A preview is left to nobody only where the code gives it up: its        *)
(* message is not sent, finds the row locked by another transaction, or    *)
(* its worker is killed.                                                   *)
(***************************************************************************)
THEOREM PreviewsAttended == LinkSpec => NoPreviewStranded
<1>1. LinkInit => LinkTypeOK
  BY InitLock DEF LockInv
<1>2. LinkTypeOK /\ [LinkNext]_linkVars => LinkTypeOK'
  BY StepTypes
<1>3. LinkTypeOK /\ [LinkNext]_linkVars
        => [Unattended' => Unattended \/ Abandons]_linkVars
  BY StepAttends
<1> QED BY <1>1, <1>2, <1>3, PTL DEF LinkSpec, NoPreviewStranded
=============================================================================
