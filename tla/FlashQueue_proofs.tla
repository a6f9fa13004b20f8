-------------------------- MODULE FlashQueue_proofs --------------------------
(***************************************************************************)
(* Proofs that hold for every number of request threads and uploads.       *)
(***************************************************************************)
EXTENDS FlashQueue, SequenceTheorems, TLAPS

THEOREM InitIInv == Init => IInv
<1> SUFFICES ASSUME Init PROVE IInv
  OBVIOUS
<1> USE DEF Init, CtlInit, RegInit
<1>1. TypeOK
  <2>1. CtlTypeOK
    BY MaxOpsAssumption
    DEF CtlTypeOK, Statuses, QueueSize, NoOp, OperationIds, Operations
  <2>2. RegTypeOK
    BY DEF RegTypeOK
  <2>3. ThreadTypeOK
    BY DEF ThreadTypeOK, HandlerPcs, MainPcs, Threads
  <2> QED BY <2>1, <2>2, <2>3 DEF TypeOK
<1>2. Ownership
  BY DEF Ownership, HoldsJob, Flashing, Claimable
<1>3. Locking
  BY MainAssumption DEF Locking, Locked
<1>4. Admission
  BY DEF Admission, Closed, Admitted, Locked, Busy
<1>5. Uploading
  BY DEF Uploading
<1>6. Roles /\ Alone
  BY DEF Roles, RoleOK, Alone
<1>7. QueuedImages = {} /\ JobImages = {} /\ PendingImages = {} /\ HeldImages = {}
  BY DEF QueuedImages, JobImages, PendingImages, HeldImages, HoldsJob
<1>8. Claims /\ Custody
  BY <1>7 DEF Claims, ClaimPcs, Custody, Receiving, Threads
<1>9. Accounted
  BY <1>7, MainAssumption DEF Accounted, Threads
<1>10. Orderly
  BY MaxOpsAssumption DEF Orderly, NoOp, Closed
<1> QED BY <1>1, <1>2, <1>3, <1>4, <1>5, <1>6, <1>8, <1>9, <1>10 DEF IInv

----------------------------------------------------------------------------
(* The controller's methods keep its variables well typed.                 *)

LEMMA SubmitTyped ==
  ASSUME NEW a \in Artifacts, CtlTypeOK, Submit(a) PROVE CtlTypeOK'
<1> USE DEF CtlTypeOK, Submit, SubmitRefused, QueueSize
<1>1. issued + 1 \in OperationIds
  BY MaxOpsAssumption DEF OperationIds
<1>2. [id |-> issued + 1, artifact |-> a] \in Operations
  BY <1>1 DEF Operations
<1>3. queue' \in Seq(Operations) /\ Len(queue') <= QueueSize
  BY <1>2
<1> QED
  BY <1>1, <1>3, MaxOpsAssumption DEF OperationIds, Statuses

LEMMA GetTyped ==
  ASSUME CtlTypeOK, Get PROVE CtlTypeOK' /\ Head(queue) \in Operations
<1> USE DEF CtlTypeOK, Get, QueueSize
<1>1. queue' \in Seq(Operations) /\ Len(queue') <= QueueSize
  OBVIOUS
<1>2. Head(queue) \in Operations
  OBVIOUS
<1> QED BY <1>1, <1>2

LEMMA DrainTyped == ASSUME CtlTypeOK, Drain PROVE CtlTypeOK'
<1>1. CASE queue # <<>> /\ status = "queued"
  <2>1. DiscardQueued
    BY <1>1 DEF Drain
  <2> QED
    BY <2>1 DEF CtlTypeOK, Drain, DiscardQueued, Statuses, QueueSize
<1>2. CASE ~(queue # <<>> /\ status = "queued")
  <2>1. UNCHANGED <<status, operationId, progress, issued>>
    BY <1>2 DEF Drain
  <2> QED
    BY <2>1 DEF CtlTypeOK, Drain, QueueSize
<1> QED BY <1>1, <1>2

LEMMA ClaimRefusedTyped ==
  ASSUME NEW op, CtlTypeOK, ClaimRefused(op) PROVE CtlTypeOK'
  BY DEF CtlTypeOK, ClaimRefused, DiscardQueued, Statuses

LEMMA ClaimForRunTyped ==
  ASSUME NEW op, CtlTypeOK, ClaimForRun(op) PROVE CtlTypeOK'
  BY DEF CtlTypeOK, ClaimForRun, Statuses

LEMMA ReportTyped ==
  ASSUME NEW op, NEW percent \in Marks, CtlTypeOK, ReportProgress(op, percent)
  PROVE  CtlTypeOK'
  BY MarksAssumption DEF CtlTypeOK, ReportProgress

LEMMA CompleteTyped == ASSUME NEW op, CtlTypeOK, Complete(op) PROVE CtlTypeOK'
  BY DEF CtlTypeOK, Complete, Statuses

LEMMA FailTyped == ASSUME NEW op, CtlTypeOK, Fail(op) PROVE CtlTypeOK'
  BY DEF CtlTypeOK, Fail, Statuses

\* Which steps touch the controller.
LEMMA ControllerSteps ==
  ASSUME Next
  PROVE  \/ UNCHANGED ctlVars
         \/ \E h \in Handlers : SubmitArtifact(h)
         \/ Dequeue \/ ClaimJob \/ Report \/ Settle \/ DrainQueue
<1>1. ASSUME NEW h \in Handlers, Arrive(h) PROVE UNCHANGED ctlVars
  BY <1>1 DEF Arrive
<1>2. ASSUME NEW h \in Handlers, HandlerStep(h), ~SubmitArtifact(h)
      PROVE  UNCHANGED ctlVars
  BY <1>2 DEF HandlerStep, Enter, Admit, CheckIdle, Leave, Refused, WriteUpload,
     Parse, StageUpload, UnlinkReplaced, Cleanup, ClaimArtifact, ReleaseArtifact,
     ConsumeArtifact, BeginSession, EndSession
<1>3. ASSUME MainStep, ~Dequeue, ~ClaimJob, ~Settle, ~DrainQueue
      PROVE  UNCHANGED ctlVars
  BY <1>3 DEF MainStep, Verified, Loop, GetTimeout, FlashReturns, DiscardImage,
     ClearRegistry, UnlinkDoomed
<1>4. ASSUME Tick \/ Expire \/ RequestStop \/ TakeFlashLock \/ CloseAdmission \/ Terminated
      PROVE  UNCHANGED ctlVars
  BY <1>4 DEF Tick, Expire, RequestStop, TakeFlashLock, CloseAdmission, Terminated, vars
<1> QED BY <1>1, <1>2, <1>3, <1>4 DEF Next

LEMMA CtlTypeStep ==
  ASSUME TypeOK, Uploading, Next PROVE CtlTypeOK'
<1> USE DEF TypeOK
<1>1. CASE UNCHANGED ctlVars
  BY <1>1 DEF CtlTypeOK, ctlVars
<1>2. ASSUME NEW h \in Handlers, SubmitArtifact(h) PROVE CtlTypeOK'
  <2>1. CASE UNCHANGED ctlVars
    BY <2>1 DEF CtlTypeOK, ctlVars
  <2>2. CASE Submit(upload[h])
    BY <1>2, <2>2, SubmitTyped DEF SubmitArtifact, At, Uploading
  <2> QED BY <1>2, <2>1, <2>2 DEF SubmitArtifact
<1>3. CASE Dequeue
  BY <1>3, GetTyped DEF Dequeue
<1>4. CASE ClaimJob
  BY <1>4, ClaimRefusedTyped, ClaimForRunTyped DEF ClaimJob
<1>5. CASE Report
  BY <1>5, ReportTyped DEF Report
<1>6. CASE Settle
  BY <1>6, CompleteTyped, FailTyped DEF Settle
<1>7. CASE DrainQueue
  BY <1>7, DrainTyped DEF DrainQueue
<1> QED BY <1>1, <1>2, <1>3, <1>4, <1>5, <1>6, <1>7, ControllerSteps

----------------------------------------------------------------------------
(* The registry's methods keep its variables well typed.                   *)

\* Which steps touch the registry, and through which method.
LEMMA RegistrySteps ==
  ASSUME TypeOK, Uploading, Ownership, Next
  PROVE  \/ UNCHANGED regVars
         \/ RemoveExpired \/ ClearEntries
         \/ \E u \in Artifacts :
              CreateFile(u) \/ NoteManual(u) \/ Stage(u) \/ Claim(u) \/ Age(u)
         \/ \E u \in Artifacts \cup {None} : ReleaseClaim(u) \/ Consume(u)
         \/ \E S \in SUBSET (Artifacts \cup {None}) : Unlink(S)
<1> DEFINE Touched ==
         \/ UNCHANGED regVars
         \/ RemoveExpired \/ ClearEntries
         \/ \E u \in Artifacts :
              CreateFile(u) \/ NoteManual(u) \/ Stage(u) \/ Claim(u) \/ Age(u)
         \/ \E u \in Artifacts \cup {None} : ReleaseClaim(u) \/ Consume(u)
         \/ \E S \in SUBSET (Artifacts \cup {None}) : Unlink(S)
<1>1. ASSUME NEW h \in Handlers, Arrive(h) PROVE Touched
  BY <1>1 DEF Arrive
<1>2. ASSUME NEW h \in Handlers, HandlerStep(h) PROVE Touched
  <2> SUFFICES ASSUME ~UNCHANGED regVars PROVE Touched
    OBVIOUS
  <2>1. CASE WriteUpload(h)
    BY <2>1 DEF WriteUpload
  <2>2. CASE Parse(h)
    BY <2>2 DEF Parse, At, Uploading
  <2>3. CASE StageUpload(h)
    BY <2>3 DEF StageUpload, At, Uploading
  <2>4. CASE UnlinkReplaced(h) \/ Cleanup(h)
    <3>1. Unlink(doomed[h]) \/ Unlink({upload[h]})
      BY <2>4 DEF UnlinkReplaced, Cleanup
    <3>2. /\ doomed[h] \in SUBSET (Artifacts \cup {None})
          /\ {upload[h]} \in SUBSET (Artifacts \cup {None})
      BY DEF TypeOK, ThreadTypeOK, Threads
    <3> QED BY <3>1, <3>2
  <2>5. CASE ClaimArtifact(h)
    <3>1. CASE RemoveExpired
      BY <3>1
    <3>2. CASE Claim(upload[h])
      BY <3>2 DEF Claim, ClaimableEntry, TypeOK, RegTypeOK
    <3> QED BY <2>5, <3>1, <3>2 DEF ClaimArtifact
  <2>6. CASE ReleaseArtifact(h) \/ ConsumeArtifact(h)
    <3>1. ReleaseClaim(upload[h]) \/ Consume(upload[h])
      BY <2>6 DEF ReleaseArtifact, ConsumeArtifact
    <3>2. upload[h] \in Artifacts \cup {None}
      BY DEF TypeOK, ThreadTypeOK
    <3> QED BY <3>1, <3>2
  <2>7. ASSUME \/ Enter(h) \/ Admit(h) \/ CheckIdle(h) \/ Leave(h) \/ Refused(h)
               \/ SubmitArtifact(h) \/ BeginSession(h) \/ EndSession(h)
        PROVE  UNCHANGED regVars
    BY <2>7 DEF Enter, Admit, CheckIdle, Leave, Refused, SubmitArtifact,
                BeginSession, EndSession
  <2> QED BY <1>2, <2>1, <2>2, <2>3, <2>4, <2>5, <2>6, <2>7 DEF HandlerStep
<1>3. CASE Tick
  BY <1>3 DEF Tick
<1>4. CASE Expire
  BY <1>4 DEF Expire
<1>5. CASE DiscardImage \/ UnlinkDoomed
  <2>1. CASE DiscardImage
    <3>1. Unlink({job.artifact}) /\ main \in HoldsJob
      BY <2>1 DEF DiscardImage, MainGoto, HoldsJob
    <3>2. {job.artifact} \in SUBSET (Artifacts \cup {None})
      BY <3>1 DEF Ownership, Operations
    <3> QED BY <3>1, <3>2
  <2>2. CASE UnlinkDoomed
    <3>1. Unlink(doomed[Main])
      BY <2>2 DEF UnlinkDoomed
    <3>2. doomed[Main] \in SUBSET (Artifacts \cup {None})
      BY DEF TypeOK, ThreadTypeOK, Threads
    <3> QED BY <3>1, <3>2
  <2> QED BY <1>5, <2>1, <2>2
<1>6. CASE ClearRegistry
  BY <1>6 DEF ClearRegistry
<1>7. ASSUME MainStep, ~DiscardImage, ~UnlinkDoomed, ~ClearRegistry
      PROVE  UNCHANGED regVars
  BY <1>7 DEF MainStep, Verified, Loop, Dequeue, GetTimeout, ClaimJob, FlashReturns,
     Settle, DrainQueue
<1>8. ASSUME RequestStop \/ TakeFlashLock \/ Report \/ CloseAdmission \/ Terminated
      PROVE  UNCHANGED regVars
  BY <1>8 DEF RequestStop, TakeFlashLock, Report, CloseAdmission, Terminated, vars
<1> QED BY <1>1, <1>2, <1>3, <1>4, <1>5, <1>6, <1>7, <1>8 DEF Next

LEMMA RegTypeStep ==
  ASSUME TypeOK, Uploading, Ownership, Next PROVE RegTypeOK'
<1> USE DEF TypeOK, RegTypeOK, Removable
<1>1. CASE UNCHANGED regVars
  BY <1>1 DEF regVars
<1>2. CASE RemoveExpired
  BY <1>2 DEF RemoveExpired
<1>3. CASE ClearEntries
  BY <1>3 DEF ClearEntries
<1>4. ASSUME NEW u \in Artifacts, CreateFile(u) \/ NoteManual(u) \/ Age(u)
      PROVE  RegTypeOK'
  BY <1>4 DEF CreateFile, NoteManual, Age
<1>5. ASSUME NEW u \in Artifacts, Stage(u) PROVE RegTypeOK'
  BY <1>5 DEF Stage
<1>6. ASSUME NEW u \in Artifacts, Claim(u) PROVE RegTypeOK'
  BY <1>6 DEF Claim, ClaimableEntry
<1>7. ASSUME NEW u, ReleaseClaim(u) \/ Consume(u) PROVE RegTypeOK'
  BY <1>7 DEF ReleaseClaim, Consume
<1>8. ASSUME NEW S, Unlink(S) PROVE RegTypeOK'
  BY <1>8 DEF Unlink
<1> QED BY <1>1, <1>2, <1>3, <1>4, <1>5, <1>6, <1>7, <1>8, RegistrySteps

----------------------------------------------------------------------------
(* The threads' own variables.                                             *)

LEMMA HandlerTyped ==
  ASSUME TypeOK, Uploading, NEW h \in Handlers, Arrive(h) \/ HandlerStep(h)
  PROVE  ThreadTypeOK'
<1> USE DEF ThreadTypeOK
<1> SUFFICES ASSUME ThreadTypeOK PROVE ThreadTypeOK'
  BY DEF TypeOK
<1>1. UNCHANGED <<main, job, stopping, accepting>>
  BY DEF Arrive, HandlerStep, Enter, Admit, CheckIdle, Leave, Refused, WriteUpload,
     Parse, StageUpload, UnlinkReplaced, Cleanup, ClaimArtifact, SubmitArtifact,
     ReleaseArtifact, ConsumeArtifact, BeginSession, EndSession, mainVars, gateVars
<1>2. pc' \in [Handlers -> HandlerPcs]
  BY DEF Arrive, HandlerStep, Enter, Admit, CheckIdle, Leave, Refused, WriteUpload,
     Parse, StageUpload, UnlinkReplaced, Cleanup, ClaimArtifact, SubmitArtifact,
     ReleaseArtifact, ConsumeArtifact, BeginSession, EndSession, Goto, Answer,
     HandlerPcs, Locked
<1>3. request' \in [Handlers -> Requests \cup {None}]
  BY DEF Arrive, HandlerStep, Enter, Admit, CheckIdle, Leave, Refused, WriteUpload,
     Parse, StageUpload, UnlinkReplaced, Cleanup, ClaimArtifact, SubmitArtifact,
     ReleaseArtifact, ConsumeArtifact, BeginSession, EndSession, Goto, Answer, Requests
<1>4. upload' \in [Handlers -> Artifacts \cup {None}]
  BY DEF Arrive, HandlerStep, Enter, Admit, CheckIdle, Leave, Refused, WriteUpload,
     Parse, StageUpload, UnlinkReplaced, Cleanup, ClaimArtifact, SubmitArtifact,
     ReleaseArtifact, ConsumeArtifact, BeginSession, EndSession, Goto, Answer
<1>5. doomed' \in [Threads -> SUBSET Artifacts]
  BY DEF Arrive, HandlerStep, Enter, Admit, CheckIdle, Leave, Refused, WriteUpload,
     Parse, StageUpload, UnlinkReplaced, Cleanup, ClaimArtifact, SubmitArtifact,
     ReleaseArtifact, ConsumeArtifact, BeginSession, EndSession, Goto, Answer,
     Replaced, TypeOK, RegTypeOK, Threads
<1>6. submission' \in Handlers \cup {None} /\ flashLock' \in Threads \cup {None}
  BY DEF Arrive, HandlerStep, Enter, Admit, CheckIdle, Leave, Refused, WriteUpload,
     Parse, StageUpload, UnlinkReplaced, Cleanup, ClaimArtifact, SubmitArtifact,
     ReleaseArtifact, ConsumeArtifact, BeginSession, EndSession, Threads, lockVars
<1> QED BY <1>1, <1>2, <1>3, <1>4, <1>5, <1>6

LEMMA MainTyped ==
  ASSUME TypeOK,
         MainStep \/ TakeFlashLock \/ Report \/ CloseAdmission \/ Tick \/ Expire
           \/ RequestStop \/ Terminated
  PROVE  ThreadTypeOK'
<1> USE DEF ThreadTypeOK
<1> SUFFICES ASSUME ThreadTypeOK PROVE ThreadTypeOK'
  BY DEF TypeOK
<1> USE DEF MainStep, Verified, Loop, Dequeue, GetTimeout, ClaimJob, FlashReturns,
     Settle, DiscardImage, DrainQueue, ClearRegistry, UnlinkDoomed, TakeFlashLock,
     Report, CloseAdmission, Tick, Expire, RequestStop, Terminated, vars, MainGoto
<1>1. UNCHANGED <<pc, request, upload, submission>>
  BY DEF threadVars, lockVars
<1>2. doomed' \in [Threads -> SUBSET Artifacts]
  <2>1. {queue[n].artifact : n \in DOMAIN queue} \subseteq Artifacts
    <3>1. \A n \in DOMAIN queue : queue[n] \in Operations
      BY DEF TypeOK, CtlTypeOK
    <3> QED BY <3>1 DEF Operations
  <2>2. staged \subseteq Artifacts
    BY DEF TypeOK, RegTypeOK
  <2> QED BY <2>1, <2>2 DEF threadVars, Threads
<1>3. flashLock' \in Threads \cup {None}
  BY DEF lockVars, Threads
<1>4. main' \in MainPcs
  BY DEF mainVars, MainPcs, Closed
<1>5. job' \in Operations \cup {None}
  BY GetTyped DEF mainVars, TypeOK
<1>6. stopping' \in BOOLEAN /\ accepting' \in BOOLEAN
  BY DEF gateVars
<1> QED BY <1>1, <1>2, <1>3, <1>4, <1>5, <1>6

LEMMA TypeStep ==
  ASSUME TypeOK, Uploading, Ownership, Next PROVE TypeOK'
<1>1. ThreadTypeOK'
  BY HandlerTyped, MainTyped DEF Next
<1> QED BY <1>1, CtlTypeStep, RegTypeStep DEF TypeOK

\* The upload a thread works on is set before the steps that need one.
LEMMA UploadingStep ==
  ASSUME TypeOK, Uploading, Next PROVE Uploading'
<1> USE DEF Uploading
<1>1. ASSUME NEW h \in Handlers, Arrive(h) \/ HandlerStep(h) PROVE Uploading'
  <2>1. ASSUME NEW g \in Handlers, g # h
        PROVE  pc'[g] = pc[g] /\ upload'[g] = upload[g]
    BY <1>1, <2>1 DEF TypeOK, ThreadTypeOK, Arrive, HandlerStep, Enter, Admit, CheckIdle, Leave,
     Refused, WriteUpload, Parse, StageUpload, UnlinkReplaced, Cleanup, ClaimArtifact,
     SubmitArtifact, ReleaseArtifact, ConsumeArtifact, BeginSession, EndSession, Goto,
     Answer
  <2>2. pc'[h] \in {"parse", "stage", "submit"} => upload'[h] \in Artifacts
    BY <1>1 DEF TypeOK, ThreadTypeOK, RegTypeOK, ClaimableEntry, Claim, Arrive, HandlerStep, Enter,
     Admit, CheckIdle, Leave, Refused, WriteUpload, Parse, StageUpload,
     UnlinkReplaced, Cleanup, ClaimArtifact, SubmitArtifact, ReleaseArtifact,
     ConsumeArtifact, BeginSession, EndSession, Goto, Answer, At
  <2> QED BY <2>1, <2>2
<1>2. ASSUME UNCHANGED <<pc, upload>> PROVE Uploading'
  BY <1>2
<1>3. ASSUME Tick \/ Expire \/ RequestStop \/ MainStep \/ TakeFlashLock \/ Report
               \/ CloseAdmission \/ Terminated
      PROVE  UNCHANGED <<pc, upload>>
  BY <1>3 DEF MainStep, Verified, Loop, Dequeue, GetTimeout, ClaimJob, FlashReturns,
     Settle, DiscardImage, DrainQueue, ClearRegistry, UnlinkDoomed, TakeFlashLock,
     Report, CloseAdmission, Tick, Expire, RequestStop, Terminated, vars, threadVars
<1> QED BY <1>1, <1>2, <1>3 DEF Next

----------------------------------------------------------------------------
(* Ownership of the accepted operation.                                    *)

\* A request thread changes the controller only by submitting, and submits
\* only when nothing is queued or running.
LEMMA HandlerOwnership ==
  ASSUME TypeOK, Uploading, Ownership,
         NEW h \in Handlers, Arrive(h) \/ HandlerStep(h)
  PROVE  Ownership'
<1>1. UNCHANGED <<main, job>>
  BY DEF Arrive, HandlerStep, Enter, Admit, CheckIdle, Leave, Refused, WriteUpload,
     Parse, StageUpload, UnlinkReplaced, Cleanup, ClaimArtifact, SubmitArtifact,
     ReleaseArtifact, ConsumeArtifact, BeginSession, EndSession, mainVars
<1>2. CASE UNCHANGED ctlVars
  BY <1>1, <1>2 DEF Ownership, ctlVars, Claimable
<1>3. CASE Submit(upload[h]) /\ pc[h] = "submit"
  <2>1. queue = <<>> /\ ~Busy
    BY <1>3 DEF Submit, SubmitRefused, TypeOK, CtlTypeOK, QueueSize
  <2>2. main \notin {"claim"} \cup Flashing
    BY <2>1 DEF Busy, Ownership, Claimable
  <2>3. [id |-> issued + 1, artifact |-> upload[h]] \in Operations
    BY <1>3, MaxOpsAssumption
    DEF Uploading, Submit, TypeOK, CtlTypeOK, Operations, OperationIds
  <2>4. queue' = <<[id |-> issued + 1, artifact |-> upload[h]]>>
    BY <1>3, <2>1, <2>3 DEF Submit
  <2>5. queue'[1].id = operationId' /\ status' = "queued" /\ queue' # <<>>
    BY <1>3, <2>4 DEF Submit
  <2> QED
    BY <1>1, <2>2, <2>5 DEF Ownership, HoldsJob, Flashing
<1> QED
  BY <1>2, <1>3 DEF Arrive, HandlerStep, Enter, Admit, CheckIdle, Leave, Refused,
     WriteUpload, Parse, StageUpload, UnlinkReplaced, Cleanup, ClaimArtifact,
     SubmitArtifact, At, ReleaseArtifact, ConsumeArtifact, BeginSession, EndSession

\* The queue holds one operation at most, so taking it empties the queue.
LEMMA TakingEmpties ==
  ASSUME CtlTypeOK, queue # <<>> PROVE Tail(queue) = <<>>
<1>1. queue \in Seq(Operations) /\ Len(queue) <= 1
  BY DEF CtlTypeOK, QueueSize
<1>2. Len(queue) \in Nat /\ Len(queue) # 0
  BY <1>1, EmptySeq
<1>3. Len(queue) = 1
  <2>1. \A n \in Nat : n <= 1 /\ n # 0 => n = 1
    OBVIOUS
  <2> QED BY <1>1, <1>2, <2>1, Zenon
<1>4. Tail(queue) \in Seq(Operations) /\ Len(Tail(queue)) = 0
  BY <1>1, <1>3
<1>5. \A q \in Seq(Operations) : Len(q) = 0 => q = <<>>
  OBVIOUS
<1> QED BY <1>4, <1>5, Zenon

LEMMA OwnershipStep ==
  ASSUME TypeOK, Uploading, Ownership, Next PROVE Ownership'
<1> USE DEF Ownership, HoldsJob, Flashing, MainGoto
<1>1. ASSUME NEW h \in Handlers, Arrive(h) \/ HandlerStep(h) PROVE Ownership'
  BY <1>1, HandlerOwnership
<1>2. CASE Dequeue
  <2>1. /\ job' \in Operations /\ job' = Head(queue) /\ queue' = <<>>
        /\ queue \in Seq(Operations) /\ queue # <<>>
    BY <1>2, GetTyped, TakingEmpties DEF Dequeue, Get, TypeOK, CtlTypeOK
  <2> QED
    BY <1>2, <2>1 DEF Dequeue, Get, Claimable
<1>3. CASE ClaimJob
  <2>1. CASE ClaimRefused(job) /\ main = "claim" /\ main' = "dropJob"
    BY <1>3, <2>1 DEF ClaimJob, ClaimRefused, DiscardQueued, Claimable
  <2>2. CASE ClaimForRun(job) /\ main = "claim" /\ main' = "flashLock"
    BY <1>3, <2>2 DEF ClaimJob, ClaimForRun, Claimable
  <2> QED BY <1>3, <2>1, <2>2 DEF ClaimJob
<1>4. CASE Report
  BY <1>4 DEF Report, ReportProgress, mainVars, Claimable
<1>5. CASE Settle
  <2>1. main = "settle" /\ main' = "discard" /\ job' = job /\ queue' = queue
    BY <1>5 DEF Settle, Complete, Fail
  <2>2. status' \in {"succeeded", "failed"}
    BY <1>5 DEF Settle, Complete, Fail
  <2> QED BY <2>1, <2>2
<1>6. CASE DrainQueue
  <2>1. main = "drain" /\ main' = "unlinkDrained" /\ queue' = <<>>
    BY <1>6 DEF DrainQueue, Drain
  <2>2. status' # "queued" /\ status' # "running"
    BY <1>6, <2>1 DEF DrainQueue, Drain, DiscardQueued
  <2> QED BY <2>1, <2>2
<1>7. ASSUME \/ Verified \/ Loop \/ GetTimeout \/ FlashReturns \/ DiscardImage
             \/ ClearRegistry \/ UnlinkDoomed \/ TakeFlashLock \/ CloseAdmission
             \/ Tick \/ Expire \/ RequestStop \/ Terminated
      PROVE  Ownership'
  <2>1. UNCHANGED ctlVars
    BY <1>7 DEF Verified, Loop, GetTimeout, FlashReturns, DiscardImage, ClearRegistry,
       UnlinkDoomed, TakeFlashLock, CloseAdmission, Tick, Expire, RequestStop,
       Terminated, vars
  <2>2. \/ UNCHANGED <<main, job>>
        \/ main = "flashLock" /\ main' = "flash" /\ job' = job
        \/ main = "flash" /\ main' = "settle" /\ job' = job
        \/ /\ main \notin {"claim"} \cup Flashing
           /\ main' \notin HoldsJob
    BY <1>7 DEF Verified, Loop, GetTimeout, FlashReturns, DiscardImage, ClearRegistry,
       UnlinkDoomed, TakeFlashLock, CloseAdmission, Tick, Expire, RequestStop,
       Terminated, vars, mainVars
  <2> QED BY <2>1, <2>2 DEF ctlVars, Claimable
<1> QED BY <1>1, <1>2, <1>3, <1>4, <1>5, <1>6, <1>7 DEF Next, MainStep

----------------------------------------------------------------------------
(* The two locks and the admission gate.                                   *)

LEMMA LockingStep ==
  ASSUME TypeOK, Locking, Next PROVE Locking'
<1> USE MainAssumption DEF Locking
<1>1. ASSUME NEW h \in Handlers, Arrive(h) \/ HandlerStep(h) PROVE Locking'
  <2>1. UNCHANGED main
    BY <1>1 DEF Arrive, HandlerStep, Enter, Admit, CheckIdle, Leave, Refused,
     WriteUpload, Parse, StageUpload, UnlinkReplaced, Cleanup, ClaimArtifact,
     SubmitArtifact, ReleaseArtifact, ConsumeArtifact, BeginSession, EndSession,
     mainVars
  <2>2. ASSUME NEW g \in Handlers, g # h PROVE pc'[g] = pc[g]
    BY <1>1, <2>2 DEF TypeOK, ThreadTypeOK, Arrive, HandlerStep, Enter, Admit, CheckIdle, Leave, Refused,
     WriteUpload, Parse, StageUpload, UnlinkReplaced, Cleanup, ClaimArtifact,
     SubmitArtifact, ReleaseArtifact, ConsumeArtifact, BeginSession, EndSession,
     Goto, Answer
  <2>3. \/ submission' = submission /\ (pc[h] \in Locked <=> pc'[h] \in Locked)
        \/ submission = None /\ submission' = h /\ pc'[h] \in Locked
        \/ submission' = None /\ pc[h] \in Locked /\ pc'[h] \notin Locked
    BY <1>1 DEF TypeOK, ThreadTypeOK, Arrive, HandlerStep, Enter, Admit, CheckIdle, Leave, Refused,
     WriteUpload, Parse, StageUpload, UnlinkReplaced, Cleanup, ClaimArtifact,
     SubmitArtifact, ReleaseArtifact, ConsumeArtifact, BeginSession, EndSession,
     Goto, Answer, At, Locked, lockVars
  <2>4. \/ flashLock' = flashLock /\ (pc[h] = "session" <=> pc'[h] = "session")
        \/ flashLock = None /\ flashLock' = h /\ pc'[h] = "session"
        \/ flashLock' = None /\ pc[h] = "session" /\ pc'[h] # "session"
    BY <1>1 DEF TypeOK, ThreadTypeOK, Arrive, HandlerStep, Enter, Admit, CheckIdle, Leave, Refused,
     WriteUpload, Parse, StageUpload, UnlinkReplaced, Cleanup, ClaimArtifact,
     SubmitArtifact, ReleaseArtifact, ConsumeArtifact, BeginSession, EndSession,
     Goto, Answer, At, lockVars
  <2>5. \A g \in Handlers : pc'[g] \in Locked <=> submission' = g
    BY <2>2, <2>3
  <2>6. \A g \in Handlers : pc'[g] = "session" <=> flashLock' = g
    BY <2>2, <2>4
  <2>7. main' \in {"verify", "flash"} <=> flashLock' = Main
    BY <2>1, <2>4
  <2> QED BY <2>5, <2>6, <2>7
<1>2. ASSUME Tick \/ Expire \/ RequestStop \/ MainStep \/ TakeFlashLock \/ Report
               \/ CloseAdmission \/ Terminated
      PROVE  Locking'
  <2>1. UNCHANGED <<pc, submission>>
    BY <1>2 DEF MainStep, Verified, Loop, Dequeue, GetTimeout, ClaimJob, FlashReturns,
     Settle, DiscardImage, DrainQueue, ClearRegistry, UnlinkDoomed, TakeFlashLock,
     Report, CloseAdmission, Tick, Expire, RequestStop, Terminated, vars, threadVars,
     lockVars
  <2>2. \/ flashLock' = flashLock
           /\ (main \in {"verify", "flash"} <=> main' \in {"verify", "flash"})
        \/ flashLock = None /\ flashLock' = Main /\ main' \in {"verify", "flash"}
        \/ /\ flashLock' = None
           /\ main \in {"verify", "flash"} /\ main' \notin {"verify", "flash"}
    BY <1>2 DEF MainStep, Verified, Loop, Dequeue, GetTimeout, ClaimJob, FlashReturns,
     Settle, DiscardImage, DrainQueue, ClearRegistry, UnlinkDoomed, TakeFlashLock,
     Report, CloseAdmission, Tick, Expire, RequestStop, Terminated, vars, MainGoto,
     mainVars, lockVars
  <2> QED BY <2>1, <2>2
<1> QED BY <1>1, <1>2 DEF Next

LEMMA AdmissionStep ==
  ASSUME TypeOK, Uploading, Ownership, Locking, Admission, Next PROVE Admission'
<1> USE DEF Admission
<1>1. ASSUME NEW h \in Handlers, Arrive(h) \/ HandlerStep(h) PROVE Admission'
  <2>1. UNCHANGED <<main, accepting>>
    BY <1>1 DEF Arrive, HandlerStep, Enter, Admit, CheckIdle, Leave, Refused,
     WriteUpload, Parse, StageUpload, UnlinkReplaced, Cleanup, ClaimArtifact,
     SubmitArtifact, ReleaseArtifact, ConsumeArtifact, BeginSession, EndSession,
     mainVars, gateVars
  <2>2. ASSUME NEW g \in Handlers, g # h PROVE pc'[g] = pc[g]
    BY <1>1, <2>2 DEF TypeOK, ThreadTypeOK, Arrive, HandlerStep, Enter, Admit, CheckIdle, Leave, Refused,
     WriteUpload, Parse, StageUpload, UnlinkReplaced, Cleanup, ClaimArtifact,
     SubmitArtifact, ReleaseArtifact, ConsumeArtifact, BeginSession, EndSession,
     Goto, Answer
  <2>3. pc'[h] \in Admitted => pc[h] \in Admitted \/ accepting
    BY <1>1 DEF TypeOK, ThreadTypeOK, Arrive, HandlerStep, Enter, Admit, CheckIdle, Leave, Refused,
     WriteUpload, Parse, StageUpload, UnlinkReplaced, Cleanup, ClaimArtifact,
     SubmitArtifact, ReleaseArtifact, ConsumeArtifact, BeginSession, EndSession,
     Goto, Answer, At, Admitted, Locked
  <2>4. pc'[h] \in {"flashLock", "session", "stage"} =>
          UNCHANGED ctlVars /\ (pc[h] \in {"flashLock", "session", "stage"} \/ ~Busy)
    BY <1>1 DEF TypeOK, ThreadTypeOK, Arrive, HandlerStep, Enter, Admit, CheckIdle, Leave, Refused,
     WriteUpload, Parse, StageUpload, UnlinkReplaced, Cleanup, ClaimArtifact,
     SubmitArtifact, ReleaseArtifact, ConsumeArtifact, BeginSession, EndSession,
     Goto, Answer, At
  <2>5. \/ UNCHANGED ctlVars
        \/ pc[h] = "submit" 
    BY <1>1 DEF Arrive, HandlerStep, Enter, Admit, CheckIdle, Leave, Refused,
     WriteUpload, Parse, StageUpload, UnlinkReplaced, Cleanup, ClaimArtifact,
     SubmitArtifact, ReleaseArtifact, ConsumeArtifact, BeginSession, EndSession, At
  <2>6. staged' \subseteq staged \/ pc[h] = "stage"
    BY <1>1 DEF Arrive, HandlerStep, Enter, Admit, CheckIdle, Leave, Refused,
     WriteUpload, Parse, StageUpload, UnlinkReplaced, Cleanup, ClaimArtifact,
     SubmitArtifact, ReleaseArtifact, ConsumeArtifact, BeginSession, EndSession, At,
     regVars, CreateFile, NoteManual, Unlink, Claim, RemoveExpired, ReleaseClaim,
     Consume
  <2>7. \A g \in Handlers : pc'[g] \in Admitted => main' \notin Closed
    BY <2>1, <2>2, <2>3
  <2>8. \A g \in Handlers : pc'[g] \in {"flashLock", "session", "stage"} => ~Busy'
    <3>1. CASE UNCHANGED ctlVars
      BY <2>2, <2>4, <3>1 DEF ctlVars, Busy
    <3>2. CASE pc[h] = "submit"
      <4>1. ASSUME NEW g \in Handlers, g # h
            PROVE  pc'[g] \notin {"flashLock", "session", "stage"}
        BY <2>2, <3>2, <4>1 DEF Locking, Locked
      <4> QED BY <2>4, <4>1, <3>2 DEF ctlVars, Busy
    <3> QED BY <2>5, <3>1, <3>2
  <2>9. main' \in Closed \ {"serverStop", "drain"} => queue' = <<>>
    BY <2>1, <2>5 DEF ctlVars, Admitted, Locked
  <2>10. main' \in {"unlinkCleared", "exited"} => staged' = {}
    BY <2>1, <2>6 DEF Admitted, Locked, Closed
  <2> QED BY <2>1, <2>7, <2>8, <2>9, <2>10
<1>2. ASSUME Tick \/ Expire \/ RequestStop \/ MainStep \/ TakeFlashLock \/ Report
               \/ CloseAdmission \/ Terminated
      PROVE  Admission'
  <2>1. UNCHANGED pc
    BY <1>2 DEF MainStep, Verified, Loop, Dequeue, GetTimeout, ClaimJob, FlashReturns,
     Settle, DiscardImage, DrainQueue, ClearRegistry, UnlinkDoomed, TakeFlashLock,
     Report, CloseAdmission, Tick, Expire, RequestStop, Terminated, vars, threadVars
  <2>2. \/ main' \in Closed => main \in Closed /\ accepting' = accepting
        \/ submission = None /\ ~accepting'
    BY <1>2 DEF MainStep, Verified, Loop, Dequeue, GetTimeout, ClaimJob, FlashReturns,
     Settle, DiscardImage, DrainQueue, ClearRegistry, UnlinkDoomed, TakeFlashLock,
     Report, CloseAdmission, Tick, Expire, RequestStop, Terminated, vars, mainVars,
     gateVars, MainGoto, Closed
  <2>3. main' \in Closed => ~accepting'
    BY <2>2
  <2>4. \A h \in Handlers : pc'[h] \in Admitted => main' \notin Closed
    BY <2>1, <2>2, MainAssumption DEF Locking, Admitted
  <2>5. Busy' => Busy
    BY <1>2 DEF MainStep, Verified, Loop, Dequeue, Get, GetTimeout, ClaimJob,
     ClaimRefused, ClaimForRun, Claimable, DiscardQueued, FlashReturns, Settle,
     Complete, Fail, DiscardImage, DrainQueue, Drain, ClearRegistry, UnlinkDoomed,
     TakeFlashLock, Report, ReportProgress, CloseAdmission, Tick, Expire, RequestStop,
     Terminated, vars, ctlVars, Busy
  <2>6. main' \in Closed \ {"serverStop", "drain"} => queue' = <<>>
    BY <1>2 DEF MainStep, Verified, Loop, Dequeue, Get, GetTimeout, ClaimJob,
     ClaimRefused, ClaimForRun, FlashReturns, Settle, Complete, Fail,
     DiscardImage, DrainQueue, Drain, ClearRegistry, UnlinkDoomed,
     TakeFlashLock, Report, ReportProgress, CloseAdmission, Tick, Expire, RequestStop,
     Terminated, vars, ctlVars, mainVars, MainGoto, Closed
  <2>7. main' \in {"unlinkCleared", "exited"} => staged' = {}
    BY <1>2 DEF MainStep, Verified, Loop, Dequeue, GetTimeout, ClaimJob, FlashReturns,
     Settle, DiscardImage, Unlink, DrainQueue, ClearRegistry, ClearEntries, UnlinkDoomed,
     TakeFlashLock, Report, CloseAdmission, Tick, Age, Expire, RemoveExpired,
     RequestStop, Terminated, vars, regVars, mainVars, MainGoto
  <2> QED BY <2>1, <2>3, <2>4, <2>5, <2>6, <2>7
<1> QED BY <1>1, <1>2 DEF Next

----------------------------------------------------------------------------
(* What a step leaves alone.                                               *)

\* A step of a request thread leaves the other threads where they are.
LEMMA HandlerFrame ==
  ASSUME TypeOK, NEW h \in Handlers, Arrive(h) \/ HandlerStep(h)
  PROVE  /\ UNCHANGED <<main, job, stopping, accepting>>
         /\ \A g \in Handlers : g # h => pc'[g] = pc[g] /\ request'[g] = request[g] /\ upload'[g] = upload[g]
         /\ \A t \in Threads : t # h => doomed'[t] = doomed[t]
         /\ written \subseteq written'
<1>1. UNCHANGED <<main, job, stopping, accepting>>
  BY DEF Arrive, HandlerStep, Enter, Admit, CheckIdle, Leave, Refused, WriteUpload,
       Parse, StageUpload, UnlinkReplaced, Cleanup, ClaimArtifact, SubmitArtifact,
       ReleaseArtifact, ConsumeArtifact, BeginSession, EndSession, mainVars, gateVars
<1>2. \A g \in Handlers : g # h => pc'[g] = pc[g] /\ request'[g] = request[g] /\ upload'[g] = upload[g]
  BY DEF TypeOK, ThreadTypeOK, Arrive, HandlerStep, Enter, Admit, CheckIdle, Leave,
       Refused, WriteUpload, Parse, StageUpload, UnlinkReplaced, Cleanup, ClaimArtifact,
       SubmitArtifact, ReleaseArtifact, ConsumeArtifact, BeginSession, EndSession, Goto,
       Answer
<1>3. \A t \in Threads : t # h => doomed'[t] = doomed[t]
  BY DEF TypeOK, ThreadTypeOK, Threads, Arrive, HandlerStep, Enter, Admit, CheckIdle,
       Leave, Refused, WriteUpload, Parse, StageUpload, UnlinkReplaced, Cleanup,
       ClaimArtifact, SubmitArtifact, ReleaseArtifact, ConsumeArtifact, BeginSession,
       EndSession
<1>4. written \subseteq written'
  BY DEF Arrive, HandlerStep, Enter, Admit, CheckIdle, Leave, Refused, WriteUpload,
       Parse, StageUpload, UnlinkReplaced, Cleanup, ClaimArtifact, SubmitArtifact,
       ReleaseArtifact, ConsumeArtifact, BeginSession, EndSession, regVars, CreateFile,
       NoteManual, Unlink, Claim, Stage, RemoveExpired,
     ReleaseClaim, Consume
<1> QED BY <1>1, <1>2, <1>3, <1>4

\* Every other step leaves the request threads where they are.
OtherStep == Tick \/ Expire \/ RequestStop \/ MainStep \/ TakeFlashLock \/ Report
               \/ CloseAdmission \/ Terminated

LEMMA OtherFrame ==
  ASSUME TypeOK, OtherStep
  PROVE  /\ UNCHANGED <<pc, request, upload, written>>
         /\ \A h \in Handlers : doomed'[h] = doomed[h]
<1>1. UNCHANGED <<pc, request, upload>>
  BY DEF OtherStep, MainStep, Verified, Loop, Dequeue, GetTimeout, ClaimJob,
       FlashReturns, Settle, DiscardImage, DrainQueue, ClearRegistry, UnlinkDoomed,
       TakeFlashLock, Report, CloseAdmission, Tick, Expire, RequestStop, Terminated,
       vars, threadVars
<1>2. UNCHANGED written
  BY DEF OtherStep, MainStep, Verified, Loop, Dequeue, GetTimeout, ClaimJob,
       FlashReturns, Settle, DiscardImage, DrainQueue, ClearRegistry, UnlinkDoomed,
       TakeFlashLock, Report, CloseAdmission, Tick, Expire, RequestStop, Terminated,
       vars, regVars, Age, RemoveExpired, Unlink, ClearEntries
<1>3. \A h \in Handlers : doomed'[h] = doomed[h]
  BY MainAssumption DEF OtherStep, MainStep, Verified, Loop, Dequeue, GetTimeout,
       ClaimJob, FlashReturns, Settle, DiscardImage, DrainQueue, ClearRegistry,
       UnlinkDoomed, TakeFlashLock, Report, CloseAdmission, Tick, Expire, RequestStop,
       Terminated, vars, threadVars, TypeOK, ThreadTypeOK, Threads
<1> QED BY <1>1, <1>2, <1>3

LEMMA RolesStep ==
  ASSUME TypeOK, Roles, Next PROVE Roles'
<1> USE DEF Roles
<1>1. ASSUME NEW h \in Handlers, Arrive(h) \/ HandlerStep(h) PROVE Roles'
  <2>1. ASSUME NEW g \in Handlers, g # h PROVE RoleOK(g)'
    BY <1>1, <2>1, HandlerFrame DEF RoleOK
  <2>2. RoleOK(h)'
    <3> USE NoneAssumption, RequestsAssumption DEF RoleOK, TypeOK, ThreadTypeOK, At,
    Goto, Answer, Requests
    <3>1. CASE Arrive(h)
      BY <3>1 DEF Arrive, Announced, regVars
    <3>2. CASE WriteUpload(h)
      BY <3>2 DEF WriteUpload, CreateFile
    <3>3. ASSUME \/ Enter(h) \/ Admit(h) \/ CheckIdle(h) \/ Leave(h) \/ Refused(h) \/ SubmitArtifact(h)
                 \/ BeginSession(h) \/ EndSession(h)
          PROVE RoleOK(h)'
      BY <3>3 DEF Enter, Admit, CheckIdle, Leave, Refused, SubmitArtifact, BeginSession,
           EndSession, regVars
    <3>4. ASSUME \/ Parse(h) \/ StageUpload(h) \/ UnlinkReplaced(h) \/ Cleanup(h) \/ ClaimArtifact(h)
                 \/ ReleaseArtifact(h) \/ ConsumeArtifact(h)
          PROVE RoleOK(h)'
      BY <3>4 DEF Parse, StageUpload, UnlinkReplaced, Cleanup, ClaimArtifact,
           ReleaseArtifact, ConsumeArtifact,
         regVars, NoteManual, Unlink, Claim, Stage, RemoveExpired, ReleaseClaim, Consume
    <3> QED BY <1>1, <3>1, <3>2, <3>3, <3>4 DEF HandlerStep
  <2> QED BY <2>1, <2>2
<1>2. CASE OtherStep
  BY <1>2, OtherFrame DEF RoleOK
<1> QED BY <1>1, <1>2 DEF Next, OtherStep

LEMMA AloneStep ==
  ASSUME TypeOK, Roles, Alone, Next PROVE Alone'
<1> USE DEF Alone
<1>1. ASSUME NEW h \in Handlers, Arrive(h) \/ HandlerStep(h) PROVE Alone'
  <2> USE NoneAssumption DEF TypeOK, ThreadTypeOK, At, Goto, Answer
  <2>1. CASE Arrive(h)
    <3>1. request[h] = None /\ upload[h] = None
      BY <2>1 DEF Arrive, Roles, RoleOK
    <3>2. \/ upload' = upload /\ request'[h] \in Requests
          \/ /\ request'[h] = "flash"
             /\ \A g \in Handlers : request[g] = "validate" => upload[g] # upload'[h]
      BY <2>1 DEF Arrive, Announced, Requests
    <3> QED BY <1>1, <3>1, <3>2, HandlerFrame
  <2>2. CASE WriteUpload(h)
    <3>1. upload'[h] \in Artifacts \ written /\ request' = request
      BY <2>2 DEF WriteUpload, CreateFile
    <3>2. \A g \in Handlers : upload[g] \in written \cup {None}
      BY DEF Roles, RoleOK
    <3> QED BY <1>1, <3>1, <3>2, HandlerFrame
  <2>3. ASSUME HandlerStep(h), ~WriteUpload(h)
        PROVE  \/ upload'[h] = upload[h] /\ request'[h] = request[h]
               \/ upload'[h] = None /\ request'[h] = None
    BY <2>3 DEF HandlerStep, Enter, Admit, CheckIdle, Leave, Refused, WriteUpload, Parse,
         StageUpload, UnlinkReplaced, Cleanup, ClaimArtifact, SubmitArtifact,
         ReleaseArtifact, ConsumeArtifact, BeginSession, EndSession
  <2> QED BY <1>1, <2>1, <2>2, <2>3, HandlerFrame
<1>2. CASE OtherStep
  BY <1>2, OtherFrame
<1> QED BY <1>1, <1>2 DEF Next, OtherStep

----------------------------------------------------------------------------
(* Claims on entries of the registry.                                      *)

\* The admission lock has one holder.
LEMMA OneInside ==
  ASSUME Locking, NEW g \in Handlers, NEW h \in Handlers, pc[g] \in Locked, pc[h] \in Locked
  PROVE  g = h
  BY DEF Locking

LEMMA OtherStepsRest ==
  ASSUME OtherStep
  PROVE  /\ Busy' => Busy
         /\ \/ staged' \subseteq staged /\ claimed' = claimed
            \/ staged' = {} /\ claimed' = {} /\ main = "clear"
<1>1. Busy' => Busy
  BY DEF OtherStep, MainStep, Verified, Loop, Dequeue, GetTimeout, ClaimJob,
       FlashReturns, Settle, DiscardImage, DrainQueue, ClearRegistry, UnlinkDoomed,
       TakeFlashLock, Report, CloseAdmission, Tick, Expire, RequestStop, Terminated, Get,
       ClaimRefused, ClaimForRun, Claimable, DiscardQueued,
     Complete, Fail, Drain, ReportProgress, vars, ctlVars, Busy
<1>2. \/ staged' \subseteq staged /\ claimed' = claimed
      \/ staged' = {} /\ claimed' = {} /\ main = "clear"
  BY DEF OtherStep, MainStep, Verified, Loop, Dequeue, GetTimeout, ClaimJob,
       FlashReturns, Settle, DiscardImage, DrainQueue, ClearRegistry, UnlinkDoomed,
       TakeFlashLock, Report, CloseAdmission, Tick, Expire, RequestStop, Terminated,
       vars, regVars, Age, RemoveExpired, Unlink, ClearEntries, MainGoto
<1> QED BY <1>1, <1>2

LEMMA ClaimsStep ==
  ASSUME TypeOK, Uploading, Locking, Admission, Claims, Next PROVE Claims'
<1> USE DEF Claims, ClaimPcs
<1>1. ASSUME NEW h \in Handlers, Arrive(h) \/ HandlerStep(h) PROVE Claims'
  <2> USE DEF At, Goto, Answer
  <2>0. /\ \A g \in Handlers : g # h => pc'[g] = pc[g] /\ upload'[g] = upload[g]
        /\ pc[h] \in Locked => \A g \in Handlers : g # h => pc[g] \notin ClaimPcs
    BY <1>1, HandlerFrame, OneInside DEF Locked
  <2>1. ASSUME \/ Arrive(h) \/ Enter(h) \/ Admit(h) \/ CheckIdle(h) \/ Leave(h) \/ Refused(h)
               \/ WriteUpload(h) \/ Parse(h) \/ UnlinkReplaced(h) \/ Cleanup(h)
               \/ BeginSession(h) \/ EndSession(h)
        PROVE  Claims'
    <3>1. UNCHANGED <<staged, claimed, status>>
      BY <2>1 DEF Arrive, Enter, Admit, CheckIdle, Leave, Refused, WriteUpload, Parse,
         UnlinkReplaced, Cleanup, BeginSession, EndSession, regVars, ctlVars, CreateFile,
         NoteManual, Unlink
    <3>2. pc[h] \notin ClaimPcs /\ pc'[h] \notin ClaimPcs
      BY <2>1 DEF Arrive, Enter, Admit, CheckIdle, Leave, Refused, WriteUpload, Parse,
         UnlinkReplaced, Cleanup, BeginSession, EndSession, TypeOK, ThreadTypeOK
    <3> QED BY <2>0, <3>1, <3>2 DEF Busy
  <2>2. CASE StageUpload(h)
    <3>1. /\ pc[h] = "stage" /\ pc'[h] \in {"refused", "unlinkReplaced"} /\ status' = status
          /\ \/ staged' \subseteq staged /\ claimed' = claimed
             \/ staged' = {upload[h]} /\ claimed = {} /\ claimed' = {}
      BY <2>2 DEF StageUpload, Stage, StageRefused, RemoveExpired, ctlVars, TypeOK,
           ThreadTypeOK
    <3>2. ~Busy
      BY <3>1 DEF Admission
    <3> QED BY <2>0, <3>1, <3>2 DEF Busy, Locked
  <2>3. CASE ClaimArtifact(h)
    <3>1. /\ pc[h] = "claim" /\ status' = status /\ upload'[h] = upload[h] /\ staged' \subseteq staged
          /\ \/ /\ pc'[h] = "submit" /\ claimed' = claimed \cup {upload[h]}
                /\ upload[h] \in staged \ claimed
             \/ pc'[h] = "refused" /\ claimed' = claimed
      BY <2>3 DEF ClaimArtifact, Claim, ClaimableEntry, RemoveExpired, ctlVars, TypeOK,
           ThreadTypeOK
    <3> QED BY <2>0, <3>1 DEF Busy, Locked
  <2>4. CASE SubmitArtifact(h)
    <3>1. /\ pc[h] = "submit" /\ UNCHANGED <<staged, claimed>> /\ upload'[h] = upload[h]
          /\ pc'[h] = "consume" \/ (pc'[h] = "release" /\ status' = status)
      BY <2>4 DEF SubmitArtifact, ctlVars, regVars, TypeOK, ThreadTypeOK
    <3>2. staged \ claimed = {}
      BY <3>1 DEF TypeOK, RegTypeOK
    <3> QED BY <2>0, <3>1, <3>2 DEF Busy, Locked
  <2>5. CASE ReleaseArtifact(h)
    <3>1. /\ pc[h] = "release" /\ pc'[h] = "refused" /\ staged' = staged /\ status' = status
          /\ claimed' = claimed \ {upload[h]}
      BY <2>5 DEF ReleaseArtifact, ReleaseClaim, ctlVars, TypeOK, ThreadTypeOK
    <3> QED BY <2>0, <3>1 DEF Busy, Locked
  <2>6. CASE ConsumeArtifact(h)
    <3>1. /\ pc[h] = "consume" /\ pc'[h] = "leave" /\ staged' = staged \ {upload[h]}
          /\ status' = status /\ claimed' = claimed \ {upload[h]}
      BY <2>6 DEF ConsumeArtifact, Consume, ctlVars, TypeOK, ThreadTypeOK
    <3> QED BY <2>0, <3>1 DEF Busy, Locked
  <2> QED BY <1>1, <2>1, <2>2, <2>3, <2>4, <2>5, <2>6 DEF HandlerStep
<1>2. CASE OtherStep
  <2>1. UNCHANGED <<pc, upload>> /\ (Busy' => Busy)
    BY <1>2, OtherFrame, OtherStepsRest
  <2>2. CASE staged' \subseteq staged /\ claimed' = claimed
    BY <2>1, <2>2
  <2>3. CASE staged' = {} /\ claimed' = {} /\ main = "clear"
    BY <2>1, <2>3 DEF Admission, Admitted, Locked, Closed
  <2> QED BY <1>2, <2>2, <2>3, OtherStepsRest
<1> QED BY <1>1, <1>2 DEF Next, OtherStep

----------------------------------------------------------------------------
(* Who owns which file.                                                    *)

\* A step that neither submits, takes, drops nor drains an operation leaves the
\* images of the accepted operations alone.
LEMMA SubmittedImage ==
  ASSUME CtlTypeOK, NEW u \in Artifacts, Submit(u)
  PROVE  QueuedImages = {} /\ QueuedImages' = {u}
<1>1. queue = <<>>
  BY DEF Submit, SubmitRefused, CtlTypeOK, QueueSize
<1>2. queue' = <<[id |-> issued + 1, artifact |-> u]>>
  BY <1>1 DEF Submit
<1>3. DOMAIN queue = {} /\ DOMAIN queue' = {1} /\ queue'[1].artifact = u
  BY <1>1, <1>2
<1> QED BY <1>3 DEF QueuedImages

LEMMA TakenImage ==
  ASSUME CtlTypeOK, Get
  PROVE  QueuedImages = {Head(queue).artifact} /\ QueuedImages' = {}
<1>1. queue # <<>> /\ queue \in Seq(Operations) /\ Len(queue) <= 1 /\ queue' = <<>>
  BY TakingEmpties DEF Get, CtlTypeOK, QueueSize
<1>2. Len(queue) \in Nat /\ Len(queue) # 0
  BY <1>1, EmptySeq
<1>3. DOMAIN queue = 1..Len(queue) /\ Head(queue) = queue[1] /\ DOMAIN queue' = {}
  BY <1>1
<1>4. DOMAIN queue = {1}
  BY <1>1, <1>2, <1>3
<1> QED BY <1>3, <1>4 DEF QueuedImages

LEMMA HandlerImages ==
  ASSUME TypeOK, Uploading, NEW h \in Handlers, Arrive(h) \/ HandlerStep(h)
  PROVE  /\ UNCHANGED JobImages
         /\ \/ UNCHANGED <<QueuedImages, PendingImages>> /\ pc'[h] # "consume"
            \/ /\ pc[h] = "submit" /\ pc'[h] = "consume" /\ Submit(upload[h])
               /\ QueuedImages = {} /\ QueuedImages' = {upload[h]}
               /\ PendingImages' = PendingImages \cup {upload[h]}
<1>1. UNCHANGED <<main, job>>
  BY HandlerFrame
<1>2. ASSUME ~(SubmitArtifact(h) /\ Submit(upload[h]))
      PROVE  UNCHANGED ctlVars /\ pc'[h] # "consume"
  BY <1>2 DEF TypeOK, ThreadTypeOK, Arrive, HandlerStep, Enter, Admit, CheckIdle, Leave,
       Refused, WriteUpload, Parse, StageUpload, UnlinkReplaced, Cleanup, ClaimArtifact,
       SubmitArtifact, ReleaseArtifact, ConsumeArtifact, BeginSession, EndSession, Goto,
       Answer
<1>3. CASE SubmitArtifact(h) /\ Submit(upload[h])
  <2>1. pc[h] = "submit" /\ upload[h] \in Artifacts
    BY <1>3 DEF SubmitArtifact, At, Uploading
  <2>2. pc'[h] = "consume"
    BY <1>3 DEF SubmitArtifact, Goto, TypeOK, ThreadTypeOK, Submit, ctlVars
  <2>3. QueuedImages = {} /\ QueuedImages' = {upload[h]}
    BY <1>3, <2>1, SubmittedImage DEF TypeOK
  <2> QED BY <1>1, <1>3, <2>1, <2>2, <2>3 DEF JobImages, PendingImages, QueuedImages
<1> QED BY <1>1, <1>2, <1>3 DEF JobImages, QueuedImages, PendingImages, ctlVars

LEMMA OtherImages ==
  ASSUME TypeOK, OtherStep
  PROVE  /\ PendingImages' \subseteq PendingImages
         /\ \/ UNCHANGED <<QueuedImages, JobImages>>
            \/ /\ Dequeue
               /\ JobImages = {} /\ JobImages' = QueuedImages /\ QueuedImages' = {}
            \/ DiscardImage /\ JobImages' = {} /\ UNCHANGED QueuedImages
            \/ DrainQueue /\ QueuedImages' = {} /\ UNCHANGED JobImages
<1> USE DEF MainGoto
<1>1. CASE Dequeue
  <2>1. main = "get" /\ main' = "claim" /\ job' = Head(queue)
    BY <1>1 DEF Dequeue
  <2>2. QueuedImages = {Head(queue).artifact} /\ QueuedImages' = {}
    BY <1>1, TakenImage DEF Dequeue, TypeOK
  <2> QED BY <1>1, <2>1, <2>2 DEF JobImages, HoldsJob, PendingImages, QueuedImages
<1>2. CASE DiscardImage
  BY <1>2 DEF DiscardImage, JobImages, HoldsJob, PendingImages, QueuedImages, ctlVars
<1>3. CASE DrainQueue
  <2>1. queue' = <<>> /\ main = "drain" /\ main' = "unlinkDrained" /\ job' = job
    BY <1>3 DEF DrainQueue, Drain
  <2> QED BY <1>3, <2>1 DEF JobImages, HoldsJob, PendingImages, QueuedImages
<1>4. ASSUME ~Dequeue, ~DiscardImage, ~DrainQueue
      PROVE  /\ UNCHANGED queue
             /\ job' = job
             /\ main \in HoldsJob <=> main' \in HoldsJob
             /\ main' \in {"claim", "flashLock", "flash", "settle"} =>
                    main \in {"claim", "flashLock", "flash", "settle"}
  BY <1>4 DEF OtherStep, MainStep, Verified, Loop, Dequeue, GetTimeout, ClaimJob,
       FlashReturns, Settle, DiscardImage, DrainQueue, ClearRegistry, UnlinkDoomed,
       TakeFlashLock, Report, CloseAdmission, Tick, Expire, RequestStop, Terminated,
       ClaimRefused, ClaimForRun, Complete, Fail, ReportProgress, vars,
     ctlVars, mainVars, HoldsJob
<1> QED BY <1>1, <1>2, <1>3, <1>4 DEF JobImages, PendingImages, QueuedImages

LEMMA PendingAreHeld == PendingImages \subseteq HeldImages
  BY DEF PendingImages, HeldImages, QueuedImages, JobImages, HoldsJob

\* The sweep takes only entries whose file nobody else needs.
LEMMA SweptAreFree ==
  ASSUME Claims, Custody
  PROVE  \A u \in staged \ claimed : ~Submitted(u) /\ u \notin HeldImages
  BY DEF Claims, ClaimPcs, Custody, Submitted

\* Sweeping, by whoever looks at the registry.
LEMMA SweepCustody ==
  ASSUME Claims, Custody, UNCHANGED <<QueuedImages, JobImages>>,
         PendingImages' \subseteq PendingImages,
         staged' = staged \ Removable, files' = files \ Removable, written' = written,
         \A t \in Threads : doomed'[t] = doomed[t],
         \A u : Submitted(u)' <=> Submitted(u),
         \A h \in Handlers : Receiving(h)' => Receiving(h) /\ upload'[h] = upload[h]
  PROVE  Custody'
<1>1. HeldImages' = HeldImages
  BY DEF HeldImages
<1>2. \A u \in Removable : u \in staged /\ u \notin HeldImages
  BY SweptAreFree DEF Removable
<1> QED BY <1>1, <1>2, PendingAreHeld DEF Custody

LEMMA CustodyHandlerStep ==
  ASSUME TypeOK, Uploading, Locking, Admission, Roles, Alone, Claims, Custody,
         NEW h \in Handlers, Arrive(h) \/ HandlerStep(h)
  PROVE  Custody'
<1> USE NoneAssumption, RequestsAssumption DEF At, Goto, Answer
<1>t. pc \in [Handlers -> HandlerPcs] /\ upload \in [Handlers -> Artifacts \cup {None}]
      /\ request \in [Handlers -> Requests \cup {None}] /\ doomed \in [Threads -> SUBSET Artifacts]
  BY DEF TypeOK, ThreadTypeOK
<1>0. /\ \A g \in Handlers : g # h => pc'[g] = pc[g] /\ upload'[g] = upload[g]
                                      /\ request'[g] = request[g]
      /\ \A t \in Threads : t # h => doomed'[t] = doomed[t]
      /\ pc[h] \in Locked => \A g \in Handlers : g # h => pc[g] # "consume"
      /\ h \in Threads /\ written \subseteq written' /\ UNCHANGED JobImages
  BY HandlerFrame, HandlerImages, OneInside DEF Locked, Threads
\* Steps that move no file and no entry.
<1>1. ASSUME \/ Arrive(h) \/ Enter(h) \/ Admit(h) \/ CheckIdle(h) \/ Leave(h) \/ Refused(h)
             \/ Parse(h) \/ BeginSession(h) \/ EndSession(h) \/ ReleaseArtifact(h)
             \/ (SubmitArtifact(h) /\ pc'[h] # "consume")
      PROVE  Custody'
  <2>1. UNCHANGED <<staged, files, written, doomed>>
    BY <1>1 DEF Arrive, Enter, Admit, CheckIdle, Leave, Refused, Parse, BeginSession,
         EndSession,
       ReleaseArtifact, ReleaseClaim, SubmitArtifact, NoteManual, regVars
  <2>2. pc[h] # "consume" /\ pc'[h] # "consume"
    BY <1>1, <1>t DEF Arrive, Enter, Admit, CheckIdle, Leave, Refused, Parse, BeginSession,
       EndSession, ReleaseArtifact, SubmitArtifact
  <2>3. Receiving(h)' => Receiving(h) /\ upload'[h] = upload[h]
    <3>1. CASE Arrive(h)
      BY <3>1, <1>t DEF Arrive, Receiving, Roles, RoleOK
    <3>2. CASE ~Arrive(h)
      BY <1>1, <3>2, <1>t DEF Enter, Admit, CheckIdle, Leave, Refused, Parse, BeginSession,
         EndSession, ReleaseArtifact, SubmitArtifact, Receiving
    <3> QED BY <3>1, <3>2
  <2>4. UNCHANGED <<QueuedImages, PendingImages, HeldImages>>
    BY <1>0, <2>2, HandlerImages DEF HeldImages
  <2>5. \A u : Submitted(u)' <=> Submitted(u)
    BY <1>0, <2>2 DEF Submitted
  <2>6. \A g \in Handlers : Receiving(g)' => Receiving(g) /\ upload'[g] = upload[g]
    BY <1>0, <2>3 DEF Receiving
  <2> QED BY <1>0, <2>1, <2>4, <2>5, <2>6 DEF Custody
<1>2. CASE WriteUpload(h)
  <2>1. /\ upload'[h] \in Artifacts \ written /\ files' = files \cup {upload'[h]}
        /\ written' = written \cup {upload'[h]} /\ UNCHANGED <<staged, doomed>>
        /\ pc[h] = "write" /\ pc'[h] = "parse"
    BY <1>2, <1>t DEF WriteUpload, CreateFile
  <2>2. UNCHANGED <<QueuedImages, PendingImages, HeldImages>>
    BY <1>0, <2>1, HandlerImages DEF HeldImages
  <2>3. \A u : Submitted(u)' <=> Submitted(u)
    BY <1>0, <2>1 DEF Submitted
  <2>4. \A g \in Handlers : Receiving(g)' => g = h \/ (Receiving(g) /\ upload'[g] = upload[g])
    BY <1>0 DEF Receiving
  <2> QED BY <1>0, <2>1, <2>2, <2>3, <2>4 DEF Custody
<1>3. ASSUME \/ StageUpload(h) /\ pc'[h] = "refused"
             \/ ClaimArtifact(h)
      PROVE  Custody'
  <2>1. /\ pc[h] \in {"stage", "claim"} /\ pc'[h] \in {"refused", "submit"}
        /\ staged' = staged \ Removable /\ files' = files \ Removable
        /\ UNCHANGED <<written, request, upload, doomed>>
    BY <1>3, <1>t DEF StageUpload, Stage, ClaimArtifact, Claim, RemoveExpired
  <2>2. UNCHANGED <<QueuedImages, PendingImages>>
    BY <2>1, HandlerImages
  <2>3. \A u : Submitted(u)' <=> Submitted(u)
    BY <1>0, <2>1 DEF Submitted
  <2>4. \A g \in Handlers : Receiving(g)' => Receiving(g) /\ upload'[g] = upload[g]
    BY <1>0, <2>1 DEF Receiving
  <2> QED BY <1>0, <2>1, <2>2, <2>3, <2>4, SweepCustody
<1>4. CASE StageUpload(h) /\ pc'[h] # "refused"
  <2>1. /\ pc[h] = "stage" /\ pc'[h] = "unlinkReplaced" /\ claimed = {}
        /\ staged' = {upload[h]} /\ files' = files \ Removable
        /\ UNCHANGED <<written, request, upload>>
        /\ doomed'[h] = staged \ Removable
    BY <1>4, <1>t, <1>0 DEF StageUpload, Stage, StageRefused, Replaced
  <2>2. UNCHANGED <<QueuedImages, PendingImages, HeldImages>>
    BY <1>0, <2>1, HandlerImages DEF HeldImages
  <2>3. \A u \in staged : u \notin HeldImages
    BY <2>1, SweptAreFree
  <2>4. Receiving(h)
    BY <2>1 DEF Receiving, Roles, RoleOK
  <2>5. upload[h] \in written /\ upload[h] \notin staged /\ Removable \subseteq staged
    BY <2>4 DEF Roles, RoleOK, Receiving, Custody, Removable
  <2>6. \A g \in Handlers : Receiving(g)' => Receiving(g) /\ upload'[g] = upload[g] /\ upload[g] # upload[h]
    BY <1>0, <2>1, <2>4 DEF Receiving, Alone
  <2>7. /\ (staged \cup HeldImages \subseteq written)'
        /\ (PendingImages \subseteq files)'
        /\ (QueuedImages \cap JobImages = {})'
    BY <1>0, <2>1, <2>2, <2>3, <2>5, PendingAreHeld DEF Custody
  <2>8. \A g \in Handlers : Receiving(g)' => upload'[g] \in files' \ (staged' \cup HeldImages')
    BY <2>1, <2>2, <2>5, <2>6 DEF Custody
  <2>9. \A u \in staged' : u \in files' \ HeldImages'
    BY <2>1, <2>2, <2>4, <2>5 DEF Custody
  <2>10. \A t \in Threads : doomed'[t] \subseteq written' \ (staged' \cup HeldImages')
    BY <1>0, <2>1, <2>2, <2>3, <2>4, <2>5 DEF Custody
  <2>11. \A t \in Threads : \A g \in Handlers : Receiving(g)' => upload'[g] \notin doomed'[t]
    BY <1>0, <2>1, <2>6 DEF Custody
  <2> QED BY <2>7, <2>8, <2>9, <2>10, <2>11 DEF Custody
<1>5. CASE UnlinkReplaced(h)
  <2>1. /\ pc[h] = "unlinkReplaced" /\ pc'[h] = "leave"
        /\ files' = files \ doomed[h] /\ doomed'[h] = {}
        /\ UNCHANGED <<written, staged, request, upload>>
    BY <1>5, <1>t, <1>0 DEF UnlinkReplaced, Unlink
  <2>2. UNCHANGED <<QueuedImages, PendingImages, HeldImages>>
    BY <1>0, <2>1, HandlerImages DEF HeldImages
  <2>3. \A u : Submitted(u)' <=> Submitted(u)
    BY <1>0, <2>1 DEF Submitted
  <2>4. \A g \in Handlers : Receiving(g)' => Receiving(g) /\ upload'[g] = upload[g]
    BY <1>0, <2>1 DEF Receiving
  <2> QED BY <1>0, <2>1, <2>2, <2>3, <2>4, PendingAreHeld DEF Custody
<1>6. CASE Cleanup(h)
  <2>1. /\ pc[h] = "cleanup" /\ pc'[h] = "ready" /\ request'[h] = None
        /\ files' = files \ {upload[h]}
        /\ UNCHANGED <<written, staged, doomed>>
    BY <1>6, <1>t DEF Cleanup, Unlink
  <2>2. UNCHANGED <<QueuedImages, PendingImages, HeldImages>>
    BY <1>0, <2>1, HandlerImages DEF HeldImages
  <2>3. \A u : Submitted(u)' <=> Submitted(u)
    BY <1>0, <2>1 DEF Submitted
  <2>4. Receiving(h)
    BY <2>1 DEF Receiving, Roles, RoleOK
  <2>5. \A g \in Handlers : Receiving(g)' => Receiving(g) /\ upload'[g] = upload[g] /\ upload[g] # upload[h]
    BY <1>0, <2>1, <2>4 DEF Receiving, Alone, Requests
  <2> QED BY <1>0, <2>1, <2>2, <2>3, <2>4, <2>5, PendingAreHeld DEF Custody
<1>7. CASE SubmitArtifact(h) /\ pc'[h] = "consume"
  <2>1. /\ pc[h] = "submit" /\ UNCHANGED <<written, staged, files, doomed, request, upload>>
    BY <1>7, <1>t DEF SubmitArtifact, regVars
  <2>2. /\ QueuedImages = {} /\ QueuedImages' = {upload[h]}
        /\ PendingImages' = PendingImages \cup {upload[h]}
    BY <1>7, HandlerImages
  <2>3. upload[h] \in staged
    BY <2>1 DEF Claims, ClaimPcs, TypeOK, RegTypeOK
  <2>4. ~Submitted(upload[h])
    BY <1>0, <2>1 DEF Submitted, Locked
  <2>5. upload[h] \in files \ HeldImages
    BY <2>3, <2>4 DEF Custody
  <2>6. \A u : Submitted(u)' <=> Submitted(u) \/ u = upload[h]
    BY <1>0, <1>7, <2>1 DEF Submitted
  <2>7. \A g \in Handlers : Receiving(g)' => Receiving(g)
    BY <1>0, <1>7, <2>1 DEF Receiving
  <2>8. HeldImages' = HeldImages \cup {upload[h]}
    BY <1>0, <2>2 DEF HeldImages
  <2>9. (QueuedImages \cap JobImages = {})'
    BY <1>0, <2>2, <2>5 DEF HeldImages
  <2> QED BY <1>0, <2>1, <2>2, <2>3, <2>5, <2>6, <2>7, <2>8, <2>9 DEF Custody
<1>8. CASE ConsumeArtifact(h)
  <2>1. /\ pc[h] = "consume" /\ pc'[h] = "leave" /\ staged' = staged \ {upload[h]}
        /\ UNCHANGED <<written, files, doomed, request, upload>>
    BY <1>8, <1>t DEF ConsumeArtifact, Consume
  <2>2. UNCHANGED <<QueuedImages, PendingImages, HeldImages>>
    BY <1>0, <2>1, HandlerImages DEF HeldImages
  <2>3. \A u : Submitted(u) <=> u = upload[h]
    BY <1>0, <2>1 DEF Submitted, Locked
  <2>4. \A g \in Handlers : Receiving(g)' => Receiving(g)
    BY <1>0, <2>1 DEF Receiving, Roles, RoleOK, Requests
  <2> QED BY <1>0, <2>1, <2>2, <2>3, <2>4 DEF Custody
<1> QED BY <1>1, <1>2, <1>3, <1>4, <1>5, <1>6, <1>7, <1>8 DEF HandlerStep

LEMMA CustodyOtherStep ==
  ASSUME TypeOK, Admission, Claims, Custody, OtherStep
  PROVE  Custody'
<1> USE DEF MainGoto
<1>t. doomed \in [Threads -> SUBSET Artifacts] /\ Main \in Threads
  BY DEF TypeOK, ThreadTypeOK, Threads
<1>0. /\ \A u : Submitted(u)' <=> Submitted(u)
      /\ \A h \in Handlers : Receiving(h)' => Receiving(h) /\ upload'[h] = upload[h]
      /\ \A h \in Handlers : doomed'[h] = doomed[h]
      /\ written' = written
      /\ PendingImages' \subseteq PendingImages
  BY OtherFrame, OtherImages DEF Submitted, Receiving
<1>1. CASE Expire
  <2>1. RemoveExpired /\ UNCHANGED <<queue, main, job, doomed>>
    BY <1>1 DEF Expire, ctlVars, mainVars, threadVars
  <2>2. UNCHANGED <<QueuedImages, JobImages>>
    BY <2>1 DEF QueuedImages, JobImages
  <2> QED BY <1>0, <2>1, <2>2, SweepCustody DEF RemoveExpired
<1>2. CASE DiscardImage
  <2>1. /\ main \in {"discard", "dropJob"} /\ main' \in {"loop", "closing"}
        /\ files' = files \ {job.artifact} /\ UNCHANGED <<staged, doomed, queue>>
    BY <1>2 DEF DiscardImage, Unlink, threadVars, ctlVars
  <2>2. JobImages = {job.artifact} /\ JobImages' = {} /\ QueuedImages' = QueuedImages
    BY <2>1 DEF JobImages, HoldsJob, QueuedImages
  <2>3. HeldImages' = HeldImages \ {job.artifact}
    BY <2>2 DEF HeldImages, Custody
  <2>4. PendingImages = QueuedImages
    BY <2>1 DEF PendingImages, QueuedImages
  <2> QED BY <1>0, <2>1, <2>2, <2>3, <2>4 DEF Custody, HeldImages
<1>3. CASE Dequeue
  <2>1. UNCHANGED <<staged, files, doomed>>
    BY <1>3 DEF Dequeue, regVars, threadVars
  <2>2. main = "get" /\ main' = "claim" /\ job' = Head(queue)
    BY <1>3 DEF Dequeue
  <2>3. JobImages = {} /\ JobImages' = QueuedImages /\ QueuedImages' = {}
    BY <1>3, <2>2, TakenImage DEF Dequeue, TypeOK, JobImages, HoldsJob
  <2>4. HeldImages' = HeldImages
    BY <2>3 DEF HeldImages
  <2> QED BY <1>0, <2>1, <2>3, <2>4 DEF Custody
<1>4. CASE DrainQueue
  <2>1. /\ main = "drain" /\ main' = "unlinkDrained" /\ queue' = <<>> /\ UNCHANGED <<staged, files>>
        /\ doomed'[Main] = QueuedImages
    BY <1>4, <1>t DEF DrainQueue, Drain, QueuedImages, regVars
  <2>2. JobImages = {} /\ JobImages' = {} /\ QueuedImages' = {}
    BY <2>1 DEF JobImages, HoldsJob, QueuedImages
  <2>3. \A u : ~Submitted(u)
    BY <2>1 DEF Submitted, Admission, Admitted, Locked, Closed
  <2> QED BY <1>0, <2>1, <2>2, <2>3, PendingAreHeld DEF Custody, HeldImages, Threads
<1>5. CASE ClearRegistry
  <2>1. /\ main = "clear" /\ staged' = {} /\ doomed'[Main] = staged
        /\ UNCHANGED <<queue, job, files>> /\ main' = "unlinkCleared"
    BY <1>5, <1>t DEF ClearRegistry, ClearEntries, ctlVars
  <2>2. UNCHANGED <<JobImages, QueuedImages, HeldImages>>
    BY <2>1 DEF JobImages, HoldsJob, QueuedImages, HeldImages
  <2>3. \A u : ~Submitted(u)
    BY <2>1 DEF Submitted, Admission, Admitted, Locked, Closed
  <2> QED BY <1>0, <2>1, <2>2, <2>3 DEF Custody, Threads
<1>6. CASE UnlinkDoomed
  <2>1. /\ files' = files \ doomed[Main] /\ doomed'[Main] = {} /\ UNCHANGED <<queue, job, staged>>
        /\ main \notin HoldsJob /\ main' \notin HoldsJob
    BY <1>6, <1>t DEF UnlinkDoomed, Unlink, ctlVars, HoldsJob
  <2>2. UNCHANGED <<JobImages, QueuedImages, HeldImages>>
    BY <2>1 DEF JobImages, QueuedImages, HeldImages
  <2> QED BY <1>0, <1>t, <2>1, <2>2, PendingAreHeld DEF Custody, Threads
<1>7. ASSUME ~Expire, ~DiscardImage, ~Dequeue, ~DrainQueue, ~ClearRegistry, ~UnlinkDoomed
      PROVE  Custody'
  <2>1. UNCHANGED <<staged, files, doomed>>
    BY <1>7 DEF OtherStep, MainStep, Verified, Loop, Dequeue, GetTimeout, ClaimJob,
         FlashReturns, Settle, DiscardImage, DrainQueue, ClearRegistry, UnlinkDoomed,
         TakeFlashLock, Report, CloseAdmission, Tick, Expire, RequestStop, Terminated,
         vars, regVars, threadVars, Age
  <2>2. UNCHANGED <<JobImages, QueuedImages, HeldImages>>
    BY <1>7, OtherImages DEF HeldImages
  <2> QED BY <1>0, <2>1, <2>2 DEF Custody
<1> QED BY <1>1, <1>2, <1>3, <1>4, <1>5, <1>6, <1>7

LEMMA CustodyStep ==
  ASSUME TypeOK, Uploading, Locking, Admission, Roles, Alone, Claims, Custody, Next
  PROVE  Custody'
  BY CustodyHandlerStep, CustodyOtherStep DEF Next, OtherStep

----------------------------------------------------------------------------
(* No file is forgotten.                                                   *)

\* Owned(u): somebody will unlink the file of u or pass it on.
Owned(u) ==
    \/ u \in staged \cup HeldImages
    \/ \E t \in Threads : u \in doomed[t]
    \/ \E h \in Handlers : request[h] = "validate" /\ upload[h] = u

LEMMA AccountedHandlerStep ==
  ASSUME TypeOK, Uploading, Locking, Admission, Roles, Alone, Claims, Custody, Accounted,
         NEW h \in Handlers, Arrive(h) \/ HandlerStep(h)
  PROVE  Accounted'
<1> USE NoneAssumption, RequestsAssumption, MainAssumption DEF At, Goto, Answer
<1>t. /\ pc \in [Handlers -> HandlerPcs] /\ upload \in [Handlers -> Artifacts \cup {None}]
      /\ request \in [Handlers -> Requests \cup {None}] /\ doomed \in [Threads -> SUBSET Artifacts]
      /\ files \subseteq Artifacts
  BY DEF TypeOK, ThreadTypeOK, RegTypeOK
<1>0. /\ \A g \in Handlers : g # h => pc'[g] = pc[g] /\ upload'[g] = upload[g]
                                      /\ request'[g] = request[g]
      /\ \A t \in Threads : t # h => doomed'[t] = doomed[t]
      /\ pc[h] \in Locked => \A g \in Handlers : g # h => pc[g] \notin Locked
      /\ h \in Threads /\ Main \in Threads /\ h # Main /\ main' = main
  BY HandlerFrame, OneInside DEF Threads
<1> DEFINE Rest(g) ==
    /\ doomed[g] # {} => pc[g] = "unlinkReplaced"
    /\ pc[g] \in {"unlinkReplaced", "leave"} /\ request[g] = "validate" /\ upload[g] \in files =>
           upload[g] \in staged
    /\ pc[g] = "consume" /\ upload[g] \in files => upload[g] \in HeldImages
<1>h. /\ \A g \in Handlers : Rest(g)
      /\ \A u \in files : Owned(u)
      /\ doomed[Main] # {} => main \in {"unlinkDrained", "unlinkCleared"}
  BY DEF Accounted, Owned
<1>q. ASSUME \A g \in Handlers : Rest(g)', \A u \in files' : Owned(u)'
      PROVE  Accounted'
  BY <1>0, <1>h, <1>q DEF Accounted, Owned
<1> HIDE DEF Rest
<1>1. ASSUME \/ Arrive(h) \/ Enter(h) \/ Admit(h) \/ CheckIdle(h) \/ Leave(h) \/ Refused(h)
             \/ Parse(h) \/ BeginSession(h) \/ EndSession(h) \/ ReleaseArtifact(h)
             \/ (SubmitArtifact(h) /\ pc'[h] # "consume")
      PROVE  Accounted'
  <2>1. UNCHANGED <<staged, files, written, doomed>>
    BY <1>1 DEF Arrive, Enter, Admit, CheckIdle, Leave, Refused, Parse, BeginSession,
         EndSession,
       ReleaseArtifact, ReleaseClaim, SubmitArtifact, NoteManual, regVars
  <2>2. pc'[h] # "consume" /\ pc[h] \notin {"consume", "unlinkReplaced"} /\ pc'[h] # "unlinkReplaced"
    BY <1>1, <1>t DEF Arrive, Enter, Admit, CheckIdle, Leave, Refused, Parse, BeginSession,
       EndSession, ReleaseArtifact, SubmitArtifact
  <2>3. pc'[h] = "leave" => request'[h] # "validate"
    BY <1>1, <1>t DEF Arrive, Enter, Admit, CheckIdle, Leave, Refused, Parse, BeginSession,
       EndSession, ReleaseArtifact, SubmitArtifact, Roles, RoleOK
  <2>4. UNCHANGED HeldImages
    BY <2>2, HandlerImages DEF HeldImages
  <2>5. request[h] = "validate" /\ upload[h] \in files =>
            \/ request'[h] = "validate" /\ upload'[h] = upload[h]
            \/ upload[h] \in staged
    <3>1. CASE Leave(h)
      BY <3>1, <1>h DEF Leave, Rest
    <3>2. CASE Refused(h)
      BY <3>2, <1>t DEF Refused
    <3>3. CASE Arrive(h)
      <4>1. request[h] = None
        BY <3>3 DEF Arrive, Roles, RoleOK
      <4> QED BY <4>1 DEF Requests
    <3>4. CASE ~Leave(h) /\ ~Refused(h) /\ ~Arrive(h)
      BY <1>1, <3>4 DEF Enter, Admit, CheckIdle, Parse, BeginSession,
       EndSession, ReleaseArtifact, SubmitArtifact
    <3> QED BY <3>1, <3>2, <3>3, <3>4
  <2>6. \A g \in Handlers : Rest(g)'
    BY <1>0, <1>h, <2>1, <2>2, <2>3, <2>4 DEF Rest
  <2>7. \A u \in files' : Owned(u)'
    BY <1>0, <1>h, <2>1, <2>4, <2>5 DEF Owned
  <2> QED BY <1>q, <2>6, <2>7
<1>2. CASE WriteUpload(h)
  <2>1. /\ upload'[h] \in Artifacts \ written /\ files' = files \cup {upload'[h]}
        /\ UNCHANGED <<staged, doomed, request>>
        /\ pc[h] = "write" /\ pc'[h] = "parse" /\ upload[h] = None /\ request[h] = "validate"
    BY <1>2, <1>t DEF WriteUpload, CreateFile, Roles, RoleOK
  <2>2. UNCHANGED HeldImages
    BY <2>1, HandlerImages DEF HeldImages
  <2>3. \A g \in Handlers : upload[g] \in written \cup {None}
    BY DEF Roles, RoleOK
  <2>4. \A g \in Handlers : Rest(g)'
    BY <1>0, <1>h, <2>1, <2>2, <2>3 DEF Rest
  <2>5. \A u \in files' : Owned(u)'
    BY <1>0, <1>t, <1>h, <2>1, <2>2 DEF Owned
  <2> QED BY <1>q, <2>4, <2>5
<1>3. ASSUME \/ StageUpload(h) /\ pc'[h] = "refused"
             \/ ClaimArtifact(h)
      PROVE  Accounted'
  <2>1. /\ pc[h] \in {"stage", "claim"} /\ pc'[h] \in {"refused", "submit"}
        /\ staged' = staged \ Removable /\ files' = files \ Removable
        /\ UNCHANGED <<request, upload, doomed>>
    BY <1>3, <1>t DEF StageUpload, Stage, ClaimArtifact, Claim, RemoveExpired
  <2>2. UNCHANGED HeldImages
    BY <2>1, HandlerImages DEF HeldImages
  <2>3. \A g \in Handlers : Rest(g)'
    BY <1>0, <1>h, <2>1, <2>2 DEF Rest
  <2>4. \A u \in files' : Owned(u)'
    BY <1>h, <2>1, <2>2 DEF Owned
  <2> QED BY <1>q, <2>3, <2>4
<1>4. CASE StageUpload(h) /\ pc'[h] # "refused"
  <2>1. /\ pc[h] = "stage" /\ pc'[h] = "unlinkReplaced"
        /\ staged' = {upload[h]} /\ files' = files \ Removable
        /\ UNCHANGED <<request, upload>>
        /\ doomed'[h] = staged \ Removable
    BY <1>4, <1>t, <1>0 DEF StageUpload, Stage, StageRefused, Replaced
  <2>2. UNCHANGED HeldImages
    BY <2>1, HandlerImages DEF HeldImages
  <2>3. doomed[h] = {} /\ request[h] = "validate" /\ upload[h] # None
    BY <1>h, <2>1 DEF Rest, Roles, RoleOK
  <2>4. \A g \in Handlers : g # h => pc[g] \notin Locked
    BY <1>0, <2>1 DEF Locked
  <2>5. ASSUME NEW g \in Handlers PROVE Rest(g)'
    <3>1. CASE g = h
      BY <2>1, <3>1 DEF Rest
    <3>2. CASE g # h
      <4>1. pc'[g] = pc[g] /\ doomed'[g] = doomed[g] /\ g \in Threads /\ pc[g] \notin Locked
        BY <1>0, <2>4, <3>2 DEF Threads
      <4>2. doomed[g] = {}
        BY <1>h, <4>1 DEF Rest, Locked
      <4> QED BY <4>1, <4>2 DEF Rest, Locked
    <3> QED BY <3>1, <3>2
  <2>6. \A u \in files' : Owned(u)'
    BY <1>0, <1>h, <2>1, <2>2, <2>3 DEF Owned
  <2> QED BY <1>q, <2>5, <2>6
<1>5. CASE UnlinkReplaced(h)
  <2>1. /\ pc[h] = "unlinkReplaced" /\ pc'[h] = "leave"
        /\ files' = files \ doomed[h] /\ doomed'[h] = {}
        /\ UNCHANGED <<staged, request, upload>>
    BY <1>5, <1>t, <1>0 DEF UnlinkReplaced, Unlink
  <2>2. UNCHANGED HeldImages
    BY <2>1, HandlerImages DEF HeldImages
  <2>3. ASSUME NEW g \in Handlers PROVE Rest(g)'
    <3>1. CASE g = h
      BY <1>h, <2>1, <3>1 DEF Rest
    <3>2. CASE g # h
      <4>1. /\ pc'[g] = pc[g] /\ doomed'[g] = doomed[g] /\ request'[g] = request[g]
            /\ upload'[g] = upload[g]
        BY <1>0, <3>2 DEF Threads
      <4> QED BY <1>h, <2>1, <2>2, <4>1 DEF Rest
    <3> QED BY <3>1, <3>2
  <2>4. \A u \in files' : Owned(u)'
    BY <1>0, <1>h, <2>1, <2>2 DEF Owned
  <2> QED BY <1>q, <2>3, <2>4
<1>6. CASE Cleanup(h)
  <2>1. /\ pc[h] = "cleanup" /\ pc'[h] = "ready"
        /\ files' = files \ {upload[h]}
        /\ UNCHANGED <<staged, doomed>>
    BY <1>6, <1>t DEF Cleanup, Unlink
  <2>2. UNCHANGED HeldImages
    BY <2>1, HandlerImages DEF HeldImages
  <2>3. \A g \in Handlers : Rest(g)'
    BY <1>0, <1>h, <2>1, <2>2 DEF Rest
  <2>4. \A u \in files' : Owned(u)'
    BY <1>0, <1>h, <2>1, <2>2 DEF Owned
  <2> QED BY <1>q, <2>3, <2>4
<1>7. CASE SubmitArtifact(h) /\ pc'[h] = "consume"
  <2>1. /\ pc[h] = "submit" /\ UNCHANGED <<staged, files, doomed, request, upload>>
    BY <1>7, <1>t DEF SubmitArtifact, regVars
  <2>2. HeldImages' = HeldImages \cup {upload[h]}
    BY <1>7, HandlerImages DEF HeldImages
  <2>3. \A g \in Handlers : Rest(g)'
    BY <1>0, <1>h, <1>7, <2>1, <2>2 DEF Rest
  <2>4. \A u \in files' : Owned(u)'
    BY <1>h, <2>1, <2>2 DEF Owned
  <2> QED BY <1>q, <2>3, <2>4
<1>8. CASE ConsumeArtifact(h)
  <2>1. /\ pc[h] = "consume" /\ pc'[h] = "leave" /\ staged' = staged \ {upload[h]}
        /\ UNCHANGED <<files, doomed, request, upload>> /\ request[h] = "flash"
    BY <1>8, <1>t DEF ConsumeArtifact, Consume, Roles, RoleOK
  <2>2. UNCHANGED HeldImages
    BY <2>1, HandlerImages DEF HeldImages
  <2>3. \A g \in Handlers : g # h => pc[g] \notin Locked
    BY <1>0, <2>1 DEF Locked
  <2>4. \A g \in Handlers : Rest(g)'
    BY <1>0, <1>h, <2>1, <2>2, <2>3 DEF Rest, Locked
  <2>5. \A u \in files' : Owned(u)'
    BY <1>h, <2>1, <2>2 DEF Owned, Rest
  <2> QED BY <1>q, <2>4, <2>5
<1> QED BY <1>1, <1>2, <1>3, <1>4, <1>5, <1>6, <1>7, <1>8 DEF HandlerStep

LEMMA AccountedOtherStep ==
  ASSUME TypeOK, Admission, Claims, Custody, Accounted, OtherStep
  PROVE  Accounted'
<1> USE DEF MainGoto
<1>t. doomed \in [Threads -> SUBSET Artifacts] /\ Main \in Threads
  BY DEF TypeOK, ThreadTypeOK, Threads
<1>0. /\ UNCHANGED <<pc, request, upload>>
      /\ \A h \in Handlers : doomed'[h] = doomed[h]
      /\ \A t \in Threads : t \in Handlers \/ t = Main
  BY OtherFrame DEF Threads
<1>m. ~UnlinkDoomed => main' = main \/ main \notin {"unlinkDrained", "unlinkCleared"}
  BY DEF OtherStep, MainStep, Verified, Loop, Dequeue, GetTimeout, ClaimJob,
       FlashReturns, Settle, DiscardImage, DrainQueue, ClearRegistry, UnlinkDoomed,
       TakeFlashLock, Report, CloseAdmission, Tick, Expire, RequestStop, Terminated,
       vars, mainVars, threadVars
<1>h. /\ \A u \in files : Owned(u)
      /\ doomed[Main] # {} => main \in {"unlinkDrained", "unlinkCleared"}
      /\ main \in Closed => \A h \in Handlers : pc[h] \notin {"unlinkReplaced", "leave", "consume"}
  BY DEF Accounted, Owned, Admission, Admitted, Locked
<1>1. CASE Expire
  <2>1. RemoveExpired /\ UNCHANGED <<queue, main, job, doomed>>
    BY <1>1 DEF Expire, ctlVars, mainVars, threadVars
  <2>2. UNCHANGED HeldImages
    BY <2>1 DEF HeldImages, QueuedImages, JobImages
  <2> QED BY <1>0, <2>1, <2>2 DEF Accounted, RemoveExpired
<1>2. CASE DiscardImage
  <2>1. /\ main \in {"discard", "dropJob"} /\ main' \in {"loop", "closing"}
        /\ files' = files \ {job.artifact} /\ UNCHANGED <<staged, doomed, queue>>
    BY <1>2 DEF DiscardImage, Unlink, threadVars, ctlVars
  <2>2. JobImages = {job.artifact} /\ JobImages' = {} /\ QueuedImages' = QueuedImages
    BY <2>1 DEF JobImages, HoldsJob, QueuedImages
  <2>3. HeldImages' = HeldImages \ {job.artifact}
    BY <2>2 DEF HeldImages, Custody
  <2> QED BY <1>0, <2>1, <2>3 DEF Accounted
<1>3. CASE Dequeue
  <2>1. UNCHANGED <<staged, files, doomed>> /\ main = "get"
    BY <1>3 DEF Dequeue, regVars, threadVars
  <2>2. HeldImages' = HeldImages
    BY <1>3, TakenImage DEF Dequeue, TypeOK, JobImages, HoldsJob, HeldImages
  <2> QED BY <1>0, <2>1, <2>2 DEF Accounted
<1>4. CASE DrainQueue
  <2>1. /\ main = "drain" /\ main' = "unlinkDrained" /\ queue' = <<>> /\ UNCHANGED <<staged, files>>
        /\ doomed'[Main] = QueuedImages
    BY <1>4, <1>t DEF DrainQueue, Drain, QueuedImages, regVars
  <2>2. HeldImages = QueuedImages /\ doomed[Main] = {}
    BY <1>h, <2>1 DEF HeldImages, JobImages, HoldsJob
  <2>3. \A h \in Handlers : pc[h] \notin {"unlinkReplaced", "leave", "consume"}
    BY <1>h, <2>1 DEF Closed
  <2>4. \A u \in files' : Owned(u)'
    BY <1>0, <1>h, <1>t, <2>1, <2>2 DEF Owned
  <2>5. \A h \in Handlers : doomed[h] = {}
    BY <2>3 DEF Accounted
  <2> QED BY <1>0, <2>1, <2>3, <2>4, <2>5 DEF Accounted, Owned
<1>5. CASE ClearRegistry
  <2>1. /\ main = "clear" /\ staged' = {} /\ doomed'[Main] = staged
        /\ UNCHANGED <<queue, job, files>> /\ main' = "unlinkCleared"
    BY <1>5, <1>t DEF ClearRegistry, ClearEntries, ctlVars
  <2>2. UNCHANGED HeldImages /\ doomed[Main] = {}
    BY <1>h, <2>1 DEF JobImages, HoldsJob, QueuedImages, HeldImages
  <2>3. \A h \in Handlers : pc[h] \notin {"unlinkReplaced", "leave", "consume"}
    BY <1>h, <2>1 DEF Closed
  <2>4. \A u \in files' : Owned(u)'
    BY <1>0, <1>h, <1>t, <2>1, <2>2 DEF Owned
  <2>5. \A h \in Handlers : doomed[h] = {}
    BY <2>3 DEF Accounted
  <2> QED BY <1>0, <2>1, <2>3, <2>4, <2>5 DEF Accounted, Owned
<1>6. CASE UnlinkDoomed
  <2>1. /\ files' = files \ doomed[Main] /\ doomed'[Main] = {} /\ UNCHANGED <<queue, job, staged>>
        /\ main \notin HoldsJob /\ main' \notin HoldsJob
    BY <1>6, <1>t DEF UnlinkDoomed, Unlink, ctlVars, HoldsJob
  <2>2. UNCHANGED HeldImages
    BY <2>1 DEF JobImages, QueuedImages, HeldImages
  <2>3. \A u \in files' : Owned(u)'
    BY <1>0, <1>h, <1>t, <2>1, <2>2 DEF Owned
  <2> QED BY <1>0, <2>1, <2>2, <2>3 DEF Accounted, Owned
<1>7. ASSUME ~Expire, ~DiscardImage, ~Dequeue, ~DrainQueue, ~ClearRegistry, ~UnlinkDoomed
      PROVE  Accounted'
  <2>1. UNCHANGED <<staged, files, doomed>>
    BY <1>7 DEF OtherStep, MainStep, Verified, Loop, Dequeue, GetTimeout, ClaimJob,
         FlashReturns, Settle, DiscardImage, DrainQueue, ClearRegistry, UnlinkDoomed,
         TakeFlashLock, Report, CloseAdmission, Tick, Expire, RequestStop, Terminated,
         vars, regVars, threadVars, Age
  <2>2. UNCHANGED HeldImages
    BY <1>7, OtherImages DEF HeldImages
  <2> QED BY <1>0, <1>7, <1>h, <1>m, <2>1, <2>2 DEF Accounted
<1> QED BY <1>1, <1>2, <1>3, <1>4, <1>5, <1>6, <1>7

LEMMA AccountedStep ==
  ASSUME TypeOK, Uploading, Locking, Admission, Roles, Alone, Claims, Custody, Accounted, Next
  PROVE  Accounted'
  BY AccountedHandlerStep, AccountedOtherStep DEF Next, OtherStep

----------------------------------------------------------------------------
(* Ids and the stop event.                                                 *)

\* The id of the visible operation changes only to a fresh one or to none.
LEMMA IdSteps ==
  ASSUME TypeOK, Next
  PROVE  \/ UNCHANGED <<operationId, issued>>
         \/ operationId' = NoOp /\ UNCHANGED issued /\ status = "queued"
         \/ operationId' = issued + 1 /\ issued' = issued + 1
<1>1. ASSUME NEW h \in Handlers, SubmitArtifact(h)
      PROVE  \/ UNCHANGED <<operationId, issued>>
             \/ operationId' = issued + 1 /\ issued' = issued + 1
  BY <1>1 DEF SubmitArtifact, Submit, ctlVars
<1>2. ASSUME NEW h \in Handlers, Arrive(h) \/ HandlerStep(h), ~SubmitArtifact(h)
      PROVE  UNCHANGED <<operationId, issued>>
  BY <1>2 DEF Arrive, HandlerStep, Enter, Admit, CheckIdle, Leave, Refused, WriteUpload,
       Parse, StageUpload, UnlinkReplaced, Cleanup, ClaimArtifact, SubmitArtifact,
       ReleaseArtifact, ConsumeArtifact, BeginSession, EndSession, ctlVars
<1>3. CASE OtherStep
  BY <1>3 DEF OtherStep, MainStep, Verified, Loop, Dequeue, GetTimeout, ClaimJob,
       FlashReturns, Settle, DiscardImage, DrainQueue, ClearRegistry, UnlinkDoomed,
       TakeFlashLock, Report, CloseAdmission, Tick, Expire, RequestStop, Terminated,
       vars, ctlVars, Get, ClaimRefused, Claimable, ClaimForRun, ReportProgress,
     Complete, Fail, Drain, DiscardQueued
<1> QED BY <1>1, <1>2, <1>3 DEF Next, OtherStep

LEMMA OrderlyStep ==
  ASSUME TypeOK, Orderly, Next PROVE Orderly'
<1>1. operationId' <= issued'
  BY IdSteps DEF Orderly, TypeOK, CtlTypeOK, NoOp, OperationIds
<1>2. ASSUME NEW h \in Handlers, Arrive(h) \/ HandlerStep(h) PROVE UNCHANGED <<main, stopping>>
  BY <1>2, HandlerFrame
<1>3. ASSUME OtherStep, main' \in {"dropJob", "closing"} \cup Closed PROVE stopping'
  <2>1. stopping => stopping'
    BY <1>3 DEF OtherStep, MainStep, Verified, Loop, Dequeue, GetTimeout, ClaimJob,
         FlashReturns, Settle, DiscardImage, DrainQueue, ClearRegistry, UnlinkDoomed,
         TakeFlashLock, Report, CloseAdmission, Tick, Expire, RequestStop, Terminated,
         vars, gateVars, TypeOK, ThreadTypeOK
  <2>2. main \in {"dropJob", "closing"} \cup Closed \/ stopping
    BY <1>3 DEF OtherStep, MainStep, Verified, Loop, Dequeue, GetTimeout, ClaimJob,
         FlashReturns, Settle, DiscardImage, DrainQueue, ClearRegistry, UnlinkDoomed,
         TakeFlashLock, Report, CloseAdmission, Tick, Expire, RequestStop, Terminated,
         MainGoto, vars, mainVars, threadVars, Closed
  <2> QED BY <2>1, <2>2 DEF Orderly
<1> QED BY <1>1, <1>2, <1>3 DEF Orderly, Next, OtherStep


----------------------------------------------------------------------------
(* Theorems                                                                *)

LEMMA StutterIInv == ASSUME IInv, UNCHANGED vars PROVE IInv'
<1> USE DEF vars, ctlVars, regVars, threadVars, mainVars, lockVars, gateVars, IInv
<1>1. TypeOK'
  BY DEF TypeOK, CtlTypeOK, RegTypeOK, ThreadTypeOK
<1>2. Uploading' /\ Ownership'
  BY DEF Uploading, Ownership, Claimable
<1>3. Locking' /\ Admission'
  BY DEF Locking, Admission, Busy
<1>4. UNCHANGED <<QueuedImages, JobImages, PendingImages, Removable>> /\ \A u : Submitted(u)' <=> Submitted(u)
  BY DEF QueuedImages, JobImages, PendingImages, Submitted, Removable
<1>5. Roles' /\ Alone' /\ Claims' /\ Orderly'
  BY DEF Roles, RoleOK, Alone, Claims, Busy, Orderly
<1>6. Custody' /\ Accounted'
  BY <1>4 DEF Custody, Accounted, HeldImages, Receiving
<1> QED BY <1>1, <1>2, <1>3, <1>5, <1>6

\* The strengthened invariant holds in every reachable state.
THEOREM InductiveInvariant == Spec => []IInv
<1>1. IInv /\ [Next]_vars => IInv'
  BY TypeStep, UploadingStep, OwnershipStep, LockingStep, AdmissionStep, StutterIInv,
     RolesStep, AloneStep, ClaimsStep, CustodyStep, AccountedStep, OrderlyStep
  DEF IInv
<1> QED BY InitIInv, <1>1, PTL DEF Spec

\* Every variable keeps its type, whatever the threads do.
THEOREM TypeCorrect == Spec => []TypeOK
<1>1. IInv => TypeOK
  BY DEF IInv
<1> QED BY InductiveInvariant, <1>1, PTL

\* The worker's operation is always the current one: no controller method
\* ever raises "flash operation is no longer current" (main.py, operation.py).
THEOREM JobStaysCurrent == Spec => []HeldJobIsCurrent
<1>1. IInv => HeldJobIsCurrent
  BY DEF IInv, Ownership, HeldJobIsCurrent, Flashing
<1> QED BY InductiveInvariant, <1>1, PTL

\* An accepted operation is in exactly one place until it is resolved.
THEOREM OneOwner == Spec => []QueuedHasOneOwner
<1>1. IInv => QueuedHasOneOwner
  BY DEF IInv, Ownership, QueuedHasOneOwner, Flashing, Claimable
<1> QED BY InductiveInvariant, <1>1, PTL

\* No LED or diagnostics session overlaps a pending flash or the radio work of
\* the main thread.
THEOREM SessionsAreExclusive == Spec => []SessionExcludesFlash
<1>1. IInv => SessionExcludesFlash
  BY MainAssumption DEF IInv, Locking, Admission, SessionExcludesFlash
<1> QED BY InductiveInvariant, <1>1, PTL

\* Shutdown's drain and clear are final: admission was closed before them.
THEOREM NothingAfterDrain == Spec => []DrainIsFinal
<1>1. IInv => DrainIsFinal
  BY DEF IInv, Ownership, Admission, DrainIsFinal, Closed, Flashing, Busy
<1> QED BY InductiveInvariant, <1>1, PTL

\* The image of an accepted operation outlives expiry sweeps, later uploads,
\* refused requests and the shutdown until the flash has been settled.
THEOREM ImagesStay == Spec => []ImageAvailable
<1>1. IInv => ImageAvailable
  BY DEF IInv, Custody, ImageAvailable
<1> QED BY InductiveInvariant, <1>1, PTL

\* flash() can do without an idle check: what it may claim is staged only
\* while no operation is pending.
THEOREM NothingStagedWhileBusy == Spec => []StagedOnlyWhenIdle
<1>1. IInv => StagedOnlyWhenIdle
  BY DEF IInv, Claims, StagedOnlyWhenIdle
<1> QED BY InductiveInvariant, <1>1, PTL

\* Whatever interleaving of uploads, refusals, expiry and shutdown, only a
\* validation that the exit interrupted leaves its temporary file behind.
THEOREM NoFileForgotten == Spec => []NoOrphanedUpload
<1>1. ASSUME IInv, main = "exited", NEW u \in files
      PROVE  \E h \in Handlers : request[h] = "validate" /\ upload[h] = u
  <2>1. staged = {} /\ queue = <<>> /\ \A h \in Handlers : pc[h] # "unlinkReplaced"
    BY <1>1 DEF IInv, Admission, Closed, Admitted, Locked
  <2>2. HeldImages = {}
    BY <1>1, <2>1 DEF HeldImages, QueuedImages, JobImages, HoldsJob
  <2>3. \A t \in Threads : doomed[t] = {}
    BY <1>1, <2>1 DEF IInv, Accounted, Threads
  <2> QED BY <1>1, <2>1, <2>2, <2>3 DEF IInv, Accounted
<1>2. IInv => NoOrphanedUpload
  BY <1>1 DEF NoOrphanedUpload
<1> QED BY InductiveInvariant, <1>2, PTL

\* report_progress() and claim_for_run() only ever raise what the page shows,
\* and a new operation comes with a new id.
THEOREM ProgressNeverFalls == Spec => ProgressMonotone
<1>1. ASSUME IInv, [Next]_vars, operationId' = operationId
      PROVE  progress' >= progress
  <2>0. /\ progress \in Nat /\ issued \in Nat /\ progress <= 100 /\ operationId \in Nat
        /\ operationId <= issued
    BY <1>1, MaxOpsAssumption DEF IInv, TypeOK, CtlTypeOK, Orderly, NoOp, OperationIds
  <2>q. /\ main = "claim" => job.id # NoOp
        /\ queue # <<>> => operationId # NoOp
    <3>1. main = "claim" => job \in Operations
      BY <1>1 DEF IInv, Ownership, HoldsJob
    <3>2. queue # <<>> => queue[1] \in Operations /\ operationId = queue[1].id
      BY <1>1 DEF IInv, TypeOK, CtlTypeOK, Ownership
    <3> QED BY <3>1, <3>2 DEF Operations, OperationIds, NoOp
  <2>1. \/ progress' >= progress \/ progress' = 100
        \/ (\E u : Submit(u))
        \/ operationId # NoOp /\ DiscardQueued
    <3>1. ASSUME NEW h \in Handlers, SubmitArtifact(h) PROVE progress' = progress \/ \E u : Submit(u)
      BY <3>1 DEF SubmitArtifact, ctlVars
    <3>2. ASSUME NEW h \in Handlers, Arrive(h) \/ HandlerStep(h), ~SubmitArtifact(h) PROVE progress' = progress
      BY <3>2 DEF Arrive, HandlerStep, Enter, Admit, CheckIdle, Leave, Refused,
           WriteUpload, Parse, StageUpload, UnlinkReplaced, Cleanup, ClaimArtifact,
           SubmitArtifact, ReleaseArtifact, ConsumeArtifact, BeginSession, EndSession,
           ctlVars
    <3>3. ASSUME Report PROVE progress' >= progress
      <4>1. PICK percent \in Marks : ReportProgress(job, percent)
        BY <3>3 DEF Report
      <4> QED BY <2>0, <4>1, MarksAssumption DEF ReportProgress
    <3>4. ASSUME ClaimJob 
          PROVE  \/ progress' >= progress
                 \/ operationId # NoOp /\ DiscardQueued
      BY <2>0, <2>q, <3>4 DEF ClaimJob, MainGoto, ClaimRefused, ClaimForRun, Claimable
    <3>5. ASSUME OtherStep, ~Report, ~ClaimJob
          PROVE  \/ progress' = progress \/ progress' = 100
                 \/ operationId # NoOp /\ DiscardQueued
      BY <2>q, <3>5 DEF OtherStep, MainStep, Verified, Loop, Dequeue, GetTimeout,
           ClaimJob, FlashReturns, Settle, DiscardImage, DrainQueue, ClearRegistry,
           UnlinkDoomed, TakeFlashLock, Report, CloseAdmission, Tick, Expire,
           RequestStop, Terminated, vars, ctlVars, Get, Complete, Fail, Drain
    <3>6. CASE UNCHANGED vars
      BY <2>0, <3>6 DEF vars, ctlVars
    <3> QED BY <1>1, <2>0, <3>1, <3>2, <3>3, <3>4, <3>5, <3>6 DEF Next, OtherStep
  <2>2. ASSUME operationId # NoOp, DiscardQueued PROVE FALSE
    BY <2>2, <1>1 DEF DiscardQueued
  <2>3. ASSUME NEW u, Submit(u) PROVE FALSE
    BY <1>1, <2>0, <2>3 DEF Submit
  <2> QED BY <2>0, <2>1, <2>2, <2>3
<1>2. IInv /\ [Next]_vars => [operationId' = operationId => progress' >= progress]_vars
  BY <1>1
<1> QED BY InductiveInvariant, <1>2, PTL DEF Spec, ProgressMonotone

----------------------------------------------------------------------------
(* The refinement: the life of an upload, read off five disjoint sets.     *)

InQueue == IF status = "queued" THEN PendingImages ELSE {}
InFlash == IF status = "running" THEN {job.artifact} ELSE {}
InStage == {u \in staged : ~Submitted(u)}
InReceipt == {upload[h] : h \in {g \in Handlers : Receiving(g)}}

\* LifeOf(u) tells which set u is in.
LifeIs(u) ==
    /\ LifeOf(u) = "absent" <=> u \notin written
    /\ LifeOf(u) = "queued" <=> u \in InQueue
    /\ LifeOf(u) = "flashing" <=> u \in InFlash
    /\ LifeOf(u) = "staged" <=> u \in InStage
    /\ LifeOf(u) = "received" <=> u \in InReceipt
    /\ LifeOf(u) \in Lifecycle!States

LEMMA LifeInOneSet ==
  ASSUME IInv, NEW u
  PROVE  /\ u \in InQueue \cup InFlash \cup InStage \cup InReceipt => u \in written
         /\ u \in InQueue => u \notin InFlash \cup InStage \cup InReceipt
         /\ u \in InFlash => u \notin InStage \cup InReceipt
         /\ u \in InStage => u \notin InReceipt
<1>1. u \in InQueue \cup InFlash => u \in HeldImages
  BY PendingAreHeld DEF IInv, InQueue, InFlash, Ownership, HeldImages, JobImages,
       HoldsJob, Flashing
<1>2. HeldImages \subseteq written /\ staged \subseteq written /\ files \subseteq written
  BY DEF IInv, Custody, TypeOK, RegTypeOK
<1>3. u \in InStage => u \in staged /\ u \notin HeldImages
  BY DEF IInv, Custody, InStage
<1>4. u \in InReceipt => u \in files \ (staged \cup HeldImages)
  BY DEF IInv, Custody, InReceipt
<1>5. u \in InQueue => u \notin InFlash
  BY DEF InQueue, InFlash
<1> QED BY <1>1, <1>2, <1>3, <1>4, <1>5

LEMMA LifeSets == IInv => \A u \in Artifacts : LifeIs(u)
<1> SUFFICES ASSUME IInv, NEW u \in Artifacts PROVE LifeIs(u)
  OBVIOUS
<1>1. (\E h \in Handlers :
              /\ request[h] = "validate" /\ upload[h] = u
              /\ pc[h] \in {"parse", "enter", "admit", "checkIdle", "stage",
                            "refused", "cleanup"}) <=> u \in InReceipt
  <2>1. ASSUME NEW h \in Handlers, request[h] = "validate", upload[h] = u,
               pc[h] \in {"parse", "enter", "admit", "checkIdle", "stage", "refused", "cleanup"}
        PROVE  u \in InReceipt
    BY <2>1, NoneAssumption DEF InReceipt, Receiving
  <2>2. ASSUME NEW h \in Handlers, Receiving(h), upload[h] = u
        PROVE  request[h] = "validate" /\
               pc[h] \in {"parse", "enter", "admit", "checkIdle", "stage", "refused", "cleanup"}
    BY <2>2, RequestsAssumption DEF Receiving, IInv, Roles, RoleOK, TypeOK, ThreadTypeOK,
         HandlerPcs, Locked, Requests
  <2> QED BY <2>1, <2>2 DEF InReceipt
<1>2. /\ u \in InQueue <=> status = "queued" /\ u \in PendingImages
      /\ u \in InFlash <=> status = "running" /\ job.artifact = u
      /\ u \in InStage <=> u \in staged /\ ~Submitted(u)
  BY DEF InQueue, InFlash, InStage
<1> QED BY <1>1, <1>2, LifeInOneSet DEF LifeIs, LifeOf, Lifecycle!States

LEMMA LifeSetsNext == IInv' => (\A u \in Artifacts : LifeIs(u))'
  BY LifeSets, PTL

\* What a step does to the five sets, and the step of the lifecycle it is.
LEMMA ForgetStep ==
  ASSUME IInv, IInv', UNCHANGED <<written, InQueue, InFlash, stopping>>,
         InStage' \subseteq InStage, InReceipt' \subseteq InReceipt
  PROVE  Lifecycle!Forget
<1> DEFINE S == {u \in Artifacts : u \in (InStage \ InStage') \cup (InReceipt \ InReceipt')}
<1>1. ASSUME NEW u \in Artifacts
      PROVE  LifeOf(u)' = IF u \in S THEN "gone" ELSE LifeOf(u)
  BY <1>1, LifeSets, LifeSetsNext, LifeInOneSet DEF LifeIs, Lifecycle!States
<1>2. \A u \in S : LifeOf(u) \in {"received", "staged"}
  BY LifeSets DEF LifeIs
<1>3. S \in SUBSET {u \in Artifacts : [v \in Artifacts |-> LifeOf(v)][u] \in {"received", "staged"}}
  BY <1>2
<1>4. Lifecycle!Move(S, "gone")
  BY <1>1 DEF Lifecycle!Move
<1> HIDE DEF S
<1> QED BY <1>3, <1>4 DEF Lifecycle!Forget

LEMMA ReceiveStep ==
  ASSUME IInv, IInv', NEW a \in Artifacts \ written, written' = written \cup {a},
         UNCHANGED <<InQueue, InFlash, InStage, stopping>>, InReceipt' = InReceipt \cup {a}
  PROVE  Lifecycle!Receive(a)
<1>1. ASSUME NEW u \in Artifacts
      PROVE  LifeOf(u)' = IF u \in {a} THEN "received" ELSE LifeOf(u)
  BY <1>1, LifeSets, LifeSetsNext, LifeInOneSet DEF LifeIs, Lifecycle!States
<1>2. LifeOf(a) = "absent"
  BY LifeSets DEF LifeIs
<1> QED BY <1>1, <1>2 DEF Lifecycle!Receive, Lifecycle!Move

LEMMA NothingPending ==
  ASSUME IInv, ~Busy PROVE Lifecycle!Pending = {}
<1>1. InQueue = {} /\ InFlash = {}
  BY DEF Busy, InQueue, InFlash
<1> QED BY <1>1, LifeSets DEF LifeIs, Lifecycle!Pending

LEMMA KeepStep ==
  ASSUME IInv, IInv', NEW a \in InReceipt \cap Artifacts, ~Busy,
         UNCHANGED <<written, InQueue, InFlash, stopping>>,
         InStage' = {a}, InReceipt' = InReceipt \ {a}
  PROVE  Lifecycle!Keep(a)
<1>1. ASSUME NEW u \in Artifacts
      PROVE  LifeOf(u)' = IF u = a THEN "staged"
                          ELSE IF u \in InStage THEN "gone" ELSE LifeOf(u)
  BY <1>1, LifeSets, LifeSetsNext, LifeInOneSet DEF LifeIs, Lifecycle!States
<1>2. LifeOf(a) = "received" /\ Lifecycle!Staged = InStage \cap Artifacts
  BY LifeSets DEF LifeIs, Lifecycle!Staged
<1> QED BY <1>1, <1>2, NothingPending DEF Lifecycle!Keep

LEMMA AcceptStep ==
  ASSUME IInv, IInv', NEW a \in InStage \cap Artifacts, ~Busy,
         UNCHANGED <<written, InFlash, InReceipt, stopping>>,
         InQueue' = {a}, InStage' = InStage \ {a}
  PROVE  Lifecycle!Accept(a)
<1>0. InQueue = {}
  BY DEF InQueue, Busy
<1>1. ASSUME NEW u \in Artifacts
      PROVE  LifeOf(u)' = IF u \in {a} THEN "queued" ELSE LifeOf(u)
  BY <1>0, <1>1, LifeSets, LifeSetsNext, LifeInOneSet DEF LifeIs, Lifecycle!States
<1>2. LifeOf(a) = "staged"
  BY LifeSets DEF LifeIs
<1> QED BY <1>1, <1>2, NothingPending DEF Lifecycle!Accept, Lifecycle!Move

LEMMA StartStep ==
  ASSUME IInv, IInv', NEW a \in Artifacts, InQueue = {a}, InQueue' = {},
         InFlash = {}, InFlash' = {a}, ~stopping,
         UNCHANGED <<written, InStage, InReceipt, stopping>>
  PROVE  Lifecycle!Start(a)
<1>1. ASSUME NEW u \in Artifacts
      PROVE  LifeOf(u)' = IF u \in {a} THEN "flashing" ELSE LifeOf(u)
  BY <1>1, LifeSets, LifeSetsNext, LifeInOneSet DEF LifeIs, Lifecycle!States
<1>2. LifeOf(a) = "queued"
  BY LifeSets DEF LifeIs
<1> QED BY <1>1, <1>2 DEF Lifecycle!Start, Lifecycle!Move

LEMMA FinishStep ==
  ASSUME IInv, IInv', NEW a \in Artifacts, InFlash = {a}, InFlash' = {},
         UNCHANGED <<written, InQueue, InStage, InReceipt, stopping>>
  PROVE  Lifecycle!Finish(a)
<1>1. ASSUME NEW u \in Artifacts
      PROVE  LifeOf(u)' = IF u \in {a} THEN "gone" ELSE LifeOf(u)
  BY <1>1, LifeSets, LifeSetsNext, LifeInOneSet DEF LifeIs, Lifecycle!States
<1>2. LifeOf(a) = "flashing"
  BY LifeSets DEF LifeIs
<1> QED BY <1>1, <1>2 DEF Lifecycle!Finish, Lifecycle!Move

LEMMA DiscardStep ==
  ASSUME IInv, IInv', NEW a \in Artifacts, InQueue = {a}, InQueue' = {}, stopping,
         UNCHANGED <<written, InFlash, InStage, InReceipt, stopping>>
  PROVE  Lifecycle!Discard(a)
<1>1. ASSUME NEW u \in Artifacts
      PROVE  LifeOf(u)' = IF u \in {a} THEN "gone" ELSE LifeOf(u)
  BY <1>1, LifeSets, LifeSetsNext, LifeInOneSet DEF LifeIs, Lifecycle!States
<1>2. LifeOf(a) = "queued"
  BY LifeSets DEF LifeIs
<1> QED BY <1>1, <1>2 DEF Lifecycle!Discard, Lifecycle!Move

LEMMA StopStep ==
  ASSUME IInv, IInv', UNCHANGED <<written, InQueue, InFlash, InStage, InReceipt>>, stopping'
  PROVE  Lifecycle!Stop
<1>1. ASSUME NEW u \in Artifacts PROVE LifeOf(u)' = LifeOf(u)
  BY <1>1, LifeSets, LifeSetsNext DEF LifeIs, Lifecycle!States
<1> QED BY <1>1 DEF Lifecycle!Stop, IInv, TypeOK, ThreadTypeOK

\* The steps of request threads.
LEMMA HandlerLife ==
  ASSUME IInv, IInv', NEW h \in Handlers, Arrive(h) \/ HandlerStep(h)
  PROVE  Lifecycle!Next
<1> USE NoneAssumption, RequestsAssumption DEF At, Goto, Answer
<1>i. TypeOK /\ Uploading /\ Locking /\ Admission /\ Roles /\ Alone /\ Claims /\ Custody
  BY DEF IInv
<1>t. pc \in [Handlers -> HandlerPcs] /\ upload \in [Handlers -> Artifacts \cup {None}]
      /\ request \in [Handlers -> Requests \cup {None}]
  BY <1>i DEF TypeOK, ThreadTypeOK
<1>0. /\ \A g \in Handlers : g # h => pc'[g] = pc[g] /\ upload'[g] = upload[g]
                                      /\ request'[g] = request[g]
      /\ pc[h] \in Locked => \A g \in Handlers : g # h => pc[g] # "consume"
      /\ UNCHANGED <<job, stopping, main>>
  BY <1>i, HandlerFrame, OneInside DEF Locked
<1>g. \A g \in Handlers : g # h => (Receiving(g)' <=> Receiving(g))
  BY <1>0 DEF Receiving
<1>f. ASSUME UNCHANGED status, pc'[h] # "consume"
      PROVE  UNCHANGED <<InQueue, InFlash>>
  BY <1>0, <1>f, <1>i, HandlerImages DEF InQueue, InFlash
\* Nothing is received, kept or accepted.
<1>1. ASSUME \/ Arrive(h) \/ Enter(h) \/ Admit(h) \/ CheckIdle(h) \/ Leave(h) \/ Refused(h)
             \/ Parse(h) \/ BeginSession(h) \/ EndSession(h) \/ ReleaseArtifact(h)
             \/ (SubmitArtifact(h) /\ pc'[h] # "consume")
             \/ UnlinkReplaced(h) \/ Cleanup(h) \/ ClaimArtifact(h)
             \/ (StageUpload(h) /\ pc'[h] = "refused")
      PROVE  Lifecycle!Forget
  <2>1. UNCHANGED <<status, written>> /\ staged' \subseteq staged
    BY <1>1, <1>t DEF Arrive, Enter, Admit, CheckIdle, Leave, Refused, Parse,
         BeginSession, EndSession,
       ReleaseArtifact, ReleaseClaim, SubmitArtifact, NoteManual, regVars, ctlVars, Submit,
       UnlinkReplaced, Cleanup, ClaimArtifact, StageUpload, Unlink, Claim, RemoveExpired
  <2>2. pc[h] # "consume" /\ pc'[h] # "consume"
    BY <1>1, <1>t DEF Arrive, Enter, Admit, CheckIdle, Leave, Refused, Parse, BeginSession,
       EndSession, ReleaseArtifact, SubmitArtifact, UnlinkReplaced, Cleanup, ClaimArtifact,
       StageUpload
  <2>3. Receiving(h)' => Receiving(h) /\ upload'[h] = upload[h]
    <3>1. CASE Arrive(h)
      <4>1. request[h] = None /\ upload[h] = None
        BY <3>1, <1>i DEF Arrive, Roles, RoleOK
      <4> QED BY <1>t, <3>1, <4>1 DEF Arrive, Receiving
    <3>2. CASE ~Arrive(h)
      BY <1>1, <1>t, <3>2 DEF Enter, Admit, CheckIdle, Leave, Refused, Parse,
           BeginSession, EndSession,
         ReleaseArtifact, SubmitArtifact, UnlinkReplaced, Cleanup, ClaimArtifact,
         StageUpload,
         Receiving
    <3> QED BY <3>1, <3>2
  <2>4. InReceipt' \subseteq InReceipt
    BY <1>0, <1>g, <2>3 DEF InReceipt
  <2>5. \A u : Submitted(u)' <=> Submitted(u)
    BY <1>0, <2>2 DEF Submitted
  <2>6. InStage' \subseteq InStage
    BY <2>1, <2>5 DEF InStage
  <2> QED BY <1>0, <1>f, <2>1, <2>2, <2>4, <2>6, ForgetStep
<1>2. CASE ConsumeArtifact(h)
  <2>1. /\ pc[h] = "consume" /\ pc'[h] = "leave" /\ staged' = staged \ {upload[h]}
        /\ UNCHANGED <<status, written, upload, request>> /\ request[h] = "flash"
    BY <1>2, <1>t, <1>i DEF ConsumeArtifact, Consume, ctlVars, Roles, RoleOK
  <2>2. InReceipt' = InReceipt
    BY <1>0, <1>g, <2>1 DEF InReceipt, Receiving
  <2>3. \A u : (Submitted(u) <=> u = upload[h]) /\ ~Submitted(u)'
    BY <1>0, <2>1 DEF Submitted, Locked
  <2>4. InStage' = InStage
    BY <2>1, <2>3 DEF InStage
  <2> QED BY <1>0, <1>f, <2>1, <2>2, <2>4, ForgetStep DEF Lifecycle!Next
<1>3. CASE WriteUpload(h)
  <2>1. /\ pc[h] = "write" /\ pc'[h] = "parse" /\ upload[h] = None
        /\ upload'[h] \in Artifacts \ written /\ written' = written \cup {upload'[h]}
        /\ UNCHANGED <<status, staged, request>> /\ request[h] = "validate"
    BY <1>3, <1>t, <1>i DEF WriteUpload, CreateFile, ctlVars, Roles, RoleOK
  <2>2. Receiving(h)' /\ ~Receiving(h)
    BY <2>1 DEF Receiving
  <2>3. InReceipt' = InReceipt \cup {upload'[h]}
    BY <1>0, <1>g, <2>2 DEF InReceipt
  <2>4. \A u : Submitted(u)' <=> Submitted(u)
    BY <1>0, <2>1 DEF Submitted
  <2>5. InStage' = InStage
    BY <2>1, <2>4 DEF InStage
  <2>6. Lifecycle!Receive(upload'[h])
    BY <1>0, <1>f, <2>1, <2>3, <2>5, ReceiveStep
  <2> QED BY <2>1, <2>6 DEF Lifecycle!Next
<1>4. CASE StageUpload(h) /\ pc'[h] # "refused"
  <2>1. /\ pc[h] = "stage" /\ pc'[h] = "unlinkReplaced" /\ staged' = {upload[h]}
        /\ UNCHANGED <<status, written, upload, request>>
    BY <1>4, <1>t DEF StageUpload, Stage, ctlVars
  <2>2. upload[h] \in Artifacts /\ request[h] = "validate" /\ ~Busy
    BY <2>1, <1>i DEF Uploading, Roles, RoleOK, Admission
  <2>3. Receiving(h) /\ ~Receiving(h)'
    BY <2>1, <2>2 DEF Receiving
  <2>4. \A g \in Handlers : g # h /\ Receiving(g) => upload[g] # upload[h]
    BY <2>2, <1>i DEF Alone, Receiving
  <2>5. InReceipt' = InReceipt \ {upload[h]} /\ upload[h] \in InReceipt
    BY <1>0, <1>g, <2>1, <2>3, <2>4 DEF InReceipt
  <2>6. InStage' = {upload[h]}
    BY <1>0, <2>1 DEF InStage, Submitted, Locked
  <2>7. Lifecycle!Keep(upload[h])
    BY <1>0, <1>f, <2>1, <2>2, <2>5, <2>6, KeepStep
  <2> QED BY <2>2, <2>7 DEF Lifecycle!Next
<1>5. CASE SubmitArtifact(h) /\ pc'[h] = "consume"
  <2>1. /\ pc[h] = "submit" /\ Submit(upload[h]) /\ UNCHANGED <<staged, written, upload, request>>
        /\ PendingImages' = PendingImages \cup {upload[h]} /\ ~Busy
    BY <1>5, <1>t, <1>i, HandlerImages DEF SubmitArtifact, regVars, Submit, SubmitRefused
  <2>2. upload[h] \in Artifacts /\ request[h] = "flash" /\ upload[h] \in staged
    BY <2>1, <1>i DEF Uploading, Roles, RoleOK, Claims, ClaimPcs, TypeOK, RegTypeOK
  <2>3. InReceipt' = InReceipt
    BY <1>0, <1>g, <2>1, <2>2 DEF InReceipt, Receiving
  <2>4. \A u : ~Submitted(u) /\ (Submitted(u)' <=> u = upload[h])
    BY <1>0, <1>5, <2>1 DEF Submitted, Locked
  <2>5. upload[h] \in InStage /\ InStage' = InStage \ {upload[h]}
    BY <2>1, <2>2, <2>4 DEF InStage
  <2>6. status' = "queued" /\ status \notin {"queued", "running"} /\ InFlash' = InFlash
    BY <2>1 DEF Submit, Busy, InFlash
  <2>7. PendingImages = {}
    <3>1. queue = <<>> /\ main \notin {"claim"} \cup Flashing
      BY <2>6 DEF IInv, Ownership, Claimable
    <3> QED BY <3>1 DEF PendingImages, Flashing
  <2>8. InQueue' = {upload[h]}
    BY <2>1, <2>6, <2>7 DEF InQueue
  <2>9. Lifecycle!Accept(upload[h])
    BY <1>0, <2>1, <2>2, <2>3, <2>5, <2>6, <2>8, AcceptStep
  <2> QED BY <2>2, <2>9 DEF Lifecycle!Next
<1> QED BY <1>1, <1>2, <1>3, <1>4, <1>5 DEF HandlerStep, Lifecycle!Next

\* The steps of everybody else.
LEMMA OtherLife ==
  ASSUME IInv, IInv', OtherStep
  PROVE  Lifecycle!Next
<1> USE DEF MainGoto
<1>i. TypeOK /\ Ownership /\ Admission /\ Orderly /\ Claims
  BY DEF IInv
<1>0. /\ UNCHANGED <<written, InReceipt>>
      /\ \A u : Submitted(u)' <=> Submitted(u)
  BY <1>i, OtherFrame DEF InReceipt, Receiving, Submitted
<1>s. ASSUME staged' \subseteq staged PROVE InStage' \subseteq InStage
  BY <1>0, <1>s DEF InStage
<1>u. ASSUME staged' = staged PROVE InStage' = InStage
  BY <1>0, <1>u DEF InStage
<1>1. ASSUME Tick \/ Expire \/ ClearRegistry \/ UnlinkDoomed \/ Verified \/ Loop \/ GetTimeout
             \/ Report \/ FlashReturns \/ TakeFlashLock \/ CloseAdmission \/ Terminated
      PROVE  Lifecycle!Forget
  <2>1. UNCHANGED <<queue, status, job, stopping>> /\ staged' \subseteq staged
    BY <1>1 DEF Tick, Age, Expire, RemoveExpired, ClearRegistry, ClearEntries,
         UnlinkDoomed, Unlink, Verified,
       Loop, GetTimeout, Report, ReportProgress, FlashReturns, TakeFlashLock,
       CloseAdmission,
       Terminated, vars, ctlVars, regVars, mainVars, gateVars
  <2>2. \/ main' = main
        \/ main \notin {"claim"} /\ main' \notin {"claim"}
    BY <1>1 DEF Tick, Expire, ClearRegistry, UnlinkDoomed, Verified, Loop, GetTimeout,
         Report,
       FlashReturns, TakeFlashLock, CloseAdmission, Terminated, vars, mainVars
  <2>3. InQueue' = InQueue
    <3>1. status = "queued" => main \notin Flashing /\ main' \notin Flashing
      BY <2>1 DEF IInv, Ownership, Claimable
    <3> QED BY <2>1, <2>2, <3>1 DEF InQueue, PendingImages, Flashing
  <2> QED BY <1>0, <1>s, <2>1, <2>3, ForgetStep DEF InFlash
<1>2. CASE Dequeue
  <2>1. main = "get" /\ main' = "claim" /\ job' = Head(queue) /\ queue # <<>>
        /\ UNCHANGED <<status, staged, stopping>>
    BY <1>2 DEF Dequeue, Get, regVars, gateVars
  <2>2. QueuedImages = {job'.artifact} /\ QueuedImages' = {} /\ status = "queued"
    BY <1>2, <1>i, <2>1, TakenImage DEF Dequeue, TypeOK, Ownership
  <2>3. PendingImages' = PendingImages
    BY <2>1, <2>2 DEF PendingImages, QueuedImages
  <2> QED BY <1>0, <1>u, <2>1, <2>2, <2>3, ForgetStep DEF InQueue, InFlash, Lifecycle!Next
<1>3. CASE ClaimJob
  <2>1. /\ main = "claim" /\ Claimable(job) /\ job \in Operations /\ queue = <<>>
        /\ UNCHANGED <<job, staged, stopping, queue>>
        /\ job.artifact \in Artifacts
    BY <1>3, <1>i DEF ClaimJob, ClaimRefused, ClaimForRun, regVars, gateVars, Ownership,
         HoldsJob,
       Operations
  <2>2. InQueue = {job.artifact} /\ InFlash = {}
    BY <2>1 DEF InQueue, InFlash, PendingImages, Claimable
  <2>3. CASE stopping
    <3>1. status' = "idle"
      BY <1>3, <2>3 DEF ClaimJob, ClaimRefused, DiscardQueued
    <3>2. InQueue' = {} /\ InFlash' = {}
      BY <3>1 DEF InQueue, InFlash
    <3> QED BY <1>0, <1>u, <2>1, <2>2, <2>3, <3>2, DiscardStep DEF Lifecycle!Next
  <2>4. CASE ~stopping
    <3>1. status' = "running"
      BY <1>3, <2>4 DEF ClaimJob, ClaimForRun
    <3>2. InQueue' = {} /\ InFlash' = {job.artifact}
      BY <2>1, <3>1 DEF InQueue, InFlash
    <3> QED BY <1>0, <1>u, <2>1, <2>2, <2>4, <3>2, StartStep DEF Lifecycle!Next
  <2> QED BY <2>3, <2>4
<1>4. CASE Settle
  <2>1. /\ main = "settle" /\ job \in Operations /\ job.artifact \in Artifacts
        /\ status = "running" /\ status' \in {"succeeded", "failed"}
        /\ UNCHANGED <<staged, stopping>>
    BY <1>4, <1>i DEF Settle, Complete, Fail, regVars, gateVars, Ownership, HoldsJob,
         Flashing,
       Operations
  <2>2. InQueue = {} /\ InQueue' = {} /\ InFlash = {job.artifact} /\ InFlash' = {}
    BY <2>1 DEF InQueue, InFlash
  <2> QED BY <1>0, <1>u, <2>1, <2>2, FinishStep DEF Lifecycle!Next
<1>5. CASE DiscardImage
  <2>1. /\ main \in {"discard", "dropJob"} /\ main' \in {"loop", "closing"}
        /\ UNCHANGED <<queue, status, staged, stopping>>
    BY <1>5 DEF DiscardImage, Unlink, ctlVars, gateVars
  <2>2. status # "running"
    BY <1>i, <2>1 DEF Ownership, Flashing
  <2>3. PendingImages' = PendingImages
    BY <2>1 DEF PendingImages
  <2> QED BY <1>0, <1>u, <2>1, <2>2, <2>3, ForgetStep DEF InQueue, InFlash, Lifecycle!Next
<1>6. CASE DrainQueue
  <2>1. /\ main = "drain" /\ main' = "unlinkDrained" /\ queue' = <<>>
        /\ UNCHANGED <<staged, stopping, job>> /\ stopping
    BY <1>6, <1>i DEF DrainQueue, Drain, regVars, gateVars, Orderly, Closed
  <2>2. status # "running" /\ (status = "queued" <=> queue # <<>>)
    BY <1>i, <2>1 DEF Ownership, Flashing
  <2>3. InFlash = {} /\ InFlash' = {} /\ InQueue' = {}
    BY <1>6, <2>2 DEF DrainQueue, Drain, DiscardQueued, InFlash, InQueue
  <2>4. CASE queue = <<>>
    <3>1. InQueue = {}
      BY <2>2, <2>4 DEF InQueue
    <3> QED BY <1>0, <1>u, <2>1, <2>3, <3>1, ForgetStep DEF Lifecycle!Next
  <2>5. CASE queue # <<>>
    <3>1. DOMAIN queue = {1} /\ queue[1] \in Operations
      <4>1. queue \in Seq(Operations) /\ Len(queue) \in Nat /\ Len(queue) <= 1 /\ Len(queue) # 0
        BY <1>i, <2>5, EmptySeq DEF TypeOK, CtlTypeOK, QueueSize
      <4>2. DOMAIN queue = 1..Len(queue)
        BY <4>1
      <4>3. \A n \in Nat : n <= 1 /\ n # 0 => n = 1
        OBVIOUS
      <4>4. Len(queue) = 1
        BY <4>1, <4>3, Zenon
      <4> QED BY <4>1, <4>2, <4>4
    <3>2. InQueue = {queue[1].artifact} /\ queue[1].artifact \in Artifacts
      BY <2>1, <2>2, <2>5, <3>1 DEF InQueue, PendingImages, Operations
    <3> QED BY <1>0, <1>u, <2>1, <2>3, <3>2, DiscardStep DEF Lifecycle!Next
  <2> QED BY <2>4, <2>5
<1>7. CASE RequestStop
  <2>1. UNCHANGED <<queue, status, job, main, staged>> /\ stopping'
    BY <1>7 DEF RequestStop, ctlVars, regVars, mainVars
  <2> QED BY <1>0, <1>u, <2>1, StopStep DEF InQueue, InFlash, PendingImages, Lifecycle!Next
<1> QED BY <1>1, <1>2, <1>3, <1>4, <1>5, <1>6, <1>7 DEF OtherStep, MainStep, Lifecycle!Next

\* Whatever the threads, locks, queue and registry do is a step of the one-shot
\* life of uploads, or none: no upload is flashed twice, replaced while it
\* waits, or started after a stop request.
THEOREM QueueImplementsLifecycle == Spec => ImplementsLifecycle
<1>1. Init => Lifecycle!Init
  BY DEF Init, RegInit, LifeOf, Lifecycle!Init
<1>2. IInv /\ IInv' /\ [Next]_vars => [Lifecycle!Next]_(Lifecycle!vars)
  <2> SUFFICES ASSUME IInv, IInv', [Next]_vars PROVE Lifecycle!Next
    OBVIOUS
  <2>1. CASE UNCHANGED vars
    <3>1. UNCHANGED <<written, InQueue, InFlash, InStage, InReceipt, stopping>>
      BY <2>1 DEF vars, ctlVars, regVars, threadVars, mainVars, gateVars, InQueue,
           InFlash, InStage, InReceipt,
         PendingImages, Submitted, Receiving
    <3> QED BY <3>1, ForgetStep DEF Lifecycle!Next
  <2>2. CASE Next
    BY <2>2, HandlerLife, OtherLife DEF Next, OtherStep
  <2> QED BY <2>1, <2>2
<1> QED BY InductiveInvariant, <1>1, <1>2, PTL DEF Spec, ImplementsLifecycle, Lifecycle!Spec
=============================================================================
