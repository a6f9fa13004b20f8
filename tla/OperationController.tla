------------------------ MODULE OperationController ------------------------
(***************************************************************************)
(* The one-slot operation queue between the HTTP threads and the flash     *)
(* worker: class OperationController of app/operation.py.  Every operator  *)
(* below is one method, whose body runs under the controller's own lock,   *)
(* so each is one atomic change of the controller's variables.  The only   *)
(* exception is `get', which takes the item from the queue without that    *)
(* lock and without changing the visible status.                           *)
(*                                                                         *)
(* The module has no specification of its own: FlashQueue composes it with *)
(* the artifact registry and the threads that call it.                     *)
(***************************************************************************)
EXTENDS Naturals, Sequences, Uploads

CONSTANTS
    MaxOps,      \* bound: how many operation ids the model may draw
    Marks        \* percentages the flasher reports while it works

ASSUME MaxOpsAssumption == MaxOps \in Nat
ASSUME MarksAssumption == Marks \subseteq 0..100

VARIABLES
    queue,        \* Queue(maxsize=1) of operations
    status,       \* what the UI sees
    operationId,  \* id of the current operation, NoOp when there is none
    progress,     \* 0..100
    issued        \* number of ids drawn so far; the next id is issued + 1

ctlVars == <<queue, status, operationId, progress, issued>>

QueueSize == 1
NoOp == 0
OperationIds == 1..MaxOps
Operations == [id : OperationIds, artifact : Artifacts]
Statuses == {"idle", "queued", "running", "succeeded", "failed"}

CtlTypeOK ==
    /\ queue \in Seq(Operations)
    /\ Len(queue) <= QueueSize
    /\ status \in Statuses
    /\ operationId \in OperationIds \cup {NoOp}
    /\ progress \in 0..100
    /\ issued \in 0..MaxOps

CtlInit ==
    /\ queue = <<>>
    /\ status = "idle"
    /\ operationId = NoOp
    /\ progress = 0
    /\ issued = 0

----------------------------------------------------------------------------
\* Fault variant of Busy: an operation still in the queue does not count.
BusyOnlyWhileRunning == status = "running"

Busy == status \in {"queued", "running"}

\* submit() raises OperationBusyError: either the status says so or put_nowait
\* finds the queue full.
SubmitRefused == Busy \/ Len(queue) >= QueueSize

\* submit(): a fresh id for one staged artifact.  issued < MaxOps is the
\* model's bound; token_hex(16) has no such limit.
Submit(a) ==
    /\ ~SubmitRefused
    /\ issued < MaxOps
    /\ queue' = Append(queue, [id |-> issued + 1, artifact |-> a])
    /\ status' = "queued"
    /\ operationId' = issued + 1
    /\ progress' = 0
    /\ issued' = issued + 1

\* get(): the item leaves the queue, the status stays "queued".
Get ==
    /\ queue # <<>>
    /\ queue' = Tail(queue)
    /\ UNCHANGED <<status, operationId, progress, issued>>

\* _discard_queued_locked() leaves the queue itself alone.
DiscardQueued ==
    /\ status' = "idle"
    /\ operationId' = NoOp
    /\ progress' = 0
    /\ issued' = issued

\* _require_current() followed by the status test of claim_for_run().
Claimable(op) == operationId = op.id /\ status = "queued"

\* claim_for_run() when the stop event is set: discard and return False.
ClaimRefused(op) ==
    /\ Claimable(op)
    /\ DiscardQueued
    /\ UNCHANGED queue

\* claim_for_run() otherwise: _mark_running_locked() and return True.
ClaimForRun(op) ==
    /\ Claimable(op)
    /\ status' = "running"
    /\ progress' = IF progress > 1 THEN progress ELSE 1
    /\ UNCHANGED <<queue, operationId, issued>>

\* Fault variant of ReportProgress: the latest percentage is shown.
ReportLatest(op, percent) ==
    /\ operationId = op.id
    /\ status = "running"
    /\ progress' = percent
    /\ UNCHANGED <<queue, status, operationId, issued>>

\* report_progress(): percentages arrive in any order, the shown one is the
\* largest so far.
ReportProgress(op, percent) ==
    /\ operationId = op.id
    /\ status = "running"
    /\ progress' = IF progress > percent THEN progress ELSE percent
    /\ UNCHANGED <<queue, status, operationId, issued>>

Complete(op) ==
    /\ operationId = op.id
    /\ status' = "succeeded"
    /\ progress' = 100
    /\ UNCHANGED <<queue, operationId, issued>>

Fail(op) ==
    /\ operationId = op.id
    /\ status' = "failed"
    /\ UNCHANGED <<queue, operationId, progress, issued>>

\* Fault variant of Drain: the queue is emptied, the status forgotten.
DrainQueueOnly ==
    /\ queue' = <<>>
    /\ UNCHANGED <<status, operationId, progress, issued>>

\* drain(): every unstarted item is taken out; the status follows only when
\* something was taken and it was still "queued".
Drain ==
    /\ queue' = <<>>
    /\ IF queue # <<>> /\ status = "queued"
         THEN DiscardQueued
         ELSE UNCHANGED <<status, operationId, progress, issued>>
============================================================================
