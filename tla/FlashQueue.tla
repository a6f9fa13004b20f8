----------------------------- MODULE FlashQueue -----------------------------
(***************************************************************************)
(* The threads of the add-on and the state they share: the HTTP request    *)
(* threads and the reaper of app/ingress.py, the worker loop and shutdown  *)
(* of app/main.py, and the signal handler that only sets an event.  What   *)
(* the flasher does with the radio is abstracted to "the flash lock is     *)
(* held, then the call succeeds or fails".                                 *)
(*                                                                         *)
(* One action is one step between two points where another thread can be   *)
(* scheduled with an effect: acquiring submission_lock, each read of       *)
(* shared state inside it, each controller or registry method (atomic      *)
(* under its own lock), each unlink outside those locks, and the release.  *)
(***************************************************************************)
EXTENDS OperationController, ArtifactRegistry

CONSTANTS
    Handlers,   \* HTTP request threads
    Main        \* the main thread: startup, worker loop, shutdown

ASSUME MainAssumption == Main \notin Handlers /\ None \notin Handlers \cup {Main}

VARIABLES
    pc,          \* pc[h]: where request thread h is
    request,     \* request[h]: what it was asked to do
    upload,      \* upload[h]: the artifact it works on
    doomed,      \* doomed[t]: files thread t has yet to unlink
    submission,  \* holder of IngressApi._submission_lock
    flashLock,   \* holder of Cul868Flasher._flash_lock
    main,        \* where the main thread is
    job,         \* the operation the main thread took from the queue
    stopping,    \* the stop event
    accepting    \* IngressApi._accepting_mutations

threadVars == <<pc, request, upload, doomed>>
mainVars == <<main, job>>
lockVars == <<submission, flashLock>>
gateVars == <<stopping, accepting>>
vars == <<ctlVars, regVars, threadVars, mainVars, lockVars, gateVars>>

Threads == Handlers \cup {Main}
Requests == {"validate", "flash", "session"}
ASSUME RequestsAssumption == None \notin Requests

\* Request-thread locations inside `with self._submission_lock'.
Locked == {"admit", "checkIdle", "stage", "unlinkReplaced", "claim", "submit",
           "release", "consume", "flashLock", "session", "leave", "refused"}
HandlerPcs == {"ready", "enter", "write", "parse", "cleanup"} \cup Locked

\* Main-thread locations after close_admission() has returned.
Closed == {"serverStop", "drain", "unlinkDrained", "closeAgain", "clear",
           "unlinkCleared", "exited"}
MainPcs == {"startup", "verify", "loop", "get", "claim", "dropJob", "flashLock",
            "flash", "settle", "discard", "closing"} \cup Closed

ThreadTypeOK ==
    /\ pc \in [Handlers -> HandlerPcs]
    /\ request \in [Handlers -> Requests \cup {None}]
    /\ upload \in [Handlers -> Artifacts \cup {None}]
    /\ doomed \in [Threads -> SUBSET Artifacts]
    /\ submission \in Handlers \cup {None}
    /\ flashLock \in Threads \cup {None}
    /\ main \in MainPcs
    /\ job \in Operations \cup {None}
    /\ stopping \in BOOLEAN
    /\ accepting \in BOOLEAN

TypeOK == CtlTypeOK /\ RegTypeOK /\ ThreadTypeOK

Init ==
    /\ CtlInit
    /\ RegInit
    /\ pc = [h \in Handlers |-> "ready"]
    /\ request = [h \in Handlers |-> None]
    /\ upload = [h \in Handlers |-> None]
    /\ doomed = [t \in Threads |-> {}]
    /\ submission = None
    /\ flashLock = None
    /\ main = "startup"
    /\ job = None
    /\ stopping = FALSE
    /\ accepting = TRUE

\* Request threads are daemon threads: they end with the main thread.
At(h, from) == pc[h] = from /\ main # "exited"
Goto(h, to) == pc' = [pc EXCEPT ![h] = to] /\ UNCHANGED <<request, upload>>
Answer(h) ==
    /\ pc' = [pc EXCEPT ![h] = "ready"]
    /\ request' = [request EXCEPT ![h] = None]
    /\ upload' = [upload EXCEPT ![h] = None]

----------------------------------------------------------------------------
(* Requests and the admission lock                                         *)

\* A client learns an artifact's id from the answer to its validation.
Announced(u) ==
    /\ u \in written
    /\ \A g \in Handlers : request[g] = "validate" => upload[g] # u

\* do_POST(): a request arrives while the listener is up (server.shutdown()
\* returns before the main thread reaches "drain").
Arrive(h) ==
    /\ At(h, "ready")
    /\ main \notin Closed \ {"serverStop"}
    /\ \/ \E kind \in {"validate", "session"} :
            /\ request' = [request EXCEPT ![h] = kind]
            /\ UNCHANGED upload
       \/ \E u \in Artifacts :
            /\ Announced(u)
            /\ request' = [request EXCEPT ![h] = "flash"]
            /\ upload' = [upload EXCEPT ![h] = u]
    /\ pc' = [pc EXCEPT ![h] = "enter"]
    /\ UNCHANGED <<ctlVars, regVars, doomed, mainVars, lockVars, gateVars>>

\* with self._submission_lock
Enter(h) ==
    /\ At(h, "enter")
    /\ submission = None
    /\ submission' = h
    /\ Goto(h, "admit")
    /\ UNCHANGED <<ctlVars, regVars, doomed, mainVars, flashLock, gateVars>>

\* Fault variant of Admit: a request that was waiting for the lock is let in
\* although shutdown has begun.
AdmitLate(h) ==
    /\ At(h, "admit")
    /\ Goto(h, IF request[h] = "flash" THEN "claim" ELSE "checkIdle")
    /\ UNCHANGED <<ctlVars, regVars, doomed, mainVars, lockVars, gateVars>>

\* _require_accepting_mutations_locked(); flash() has no idle check.
Admit(h) ==
    /\ At(h, "admit")
    /\ Goto(h, IF stopping \/ ~accepting THEN "refused"
               ELSE IF request[h] = "flash" THEN "claim" ELSE "checkIdle")
    /\ UNCHANGED <<ctlVars, regVars, doomed, mainVars, lockVars, gateVars>>

\* Fault variant of CheckIdle: the check before the upload is not repeated
\* after it.
CheckIdleOnce(h) ==
    /\ At(h, "checkIdle")
    /\ IF request[h] = "validate" /\ upload[h] # None
         THEN Goto(h, "stage") /\ UNCHANGED submission
       ELSE IF Busy THEN Goto(h, "refused") /\ UNCHANGED submission
       ELSE IF request[h] = "session" THEN Goto(h, "flashLock") /\ UNCHANGED submission
       ELSE Goto(h, "write") /\ submission' = None
    /\ UNCHANGED <<ctlVars, regVars, doomed, mainVars, flashLock, gateVars>>

\* _require_idle(), and for the first check of a validation the release.
CheckIdle(h) ==
    /\ At(h, "checkIdle")
    /\ IF Busy THEN Goto(h, "refused") /\ UNCHANGED submission
       ELSE IF request[h] = "session" THEN Goto(h, "flashLock") /\ UNCHANGED submission
       ELSE IF upload[h] = None THEN Goto(h, "write") /\ submission' = None
       ELSE Goto(h, "stage") /\ UNCHANGED submission
    /\ UNCHANGED <<ctlVars, regVars, doomed, mainVars, flashLock, gateVars>>

\* The end of the with block, normally or by an exception.  Only a validation
\* that already wrote its file has an except clause left to run.
Leave(h) ==
    /\ At(h, "leave")
    /\ submission' = None
    /\ Answer(h)
    /\ UNCHANGED <<ctlVars, regVars, doomed, mainVars, flashLock, gateVars>>

\* Fault variant of Refused: the upload's file is left to the registry, which
\* never heard of it.
RefusedWithoutCleanup(h) ==
    /\ At(h, "refused")
    /\ submission' = None
    /\ Answer(h)
    /\ UNCHANGED <<ctlVars, regVars, doomed, mainVars, flashLock, gateVars>>

Refused(h) ==
    /\ At(h, "refused")
    /\ submission' = None
    /\ IF request[h] = "validate" /\ upload[h] # None
         THEN Goto(h, "cleanup") ELSE Answer(h)
    /\ UNCHANGED <<ctlVars, regVars, doomed, mainVars, flashLock, gateVars>>

----------------------------------------------------------------------------
(* POST /api/validate-upload                                               *)

WriteUpload(h) ==
    /\ At(h, "write")
    /\ \E u \in Artifacts :
        /\ CreateFile(u)
        /\ upload' = [upload EXCEPT ![h] = u]
    /\ pc' = [pc EXCEPT ![h] = "parse"]
    /\ UNCHANGED <<ctlVars, request, doomed, mainVars, lockVars, gateVars>>

\* parse_hex_file() and preflight(), outside every lock; a short body, a bad
\* image or an unusable target ends in the except clause.
Parse(h) ==
    /\ At(h, "parse")
    /\ \/ Goto(h, "enter") /\ UNCHANGED regVars
       \/ Goto(h, "enter") /\ NoteManual(upload[h])
       \/ Goto(h, "cleanup") /\ UNCHANGED regVars
    /\ UNCHANGED <<ctlVars, doomed, mainVars, lockVars, gateVars>>

StageUpload(h) ==
    /\ At(h, "stage")
    /\ IF StageRefused
         THEN RemoveExpired /\ Goto(h, "refused") /\ UNCHANGED doomed
         ELSE /\ Stage(upload[h])
              /\ doomed' = [doomed EXCEPT ![h] = Replaced]
              /\ Goto(h, "unlinkReplaced")
    /\ UNCHANGED <<ctlVars, mainVars, lockVars, gateVars>>

UnlinkReplaced(h) ==
    /\ At(h, "unlinkReplaced")
    /\ Unlink(doomed[h])
    /\ doomed' = [doomed EXCEPT ![h] = {}]
    /\ Goto(h, "leave")
    /\ UNCHANGED <<ctlVars, mainVars, lockVars, gateVars>>

Cleanup(h) ==
    /\ At(h, "cleanup")
    /\ Unlink({upload[h]})
    /\ Answer(h)
    /\ UNCHANGED <<ctlVars, doomed, mainVars, lockVars, gateVars>>

----------------------------------------------------------------------------
(* POST /api/flash                                                         *)

ClaimArtifact(h) ==
    /\ At(h, "claim")
    /\ \/ Claim(upload[h]) /\ Goto(h, "submit")
       \/ ~ClaimableEntry(upload[h]) /\ RemoveExpired /\ Goto(h, "refused")
    /\ UNCHANGED <<ctlVars, doomed, mainVars, lockVars, gateVars>>

\* confirm_unpaired_recovery must be given exactly for a manual recovery.
SubmitArtifact(h) ==
    /\ At(h, "submit")
    /\ \E confirmed \in BOOLEAN :
        IF confirmed = (upload[h] \in manual) /\ ~SubmitRefused
          THEN Submit(upload[h]) /\ Goto(h, "consume")
          ELSE UNCHANGED ctlVars /\ Goto(h, "release")
    /\ UNCHANGED <<regVars, doomed, mainVars, lockVars, gateVars>>

ReleaseArtifact(h) ==
    /\ At(h, "release")
    /\ ReleaseClaim(upload[h])
    /\ Goto(h, "refused")
    /\ UNCHANGED <<ctlVars, doomed, mainVars, lockVars, gateVars>>

ConsumeArtifact(h) ==
    /\ At(h, "consume")
    /\ Consume(upload[h])
    /\ Goto(h, "leave")
    /\ UNCHANGED <<ctlVars, doomed, mainVars, lockVars, gateVars>>

----------------------------------------------------------------------------
(* POST /api/led and /api/diagnostics: one serial session under both locks *)

\* Fault variant of BeginSession: the session relies on the idle check alone.
BeginSessionUnlocked(h) ==
    /\ At(h, "flashLock")
    /\ Goto(h, "session")
    /\ UNCHANGED <<ctlVars, regVars, doomed, mainVars, lockVars, gateVars>>

BeginSession(h) ==
    /\ At(h, "flashLock")
    /\ flashLock = None
    /\ flashLock' = h
    /\ Goto(h, "session")
    /\ UNCHANGED <<ctlVars, regVars, doomed, mainVars, submission, gateVars>>

\* Fault variant of EndSession: an error path keeps the flash lock.
EndSessionLocked(h) ==
    /\ At(h, "session")
    /\ Goto(h, "leave")
    /\ UNCHANGED <<ctlVars, regVars, doomed, mainVars, lockVars, gateVars>>

EndSession(h) ==
    /\ At(h, "session")
    /\ flashLock' = None
    /\ Goto(h, "leave")
    /\ UNCHANGED <<ctlVars, regVars, doomed, mainVars, submission, gateVars>>

----------------------------------------------------------------------------
(* The clock, the reaper and the signal handler                            *)

Tick ==
    /\ main # "exited"
    /\ \E u \in Artifacts : Age(u)
    /\ UNCHANGED <<ctlVars, threadVars, mainVars, lockVars, gateVars>>

\* expire(): the reaper every 30 s, and every GET of the page.
Expire ==
    /\ main # "exited"
    /\ RemoveExpired
    /\ UNCHANGED <<ctlVars, threadVars, mainVars, lockVars, gateVars>>

\* request_stop() on SIGTERM or SIGINT
RequestStop ==
    /\ main # "exited"
    /\ ~stopping
    /\ stopping' = TRUE
    /\ UNCHANGED <<ctlVars, regVars, threadVars, mainVars, lockVars, accepting>>

----------------------------------------------------------------------------
(* The main thread: run() of app/main.py                                   *)

MainGoto(from, to) == main = from /\ main' = to

\* flasher._flash_lock, taken by verify_running_application() and flash()
TakeFlashLock ==
    /\ flashLock = None
    /\ flashLock' = Main
    /\ MainGoto("startup", "verify") \/ MainGoto("flashLock", "flash")
    /\ UNCHANGED <<ctlVars, regVars, threadVars, job, submission, gateVars>>

\* _verify_startup_firmware() swallows every failure of the probe.
Verified ==
    /\ MainGoto("verify", "loop")
    /\ flashLock' = None
    /\ UNCHANGED <<ctlVars, regVars, threadVars, job, submission, gateVars>>

\* Fault variant of Loop: only a dequeued operation notices the stop event.
LoopForever ==
    /\ MainGoto("loop", "get")
    /\ UNCHANGED <<ctlVars, regVars, threadVars, job, lockVars, gateVars>>

\* while not stopping.is_set()
Loop ==
    /\ MainGoto("loop", IF stopping THEN "closing" ELSE "get")
    /\ UNCHANGED <<ctlVars, regVars, threadVars, job, lockVars, gateVars>>

Dequeue ==
    /\ MainGoto("get", "claim")
    /\ Get
    /\ job' = Head(queue)
    /\ UNCHANGED <<regVars, threadVars, lockVars, gateVars>>

GetTimeout ==
    /\ MainGoto("get", "loop")
    /\ queue = <<>>
    /\ UNCHANGED <<ctlVars, regVars, threadVars, job, lockVars, gateVars>>

ClaimJob ==
    /\ \/ stopping /\ MainGoto("claim", "dropJob") /\ ClaimRefused(job)
       \/ ~stopping /\ MainGoto("claim", "flashLock") /\ ClaimForRun(job)
    /\ UNCHANGED <<regVars, threadVars, job, lockVars, gateVars>>

Report ==
    /\ main = "flash"
    /\ \E percent \in Marks : ReportProgress(job, percent)
    /\ UNCHANGED <<regVars, threadVars, mainVars, lockVars, gateVars>>

FlashReturns ==
    /\ MainGoto("flash", "settle")
    /\ flashLock' = None
    /\ UNCHANGED <<ctlVars, regVars, threadVars, job, submission, gateVars>>

\* complete() or fail(); a flash whose staged file is gone can only fail.
Settle ==
    /\ MainGoto("settle", "discard")
    /\ \/ job.artifact \in files /\ Complete(job)
       \/ Fail(job)
    /\ UNCHANGED <<regVars, threadVars, job, lockVars, gateVars>>

\* discard_image() of the operation just taken: after a flash the loop goes
\* on, after a refused claim it is left.
DiscardImage ==
    /\ \/ MainGoto("discard", "loop")
       \/ MainGoto("dropJob", "closing")
    /\ Unlink({job.artifact})
    /\ job' = None
    /\ UNCHANGED <<ctlVars, threadVars, lockVars, gateVars>>

\* close_admission(), called by run(), by server.stop() and by api.close()
CloseAdmission ==
    /\ submission = None
    /\ \/ MainGoto("closing", "serverStop")
       \/ MainGoto("serverStop", "drain")
       \/ MainGoto("closeAgain", "clear")
    /\ accepting' = FALSE
    /\ UNCHANGED <<ctlVars, regVars, threadVars, job, lockVars, stopping>>

DrainQueue ==
    /\ MainGoto("drain", "unlinkDrained")
    /\ Drain
    /\ doomed' = [doomed EXCEPT ![Main] = {queue[n].artifact : n \in DOMAIN queue}]
    /\ UNCHANGED <<regVars, pc, request, upload, job, lockVars, gateVars>>

\* _ArtifactRegistry.close()
ClearRegistry ==
    /\ MainGoto("clear", "unlinkCleared")
    /\ ClearEntries
    /\ doomed' = [doomed EXCEPT ![Main] = staged]
    /\ UNCHANGED <<ctlVars, pc, request, upload, job, lockVars, gateVars>>

UnlinkDoomed ==
    /\ \/ MainGoto("unlinkDrained", "closeAgain")
       \/ MainGoto("unlinkCleared", "exited")
    /\ Unlink(doomed[Main])
    /\ doomed' = [doomed EXCEPT ![Main] = {}]
    /\ UNCHANGED <<ctlVars, pc, request, upload, job, lockVars, gateVars>>

Terminated == main = "exited" /\ UNCHANGED vars

----------------------------------------------------------------------------
HandlerStep(h) ==
    \/ Enter(h) \/ Admit(h) \/ CheckIdle(h) \/ Leave(h) \/ Refused(h)
    \/ WriteUpload(h) \/ Parse(h) \/ StageUpload(h) \/ UnlinkReplaced(h)
    \/ Cleanup(h)
    \/ ClaimArtifact(h) \/ SubmitArtifact(h) \/ ReleaseArtifact(h)
    \/ ConsumeArtifact(h)
    \/ BeginSession(h) \/ EndSession(h)

\* Steps of the main thread that wait for no lock; Report is left out, a
\* flash need not report anything.
MainStep ==
    \/ Verified \/ Loop \/ Dequeue \/ GetTimeout \/ ClaimJob \/ FlashReturns
    \/ Settle \/ DiscardImage \/ DrainQueue \/ ClearRegistry \/ UnlinkDoomed

Next ==
    \/ \E h \in Handlers : Arrive(h) \/ HandlerStep(h)
    \/ Tick \/ Expire \/ RequestStop
    \/ MainStep \/ TakeFlashLock \/ Report \/ CloseAdmission
    \/ Terminated

\* Threads keep running; a serial session, a parse and a flash all end because
\* each wait in them has a timeout.  threading.Lock is not fair, so the main
\* thread needs strong fairness where other threads keep taking the lock.
Fairness ==
    /\ \A h \in Handlers : WF_vars(HandlerStep(h))
    /\ WF_vars(MainStep)
    /\ SF_vars(TakeFlashLock)
    /\ SF_vars(CloseAdmission)

Spec == Init /\ [][Next]_vars
FairSpec == Spec /\ Fairness

----------------------------------------------------------------------------
(* Properties                                                              *)

\* The operation the main thread holds is always the one the controller calls
\* current, in the state the next controller method demands: _require_current
\* and the status tests of claim_for_run(), report_progress(), complete() and
\* fail() never raise, although get() changes the queue without the lock.
HeldJobIsCurrent ==
    /\ main = "claim" => Claimable(job)
    /\ main \in {"flashLock", "flash", "settle"} =>
        status = "running" /\ operationId = job.id

\* A "queued" status always stands for exactly one operation that somebody
\* will act on: it is in the queue or in the main thread's hands, never lost
\* and never in both places.
QueuedHasOneOwner ==
    /\ status = "queued" <=> (queue # <<>>) # (main = "claim")
    /\ queue # <<>> => operationId = queue[1].id
    /\ status = "running" <=> main \in {"flashLock", "flash", "settle"}

\* The temporary file of an accepted operation exists until the main thread
\* has finished with it: expiry, replacement by a later upload, a failing
\* request and shutdown never delete it first.
PendingImages ==
    {queue[n].artifact : n \in DOMAIN queue} \cup
    (IF main \in {"claim", "flashLock", "flash", "settle"} THEN {job.artifact} ELSE {})
ImageAvailable == PendingImages \subseteq files

\* An entry that could still be flashed exists only while nothing is pending,
\* so flash() needs no idle check of its own.
StagedOnlyWhenIdle == staged \ claimed # {} => ~Busy

\* A LED or diagnostics session never overlaps a queued or running flash,
\* although its idle check is long past when it opens the serial port.
SessionExcludesFlash ==
    \A h \in Handlers : pc[h] = "session" => ~Busy /\ main \notin {"verify", "flash"}

\* Once shutdown has drained the queue nothing is queued or running again, and
\* once it has cleared the registry nothing is staged again.
DrainIsFinal ==
    /\ main \in Closed \ {"serverStop", "drain"} => ~Busy /\ queue = <<>>
    /\ main \in {"unlinkCleared", "exited"} => staged = {}

\* At exit the only temporary files left are those of requests that the exit
\* itself cut off in the middle of a validation.
NoOrphanedUpload ==
    main = "exited" =>
        files \subseteq {upload[h] : h \in {g \in Handlers : request[g] = "validate"}}

\* Shown progress never goes back within one operation, although the flasher
\* reports its percentages out of order.
ProgressMonotone ==
    [][operationId' = operationId => progress' >= progress]_vars

\* Every accepted operation is eventually flashed to an outcome, or discarded
\* by a shutdown.
AcceptedIsResolved ==
    \A n \in OperationIds :
        (operationId = n /\ status = "queued") ~>
            (status \in {"succeeded", "failed"} \/ (stopping /\ ~Busy))

\* A stop request is eventually honoured, whatever requests keep coming.
ShutdownFinishes == stopping ~> (main = "exited")

----------------------------------------------------------------------------
(* The inductive invariant behind the properties above (FlashQueue_proofs) *)

HoldsJob == {"claim", "dropJob", "flashLock", "flash", "settle", "discard"}
Flashing == {"flashLock", "flash", "settle"}

\* A request thread past these points works on a real upload.
Uploading ==
    \A h \in Handlers : pc[h] \in {"parse", "stage", "submit"} => upload[h] \in Artifacts

\* Who owns the accepted operation.
Ownership ==
    /\ main \in HoldsJob => job \in Operations
    /\ queue # <<>> =>
        /\ status = "queued"
        /\ operationId = queue[1].id
        /\ main \notin {"claim"} \cup Flashing
    /\ main = "claim" => Claimable(job)
    /\ main \in Flashing => status = "running" /\ operationId = job.id
    /\ status = "queued" => queue # <<>> \/ main = "claim"
    /\ status = "running" => main \in Flashing

\* Who holds which lock.
Locking ==
    /\ \A h \in Handlers : pc[h] \in Locked <=> submission = h
    /\ \A h \in Handlers : pc[h] = "session" <=> flashLock = h
    /\ main \in {"verify", "flash"} <=> flashLock = Main

\* Inside the admission lock but past its two gates.
Admitted == Locked \ {"admit", "refused"}

\* close_admission() cannot overtake a request that passed the gate.
Admission ==
    /\ main \in Closed => ~accepting
    /\ \A h \in Handlers : pc[h] \in Admitted => main \notin Closed
    /\ \A h \in Handlers : pc[h] \in {"flashLock", "session", "stage"} => ~Busy
    /\ main \in Closed \ {"serverStop", "drain"} => queue = <<>>
    /\ main \in {"unlinkCleared", "exited"} => staged = {}

\* The registry still lists u although an operation already owns it: its
\* request thread is between submit() and consume().
Submitted(u) == \E h \in Handlers : pc[h] = "consume" /\ upload[h] = u

\* The images of operations in the queue, and of the one the main thread holds.
QueuedImages == {queue[n].artifact : n \in DOMAIN queue}
JobImages == IF main \in HoldsJob THEN {job.artifact} ELSE {}
HeldImages == QueuedImages \cup JobImages

\* Which request a thread works on at each point, and whether it has an upload.
RoleOK(h) ==
    /\ pc[h] = "ready" <=> request[h] = None
    /\ pc[h] \in {"write", "parse", "cleanup", "stage", "unlinkReplaced"} =>
           request[h] = "validate"
    /\ pc[h] \in {"claim", "submit", "release", "consume"} => request[h] = "flash"
    /\ pc[h] \in {"flashLock", "session"} => request[h] = "session"
    /\ pc[h] = "checkIdle" => request[h] # "flash"
    /\ pc[h] = "write" => upload[h] = None
    /\ pc[h] \in {"parse", "cleanup", "stage", "unlinkReplaced"} => upload[h] # None
    /\ request[h] \in {None, "session"} => upload[h] = None
    /\ upload[h] \in written \cup {None}

Roles == \A h \in Handlers : RoleOK(h)

\* Thread h has received an upload that is not in the registry yet.
Receiving(h) ==
    /\ request[h] = "validate"
    /\ upload[h] # None
    /\ pc[h] \notin {"unlinkReplaced", "leave"}

\* Until its validation is answered nobody else knows of an upload.
Alone ==
    \A g, h \in Handlers :
        g # h /\ request[h] = "validate" /\ upload[h] # None => upload[g] # upload[h]

\* The claimed entry is that of the one thread between claim() and the end of
\* its claim, and there is never more than one entry.
ClaimPcs == {"submit", "release", "consume"}
Claims ==
    /\ \A u, v \in staged : u = v
    /\ \A u \in claimed : \E h \in Handlers : pc[h] \in ClaimPcs /\ upload[h] = u
    /\ \A h \in Handlers : pc[h] \in ClaimPcs => upload[h] \in claimed
    /\ \A h \in Handlers : pc[h] \in {"submit", "release"} => ~Busy
    /\ staged \ claimed # {} => ~Busy

\* A file has one owner: the thread that receives it, the registry, the
\* operation, or the thread that is about to unlink it.  Only between submit()
\* and consume() does the registry still list an operation's image.
Custody ==
    /\ staged \cup HeldImages \subseteq written
    /\ PendingImages \subseteq files
    /\ QueuedImages \cap JobImages = {}
    /\ \A h \in Handlers : Receiving(h) => upload[h] \in files \ (staged \cup HeldImages)
    /\ \A u \in staged : Submitted(u) \/ u \in files \ HeldImages
    /\ \A t \in Threads : doomed[t] \subseteq written \ (staged \cup HeldImages)
    /\ \A t \in Threads : \A h \in Handlers : Receiving(h) => upload[h] \notin doomed[t]

\* Every file has an owner.
Accounted ==
    /\ \A u \in files :
        \/ u \in staged \cup HeldImages
        \/ \E t \in Threads : u \in doomed[t]
        \/ \E h \in Handlers : request[h] = "validate" /\ upload[h] = u
    /\ \A h \in Handlers : doomed[h] # {} => pc[h] = "unlinkReplaced"
    /\ doomed[Main] # {} => main \in {"unlinkDrained", "unlinkCleared"}
    /\ \A h \in Handlers :
        pc[h] \in {"unlinkReplaced", "leave"} /\ request[h] = "validate" /\ upload[h] \in files =>
            upload[h] \in staged
    /\ \A h \in Handlers : pc[h] = "consume" /\ upload[h] \in files => upload[h] \in HeldImages

\* Only a stop request makes the main thread leave its loop, and ids are
\* drawn in order.
Orderly ==
    /\ main \in {"dropJob", "closing"} \cup Closed => stopping
    /\ operationId <= issued

IInv ==
    /\ TypeOK /\ Uploading /\ Ownership /\ Locking /\ Admission
    /\ Roles /\ Alone /\ Claims /\ Custody /\ Accounted /\ Orderly

----------------------------------------------------------------------------
(* Refinement                                                              *)

LifeOf(u) ==
    IF u \notin written THEN "absent"
    ELSE IF status = "queued" /\ u \in PendingImages THEN "queued"
    ELSE IF status = "running" /\ job.artifact = u THEN "flashing"
    ELSE IF u \in staged /\ ~Submitted(u) THEN "staged"
    ELSE IF \E h \in Handlers :
              /\ request[h] = "validate" /\ upload[h] = u
              /\ pc[h] \in {"parse", "enter", "admit", "checkIdle", "stage",
                            "refused", "cleanup"}
         THEN "received"
    ELSE "gone"

Lifecycle == INSTANCE UploadLifecycle WITH life <- [u \in Artifacts |-> LifeOf(u)]

\* The threads, locks, queue and registry together implement the one-shot
\* authorisation: no interleaving lets an upload be flashed twice, replaced
\* while pending, or started after a shutdown request.
ImplementsLifecycle == Lifecycle!Spec
=============================================================================
