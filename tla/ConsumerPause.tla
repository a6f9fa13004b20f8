---------------------------- MODULE ConsumerPause ----------------------------
(***************************************************************************)
(* The transaction around every exclusive use of the radio: the consumers  *)
(* of the CUL that are running are stopped, the body runs, and they are    *)
(* started again unless the radio's state is uncertain.  This is           *)
(* temporarily_stop_cul_consumers() of app/supervisor.py with the calls    *)
(* its users in app/flasher.py make on the pause object.                   *)
(*                                                                         *)
(* The other side is Home Assistant's Supervisor, which is not under src/: *)
(* it keeps the real state of each add-on, any request to it may be lost,  *)
(* a command may take effect although its answer is lost, and, where       *)
(* lagging, it may go on working on a command after the client's request   *)
(* has ended.                                                              *)
(***************************************************************************)
EXTENDS Integers, FiniteSets, FiniteSetsExt

CONSTANTS
    Addons,     \* consumers that name the CUL; their numbers are the slug order
    Attempts,   \* _RESTORE_ATTEMPTS
    MaxRuns     \* bound: how many transactions the model runs

ASSUME AddonsAssumption == Addons \subseteq Nat /\ IsFiniteSet(Addons)
ASSUME AttemptsAssumption == Attempts \in Nat \ {0}
ASSUME MaxRunsAssumption == MaxRuns \in Nat

VARIABLES
    addon,      \* addon[a]: the Supervisor's state of a
    command,    \* command[a]: a command the Supervisor is still working on
    lagging,    \* may a command take effect after its request has ended?
    pc,         \* where the transaction is
    todo,       \* slugs the current loop has yet to handle
    matches,    \* running_cul_consumers_using_device()
    stopped,    \* the list `stopped'; its order is the slug order
    radio,      \* what the body did to the radio so far
    leave,      \* not _restore_after_error
    retained,   \* _retained_addons
    attempt,    \* the attempt counter of _restore()
    failures,   \* the list _restore() returns
    result,     \* how the transaction ended, or is about to end
    runs        \* transactions begun

supervisorVars == <<addon, command, lagging>>
pauseVars == <<radio, leave, retained>>
restoreVars == <<attempt, failures>>
vars == <<supervisorVars, pc, todo, matches, stopped, radio, leave, retained,
          attempt, failures, result, runs>>

States == {"started", "stopped", "error"}
Commands == {"none", "stop", "start"}
Pcs == {"idle", "scan", "stop", "await", "body", "restore", "confirm"}

TypeOK ==
    /\ addon \in [Addons -> States]
    /\ command \in [Addons -> Commands]
    /\ lagging \in BOOLEAN
    /\ pc \in Pcs
    /\ todo \subseteq Addons
    /\ matches \subseteq Addons
    /\ stopped \subseteq matches
    /\ radio \in {"normal", "uncertain", "verified"}
    /\ leave \in BOOLEAN
    /\ retained \subseteq stopped
    /\ attempt \in 1..Attempts
    /\ failures \subseteq stopped
    /\ result \in {"none", "ok", "error"}
    /\ runs \in 0..MaxRuns

Init ==
    /\ addon \in [Addons -> {"started", "stopped"}]
    /\ command = [a \in Addons |-> "none"]
    /\ lagging \in BOOLEAN
    /\ pc = "idle"
    /\ todo = {}
    /\ matches = {}
    /\ stopped = {}
    /\ radio = "normal"
    /\ leave = FALSE
    /\ retained = {}
    /\ attempt = 1
    /\ failures = {}
    /\ result = "none"
    /\ runs = 0

----------------------------------------------------------------------------
(* The Supervisor                                                          *)

\* States a command can lead to.  A stopped container may show as "error",
\* and a started one may fail.
Outcomes(c) == IF c = "stop" THEN {"stopped", "error"} ELSE {"started", "error"}

\* POST /addons/<a>/<c>: the command is done, is being worked on, or never
\* arrived; answered says whether the client gets its answer.  A second
\* command for the same add-on is rejected while one is in progress.
Post(a, c, answered) ==
    \/ /\ command[a] = "none"
       /\ \E s \in Outcomes(c) : addon' = [addon EXCEPT ![a] = s]
       /\ UNCHANGED <<command, lagging>>
    \/ /\ command[a] = "none"
       /\ lagging
       /\ command' = [command EXCEPT ![a] = c]
       /\ UNCHANGED <<addon, lagging>>
    \/ ~answered /\ UNCHANGED supervisorVars

\* The Supervisor finishes a command nobody waits for any more.
Finish(a) ==
    /\ command[a] # "none"
    /\ \E s \in Outcomes(command[a]) : addon' = [addon EXCEPT ![a] = s]
    /\ command' = [command EXCEPT ![a] = "none"]
    /\ UNCHANGED <<lagging, pc, todo, matches, stopped, pauseVars, restoreVars, result, runs>>

----------------------------------------------------------------------------
(* Entering the transaction                                                *)

First == Min(todo)
Last == Max(todo)

Begin ==
    /\ pc = "idle"
    /\ runs < MaxRuns
    /\ runs' = runs + 1
    /\ pc' = "scan"
    /\ todo' = Addons
    /\ matches' = {}
    /\ stopped' = {}
    /\ radio' = "normal"
    /\ leave' = FALSE
    /\ retained' = {}
    /\ attempt' = 1
    /\ failures' = {}
    /\ result' = "none"
    /\ UNCHANGED supervisorVars

\* One GET of running_cul_consumers_using_device(): only a started consumer
\* matches.
Match ==
    /\ pc = "scan"
    /\ \E a \in todo :
        /\ todo' = todo \ {a}
        /\ matches' = IF addon[a] = "started" THEN matches \cup {a} ELSE matches
    /\ UNCHANGED <<supervisorVars, pc, stopped, pauseVars, restoreVars, result, runs>>

\* A failing GET ends the transaction before it stops anything.
MatchFails ==
    /\ pc = "scan"
    /\ todo # {}
    /\ pc' = "idle"
    /\ result' = "error"
    /\ UNCHANGED <<supervisorVars, todo, matches, stopped, pauseVars, restoreVars, runs>>

Matched ==
    /\ pc = "scan"
    /\ todo = {}
    /\ pc' = "stop"
    /\ todo' = matches
    /\ UNCHANGED <<supervisorVars, matches, stopped, pauseVars, restoreVars, result, runs>>

\* stop_addon() answered: the slug is recorded before the wait.
StopAddon ==
    /\ pc = "stop"
    /\ todo # {}
    /\ Post(First, "stop", TRUE)
    /\ stopped' = stopped \cup {First}
    /\ pc' = "await"
    /\ UNCHANGED <<todo, matches, pauseVars, restoreVars, result, runs>>

\* except BaseException: restore what was recorded, then raise.
GiveUp(set) ==
    /\ pc' = "restore"
    /\ todo' = set
    /\ attempt' = 1
    /\ result' = "error"

\* stop_addon() raises: the slug is not recorded, even if the stop took effect.
StopAddonFails ==
    /\ pc = "stop"
    /\ todo # {}
    /\ Post(First, "stop", FALSE)
    /\ GiveUp(stopped)
    /\ UNCHANGED <<matches, stopped, pauseVars, failures, runs>>

\* Fault variant of StopConfirmed: the answer to the stop is taken as done.
StopAssumed ==
    /\ pc = "await"
    /\ pc' = "stop"
    /\ todo' = todo \ {First}
    /\ UNCHANGED <<supervisorVars, matches, stopped, pauseVars, restoreVars, result, runs>>

\* wait_for_state(slug, "stopped") accepts every quiescent state.
StopConfirmed ==
    /\ pc = "await"
    /\ addon[First] \in {"stopped", "error"}
    /\ pc' = "stop"
    /\ todo' = todo \ {First}
    /\ UNCHANGED <<supervisorVars, matches, stopped, pauseVars, restoreVars, result, runs>>

\* A poll fails, or the wait times out.
StopUnconfirmed ==
    /\ pc = "await"
    /\ GiveUp(stopped)
    /\ UNCHANGED <<supervisorVars, matches, stopped, pauseVars, failures, runs>>

EnterBody ==
    /\ pc = "stop"
    /\ todo = {}
    /\ pc' = "body"
    /\ UNCHANGED <<supervisorVars, todo, matches, stopped, pauseVars, restoreVars, result, runs>>

----------------------------------------------------------------------------
(* The body: verify, LED, diagnostics or flash of app/flasher.py           *)

\* leave_stopped_after_error(), just before B01 or at the start of a recovery.
LeaveStopped ==
    /\ pc = "body"
    /\ ~leave
    /\ leave' = TRUE
    /\ radio' = "uncertain"
    /\ UNCHANGED <<supervisorVars, pc, todo, matches, stopped, retained, restoreVars, result, runs>>

\* The application answered V.
Verify ==
    /\ pc = "body"
    /\ radio' = "verified"
    /\ UNCHANGED <<supervisorVars, pc, todo, matches, stopped, leave, retained, restoreVars,
                   result, runs>>

\* retain_addons(): a verified flash changed the by-id alias.
RetainAddons ==
    /\ pc = "body"
    /\ leave /\ radio = "verified"
    /\ retained' = stopped
    /\ UNCHANGED <<supervisorVars, pc, todo, matches, stopped, radio, leave, restoreVars,
                   result, runs>>

AddonsToRestore == stopped \ retained

\* Every body ends with a V answer, or raises.
BodyReturns ==
    /\ pc = "body"
    /\ radio = "verified"
    /\ pc' = "restore"
    /\ todo' = AddonsToRestore
    /\ attempt' = 1
    /\ result' = "ok"
    /\ UNCHANGED <<supervisorVars, matches, stopped, pauseVars, failures, runs>>

\* Fault variant of BodyRaises: every error restores.
BodyRaisesRestoring ==
    /\ pc = "body"
    /\ GiveUp(AddonsToRestore)
    /\ UNCHANGED <<matches, supervisorVars, stopped, pauseVars, failures, runs>>

BodyRaises ==
    /\ pc = "body"
    /\ GiveUp(IF leave THEN {} ELSE AddonsToRestore)
    /\ UNCHANGED <<supervisorVars, matches, stopped, pauseVars, failures, runs>>

----------------------------------------------------------------------------
(* _restore()                                                              *)

Restored ==
    /\ todo' = todo \ {Last}
    /\ attempt' = 1
    /\ pc' = "restore"
    /\ UNCHANGED failures

\* Fault variants of AttemptFails: the slug is given up silently; the counter
\* is never advanced.
AttemptFailsSilently ==
    /\ pc' = "restore"
    /\ IF attempt < Attempts
         THEN attempt' = attempt + 1 /\ UNCHANGED <<todo, failures>>
         ELSE attempt' = 1 /\ todo' = todo \ {Last} /\ UNCHANGED failures

AttemptFailsForever ==
    /\ pc' = "restore"
    /\ UNCHANGED <<attempt, todo, failures>>

\* An attempt raised SupervisorError; the last one gives the slug up.
AttemptFails ==
    /\ pc' = "restore"
    /\ IF attempt < Attempts
         THEN attempt' = attempt + 1 /\ UNCHANGED <<todo, failures>>
         ELSE /\ attempt' = 1
              /\ todo' = todo \ {Last}
              /\ failures' = failures \cup {Last}

\* addon_state() answers; only an add-on not yet started is sent a start.
RestoreAddon ==
    /\ pc = "restore"
    /\ todo # {}
    /\ \/ /\ addon[Last] = "started" /\ UNCHANGED supervisorVars
          /\ pc' = "confirm" /\ UNCHANGED <<todo, restoreVars>>
       \/ /\ addon[Last] # "started" /\ Post(Last, "start", TRUE)
          /\ pc' = "confirm" /\ UNCHANGED <<todo, restoreVars>>
       \/ /\ addon[Last] # "started" /\ Post(Last, "start", FALSE)
          /\ AttemptFails
    /\ UNCHANGED <<matches, stopped, pauseVars, result, runs>>

QueryFails ==
    /\ pc = "restore"
    /\ todo # {}
    /\ AttemptFails
    /\ UNCHANGED <<supervisorVars, matches, stopped, pauseVars, result, runs>>

\* wait_for_state(slug, "started")
StartConfirmed ==
    /\ pc = "confirm"
    /\ addon[Last] = "started"
    /\ Restored
    /\ UNCHANGED <<supervisorVars, matches, stopped, pauseVars, result, runs>>

StartUnconfirmed ==
    /\ pc = "confirm"
    /\ AttemptFails
    /\ UNCHANGED <<supervisorVars, matches, stopped, pauseVars, result, runs>>

\* Fault variant of End: what _restore() returns is ignored.
EndIgnoringFailures ==
    /\ pc = "restore"
    /\ todo = {}
    /\ pc' = "idle"
    /\ UNCHANGED <<supervisorVars, todo, matches, stopped, pauseVars, restoreVars, result, runs>>

\* After a good body, a consumer that could not be restored is an error.
End ==
    /\ pc = "restore"
    /\ todo = {}
    /\ pc' = "idle"
    /\ result' = IF failures # {} THEN "error" ELSE result
    /\ UNCHANGED <<supervisorVars, todo, matches, stopped, pauseVars, restoreVars, runs>>

----------------------------------------------------------------------------
Terminated == pc = "idle" /\ runs = MaxRuns /\ UNCHANGED vars

Step ==
    \/ Match \/ MatchFails \/ Matched
    \/ StopAddon \/ StopAddonFails \/ StopConfirmed \/ StopUnconfirmed \/ EnterBody
    \/ LeaveStopped \/ Verify \/ RetainAddons \/ BodyReturns \/ BodyRaises
    \/ RestoreAddon \/ QueryFails \/ StartConfirmed \/ StartUnconfirmed \/ End

Next ==
    \/ Begin \/ Step
    \/ \E a \in Addons : Finish(a)
    \/ Terminated

Spec == Init /\ [][Next]_vars

\* The client's thread keeps running: every request and every wait has a
\* deadline.  Nothing is assumed of the Supervisor.
FairSpec == Spec /\ WF_vars(Step)

----------------------------------------------------------------------------
(* Properties                                                              *)

\* In the body no consumer that was found running holds the radio or is about
\* to get it back, whatever answers were lost while it was stopped.
ExclusiveInBody ==
    pc = "body" =>
        \A a \in matches : addon[a] # "started" /\ command[a] # "start"

\* Once the radio's state is uncertain no consumer reopens it: neither the
\* error path nor a late start brings one back before V has answered.  With a
\* Supervisor that does not lag this holds for every consumer; a start sent
\* before this transaction and still under way is one its scan cannot see.
NoReopenWhileUncertain ==
    radio = "uncertain" =>
        \A a \in Addons : a \in matches \/ ~lagging =>
            addon[a] # "started" /\ command[a] # "start"

\* A transaction starts only consumers it found running and stopped itself,
\* and never one it said it would leave stopped.
StartsOnlyWhatItStopped ==
    [][\A a \in Addons :
        ~lagging /\ addon[a] # "started" /\ addon'[a] = "started" =>
            a \in stopped \ retained /\ radio # "uncertain"]_vars

\* When the transaction is over, every consumer it recorded as stopped runs
\* again, or the operator is told why not: it is among the failures, it was
\* retained, or the error says that all remain stopped.
RestoredOrReported ==
    pc = "idle" /\ ~lagging =>
        \A a \in stopped :
            \/ addon[a] = "started"
            \/ a \in failures \cup retained
            \/ leave /\ result = "error"

\* A transaction that reports success left no consumer behind but the ones it
\* retained: losing an answer while stopping can only end in an error.
SuccessIsComplete ==
    pc = "idle" /\ result = "ok" /\ ~lagging =>
        radio = "verified" /\ \A a \in matches \ retained : addon[a] = "started"

\* README: "A startup version check or a flash that fails before DFU begins
\* restores paused consumers", so none that was running is left stopped
\* without being named as a failure.
FailureRestores ==
    pc = "idle" /\ result = "error" /\ ~leave /\ ~lagging =>
        \A a \in matches : addon[a] = "started" \/ a \in failures

\* Every transaction ends, whatever the Supervisor does.
TransactionEnds == pc # "idle" ~> pc = "idle"
=============================================================================
