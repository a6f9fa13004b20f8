--------------------------- MODULE FlashTransaction ---------------------------
(***************************************************************************)
(* One radio, its firmware and the record that survives a crash: the       *)
(* firmware-changing transaction of app/flasher.py with the recovery       *)
(* record of app/state.py.                                                 *)
(*                                                                         *)
(* The flasher never sees a device, only what USB shows: a port, a         *)
(* personality (the CUL application or the DFU bootloader) and a serial    *)
(* descriptor.  The model keeps the devices themselves, so that it can say *)
(* whether the flasher erased the one it meant.                            *)
(*                                                                         *)
(* What the consumers' pause does in detail is ConsumerPause; here it      *)
(* either stops the readers of the configured path or fails.  The lock     *)
(* that makes flashes and serial sessions exclude each other is in         *)
(* FlashQueue, so here one transaction runs at a time.                     *)
(***************************************************************************)
EXTENDS Naturals

CONSTANTS
    Devices,      \* ATmega32U4 radios; a configured path names one of them
    Paths,        \* the devices whose path the configuration may name
    Ports,        \* USB topologies
    AppSerial,    \* AppSerial[d]: descriptor serial of the application, or None
    BootSerial,   \* BootSerial[d]: descriptor serial of the bootloader, or None
    None,         \* Python's None, also the port of an unplugged device
    Scenarios     \* hosts and bounds a behaviour may start with

Serials == {AppSerial[d] : d \in Devices} \cup {BootSerial[d] : d \in Devices}

ASSUME PathsAssumption == Paths \subseteq Devices
ASSUME PortsAssumption == None \notin Ports \cup Devices

\* qemu: qemu_usb_reenumeration_workaround, on a host that needs it;
\* alone: no other radio is plugged in;
\* moves: bound, how often somebody plugs a device elsewhere;
\* faults: bound, how many calls fail, processes die or reports get lost.
ASSUME ScenariosAssumption ==
    Scenarios \subseteq [qemu : BOOLEAN, alone : BOOLEAN, moves : Nat, faults : Nat]

VARIABLES
    port,         \* port[d]: where d is plugged in
    mode,         \* mode[d]: the personality d runs
    visible,      \* visible[d]: USB has finished enumerating d
    firmware,     \* firmware[d]
    configured,   \* settings.device: the device its path names
    known,        \* the persisted KnownDevice
    window,       \* the handoff deadline has not passed
    ticket,       \* the accepted validation: its manual target, if it has one
    pc,           \* where flash() is
    plan,         \* plan.mode of the running flash
    target,       \* the topology and serial the flash is bound to
    reading,      \* reading[d]: consumers of d's path are running
    paused,       \* the running flash stopped them
    leave,        \* leave_stopped_after_error() was called
    scenario,     \* the host and the bounds of this behaviour
    moves, faults,\* what is left of the bounds
    recordSwapped,\* history: a device was replugged while the record, or the
                  \* flash that wrote it, accepted a changed serial
    flashSwapped  \* history: the same of the running flash, or of the record
                  \* it recovers from

deviceVars == <<port, mode, visible, firmware>>
stateVars == <<configured, known, window>>
flashVars == <<ticket, pc, plan, target>>
readerVars == <<reading, paused, leave>>
hostVars == <<scenario, moves>>
historyVars == <<recordSwapped, flashSwapped>>
vars == <<deviceVars, stateVars, flashVars, readerVars, hostVars, faults, historyVars>>

Bindings == {"verified-application", "handoff-pending", "observed-bootloader",
             "legacy-unknown"}
Targets == [topology : Ports, serial : Serials]
KnownDevices == [topology : Ports, serial : Serials, binding : Bindings, path : Paths]
NoTarget == [topology |-> None, serial |-> None]
\* Its topology is None unless the ticket is for an unpaired bootloader.
AutoTicket == NoTarget

ASSUME NoneAssumption == None \notin KnownDevices \cup Targets \cup {AutoTicket}

TypeOK ==
    /\ port \in [Devices -> Ports \cup {None}]
    /\ mode \in [Devices -> {"app", "boot"}]
    /\ visible \in [Devices -> BOOLEAN]
    /\ firmware \in [Devices -> {"old", "broken", "new"}]
    /\ configured \in Paths
    /\ known \in KnownDevices \cup {None}
    /\ window \in BOOLEAN
    /\ ticket \in Targets \cup {AutoTicket, None}
    /\ pc \in {"idle", "pause", "enter", "handoff", "b01", "waitBoot", "store", "erase",
               "write", "start", "waitApp", "save"}
    /\ plan \in {"none", "application", "recovery", "manual-recovery"}
    /\ target \in Targets \cup {NoTarget}
    /\ reading \in [Devices -> BOOLEAN]
    /\ paused \in BOOLEAN
    /\ leave \in BOOLEAN
    /\ scenario \in Scenarios
    /\ moves \in 0..scenario.moves
    /\ faults \in 0..scenario.faults
    /\ recordSwapped \in BOOLEAN
    /\ flashSwapped \in BOOLEAN

----------------------------------------------------------------------------
(* USB                                                                     *)

Running(m) == {d \in Devices : visible[d] /\ mode[d] = m /\ port[d] # None}
At(m, p) == {d \in Running(m) : port[d] = p}
FreePorts == Ports \ {port[d] : d \in Devices}

Application(d) == [topology |-> port[d], serial |-> AppSerial[d]]
Bootloader(d) == [topology |-> port[d], serial |-> BootSerial[d]]

\* After a reset a device runs its application if it has one.
ResetMode(d) == IF firmware[d] = "broken" THEN "boot" ELSE "app"

\* A personality change takes the device off the bus for a while.
Leaves(d, m) ==
    /\ mode' = [mode EXCEPT ![d] = m]
    /\ visible' = [visible EXCEPT ![d] = FALSE]
    /\ UNCHANGED port

\* The device shows up again; QEMU may give it another guest path.
Appear(d) ==
    /\ ~visible[d]
    /\ visible' = [visible EXCEPT ![d] = TRUE]
    /\ \/ UNCHANGED port
       \/ scenario.qemu /\ \E p \in FreePorts : port' = [port EXCEPT ![d] = p]
    /\ UNCHANGED <<mode, firmware, stateVars, flashVars, readerVars, hostVars, faults,
                   historyVars>>

\* A recovery from this record takes a bootloader with another serial.
RecordAcceptsChange == known # None /\ known.binding = "handoff-pending" /\ window

\* The running flash takes what is on its port for the radio, whatever its
\* serial: from V to the bootloader after B01, and for the started application.
FlashAcceptsChange ==
    pc \in {"handoff", "b01", "waitApp"} \/ (pc = "waitBoot" /\ plan = "application")

\* Somebody unplugs a device, and may plug it in elsewhere; its button, held
\* meanwhile, selects the bootloader.
Move(d) ==
    /\ moves > 0
    /\ moves' = moves - 1
    /\ \E p \in FreePorts \cup {None} :
        /\ p # port[d]
        /\ port' = [port EXCEPT ![d] = p]
    /\ \E m \in {ResetMode(d), "boot"} : mode' = [mode EXCEPT ![d] = m]
    /\ visible' = [visible EXCEPT ![d] = TRUE]
    /\ recordSwapped' = (recordSwapped \/ RecordAcceptsChange)
    /\ flashSwapped' = (flashSwapped \/ FlashAcceptsChange)
    /\ UNCHANGED <<firmware, stateVars, flashVars, readerVars, scenario, faults>>

----------------------------------------------------------------------------
(* The recovery record                                                     *)

\* _store_* and the saves of verified sessions, of the configured path.
Save(t, binding) ==
    /\ known' = [topology |-> t.topology, serial |-> t.serial, binding |-> binding,
                 path |-> configured]
    /\ window' = (binding = "handoff-pending")
    /\ recordSwapped' = flashSwapped

\* _post_dfu_timeout() seconds have passed since the handoff was saved: from
\* here on the record accepts nothing that its serial does not name.
WindowCloses ==
    /\ window
    /\ window' = FALSE
    /\ recordSwapped' = FALSE
    /\ UNCHANGED <<deviceVars, configured, known, flashVars, readerVars, hostVars, faults,
                   flashSwapped>>

\* _state_matches_configuration()
KnownForConfig == known # None /\ known.path = configured

\* _has_changed_usb_serial()
ChangedSerial(expected, d) ==
    expected # None /\ BootSerial[d] # None /\ expected # BootSerial[d]

\* Fault variant of RecoveryTargets: the handoff window never closes.
RecoveryAnyTime ==
    {d \in Devices :
        /\ KnownForConfig
        /\ d \in At("boot", known.topology)
        /\ ChangedSerial(known.serial, d) => known.binding = "handoff-pending"}

\* _bootloader_for_known(): the bootloader on the saved port, whose serial may
\* differ from the saved one only inside the handoff window.
RecoveryTargets ==
    {d \in Devices :
        /\ KnownForConfig
        /\ d \in At("boot", known.topology)
        /\ ChangedSerial(known.serial, d) =>
            known.binding = "handoff-pending" /\ window}

\* _single_unpaired_recovery_target()
UnpairedTargets == {d \in Devices : Running("boot") = {d}}

\* _manual_bootloader_for_target()
ConfirmedTargets ==
    {d \in At("boot", ticket.topology) :
        ticket.serial # None => BootSerial[d] = ticket.serial}

ApplicationHere == configured \in Running("app")

----------------------------------------------------------------------------
(* preflight() and _plan()                                                 *)

\* An upload is validated.  The operator confirms an unpaired bootloader only
\* when it is the configured radio.
Preflight ==
    /\ pc = "idle"
    /\ ticket = None
    /\ \/ (ApplicationHere \/ RecoveryTargets # {}) /\ ticket' = AutoTicket
       \/ /\ ~ApplicationHere /\ RecoveryTargets = {}
          /\ configured \in UnpairedTargets
          /\ ticket' = Bootloader(configured)
    /\ UNCHANGED <<deviceVars, stateVars, pc, plan, target, readerVars, hostVars, faults,
                   historyVars>>

\* preflight() raises: there is nothing to flash, or it is ambiguous.
PreflightRefused ==
    /\ pc = "idle"
    /\ ticket = None
    /\ ~ApplicationHere /\ RecoveryTargets = {} /\ configured \notin UnpairedTargets
    /\ UNCHANGED vars

Plan(name, t) ==
    /\ plan' = name
    /\ target' = t
    /\ pc' = "pause"

\* Fault variant of StartFlash: the plan of the validation is carried over.
StartFlashUnplanned ==
    /\ pc = "idle"
    /\ ticket # None
    /\ ticket' = None
    /\ ticket = AutoTicket /\ Plan("application", Application(configured))
    /\ UNCHANGED <<deviceVars, stateVars, readerVars, hostVars, faults, historyVars>>

\* _plan() of flash(): what USB shows now decides, not what it showed when the
\* upload was validated; only an unpaired bootloader is carried over.
StartFlash ==
    /\ pc = "idle"
    /\ ticket # None
    /\ ticket' = None
    /\ \/ /\ ApplicationHere /\ ticket = AutoTicket
          /\ Plan("application", Application(configured))
          /\ UNCHANGED flashSwapped
       \/ /\ ~ApplicationHere /\ ticket # AutoTicket
          /\ \E d \in ConfirmedTargets : Plan("manual-recovery", Bootloader(d))
          /\ UNCHANGED flashSwapped
       \/ /\ ~ApplicationHere /\ ticket = AutoTicket
          /\ \E d \in RecoveryTargets : Plan("recovery", Bootloader(d))
          /\ flashSwapped' = recordSwapped
    /\ UNCHANGED <<deviceVars, stateVars, readerVars, hostVars, faults, recordSwapped>>

\* The plan is refused: the validation was for something else.
RefuseFlash ==
    /\ pc = "idle"
    /\ ticket # None
    /\ IF ticket = AutoTicket THEN ~ApplicationHere /\ RecoveryTargets = {}
                              ELSE ApplicationHere \/ ConfirmedTargets = {}
    /\ ticket' = None
    /\ UNCHANGED <<deviceVars, stateVars, pc, plan, target, readerVars, hostVars, faults,
                   historyVars>>

----------------------------------------------------------------------------
(* Ends of a flash                                                         *)

Finish(restore) ==
    /\ pc' = "idle"
    /\ plan' = "none"
    /\ target' = NoTarget
    /\ reading' = [reading EXCEPT ![configured] = @ \/ (paused /\ restore)]
    /\ paused' = FALSE
    /\ leave' = FALSE
    /\ flashSwapped' = FALSE
    /\ UNCHANGED ticket

\* The context manager restores the consumers unless the pause says otherwise.
Raise == Finish(~leave)

Fault == faults > 0 /\ faults' = faults - 1
MayFault(p) == IF p THEN Fault ELSE UNCHANGED faults

\* The process dies and is started again, perhaps with another configured
\* path.  Uploads are lost; what it stopped stays stopped.
Restart ==
    /\ Fault
    /\ configured' \in Paths
    /\ ticket' = None
    /\ pc' = "idle"
    /\ plan' = "none"
    /\ target' = NoTarget
    /\ paused' = FALSE
    /\ leave' = FALSE
    /\ flashSwapped' = FALSE
    /\ UNCHANGED <<deviceVars, known, window, reading, hostVars, recordSwapped>>

----------------------------------------------------------------------------
(* The application branch of flash()                                       *)

\* A recovery must not restore after an error from here on.
PauseConsumers ==
    /\ pc = "pause"
    /\ paused' = reading[configured]
    /\ reading' = [reading EXCEPT ![configured] = FALSE]
    /\ leave' = (plan # "application")
    /\ pc' = IF plan = "application" THEN "enter" ELSE "waitBoot"
    /\ UNCHANGED <<deviceVars, stateVars, ticket, plan, target, hostVars, faults, historyVars>>

PauseFails ==
    /\ pc = "pause"
    /\ Fault
    /\ Raise
    /\ UNCHANGED <<deviceVars, stateVars, hostVars, recordSwapped>>

\* _configured_application_endpoint(settings, plan.application)
EndpointUnchanged == ApplicationHere /\ Application(configured) = target

\* V answers, on the endpoint the plan named.
ReadVersion ==
    /\ pc = "enter"
    /\ EndpointUnchanged
    /\ pc' = "handoff"
    /\ UNCHANGED <<deviceVars, stateVars, ticket, plan, target, readerVars, hostVars, faults,
                   historyVars>>

\* The last of the attempts failed.
ReadVersionFails ==
    /\ pc = "enter"
    /\ MayFault(EndpointUnchanged)
    /\ Raise
    /\ UNCHANGED <<deviceVars, stateVars, hostVars, recordSwapped>>

\* Fault variant of BeginTransition: the pause is not told.
BeginTransitionUntold ==
    /\ pc = "handoff"
    /\ Save(target, "handoff-pending")
    /\ pc' = "b01"
    /\ UNCHANGED <<deviceVars, configured, ticket, plan, target, readerVars, hostVars, faults,
                   flashSwapped>>

\* _begin_uncertain_transition(): the record first, then the pause.
BeginTransition ==
    /\ pc = "handoff"
    /\ Save(target, "handoff-pending")
    /\ leave' = TRUE
    /\ pc' = "b01"
    /\ UNCHANGED <<deviceVars, configured, ticket, plan, target, reading, paused, hostVars, faults,
                   flashSwapped>>

\* The save raises: nothing was sent yet, so the consumers come back.
BeginFails ==
    /\ pc = "handoff"
    /\ Fault
    /\ Raise
    /\ UNCHANGED <<deviceVars, stateVars, hostVars, recordSwapped>>

\* B01 reaches the radio, and its answer or the disconnect is taken as sent.
EnterBootloader ==
    /\ pc = "b01"
    /\ EndpointUnchanged
    /\ Leaves(configured, "boot")
    /\ pc' = "waitBoot"
    /\ UNCHANGED <<firmware, stateVars, ticket, plan, target, readerVars, hostVars, faults,
                   historyVars>>

\* The serial transport reports an error, although B01 may have taken effect.
EnterFails ==
    /\ pc = "b01"
    /\ MayFault(EndpointUnchanged)
    /\ \/ EndpointUnchanged /\ Leaves(configured, "boot")
       \/ UNCHANGED <<port, mode, visible>>
    /\ Raise
    /\ UNCHANGED <<firmware, stateVars, hostVars, recordSwapped>>

----------------------------------------------------------------------------
(* The DFU half, common to both branches                                   *)

\* _require_expected_usb_serial() for a bootloader
ExpectedSerial(d) == plan = "application" \/ ~ChangedSerial(target.serial, d)

\* What _wait_for_bootloader() looks at: the expected port or, only with the
\* QEMU workaround, whatever bootloaders there are.
BootCandidates ==
    IF At("boot", target.topology) # {} THEN At("boot", target.topology)
    ELSE IF scenario.qemu THEN Running("boot") ELSE {}

BootloaderFound ==
    /\ pc = "waitBoot"
    /\ \E d \in Devices :
        /\ BootCandidates = {d}
        /\ ExpectedSerial(d)
        /\ target' = Bootloader(d)
    /\ pc' = "store"
    /\ UNCHANGED <<deviceVars, stateVars, ticket, plan, readerVars, hostVars, faults,
                   historyVars>>

\* Another serial, more than one candidate, or none before the deadline.
BootloaderNotFound ==
    /\ pc = "waitBoot"
    /\ ~\E d \in Devices : BootCandidates = {d} /\ ExpectedSerial(d)
    /\ MayFault(BootCandidates = {} /\ \E d \in Devices : ~visible[d])
    /\ Raise
    /\ UNCHANGED <<deviceVars, stateVars, hostVars, recordSwapped>>

\* Fault variant of StoreObserved: the handoff record is good enough.
ObserveWithoutStoring ==
    /\ pc = "store"
    /\ pc' = "erase"
    /\ UNCHANGED <<deviceVars, stateVars, ticket, plan, target, readerVars, hostVars, faults,
                   historyVars>>

\* _store_observed_bootloader()
StoreObserved ==
    /\ pc = "store"
    /\ Save(target, "observed-bootloader")
    /\ pc' = "erase"
    /\ UNCHANGED <<deviceVars, configured, ticket, plan, target, readerVars, hostVars, faults,
                   flashSwapped>>

StoreFails ==
    /\ pc = "store"
    /\ Fault
    /\ Raise
    /\ UNCHANGED <<deviceVars, stateVars, hostVars, recordSwapped>>

\* _run_dfu(): the strict wait before each command, which then addresses the
\* device found by its bus number and address.
DfuTargets == {d \in At("boot", target.topology) : ~ChangedSerial(target.serial, d)}

Erase ==
    /\ pc = "erase"
    /\ \E d \in DfuTargets : firmware' = [firmware EXCEPT ![d] = "broken"]
    /\ pc' = "write"
    /\ UNCHANGED <<port, mode, visible, stateVars, ticket, plan, target, readerVars, hostVars,
                   faults, historyVars>>

Write ==
    /\ pc = "write"
    /\ \E d \in DfuTargets : firmware' = [firmware EXCEPT ![d] = "new"]
    /\ pc' = "start"
    /\ UNCHANGED <<port, mode, visible, stateVars, ticket, plan, target, readerVars, hostVars,
                   faults, historyVars>>

\* erase or flash fails or is given up on, possibly after it changed the memory.
DfuFails ==
    /\ pc \in {"erase", "write"}
    /\ MayFault(DfuTargets # {})
    /\ \/ \E d \in DfuTargets : firmware' = [firmware EXCEPT ![d] = "broken"]
       \/ pc = "write" /\ \E d \in DfuTargets : firmware' = [firmware EXCEPT ![d] = "new"]
       \/ UNCHANGED firmware
    /\ Raise
    /\ UNCHANGED <<port, mode, visible, stateVars, hostVars, recordSwapped>>

Start ==
    /\ pc = "start"
    /\ \E d \in DfuTargets : Leaves(d, ResetMode(d))
    /\ pc' = "waitApp"
    /\ UNCHANGED <<firmware, stateVars, ticket, plan, target, readerVars, hostVars, faults,
                   historyVars>>

\* A DfuTransferError is only remembered: the radio may have started.
StartReportsError ==
    /\ pc = "start"
    /\ DfuTargets # {}
    /\ Fault
    /\ \/ \E d \in DfuTargets : Leaves(d, ResetMode(d))
       \/ UNCHANGED <<port, mode, visible>>
    /\ pc' = "waitApp"
    /\ UNCHANGED <<firmware, stateVars, ticket, plan, target, readerVars, hostVars,
                   historyVars>>

\* The wait before the command raised, or dfu-programmer cannot be run.
StartFails ==
    /\ pc = "start"
    /\ MayFault(DfuTargets # {})
    /\ Raise
    /\ UNCHANGED <<deviceVars, stateVars, hostVars, recordSwapped>>

\* What _find_application() looks at; its serial may have changed.
AppCandidates ==
    IF At("app", target.topology) # {} THEN At("app", target.topology)
    ELSE IF scenario.qemu THEN Running("app") ELSE {}

\* Fault variant of ApplicationVerified: an accepted start is a success.
StartIsEnough ==
    /\ pc = "waitApp"
    /\ pc' = "save"
    /\ UNCHANGED <<deviceVars, stateVars, ticket, plan, target, readerVars, hostVars, faults,
                   historyVars>>

\* The application found answered V.
ApplicationVerified ==
    /\ pc = "waitApp"
    /\ \E d \in Devices : AppCandidates = {d} /\ target' = Application(d)
    /\ pc' = "save"
    /\ UNCHANGED <<deviceVars, stateVars, ticket, plan, readerVars, hostVars, faults,
                   historyVars>>

\* Fault variant of ApplicationNotVerified: the wait has no deadline.
ApplicationAwaited ==
    /\ pc = "waitApp"
    /\ UNCHANGED vars

\* No single application, or no V from it, before the deadline.
ApplicationNotVerified ==
    /\ pc = "waitApp"
    /\ MayFault(\/ \E d \in Devices : AppCandidates = {d}
                \/ AppCandidates = {} /\ \E d \in Devices : ~visible[d])
    /\ Raise
    /\ UNCHANGED <<deviceVars, stateVars, hostVars, recordSwapped>>

\* The verified record, then the context manager's restore.
Succeed ==
    /\ pc = "save"
    /\ Save(target, "verified-application")
    /\ Finish(TRUE)
    /\ UNCHANGED <<deviceVars, configured, hostVars, faults>>

SaveFails ==
    /\ pc = "save"
    /\ Fault
    /\ Raise
    /\ UNCHANGED <<deviceVars, stateVars, hostVars, recordSwapped>>

----------------------------------------------------------------------------
(* Sessions that only read, and the operator                               *)

\* verify_running_application(), set_led(), diagnostics(): V answered.
VerifySession ==
    /\ pc = "idle"
    /\ ApplicationHere
    /\ Save(Application(configured), "verified-application")
    /\ UNCHANGED <<deviceVars, configured, flashVars, readerVars, hostVars, faults, flashSwapped>>

\* Consumers left stopped are started by hand once the radio is repaired.
StartConsumers ==
    /\ pc = "idle"
    /\ ~reading[configured]
    /\ KnownForConfig /\ known.binding = "verified-application"
    /\ reading' = [reading EXCEPT ![configured] = TRUE]
    /\ UNCHANGED <<deviceVars, stateVars, flashVars, paused, leave, hostVars, faults,
                   historyVars>>

----------------------------------------------------------------------------
Init ==
    /\ port \in [Devices -> Ports \cup {None}]
    /\ \A d, e \in Devices : d # e => port[d] = None \/ port[d] # port[e]
    /\ mode \in [Devices -> {"app", "boot"}]
    /\ visible = [d \in Devices |-> TRUE]
    /\ firmware = [d \in Devices |-> "old"]
    /\ configured \in Paths
    /\ port[configured] # None
    /\ \/ known = None
       \/ \E s \in {AppSerial[configured], BootSerial[configured]} :
            known = [topology |-> port[configured], serial |-> s,
                     binding |-> "legacy-unknown", path |-> configured]
    /\ window = FALSE
    /\ ticket = None
    /\ pc = "idle"
    /\ plan = "none"
    /\ target = NoTarget
    /\ reading = [d \in Devices |-> TRUE]
    /\ paused = FALSE
    /\ leave = FALSE
    /\ scenario \in Scenarios
    /\ scenario.alone => \A d \in Devices : port[d] = None \/ d = configured
    /\ moves = scenario.moves
    /\ faults = scenario.faults
    /\ recordSwapped = FALSE
    /\ flashSwapped = FALSE

FlashStep ==
    \/ PauseConsumers \/ PauseFails \/ ReadVersion \/ ReadVersionFails
    \/ BeginTransition \/ BeginFails \/ EnterBootloader \/ EnterFails
    \/ BootloaderFound \/ BootloaderNotFound \/ StoreObserved \/ StoreFails
    \/ Erase \/ Write \/ DfuFails \/ Start \/ StartReportsError \/ StartFails
    \/ ApplicationVerified \/ ApplicationNotVerified \/ Succeed \/ SaveFails

Next ==
    \/ \E d \in Devices : Appear(d) \/ Move(d)
    \/ WindowCloses \/ Restart
    \/ Preflight \/ PreflightRefused \/ StartFlash \/ RefuseFlash \/ FlashStep
    \/ VerifySession \/ StartConsumers

Spec == Init /\ [][Next]_vars

\* The flash thread keeps running and each of its waits has a deadline; a
\* device that left the bus comes back; the operator tries again after a
\* failure.
Fairness ==
    /\ WF_vars(FlashStep)
    /\ \A d \in Devices : WF_vars(Appear(d))
    /\ WF_vars(Preflight)
    /\ WF_vars(StartFlash \/ RefuseFlash)

FairSpec == Spec /\ Fairness

----------------------------------------------------------------------------
(* What the identity of a radio rests on (FlashTransaction_proofs)         *)

\* Radios that may be configured report an application serial, every radio a
\* bootloader serial, and no other radio's bootloader has a serial of a
\* configurable one.  A radio may have one serial for both personalities, and
\* applications may share theirs.
SerialsTellRadios ==
    /\ \A c \in Paths : AppSerial[c] # None
    /\ \A d \in Devices :
        /\ BootSerial[d] # None
        /\ \A c \in Paths : d # c => BootSerial[d] \notin {AppSerial[c], BootSerial[c]}

\* A host that needs the QEMU workaround begins with one radio plugged in;
\* nobody plugs in another.
QemuIsAlone == \A s \in Scenarios : s.qemu => s.alone
QemuStaysAlone == \A s \in Scenarios : s.qemu => s.alone /\ s.moves = 0

----------------------------------------------------------------------------
(* Properties                                                              *)

Erased(d) == firmware'[d] # firmware[d]

\* The firmware of a device changes only after the record on disk says which
\* bootloader is being worked on, so that a crash at any point finds it.
RecordedBeforeErase ==
    [][\A d \in Devices : Erased(d) =>
        /\ KnownForConfig
        /\ known.binding = "observed-bootloader"
        /\ known.topology = port[d]
        /\ ~ChangedSerial(known.serial, d)]_vars

\* Crashes, restarts with another configuration, stale validations, expired
\* windows and swapped cables notwithstanding, only the configured radio is
\* ever erased.  The one exception is a swap that was made while a changed
\* serial was accepted: by the flash between V and the bootloader or while it
\* waits for the application, or by a handoff record whose window was still
\* open; it excuses that flash and a recovery from that record or from one
\* that such a flash wrote.  A swap after the window closed excuses nothing.
\* It needs the serials of SerialsTellRadios.
OnlyConfiguredIsErased ==
    [][\A d \in Devices : Erased(d) => d = configured \/ flashSwapped]_vars

\* No consumer reads a radio whose firmware is unknown: while the record says
\* an update was begun and not verified, its consumers are stopped, also after
\* a crash in the middle.
UnknownRadioIsLeftAlone ==
    \A d \in Devices :
        reading[d] /\ known # None /\ known.path = d =>
            known.binding \notin {"handoff-pending", "observed-bootloader"}

\* Nobody replugged anything.
InPlace == moves = scenario.moves

\* Where nobody replugs anything, a radio without firmware is always
\* recoverable without the operator having to identify it, as long as its
\* record was not replaced by another radio's: every crash leaves a record
\* that names it.
BrokenIsRecoverable ==
    \A d \in Paths :
        /\ firmware[d] = "broken" /\ d \in Running("boot")
        /\ configured = d /\ KnownForConfig
        /\ InPlace
        => d \in RecoveryTargets

\* A flash that reports success has installed the new firmware on the
\* configured radio, and that radio runs it, wherever QEMU moved it.
SuccessIsNewFirmware ==
    [][Succeed /\ InPlace => firmware[configured] = "new" /\ mode[configured] = "app"]_vars

\* A flash always ends.
FlashEnds == pc # "idle" ~> pc = "idle"

\* However a flash is interrupted, an operator who keeps trying repairs the
\* radio the record is about, unless somebody replugs it or configures
\* another one.
EventuallyRepaired ==
    \A d \in Paths :
        (firmware[d] = "broken" /\ configured = d /\ KnownForConfig)
            ~> (firmware[d] = "new" \/ configured # d \/ ~InPlace)
=============================================================================
