------------------------ MODULE FlashTransaction_proofs ------------------------
(***************************************************************************)
(* Proofs about FlashTransaction, for any number of radios, ports and      *)
(* paths, and without a bound on what fails, dies or is plugged elsewhere. *)
(*                                                                         *)
(* SafeInv needs nothing but the code.  InPlaceInv and IdentityInv say how *)
(* the flasher can know a radio that it never sees: by its place, as long  *)
(* as nobody moves it, and by the serial of its bootloader.                *)
(***************************************************************************)
EXTENDS FlashTransaction, TLAPS

----------------------------------------------------------------------------
(* The inductive invariants                                                *)

Unknown(d) ==
    /\ known # None
    /\ known.path = d
    /\ known.binding \in {"handoff-pending", "observed-bootloader"}

\* Points of the flash from which an error leaves the consumers stopped.
Changing == {"b01", "waitBoot", "store", "erase", "write", "start", "waitApp", "save"}
InDfu == {"store", "erase", "write", "start"}

\* A running flash is bound to a target, and only the plan for an application
\* goes through the handoff.
PlanInv ==
    /\ pc # "idle" => target \in Targets
    /\ pc \in {"enter", "handoff", "b01"} => plan = "application"

\* What a flash does to the consumers: they are stopped past the pause, and
\* are only given back where nothing is unknown.
PauseInv ==
    /\ pc \in {"idle", "pause"} => ~leave /\ ~paused
    /\ pc \notin {"idle", "pause"} => ~reading[configured]
    /\ pc \in Changing => leave
    /\ paused /\ ~leave => ~Unknown(configured)

\* The record on disk while memory is changed.
RecordInv ==
    pc \in {"erase", "write"} =>
        known = [topology |-> target.topology, serial |-> target.serial,
                 binding |-> "observed-bootloader", path |-> configured]

\* The bus: one device in each port, only plugged devices change personality,
\* and without firmware there is only the bootloader.
BusInv ==
    \A d \in Devices :
        /\ \A e \in Devices : d # e => port[d] = None \/ port[d] # port[e]
        /\ ~visible[d] => port[d] # None
        /\ firmware[d] = "broken" => mode[d] = "boot"

SafeInv == TypeOK /\ PlanInv /\ PauseInv /\ RecordInv /\ BusInv /\ UnknownRadioIsLeftAlone

\* As long as nobody replugs anything, a topology on record, on the ticket or
\* in the plan is that of the radio it is about; QEMU changes topologies, but
\* there the radio is the only one.
PlaceInv ==
    /\ ~scenario.qemu =>
        /\ known # None => known.topology = port[known.path]
        /\ ticket \notin {None, AutoTicket} => ticket.topology = port[configured]
        /\ pc # "idle" => target.topology = port[configured]
    /\ scenario.qemu =>
        /\ \A d, e \in Devices : None \notin {port[d], port[e]} => d = e
        /\ known # None => port[known.path] # None
        /\ ticket # None \/ pc # "idle" => port[configured] # None

\* What the radio is doing at each point of the flash.
RadioInv ==
    /\ pc # "idle" /\ plan = "application" /\ pc \notin Changing \ {"b01"} =>
           mode[configured] = "app"
    /\ pc \in InDfu => visible[configured] /\ target = Bootloader(configured)
    /\ pc \in {"start", "waitApp", "save"} => firmware[configured] = "new"
    /\ pc = "save" => mode[configured] = "app"

\* A radio without firmware is in sight, and the record that is about it
\* names it.
BrokenInv ==
    /\ \A d \in Devices : firmware[d] = "broken" => visible[d]
    /\ known # None /\ firmware[known.path] = "broken" =>
        known.topology = port[known.path] /\ ~ChangedSerial(known.serial, known.path)

InPlaceInv == InPlace => PlaceInv /\ RadioInv /\ BrokenInv

\* Whose bootloader the record, the ticket and the flash are about, wherever
\* devices are plugged meanwhile.  A serial names the radio, except where a
\* changed one is accepted; there the port does, unless it was replugged since.
RecordIdentity ==
    /\ window => known # None /\ known.binding = "handoff-pending"
    /\ known # None =>
        /\ known.binding = "handoff-pending" => known.serial = AppSerial[known.path]
        /\ known.binding # "handoff-pending" =>
               recordSwapped \/ known.serial \in {AppSerial[known.path], BootSerial[known.path]}
        /\ window => recordSwapped \/ port[known.path] = known.topology

FlashIdentity ==
    /\ pc = "idle" => ~flashSwapped
    /\ ticket \notin {None, AutoTicket} => ticket.serial = BootSerial[configured]
    /\ pc \in {"pause", "enter", "handoff", "b01"} /\ plan = "application" =>
           target.serial = AppSerial[configured]
    /\ FlashAcceptsChange => flashSwapped \/ port[configured] = target.topology
    /\ pc \in InDfu \/ (pc \in {"pause", "waitBoot"} /\ plan # "application") =>
           flashSwapped \/ target.serial = BootSerial[configured]
    /\ pc = "save" => flashSwapped \/ target.serial = AppSerial[configured]

IdentityInv == ~scenario.qemu => RecordIdentity /\ FlashIdentity

----------------------------------------------------------------------------
(* What steps have in common                                               *)

\* The ways a flash ends without success.
Failing ==
    \/ PauseFails \/ ReadVersionFails \/ BeginFails \/ EnterFails \/ BootloaderNotFound
    \/ StoreFails \/ DfuFails \/ StartFails \/ ApplicationNotVerified \/ SaveFails

LEMMA FailingEffect ==
  ASSUME Failing
  PROVE  /\ Raise /\ pc # "idle"
         /\ UNCHANGED <<port, configured, known, window, scenario, moves, recordSwapped, ticket>>
         /\ faults' = faults \/ (faults > 0 /\ faults' = faults - 1)
         /\ \/ UNCHANGED <<mode, visible>>
            \/ pc = "b01" /\ EndpointUnchanged /\ Leaves(configured, "boot") /\ UNCHANGED firmware
         /\ \/ UNCHANGED firmware
            \/ /\ pc \in {"erase", "write"} /\ UNCHANGED <<mode, visible>>
               /\ \E d \in DfuTargets : \E w \in {"broken", "new"} :
                      firmware' = [firmware EXCEPT ![d] = w]
<1>1. /\ Raise /\ pc # "idle"
      /\ UNCHANGED <<configured, known, window, scenario, moves, recordSwapped>>
      /\ faults' = faults \/ (faults > 0 /\ faults' = faults - 1)
  BY DEF Failing, PauseFails, ReadVersionFails, BeginFails, EnterFails,
       BootloaderNotFound, StoreFails, DfuFails, StartFails, ApplicationNotVerified,
       SaveFails, MayFault, Fault, stateVars, hostVars
<1>2. UNCHANGED <<port, ticket>>
  BY <1>1 DEF Failing, PauseFails, ReadVersionFails, BeginFails, EnterFails,
       BootloaderNotFound, StoreFails, DfuFails, StartFails, ApplicationNotVerified,
       SaveFails, deviceVars, Leaves, Raise, Finish
<1>3. \/ UNCHANGED <<mode, visible>>
      \/ pc = "b01" /\ EndpointUnchanged /\ Leaves(configured, "boot") /\ UNCHANGED firmware
  BY DEF Failing, PauseFails, ReadVersionFails, BeginFails, EnterFails,
       BootloaderNotFound, StoreFails, DfuFails, StartFails, ApplicationNotVerified,
       SaveFails, deviceVars
<1>4. \/ UNCHANGED firmware
      \/ /\ pc \in {"erase", "write"} /\ UNCHANGED <<mode, visible>>
         /\ \E d \in DfuTargets : \E w \in {"broken", "new"} :
                firmware' = [firmware EXCEPT ![d] = w]
  BY DEF Failing, PauseFails, ReadVersionFails, BeginFails, EnterFails,
       BootloaderNotFound, StoreFails, DfuFails, StartFails, ApplicationNotVerified,
       SaveFails, deviceVars
<1> QED BY <1>1, <1>2, <1>3, <1>4

\* Every step is one of these.
Going ==
    \/ PauseConsumers \/ ReadVersion \/ BeginTransition \/ EnterBootloader \/ BootloaderFound
    \/ StoreObserved \/ Erase \/ Write \/ Start \/ StartReportsError \/ ApplicationVerified
    \/ Succeed

Outside ==
    \/ WindowCloses \/ Restart \/ Preflight \/ StartFlash \/ RefuseFlash \/ VerifySession
    \/ StartConsumers

LEMMA Cases ==
  ASSUME [Next]_vars
  PROVE  \/ Failing \/ Going \/ Outside
         \/ \E d \in Devices : Appear(d) \/ Move(d)
         \/ UNCHANGED vars
  BY DEF Next, FlashStep, Failing, Going, Outside, PreflightRefused

LEMMA Found ==
  ASSUME TypeOK, NEW d \in Devices, NEW m, d \in Running(m)
  PROVE  port[d] \in Ports /\ Application(d) \in Targets /\ Bootloader(d) \in Targets
  BY DEF TypeOK, Running, Application, Bootloader, Targets, Serials

LEMMA FoundAt ==
  ASSUME NEW m, NEW p, NEW d \in At(m, p)
  PROVE  d \in Devices /\ d \in Running(m) /\ port[d] = p /\ visible[d] /\ mode[d] = m /\ p # None
  BY DEF At, Running

LEMMA FoundInDfu ==
  ASSUME NEW d \in DfuTargets
  PROVE  /\ d \in Devices /\ d \in Running("boot") /\ port[d] = target.topology
         /\ visible[d] /\ mode[d] = "boot" /\ port[d] # None
         /\ ~ChangedSerial(target.serial, d)
  BY FoundAt DEF DfuTargets

----------------------------------------------------------------------------
(* Types, and the plan                                                     *)

LEMMA TypeInit == Init => TypeOK
<1> SUFFICES ASSUME Init PROVE TypeOK
  OBVIOUS
<1>1. configured \in Devices /\ port[configured] \in Ports
  BY PathsAssumption DEF Init
<1>2. known \in KnownDevices \cup {None}
  BY <1>1 DEF Init, KnownDevices, Serials, Bindings
<1>3. scenario \in Scenarios /\ moves \in 0..scenario.moves /\ faults \in 0..scenario.faults
  BY ScenariosAssumption DEF Init
<1> QED BY <1>2, <1>3 DEF Init, TypeOK

LEMMA SaveTyped ==
  ASSUME TypeOK, NEW t \in Targets, NEW b \in Bindings, Save(t, b)
  PROVE  known' \in KnownDevices /\ window' \in BOOLEAN /\ recordSwapped' \in BOOLEAN
  BY DEF TypeOK, Save, Targets, KnownDevices

LEMMA FinishTyped ==
  ASSUME TypeOK, NEW r \in BOOLEAN, Finish(r)
  PROVE  /\ pc' = "idle" /\ plan' = "none" /\ target' = NoTarget /\ ticket' = ticket
         /\ reading' \in [Devices -> BOOLEAN] /\ paused' = FALSE /\ leave' = FALSE
         /\ flashSwapped' = FALSE
  BY PathsAssumption DEF TypeOK, Finish

\* Between flashes only records, tickets and what happens on the bus change.
LEMMA TypeKept ==
  ASSUME TypeOK, PlanInv,
         UNCHANGED <<port, mode, visible, firmware, configured, pc, plan, target>>,
         UNCHANGED <<reading, paused, leave, scenario, moves, faults>>,
         known' \in KnownDevices \cup {None}, window' \in BOOLEAN,
         ticket' \in Targets \cup {AutoTicket, None},
         recordSwapped' \in BOOLEAN, flashSwapped' \in BOOLEAN
  PROVE  TypeOK' /\ PlanInv'
<1>1. PlanInv'
  BY DEF PlanInv
<1>2. /\ (port \in [Devices -> Ports \cup {None}])' /\ (mode \in [Devices -> {"app", "boot"}])'
      /\ (visible \in [Devices -> BOOLEAN])' /\ (reading \in [Devices -> BOOLEAN])'
      /\ (firmware \in [Devices -> {"old", "broken", "new"}])' /\ (configured \in Paths)'
  BY DEF TypeOK
<1>3. /\ (target \in Targets \cup {NoTarget})'
      /\ (plan \in {"none", "application", "recovery", "manual-recovery"})'
      /\ (pc \in {"idle", "pause", "enter", "handoff", "b01", "waitBoot", "store", "erase",
                   "write", "start", "waitApp", "save"})'
  BY DEF TypeOK
<1>4. /\ (scenario \in Scenarios)' /\ (moves \in 0..scenario.moves)'
      /\ (faults \in 0..scenario.faults)' /\ (paused \in BOOLEAN)' /\ (leave \in BOOLEAN)'
  BY DEF TypeOK
<1> QED BY <1>1, <1>2, <1>3, <1>4 DEF TypeOK

LEMMA TypeStep ==
  ASSUME TypeOK, PlanInv, [Next]_vars
  PROVE  TypeOK' /\ PlanInv'
<1> USE DEF TypeOK, PlanInv, vars, deviceVars, stateVars, flashVars, readerVars,
hostVars, historyVars
<1>0. configured \in Devices /\ faults \in Nat /\ scenario.faults \in Nat /\ scenario.moves \in Nat
  BY PathsAssumption, ScenariosAssumption
<1>1. CASE Failing
  <2>1. /\ pc' = "idle" /\ plan' = "none" /\ target' = NoTarget /\ ticket' = ticket
        /\ reading' \in [Devices -> BOOLEAN] /\ paused' = FALSE /\ leave' = FALSE
        /\ flashSwapped' = FALSE
    BY <1>1, FailingEffect, FinishTyped DEF Raise
  <2>2. mode' \in [Devices -> {"app", "boot"}] /\ visible' \in [Devices -> BOOLEAN]
    BY <1>1, FailingEffect DEF Leaves
  <2>3. firmware' \in [Devices -> {"old", "broken", "new"}]
    BY <1>1, FailingEffect
  <2>4. faults' \in 0..scenario.faults
    BY <1>0, <1>1, FailingEffect
  <2> QED BY <1>1, <2>1, <2>2, <2>3, <2>4, FailingEffect
<1>2. ASSUME NEW d \in Devices, Appear(d) PROVE TypeOK' /\ PlanInv'
  BY <1>2 DEF Appear, FreePorts
<1>3. ASSUME NEW d \in Devices, Move(d) PROVE TypeOK' /\ PlanInv'
  <2>1. moves' \in 0..scenario.moves
    BY <1>0, <1>3 DEF Move
  <2>2. mode' \in [Devices -> {"app", "boot"}]
    BY <1>3 DEF Move, ResetMode
  <2> QED BY <1>3, <2>1, <2>2 DEF Move, FreePorts, RecordAcceptsChange, FlashAcceptsChange
<1>4. CASE WindowCloses
  <2>1. UNCHANGED <<port, mode, visible, firmware, configured, pc, plan, target>>
    BY <1>4 DEF WindowCloses
  <2>2. UNCHANGED <<reading, paused, leave, scenario, moves, faults>>
    BY <1>4 DEF WindowCloses
  <2>3. window' = FALSE /\ recordSwapped' = FALSE /\ UNCHANGED <<known, ticket, flashSwapped>>
    BY <1>4 DEF WindowCloses
  <2> QED BY <2>1, <2>2, <2>3, TypeKept
<1>5. CASE Restart
  <2>1. faults' \in 0..scenario.faults
    BY <1>0, <1>5 DEF Restart, Fault
  <2> QED BY <1>5, <2>1 DEF Restart
<1>6. CASE Preflight
  <2>1. ticket' \in Targets \cup {AutoTicket}
    BY <1>0, <1>6, Found DEF Preflight, UnpairedTargets
  <2> QED BY <1>6, <2>1 DEF Preflight
<1>7. CASE StartFlash
  <2>1. pc' = "pause" /\ target' \in Targets /\ ticket' = None
        /\ plan' \in {"application", "recovery", "manual-recovery"}
    BY <1>0, <1>7, Found, FoundAt
    DEF StartFlash, Plan, ApplicationHere, ConfirmedTargets, RecoveryTargets
  <2> QED BY <1>7, <2>1 DEF StartFlash
<1>8. CASE RefuseFlash
  BY <1>8 DEF RefuseFlash
<1>9. CASE VerifySession
  <2>1. Application(configured) \in Targets
    BY <1>0, <1>9, Found DEF VerifySession, ApplicationHere
  <2>2. known' \in KnownDevices /\ window' \in BOOLEAN /\ recordSwapped' \in BOOLEAN
    BY <1>9, <2>1, SaveTyped DEF VerifySession, Bindings
  <2>3. UNCHANGED <<port, mode, visible, firmware, configured, pc, plan, target>>
    BY <1>9 DEF VerifySession
  <2>4. UNCHANGED <<ticket, flashSwapped, reading, paused, leave, scenario, moves, faults>>
    BY <1>9 DEF VerifySession
  <2> QED BY <2>2, <2>3, <2>4, TypeKept
<1>10. CASE StartConsumers
  <2>1. reading' \in [Devices -> BOOLEAN]
    BY <1>0, <1>10 DEF StartConsumers
  <2>2. UNCHANGED <<port, mode, visible, firmware, configured, known, window, ticket, pc, plan>>
    BY <1>10 DEF StartConsumers
  <2>3. UNCHANGED <<target, paused, leave, scenario, moves, faults, historyVars>>
    BY <1>10 DEF StartConsumers
  <2> QED BY <2>1, <2>2, <2>3
<1>11. CASE PauseConsumers
  BY <1>0, <1>11 DEF PauseConsumers
<1>12. CASE ReadVersion
  BY <1>12 DEF ReadVersion
<1>13. CASE BeginTransition
  <2>1. known' \in KnownDevices /\ window' \in BOOLEAN /\ recordSwapped' \in BOOLEAN
    BY <1>13, SaveTyped DEF BeginTransition, Bindings
  <2> QED BY <1>13, <2>1 DEF BeginTransition
<1>14. CASE EnterBootloader
  BY <1>0, <1>14 DEF EnterBootloader, Leaves
<1>15. CASE BootloaderFound
  <2>1. ASSUME NEW d \in Devices, BootCandidates = {d} PROVE Bootloader(d) \in Targets
    BY <2>1, Found, FoundAt DEF BootCandidates
  <2>2. target' \in Targets
    BY <1>15, <2>1 DEF BootloaderFound
  <2> QED BY <1>15, <2>2 DEF BootloaderFound
<1>16. CASE StoreObserved
  <2>1. known' \in KnownDevices /\ window' \in BOOLEAN /\ recordSwapped' \in BOOLEAN
    BY <1>16, SaveTyped DEF StoreObserved, Bindings
  <2> QED BY <1>16, <2>1 DEF StoreObserved
<1>17. CASE Erase \/ Write
  BY <1>17, FoundInDfu DEF Erase, Write
<1>18. CASE Start
  BY <1>18, FoundInDfu DEF Start, Leaves, ResetMode
<1>19. CASE StartReportsError
  <2>1. faults' \in 0..scenario.faults
    BY <1>0, <1>19 DEF StartReportsError, Fault
  <2>2. ASSUME NEW d \in DfuTargets, Leaves(d, ResetMode(d))
        PROVE  /\ mode' \in [Devices -> {"app", "boot"}] /\ visible' \in [Devices -> BOOLEAN]
               /\ port' = port
    BY <2>2, FoundInDfu DEF Leaves, ResetMode
  <2> QED BY <1>19, <2>1, <2>2 DEF StartReportsError
<1>20. CASE ApplicationVerified
  <2>1. ASSUME NEW d \in Devices, AppCandidates = {d} PROVE Application(d) \in Targets
    BY <2>1, Found, FoundAt DEF AppCandidates
  <2>2. target' \in Targets
    BY <1>20, <2>1 DEF ApplicationVerified
  <2> QED BY <1>20, <2>2 DEF ApplicationVerified
<1>21. CASE Succeed
  <2>1. known' \in KnownDevices /\ window' \in BOOLEAN /\ recordSwapped' \in BOOLEAN
    BY <1>21, SaveTyped DEF Succeed, Bindings
  <2>2. /\ pc' = "idle" /\ plan' = "none" /\ target' = NoTarget /\ ticket' = ticket
        /\ reading' \in [Devices -> BOOLEAN] /\ paused' = FALSE /\ leave' = FALSE
        /\ flashSwapped' = FALSE
    BY <1>21, FinishTyped DEF Succeed
  <2> QED BY <1>21, <2>1, <2>2 DEF Succeed
<1>22. CASE UNCHANGED vars
  BY <1>22
<1> QED BY <1>1, <1>2, <1>3, <1>4, <1>5, <1>6, <1>7, <1>8, <1>9, <1>10, <1>11, <1>12, <1>13, <1>14,
       <1>15, <1>16, <1>17, <1>18, <1>19, <1>20, <1>21, <1>22, Cases DEF Going, Outside

----------------------------------------------------------------------------
(* The consumers                                                           *)

LEMMA PauseStep ==
  ASSUME TypeOK, PlanInv, PauseInv, UnknownRadioIsLeftAlone, [Next]_vars
  PROVE  PauseInv' /\ UnknownRadioIsLeftAlone'
<1> USE DEF PauseInv, UnknownRadioIsLeftAlone, Unknown, Changing, vars, deviceVars,
stateVars, flashVars, readerVars, hostVars, historyVars
<1>0. configured \in Devices /\ reading \in [Devices -> BOOLEAN]
  BY PathsAssumption DEF TypeOK
<1>1. CASE Failing
  <2>1. /\ pc' = "idle" /\ paused' = FALSE /\ leave' = FALSE
        /\ reading' = [reading EXCEPT ![configured] = @ \/ (paused /\ ~leave)]
        /\ UNCHANGED <<known, configured>>
    BY <1>1, FailingEffect DEF Raise, Finish
  <2>2. ASSUME NEW d \in Devices, reading'[d] PROVE reading[d] \/ (d = configured /\ paused /\ ~leave)
    BY <1>0, <2>1, <2>2
  <2> QED BY <2>1, <2>2
<1>2. ASSUME UNCHANGED <<known, pc, reading, configured, leave, paused>>
      PROVE  PauseInv' /\ UnknownRadioIsLeftAlone'
  BY <1>2
<1>3. ASSUME WindowCloses \/ Preflight \/ RefuseFlash \/ \E d \in Devices : Appear(d) \/ Move(d)
      PROVE  UNCHANGED <<known, pc, reading, configured, leave, paused>>
  BY <1>3 DEF WindowCloses, Preflight, RefuseFlash, Appear, Move
<1>4. CASE Restart
  BY <1>4 DEF Restart
<1>5. CASE StartFlash
  BY <1>5 DEF StartFlash, Plan
<1>6. CASE VerifySession
  BY <1>6 DEF VerifySession, Save
<1>7. CASE StartConsumers
  BY <1>0, <1>7 DEF StartConsumers, KnownForConfig
<1>8. CASE PauseConsumers
  <2>1. /\ pc = "pause" /\ pc' \in {"enter", "waitBoot"} /\ (pc' = "waitBoot" => leave')
        /\ paused' = reading[configured] /\ reading' = [reading EXCEPT ![configured] = FALSE]
        /\ UNCHANGED <<known, configured>>
    BY <1>8 DEF PauseConsumers
  <2> QED BY <1>0, <2>1
<1>9. CASE BeginTransition \/ StoreObserved
  <2>1. /\ pc' \in {"b01", "erase"} /\ known'.path = configured /\ leave' /\ ~reading[configured]
        /\ UNCHANGED <<reading, configured, paused>>
    BY <1>9 DEF BeginTransition, StoreObserved, Save
  <2> QED BY <2>1, <1>9 DEF BeginTransition, StoreObserved, Save
<1>10. ASSUME \/ ReadVersion \/ EnterBootloader \/ BootloaderFound \/ Erase \/ Write \/ Start
              \/ StartReportsError \/ ApplicationVerified
       PROVE  PauseInv' /\ UnknownRadioIsLeftAlone'
  <2>1. UNCHANGED <<known, reading, configured, leave, paused>>
    BY <1>10 DEF ReadVersion, EnterBootloader, BootloaderFound, Erase, Write, Start,
         StartReportsError,
       ApplicationVerified
  <2>2. pc \notin {"idle", "pause"} /\ pc' \notin {"idle", "pause"} /\ (pc' \in Changing => pc \in Changing)
    BY <1>10 DEF ReadVersion, EnterBootloader, BootloaderFound, Erase, Write, Start,
         StartReportsError,
       ApplicationVerified
  <2> QED BY <2>1, <2>2
<1>11. CASE Succeed
  <2>1. /\ pc' = "idle" /\ paused' = FALSE /\ leave' = FALSE /\ configured' = configured
        /\ reading' = [reading EXCEPT ![configured] = @ \/ paused]
        /\ known'.path = configured /\ known'.binding = "verified-application"
    BY <1>11 DEF Succeed, Save, Finish
  <2> QED BY <1>0, <2>1
<1> QED BY <1>1, <1>2, <1>3, <1>4, <1>5, <1>6, <1>7, <1>8, <1>9, <1>10, <1>11, Cases
        DEF Going, Outside

----------------------------------------------------------------------------
(* The record and the bus                                                  *)

LEMMA RecordStep ==
  ASSUME TypeOK, PlanInv, RecordInv, [Next]_vars
  PROVE  RecordInv'
<1> USE DEF RecordInv, vars, deviceVars, stateVars, flashVars, readerVars, hostVars,
historyVars
<1>1. CASE StoreObserved
  BY <1>1 DEF StoreObserved, Save
<1>2. ASSUME UNCHANGED <<pc, target, known, configured>> PROVE RecordInv'
  BY <1>2
<1>3. ASSUME WindowCloses \/ Preflight \/ RefuseFlash \/ StartConsumers
             \/ UNCHANGED vars \/ \E d \in Devices : Appear(d) \/ Move(d)
      PROVE  UNCHANGED <<pc, target, known, configured>>
  BY <1>3 DEF WindowCloses, Preflight, RefuseFlash, StartConsumers, Appear, Move
<1>4. CASE Erase
  BY <1>4 DEF Erase
<1>5. ASSUME Failing \/ Restart \/ StartFlash \/ VerifySession \/ (Going /\ ~StoreObserved /\ ~Erase)
      PROVE  pc' \notin {"erase", "write"}
  BY <1>5, FailingEffect
  DEF Raise, Finish, Restart, StartFlash, Plan, VerifySession, Going, PauseConsumers,
  ReadVersion, BeginTransition, EnterBootloader, BootloaderFound, StoreObserved, Erase,
  Write, Start, StartReportsError, ApplicationVerified, Succeed
<1> QED BY <1>1, <1>2, <1>3, <1>4, <1>5, Cases DEF Outside

LEMMA BusStep ==
  ASSUME TypeOK, PlanInv, BusInv, [Next]_vars
  PROVE  BusInv'
<1> USE DEF BusInv, vars, deviceVars, stateVars, flashVars, readerVars, hostVars,
historyVars
<1>t. /\ port \in [Devices -> Ports \cup {None}] /\ mode \in [Devices -> {"app", "boot"}]
      /\ visible \in [Devices -> BOOLEAN] /\ firmware \in [Devices -> {"old", "broken", "new"}]
      /\ configured \in Devices
  BY PathsAssumption DEF TypeOK
<1>l. ASSUME NEW d \in Devices, NEW m \in {"app", "boot"}, Leaves(d, m), port[d] # None,
             firmware[d] = "broken" => m = "boot", UNCHANGED firmware
      PROVE  BusInv'
  BY <1>t, <1>l DEF Leaves
<1>1. CASE Failing
  <2>1. CASE UNCHANGED <<mode, visible, firmware>>
    BY <1>1, <2>1, FailingEffect
  <2>2. CASE pc = "b01" /\ EndpointUnchanged /\ Leaves(configured, "boot") /\ UNCHANGED firmware
    BY <1>l, <1>t, <2>2 DEF EndpointUnchanged, ApplicationHere, Running
  <2>3. ASSUME NEW d \in DfuTargets, NEW w \in {"broken", "new"},
               firmware' = [firmware EXCEPT ![d] = w], UNCHANGED <<mode, visible>>
        PROVE  BusInv'
    BY <1>1, <1>t, <2>3, FoundInDfu, FailingEffect
  <2> QED BY <1>1, <2>1, <2>2, <2>3, FailingEffect
<1>2. ASSUME NEW d \in Devices, Appear(d) PROVE BusInv'
  <2>1. /\ UNCHANGED <<mode, firmware>> /\ visible' = [visible EXCEPT ![d] = TRUE]
        /\ port' = port \/ \E p \in FreePorts : port' = [port EXCEPT ![d] = p]
    BY <1>2 DEF Appear
  <2> QED BY <1>t, <2>1, PortsAssumption DEF FreePorts
<1>3. ASSUME NEW d \in Devices, Move(d) PROVE BusInv'
  <2>1. /\ UNCHANGED firmware /\ visible' = [visible EXCEPT ![d] = TRUE]
        /\ \E p \in FreePorts \cup {None} : port' = [port EXCEPT ![d] = p]
        /\ \E m \in {ResetMode(d), "boot"} : mode' = [mode EXCEPT ![d] = m]
    BY <1>3 DEF Move
  <2> QED BY <1>t, <2>1, PortsAssumption DEF FreePorts, ResetMode
<1>4. CASE EnterBootloader
  BY <1>l, <1>t, <1>4 DEF EnterBootloader, EndpointUnchanged, ApplicationHere, Running
<1>5. ASSUME Erase \/ Write PROVE BusInv'
  <2>1. PICK d \in DfuTargets : \E w \in {"broken", "new"} : firmware' = [firmware EXCEPT ![d] = w]
    BY <1>5 DEF Erase, Write
  <2> QED BY <1>5, <1>t, <2>1, FoundInDfu DEF Erase, Write
<1>6. ASSUME Start \/ StartReportsError PROVE BusInv'
  <2>1. CASE UNCHANGED <<port, mode, visible, firmware>>
    BY <2>1
  <2>2. ASSUME NEW d \in DfuTargets, Leaves(d, ResetMode(d)), UNCHANGED firmware PROVE BusInv'
    BY <1>l, <2>2, FoundInDfu DEF ResetMode
  <2> QED BY <1>6, <2>1, <2>2 DEF Start, StartReportsError
<1>7. ASSUME \/ Outside \/ UNCHANGED vars \/ PauseConsumers \/ ReadVersion \/ BeginTransition
             \/ BootloaderFound \/ StoreObserved \/ ApplicationVerified \/ Succeed
      PROVE  UNCHANGED <<port, mode, visible, firmware>>
  BY <1>7 DEF Outside, WindowCloses, Restart, Preflight, StartFlash, RefuseFlash,
       VerifySession,
     StartConsumers, PauseConsumers, ReadVersion, BeginTransition, BootloaderFound,
     StoreObserved,
     ApplicationVerified, Succeed
<1> QED BY <1>1, <1>2, <1>3, <1>4, <1>5, <1>6, <1>7, Cases DEF Going

LEMMA SafeInit == Init => SafeInv
<1> SUFFICES ASSUME Init PROVE SafeInv
  OBVIOUS
<1>1. PlanInv /\ PauseInv /\ RecordInv /\ UnknownRadioIsLeftAlone
  BY DEF Init, PlanInv, PauseInv, RecordInv, UnknownRadioIsLeftAlone, Changing
<1>2. BusInv
  BY DEF Init, BusInv
<1> QED BY <1>1, <1>2, TypeInit DEF SafeInv

LEMMA SafeStep == SafeInv /\ [Next]_vars => SafeInv'
  BY TypeStep, PauseStep, RecordStep, BusStep DEF SafeInv


\* The strengthening behind the next theorems: types, the plan, the pause, the
\* record on disk during a change of memory, and the bus.
THEOREM SafeInvariant == Spec => []SafeInv
<1>1. SafeInv /\ UNCHANGED vars => SafeInv'
  BY SafeStep
<1> QED BY SafeInit, SafeStep, PTL DEF Spec

\* Every variable of the transaction keeps its type: in particular every record
\* that _store_* writes names a port and a serial that were seen on the bus.
THEOREM TypeCorrect == Spec => []TypeOK
<1>1. SafeInv => TypeOK
  BY DEF SafeInv
<1> QED BY <1>1, SafeInvariant, PTL

\* However a flash ends - success, any error, a crash between any two steps -
\* no consumer runs on a radio that the record says is half updated.
THEOREM NoReaderOnUnknownRadio == Spec => []UnknownRadioIsLeftAlone
<1>1. SafeInv => UnknownRadioIsLeftAlone
  BY DEF SafeInv
<1> QED BY <1>1, SafeInvariant, PTL

----------------------------------------------------------------------------
(* The record precedes the erase                                           *)

\* Only erase and flash change memory, and only of the device they address.
LEMMA EffectOnFirmware ==
  ASSUME SafeInv, [Next]_vars, NEW d \in Devices, Erased(d)
  PROVE  pc \in {"erase", "write"} /\ d \in DfuTargets
<1> USE DEF Erased
<1>0. firmware \in [Devices -> {"old", "broken", "new"}]
  BY DEF SafeInv, TypeOK
<1>1. CASE Failing
  BY <1>0, <1>1, FailingEffect, FoundInDfu
<1>2. CASE Erase \/ Write
  <2>1. PICK e \in DfuTargets : \E w \in {"broken", "new"} : firmware' = [firmware EXCEPT ![e] = w]
    BY <1>2 DEF Erase, Write
  <2> QED BY <1>0, <1>2, <2>1 DEF Erase, Write
<1>3. ASSUME \/ Outside \/ UNCHANGED vars \/ (Going /\ ~Erase /\ ~Write)
             \/ \E e \in Devices : Appear(e) \/ Move(e)
      PROVE  UNCHANGED firmware
  BY <1>3 DEF Going, Outside, Appear, Move, WindowCloses, Restart, Preflight,
       PreflightRefused, StartFlash, RefuseFlash, VerifySession, StartConsumers,
       PauseConsumers, ReadVersion, BeginTransition, EnterBootloader, BootloaderFound,
       StoreObserved, Erase, Write, Start, StartReportsError, ApplicationVerified,
       Succeed, Appear, Move, vars, deviceVars, stateVars, flashVars, readerVars,
       hostVars, historyVars
<1> QED BY <1>1, <1>2, <1>3, Cases DEF Going

LEMMA Recorded ==
  ASSUME NEW t \in Targets, NEW b \in Bindings, NEW p \in Paths
  PROVE  [topology |-> t.topology, serial |-> t.serial, binding |-> b, path |-> p] # None
  BY NoneAssumption DEF Targets, KnownDevices

\* dfu-programmer's erase and flash run only while the record on disk names the
\* port and the serial of the bootloader they address, so that whatever happens
\* next, a restarted flasher finds it.
THEOREM RecordPrecedesErase == Spec => RecordedBeforeErase
<1>1. ASSUME SafeInv, [Next]_vars, NEW d \in Devices, Erased(d)
      PROVE  /\ KnownForConfig
             /\ known.binding = "observed-bootloader"
             /\ known.topology = port[d]
             /\ ~ChangedSerial(known.serial, d)
  <2>1. pc \in {"erase", "write"} /\ d \in DfuTargets
    BY <1>1, EffectOnFirmware
  <2>2. known = [topology |-> target.topology, serial |-> target.serial,
                 binding |-> "observed-bootloader", path |-> configured]
    BY <1>1, <2>1 DEF SafeInv, RecordInv
  <2>3. known # None
    BY <1>1, <2>1, <2>2, Recorded DEF SafeInv, PlanInv, TypeOK, Bindings
  <2> QED BY <2>1, <2>2, <2>3, FoundInDfu DEF KnownForConfig
<1>2. SafeInv /\ [Next]_vars => [\A d \in Devices : Erased(d) =>
        /\ KnownForConfig
        /\ known.binding = "observed-bootloader"
        /\ known.topology = port[d]
        /\ ~ChangedSerial(known.serial, d)]_vars
  BY <1>1
<1> QED BY <1>2, SafeInvariant, PTL DEF Spec, RecordedBeforeErase

----------------------------------------------------------------------------
(* A radio that nobody moves                                               *)

\* Only plugging, and QEMU at the end of an enumeration, changes ports.
LEMMA PortsStay ==
  ASSUME [Next]_vars, ~\E d \in Devices : Appear(d) \/ Move(d)
  PROVE  port' = port
<1>1. CASE Failing
  BY <1>1, FailingEffect
<1>2. CASE Going
  BY <1>2, FoundInDfu DEF Going, PauseConsumers, ReadVersion, BeginTransition,
       EnterBootloader, BootloaderFound, StoreObserved, Erase, Write, Start,
       StartReportsError, ApplicationVerified, Succeed, Leaves, vars, deviceVars,
       stateVars, flashVars, readerVars, hostVars, historyVars
<1>3. CASE Outside \/ UNCHANGED vars
  BY <1>3 DEF Outside, Appear, Move, WindowCloses, Restart, Preflight, PreflightRefused,
       StartFlash, RefuseFlash, VerifySession, StartConsumers, vars, deviceVars,
       stateVars, flashVars, readerVars, hostVars, historyVars
<1> QED BY <1>1, <1>2, <1>3, Cases

LEMMA HostStays ==
  ASSUME [Next]_vars
  PROVE  scenario' = scenario
<1>1. CASE Failing
  BY <1>1, FailingEffect
<1>2. CASE Going \/ Outside \/ UNCHANGED vars \/ \E d \in Devices : Appear(d) \/ Move(d)
  BY <1>2 DEF Going, Outside, PauseConsumers, ReadVersion, BeginTransition,
       EnterBootloader, BootloaderFound, StoreObserved, Erase, Write, Start,
       StartReportsError, ApplicationVerified, Succeed, Appear, Move, WindowCloses,
       Restart, Preflight, PreflightRefused, StartFlash, RefuseFlash, VerifySession,
       StartConsumers, vars, deviceVars, stateVars, flashVars, readerVars, hostVars,
       historyVars
<1> QED BY <1>1, <1>2, Cases

LEMMA NobodyMoved ==
  ASSUME TypeOK, [Next]_vars, InPlace'
  PROVE  InPlace /\ ~\E d \in Devices : Move(d)
<1> USE DEF InPlace
<1>0. scenario' = scenario /\ scenario.moves \in Nat /\ moves \in 0..scenario.moves
  BY HostStays, ScenariosAssumption DEF TypeOK
<1>1. ASSUME NEW d \in Devices, Move(d) PROVE FALSE
  BY <1>0, <1>1 DEF Move
<1>2. CASE Failing
  <2>1. moves' = moves
    BY <1>2, FailingEffect
  <2> QED BY <1>0, <1>1, <2>1
<1>3. CASE Going \/ Outside \/ UNCHANGED vars \/ \E d \in Devices : Appear(d)
  <2>1. moves' = moves
    BY <1>3 DEF Going, Outside, PauseConsumers, ReadVersion, BeginTransition,
         EnterBootloader, BootloaderFound, StoreObserved, Erase, Write, Start,
         StartReportsError, ApplicationVerified, Succeed, Appear, Move, WindowCloses,
         Restart, Preflight, PreflightRefused, StartFlash, RefuseFlash, VerifySession,
         StartConsumers, vars, deviceVars, stateVars, flashVars, readerVars, hostVars,
         historyVars
  <2> QED BY <1>0, <1>1, <2>1
<1> QED BY <1>1, <1>2, <1>3, Cases

\* Whatever the flash finds where it looks is the configured radio.
LEMMA OnlyTheRadioIsThere ==
  ASSUME SafeInv, PlaceInv, pc # "idle", NEW m, NEW d \in Running(m),
         port[d] = target.topology \/ scenario.qemu
  PROVE  d = configured
<1>1. configured \in Devices /\ d \in Devices /\ port[d] # None
  BY PathsAssumption DEF Running, SafeInv, TypeOK
<1>2. CASE scenario.qemu
  BY <1>1, <1>2 DEF PlaceInv
<1>3. CASE ~scenario.qemu
  BY <1>1, <1>3 DEF PlaceInv, SafeInv, BusInv
<1> QED BY <1>2, <1>3

LEMMA CandidatesAreTheRadio ==
  ASSUME SafeInv, PlaceInv, pc # "idle"
  PROVE  /\ \A d \in Devices : d \in BootCandidates =>
              d = configured /\ visible[d] /\ mode[d] = "boot"
         /\ \A d \in Devices : d \in AppCandidates =>
              d = configured /\ visible[d] /\ mode[d] = "app"
         /\ \A d \in DfuTargets : d = configured /\ visible[d] /\ mode[d] = "boot"
<1>1. ASSUME NEW d \in Devices, d \in BootCandidates
      PROVE  d = configured /\ visible[d] /\ mode[d] = "boot"
  <2>1. d \in Running("boot") /\ (port[d] = target.topology \/ scenario.qemu)
    BY <1>1, FoundAt DEF BootCandidates
  <2> QED BY <2>1, OnlyTheRadioIsThere DEF Running
<1>2. ASSUME NEW d \in Devices, d \in AppCandidates
      PROVE  d = configured /\ visible[d] /\ mode[d] = "app"
  <2>1. d \in Running("app") /\ (port[d] = target.topology \/ scenario.qemu)
    BY <1>2, FoundAt DEF AppCandidates
  <2> QED BY <2>1, OnlyTheRadioIsThere DEF Running
<1>3. ASSUME NEW d \in DfuTargets PROVE d = configured /\ visible[d] /\ mode[d] = "boot"
  BY <1>3, FoundInDfu, OnlyTheRadioIsThere
<1> QED BY <1>1, <1>2, <1>3

\* So are the bootloaders a new flash may be planned for.
LEMMA PlannedIsTheRadio ==
  ASSUME SafeInv, PlaceInv
  PROVE  /\ \A d \in RecoveryTargets : d = configured
         /\ ticket \notin {None, AutoTicket} => \A d \in ConfirmedTargets : d = configured
<1>0. configured \in Devices
  BY PathsAssumption DEF SafeInv, TypeOK
<1>1. ASSUME NEW d \in RecoveryTargets PROVE d = configured
  <2>1. d \in Devices /\ port[d] # None /\ port[d] = known.topology /\ known # None
        /\ known.path = configured
    BY <1>1, FoundAt DEF RecoveryTargets, KnownForConfig
  <2> QED BY <1>0, <2>1 DEF PlaceInv, SafeInv, BusInv
<1>2. ASSUME ticket \notin {None, AutoTicket}, NEW d \in ConfirmedTargets PROVE d = configured
  <2>1. d \in Devices /\ port[d] # None /\ port[d] = ticket.topology
    BY <1>2, FoundAt DEF ConfirmedTargets
  <2> QED BY <1>0, <1>2, <2>1 DEF PlaceInv, SafeInv, BusInv
<1> QED BY <1>1, <1>2

\* The bound of the flash and of the records is kept by each step.
LEMMA PlaceStep ==
  ASSUME SafeInv, SafeInv', PlaceInv, [Next]_vars, ~\E d \in Devices : Move(d)
  PROVE  PlaceInv'
<1> USE DEF PlaceInv, vars, deviceVars, stateVars, flashVars, readerVars, hostVars,
historyVars
<1>0. configured \in Devices /\ scenario' = scenario
      /\ port \in [Devices -> Ports \cup {None}]
  BY PathsAssumption, HostStays DEF SafeInv, TypeOK
<1>1. ASSUME NEW d \in Devices, Appear(d) PROVE PlaceInv'
  <2>1. /\ UNCHANGED <<known, ticket, pc, target, configured>>
        /\ port' = port \/ (scenario.qemu /\ \E p \in FreePorts : port' = [port EXCEPT ![d] = p])
        /\ ~visible[d]
    BY <1>1 DEF Appear
  <2>2. port[d] # None
    BY <2>1 DEF SafeInv, BusInv
  <2>3. \A e \in Devices : (port'[e] # None <=> port[e] # None) /\ (~scenario.qemu => port'[e] = port[e])
    BY <1>0, <2>1, <2>2, PortsAssumption DEF FreePorts
  <2>4. known # None => known.path \in Devices
    BY PathsAssumption DEF SafeInv, TypeOK, KnownDevices
  <2> QED BY <1>0, <2>1, <2>3, <2>4
<1>2. CASE ~\E d \in Devices : Appear(d)
  <2>0. port' = port
    BY <1>2, PortsStay
  <2>1. CASE Failing
    BY <1>0, <2>0, <2>1, FailingEffect DEF Raise, Finish
  <2>2. CASE WindowCloses \/ StartConsumers \/ UNCHANGED vars
    BY <1>0, <2>0, <2>2 DEF WindowCloses, StartConsumers
  <2>3. CASE Restart
    BY <1>0, <2>0, <2>3 DEF Restart
  <2>4. CASE RefuseFlash
    BY <1>0, <2>0, <2>4 DEF RefuseFlash
  <2>5. CASE Preflight
    <3>1. /\ ticket' \in {AutoTicket, Bootloader(configured)}
          /\ ticket' # AutoTicket => configured \in Running("boot")
          /\ UNCHANGED <<known, pc, target, configured>> /\ pc = "idle"
      BY <1>0, <2>5 DEF Preflight, UnpairedTargets
    <3>2. scenario.qemu => port[configured] # None
      BY <1>0, <2>5, PlannedIsTheRadio, FoundAt
      DEF Preflight, UnpairedTargets, ApplicationHere, Running, RecoveryTargets, At
    <3> QED BY <1>0, <2>0, <3>1, <3>2 DEF Bootloader
  <2>6. CASE StartFlash
    <3>1. /\ pc' = "pause" /\ ticket' = None /\ ticket # None /\ UNCHANGED <<known, configured>>
          /\ target' \in {Application(configured), Bootloader(configured)}
      BY <2>6, PlannedIsTheRadio DEF StartFlash, Plan
    <3> QED BY <1>0, <2>0, <3>1 DEF Application, Bootloader
  <2>7. CASE VerifySession
    <3>1. /\ known'.topology = port[configured] /\ known'.path = configured
          /\ UNCHANGED <<ticket, pc, target, configured>> /\ port[configured] # None
      BY <2>7 DEF VerifySession, Save, Application, ApplicationHere, Running
    <3> QED BY <1>0, <2>0, <3>1
  <2>8. CASE BeginTransition \/ StoreObserved \/ Succeed
    <3>1. /\ known'.topology = target.topology /\ known'.path = configured
          /\ UNCHANGED <<ticket, configured>> /\ pc # "idle" /\ (pc' # "idle" => target' = target)
      BY <2>8 DEF BeginTransition, StoreObserved, Succeed, Save, Finish
    <3> QED BY <1>0, <2>0, <3>1
  <2>9. ASSUME \/ PauseConsumers \/ ReadVersion \/ EnterBootloader \/ Erase \/ Write \/ Start
               \/ StartReportsError
        PROVE  PlaceInv'
    <3>1. UNCHANGED <<known, ticket, configured, target>> /\ pc # "idle"
      BY <2>9 DEF PauseConsumers, ReadVersion, EnterBootloader, Erase, Write, Start,
           StartReportsError
    <3> QED BY <1>0, <2>0, <3>1
  <2>10. CASE BootloaderFound \/ ApplicationVerified
    <3>1. /\ UNCHANGED <<known, ticket, configured>> /\ pc # "idle"
          /\ target' \in {Application(configured), Bootloader(configured)}
      BY <2>10, CandidatesAreTheRadio DEF BootloaderFound, ApplicationVerified
    <3> QED BY <1>0, <2>0, <3>1 DEF Application, Bootloader
  <2> QED BY <1>2, <2>1, <2>2, <2>3, <2>4, <2>5, <2>6, <2>7, <2>8, <2>9, <2>10,
     Cases DEF Going, Outside
<1> QED BY <1>1, <1>2


\* The radio does what the flash believes it does.
LEMMA RadioStep ==
  ASSUME SafeInv, PlaceInv, RadioInv, [Next]_vars, ~\E d \in Devices : Move(d)
  PROVE  RadioInv'
<1> USE DEF RadioInv, Changing, InDfu, vars, deviceVars, stateVars, flashVars,
readerVars, hostVars, historyVars
<1>0. /\ configured \in Devices /\ mode \in [Devices -> {"app", "boot"}]
      /\ visible \in [Devices -> BOOLEAN] /\ port \in [Devices -> Ports \cup {None}]
      /\ firmware \in [Devices -> {"old", "broken", "new"}]
  BY PathsAssumption DEF SafeInv, TypeOK
<1>1. CASE Failing \/ Restart
  <2>1. pc' = "idle"
    BY <1>1, FailingEffect DEF Raise, Finish, Restart
  <2> QED BY <2>1
<1>2. ASSUME NEW d \in Devices, Appear(d) PROVE RadioInv'
  <2>1. /\ UNCHANGED <<mode, firmware, pc, plan, target, configured>>
        /\ ~visible[d] /\ visible' = [visible EXCEPT ![d] = TRUE]
        /\ port' = port \/ \E p \in FreePorts : port' = [port EXCEPT ![d] = p]
    BY <1>2 DEF Appear
  <2>2. pc \in InDfu => d # configured
    BY <2>1
  <2>3. pc \in InDfu => Bootloader(configured)' = Bootloader(configured) /\ visible'[configured]
    BY <1>0, <2>1, <2>2 DEF Bootloader
  <2> QED BY <2>1, <2>3
<1>3. CASE \/ WindowCloses \/ Preflight \/ RefuseFlash \/ VerifySession \/ StartConsumers
           \/ UNCHANGED vars
  <2>1. UNCHANGED <<port, mode, visible, firmware, pc, plan, target, configured>>
    BY <1>3 DEF WindowCloses, Preflight, RefuseFlash, VerifySession, StartConsumers
  <2> QED BY <2>1 DEF Bootloader
<1>4. CASE StartFlash
  <2>1. /\ pc' = "pause" /\ UNCHANGED <<mode, configured>>
        /\ plan' = "application" => ApplicationHere
    BY <1>4 DEF StartFlash, Plan
  <2> QED BY <2>1 DEF ApplicationHere, Running
<1>5. CASE PauseConsumers \/ ReadVersion \/ BeginTransition
  <2>1. /\ pc \notin Changing \cup {"idle"} /\ UNCHANGED <<mode, configured, plan>>
        /\ pc' \in {"enter", "waitBoot", "handoff", "b01"}
    BY <1>5 DEF PauseConsumers, ReadVersion, BeginTransition
  <2> QED BY <2>1
<1>6. CASE EnterBootloader
  BY <1>6 DEF EnterBootloader
<1>7. CASE BootloaderFound
  <2>1. /\ pc' = "store" /\ target' = Bootloader(configured) /\ visible[configured]
        /\ UNCHANGED <<port, visible, configured>>
    BY <1>7, CandidatesAreTheRadio DEF BootloaderFound
  <2> QED BY <2>1 DEF Bootloader
<1>8. CASE StoreObserved \/ Erase
  <2>1. /\ pc' \in {"erase", "write"} /\ pc \in InDfu
        /\ UNCHANGED <<port, visible, configured, target>>
    BY <1>8 DEF StoreObserved, Erase
  <2> QED BY <2>1 DEF Bootloader
<1>9. CASE Write
  <2>1. /\ pc = "write" /\ pc' = "start" /\ UNCHANGED <<port, visible, configured, target>>
        /\ \E d \in DfuTargets : firmware' = [firmware EXCEPT ![d] = "new"]
    BY <1>9 DEF Write
  <2>2. firmware'[configured] = "new"
    BY <1>0, <2>1, CandidatesAreTheRadio
  <2> QED BY <2>1, <2>2 DEF Bootloader
<1>10. CASE Start \/ StartReportsError
  <2>1. pc = "start" /\ pc' = "waitApp" /\ UNCHANGED <<firmware, configured>>
    BY <1>10 DEF Start, StartReportsError
  <2> QED BY <2>1
<1>11. CASE ApplicationVerified
  <2>1. /\ pc = "waitApp" /\ pc' = "save" /\ UNCHANGED <<firmware, mode, configured>>
        /\ mode[configured] = "app"
    BY <1>11, CandidatesAreTheRadio DEF ApplicationVerified
  <2> QED BY <2>1
<1>12. CASE Succeed
  BY <1>12 DEF Succeed, Finish
<1> QED BY <1>1, <1>2, <1>3, <1>4, <1>5, <1>6, <1>7, <1>8, <1>9, <1>10, <1>11, <1>12, Cases
        DEF Going, Outside

\* A radio that lost its firmware stays in sight and on record.
LEMMA BrokenStep ==
  ASSUME SafeInv, PlaceInv, RadioInv, BrokenInv, [Next]_vars, ~\E d \in Devices : Move(d)
  PROVE  BrokenInv'
<1> USE DEF BrokenInv, vars, deviceVars, stateVars, flashVars, readerVars, hostVars,
historyVars
<1>0. /\ configured \in Devices /\ mode \in [Devices -> {"app", "boot"}]
      /\ visible \in [Devices -> BOOLEAN] /\ port \in [Devices -> Ports \cup {None}]
      /\ firmware \in [Devices -> {"old", "broken", "new"}]
      /\ known # None => known.path \in Devices
  BY PathsAssumption DEF SafeInv, TypeOK, KnownDevices
<1>b. ASSUME NEW d \in Devices, firmware[d] = "broken" PROVE mode[d] = "boot" /\ visible[d]
  BY <1>b DEF SafeInv, BusInv
<1>i. ASSUME UNCHANGED <<port, visible, firmware, known>> PROVE BrokenInv'
  BY <1>i DEF ChangedSerial
<1>l. ASSUME NEW d \in Devices, NEW m, Leaves(d, m), firmware[d] # "broken",
             UNCHANGED <<firmware, known>>
      PROVE  BrokenInv'
  BY <1>0, <1>l DEF Leaves, ChangedSerial
<1>e. ASSUME NEW d \in DfuTargets, NEW w \in {"broken", "new"}, pc \in {"erase", "write"},
             firmware' = [firmware EXCEPT ![d] = w], UNCHANGED <<port, visible, known>>
      PROVE  BrokenInv'
  <2>1. d = configured /\ visible[d]
    BY <1>e, CandidatesAreTheRadio
  <2>2. known.topology = port[configured] /\ known.serial = BootSerial[configured]
        /\ known.path = configured
    BY <1>e DEF RadioInv, InDfu, SafeInv, RecordInv, Bootloader
  <2> QED BY <1>0, <1>e, <2>1, <2>2 DEF ChangedSerial
<1>1. CASE Failing
  <2>1. CASE UNCHANGED <<mode, visible, firmware>>
    BY <1>1, <1>i, <2>1, FailingEffect
  <2>2. CASE EndpointUnchanged /\ Leaves(configured, "boot") /\ UNCHANGED firmware
    BY <1>0, <1>1, <1>b, <1>l, <2>2, FailingEffect DEF EndpointUnchanged,
         ApplicationHere, Running
  <2>3. ASSUME pc \in {"erase", "write"}, UNCHANGED <<mode, visible>>,
               NEW d \in DfuTargets, NEW w \in {"broken", "new"},
               firmware' = [firmware EXCEPT ![d] = w]
        PROVE  BrokenInv'
    BY <1>1, <1>e, <2>3, FailingEffect
  <2> QED BY <1>1, <2>1, <2>2, <2>3, FailingEffect
<1>2. ASSUME NEW d \in Devices, Appear(d) PROVE BrokenInv'
  <2>1. /\ UNCHANGED <<firmware, known>> /\ ~visible[d] /\ visible' = [visible EXCEPT ![d] = TRUE]
        /\ port' = port \/ \E p \in FreePorts : port' = [port EXCEPT ![d] = p]
    BY <1>2 DEF Appear
  <2>2. firmware[d] # "broken"
    BY <1>b, <2>1
  <2> QED BY <1>0, <2>1, <2>2 DEF ChangedSerial
<1>3. CASE Erase \/ Write
  BY <1>3, <1>e DEF Erase, Write
<1>4. CASE EnterBootloader
  BY <1>0, <1>4, <1>b, <1>l DEF EnterBootloader, EndpointUnchanged, ApplicationHere, Running
<1>5. CASE Start \/ StartReportsError
  <2>1. pc = "start" /\ UNCHANGED <<firmware, known>>
    BY <1>5 DEF Start, StartReportsError
  <2>2. \/ UNCHANGED <<port, visible>>
        \/ \E d \in DfuTargets : Leaves(d, ResetMode(d))
    BY <1>5 DEF Start, StartReportsError
  <2>3. \A d \in DfuTargets : d = configured /\ firmware[d] # "broken"
    BY <2>1, CandidatesAreTheRadio DEF RadioInv
  <2> QED BY <1>0, <1>i, <1>l, <2>1, <2>2, <2>3
<1>6. CASE BeginTransition \/ Succeed \/ VerifySession
  <2>1. UNCHANGED <<port, visible, firmware>> /\ known'.path = configured
    <3>1. CASE BeginTransition
      BY <3>1 DEF BeginTransition, Save
    <3>2. CASE Succeed
      BY <3>2 DEF Succeed, Save
    <3>3. CASE VerifySession
      BY <3>3 DEF VerifySession, Save
    <3> QED BY <1>6, <3>1, <3>2, <3>3
  <2>2. firmware[configured] # "broken"
    BY <1>0, <1>6, <1>b
    DEF BeginTransition, Succeed, VerifySession, ApplicationHere, Running, RadioInv,
    SafeInv, PlanInv,
        Changing
  <2> QED BY <2>1, <2>2
<1>7. CASE StoreObserved
  <2>1. /\ UNCHANGED <<port, visible, firmware>> /\ known'.path = configured
        /\ known'.topology = port[configured] /\ known'.serial = BootSerial[configured]
    BY <1>7 DEF StoreObserved, Save, RadioInv, InDfu, Bootloader
  <2> QED BY <2>1 DEF ChangedSerial
<1>8. CASE \/ WindowCloses \/ Restart \/ Preflight \/ StartFlash \/ RefuseFlash \/ StartConsumers
           \/ UNCHANGED vars \/ PauseConsumers \/ ReadVersion \/ BootloaderFound
           \/ ApplicationVerified
  <2>1. UNCHANGED <<port, visible, firmware, known>>
    BY <1>8 DEF WindowCloses, Restart, Preflight, StartFlash, RefuseFlash, StartConsumers,
       PauseConsumers, ReadVersion, BootloaderFound, ApplicationVerified
  <2> QED BY <1>i, <2>1
<1> QED BY <1>1, <1>2, <1>3, <1>4, <1>5, <1>6, <1>7, <1>8, Cases DEF Going, Outside

----------------------------------------------------------------------------
(* What follows where nobody replugs anything                              *)

LEMMA InPlaceInit == QemuIsAlone /\ Init => InPlaceInv
<1> SUFFICES ASSUME QemuIsAlone, Init PROVE PlaceInv /\ RadioInv /\ BrokenInv
  BY DEF InPlaceInv
<1>0. configured \in Devices /\ (known # None => known.path = configured /\ known.topology = port[configured])
  BY PathsAssumption DEF Init
<1>1. scenario.qemu => \A d \in Devices : port[d] = None \/ d = configured
  BY DEF Init, QemuIsAlone
<1>2. PlaceInv
  BY <1>0, <1>1 DEF Init, PlaceInv
<1>3. RadioInv /\ BrokenInv
  BY <1>0 DEF Init, RadioInv, BrokenInv, Changing, InDfu
<1> QED BY <1>2, <1>3

LEMMA InPlaceStep == SafeInv /\ SafeInv' /\ InPlaceInv /\ [Next]_vars => InPlaceInv'
<1> SUFFICES ASSUME SafeInv, SafeInv', InPlaceInv, [Next]_vars, InPlace'
             PROVE  PlaceInv' /\ RadioInv' /\ BrokenInv'
  BY DEF InPlaceInv
<1>1. InPlace /\ ~\E d \in Devices : Move(d)
  BY NobodyMoved DEF SafeInv
<1> QED BY <1>1, PlaceStep, RadioStep, BrokenStep DEF InPlaceInv

\* Where nobody replugs anything, the topologies on record, on the ticket and in
\* the plan are the configured radio's, and it is where the flash believes it is.
THEOREM InPlaceInvariant == ASSUME QemuIsAlone PROVE Spec => []InPlaceInv
<1>1. Init => InPlaceInv
  BY InPlaceInit
<1>2. SafeInv /\ SafeInv' /\ InPlaceInv /\ [Next]_vars => InPlaceInv'
  BY InPlaceStep
<1> QED BY <1>1, <1>2, SafeInvariant, PTL DEF Spec

\* Every crash and every error leaves a record by which _bootloader_for_known()
\* finds the radio that has no firmware.
THEOREM BrokenRadioIsFound == ASSUME QemuIsAlone PROVE Spec => []BrokenIsRecoverable
<1>1. InPlaceInv => BrokenIsRecoverable
  <2> SUFFICES ASSUME InPlaceInv, NEW d \in Paths, firmware[d] = "broken", d \in Running("boot"),
                      configured = d, KnownForConfig, InPlace
               PROVE  d \in RecoveryTargets
    BY DEF BrokenIsRecoverable
  <2>1. known.topology = port[d] /\ ~ChangedSerial(known.serial, d)
    BY DEF InPlaceInv, BrokenInv, KnownForConfig
  <2> QED BY <2>1, PathsAssumption DEF RecoveryTargets, At
<1> QED BY <1>1, InPlaceInvariant, PTL

\* A flash reports success only when the configured radio runs the new firmware.
THEOREM SuccessMeansUpdated == ASSUME QemuIsAlone PROVE Spec => SuccessIsNewFirmware
<1>1. InPlaceInv /\ [Next]_vars =>
        [Succeed /\ InPlace => firmware[configured] = "new" /\ mode[configured] = "app"]_vars
  BY DEF InPlaceInv, RadioInv, Succeed
<1> QED BY <1>1, InPlaceInvariant, PTL DEF Spec, SuccessIsNewFirmware

\* Where nobody replugs anything, only the configured radio is erased, whatever
\* serials the radios have or lack.
THEOREM NothingElseIsErasedInPlace ==
  ASSUME QemuIsAlone
  PROVE  Spec => [][InPlace => \A d \in Devices : Erased(d) => d = configured]_vars
<1>1. ASSUME SafeInv, InPlaceInv, [Next]_vars, InPlace, NEW d \in Devices, Erased(d)
      PROVE  d = configured
  <2>1. pc \in {"erase", "write"} /\ d \in DfuTargets
    BY <1>1, EffectOnFirmware
  <2> QED BY <1>1, <2>1, CandidatesAreTheRadio DEF InPlaceInv
<1>2. SafeInv /\ InPlaceInv /\ [Next]_vars =>
        [InPlace => \A d \in Devices : Erased(d) => d = configured]_vars
  BY <1>1
<1> QED BY <1>2, SafeInvariant, InPlaceInvariant, PTL DEF Spec

----------------------------------------------------------------------------
(* Whose bootloader is erased, wherever radios are plugged meanwhile       *)

LEMMA IdentityInit == Init => IdentityInv
<1> SUFFICES ASSUME Init PROVE RecordIdentity /\ FlashIdentity
  BY DEF IdentityInv
<1>1. known # None => /\ known.binding = "legacy-unknown"
                      /\ known.serial \in {AppSerial[known.path], BootSerial[known.path]}
  BY DEF Init
<1> QED BY <1>1 DEF Init, RecordIdentity, FlashIdentity, FlashAcceptsChange, InDfu

\* A bootloader whose serial does not contradict one of a configurable radio's
\* is that radio's.
LEMMA SerialTells ==
  ASSUME SerialsTellRadios, NEW c \in Paths, NEW d \in Devices,
         NEW s \in {AppSerial[c], BootSerial[c]}, ~ChangedSerial(s, d)
  PROVE  d = c
  BY PathsAssumption DEF SerialsTellRadios, ChangedSerial

\* A device on the radio's port is the radio.
LEMMA PortTells ==
  ASSUME SafeInv, NEW c \in Devices, NEW d \in Devices, port[d] # None, port[d] = port[c]
  PROVE  d = c
  BY DEF SafeInv, BusInv

\* A bootloader that the record allows to recover is the radio's, unless the
\* record still accepts a swap that was made in its window.
LEMMA RecoveredRadio ==
  ASSUME SerialsTellRadios, SafeInv, RecordIdentity, NEW d \in RecoveryTargets
  PROVE  recordSwapped \/ d = configured
<1>0. configured \in Paths /\ configured \in Devices
  BY PathsAssumption DEF SafeInv, TypeOK
<1>1. /\ d \in Devices /\ port[d] = known.topology /\ port[d] # None
      /\ known # None /\ known.path = configured
      /\ ChangedSerial(known.serial, d) => known.binding = "handoff-pending" /\ window
  BY FoundAt DEF RecoveryTargets, KnownForConfig
<1>2. CASE ChangedSerial(known.serial, d)
  <2>1. recordSwapped \/ port[configured] = port[d]
    BY <1>1, <1>2 DEF RecordIdentity
  <2> QED BY <1>0, <1>1, <2>1, PortTells
<1>3. CASE ~ChangedSerial(known.serial, d)
  <2>1. recordSwapped \/ known.serial \in {AppSerial[configured], BootSerial[configured]}
    BY <1>1 DEF RecordIdentity
  <2> QED BY <1>0, <1>1, <1>3, <2>1, SerialTells
<1> QED BY <1>2, <1>3

\* So is the bootloader that _wait_for_bootloader() accepts.
LEMMA AwaitedRadio ==
  ASSUME SerialsTellRadios, SafeInv, ~scenario.qemu, FlashIdentity,
         pc = "waitBoot", NEW d \in Devices, d \in BootCandidates, ExpectedSerial(d)
  PROVE  flashSwapped \/ d = configured
<1>0. configured \in Paths /\ configured \in Devices
  BY PathsAssumption DEF SafeInv, TypeOK
<1>1. port[d] = target.topology /\ port[d] # None
  BY FoundAt DEF BootCandidates
<1>2. CASE plan = "application"
  <2>1. flashSwapped \/ port[configured] = target.topology
    BY <1>2 DEF FlashIdentity, FlashAcceptsChange
  <2> QED BY <1>0, <1>1, <2>1, PortTells
<1>3. CASE plan # "application"
  <2>1. ~ChangedSerial(target.serial, d) /\ (flashSwapped \/ target.serial = BootSerial[configured])
    BY <1>3 DEF ExpectedSerial, FlashIdentity
  <2> QED BY <1>0, <2>1, SerialTells
<1> QED BY <1>2, <1>3

\* So is the one that dfu-programmer addresses.
LEMMA AddressedRadio ==
  ASSUME SerialsTellRadios, SafeInv, FlashIdentity, pc \in InDfu, NEW d \in DfuTargets
  PROVE  flashSwapped \/ d = configured
<1>0. configured \in Paths
  BY DEF SafeInv, TypeOK
<1>1. d \in Devices /\ ~ChangedSerial(target.serial, d)
  BY FoundInDfu
<1>2. flashSwapped \/ target.serial = BootSerial[configured]
  BY DEF FlashIdentity
<1> QED BY <1>0, <1>1, <1>2, SerialTells

\* And the application that _find_application() takes for the started one.
LEMMA StartedRadio ==
  ASSUME SafeInv, ~scenario.qemu, FlashIdentity, pc = "waitApp", NEW d \in Devices,
         d \in AppCandidates
  PROVE  flashSwapped \/ d = configured
<1>0. configured \in Devices
  BY PathsAssumption DEF SafeInv, TypeOK
<1>1. port[d] = target.topology /\ port[d] # None
  BY FoundAt DEF AppCandidates
<1>2. flashSwapped \/ port[configured] = target.topology
  BY DEF FlashIdentity, FlashAcceptsChange
<1> QED BY <1>0, <1>1, <1>2, PortTells

\* What is written and what is accepted is tracked from step to step.
LEMMA RecordIdentityStep ==
  ASSUME SerialsTellRadios, SafeInv, ~scenario.qemu, RecordIdentity, FlashIdentity, [Next]_vars
  PROVE  RecordIdentity'
<1> USE DEF RecordIdentity, vars, deviceVars, stateVars, flashVars, readerVars, hostVars,
historyVars
<1>i. ASSUME UNCHANGED <<port, known, window, recordSwapped>> PROVE RecordIdentity'
  BY <1>i
<1>1. CASE Failing
  BY <1>1, <1>i, FailingEffect
<1>2. ASSUME NEW d \in Devices, Appear(d) PROVE RecordIdentity'
  BY <1>2, <1>i DEF Appear
<1>3. ASSUME NEW d \in Devices, Move(d) PROVE RecordIdentity'
  <2>1. UNCHANGED <<known, window>> /\ recordSwapped' = (recordSwapped \/ RecordAcceptsChange)
    BY <1>3 DEF Move
  <2> QED BY <2>1 DEF RecordAcceptsChange
<1>4. CASE WindowCloses
  <2>1. /\ window /\ window' = FALSE /\ recordSwapped' = FALSE /\ known' = known
    BY <1>4 DEF WindowCloses
  <2> QED BY <2>1
<1>5. ASSUME NEW b \in Bindings, NEW t \in Targets, Save(t, b), UNCHANGED <<port, configured>>,
             b = "handoff-pending" =>
                 /\ t.serial = AppSerial[configured]
                 /\ flashSwapped \/ port[configured] = t.topology,
             flashSwapped \/ t.serial \in {AppSerial[configured], BootSerial[configured]}
      PROVE  RecordIdentity'
  <2>1. /\ known'.serial = t.serial /\ known'.binding = b /\ known'.path = configured
        /\ known'.topology = t.topology /\ window' = (b = "handoff-pending")
        /\ recordSwapped' = flashSwapped
    BY <1>5 DEF Save
  <2>2. known' # None
    BY <1>5, Recorded DEF Save, SafeInv, TypeOK
  <2> QED BY <1>5, <2>1, <2>2
<1>6. CASE VerifySession
  <2>1. /\ Save(Application(configured), "verified-application") /\ ApplicationHere
        /\ UNCHANGED <<port, configured>>
    BY <1>6 DEF VerifySession
  <2>2. Application(configured) \in Targets
    BY <2>1, Found, PathsAssumption DEF ApplicationHere, SafeInv, TypeOK
  <2> QED BY <1>5, <2>1, <2>2 DEF Application, Bindings
<1>7. CASE BeginTransition
  <2>1. /\ Save(target, "handoff-pending") /\ pc = "handoff" /\ UNCHANGED <<port, configured>>
    BY <1>7 DEF BeginTransition
  <2>2. target \in Targets /\ plan = "application"
    BY <2>1 DEF SafeInv, PlanInv
  <2>3. /\ target.serial = AppSerial[configured]
        /\ flashSwapped \/ port[configured] = target.topology
    BY <2>1, <2>2 DEF FlashIdentity, FlashAcceptsChange
  <2> QED BY <1>5, <2>1, <2>2, <2>3 DEF Bindings
<1>8. CASE StoreObserved
  <2>1. /\ Save(target, "observed-bootloader") /\ pc = "store" /\ UNCHANGED <<port, configured>>
    BY <1>8 DEF StoreObserved
  <2>2. target \in Targets /\ (flashSwapped \/ target.serial = BootSerial[configured])
    BY <2>1 DEF SafeInv, PlanInv, FlashIdentity, InDfu
  <2> QED BY <1>5, <2>1, <2>2 DEF Bindings
<1>9. CASE Succeed
  <2>1. /\ Save(target, "verified-application") /\ pc = "save" /\ UNCHANGED <<port, configured>>
    BY <1>9 DEF Succeed
  <2>2. target \in Targets /\ (flashSwapped \/ target.serial = AppSerial[configured])
    BY <2>1 DEF SafeInv, PlanInv, FlashIdentity
  <2> QED BY <1>5, <2>1, <2>2 DEF Bindings
<1>10. CASE \/ Restart \/ Preflight \/ StartFlash \/ RefuseFlash \/ StartConsumers
            \/ UNCHANGED vars \/ PauseConsumers \/ ReadVersion \/ EnterBootloader
            \/ BootloaderFound \/ Erase \/ Write \/ Start \/ StartReportsError
            \/ ApplicationVerified
  <2>1. UNCHANGED <<known, window, recordSwapped>>
    BY <1>10 DEF Restart, Preflight, StartFlash, RefuseFlash, StartConsumers,
         PauseConsumers,
       ReadVersion, EnterBootloader, BootloaderFound, Erase, Write, Start,
       StartReportsError,
       ApplicationVerified
  <2>2. (\E d \in Devices : Appear(d) \/ Move(d)) \/ port' = port
    BY PortsStay
  <2> QED BY <1>2, <1>3, <1>i, <2>1, <2>2
<1> QED BY <1>1, <1>2, <1>3, <1>4, <1>6, <1>7, <1>8, <1>9, <1>10, Cases DEF Going, Outside

\* So is what the running flash accepts.
LEMMA FlashIdentityStep ==
  ASSUME SerialsTellRadios, SafeInv, ~scenario.qemu, RecordIdentity, FlashIdentity, [Next]_vars
  PROVE  FlashIdentity'
<1> USE DEF FlashIdentity, FlashAcceptsChange, InDfu, vars, deviceVars, stateVars,
flashVars, readerVars, hostVars, historyVars
<1>0. configured \in Devices /\ configured \in Paths
  BY PathsAssumption DEF SafeInv, TypeOK
<1>1. CASE Failing
  <2>1. pc' = "idle" /\ flashSwapped' = FALSE /\ UNCHANGED <<configured, ticket>>
    BY <1>1, FailingEffect DEF Raise, Finish
  <2> QED BY <2>1
<1>2. ASSUME NEW d \in Devices, Appear(d) PROVE FlashIdentity'
  <2>1. UNCHANGED <<port, flashSwapped, ticket, pc, plan, target, configured>>
    BY <1>2 DEF Appear
  <2> QED BY <2>1
<1>3. ASSUME NEW d \in Devices, Move(d) PROVE FlashIdentity'
  <2>1. /\ UNCHANGED <<ticket, pc, plan, target, configured>>
        /\ flashSwapped' = (flashSwapped \/ FlashAcceptsChange)
    BY <1>3 DEF Move
  <2> QED BY <2>1
<1>4. CASE WindowCloses \/ Preflight \/ RefuseFlash \/ StartConsumers \/ VerifySession \/ UNCHANGED vars
  <2>1. /\ UNCHANGED <<port, flashSwapped, pc, plan, target, configured>>
        /\ ticket' \in {ticket, None, AutoTicket, Bootloader(configured)}
    BY <1>4 DEF WindowCloses, Preflight, RefuseFlash, StartConsumers, VerifySession
  <2> QED BY <2>1 DEF Bootloader
<1>5. CASE Restart
  <2>1. pc' = "idle" /\ ticket' = None /\ flashSwapped' = FALSE
    BY <1>5 DEF Restart
  <2> QED BY <2>1
<1>6. CASE StartFlash
  <2>1. /\ pc' = "pause" /\ ticket' = None /\ ticket # None /\ configured' = configured
    BY <1>6 DEF StartFlash, Plan
  <2>2. \/ /\ plan' = "application" /\ target' = Application(configured)
        \/ /\ plan' # "application" /\ ticket # AutoTicket
           /\ \E d \in ConfirmedTargets : target' = Bootloader(d)
        \/ /\ plan' # "application" /\ flashSwapped' = recordSwapped
           /\ \E d \in RecoveryTargets : target' = Bootloader(d)
    BY <1>6 DEF StartFlash, Plan
  <2>3. ASSUME ticket # AutoTicket, NEW d \in ConfirmedTargets
        PROVE  BootSerial[d] = BootSerial[configured]
    BY <1>0, <2>1, <2>3 DEF ConfirmedTargets, SerialsTellRadios
  <2>4. plan' # "application" => flashSwapped' \/ target'.serial = BootSerial[configured]
    BY <2>2, <2>3, RecoveredRadio DEF Bootloader
  <2>5. plan' = "application" => target'.serial = AppSerial[configured]
    BY <2>2 DEF Application
  <2> QED BY <2>1, <2>4, <2>5
<1>7. CASE PauseConsumers \/ ReadVersion
  <2>1. UNCHANGED <<port, flashSwapped, ticket, plan, target, configured>>
    BY <1>7 DEF PauseConsumers, ReadVersion
  <2>2. \/ pc = "pause" /\ pc' = IF plan = "application" THEN "enter" ELSE "waitBoot"
        \/ pc = "enter" /\ pc' = "handoff" /\ port[configured] = target.topology
    BY <1>7 DEF PauseConsumers, ReadVersion, EndpointUnchanged, Application
  <2> QED BY <2>1, <2>2
<1>8. CASE BeginTransition \/ EnterBootloader
  <2>1. UNCHANGED <<port, flashSwapped, ticket, plan, target, configured>>
    BY <1>8 DEF BeginTransition, EnterBootloader, Leaves
  <2>2. \/ pc = "handoff" /\ pc' = "b01"
        \/ pc = "b01" /\ pc' = "waitBoot"
    BY <1>8 DEF BeginTransition, EnterBootloader
  <2>3. plan = "application"
    BY <2>2 DEF SafeInv, PlanInv
  <2> QED BY <2>1, <2>2, <2>3
<1>9. CASE BootloaderFound
  <2>1. /\ UNCHANGED <<flashSwapped, ticket, plan, configured>> /\ pc' = "store"
        /\ pc = "waitBoot"
    BY <1>9 DEF BootloaderFound
  <2>2. PICK d \in Devices : d \in BootCandidates /\ ExpectedSerial(d) /\ target' = Bootloader(d)
    BY <1>9 DEF BootloaderFound
  <2>3. flashSwapped \/ target'.serial = BootSerial[configured]
    BY <2>1, <2>2, AwaitedRadio DEF Bootloader
  <2> QED BY <2>1, <2>3
<1>10. CASE StoreObserved \/ Erase \/ Write
  <2>1. /\ UNCHANGED <<flashSwapped, ticket, plan, target, configured>>
        /\ pc \in InDfu /\ pc' \in {"erase", "write", "start"}
    BY <1>10 DEF StoreObserved, Erase, Write
  <2> QED BY <2>1
<1>11. CASE Start \/ StartReportsError
  <2>1. /\ UNCHANGED <<flashSwapped, ticket, plan, target, configured>>
        /\ pc = "start" /\ pc' = "waitApp" /\ DfuTargets # {}
    BY <1>11 DEF Start, StartReportsError
  <2>2. port' = port
    BY <1>11 DEF Start, StartReportsError, Leaves
  <2>3. flashSwapped \/ port[configured] = target.topology
    BY <2>1, AddressedRadio, FoundInDfu
  <2> QED BY <2>1, <2>2, <2>3
<1>12. CASE ApplicationVerified
  <2>1. /\ UNCHANGED <<flashSwapped, ticket, plan, configured>> /\ pc' = "save"
        /\ pc = "waitApp"
    BY <1>12 DEF ApplicationVerified
  <2>2. PICK d \in Devices : d \in AppCandidates /\ target' = Application(d)
    BY <1>12 DEF ApplicationVerified
  <2>3. flashSwapped \/ target'.serial = AppSerial[configured]
    BY <2>1, <2>2, StartedRadio DEF Application
  <2> QED BY <2>1, <2>3
<1>13. CASE Succeed
  <2>1. pc' = "idle" /\ flashSwapped' = FALSE /\ UNCHANGED <<configured, ticket>>
    BY <1>13 DEF Succeed, Finish
  <2> QED BY <2>1
<1> QED BY <1>1, <1>2, <1>3, <1>4, <1>5, <1>6, <1>7, <1>8, <1>9, <1>10, <1>11, <1>12, <1>13, Cases
        DEF Going, Outside

\* Where configurable radios report serials that no other radio's bootloader
\* has, the record, the ticket and the running flash name the configured radio
\* by serial, or by its port while a changed serial is accepted, whatever is
\* replugged at any other time.
THEOREM IdentityInvariant == ASSUME SerialsTellRadios PROVE Spec => []IdentityInv
<1>1. Init => IdentityInv
  BY IdentityInit
<1>2. ASSUME SafeInv, IdentityInv, [Next]_vars PROVE IdentityInv'
  <2>1. scenario' = scenario
    BY <1>2, HostStays
  <2> QED BY <1>2, <2>1, RecordIdentityStep, FlashIdentityStep DEF IdentityInv
<1>3. SafeInv /\ IdentityInv /\ [Next]_vars => IdentityInv'
  BY <1>2
<1> QED BY <1>1, <1>3, SafeInvariant, PTL DEF Spec

\* Crashes, restarts with another path, stale validations, expired windows and
\* swapped cables notwithstanding, dfu-programmer erases and writes only the
\* configured radio.  The one exception is a swap that was made while the flash,
\* or the open window of the record it recovers from, or the flash that wrote
\* that record, accepted a changed serial.
THEOREM OnlyTheRadioIsErased ==
  ASSUME SerialsTellRadios, QemuStaysAlone PROVE Spec => OnlyConfiguredIsErased
<1>0. QemuIsAlone
  BY DEF QemuStaysAlone, QemuIsAlone
<1>1. ASSUME SafeInv, InPlaceInv, IdentityInv, [Next]_vars, NEW d \in Devices, Erased(d)
      PROVE  d = configured \/ flashSwapped
  <2>1. pc \in {"erase", "write"} /\ d \in DfuTargets
    BY <1>1, EffectOnFirmware
  <2>2. CASE scenario.qemu
    <3>1. InPlace
      BY <1>1, <2>2 DEF InPlace, QemuStaysAlone, SafeInv, TypeOK
    <3> QED BY <1>1, <2>1, <3>1, CandidatesAreTheRadio DEF InPlaceInv
  <2>3. CASE ~scenario.qemu
    BY <1>1, <2>1, <2>3, AddressedRadio DEF IdentityInv, InDfu
  <2> QED BY <2>2, <2>3
<1>2. SafeInv /\ InPlaceInv /\ IdentityInv /\ [Next]_vars =>
        [\A d \in Devices : Erased(d) => d = configured \/ flashSwapped]_vars
  BY <1>1
<1> QED BY <1>0, <1>2, SafeInvariant, InPlaceInvariant, IdentityInvariant, PTL
        DEF Spec, OnlyConfiguredIsErased
================================================================================
