------------------------------ MODULE UsbBinding ------------------------------
(***************************************************************************)
(* From a configured path to the radio that gets the bytes: the sysfs      *)
(* lookups of app/usb.py, the endpoint check and the selector of           *)
(* app/flasher.py that are built from them, while devices come and go      *)
(* between any two reads.                                                  *)
(*                                                                         *)
(* FlashTransaction takes each lookup as one step; here a target is read   *)
(* one attribute after the other, a tty name is looked up before it is     *)
(* opened, and dfu-programmer is given an address found a moment ago.      *)
(***************************************************************************)
EXTENDS Integers, FiniteSets

CONSTANTS
    Devices,    \* CUL radios
    Ports,      \* USB topologies
    Ttys,       \* numbers of /dev/ttyACM nodes
    AppSerial,  \* AppSerial[d]: serial descriptor of d's application
    BootSerial, \* BootSerial[d]: serial descriptor of d's bootloader
    Planned,    \* the radio the plan was made for
    None,
    MaxMoves    \* bound: how many times something is plugged in or out

ASSUME PlannedAssumption == Planned \in Devices
ASSUME DevicesAssumption == IsFiniteSet(Devices)
ASSUME TtysAssumption == Ttys \subseteq Nat
ASSUME SerialsAssumption == DOMAIN AppSerial = Devices /\ DOMAIN BootSerial = Devices
ASSUME MovesAssumption == MaxMoves \in Nat
ASSUME NoneAssumption == None \notin Devices \cup Ports \cup Nat

VARIABLES
    port,       \* port[d]: where d is plugged in
    mode,       \* mode[d]: d's USB personality
    tty,        \* tty[d]: the CDC node of d's application
    address,    \* address[d]: the device address of this attachment
    addresses,  \* addresses given so far
    moves,      \* plug events so far
    plan,       \* the application the flash was planned for
    raw,        \* is the configured path a /dev/ttyACM node (not by-id)?
    configured, \* the number the configured path names, when it is a raw one
    step,       \* what the flash is doing
    read,       \* which attribute it reads next
    seen,       \* the UsbTarget being read
    name,       \* the tty _configured_application_endpoint() returned
    fd,         \* the attachment the open session reads and writes
    b01,        \* the radio that got B01
    observed,   \* the bootloader on record
    acted,      \* the radios dfu-programmer worked on
    late        \* was something plugged in since the last recheck began?

deviceVars == <<port, mode, tty, address, addresses>>
lookVars == <<step, read, seen, name>>
doneVars == <<fd, b01, observed, acted>>
fixedVars == <<plan, raw, configured>>
vars == <<deviceVars, moves, fixedVars, lookVars, doneVars, late>>

Serials == {AppSerial[d] : d \in Devices} \cup {BootSerial[d] : d \in Devices}
Target == [port : Ports, serial : Serials \cup {None}, address : Nat]
Dfu == {"erase", "flash", "start"}
Steps == {"alias", "find", "direct", "open", "version", "write", "wait", "done", "failed"} \cup Dfu

TypeOK ==
    /\ port \in [Devices -> Ports \cup {None}]
    /\ mode \in [Devices -> {"application", "bootloader"}]
    /\ tty \in [Devices -> Ttys \cup {None}]
    /\ \A d, e \in Devices :
           d # e => (port[d] # port[e] \/ port[d] = None) /\ (tty[d] # tty[e] \/ tty[d] = None)
    /\ address \in [Devices -> 0..addresses]
    /\ addresses \in Nat
    /\ moves \in 0..MaxMoves
    /\ plan \in Target
    /\ raw \in BOOLEAN
    /\ configured \in Ttys
    /\ step \in Steps
    /\ read \in {"ids", "devnum", "serial", "check", "run"}
    /\ seen \in Target \cup {None}
    /\ name \in Ttys \cup {None}
    /\ step \in {"direct", "open", "version"} => name # None
    /\ fd \in Devices \cup {None}
    /\ b01 \in Devices \cup {None}
    /\ observed \in Target \cup {None}
    /\ acted \subseteq Dfu \X Devices
    /\ late \in BOOLEAN

----------------------------------------------------------------------------
(* The host's USB: descriptors, names and addresses                        *)

SerialOf(d) == IF mode[d] = "application" THEN AppSerial[d] ELSE BootSerial[d]
At(p) == {d \in Devices : port[d] = p}
Named(t) == {d \in Devices : tty[d] = t}

\* The kernel gives a new CDC node the lowest free number.
LowestFree(t) == Named(t) = {} /\ \A s \in Ttys : s < t => Named(s) # {}

Unplug(d) ==
    /\ moves < MaxMoves
    /\ moves' = moves + 1
    /\ port[d] # None
    /\ port' = [port EXCEPT ![d] = None]
    /\ tty' = [tty EXCEPT ![d] = None]
    /\ fd' = IF fd = d THEN None ELSE fd
    /\ UNCHANGED <<mode, address, addresses, fixedVars, lookVars, b01, observed,
                   acted, late>>

\* A radio comes back on any free port with a new address, as an application
\* or, if its button is held, a bootloader.
Plug(d) ==
    /\ moves < MaxMoves
    /\ moves' = moves + 1
    /\ port[d] = None
    /\ \E p \in Ports : At(p) = {} /\ port' = [port EXCEPT ![d] = p]
    /\ \/ /\ mode' = [mode EXCEPT ![d] = "application"]
          /\ \E t \in Ttys : LowestFree(t) /\ tty' = [tty EXCEPT ![d] = t]
       \/ mode' = [mode EXCEPT ![d] = "bootloader"] /\ UNCHANGED tty
    /\ addresses' = addresses + 1
    /\ address' = [address EXCEPT ![d] = addresses + 1]
    /\ late' = TRUE
    /\ UNCHANGED <<fixedVars, lookVars, doneVars>>

----------------------------------------------------------------------------
(* app/usb.py: reading one UsbTarget                                       *)

\* Where a lookup starts: the node the configured path resolves to, the node
\* found for it, or a USB port.
Start ==
    CASE step = "alias" -> IF raw THEN Named(configured)
                           ELSE {d \in Devices : tty[d] # None /\ AppSerial[d] = AppSerial[Planned]}
      [] step = "direct" -> Named(name)
      [] step = "wait" -> At(plan.port)
      [] OTHER -> At(observed.port)

Looking == step \in {"alias", "direct", "wait"} \cup Dfu
Personality == IF step \in {"alias", "direct"} THEN "application" ELSE "bootloader"

\* An exception while the endpoint is looked up or read is retried with the
\* alias; a lookup by port is repeated.  Either gives up in the end.
Retry ==
    /\ read' = "ids"
    /\ step' \in {IF step \in {"wait"} \cup Dfu THEN step ELSE "alias", "failed"}
    /\ fd' = None
    /\ seen' = None
    /\ UNCHANGED <<name, b01, observed, acted>>

\* idVendor and idProduct of the USB device at, or above, the place.
ReadIds ==
    /\ Looking
    /\ read = "ids"
    /\ \E d \in Start :
           /\ mode[d] = Personality
           /\ seen' = [port |-> port[d], serial |-> None, address |-> 0]
    /\ read' = "devnum"
    /\ UNCHANGED <<deviceVars, moves, fixedVars, step, name, doneVars, late>>

\* busnum and devnum, by now of whatever is at that port.
ReadDevnum ==
    /\ Looking
    /\ read = "devnum"
    /\ \E d \in At(seen.port) : seen' = [seen EXCEPT !.address = address[d]]
    /\ read' = "serial"
    /\ UNCHANGED <<deviceVars, moves, fixedVars, step, name, doneVars, late>>

\* An attribute that cannot be read is no serial.
ReadSerial ==
    /\ Looking
    /\ read = "serial"
    /\ \/ \E d \in At(seen.port) : seen' = [seen EXCEPT !.serial = SerialOf(d)]
       \/ At(seen.port) = {} /\ UNCHANGED seen
    /\ read' = "check"
    /\ UNCHANGED <<deviceVars, moves, fixedVars, step, name, doneVars, late>>

\* There is no such device, or its ids or address cannot be read.
LookupFails ==
    /\ Looking
    /\ \/ read = "ids" /\ ~\E d \in Start : mode[d] = Personality
       \/ read = "devnum" /\ At(seen.port) = {}
    /\ Retry
    /\ UNCHANGED <<deviceVars, moves, fixedVars, late>>

----------------------------------------------------------------------------
(* _configured_application_endpoint() and the session on what it returns   *)

\* Stable identity: transient addresses are not compared.
SameIdentity(expected, current) ==
    expected.port = current.port /\ expected.serial = current.serial

Checked(ok, next) ==
    /\ read = "check"
    /\ IF ok THEN /\ step' = next
                  /\ read' = "ids"
                  /\ UNCHANGED <<seen, name, doneVars>>
       ELSE Retry
    /\ UNCHANGED <<deviceVars, moves, fixedVars, late>>

CheckAlias == step = "alias" /\ Checked(SameIdentity(plan, seen), "find")

\* tty_for_topology(): from here on the check looks at the node it returns.
FindTty ==
    /\ step = "find"
    /\ \E d \in At(plan.port) : tty[d] # None /\ name' = tty[d]
    /\ step' = "direct"
    /\ late' = FALSE
    /\ UNCHANGED <<deviceVars, moves, fixedVars, read, seen, doneVars>>

FindTtyFails ==
    /\ step = "find"
    /\ Retry
    /\ UNCHANGED <<deviceVars, moves, fixedVars, late>>

\* Fault variant of CheckDirect: the node is taken as it was found.
CheckDirectTrusted == step = "direct" /\ Checked(TRUE, "open")

\* configured_application() of the node itself.
CheckDirect == step = "direct" /\ Checked(SameIdentity(plan, seen), "open")

OpenPort ==
    /\ step = "open"
    /\ \E d \in Named(name) : fd' = d
    /\ step' = "version"
    /\ UNCHANGED <<deviceVars, moves, fixedVars, read, seen, name, b01, observed,
                   acted, late>>

SessionFails ==
    /\ step \in {"open", "version"}
    /\ Retry
    /\ UNCHANGED <<deviceVars, moves, fixedVars, late>>

\* The radio on the open descriptor answers V; a descriptor whose device has
\* gone answers nothing.
Version ==
    /\ step = "version"
    /\ fd # None
    /\ step' = "write"
    /\ UNCHANGED <<deviceVars, moves, fixedVars, read, seen, name, fd, b01, observed, acted, late>>

\* The radio that gets B01 comes back on its port as a bootloader.
EnterBootloader(d) ==
    /\ b01' = d
    /\ mode' = [mode EXCEPT ![d] = "bootloader"]
    /\ tty' = [tty EXCEPT ![d] = None]
    /\ addresses' = addresses + 1
    /\ address' = [address EXCEPT ![d] = addresses + 1]
    /\ fd' = None
    /\ UNCHANGED <<port, moves, fixedVars, read, seen, name, observed, acted, late>>

WriteB01 ==
    /\ step = "write"
    /\ fd # None
    /\ EnterBootloader(fd)
    /\ step' = "wait"

\* B01 is not repeated: the write may or may not have gone out.
WriteB01Fails ==
    /\ step = "write"
    /\ \/ fd # None /\ EnterBootloader(fd)
       \/ /\ fd' = None
          /\ UNCHANGED <<deviceVars, moves, fixedVars, read, seen, name, b01, observed, acted,
                         late>>
    /\ step' = "failed"

----------------------------------------------------------------------------
(* _wait_for_bootloader(), _store_observed_bootloader() and _run_dfu()     *)

\* The handoff accepts a changed serial; what is found is put on record.
BootloaderSeen ==
    /\ step = "wait"
    /\ read = "check"
    /\ observed' = seen
    /\ step' = "erase"
    /\ read' = "ids"
    /\ UNCHANGED <<deviceVars, moves, fixedVars, seen, name, fd, b01, acted, late>>

\* _require_expected_usb_serial()
SerialExpected ==
    observed.serial # None /\ seen.serial # None => observed.serial = seen.serial

\* Fault variant of CheckBootloader: the serial is checked only once, before
\* the erase.
CheckBootloaderOnce ==
    /\ step \in Dfu
    /\ read = "check"
    /\ IF SerialExpected \/ step # "erase" THEN read' = "run" /\ UNCHANGED step
                                           ELSE step' = "failed" /\ UNCHANGED read
    /\ UNCHANGED <<deviceVars, moves, fixedVars, seen, name, doneVars, late>>

\* Every command looks its bootloader up again.
CheckBootloader ==
    /\ step \in Dfu
    /\ read = "check"
    /\ IF SerialExpected THEN read' = "run" /\ UNCHANGED step
                         ELSE step' = "failed" /\ UNCHANGED read
    /\ UNCHANGED <<deviceVars, moves, fixedVars, seen, name, doneVars, late>>

After == [erase |-> "flash", flash |-> "start", start |-> "done"]

\* dfu-programmer works on the bootloader that has the address, if one does.
DfuActs ==
    \E d \in Devices :
        /\ port[d] # None /\ address[d] = seen.address /\ mode[d] = "bootloader"
        /\ acted' = acted \cup {<<step, d>>}

RunDfu ==
    /\ step \in Dfu
    /\ read = "run"
    /\ DfuActs
    /\ step' = After[step]
    /\ read' = "ids"
    /\ UNCHANGED <<deviceVars, moves, fixedVars, seen, name, fd, b01, observed, late>>

\* It fails or is given up on, possibly after it did its work.
RunDfuFails ==
    /\ step \in Dfu
    /\ read = "run"
    /\ DfuActs \/ UNCHANGED acted
    /\ step' = "failed"
    /\ UNCHANGED <<deviceVars, moves, fixedVars, read, seen, name, fd, b01, observed, late>>

----------------------------------------------------------------------------
Injective(f) == \A d, e \in Devices : d # e => f[d] # f[e] \/ f[d] = None

Init ==
    /\ port \in {f \in [Devices -> Ports \cup {None}] : Injective(f) /\ f[Planned] # None}
    /\ mode \in {f \in [Devices -> {"application", "bootloader"}] : f[Planned] = "application"}
    /\ tty \in {f \in [Devices -> Ttys \cup {None}] :
                   /\ Injective(f)
                   /\ \A d \in Devices :
                          f[d] # None <=> port[d] # None /\ mode[d] = "application"}
    /\ addresses = Cardinality(Devices)
    /\ address \in {f \in [Devices -> 1..Cardinality(Devices)] : Injective(f)}
    /\ moves = 0
    /\ plan = [port |-> port[Planned], serial |-> AppSerial[Planned], address |-> address[Planned]]
    /\ raw \in BOOLEAN
    /\ configured = tty[Planned]
    /\ step = "alias"
    /\ read = "ids"
    /\ seen = None
    /\ name = None
    /\ fd = None
    /\ b01 = None
    /\ observed = None
    /\ acted = {}
    /\ late = FALSE

Terminated == step \in {"done", "failed"} /\ UNCHANGED vars

Next ==
    \/ \E d \in Devices : Unplug(d) \/ Plug(d)
    \/ ReadIds \/ ReadDevnum \/ ReadSerial \/ LookupFails
    \/ CheckAlias \/ FindTty \/ FindTtyFails \/ CheckDirect
    \/ OpenPort \/ SessionFails \/ Version \/ WriteB01 \/ WriteB01Fails
    \/ BootloaderSeen \/ CheckBootloader \/ RunDfu \/ RunDfuFails
    \/ Terminated

Spec == Init /\ [][Next]_vars

----------------------------------------------------------------------------
(* Properties                                                              *)

\* B01 reaches another radio than the planned one only if a device was
\* plugged in after the last check of the endpoint had begun: everything the
\* lookups before it may have mixed up is noticed by that check.
B01ToPlannedUnlessReplugged == b01 \in {None, Planned} \/ late

\* Each DFU command works on a radio whose own bootloader serial is the one
\* on record, however the reads of its port were mixed up: the address is
\* read before the serial, so a device that came later has another one.
DfuOnlyOnObserved ==
    \A job \in acted :
        observed.serial # None /\ BootSerial[job[2]] # None =>
            BootSerial[job[2]] = observed.serial
=============================================================================
