-------------------------- MODULE UsbBinding_proofs --------------------------
(***************************************************************************)
(* Proofs about UsbBinding for any number of radios, ports and tty nodes   *)
(* and any number of plug events.                                          *)
(*                                                                         *)
(* A device address belongs to one attachment for ever, so the address     *)
(* read from a port says whose serial the next read of that port gives -   *)
(* unless the device is gone, and then nothing answers to the address.     *)
(* A tty number can be given again, so the same argument about a node      *)
(* holds only until something is plugged in.                               *)
(***************************************************************************)
EXTENDS UsbBinding, FiniteSetTheorems, TLAPS

\* The host's side: two devices share no port, node or address, and only
\* an application that is plugged in has a node.
Wiring ==
    /\ port \in [Devices -> Ports \cup {None}]
    /\ mode \in [Devices -> {"application", "bootloader"}]
    /\ tty \in [Devices -> Ttys \cup {None}]
    /\ addresses \in Nat
    /\ address \in [Devices -> 0..addresses]
    /\ \A d, e \in Devices :
           d # e => /\ port[d] # port[e] \/ port[d] = None
                    /\ tty[d] # tty[e] \/ tty[d] = None
                    /\ address[d] # address[e]
    /\ \A d \in Devices : tty[d] # None => port[d] # None /\ mode[d] = "application"

\* The program's side.
Program ==
    /\ moves \in 0..MaxMoves
    /\ plan \in Target
    /\ plan.serial = AppSerial[Planned]
    /\ raw \in BOOLEAN
    /\ configured \in Ttys
    /\ step \in Steps
    /\ read \in {"ids", "devnum", "serial", "check", "run"}
    /\ seen \in Target \cup {None}
    /\ read # "ids" => seen \in Target
    /\ read = "run" => step \in Dfu \cup {"failed"}
    /\ read # "ids" => step \in {"alias", "direct", "wait", "failed"} \cup Dfu
    /\ name \in Ttys \cup {None}
    /\ step \in {"direct", "open", "version"} => name # None
    /\ fd \in Devices \cup {None}
    /\ b01 \in Devices \cup {None}
    /\ b01 # None => step \in {"wait", "done", "failed"} \cup Dfu
    /\ observed \in Target \cup {None}
    /\ step \in Dfu => observed \in Target
    /\ acted \subseteq Dfu \X Devices
    /\ late \in BOOLEAN

\* What the attributes read so far say of a bootloader that still answers to
\* the address.
Attributes ==
    read \in {"serial", "check", "run"} =>
        /\ seen.address <= addresses
        /\ \A d \in Devices :
               port[d] # None /\ address[d] = seen.address =>
                   /\ port[d] = seen.port
                   /\ (read # "serial" /\ mode[d] = "bootloader") =>
                          seen.serial = BootSerial[d]

\* The DFU commands so far, and the one about to run.
Commands ==
    /\ acted # {} => step \in Dfu \cup {"done", "failed"}
    /\ read = "run" => step = "failed" \/ SerialExpected
    /\ DfuOnlyOnObserved

\* The node the recheck looks at, as long as nothing has been plugged in.
Endpoint ==
    ~late =>
        /\ step = "direct" /\ read # "ids" =>
               \A d \in Named(name) :
                   /\ port[d] = seen.port
                   /\ read = "check" => seen.serial = AppSerial[d]
        /\ step = "open" => Named(name) \subseteq {Planned}
        /\ step \in {"version", "write"} => fd \in {None, Planned}
        /\ b01 \in {None, Planned}

IInv == Wiring /\ Program /\ Attributes /\ Commands

LEMMA InitHolds == Init => IInv /\ Endpoint
<1> SUFFICES ASSUME Init
             PROVE  IInv /\ Endpoint
  OBVIOUS
<1>1. Cardinality(Devices) \in Nat
  BY DevicesAssumption, FS_CardinalityType
<1>2. Wiring
  BY <1>1, NoneAssumption DEF Init, Wiring, Injective
<1>3. plan \in Target /\ plan.serial = AppSerial[Planned] /\ configured \in Ttys
  <2>1. port[Planned] \in Ports /\ tty[Planned] \in Ttys
    BY PlannedAssumption DEF Init
  <2>2. address[Planned] \in Nat
    BY <1>2, PlannedAssumption DEF Wiring
  <2>3. QED
    BY <2>1, <2>2, PlannedAssumption DEF Init, Target, Serials
<1>4. Program
  <2>1. moves \in 0..MaxMoves /\ acted \subseteq Dfu \X Devices
    BY MovesAssumption DEF Init
  <2>2. QED
    BY <1>3, <2>1 DEF Init, Program, Steps, Dfu
<1>5. Attributes /\ Commands /\ Endpoint
  BY DEF Init, Attributes, Commands, DfuOnlyOnObserved, Endpoint, Dfu
<1>6. QED
  BY <1>2, <1>4, <1>5 DEF IInv

LEMMA WiringStep == Wiring /\ Program /\ [Next]_vars => Wiring'
<1> SUFFICES ASSUME Wiring /\ Program, [Next]_vars
             PROVE  Wiring'
  OBVIOUS
<1> USE DEF Wiring
<1>1. ASSUME NEW d \in Devices, Unplug(d)
       PROVE  Wiring'
  BY <1>1 DEF Unplug, deviceVars, fixedVars, lookVars, doneVars
<1>2. ASSUME NEW d \in Devices, Plug(d)
       PROVE  Wiring'
  BY <1>2, NoneAssumption DEF Plug, LowestFree, Named, At, deviceVars, fixedVars,
     lookVars, doneVars
<1>3. CASE ReadIds
  BY <1>3 DEF ReadIds, Start, Looking, Named, At, Personality, deviceVars,
     fixedVars, lookVars, doneVars
<1>4. CASE ReadDevnum
  BY <1>4 DEF ReadDevnum, At, Looking, deviceVars, fixedVars, lookVars, doneVars
<1>5. CASE ReadSerial
  BY <1>5 DEF ReadSerial, At, SerialOf, Looking, deviceVars, fixedVars, lookVars,
     doneVars
<1>6. CASE LookupFails
  BY <1>6 DEF LookupFails, Retry, Looking, deviceVars, fixedVars, lookVars, doneVars
<1>7. CASE CheckAlias
  BY <1>7 DEF CheckAlias, Checked, Retry, deviceVars, fixedVars, lookVars, doneVars
<1>8. CASE FindTty
  BY <1>8 DEF FindTty, At, deviceVars, fixedVars, lookVars, doneVars
<1>9. CASE FindTtyFails
  BY <1>9 DEF FindTtyFails, Retry, deviceVars, fixedVars, lookVars, doneVars
<1>10. CASE CheckDirect
  BY <1>10 DEF CheckDirect, Checked, Retry, SameIdentity, deviceVars, fixedVars,
     lookVars, doneVars
<1>11. CASE OpenPort
  BY <1>11 DEF OpenPort, Named, deviceVars, fixedVars, lookVars, doneVars
<1>12. CASE SessionFails
  BY <1>12 DEF SessionFails, Retry, deviceVars, fixedVars, lookVars, doneVars
<1>13. CASE Version
  BY <1>13 DEF Version, deviceVars, fixedVars, lookVars, doneVars
<1>14. CASE WriteB01
  BY <1>14, NoneAssumption DEF Program, WriteB01, EnterBootloader, deviceVars,
     fixedVars, lookVars, doneVars
<1>15. CASE WriteB01Fails
  BY <1>15, NoneAssumption DEF Program, WriteB01Fails, EnterBootloader, deviceVars,
     fixedVars, lookVars, doneVars
<1>16. CASE BootloaderSeen
  BY <1>16 DEF BootloaderSeen, deviceVars, fixedVars, lookVars, doneVars
<1>17. CASE CheckBootloader
  BY <1>17 DEF CheckBootloader, SerialExpected, deviceVars, fixedVars, lookVars,
     doneVars
<1>18. CASE RunDfu
  BY <1>18 DEF RunDfu, DfuActs, After, deviceVars, fixedVars, lookVars, doneVars
<1>19. CASE RunDfuFails
  BY <1>19 DEF RunDfuFails, DfuActs, deviceVars, fixedVars, lookVars, doneVars
<1>20. CASE UNCHANGED vars
  BY <1>20 DEF vars, deviceVars, fixedVars, lookVars, doneVars
<1>21. QED
  BY <1>1, <1>2, <1>3, <1>4, <1>5, <1>6, <1>7, <1>8, <1>9, <1>10, <1>11, <1>12,
     <1>13, <1>14, <1>15, <1>16, <1>17, <1>18, <1>19, <1>20 DEF Next, Terminated

LEMMA ProgramStep == Wiring /\ Program /\ [Next]_vars => Program'
<1> SUFFICES ASSUME Wiring /\ Program, [Next]_vars
             PROVE  Program'
  OBVIOUS
<1> USE MovesAssumption, NoneAssumption DEF Program, Steps, Dfu
<1>1. ASSUME NEW d \in Devices, Unplug(d)
       PROVE  Program'
  BY <1>1 DEF Unplug, deviceVars, fixedVars, lookVars, doneVars
<1>2. ASSUME NEW d \in Devices, Plug(d)
       PROVE  Program'
  BY <1>2 DEF Plug, deviceVars, fixedVars, lookVars, doneVars
<1>3. CASE ReadIds
  <2>1. PICK d \in Start : seen' = [port |-> port[d], serial |-> None, address |-> 0]
    BY <1>3 DEF ReadIds
  <2>2. d \in Devices /\ port[d] \in Ports
    <3>1. CASE step \in {"alias", "direct"}
      BY <3>1, TtysAssumption DEF Start, Named, Wiring
    <3>2. CASE step \notin {"alias", "direct"}
      BY <3>2, <1>3 DEF ReadIds, Looking, Start, At, Wiring, Target
    <3>3. QED
      BY <3>1, <3>2
  <2>3. seen' \in Target
    BY <2>1, <2>2 DEF Target
  <2>4. QED
    BY <1>3, <2>3 DEF ReadIds, Looking, deviceVars, fixedVars, lookVars, doneVars
<1>4. CASE ReadDevnum
  <2>1. seen' \in Target
    BY <1>4 DEF ReadDevnum, At, Wiring, Target
  <2>2. QED
    BY <1>4, <2>1 DEF ReadDevnum, Looking, deviceVars, fixedVars, lookVars, doneVars
<1>5. CASE ReadSerial
  <2>1. \A d \in Devices : SerialOf(d) \in Serials
    BY DEF SerialOf, Serials
  <2>2. seen' \in Target
    BY <1>5, <2>1 DEF ReadSerial, At, Target
  <2>3. QED
    BY <1>5, <2>2 DEF ReadSerial, Looking, deviceVars, fixedVars, lookVars, doneVars
<1>6. CASE LookupFails
  BY <1>6 DEF LookupFails, Retry, Looking, deviceVars, fixedVars, lookVars, doneVars
<1>7. CASE CheckAlias
  BY <1>7 DEF CheckAlias, Checked, Retry, deviceVars, fixedVars, lookVars, doneVars
<1>8. CASE FindTty
  <2>1. name' \in Ttys /\ name' # None
    BY <1>8 DEF FindTty, At, Wiring
  <2>2. QED
    BY <1>8, <2>1 DEF FindTty, deviceVars, fixedVars, lookVars, doneVars
<1>9. CASE FindTtyFails
  BY <1>9 DEF FindTtyFails, Retry, deviceVars, fixedVars, lookVars, doneVars
<1>10. CASE CheckDirect
  BY <1>10 DEF CheckDirect, Checked, Retry, SameIdentity, deviceVars, fixedVars,
     lookVars, doneVars
<1>11. CASE OpenPort
  BY <1>11 DEF OpenPort, Named, deviceVars, fixedVars, lookVars, doneVars
<1>12. CASE SessionFails
  BY <1>12 DEF SessionFails, Retry, deviceVars, fixedVars, lookVars, doneVars
<1>13. CASE Version
  BY <1>13 DEF Version, deviceVars, fixedVars, lookVars, doneVars
<1>14. CASE WriteB01
  BY <1>14 DEF WriteB01, EnterBootloader, deviceVars, fixedVars, lookVars, doneVars
<1>15. CASE WriteB01Fails
  BY <1>15 DEF WriteB01Fails, EnterBootloader, deviceVars, fixedVars, lookVars, doneVars
<1>16. CASE BootloaderSeen
  BY <1>16 DEF BootloaderSeen, deviceVars, fixedVars, lookVars, doneVars
<1>17. CASE CheckBootloader
  BY <1>17 DEF CheckBootloader, SerialExpected, deviceVars, fixedVars, lookVars,
     doneVars
<1>18. CASE RunDfu
  BY <1>18 DEF RunDfu, DfuActs, After, deviceVars, fixedVars, lookVars, doneVars
<1>19. CASE RunDfuFails
  BY <1>19 DEF RunDfuFails, DfuActs, deviceVars, fixedVars, lookVars, doneVars
<1>20. CASE UNCHANGED vars
  BY <1>20 DEF vars, deviceVars, fixedVars, lookVars, doneVars
<1>21. QED
  BY <1>1, <1>2, <1>3, <1>4, <1>5, <1>6, <1>7, <1>8, <1>9, <1>10, <1>11, <1>12,
     <1>13, <1>14, <1>15, <1>16, <1>17, <1>18, <1>19, <1>20 DEF Next, Terminated

LEMMA AttributesStep == Wiring /\ Program /\ Attributes /\ [Next]_vars => Attributes'
<1> SUFFICES ASSUME Wiring /\ Program /\ Attributes, [Next]_vars
             PROVE  Attributes'
  OBVIOUS
<1> USE DEF Wiring, Program, Attributes, Target, Dfu
<1>1. ASSUME NEW d \in Devices, Unplug(d)
       PROVE  Attributes'
  BY <1>1 DEF Unplug, deviceVars, fixedVars, lookVars, doneVars
<1>2. ASSUME NEW d \in Devices, Plug(d)
       PROVE  Attributes'
  BY <1>2 DEF Plug, deviceVars, fixedVars, lookVars, doneVars
<1>3. CASE ReadIds
  BY <1>3 DEF ReadIds, Start, Looking, Named, At, Personality, deviceVars,
     fixedVars, lookVars, doneVars
<1>4. CASE ReadDevnum
  BY <1>4 DEF ReadDevnum, At, Looking, deviceVars, fixedVars, lookVars, doneVars
<1>5. CASE ReadSerial
  BY <1>5 DEF ReadSerial, At, SerialOf, Looking, deviceVars, fixedVars, lookVars,
     doneVars
<1>6. CASE LookupFails
  BY <1>6 DEF LookupFails, Retry, Looking, deviceVars, fixedVars, lookVars, doneVars
<1>7. CASE CheckAlias
  BY <1>7 DEF CheckAlias, Checked, Retry, deviceVars, fixedVars, lookVars, doneVars
<1>8. CASE FindTty
  BY <1>8 DEF FindTty, At, deviceVars, fixedVars, lookVars, doneVars
<1>9. CASE FindTtyFails
  BY <1>9 DEF FindTtyFails, Retry, deviceVars, fixedVars, lookVars, doneVars
<1>10. CASE CheckDirect
  BY <1>10 DEF CheckDirect, Checked, Retry, SameIdentity, deviceVars, fixedVars,
     lookVars, doneVars
<1>11. CASE OpenPort
  BY <1>11 DEF OpenPort, Named, deviceVars, fixedVars, lookVars, doneVars
<1>12. CASE SessionFails
  BY <1>12 DEF SessionFails, Retry, deviceVars, fixedVars, lookVars, doneVars
<1>13. CASE Version
  BY <1>13 DEF Version, deviceVars, fixedVars, lookVars, doneVars
<1>14. CASE WriteB01
  BY <1>14 DEF WriteB01, EnterBootloader, deviceVars, fixedVars, lookVars, doneVars
<1>15. CASE WriteB01Fails
  BY <1>15 DEF WriteB01Fails, EnterBootloader, deviceVars, fixedVars, lookVars, doneVars
<1>16. CASE BootloaderSeen
  BY <1>16 DEF BootloaderSeen, deviceVars, fixedVars, lookVars, doneVars
<1>17. CASE CheckBootloader
  BY <1>17 DEF CheckBootloader, SerialExpected, deviceVars, fixedVars, lookVars,
     doneVars
<1>18. CASE RunDfu
  BY <1>18 DEF RunDfu, DfuActs, After, deviceVars, fixedVars, lookVars, doneVars
<1>19. CASE RunDfuFails
  BY <1>19 DEF RunDfuFails, DfuActs, deviceVars, fixedVars, lookVars, doneVars
<1>20. CASE UNCHANGED vars
  BY <1>20 DEF vars, deviceVars, fixedVars, lookVars, doneVars
<1>21. QED
  BY <1>1, <1>2, <1>3, <1>4, <1>5, <1>6, <1>7, <1>8, <1>9, <1>10, <1>11, <1>12,
     <1>13, <1>14, <1>15, <1>16, <1>17, <1>18, <1>19, <1>20 DEF Next, Terminated

LEMMA CommandsStep == Wiring /\ Program /\ Attributes /\ Commands /\ [Next]_vars => Commands'
<1> SUFFICES ASSUME Wiring /\ Program /\ Attributes /\ Commands, [Next]_vars
             PROVE  Commands'
  OBVIOUS
<1> USE DEF Program, Commands, DfuOnlyOnObserved, Target, Dfu, SerialExpected
<1>1. ASSUME NEW d \in Devices, Unplug(d)
       PROVE  Commands'
  BY <1>1 DEF Unplug, deviceVars, fixedVars, lookVars, doneVars
<1>2. ASSUME NEW d \in Devices, Plug(d)
       PROVE  Commands'
  BY <1>2 DEF Plug, deviceVars, fixedVars, lookVars, doneVars
<1>3. CASE ReadIds
  BY <1>3 DEF ReadIds, Start, Looking, Named, At, Personality, deviceVars,
     fixedVars, lookVars, doneVars
<1>4. CASE ReadDevnum
  BY <1>4 DEF ReadDevnum, At, Looking, deviceVars, fixedVars, lookVars, doneVars
<1>5. CASE ReadSerial
  BY <1>5 DEF ReadSerial, At, SerialOf, Looking, deviceVars, fixedVars, lookVars,
     doneVars
<1>6. CASE LookupFails
  BY <1>6 DEF LookupFails, Retry, Looking, deviceVars, fixedVars, lookVars, doneVars
<1>7. CASE CheckAlias
  BY <1>7 DEF CheckAlias, Checked, Retry, deviceVars, fixedVars, lookVars, doneVars
<1>8. CASE FindTty
  BY <1>8 DEF FindTty, At, deviceVars, fixedVars, lookVars, doneVars
<1>9. CASE FindTtyFails
  BY <1>9 DEF FindTtyFails, Retry, deviceVars, fixedVars, lookVars, doneVars
<1>10. CASE CheckDirect
  BY <1>10 DEF CheckDirect, Checked, Retry, SameIdentity, deviceVars, fixedVars,
     lookVars, doneVars
<1>11. CASE OpenPort
  BY <1>11 DEF OpenPort, Named, deviceVars, fixedVars, lookVars, doneVars
<1>12. CASE SessionFails
  BY <1>12 DEF SessionFails, Retry, deviceVars, fixedVars, lookVars, doneVars
<1>13. CASE Version
  BY <1>13 DEF Version, deviceVars, fixedVars, lookVars, doneVars
<1>14. CASE WriteB01
  BY <1>14 DEF WriteB01, EnterBootloader, deviceVars, fixedVars, lookVars, doneVars
<1>15. CASE WriteB01Fails
  BY <1>15 DEF WriteB01Fails, EnterBootloader, deviceVars, fixedVars, lookVars, doneVars
<1>16. CASE BootloaderSeen
  BY <1>16 DEF BootloaderSeen, deviceVars, fixedVars, lookVars, doneVars
<1>17. CASE CheckBootloader
  BY <1>17 DEF CheckBootloader, SerialExpected, deviceVars, fixedVars, lookVars,
     doneVars
<1>d. ASSUME step \in Dfu, read = "run", DfuActs, UNCHANGED <<seen, observed>>
       PROVE  DfuOnlyOnObserved'
  <2>1. PICK d \in Devices :
            /\ port[d] # None /\ address[d] = seen.address /\ mode[d] = "bootloader"
            /\ acted' = acted \cup {<<step, d>>}
    BY <1>d DEF DfuActs
  <2>2. seen.serial = BootSerial[d]
    BY <1>d, <2>1 DEF Attributes
  <2>3. SerialExpected
    BY <1>d
  <2>4. observed.serial # None /\ BootSerial[d] # None => BootSerial[d] = observed.serial
    BY <2>2, <2>3
  <2>5. QED
    BY <1>d, <2>1, <2>4
<1>18. CASE RunDfu
  <2>1. /\ UNCHANGED <<seen, observed>> /\ read' = "ids"
        /\ step' \in Dfu \cup {"done", "failed"}
    BY <1>18 DEF RunDfu, After
  <2>2. DfuOnlyOnObserved'
    BY <1>18, <1>d, <2>1 DEF RunDfu
  <2>3. QED
    BY <2>1, <2>2
<1>19. CASE RunDfuFails
  <2>1. UNCHANGED <<seen, observed>> /\ step' = "failed"
    BY <1>19 DEF RunDfuFails
  <2>2. CASE DfuActs
    <3>1. DfuOnlyOnObserved'
      BY <1>19, <1>d, <2>1, <2>2 DEF RunDfuFails
    <3>2. QED
      BY <2>1, <3>1
  <2>3. CASE UNCHANGED acted
    BY <2>1, <2>3
  <2>4. QED
    BY <1>19, <2>2, <2>3 DEF RunDfuFails
<1>20. CASE UNCHANGED vars
  BY <1>20 DEF vars, deviceVars, fixedVars, lookVars, doneVars
<1>21. QED
  BY <1>1, <1>2, <1>3, <1>4, <1>5, <1>6, <1>7, <1>8, <1>9, <1>10, <1>11, <1>12,
     <1>13, <1>14, <1>15, <1>16, <1>17, <1>18, <1>19, <1>20 DEF Next, Terminated

\* What tells the planned radio from the others.
SerialsDistinct == \A d, e \in Devices : d # e => AppSerial[d] # AppSerial[e]

LEMMA EndpointStep == SerialsDistinct /\ Wiring /\ Program /\ Endpoint /\ [Next]_vars => Endpoint'
<1> SUFFICES ASSUME SerialsDistinct /\ Wiring /\ Program /\ Endpoint, [Next]_vars
             PROVE  Endpoint'
  OBVIOUS
<1> USE DEF Wiring, Program, Endpoint, Target, Dfu, Named
<1>1. ASSUME NEW d \in Devices, Unplug(d)
       PROVE  Endpoint'
  BY <1>1 DEF Unplug, deviceVars, fixedVars, lookVars, doneVars
<1>2. ASSUME NEW d \in Devices, Plug(d)
       PROVE  Endpoint'
  BY <1>2 DEF Plug, deviceVars, fixedVars, lookVars, doneVars
<1>3. CASE ReadIds
  BY <1>3 DEF ReadIds, Start, Looking, Named, At, Personality, deviceVars,
     fixedVars, lookVars, doneVars
<1>4. CASE ReadDevnum
  BY <1>4 DEF ReadDevnum, At, Looking, deviceVars, fixedVars, lookVars, doneVars
<1>5. CASE ReadSerial
  BY <1>5 DEF ReadSerial, At, SerialOf, Looking, deviceVars, fixedVars, lookVars,
     doneVars
<1>6. CASE LookupFails
  BY <1>6 DEF LookupFails, Retry, Looking, deviceVars, fixedVars, lookVars, doneVars
<1>7. CASE CheckAlias
  BY <1>7 DEF CheckAlias, Checked, Retry, deviceVars, fixedVars, lookVars, doneVars
<1>8. CASE FindTty
  BY <1>8 DEF FindTty, At, deviceVars, fixedVars, lookVars, doneVars
<1>9. CASE FindTtyFails
  BY <1>9 DEF FindTtyFails, Retry, deviceVars, fixedVars, lookVars, doneVars
<1>10. CASE CheckDirect
  <2>1. CASE ~SameIdentity(plan, seen)
    BY <1>10, <2>1 DEF CheckDirect, Checked, Retry, deviceVars, fixedVars,
       lookVars, doneVars
  <2>2. CASE SameIdentity(plan, seen)
    <3>1. \A d \in Devices : ~late /\ tty[d] = name => AppSerial[d] = AppSerial[Planned]
      BY <1>10, <2>2 DEF CheckDirect, Checked, SameIdentity
    <3>2. \A d \in Devices : ~late /\ tty[d] = name => d = Planned
      BY <3>1, PlannedAssumption DEF SerialsDistinct
    <3>3. QED
      BY <1>10, <2>2, <3>2 DEF CheckDirect, Checked, deviceVars, fixedVars,
         lookVars, doneVars
  <2>3. QED
    BY <2>1, <2>2
<1>11. CASE OpenPort
  BY <1>11 DEF OpenPort, Named, deviceVars, fixedVars, lookVars, doneVars
<1>12. CASE SessionFails
  BY <1>12 DEF SessionFails, Retry, deviceVars, fixedVars, lookVars, doneVars
<1>13. CASE Version
  BY <1>13 DEF Version, deviceVars, fixedVars, lookVars, doneVars
<1>14. CASE WriteB01
  BY <1>14 DEF WriteB01, EnterBootloader, deviceVars, fixedVars, lookVars, doneVars
<1>15. CASE WriteB01Fails
  BY <1>15 DEF WriteB01Fails, EnterBootloader, deviceVars, fixedVars, lookVars, doneVars
<1>16. CASE BootloaderSeen
  BY <1>16 DEF BootloaderSeen, deviceVars, fixedVars, lookVars, doneVars
<1>17. CASE CheckBootloader
  BY <1>17 DEF CheckBootloader, SerialExpected, deviceVars, fixedVars, lookVars,
     doneVars
<1>18. CASE RunDfu
  BY <1>18 DEF RunDfu, DfuActs, After, deviceVars, fixedVars, lookVars, doneVars
<1>19. CASE RunDfuFails
  BY <1>19 DEF RunDfuFails, DfuActs, deviceVars, fixedVars, lookVars, doneVars
<1>20. CASE UNCHANGED vars
  BY <1>20 DEF vars, deviceVars, fixedVars, lookVars, doneVars
<1>21. QED
  BY <1>1, <1>2, <1>3, <1>4, <1>5, <1>6, <1>7, <1>8, <1>9, <1>10, <1>11, <1>12,
     <1>13, <1>14, <1>15, <1>16, <1>17, <1>18, <1>19, <1>20 DEF Next, Terminated

----------------------------------------------------------------------------
(* The theorems                                                            *)

\* The inductive invariant: the host's wiring, the program's locals, what the
\* attributes read so far say, and the commands that were run.
THEOREM InductiveInvariant == Spec => []IInv
<1>1. Init => IInv
  BY InitHolds
<1>2. IInv /\ [Next]_vars => IInv'
  BY WiringStep, ProgramStep, AttributesStep, CommandsStep DEF IInv
<1>3. QED
  BY <1>1, <1>2, PTL DEF Spec

\* Type correctness of the host's tables and of everything the program reads,
\* whichever devices come and go between two reads.
THEOREM TypeCorrect == Spec => []TypeOK
<1>1. IInv => TypeOK
  BY DEF IInv, Wiring, Program, TypeOK
<1>2. QED
  BY <1>1, InductiveInvariant, PTL

\* Erasing, flashing and starting work on a radio whose own bootloader serial
\* is the observed one, for any interleaving of reads and plug events.
THEOREM OnlyObservedIsErased == Spec => []DfuOnlyOnObserved
<1>1. IInv => DfuOnlyOnObserved
  BY DEF IInv, Commands
<1>2. QED
  BY <1>1, InductiveInvariant, PTL

\* Where application serials are distinct, B01 reaches only the planned radio
\* unless something was plugged in after the last check had begun.
THEOREM PlannedGetsB01 ==
    ASSUME SerialsDistinct
    PROVE  Spec => []B01ToPlannedUnlessReplugged
<1>1. Init => IInv /\ Endpoint
  BY InitHolds
<1>2. IInv /\ [Next]_vars => IInv'
  BY WiringStep, ProgramStep, AttributesStep, CommandsStep DEF IInv
<1>3. IInv /\ Endpoint /\ [Next]_vars => Endpoint'
  BY EndpointStep DEF IInv
<1>4. Endpoint => B01ToPlannedUnlessReplugged
  BY DEF Endpoint, B01ToPlannedUnlessReplugged
<1>5. QED
  BY <1>1, <1>2, <1>3, <1>4, PTL DEF Spec
=============================================================================
