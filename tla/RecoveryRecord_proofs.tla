------------------------ MODULE RecoveryRecord_proofs ------------------------
(***************************************************************************)
(* Proofs about the recovery record: the file that holds it (DeviceState)  *)
(* and the deadline of a handoff in it (HandoffWindow).                    *)
(*                                                                         *)
(* What save() writes is what load() returns, a handoff is on record as    *)
(* long as it lasts, and the file is a register of records whatever        *)
(* crashes, for any number of crashes; the window is as long as it should  *)
(* be for every set of timeouts and without a bound on the time.           *)
(***************************************************************************)
EXTENDS DeviceState, HandoffWindow, TLAPS

----------------------------------------------------------------------------
(* Lemmas about load() and save()                                          *)

\* What save() writes is a document that load() gives back as it was written.
LEMMA SavedIsLoaded ==
    ASSUME NEW device \in Record, Savable(device)
    PROVE  /\ Encode(device) \in Document
           /\ Load(Encode(device)) = Encode(device)
           /\ Encode(device).version = device.version
           /\ Encode(device).binding = device.binding
<1>1. Encode(device) = [version |-> device.version, binding |-> device.binding,
                        deadline |-> IF device.binding = "handoff-pending" THEN device.deadline
                                                                          ELSE None]
  BY DEF Encode, Record
<1>2. Encode(device) \in Document
  BY <1>1 DEF Document, Record
<1>3. LoadedBinding(Encode(device)) = device.binding /\ device.binding # "unknown"
  BY <1>1 DEF LoadedBinding, Record, Bindings
<1>4. QED
  BY <1>1, <1>2, <1>3 DEF Load, Savable

\* Whatever the file holds, load() returns no record or one that save() takes
\* and that comes back unchanged: reading an old file again adds nothing.
LEMMA LoadIsStable ==
    ASSUME NEW contents \in Contents
    PROVE  \/ Load(contents) = NoRecord
           \/ /\ Load(contents) \in Record
              /\ Savable(Load(contents))
              /\ Encode(Load(contents)) = Load(contents)
<1> DEFINE r == Load(contents)
<1>1. CASE contents \notin Document
  BY <1>1 DEF Load
<1>2. CASE contents \in Document /\ r # NoRecord
  <2>1. /\ LoadedBinding(contents) # "unknown"
        /\ LoadedBinding(contents) = "handoff-pending" => contents.deadline # None
        /\ r = [version |-> contents.version, binding |-> LoadedBinding(contents),
                deadline |-> IF LoadedBinding(contents) = "handoff-pending" THEN contents.deadline
                                                                            ELSE None]
    BY <1>2 DEF Load
  <2>2. LoadedBinding(contents) \in Bindings
    BY <1>2, <2>1 DEF LoadedBinding, Document, Bindings
  <2>3. r \in Record /\ Savable(r)
    BY <1>2, <2>1, <2>2 DEF Record, Savable, Document, None
  <2>4. Encode(r) = r
    BY <2>1 DEF Encode
  <2>5. QED
    BY <2>3, <2>4
<1>3. QED
  BY <1>1, <1>2

LEMMA TornIsNoRecord == Torn \notin Document /\ Absent \notin Document /\ NoRecord \notin Record
  BY DEF Torn, Absent, NoRecord, None, Document, Record, Bindings

----------------------------------------------------------------------------
(* The inductive invariant                                                 *)

\* A save that is under way: its record, and what its file holds by now.
SavingInv ==
    /\ pc # "idle" =>
           /\ record \in Record /\ Savable(record)
           /\ record.binding = "handoff-pending" => record.version = None
           /\ radio = "uncertain" => record.version = None
    /\ pc \in {"sync", "replace"} => temp = Encode(record)
    /\ pc = "replace" => synced

\* A save that returned is on record until the next one begins.
SavedInv ==
    last # NoRecord =>
        /\ last \in Record /\ Savable(last)
        /\ last.binding = "handoff-pending" => last.version = None
        /\ path = Encode(last)

IInv == TypeOK /\ SavingInv /\ SavedInv /\ UncertainIsOnRecord

LEMMA InitHolds == Init => IInv
<1> SUFFICES ASSUME Init
             PROVE  IInv
  OBVIOUS
<1>1. crashes \in 0..MaxCrashes
  BY MaxCrashesAssumption DEF Init
<1>2. TypeOK
  BY <1>1, Zenon DEF Init, TypeOK, Contents, Pcs
<1>3. QED
  BY <1>2 DEF Init, IInv, SavingInv, SavedInv, UncertainIsOnRecord

LEMMA TypeStep == TypeOK /\ SavingInv /\ [Next]_vars => TypeOK'
<1> SUFFICES ASSUME TypeOK, SavingInv, [Next]_vars
             PROVE  TypeOK'
  OBVIOUS
<1>1. crashes' \in 0..MaxCrashes
  BY MaxCrashesAssumption
  DEF TypeOK, Next, BeginSave, WriteTemp, SyncTemp, Replace, SaveFails, RequestBootloader,
      Verified, Commit, Kill, PowerFails, Restart, vars, crashVars
<1>2. synced' \in BOOLEAN /\ power' \in BOOLEAN
  BY DEF TypeOK, Next, BeginSave, WriteTemp, SyncTemp, Replace, SaveFails, RequestBootloader,
         Verified, Commit, Kill, PowerFails, Restart, vars, crashVars, fileVars
<1>3. pc' \in Pcs /\ radio' \in {"application", "uncertain"}
  BY DEF TypeOK, Next, BeginSave, WriteTemp, SyncTemp, Replace, SaveFails, RequestBootloader,
         Verified, Commit, Kill, PowerFails, Restart, vars, fileVars, Pcs
<1>4. temp' \in Contents
  <2>1. CASE WriteTemp
    BY <2>1, SavedIsLoaded DEF WriteTemp, SavingInv, Contents
  <2>2. CASE temp' = temp \/ temp' = Absent \/ temp' = Torn
    BY <2>2 DEF TypeOK, Contents
  <2>3. QED
    BY <2>1, <2>2 DEF Next, BeginSave, SyncTemp, Replace, SaveFails, RequestBootloader, Verified,
           Commit, Kill, PowerFails, Restart, vars, fileVars
<1>5. path' \in Contents /\ durable' \subseteq Contents /\ path' \in durable'
  <2>1. CASE Replace
    BY <2>1 DEF Replace, TypeOK, Contents
  <2>2. CASE Commit
    BY <2>2 DEF Commit, TypeOK
  <2>3. CASE PowerFails
    BY <2>3 DEF PowerFails, TypeOK
  <2>4. CASE UNCHANGED <<path, durable>>
    BY <2>4 DEF TypeOK
  <2>5. QED
    BY <2>1, <2>2, <2>3, <2>4 DEF Next, BeginSave, WriteTemp, SyncTemp, SaveFails,
           RequestBootloader, Verified, Kill, vars, fileVars
<1>6. record' \in Record \cup {NoRecord} /\ last' \in Record \cup {NoRecord}
      /\ (last' # NoRecord => Savable(last'))
  <2>1. ASSUME NEW device \in Record, BeginSave(device)
        PROVE  record' \in Record /\ last' = NoRecord
    BY <2>1 DEF BeginSave
  <2>2. CASE Replace
    BY <2>2 DEF Replace, SavingInv
  <2>3. CASE record' \in {record, NoRecord} /\ last' \in {last, NoRecord}
    BY <2>3 DEF TypeOK
  <2>4. QED
    BY <2>1, <2>2, <2>3 DEF TypeOK, Next, WriteTemp, SyncTemp, SaveFails, RequestBootloader,
           Verified, Commit, Kill, PowerFails, Restart, vars
<1>7. QED
  BY <1>1, <1>2, <1>3, <1>4, <1>5, <1>6, Zenon DEF TypeOK

LEMMA SavingStep == TypeOK /\ SavingInv /\ [Next]_vars => SavingInv'
<1> SUFFICES ASSUME TypeOK, SavingInv, [Next]_vars
             PROVE  SavingInv'
  OBVIOUS
<1> USE DEF SavingInv
<1>1. ASSUME NEW device \in Record, BeginSave(device)
      PROVE  SavingInv'
  <2>1. /\ pc' = "write" /\ radio' = radio /\ record' = device /\ Savable(device)
        /\ device.binding = "handoff-pending" => device.version = None
        /\ radio = "uncertain" => device.version = None
    BY <1>1 DEF BeginSave, Called, TypeOK
  <2>2. QED
    BY <2>1 DEF Savable
<1>2. CASE WriteTemp
  BY <1>2 DEF WriteTemp, Savable, Encode
<1>3. CASE SyncTemp
  BY <1>3 DEF SyncTemp, Savable, Encode
<1>4. CASE Replace \/ SaveFails \/ RequestBootloader \/ Verified \/ Kill \/ PowerFails
  BY <1>4 DEF Replace, SaveFails, RequestBootloader, Verified, Kill, PowerFails, Restart
<1>5. CASE Commit \/ UNCHANGED vars
  BY <1>5 DEF Commit, vars, fileVars, Savable, Encode
<1>6. QED
  BY <1>1, <1>2, <1>3, <1>4, <1>5 DEF Next

LEMMA SavedStep == TypeOK /\ SavingInv /\ SavedInv /\ [Next]_vars => SavedInv'
<1> SUFFICES ASSUME TypeOK, SavingInv, SavedInv, [Next]_vars
             PROVE  SavedInv'
  OBVIOUS
<1> USE DEF SavedInv, Savable, Encode
<1>1. CASE Replace
  BY <1>1 DEF Replace, SavingInv
<1>2. CASE \/ Kill \/ PowerFails \/ \E device \in Record : BeginSave(device)
  BY <1>2 DEF Kill, PowerFails, Restart, BeginSave
<1>3. CASE UNCHANGED <<last, path>>
  BY <1>3
<1>4. QED
  BY <1>1, <1>2, <1>3 DEF Next, WriteTemp, SyncTemp, SaveFails, RequestBootloader, Verified, Commit,
         vars, fileVars

LEMMA UncertainStep == IInv /\ [Next]_vars => UncertainIsOnRecord'
<1> SUFFICES ASSUME IInv, [Next]_vars, radio' = "uncertain", ~power'
             PROVE  Load(path') # NoRecord /\ Load(path').version = None
  BY DEF UncertainIsOnRecord, Load, LoadedBinding
<1>1. ~power
  BY DEF Next, BeginSave, WriteTemp, SyncTemp, Replace, SaveFails, RequestBootloader,
         Verified, Commit, Kill, PowerFails, Restart, vars, crashVars
<1>2. CASE Replace
  <2>1. /\ record \in Record /\ Savable(record) /\ record.version = None
        /\ path' = Encode(record)
    BY <1>2 DEF Replace, IInv, SavingInv
  <2>2. QED
    BY <2>1, SavedIsLoaded DEF Record, NoRecord, Bindings, None
<1>3. CASE RequestBootloader
  <2>1. /\ last \in Record /\ Savable(last) /\ last.version = None
        /\ path' = Encode(last)
    BY <1>3 DEF RequestBootloader, IInv, SavedInv, fileVars
  <2>2. QED
    BY <2>1, SavedIsLoaded DEF Record, NoRecord, Bindings, None
<1>4. CASE UNCHANGED <<path, radio>>
  BY <1>1, <1>4 DEF IInv, UncertainIsOnRecord
<1>5. CASE Verified
  BY <1>5 DEF Verified
<1>6. ~PowerFails
  BY <1>1 DEF PowerFails
<1>7. QED
  BY <1>2, <1>3, <1>4, <1>5, <1>6 DEF Next, BeginSave, WriteTemp, SyncTemp, SaveFails, Commit,
         Kill, Restart, vars, fileVars

----------------------------------------------------------------------------
(* The theorems                                                            *)

\* The inductive invariant.
THEOREM InductiveInvariant == Spec => []IInv
<1>1. IInv /\ [Next]_vars => IInv'
  BY TypeStep, SavingStep, SavedStep, UncertainStep DEF IInv
<1>2. QED
  BY InitHolds, <1>1, PTL DEF Spec

\* Type correctness.
THEOREM TypeCorrect == Spec => []TypeOK
<1>1. IInv => TypeOK
  BY DEF IInv
<1>2. QED
  BY InductiveInvariant, <1>1, PTL

\* Between B01 and V a process that starts anew finds the handoff on record.
THEOREM HandoffOnRecord == Spec => []UncertainIsOnRecord
<1>1. IInv => UncertainIsOnRecord
  BY DEF IInv
<1>2. QED
  BY InductiveInvariant, <1>1, PTL

\* The file is an atomic register of the records that were saved.
THEOREM FileIsRegister == Spec => ImplementsRecordStore
<1> DEFINE Records == {Encode(device) : device \in {r \in Record : Savable(r)}}
           stored == Load(path)
           possible == {Load(contents) : contents \in durable}
<1>1. Init => Store!Init
  BY DEF Init, Store!Init
<1>2. IInv /\ [Next]_vars => [Store!Next]_<<stored, possible>>
  <2> SUFFICES ASSUME IInv, [Next]_vars
               PROVE  Store!Next \/ UNCHANGED <<stored, possible>>
    OBVIOUS
  <2>1. CASE Replace
    <3>1. /\ record \in Record /\ Savable(record) /\ path' = Encode(record)
          /\ durable' = durable \cup {Encode(record)}
      BY <2>1 DEF Replace, IInv, SavingInv
    <3>2. Load(path') = Encode(record) /\ Encode(record) \in Records
      BY <3>1, SavedIsLoaded
    <3>3. {Load(contents) : contents \in durable'} = possible \cup {Encode(record)}
      BY <3>1, <3>2
    <3>4. Store!Save(Encode(record))
      BY <3>2, <3>3 DEF Store!Save
    <3>5. QED
      BY <3>2, <3>4 DEF Store!Next
  <2>2. CASE Commit
    BY <2>2 DEF Commit, Store!Next, Store!Settle
  <2>3. CASE PowerFails
    BY <2>3 DEF PowerFails, Store!Next, Store!PowerFails
  <2>4. CASE UNCHANGED <<path, durable>>
    BY <2>4
  <2>5. QED
    BY <2>1, <2>2, <2>3, <2>4 DEF Next, BeginSave, WriteTemp, SyncTemp, SaveFails,
           RequestBootloader, Verified, Kill, vars, fileVars
<1>3. QED
  BY <1>1, <1>2, InductiveInvariant, PTL DEF Spec, ImplementsRecordStore, Store!Spec

----------------------------------------------------------------------------
(* The handoff window                                                      *)

\* int() of a clock in half seconds drops at most one half second.
LEMMA SecondsBounds ==
    ASSUME NEW t \in Nat
    PROVE  /\ Seconds(t) \in Nat
           /\ 2 * Seconds(t) <= t
           /\ t <= 2 * Seconds(t) + 1
  BY DEF Seconds

\* The wall clock never falls behind the time that passed since the record was
\* saved, and keeps step with it while nobody touches it.
ClockSinceSave ==
    deadline # NoDeadline =>
        /\ clock >= 2 * (deadline - allowed) + (passed - saved)
        /\ steady => timeout = allowed /\ clock <= 2 * (deadline - allowed) + (passed - saved) + 1

\* A changed serial is accepted only within a window that is open.
AcceptedInTime == accepted => deadline # NoDeadline /\ Seconds(clock) <= deadline

WindowInv == WindowTypeOK /\ ClockSinceSave /\ AcceptedInTime

LEMMA WindowInitHolds == WindowInit => WindowInv
<1> SUFFICES ASSUME WindowInit
             PROVE  WindowInv
  OBVIOUS
<1>1. steady \in BOOLEAN /\ accepted \in BOOLEAN /\ AcceptedInTime
  BY DEF WindowInit, AcceptedInTime
<1>2. passed \in 0..MaxTime /\ clock \in Nat /\ saved \in 0..passed
  BY MaxTimeAssumption DEF WindowInit
<1>3. timeout \in Timeouts /\ allowed \in Timeouts /\ deadline = NoDeadline
  BY DEF WindowInit
<1>4. QED
  BY <1>1, <1>2, <1>3 DEF WindowInv, WindowTypeOK, ClockSinceSave

LEMMA WindowTypeStep == WindowTypeOK /\ [WindowNext]_windowVars => WindowTypeOK'
<1> SUFFICES ASSUME WindowTypeOK, [WindowNext]_windowVars
             PROVE  WindowTypeOK'
  OBVIOUS
<1>1. steady' \in BOOLEAN /\ accepted' \in BOOLEAN
  BY DEF WindowTypeOK, windowVars, WindowNext, Tick, SetClock, SetTimeout, StoreHandoffPending, Check,
         ChangeIsCurrent
<1>2. timeout' \in Timeouts /\ allowed' \in Timeouts
  BY DEF WindowTypeOK, windowVars, WindowNext, Tick, SetClock, SetTimeout, StoreHandoffPending, Check
<1>3. passed' \in 0..MaxTime /\ saved' \in 0..passed' /\ clock' \in Nat
  <2> USE MaxTimeAssumption DEF WindowTypeOK
  <2>1. CASE Tick
    BY <2>1 DEF Tick
  <2>2. ASSUME NEW t \in 0..MaxTime, SetClock(t)
        PROVE  passed' \in 0..MaxTime /\ saved' \in 0..passed' /\ clock' \in Nat
    BY <2>2 DEF SetClock
  <2>3. CASE StoreHandoffPending
    BY <2>3 DEF StoreHandoffPending
  <2>4. CASE UNCHANGED <<passed, saved, clock>>
    BY <2>4
  <2>5. QED
    BY <2>1, <2>2, <2>3, <2>4 DEF WindowNext, SetTimeout, Check, windowVars
<1>4. deadline' \in Nat \cup {NoDeadline} /\ (deadline' # NoDeadline => deadline' >= allowed')
  <2>1. CASE StoreHandoffPending
    <3>1. timeout \in Nat /\ Seconds(clock) \in Nat
      BY TimeoutsAssumption, SecondsBounds DEF WindowTypeOK
    <3>2. deadline' = Seconds(clock) + timeout /\ allowed' = timeout
      BY <2>1 DEF StoreHandoffPending
    <3>3. QED
      BY <3>1, <3>2
  <2>2. CASE UNCHANGED <<deadline, allowed>>
    BY <2>2 DEF WindowTypeOK
  <2>3. QED
    BY <2>1, <2>2 DEF WindowNext, Tick, SetClock, SetTimeout, Check, windowVars
<1>5. QED
  BY <1>1, <1>2, <1>3, <1>4 DEF WindowTypeOK

LEMMA ClockStep == WindowTypeOK /\ ClockSinceSave /\ [WindowNext]_windowVars => ClockSinceSave'
<1> SUFFICES ASSUME WindowTypeOK, ClockSinceSave, [WindowNext]_windowVars
             PROVE  ClockSinceSave'
  OBVIOUS
<1> USE TimeoutsAssumption, MaxTimeAssumption, NoDeadlineAssumption DEF WindowTypeOK, ClockSinceSave
<1>1. CASE Tick
  BY <1>1 DEF Tick
<1>2. ASSUME NEW t \in 0..MaxTime, SetClock(t)
      PROVE  ClockSinceSave'
  BY <1>2 DEF SetClock
<1>3. ASSUME NEW t \in Timeouts, SetTimeout(t)
      PROVE  ClockSinceSave'
  BY <1>3 DEF SetTimeout
<1>4. CASE StoreHandoffPending
  <2>1. clock \in Nat /\ Seconds(clock) \in Nat
    BY SecondsBounds
  <2>2. deadline' - allowed' = Seconds(clock) /\ passed' - saved' = 0
    BY <1>4, <2>1 DEF StoreHandoffPending
  <2>3. clock' >= 2 * Seconds(clock) /\ clock' <= 2 * Seconds(clock) + 1
    BY <1>4, SecondsBounds DEF StoreHandoffPending
  <2>4. timeout' = allowed'
    BY <1>4 DEF StoreHandoffPending
  <2>5. QED
    BY <2>1, <2>2, <2>3, <2>4
<1>5. CASE Check
  BY <1>5 DEF Check
<1>6. CASE UNCHANGED windowVars
  BY <1>6 DEF windowVars
<1>7. QED
  BY <1>1, <1>2, <1>3, <1>4, <1>5, <1>6 DEF WindowNext

LEMMA AcceptedStep == WindowTypeOK /\ AcceptedInTime /\ [WindowNext]_windowVars => AcceptedInTime'
<1> SUFFICES ASSUME WindowTypeOK, AcceptedInTime, [WindowNext]_windowVars
             PROVE  AcceptedInTime'
  OBVIOUS
<1>1. CASE Check
  <2>1. ChangeIsCurrent => deadline # NoDeadline /\ Seconds(clock) <= deadline
    BY TimeoutsAssumption, SecondsBounds DEF ChangeIsCurrent, WindowTypeOK
  <2>2. QED
    BY <1>1, <2>1 DEF Check, AcceptedInTime, Seconds
<1>2. CASE UNCHANGED windowVars
  BY <1>2 DEF windowVars, AcceptedInTime, Seconds
<1>3. CASE ~accepted'
  BY <1>3 DEF AcceptedInTime
<1>4. QED
  BY <1>1, <1>2, <1>3 DEF WindowNext, Tick, SetClock, SetTimeout, StoreHandoffPending

\* The inductive invariant.
THEOREM WindowInvariant == WindowSpec => []WindowInv
<1>1. WindowInv /\ [WindowNext]_windowVars => WindowInv'
  BY WindowTypeStep, ClockStep, AcceptedStep DEF WindowInv
<1>2. QED
  BY WindowInitHolds, <1>1, PTL DEF WindowSpec

\* The window is closed in time, whatever the timeouts are and however often
\* the clock is set forward.
THEOREM WindowBounded == WindowSpec => []WindowIsBounded
<1>1. WindowInv => WindowIsBounded
  <2> SUFFICES ASSUME WindowInv, accepted
               PROVE  passed - saved <= 2 * allowed + 1
    BY DEF WindowIsBounded
  <2> DEFINE s == Seconds(clock)
  <2>1. /\ s \in Nat /\ clock <= 2 * s + 1 /\ clock \in Nat
        /\ deadline \in Nat /\ s <= deadline
        /\ clock >= 2 * (deadline - allowed) + (passed - saved)
    BY SecondsBounds DEF WindowInv, WindowTypeOK, AcceptedInTime, ClockSinceSave
  <2>2. allowed \in Nat /\ passed \in Nat /\ saved \in Nat
    BY TimeoutsAssumption, MaxTimeAssumption DEF WindowInv, WindowTypeOK
  <2> HIDE DEF s
  <2>3. QED
    BY <2>1, <2>2
<1>2. QED
  BY WindowInvariant, <1>1, PTL

\* The window is open for as long as it should be.
THEOREM WindowUsable == WindowSpec => []WindowIsUsable
<1>1. WindowInv => WindowIsUsable
  <2> SUFFICES ASSUME WindowInv, deadline # NoDeadline, steady, passed - saved <= 2 * allowed
               PROVE  deadline - Seconds(clock) \in 0..timeout
    BY DEF WindowIsUsable, ChangeIsCurrent
  <2> DEFINE s == Seconds(clock)
  <2>1. /\ s \in Nat /\ 2 * s <= clock /\ clock <= 2 * s + 1 /\ clock \in Nat
        /\ deadline \in Nat /\ timeout = allowed
        /\ clock >= 2 * (deadline - allowed) + (passed - saved)
        /\ clock <= 2 * (deadline - allowed) + (passed - saved) + 1
    BY SecondsBounds DEF WindowInv, WindowTypeOK, ClockSinceSave
  <2>2. allowed \in Nat /\ passed \in Nat /\ saved \in Nat /\ saved <= passed
    BY TimeoutsAssumption, MaxTimeAssumption DEF WindowInv, WindowTypeOK
  <2> HIDE DEF s
  <2>3. s <= deadline /\ deadline - s <= timeout
    BY <2>1, <2>2
  <2>4. QED
    BY <2>1, <2>2, <2>3 DEF s
<1>2. QED
  BY WindowInvariant, <1>1, PTL
=============================================================================
