----------------------------- MODULE DeviceState -----------------------------
(***************************************************************************)
(* The state file of app/state.py: how a record is written, replaced and   *)
(* read back when the process is killed or the power fails at any step.    *)
(*                                                                         *)
(* The program saves what its flash transaction calls for: a pending       *)
(* handoff before B01, the bootloader it saw, the application it verified. *)
(* A process that dies leaves the files as they are; a power failure also  *)
(* takes what the file system had not written yet: the bytes of a file     *)
(* that was not synchronised, and a rename the journal had not committed.  *)
(***************************************************************************)
EXTENDS Integers

CONSTANT MaxCrashes     \* bound: kills and power failures

ASSUME MaxCrashesAssumption == MaxCrashes \in Nat

Bindings == {"verified-application", "handoff-pending", "observed-bootloader", "legacy-unknown"}
None == "none"

\* A KnownDevice: its topology is valid, texts are present or None, and a
\* deadline is one within the bounds of _safe_handoff_deadline() or None.
Record == [version : {"known", None}, binding : Bindings, deadline : {"set", None}]
NoRecord == [version |-> None, binding |-> None, deadline |-> None]

\* What a file can hold: nothing, bytes that are no document of the store (not
\* JSON, too long, a bad topology), or a document.  A document of an older
\* release has no binding; one from elsewhere may have any.
Document == [version : {"known", None}, binding : Bindings \cup {"missing", "unknown"},
             deadline : {"set", None}]
Absent == [version |-> None, binding |-> "absent", deadline |-> None]
Torn == [version |-> None, binding |-> "torn", deadline |-> None]
Contents == Document \cup {Absent, Torn}

VARIABLES
    path,       \* what the state file holds
    durable,    \* what it may hold after a power failure
    temp,       \* the temporary file
    synced,     \* is the temporary file on the disk?
    pc,         \* where save() is
    record,     \* what it saves
    last,       \* the record of the last save() that returned
    radio,      \* "uncertain" from B01 until V has answered
    power,      \* can the power fail, or only the process be killed?
    crashes

fileVars == <<path, durable, temp, synced>>
crashVars == <<power, crashes>>
vars == <<fileVars, pc, record, last, radio, crashVars>>

Pcs == {"idle", "write", "sync", "replace"}

----------------------------------------------------------------------------
(* What a document says                                                    *)

\* _recovery_binding_for_document(): records of older releases.
LoadedBinding(document) ==
    IF document.binding # "missing" THEN document.binding
    ELSE IF document.version # None THEN "verified-application" ELSE "legacy-unknown"

\* load(): no record for everything that is no complete record.
Load(contents) ==
    IF contents \notin Document THEN NoRecord
    ELSE LET binding == LoadedBinding(contents)
             pending == binding = "handoff-pending"
         IN  IF binding = "unknown" \/ (pending /\ contents.deadline = None) THEN NoRecord
             ELSE [version |-> contents.version, binding |-> binding,
                   deadline |-> IF pending THEN contents.deadline ELSE None]

\* save() raises ValueError before it touches a file, or writes this.
Savable(device) == device.binding = "handoff-pending" => device.deadline # None
Encode(device) ==
    [device EXCEPT !.deadline = IF device.binding = "handoff-pending" THEN @ ELSE None]

TypeOK ==
    /\ path \in Contents
    /\ durable \subseteq Contents /\ path \in durable
    /\ temp \in Contents
    /\ synced \in BOOLEAN
    /\ pc \in Pcs
    /\ record \in Record \cup {NoRecord}
    /\ last \in Record \cup {NoRecord}
    /\ last # NoRecord => Savable(last)
    /\ radio \in {"application", "uncertain"}
    /\ power \in BOOLEAN
    /\ crashes \in 0..MaxCrashes

----------------------------------------------------------------------------
(* save()                                                                  *)

\* What the flasher saves: a V answer, a handoff that begins, or the
\* bootloader that was seen.
Called(device) ==
    \/ /\ radio = "application"
       /\ device = [version |-> "known", binding |-> "verified-application", deadline |-> None]
    \/ /\ radio = "application"
       /\ device.version = None /\ device.binding = "handoff-pending"
    \/ device = [version |-> None, binding |-> "observed-bootloader", deadline |-> None]

\* mkstemp(); nothing happens when the record is refused.
BeginSave(device) ==
    /\ pc = "idle"
    /\ Called(device)
    /\ Savable(device)
    /\ record' = device
    /\ last' = NoRecord
    /\ temp' = Torn
    /\ synced' = FALSE
    /\ pc' = "write"
    /\ UNCHANGED <<path, durable, radio, crashVars>>

WriteTemp ==
    /\ pc = "write"
    /\ temp' = Encode(record)
    /\ pc' = "sync"
    /\ UNCHANGED <<path, durable, synced, record, last, radio, crashVars>>

\* Fault variant of SyncTemp: the file is flushed to the kernel only.
SyncTempFlushOnly ==
    /\ pc = "sync"
    /\ pc' = "replace"
    /\ UNCHANGED <<fileVars, record, last, radio, crashVars>>

\* fsync() and chmod() of the temporary file.
SyncTemp ==
    /\ pc = "sync"
    /\ synced' = TRUE
    /\ pc' = "replace"
    /\ UNCHANGED <<path, durable, temp, record, last, radio, crashVars>>

\* os.replace(): readers see the new file at once; the old directory entry may
\* come back until the journal commits.
Replace ==
    /\ pc = "replace"
    /\ path' = temp
    /\ durable' = durable \cup {temp} \cup (IF synced THEN {} ELSE {Torn})
    /\ temp' = Absent
    /\ last' = record
    /\ pc' = "idle"
    /\ UNCHANGED <<synced, record, radio, crashVars>>

\* Fault variant of SaveFails: the error is swallowed.
SaveFailsSilently ==
    /\ pc # "idle"
    /\ temp' = Absent
    /\ last' = record
    /\ pc' = "idle"
    /\ UNCHANGED <<path, durable, synced, record, radio, crashVars>>

\* A step raises: the temporary file is unlinked and the state file is as it was.
SaveFails ==
    /\ pc # "idle"
    /\ temp' = Absent
    /\ pc' = "idle"
    /\ UNCHANGED <<path, durable, synced, record, last, radio, crashVars>>

----------------------------------------------------------------------------
(* The radio, the file system and what can go wrong                        *)

\* B01 follows the save of the handoff.
RequestBootloader ==
    /\ pc = "idle"
    /\ radio = "application"
    /\ last # NoRecord /\ last.binding = "handoff-pending"
    /\ radio' = "uncertain"
    /\ UNCHANGED <<fileVars, pc, record, last, crashVars>>

Verified ==
    /\ pc = "idle"
    /\ radio' = "application"
    /\ UNCHANGED <<fileVars, pc, record, last, crashVars>>

\* The journal is committed.
Commit ==
    /\ durable' = {path}
    /\ UNCHANGED <<path, temp, synced, pc, record, last, radio, crashVars>>

Restart ==
    /\ crashes < MaxCrashes
    /\ crashes' = crashes + 1
    /\ pc' = "idle"
    /\ last' = NoRecord
    /\ record' = NoRecord
    /\ temp' = Absent    \* or left over under a name nothing reads
    /\ synced' = FALSE
    /\ UNCHANGED <<radio, power>>

Kill == Restart /\ UNCHANGED <<path, durable>>

PowerFails ==
    /\ power
    /\ Restart
    /\ path' \in durable
    /\ durable' = {path'}

Init ==
    /\ path \in Contents
    /\ durable = {path}
    /\ temp = Absent
    /\ synced = FALSE
    /\ pc = "idle"
    /\ record = NoRecord
    /\ last = NoRecord
    /\ radio = "application"
    /\ power \in BOOLEAN
    /\ crashes = 0

Next ==
    \/ \E device \in Record : BeginSave(device)
    \/ WriteTemp \/ SyncTemp \/ Replace \/ SaveFails
    \/ RequestBootloader \/ Verified \/ Commit
    \/ Kill \/ PowerFails

Spec == Init /\ [][Next]_vars

----------------------------------------------------------------------------
(* Properties                                                              *)

Store == INSTANCE RecordStore WITH
    Records <- {Encode(device) : device \in {r \in Record : Savable(r)}},
    stored <- Load(path),
    possible <- {Load(contents) : contents \in durable}

\* The file is the register FlashTransaction takes it for: neither a failing
\* save nor a process or a machine that stops in one leaves a torn file, mixes
\* two records, or brings up one that was never saved.
ImplementsRecordStore == Store!Spec

\* As long as a radio that was sent B01 has not answered V, a process that
\* starts anew reads that the firmware is unknown.  A power failure is not
\* covered: the rename that brought the record may not be on the disk yet.
UncertainIsOnRecord ==
    radio = "uncertain" /\ ~power => Load(path) # NoRecord /\ Load(path).version = None
=============================================================================
