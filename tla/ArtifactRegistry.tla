-------------------------- MODULE ArtifactRegistry --------------------------
(***************************************************************************)
(* The registry of validated uploads and their temporary files: class      *)
(* _ArtifactRegistry of app/ingress.py, with write_upload of               *)
(* app/hexfile.py and the unlink calls that end a file's life.  An upload  *)
(* is identified by its file, which mkstemp makes unique, so the           *)
(* dictionary of entries is the set of uploads that have one, and an       *)
(* entry's fields are membership in the other sets.                        *)
(*                                                                         *)
(* Each operator is one critical section of the registry's own lock.  The  *)
(* unlinks that stage() and close() do after leaving it are separate       *)
(* steps of the calling thread (see FlashQueue).                           *)
(***************************************************************************)

EXTENDS Uploads

VARIABLES
    written,  \* uploads mkstemp has ever created a file for
    files,    \* uploads whose temporary file exists
    staged,   \* uploads with a registry entry
    claimed,  \* entries with claimed = True
    expired,  \* uploads whose expires_at has passed
    manual    \* uploads whose preflight chose an unpaired DFU bootloader

regVars == <<written, files, staged, claimed, expired, manual>>

RegTypeOK ==
    /\ written \subseteq Artifacts
    /\ files \subseteq written
    /\ staged \subseteq Artifacts
    /\ claimed \subseteq staged
    /\ expired \subseteq Artifacts
    /\ manual \subseteq Artifacts

RegInit ==
    /\ written = {}
    /\ files = {}
    /\ staged = {}
    /\ claimed = {}
    /\ expired = {}
    /\ manual = {}

----------------------------------------------------------------------------
\* write_upload(): mkstemp creates the file before the body is read.
CreateFile(u) ==
    /\ u \notin written
    /\ written' = written \cup {u}
    /\ files' = files \cup {u}
    /\ UNCHANGED <<staged, claimed, expired, manual>>

\* path.unlink(missing_ok=True)
Unlink(set) ==
    /\ files' = files \ set
    /\ UNCHANGED <<written, staged, claimed, expired, manual>>

\* Fault variant of Removable: a claim does not protect an entry.
RemovableEvenIfClaimed == staged \cap expired

\* Entries _remove_expired_locked() pops: past their deadline and unclaimed.
Removable == (staged \cap expired) \ claimed

\* _remove_expired_locked(): pop and unlink under the lock.
RemoveExpired ==
    /\ staged' = staged \ Removable
    /\ files' = files \ Removable
    /\ UNCHANGED <<written, claimed, expired, manual>>

\* stage() raises after the expiry sweep while another entry is claimed.
StageRefused == claimed # {}

\* stage(): sweep, drop every other entry, insert the new one.  The replaced
\* entries' files are unlinked by the caller after the lock is left.
Replaced == staged \ Removable
Stage(u) ==
    /\ ~StageRefused
    /\ staged' = {u}
    /\ claimed' = {}
    /\ files' = files \ Removable
    /\ UNCHANGED <<written, expired, manual>>

\* claim() finds the entry, not yet claimed, after its own expiry sweep.
ClaimableEntry(u) == u \in (staged \ Removable) \ claimed

Claim(u) ==
    /\ ClaimableEntry(u)
    /\ claimed' = claimed \cup {u}
    /\ staged' = staged \ Removable
    /\ files' = files \ Removable
    /\ UNCHANGED <<written, expired, manual>>

ReleaseClaim(u) ==
    /\ claimed' = claimed \ {u}
    /\ UNCHANGED <<written, files, staged, expired, manual>>

Consume(u) ==
    /\ staged' = staged \ {u}
    /\ claimed' = claimed \ {u}
    /\ UNCHANGED <<written, files, expired, manual>>

\* close(): the entries' files are unlinked after the lock is left.
ClearEntries ==
    /\ staged' = {}
    /\ claimed' = {}
    /\ UNCHANGED <<written, files, expired, manual>>

\* Time passes the 15-minute deadline of an entry.
Age(u) ==
    /\ u \in staged \ expired
    /\ expired' = expired \cup {u}
    /\ UNCHANGED <<written, files, staged, claimed, manual>>

\* preflight() of one upload answered with an unpaired recovery target.
NoteManual(u) ==
    /\ manual' = manual \cup {u}
    /\ UNCHANGED <<written, files, staged, claimed, expired>>
=============================================================================
