# A verification project for the CUL868 firmware flasher

The add-on under `src/cul868_flasher/app` replaces the firmware of a CUL868
USB radio from Home Assistant. A mistake costs the user a radio without
firmware, the wrong radio erased, or smart-home services left stopped. Most
of its code exists to prevent that under races between HTTP requests and the
worker, lost answers, replugged devices and crashes. This directory holds
TLA+ models of that code, the TLC runs that check them, and TLAPS proofs.

Paths below are relative to `src/cul868_flasher/app` unless they say otherwise.

## 1. The system

### Components, their state and their operations

| Component | State | Operations | Modelled in |
| --- | --- | --- | --- |
| Operation controller (`operation.py`) | one-slot queue, status, current id, progress | submit, get, claim_for_run, report_progress, complete, fail, drain | `OperationController`, `FlashQueue` |
| Artifact registry (`ingress.py` 45-111) | entries with image, preflight, deadline, claimed flag; their files | stage, claim, release_claim, consume, expire, close | `ArtifactRegistry`, `FlashQueue` |
| Ingress API (`ingress.py` 114-261) | submission lock, `_accepting_mutations` | validate_upload, flash, set_led, diagnostics, close_admission, close | `FlashQueue` |
| HTTP server (`ingress.py` 264-472) | listener thread, request threads, reaper thread | start, stop, do_GET, do_POST | `FlashQueue` (its threads) |
| Worker and shutdown (`main.py`) | the operation in hand, the stop event | run, signal handler | `FlashQueue` |
| Flash transaction (`flasher.py`) | flash lock, the plan, the bound target | flash and everything it calls | `FlashTransaction` |
| Preflight, plan, handoff window (`flasher.py` 186-217, 670-740, 835-850) | the window's deadline | preflight, _plan, _handoff_change_is_current | `FlashTransaction`, `HandoffWindow` |
| Verify, LED, diagnostics (`flasher.py` 219-367) | none of their own | one serial session each | `SerialSession`; locking in `FlashQueue` |
| CUL serial protocol (`serial.py`) | one open tty | V, B01, LED, uptime, M-Bus status | `SerialSession` |
| USB topology (`usb.py`) | none, reads sysfs | configured_application, *_for_topology, *_targets | `UsbBinding`; as one step in `FlashTransaction` |
| By-id migration (`flasher.py` 590-668) | none | the wait for a new by-id name, the decision to retain | `ByIdMigration` |
| Device state store (`state.py`) | one JSON record, replaced atomically | load, save | `DeviceState`, `RecordStore`; `known` in `FlashTransaction` |
| Consumer pause (`supervisor.py` 31-87, 212-279) | lists of stopped and retained add-ons, the restore flag | temporarily_stop_cul_consumers, _restore, leave_stopped_after_error, retain_addons | `ConsumerPause` |
| Supervisor client (`supervisor.py`) | none | HTTP requests, the scan, matching of options and paths | `ConsumerMatching`, `ConsumerNames`; requests in `ConsumerPause` |
| Intel HEX parser (`hexfile.py`) | the temporary file | write_upload, parse_hex_file | `HexImage`; its file in `ArtifactRegistry` |
| Settings, web UI, packaging | | | not modelled (section 8) |

### How they interact

Request threads and the worker share the controller, the registry and the
flasher. Three locks order them: the API's submission lock around every
decision that spans registry and controller, the small locks inside these two,
and the flasher's flash lock around every use of the radio. A signal handler
sets one event; request threads, the worker's loop and `claim_for_run` read it.
The worker calls the flasher, which calls the Supervisor around the whole
transaction, reads USB through sysfs, talks to the radio over a tty and runs
`dfu-programmer`. The state store is the only thing that survives a crash.

### What is hard here

* Requests that pass a check and act on it later: an idle check before an
  upload of seconds, a session that waits for the flash lock after its check.
* The operation is out of the queue before its status changes (`get`).
* Expiry runs in any thread at any time and deletes files.
* Shutdown closes the gate while threads that passed it are still running.
* Every Supervisor request can fail after it took effect.
* Around `B01` nobody knows whether the radio is an application or a
  bootloader; a crash there leaves only the record on disk.
* A device is known only by port and serial. Ports are reused, and a serial
  may be absent or change with the personality or the firmware.
* A USB device is read attribute by attribute, and a tty is checked by name before
  it is opened; anything can be replugged in between.
* What a session leaves on the wire meets the next one: `tcflush()` clears the
  kernel's buffers, not the radio's.
* Three pictures of the by-id names (the host, the add-on's `/dev`, the
  Supervisor's inventory) change at different times.

`PROJECT.json` lists these hazards at the lines where they bite, with the
properties that cover them.

### What makes each component correct

* Controller, registry, API, worker: an accepted upload is flashed at most
  once, from the file that was validated, to an outcome the UI sees; nothing is
  accepted or left behind after shutdown; the radio has one user at a time.
* Consumer pause: exclusive while the body runs; everything is restored or
  reported; nothing is restarted onto a radio whose firmware is unknown.
* Matching and migration: whoever would read the radio is stopped, and gets it
  back only under a name it can be found by.
* Serial sessions: a command that changes the radio is sent once, however often
  the questions before it are repeated, and the outcome that is reported is true.
* USB lookups: the bytes go to the radio the lookups were made for.
* State store: a record is there whole or not at all, crash or not.
* HEX parser: what it accepts is an image of the application flash.
* Flash transaction and record: only the intended radio is erased, never before
  the record can lead a later run back to it; an interrupted flash can always
  be repaired; a reported success is a verified one.

## 2. Modules

| Module | What it is |
| --- | --- |
| `Uploads` | identities shared by the next two |
| `OperationController` | one operator per controller method; every method body runs under one lock, so each is one atomic change |
| `ArtifactRegistry` | one operator per critical section of the registry, with the files on disk |
| `FlashQueue` | the composition: request threads, main thread, reaper, clock, signal; one action per step between two points where another thread can interfere |
| `UploadLifecycle` | abstract specification: each upload is a one-shot authorisation |
| `ConsumerPause` | the pause transaction against an unreliable Supervisor |
| `ByIdMigration` | the poll for a changed by-id name and the decision |
| `ConsumerMatching` | which add-ons a pause stops: the scan over options and spellings of the path |
| `ConsumerNames` | the two above composed: who is stopped, and under which name it gets the radio back |
| `FlashTransaction` | devices, USB, the record, one flash at a time, crashes and restarts |
| `SerialSession` | the sessions of verify, LED, diagnostics and B01, with the wire and the radio |
| `UsbBinding` | the lookups from a path to a device, one attribute at a time, with devices coming and going |
| `DeviceState` | load and save, one file operation at a time, with kills and power failures |
| `RecordStore` | abstract specification: a register that holds one record |
| `HandoffWindow` | the wall-clock window of a B01 handoff in real time |
| `HexImage` | receiving and parsing an upload, and what an image is |
| `X_proofs` | TLAPS proofs about `X`: `FlashQueue`, `FlashTransaction`, `ConsumerPause`, `ConsumerNames`, `UsbBinding`, `SerialSession`, `HexImage` |
| `RecoveryRecord_proofs` | TLAPS proofs about `DeviceState` and `HandoffWindow` |
| `MC*` | instances for TLC |

A definition named as a "fault variant" is what its neighbour would be with a
plausible bug; no specification uses it.

The modules meet in the same pieces of state. `FlashQueue` holds the flash lock for
as long as a session of `SerialSession` or a flash of `FlashTransaction` lasts.
`FlashTransaction` is to one flash what `ConsumerPause` is to the services around
it; the calls that connect them are `LeaveStopped`, `Verify` and `RetainAddons`.
`FlashTransaction` takes a lookup, a save and a B01 session as one step each;
`UsbBinding`, `DeviceState` and `SerialSession` take them apart and show what of that
is justified, and where it is not they name the exception.

### FlashQueue

`pc[h]`, `request[h]` and `upload[h]` are the program counter and locals of a
request thread, `main` and `job` those of `run()`. `submission` and `flashLock`
hold the thread that has the lock. An upload is identified by its temporary
file, so the registry's dictionary is a set (`staged`) and an entry's fields are
membership in other sets (`claimed`, `expired`, `manual`). `doomed[t]` are the
files a thread decided, under a lock, to unlink after it, as `stage()` and
`close()` do. The artifact lifetime is `Tick`, which may age an entry at any
moment; this covers every value of the real clock.

A serial session or a flash is an interval during which the flash lock is held;
what happens in it is `FlashTransaction`'s subject. A flash may fail at any
time, and fails for certain when its file is gone.

`LifeOf(u)` maps the threads' state to `UploadLifecycle`. Its subtle point: between
`submit` and `consume` the entry is still in the registry, although the upload
is already queued or even flashing.

### ConsumerPause

Slugs are numbers, their order the sorted order of the code; the stop loop takes
the smallest and `_restore` the largest of what is left, so the lists are sets.
`addon` and `command` are the Supervisor's: real state and a command being
worked on. `Post` lets a command succeed, be lost, or take effect without an
answer. `lagging`, chosen once, says whether this Supervisor may carry a command
out after the request for it has ended, answered or not. A stopped add-on may
show as `error`, which the code accepts as stopped.

### ConsumerMatching, ByIdMigration, ConsumerNames

An add-on's options are a set of spellings: the alias, the node, another link to
it, "auto", a path of something else. `_same_device_path()` can compare two
spellings only while the node exists. The scan reads every add-on in turn; what
it cannot read it must not ignore. `ByIdMigration` publishes and removes names on the host at any
time and lets both pictures follow late. `ConsumerNames` runs scan, flash, poll and
return in the order of `flash()`; `stale` says that a picture still showed a name
the host had removed when the poll used it.

### FlashTransaction

A device has a port, a personality, firmware, and a serial per personality;
`visible` is FALSE while it re-enumerates. The flasher's decisions use only
port, personality and serial, exactly as the code's do; the device identity
appears in properties. `configured` is the device whose by-id path the
configuration names. `known` is the record, `window` whether its handoff deadline
is ahead. `ticket` is an accepted validation, `target` the topology and serial
the flash is bound to (first the plan's, then the observed bootloader's, finally
the application's). Retries that change nothing are not separate steps: the
failing action is the last attempt. The operator is assumed to confirm an
unpaired bootloader only if it is the configured radio, as the UI asks.
`scenario` is a budget of replugs and faults and the host's kind, chosen from
`Scenarios` at the start; it bounds the instance and stands for nothing in the code.
`recordSwapped` and `flashSwapped` are history, which no guard reads: a device was replugged
while a changed serial was accepted. The code accepts one in three places: from V to the
bootloader of the same flash, in the final wait for the application, and in a recovery from a
handoff record until its deadline. The mark goes with the record and with the flash that
recovers from it, and is erased when the window closes or the flash ends.

### SerialSession

`wire` is what was written and not yet read by the radio, `sent` how much of it
has left the kernel, `answers` what the radio said and nobody has read. `Flush`
drops any unsent tail and any answers received so far. An unfinished command stays
in front of the next one and is either carried out with it or spoils it. `attempt`
and `begun` are the loop counter and the flag that ends the retries.

### UsbBinding

`ReadIds`, `ReadDevnum` and `ReadSerial` are the reads of `_target_from_path()`; `Start`
is the device at the path when the first of them happens, and the later ones
read whatever is at that port by then. `EnterBootloader`, `Plug` and `Unplug` give
addresses and tty numbers as the kernel does: an address is never used again, a
tty number is the lowest free one.

### DeviceState, RecordStore, HandoffWindow

`DeviceState` has the state file, the temporary file, what would survive a power
failure (`durable`, a set, since the rename is not synchronised) and the caller's
record. The refinement maps the register to `Load(path)`. `HandoffWindow` counts real
time and the wall clock in half seconds, so that `int()` has something to drop.

### HexImage

A line is what `_parse_record()` makes of it, or "bad". `IsImage` says what a file
must be without an order of reading; `Programmed` is the bytes it writes.

## 3. Runs

| Run | Instance | Shows |
| --- | --- | --- |
| `queue_safety` | 2 request threads, 2 uploads, 2 operations, percentages 88 and 90, symmetry | the invariants of `FlashQueue`, monotone progress, and that it implements `UploadLifecycle` |
| `queue_progress` | 2 threads, 1 upload, 1 operation, no symmetry | accepted operations are resolved, a stop ends the process |
| `pause` | 3 consumers, 3 attempts, 2 transactions, prompt or lagging Supervisor | exclusive in the body, no reopening while uncertain, restored or reported, starts only what it stopped, ends |
| `pause_lost_answer` | 3 consumers, 1 transaction | finding 1 |
| `consumer_names` | 1 add-on with any options, 3 by-id names and a foreign one | readers are stopped, consumers come back under a name that is right, the name shown is a published one |
| `flash` | 2 radios on 2 ports, one with the same serial in both personalities, one whose serial changes, either configured; 2 replugs and 1 fault, or 3 faults, or one radio on a QEMU host and 2 faults | only the configured radio is erased and recorded first, unknown radios are left alone, always recoverable, eventually repaired, success is real, a flash ends |
| `flash_qemu_erase` | 2 radios, QEMU workaround | finding 2 |
| `serial` | 2 requests of any kind, 3 attempts | at most once, honest failures, delivered successes, requests end |
| `usb_binding` | 2 radios, 2 ports, 2 tty numbers, 4 plug events | who can get B01 and the DFU commands |
| `state_store` | any first file, 2 kills or power failures | an atomic register; the handoff is on record |
| `handoff_window` | timeouts of 2 and 3 seconds, 12 half seconds | the window closes in time and not before |
| `hex_admission` | flash of 3 bytes, 16-bit span of 4, up to 4 of 19 kinds of lines | exactly the images are accepted, with a true summary |

### Why these bounds are enough

*Threads.* Every hazard in the API is between two requests, or a request and
the main thread: one lock holder and one waiter. The main thread and the reaper
are there in addition. *Uploads and operations.* Two uploads are needed for
replacement and for a second submission during the first; two operations for a
stale job. *Consumers.* Three give a first, a middle and a last in both loop
orders. Two transactions let a command of the first reach into the second.
*Names.* Add-ons are matched one by one, so one with every set of options covers
them; three names allow the previous, a new and a wrong one at once.
*Replugs.* Swapping two radios takes two; in `usb_binding` each of them can go and
come back. *Faults.* With replugs one, since a second adds only another
interrupted flash; without them three. A fault is a failing call, a process
death, or a report lost after the effect. *Requests.* What one session leaves
behind meets the next one. *Lines.* An end, a base and two data lines that overlap,
leave a gap or leave the flash. The bounds `MaxOps`, `MaxRuns`, `MaxRequests`,
`MaxMoves`, `MaxCrashes` and `MaxTime`, and the budgets in `Scenarios`, correspond to
nothing in the code; section 5 removes most of them.

### Fairness

`FlashQueue`: each request thread and the main thread keep running (weak
fairness); every wait in a session, a parse or a flash has a timeout in the code,
so these intervals end. `threading.Lock` has no queue, so a thread that keeps
losing the race for a lock needs strong fairness to get it: this is assumed of
the main thread for the flash lock and the submission lock. Without it, an
endless stream of LED requests could postpone shutdown for ever; the
assumption is that of a scheduler that is not adversarial for ever. Request
threads get none for the locks they wait for.

`ConsumerPause`: the client's thread keeps running. Nothing is assumed of the Supervisor.

`FlashTransaction`: the flash thread keeps running, a device that left the bus
comes back, and, for `EventuallyRepaired` only, the operator tries again.
Faults are bounded, so eventually the calls work.

`SerialSession`: the session's thread keeps running; each of its waits has a
deadline, so `NoAnswer` is always possible. Nothing is assumed of the radio.

## 4. Findings

Both are runs with `expect` "violation"; `PROJECT.json` quotes the text they contradict.

1. `supervisor.py` 228: a stop whose answer is lost is not recorded, so its
   consumer is neither restored nor named. The comment just below it means to
   prevent this, but only covers the poll after the stop.
2. `flasher.py` 983: with the QEMU workaround a second radio that was in its
   bootloader all along is erased while the verified one is off the bus.

Observed while modelling, each at the edge of what a property states and named
there or in the hazards' notes:

* `flasher.py` 1142: where a serial is missing on either side, the match is by port alone.
* `flasher.py` 1035: with the QEMU workaround a second CUL can answer the final V.
* `flasher.py` 933: a tty number can pass to another radio between check and open
  (`B01ToPlannedUnlessReplugged` says this is the only way).
* `supervisor.py` 23: an add-on that is still starting is in none of the states the code
  tells apart, so it is not stopped; the model has none.
* `supervisor.py` 276: a start left over from one transaction can reach into the next.
* `supervisor.py` 406: in a recovery the node is gone, and a consumer that names it by another
  spelling cannot be recognised (`Unrecognisable`).
* `flasher.py` 594: a picture that still shows the removed name restores consumers
  under it (`stale`).
* `serial.py` 222: a V line that is cut off after the radio's name is taken for the whole.
* `state.py` 124: the directory is not synchronised after the rename, so a power
  failure can bring back the record before B01.
* `flasher.py` 844: a clock that is set back opens a closed handoff window again.

## 5. What is proved

For every value of the constants, with no bound on threads, uploads, consumers,
names, radios, attempts, requests, crashes, plug events, time or file length:

| Module | Properties proved |
| --- | --- |
| `FlashQueue_proofs` | `TypeOK`, `HeldJobIsCurrent`, `QueuedHasOneOwner`, `SessionExcludesFlash`, `DrainIsFinal`, `ImageAvailable`, `StagedOnlyWhenIdle`, `NoOrphanedUpload`, `ProgressMonotone`, `ImplementsLifecycle` (the refinement) |
| `FlashTransaction_proofs` | `TypeOK`, `UnknownRadioIsLeftAlone`, `RecordedBeforeErase`, `BrokenIsRecoverable`, `SuccessIsNewFirmware`, `OnlyConfiguredIsErased` |
| `ConsumerPause_proofs` | `TypeOK`, `ExclusiveInBody`, `NoReopenWhileUncertain`, `RestoredOrReported`, `SuccessIsComplete`, `StartsOnlyWhatItStopped` |
| `ConsumerNames_proofs` | `NoReaderIsMissed`, `RestoredUnderTheRightName`, `NamedAliasIsCurrent` |
| `RecoveryRecord_proofs` | of `DeviceState`: `TypeOK`, `UncertainIsOnRecord`, `ImplementsRecordStore` (the refinement); of `HandoffWindow`: `WindowTypeOK`, `WindowIsBounded`, `WindowIsUsable` |
| `UsbBinding_proofs` | `TypeOK`, `DfuOnlyOnObserved`, `B01ToPlannedUnlessReplugged` |
| `SerialSession_proofs` | `TypeOK`, `AtMostOnce`, `CleanFailure`, `SuccessReachedTheRadio` |
| `HexImage_proofs` | `TypeOK`, `AdmitsExactlyImages`, `SummaryIsTrue` |

That is every safety property the passing runs check, and both refinements. The
assumptions are those named in the modules: identities are distinct from
`None` and from each other, bounds are natural numbers, sets of add-ons, names
and devices are finite. A few theorems have hypotheses of their own,
about the installation, which the code can neither establish nor check:

* `PlannedGetsB01` needs application serials to be distinct.
* `OnlyTheRadioIsErased` needs `SerialsTellRadios`: a radio that may be configured reports
  a serial in its application, every radio one in its bootloader, and no bootloader has either serial of
  another radio that may be configured. One serial for both personalities, as in
  `tests/test_flasher.py`, and applications that share a serial are allowed. A missing
  serial is not: `flasher.py` 848 and 1142 then go by the port alone, and ports can
  be swapped. `NothingElseIsErasedInPlace` is what remains without the hypothesis, where
  nobody replugs anything. The theorem excepts a replug between V and the bootloader,
  in the wait for the application, or before the deadline of the handoff record, for as
  long as that flash, or a recovery from its record, goes on. A replug after the deadline is no
  exception, and the run's mutant, which ignores the deadline, is caught by it.
* `BrokenRadioIsFound`, `NothingElseIsErasedInPlace` and `SuccessMeansUpdated` need `QemuIsAlone` and
  `OnlyTheRadioIsErased` needs `QemuStaysAlone`: a host that needs the QEMU workaround
  has one radio. The run `flash_qemu_erase` shows that this cannot be dropped.

The instance of the run `flash` satisfies all of these.

None of the properties is inductive by itself, so each proof has an inductive
invariant, checked with TLC before it was proved:

* `FlashQueue`: `TypeOK`, with `Uploading` (past these points a thread has a real
  upload); `Ownership` (a queued item is the current operation and the worker
  holds none; a held job is current), which makes the gap between `get` and
  `claim_for_run` harmless; `Locking` (a lock's holder is exactly the thread inside
  its region); `Admission` (a thread between its gate check and its release keeps
  the main thread out of every location after `close_admission`).
  `Claims` (the registry has at most one entry, a claimed entry is that of a thread
  between `claim` and the end of its claim, and an unclaimed one means idle), `Alone`
  (until a validation is answered only its thread knows of the upload), `Custody` (a
  file has one owner: its receiver, the registry, the operation, or the thread
  about to unlink it; only between `submit` and `consume` does the registry list an
  operation's image) and `Accounted` (every file has an owner). `Orderly` adds that
  only a stop request ends the loop. For `QueueImplementsLifecycle` the values of
  `LifeOf` become sets of uploads: in the queue, in the flash, on the stage, in
  receipt, written. Each action moves an upload between them, or empties the stage.
* `FlashTransaction`: three layers. `SafeInv` needs only the code: past `B01` the pause
  knows that it must not restore (`PauseInv`); during erase and flash the record is
  the bound target (`RecordInv`); ports are exclusive (`BusInv`). This gives
  `RecordedBeforeErase` and `UnknownRadioIsLeftAlone`. `InPlaceInv` says where the radio is:
  as long as nobody replugs anything, every topology the flasher keeps is the
  radio's, so that what it finds there is the radio (`CandidatesAreTheRadio`); a radio
  without firmware is in sight and its record names it. `IdentityInv` says whose
  bootloader the record, the ticket and the target are about, whatever is replugged:
  their serial names the radio (`SerialTells`), except where a changed one is accepted;
  there the port names it (`PortTells`), unless it was replugged meanwhile, which is what
  `recordSwapped` and `flashSwapped` record. A window that closes leaves the serial of the
  application on record, which no other bootloader has.
* `ConsumerPause`: what each phase of the entry has achieved for the consumers its
  loop is done with, and that one with a start under way does not run yet, so
  that the scan cannot have taken it for a match. The loops' choice of a first
  or last slug needs `HasMin` and `HasMax`, proved by well-founded induction.
* `ConsumerNames`: what the scan has read of each add-on it is done with, and which
  names each picture can still hold.
* `DeviceState`: the temporary file holds a prefix of what is being saved, the state
  file a whole record. The refinement rests on `SavedIsLoaded` (a saved record is
  read back as it was) and `LoadIsStable`.
* `HandoffWindow`: how far clock and deadline can be apart, given the rounding.
* `UsbBinding`: after `ReadDevnum` nothing but the device then at the port answers to
  the address read, and after `ReadSerial` the serial is that device's, or the
  device is gone and nothing answers. The second theorem adds the same about
  the tty node, as long as nothing was plugged in.
* `SerialSession`: commands stand on the wire in the order of their requests; a
  whole changing command is never right behind an unfinished one, because a
  whole V was answered between them; one that is on the wire has not been
  carried out; a request that has not begun has none.
* `HexImage`: the locals describe exactly the lines taken so far; `ExtentIs` connects
  `upper_address` with the last base line before a data line.

## 6. Only model-checked

Liveness and fairness (`AcceptedIsResolved`, `ShutdownFinishes`, `TransactionEnds`,
`RequestEnds`, `FlashEnds`, `EventuallyRepaired`) stay with TLC: the prover handles neither
ENABLED nor fairness here.
`EventuallyRepaired` is the liveness half of `BrokenIsRecoverable`, which is proved.

## 7. Plan

All modules of the plan are written, their safety properties proved. Left:

1. `FlashTransaction` takes one record, one B01 session and one pause as a step.
   `DeviceState` is shown to implement the record; an abstract pause, implemented by
   `ConsumerPause` and used by `FlashTransaction`, would close the second gap.
2. Radios without serials: `SerialsTellRadios` could allow them as long as those
   radios stay where they are.

## 8. Not modelled

* `status()` and `operation()`: they read; the expiry they trigger is `Expire`.
* JSON, HTTP headers, proxy checks, static files, the digits and checksum of a HEX line, the
  line settings of the port: pure functions of one input or stateless I/O.
* Settings: read once at start, constants here. Web UI: any request order is
  already allowed. Packaging.
* A clock that is set back, see the hazard's note.
* A consumer that somebody else starts or that crashes during the transaction:
  the code makes no promise about it.
