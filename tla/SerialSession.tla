---------------------------- MODULE SerialSession ----------------------------
(***************************************************************************)
(* The exclusive serial sessions of app/serial.py and the requests of      *)
(* app/flasher.py that use them: reading the version, setting the LED,     *)
(* reading diagnostics and asking for the bootloader (B01).  The flash     *)
(* lock serves one request at a time.                                      *)
(*                                                                         *)
(* The other end is the radio: bytes written are commands on a FIFO, a     *)
(* command whose end was never written stays in front of the next one, and *)
(* an answer may come after the session that asked has given up.  Opening  *)
(* a session flushes what the kernel holds, which is neither what the      *)
(* radio already has nor what it has not said yet.                         *)
(***************************************************************************)
EXTENDS Integers, Sequences, SequencesExt

CONSTANTS
    Attempts,       \* _VERSION_READ_ATTEMPTS
    MaxRequests     \* bound: how many requests the model serves

ASSUME AttemptsAssumption == Attempts \in Nat \ {0}
ASSUME MaxRequestsAssumption == MaxRequests \in Nat

VARIABLES
    kind,       \* kind[n]: what the n-th request is
    result,     \* result[n]: how it ended
    ran,        \* ran[n]: how often the radio executed its changing command
    served,     \* requests taken so far; the last one is the current one
    pc,         \* where the current request is
    attempt,    \* the attempt counter of its retry loop
    begun,      \* led_command_started, bootloader_requested
    wire,       \* commands written that the radio has not read
    sent,       \* how many of them have left the kernel
    answers,    \* lines the radio said that nobody has read
    personality \* the radio's USB personality

programVars == <<kind, result, served, pc, attempt, begun>>
radioVars == <<ran, wire, sent, answers, personality>>
vars == <<kind, result, ran, served, pc, attempt, begun, wire,
          sent, answers, personality>>

Kinds == {"verify", "led", "diagnostics", "flash"}
Changing == {"l0x", "B01"}              \* the commands that change the radio
Names == {"V", "t", "b"} \cup Changing
Command == [name : Names, of : 1..MaxRequests, whole : BOOLEAN]

\* "failed" is an error that says the radio was not verified; "ambiguous" one
\* that says the command may have been carried out; "unsaved" is an error of
\* the state file, after a session that went well.
Results == {"none", "ok", "failed", "ambiguous", "unsaved"}
Pcs == {"idle", "open", "askV", "readV", "begin", "write", "drain", "reopen",
        "askt", "readt", "askb", "readb", "save"}

TypeOK ==
    /\ kind \in [1..MaxRequests -> Kinds \cup {"none"}]
    /\ result \in [1..MaxRequests -> Results]
    /\ ran \in [1..MaxRequests -> Nat]
    /\ served \in 0..MaxRequests
    /\ pc \in Pcs
    /\ attempt \in 1..Attempts
    /\ begun \in BOOLEAN
    /\ wire \in Seq(Command)
    /\ sent \in 0..Len(wire)
    /\ answers \in Seq({"V", "t", "b"})
    /\ personality \in {"application", "bootloader"}

Init ==
    /\ kind = [n \in 1..MaxRequests |-> "none"]
    /\ result = [n \in 1..MaxRequests |-> "none"]
    /\ ran = [n \in 1..MaxRequests |-> 0]
    /\ served = 0
    /\ pc = "idle"
    /\ attempt = 1
    /\ begun = FALSE
    /\ wire = <<>>
    /\ sent = 0
    /\ answers = <<>>
    /\ personality = "application"

----------------------------------------------------------------------------
(* The radio                                                               *)

\* The radio reads a line: everything up to the end of the first command
\* that was written whole.  An unfinished command in front of it either is
\* carried out with the rest as its argument, or makes the line unknown.  It
\* may answer a question, or not know it.
ReadsLine ==
    /\ personality = "application"
    /\ \E n \in 1..Len(wire) :
           /\ wire[n].whole
           /\ \A i \in 1..(n - 1) : ~wire[i].whole
           /\ wire' = SubSeq(wire, n + 1, Len(wire))
           /\ sent' = IF sent > n THEN sent - n ELSE 0
           /\ \/ /\ wire[1].name \in Changing
                 /\ ran' = [ran EXCEPT ![wire[1].of] = @ + 1]
                 /\ personality' = IF wire[1].name = "B01" THEN "bootloader"
                                                           ELSE personality
                 /\ UNCHANGED answers
              \/ /\ wire[1].name \notin Changing
                 /\ answers' = Append(answers, wire[1].name)
                 /\ UNCHANGED <<ran, personality>>
              \/ /\ ~wire[1].whole \/ wire[1].name \notin Changing
                 /\ UNCHANGED <<ran, answers, personality>>
    /\ UNCHANGED programVars

\* The bootloader starts the application again.
Returns ==
    /\ personality = "bootloader"
    /\ pc = "idle"
    /\ personality' = "application"
    /\ wire' = <<>>
    /\ sent' = 0
    /\ answers' = <<>>
    /\ UNCHANGED <<ran, programVars>>

----------------------------------------------------------------------------
(* A request                                                               *)

Start(k) ==
    /\ pc = "idle"
    /\ served < MaxRequests
    /\ served' = served + 1
    /\ kind' = [kind EXCEPT ![served + 1] = k]
    /\ attempt' = 1
    /\ begun' = FALSE
    /\ pc' = "open"
    /\ UNCHANGED <<result, radioVars>>

End(outcome) ==
    /\ result' = [result EXCEPT ![served] = outcome]
    /\ pc' = "idle"

\* Fault variant of AttemptFails: a failed attempt is not counted.
AttemptFailsUncounted ==
    /\ \/ begun /\ End("ambiguous")
       \/ ~begun /\ pc' = "open" /\ UNCHANGED result
    /\ UNCHANGED <<kind, served, attempt, begun>>

\* Fault variant of AttemptFails: the whole body is retried.
AttemptFailsRetriesAll ==
    /\ \/ attempt < Attempts /\ attempt' = attempt + 1 /\ pc' = "open" /\ UNCHANGED result
       \/ attempt = Attempts /\ End("failed") /\ UNCHANGED attempt
    /\ UNCHANGED <<kind, served, begun>>

\* An exception inside the loop body: the session is closed; what comes next
\* depends on whether the changing command had been started.
AttemptFails ==
    /\ \/ begun /\ End("ambiguous") /\ UNCHANGED attempt
       \/ /\ ~begun
          /\ attempt < Attempts
          /\ attempt' = attempt + 1
          /\ pc' = "open"
          /\ UNCHANGED result
       \/ ~begun /\ attempt = Attempts /\ End("failed") /\ UNCHANGED attempt
    /\ UNCHANGED <<kind, served, begun>>

\* tcflush(TCIOFLUSH): drops what the kernel has not sent and has not handed
\* to a reader.
Flush ==
    /\ \E n \in sent..Len(wire) : wire' = SubSeq(wire, 1, n) /\ sent' = n
    /\ \E n \in 0..Len(answers) : answers' = SubSeq(answers, n + 1, Len(answers))

\* CulSerial.__enter__, and what a failure of it leads to.
Open ==
    /\ pc \in {"open", "reopen"}
    /\ personality = "application"
    /\ pc' = IF pc = "open" THEN "askV" ELSE "askt"
    /\ Flush
    /\ UNCHANGED <<kind, result, served, attempt, begun, ran, personality>>

OpenFails ==
    /\ \/ pc = "open" /\ AttemptFails
       \/ /\ pc = "reopen"
          /\ End("failed")
          /\ UNCHANGED <<kind, served, attempt, begun>>
    /\ UNCHANGED radioVars

Put(name, whole) ==
    /\ wire' = Append(wire, [name |-> name, of |-> served, whole |-> whole])
    /\ UNCHANGED <<ran, sent, answers, personality>>

\* _write_all() raised after none or a part of the bytes were written.
PutFails(name) == Put(name, FALSE) \/ UNCHANGED radioVars

\* _request_line(): the write of a question, and of the three of them only V
\* is worth another attempt; diagnostics does without an answer to t or b.
Question == [askV |-> "V", askt |-> "t", askb |-> "b"]
Reader == [askV |-> "readV", askt |-> "readt", askb |-> "readb"]
AfterStatus == [askt |-> "askb", readt |-> "askb", askb |-> "save", readb |-> "save"]

\* The optional question ends, answered or not; after the last one the
\* session is closed.
StatusDone ==
    /\ pc' = AfterStatus[pc]
    /\ UNCHANGED <<kind, result, served, attempt, begun>>

Ask ==
    /\ pc \in {"askV", "askt", "askb"}
    /\ personality = "application"
    /\ Put(Question[pc], TRUE)
    /\ pc' = Reader[pc]
    /\ UNCHANGED <<kind, result, served, attempt, begun>>

AskFails ==
    /\ pc \in {"askV", "askt", "askb"}
    /\ PutFails(Question[pc])
    /\ IF pc = "askV" THEN AttemptFails ELSE StatusDone

\* No line that matches came before the timeout, or the read failed.
NoAnswer ==
    /\ \/ pc = "readV" /\ AttemptFails
       \/ pc \in {"readt", "readb"} /\ StatusDone
    /\ UNCHANGED radioVars

\* A line that answers another question does not match and is passed over.
SkipLine ==
    /\ pc \in {"readV", "readt", "readb"}
    /\ answers # <<>>
    /\ Head(answers) # (IF pc = "readV" THEN "V" ELSE IF pc = "readt" THEN "t" ELSE "b")
    /\ answers' = Tail(answers)
    /\ UNCHANGED <<programVars, ran, wire, sent, personality>>

StatusLine ==
    /\ pc \in {"readt", "readb"}
    /\ answers # <<>>
    /\ Head(answers) = (IF pc = "readt" THEN "t" ELSE "b")
    /\ answers' = Tail(answers)
    /\ StatusDone
    /\ UNCHANGED <<ran, wire, sent, personality>>

\* What follows a version() that returned.
AfterVersion == [verify |-> "save", diagnostics |-> "reopen", led |-> "write", flash |-> "begin"]

\* The version line, or as much of it as the first read() returned: the loop
\* matches every piece of the buffer, the unfinished last one included.  A
\* piece without the radio's name makes version() raise; one that is cut off
\* after it is taken for the whole line.
VersionLine ==
    /\ pc = "readV"
    /\ answers # <<>>
    /\ Head(answers) = "V"
    /\ answers' = Tail(answers)
    /\ UNCHANGED <<ran, wire, sent, personality>>
    /\ \/ AttemptFails
       \/ /\ kind[served] = "led"       \* the firmware has no LED command
          /\ End("failed")
          /\ UNCHANGED <<kind, served, attempt, begun>>
       \/ /\ begun' = (kind[served] = "led")
          /\ pc' = AfterVersion[kind[served]]
          /\ UNCHANGED <<kind, result, served, attempt>>

\* begin_uncertain_transition(): the flag is set only after it returned.
BeginTransition ==
    /\ pc = "begin"
    /\ begun' = TRUE
    /\ pc' = "write"
    /\ UNCHANGED <<kind, result, served, attempt, radioVars>>

BeginFails ==
    /\ pc = "begin"
    /\ AttemptFails
    /\ UNCHANGED radioVars

ChangingCommand == IF kind[served] = "led" THEN "l0x" ELSE "B01"

\* set_led() and enter_bootloader() up to tcdrain().
WriteCommand ==
    /\ pc = "write"
    /\ personality = "application"
    /\ Put(ChangingCommand, TRUE)
    /\ pc' = "drain"
    /\ UNCHANGED <<kind, result, served, attempt, begun>>

WriteFails ==
    /\ pc = "write"
    /\ PutFails(ChangingCommand)
    /\ AttemptFails

\* Fault variant of Drained: nothing waits for the kernel.
DrainedUnsent ==
    /\ pc = "drain"
    /\ IF kind[served] = "led" THEN pc' = "save" /\ UNCHANGED result ELSE End("ok")
    /\ UNCHANGED <<kind, served, attempt, begun, radioVars>>

\* tcdrain() returned.  A flash goes on with the bootloader, the LED request
\* with saving what it learnt.
Drained ==
    /\ pc = "drain"
    /\ sent' = Len(wire)
    /\ IF kind[served] = "led" THEN pc' = "save" /\ UNCHANGED result ELSE End("ok")
    /\ UNCHANGED <<kind, served, attempt, begun, ran, wire, answers, personality>>

\* tcdrain() raised.  EIO and ENODEV are the disconnect B01 is meant to cause.
DrainFails ==
    /\ pc = "drain"
    /\ \/ AttemptFails
       \/ /\ kind[served] = "flash"
          /\ End("ok")
          /\ UNCHANGED <<kind, served, attempt, begun>>
    /\ UNCHANGED radioVars

\* state.save() after the session.
Save ==
    /\ pc = "save"
    /\ \E outcome \in {"ok", "unsaved"} : End(outcome)
    /\ UNCHANGED <<kind, served, attempt, begun, radioVars>>

Terminated == pc = "idle" /\ served = MaxRequests /\ UNCHANGED vars

ProgramStep ==
    \/ Open \/ OpenFails \/ Ask \/ AskFails \/ NoAnswer \/ SkipLine \/ StatusLine
    \/ VersionLine \/ BeginTransition \/ BeginFails \/ WriteCommand \/ WriteFails
    \/ Drained \/ DrainFails \/ Save

Next ==
    \/ \E k \in Kinds : Start(k)
    \/ ProgramStep
    \/ ReadsLine
    \/ Returns
    \/ Terminated

\* The worker keeps running and every wait of a session has a deadline; the
\* radio owes nothing.
Spec == Init /\ [][Next]_vars /\ WF_vars(ProgramStep)
----------------------------------------------------------------------------
(* Properties                                                              *)

\* No request makes the radio carry out its changing command twice, however
\* many of its attempts fail and whatever the kernel and the radio still hold
\* from them: retrying stops before set_led() and enter_bootloader().
AtMostOnce == \A n \in 1..MaxRequests : ran[n] <= 1

OnTheWire(n) == \E i \in 1..Len(wire) : wire[i].of = n /\ wire[i].name \in Changing

\* "CUL868 did not provide a valid V response before the LED command" and
\* "could not verify the selected CUL868" are true: after a request that
\* failed so, its command has not been carried out and never will be.
CleanFailure ==
    \A n \in 1..MaxRequests : result[n] = "failed" => ran[n] = 0 /\ ~OnTheWire(n)

\* An LED request that succeeded was carried out, or the radio has the whole
\* command and no flush of a later session can take it back - unless a B01
\* that was already on its way came first and took the application away.
SuccessReachedTheRadio ==
    \A n \in 1..MaxRequests :
        kind[n] = "led" /\ result[n] \in {"ok", "unsaved"} =>
            \/ ran[n] = 1
            \/ \E m \in 1..(n - 1) : kind[m] = "flash" /\ ran[m] = 1
            \/ \E i \in 1..sent : wire[i].of = n /\ wire[i].name = "l0x" /\ wire[i].whole

\* Every request ends: each wait in a session has a deadline and the failed
\* attempts are counted.
RequestEnds == pc = "open" ~> pc = "idle"
=============================================================================
