------------------------- MODULE SerialSession_proofs -------------------------
(***************************************************************************)
(* Proofs about SerialSession for any number of attempts and requests.     *)
(*                                                                         *)
(* The commands on the wire are the reason retries are safe: every command *)
(* belongs to a request that was taken, in the order of the requests, and  *)
(* a changing one stands there only once its request has stopped retrying. *)
(***************************************************************************)
EXTENDS SerialSession, SequenceTheorems, TLAPS

Requests == 1..MaxRequests

\* Where on the wire request n's changing command is.
Pending(n) == {i \in 1..Len(wire) : wire[i].of = n /\ wire[i].name \in Changing}

Untouched(n) == ran[n] = 0 /\ Pending(n) = {}

\* The program counter, the flag and the requests taken so far.
Control ==
    /\ pc # "idle" => served \in Requests /\ kind[served] \in Kinds
    /\ pc = "begin" => kind[served] = "flash"
    /\ pc \in {"reopen", "askt", "readt", "askb", "readb"} => kind[served] = "diagnostics"
    /\ pc \in {"write", "drain"} => begun /\ kind[served] \in {"led", "flash"}
    /\ pc # "idle" => result[served] = "none"
    /\ \A n \in Requests : n > served => result[n] = "none"

\* The commands on the wire: in the order of their requests, of the right
\* kind, and no whole changing command behind an unfinished one, since the
\* answered V between them was whole.
Belongs ==
    \A i \in 1..Len(wire) :
        /\ wire[i].of <= served
        /\ wire[i].name = "l0x" => kind[wire[i].of] = "led"
        /\ wire[i].name = "B01" => kind[wire[i].of] = "flash"

Ordered == \A i, j \in 1..Len(wire) : i < j => wire[i].of <= wire[j].of

Behind ==
    \A i \in 2..Len(wire) : wire[i].name \in Changing /\ wire[i].whole => wire[i - 1].whole

LastWhole == Len(wire) > 0 => wire[Len(wire)].whole

Wire ==
    /\ Belongs /\ Ordered /\ Behind
    /\ pc \in {"readV", "begin", "write"} => LastWhole

\* A changing command is on the wire or carried out, and only once.
Once ==
    \A n \in Requests :
        /\ ran[n] \in {0, 1}
        /\ \A i, j \in Pending(n) : i = j
        /\ Pending(n) # {} => ran[n] = 0

\* Requests that have not written their changing command.
Fresh ==
    /\ \A n \in Requests : n > served => Untouched(n)
    /\ pc \notin {"idle", "drain", "save"} => Untouched(served)
    /\ \A n \in Requests : result[n] = "failed" => Untouched(n)

\* While the radio is a bootloader, what is on the wire was written by the
\* request that sent it there or a later one.
Gone ==
    personality = "bootloader" =>
        \E m \in 1..served :
            /\ kind[m] = "flash" /\ ran[m] = 1
            /\ \A i \in 1..Len(wire) : wire[i].of >= m

\* Request n's LED command was carried out, or overtaken by a B01, or is one
\* of the first l commands on the wire.
Reached(n, l) ==
    \/ ran[n] = 1
    \/ \E m \in 1..(n - 1) : kind[m] = "flash" /\ ran[m] = 1
    \/ \E i \in 1..l : wire[i].of = n /\ wire[i].name = "l0x" /\ wire[i].whole

Delivered ==
    /\ \A n \in Requests :
           kind[n] = "led" /\ result[n] \in {"ok", "unsaved"} => Reached(n, sent)
    /\ pc # "idle" /\ kind[served] = "led" =>
           /\ pc = "save" => Reached(served, sent)
           /\ pc = "drain" => Reached(served, Len(wire))

IInv == TypeOK /\ Control /\ Wire /\ Once /\ Fresh /\ Gone /\ Delivered

----------------------------------------------------------------------------
(* The wire                                                                *)

\* Append adds one command behind the others.
LEMMA PutIs ==
    ASSUME NEW s \in Seq(Command), NEW c \in Command
    PROVE  /\ Append(s, c) \in Seq(Command)
           /\ Len(Append(s, c)) = Len(s) + 1
           /\ \A i \in 1..Len(s) : Append(s, c)[i] = s[i]
           /\ Append(s, c)[Len(s) + 1] = c
  OBVIOUS

\* A flush leaves the first commands.
LEMMA PrefixIs ==
    ASSUME NEW s \in Seq(Command), NEW n \in 0..Len(s)
    PROVE  /\ SubSeq(s, 1, n) \in Seq(Command)
           /\ Len(SubSeq(s, 1, n)) = n
           /\ \A i \in 1..n : SubSeq(s, 1, n)[i] = s[i]
  OBVIOUS

\* Reading a line leaves the commands behind it.
LEMMA SuffixIs ==
    ASSUME NEW s \in Seq(Command), NEW n \in 1..Len(s)
    PROVE  /\ SubSeq(s, n + 1, Len(s)) \in Seq(Command)
           /\ Len(SubSeq(s, n + 1, Len(s))) = Len(s) - n
           /\ \A i \in 1..(Len(s) - n) : SubSeq(s, n + 1, Len(s))[i] = s[n + i]
  OBVIOUS

\* What a whole or an unfinished write does to the wire.
WirePut(name, whole) ==
    /\ wire' \in Seq(Command)
    /\ Len(wire') = Len(wire) + 1
    /\ \A i \in 1..Len(wire) : wire'[i] = wire[i]
    /\ wire'[Len(wire) + 1] = [name |-> name, of |-> served, whole |-> whole]
    /\ UNCHANGED <<ran, sent, answers, personality>>

LEMMA PutWire ==
    ASSUME TypeOK, Control, pc # "idle", NEW x \in Names, NEW w \in BOOLEAN, Put(x, w)
    PROVE  WirePut(x, w)
<1>1. [name |-> x, of |-> served, whole |-> w] \in Command
  BY DEF Control, Requests, Command
<1>2. wire \in Seq(Command)
  BY DEF TypeOK
<1>3. QED
  BY <1>1, <1>2, PutIs DEF Put, WirePut

\* What reading a line of k commands does to the wire.
WireRead(k) ==
    /\ k \in 1..Len(wire) /\ wire[k].whole /\ \A i \in 1..(k - 1) : ~wire[i].whole
    /\ wire' \in Seq(Command)
    /\ Len(wire') = Len(wire) - k
    /\ \A i \in 1..Len(wire') : wire'[i] = wire[k + i]
    /\ sent' = IF sent > k THEN sent - k ELSE 0
    /\ \/ /\ wire[1].name \in Changing
          /\ ran' = [ran EXCEPT ![wire[1].of] = @ + 1]
          /\ personality' = IF wire[1].name = "B01" THEN "bootloader" ELSE personality
          /\ UNCHANGED answers
       \/ /\ wire[1].name \notin Changing
          /\ answers' = Append(answers, wire[1].name)
          /\ UNCHANGED <<ran, personality>>
       \/ /\ ~wire[1].whole \/ wire[1].name \notin Changing
          /\ UNCHANGED <<ran, answers, personality>>

LEMMA ReadWire == TypeOK /\ ReadsLine => \E k \in 1..Len(wire) : WireRead(k)
<1> SUFFICES ASSUME TypeOK, ReadsLine
             PROVE  \E k \in 1..Len(wire) : WireRead(k)
  OBVIOUS
<1>1. wire \in Seq(Command)
  BY DEF TypeOK
<1>2. PICK k \in 1..Len(wire) :
          /\ wire[k].whole
          /\ \A i \in 1..(k - 1) : ~wire[i].whole
          /\ wire' = SubSeq(wire, k + 1, Len(wire))
          /\ sent' = IF sent > k THEN sent - k ELSE 0
          /\ \/ /\ wire[1].name \in Changing
                /\ ran' = [ran EXCEPT ![wire[1].of] = @ + 1]
                /\ personality' = IF wire[1].name = "B01" THEN "bootloader" ELSE personality
                /\ UNCHANGED answers
             \/ /\ wire[1].name \notin Changing
                /\ answers' = Append(answers, wire[1].name)
                /\ UNCHANGED <<ran, personality>>
             \/ /\ ~wire[1].whole \/ wire[1].name \notin Changing
                /\ UNCHANGED <<ran, answers, personality>>
  BY DEF ReadsLine
<1>3. /\ wire' \in Seq(Command)
      /\ Len(wire') = Len(wire) - k
      /\ \A i \in 1..(Len(wire) - k) : wire'[i] = wire[k + i]
  BY <1>1, <1>2, SuffixIs
<1>4. QED
  BY <1>2, <1>3 DEF WireRead

LEMMA AnswerIs ==
    ASSUME NEW S, NEW s \in Seq(S), NEW x \in S
    PROVE  Append(s, x) \in Seq(S)
  OBVIOUS

\* What opening a session leaves of the wire.
LEMMA FlushWire ==
    ASSUME TypeOK, Flush
    PROVE  /\ wire' \in Seq(Command) /\ answers' \in Seq({"V", "t", "b"})
           /\ Len(wire') \in sent..Len(wire) /\ sent' = Len(wire')
           /\ \A i \in 1..Len(wire') : wire'[i] = wire[i]
<1>1. wire \in Seq(Command) /\ sent \in 0..Len(wire) /\ answers \in Seq({"V", "t", "b"})
  BY DEF TypeOK
<1>2. PICK n \in sent..Len(wire) : wire' = SubSeq(wire, 1, n) /\ sent' = n
  BY DEF Flush
<1>3. \A m \in 0..Len(answers) : SubSeq(answers, m + 1, Len(answers)) \in Seq({"V", "t", "b"})
  BY <1>1
<1>4. n \in 0..Len(wire)
  BY <1>1
<1>5. QED
  BY <1>1, <1>2, <1>3, <1>4, PrefixIs DEF Flush

LEMMA InitHolds == Init => IInv
<1> SUFFICES ASSUME Init
             PROVE  IInv
  OBVIOUS
<1>1. TypeOK
  <2>1. wire \in Seq(Command) /\ sent \in 0..Len(wire) /\ answers \in Seq({"V", "t", "b"})
    BY DEF Init
  <2>2. kind \in [1..MaxRequests -> Kinds \cup {"none"}] /\ result \in [1..MaxRequests -> Results]
    BY DEF Init, Results
  <2>3. ran \in [1..MaxRequests -> Nat] /\ served \in 0..MaxRequests
    BY MaxRequestsAssumption DEF Init
  <2>4. pc \in Pcs /\ attempt \in 1..Attempts
    BY AttemptsAssumption DEF Init, Pcs
  <2>5. QED
    BY <2>1, <2>2, <2>3, <2>4 DEF Init, TypeOK
<1>2. Len(wire) = 0
  BY DEF Init
<1>3. Control /\ Wire /\ Gone
  <2>1. Control
    BY DEF Init, Control, Requests
  <2>2. Wire /\ Gone
    BY <1>2 DEF Init, Wire, Belongs, Ordered, Behind, LastWhole, Gone
  <2>3. QED
    BY <2>1, <2>2
<1>4. Once /\ Fresh
  BY <1>2 DEF Init, Once, Fresh, Untouched, Pending, Requests
<1>5. Delivered
  BY DEF Init, Delivered, Requests
<1>6. QED
  BY <1>1, <1>3, <1>4, <1>5 DEF IInv

LEMMA TypeStep == TypeOK /\ Control /\ [Next]_vars => TypeOK'
<1> SUFFICES ASSUME TypeOK /\ Control, [Next]_vars
             PROVE  TypeOK'
  OBVIOUS
<1> USE MaxRequestsAssumption, AttemptsAssumption DEF TypeOK, Requests, Kinds, Pcs, Results
<1>1. ASSUME NEW k \in Kinds, Start(k)
      PROVE  TypeOK'
  <2>1. kind' \in [1..MaxRequests -> Kinds \cup {"none"}] /\ served' \in 0..MaxRequests
    BY <1>1 DEF Start
  <2>2. pc' = "open" /\ attempt' = 1 /\ begun' \in BOOLEAN /\ UNCHANGED result
    BY <1>1 DEF Start
  <2>3. UNCHANGED <<ran, wire, sent, answers, personality>>
    BY <1>1 DEF Start, radioVars
  <2>4. QED
    BY <2>1, <2>2, <2>3
<1>2. CASE Open
  BY <1>2, FlushWire DEF Open, programVars, radioVars
<1>3. CASE OpenFails
  <2>1. served \in 1..MaxRequests /\ UNCHANGED <<kind, served, begun, radioVars>>
    BY <1>3 DEF OpenFails, AttemptFails, End, Control
  <2>2. result' \in [1..MaxRequests -> Results] /\ pc' \in Pcs /\ attempt' \in 1..Attempts
    BY <1>3, <2>1, SMTT(30) DEF OpenFails, AttemptFails, End
  <2>3. QED
    BY <2>1, <2>2 DEF radioVars
<1>4. CASE Ask
  <2>1. Question[pc] \in Names /\ Reader[pc] \in Pcs
    BY <1>4 DEF Ask, Question, Reader, Names
  <2>2. WirePut(Question[pc], TRUE)
    BY <1>4, <2>1, PutWire DEF Ask
  <2>3. QED
    BY <1>4, <2>1, <2>2 DEF Ask, WirePut, programVars, radioVars
<1>5. CASE AskFails
  <2>1. wire' \in Seq(Command) /\ sent' \in 0..Len(wire') /\ UNCHANGED <<ran, answers, personality>>
    <3>1. Question[pc] \in Names /\ pc # "idle"
      BY <1>5 DEF AskFails, Question, Names
    <3>2. CASE Put(Question[pc], FALSE)
      <4>1. WirePut(Question[pc], FALSE)
        BY <3>1, <3>2, PutWire
      <4>2. QED
        BY <4>1 DEF WirePut
    <3>3. CASE UNCHANGED radioVars
      BY <3>3 DEF radioVars
    <3>4. QED
      BY <1>5, <3>2, <3>3 DEF AskFails, PutFails
  <2>2. /\ kind' \in [1..MaxRequests -> Kinds \cup {"none"}] /\ served' \in 0..MaxRequests
        /\ result' \in [1..MaxRequests -> Results]
    BY <1>5 DEF AskFails, AttemptFails, End, StatusDone, AfterStatus
  <2>3. pc' \in Pcs /\ attempt' \in 1..Attempts /\ begun' \in BOOLEAN
    BY <1>5 DEF AskFails, AttemptFails, End, StatusDone, AfterStatus
  <2>4. QED
    BY <2>1, <2>2, <2>3
<1>6. CASE NoAnswer
  BY <1>6, SMTT(30) DEF NoAnswer, AttemptFails, End, StatusDone, AfterStatus, programVars,
     radioVars
<1>7. CASE SkipLine
  BY <1>7 DEF SkipLine, programVars, radioVars
<1>8. CASE StatusLine
  BY <1>8 DEF StatusLine, StatusDone, AfterStatus, programVars, radioVars
<1>9. CASE VersionLine
  <2>0. AfterVersion[kind[served]] \in Pcs
    BY <1>9 DEF VersionLine, AfterVersion, Control, Kinds
  <2>1. answers' \in Seq({"V", "t", "b"}) /\ UNCHANGED <<ran, wire, sent, personality>>
    BY <1>9 DEF VersionLine
  <2>2. /\ kind' \in [1..MaxRequests -> Kinds \cup {"none"}] /\ served' \in 0..MaxRequests
        /\ result' \in [1..MaxRequests -> Results]
    BY <1>9 DEF VersionLine, AttemptFails, End
  <2>3. pc' \in Pcs /\ attempt' \in 1..Attempts /\ begun' \in BOOLEAN
    <3>1. CASE AttemptFails
      BY <1>9, <3>1 DEF VersionLine, AttemptFails, End
    <3>2. CASE ~AttemptFails
      <4>1. \/ pc' = "idle" /\ UNCHANGED <<attempt, begun>>
            \/ begun' = (kind[served] = "led") /\ pc' = AfterVersion[kind[served]] /\ UNCHANGED attempt
        BY <1>9, <3>2 DEF VersionLine, End
      <4>2. begun' \in BOOLEAN
        BY <4>1
      <4>3. QED
        BY <2>0, <4>1, <4>2
    <3>3. QED
      BY <3>1, <3>2
  <2>4. QED
    BY <2>1, <2>2, <2>3
<1>10. CASE BeginTransition
  BY <1>10 DEF BeginTransition, programVars, radioVars
<1>11. CASE BeginFails
  BY <1>11, SMTT(30) DEF BeginFails, AttemptFails, End, programVars, radioVars
<1>12. CASE WriteCommand
  <2>1. ChangingCommand \in Names
    BY DEF ChangingCommand, Names, Changing
  <2>2. WirePut(ChangingCommand, TRUE)
    BY <1>12, <2>1, PutWire DEF WriteCommand
  <2>3. QED
    BY <1>12, <2>2 DEF WriteCommand, WirePut, programVars, radioVars
<1>13. CASE WriteFails
  <2>1. wire' \in Seq(Command) /\ sent' \in 0..Len(wire') /\ UNCHANGED <<ran, answers, personality>>
    <3>1. ChangingCommand \in Names /\ pc # "idle"
      BY <1>13 DEF WriteFails, ChangingCommand, Names, Changing
    <3>2. CASE Put(ChangingCommand, FALSE)
      <4>1. WirePut(ChangingCommand, FALSE)
        BY <3>1, <3>2, PutWire
      <4>2. QED
        BY <4>1 DEF WirePut
    <3>3. CASE UNCHANGED radioVars
      BY <3>3 DEF radioVars
    <3>4. QED
      BY <1>13, <3>2, <3>3 DEF WriteFails, PutFails
  <2>2. /\ kind' \in [1..MaxRequests -> Kinds \cup {"none"}] /\ served' \in 0..MaxRequests
        /\ result' \in [1..MaxRequests -> Results]
    BY <1>13 DEF WriteFails, AttemptFails, End
  <2>3. pc' \in Pcs /\ attempt' \in 1..Attempts /\ begun' \in BOOLEAN
    BY <1>13 DEF WriteFails, AttemptFails, End
  <2>4. QED
    BY <2>1, <2>2, <2>3
<1>14. CASE Drained
  BY <1>14 DEF Drained, End, programVars, radioVars
<1>15. CASE DrainFails
  BY <1>15 DEF DrainFails, AttemptFails, End, programVars, radioVars
<1>16. CASE Save
  BY <1>16 DEF Save, End, programVars, radioVars
<1>17. CASE ReadsLine
  <2>1. PICK k \in 1..Len(wire) : WireRead(k)
    BY <1>17, ReadWire
  <2>2. wire[1] \in Command
    BY <2>1
  <2>3. answers' \in Seq({"V", "t", "b"})
    <3>1. CASE wire[1].name \notin Changing /\ answers' = Append(answers, wire[1].name)
      <4>1. wire[1].name \in {"V", "t", "b"}
        BY <2>2, <3>1 DEF Command, Names
      <4>2. answers \in Seq({"V", "t", "b"})
        OBVIOUS
      <4>3. QED
        BY <3>1, <4>1, <4>2, AnswerIs
    <3>2. CASE answers' = answers
      BY <3>2
    <3>3. \/ wire[1].name \notin Changing /\ answers' = Append(answers, wire[1].name)
          \/ answers' = answers
      BY <2>1 DEF WireRead
    <3>4. QED
      BY <3>1, <3>2, <3>3
  <2>4. ran' \in [1..MaxRequests -> Nat]
    <3>1. CASE ran' = [ran EXCEPT ![wire[1].of] = ran[wire[1].of] + 1]
      <4>1. wire[1].of \in 1..MaxRequests
        BY <2>2 DEF Command
      <4>2. QED
        BY <3>1, <4>1
    <3>2. CASE ran' = ran
      BY <3>2
    <3>3. ran' = [ran EXCEPT ![wire[1].of] = ran[wire[1].of] + 1] \/ ran' = ran
      BY <2>1 DEF WireRead
    <3>4. QED
      BY <3>1, <3>2, <3>3
  <2>5. sent' \in 0..Len(wire') /\ wire' \in Seq(Command)
    BY <2>1 DEF WireRead
  <2>6. personality' \in {"application", "bootloader"}
    BY <2>1 DEF WireRead
  <2>7. QED
    BY <1>17, <2>3, <2>4, <2>5, <2>6 DEF ReadsLine, programVars
<1>18. CASE Returns
  BY <1>18 DEF Returns, programVars, radioVars
<1>19. CASE UNCHANGED vars
  BY <1>19 DEF vars, programVars, radioVars
<1>20. QED
  BY <1>1, <1>2, <1>3, <1>4, <1>5, <1>6, <1>7, <1>8, <1>9, <1>10, <1>11, <1>12,
     <1>13, <1>14, <1>15, <1>16, <1>17, <1>18, <1>19 DEF Next, ProgramStep,
     Terminated

LEMMA ControlStep == TypeOK /\ Control /\ [Next]_vars => Control'
<1> SUFFICES ASSUME TypeOK /\ Control, [Next]_vars
             PROVE  Control'
  OBVIOUS
<1> USE MaxRequestsAssumption DEF TypeOK, Control, Requests, Kinds
<1>1. ASSUME NEW k \in Kinds, Start(k)
      PROVE  Control'
  BY <1>1 DEF Start, programVars, radioVars
<1>2. CASE Open
  BY <1>2 DEF Open, Flush, programVars, radioVars
<1>3. CASE OpenFails
  BY <1>3, SMTT(30) DEF OpenFails, AttemptFails, End, programVars, radioVars
<1>4. CASE Ask
  BY <1>4 DEF Ask, Put, Question, Reader, programVars, radioVars
<1>5. CASE AskFails
  BY <1>5, SMTT(30) DEF AskFails, PutFails, Put, Question, AttemptFails, End, StatusDone,
     AfterStatus, programVars, radioVars
<1>6. CASE NoAnswer
  BY <1>6 DEF NoAnswer, AttemptFails, End, StatusDone, AfterStatus, programVars,
     radioVars
<1>7. CASE SkipLine
  BY <1>7 DEF SkipLine, programVars, radioVars
<1>8. CASE StatusLine
  BY <1>8 DEF StatusLine, StatusDone, AfterStatus, programVars, radioVars
<1>9. CASE VersionLine
  <2>1. CASE AttemptFails
    BY <1>9, <2>1, SMTT(30) DEF VersionLine, AttemptFails, End
  <2>2. CASE End("failed") /\ UNCHANGED <<kind, served, attempt, begun>>
    BY <1>9, <2>2 DEF VersionLine, End
  <2>3. CASE begun' = (kind[served] = "led") /\ pc' = AfterVersion[kind[served]]
             /\ UNCHANGED <<kind, result, served, attempt>>
    <3>1. CASE kind[served] = "led"
      <4>1. begun'
        BY <2>3, <3>1
      <4>2. pc' = "write" /\ UNCHANGED <<kind, result, served>>
        BY <2>3, <3>1 DEF AfterVersion
      <4>3. QED
        BY <3>1, <4>1, <4>2, <1>9 DEF VersionLine
    <3>2. CASE kind[served] \in {"verify", "diagnostics", "flash"}
      BY <1>9, <2>3, <3>2 DEF VersionLine, AfterVersion
    <3>3. QED
      BY <1>9, <3>1, <3>2 DEF VersionLine
  <2>4. QED
    BY <1>9, <2>1, <2>2, <2>3 DEF VersionLine
<1>10. CASE BeginTransition
  BY <1>10 DEF BeginTransition, programVars, radioVars
<1>11. CASE BeginFails
  BY <1>11 DEF BeginFails, AttemptFails, End, programVars, radioVars
<1>12. CASE WriteCommand
  BY <1>12 DEF WriteCommand, Put, ChangingCommand, programVars, radioVars
<1>13. CASE WriteFails
  BY <1>13 DEF WriteFails, PutFails, Put, ChangingCommand, AttemptFails, End,
     programVars, radioVars
<1>14. CASE Drained
  BY <1>14 DEF Drained, End, programVars, radioVars
<1>15. CASE DrainFails
  <2>1. CASE AttemptFails
    <3>1. End("ambiguous") /\ UNCHANGED <<kind, served>>
      BY <1>15, <2>1 DEF DrainFails, AttemptFails
    <3>2. QED
      BY <3>1 DEF End
  <2>2. CASE End("ok") /\ UNCHANGED <<kind, served, attempt, begun>>
    BY <2>2 DEF End
  <2>3. QED
    BY <1>15, <2>1, <2>2 DEF DrainFails
<1>16. CASE Save
  BY <1>16 DEF Save, End, programVars, radioVars
<1>17. CASE ReadsLine
  BY <1>17 DEF ReadsLine, programVars, radioVars
<1>18. CASE Returns
  BY <1>18 DEF Returns, programVars, radioVars
<1>19. CASE UNCHANGED vars
  BY <1>19 DEF vars, programVars, radioVars
<1>20. QED
  BY <1>1, <1>2, <1>3, <1>4, <1>5, <1>6, <1>7, <1>8, <1>9, <1>10, <1>11, <1>12,
     <1>13, <1>14, <1>15, <1>16, <1>17, <1>18, <1>19 DEF Next, ProgramStep,
     Terminated

\* A command written behind the others leaves the wire in order.
LEMMA PutInOrder ==
    ASSUME TypeOK, Control, Wire, pc # "idle", UNCHANGED <<kind, served>>,
           NEW x \in Names, NEW w \in BOOLEAN, WirePut(x, w),
           x = "l0x" => kind[served] = "led",
           x = "B01" => kind[served] = "flash"
    PROVE  /\ Belongs' /\ Ordered' /\ (w => LastWhole')
           /\ x \notin Changing \/ ~w \/ LastWhole => Behind'
<1>1. wire \in Seq(Command) /\ Len(wire) \in Nat /\ served \in Nat
  BY DEF TypeOK
<1>2. /\ Len(wire') = Len(wire) + 1
      /\ \A i \in 1..Len(wire) : wire'[i] = wire[i]
      /\ wire'[Len(wire) + 1].name = x /\ wire'[Len(wire) + 1].of = served
      /\ wire'[Len(wire) + 1].whole = w
  BY DEF WirePut
<1>3. \A i \in 1..Len(wire') : i \in 1..Len(wire) \/ i = Len(wire) + 1
  BY <1>1, <1>2
<1>4. \A i \in 1..Len(wire) : wire[i].of <= served
  BY DEF Wire, Belongs
<1>5. Belongs'
  <2> SUFFICES ASSUME NEW i \in 1..Len(wire')
               PROVE  /\ wire'[i].of <= served
                      /\ wire'[i].name = "l0x" => kind[wire'[i].of] = "led"
                      /\ wire'[i].name = "B01" => kind[wire'[i].of] = "flash"
    BY DEF Belongs
  <2>1. CASE i \in 1..Len(wire)
    BY <1>2, <2>1 DEF Wire, Belongs
  <2>2. CASE i = Len(wire) + 1
    BY <1>1, <1>2, <2>2
  <2>3. QED
    BY <1>3, <2>1, <2>2
<1>6. Ordered'
  <2> SUFFICES ASSUME NEW i \in 1..Len(wire'), NEW j \in 1..Len(wire'), i < j
               PROVE  wire'[i].of <= wire'[j].of
    BY DEF Ordered
  <2>1. i \in 1..Len(wire)
    BY <1>1, <1>2
  <2>2. CASE j \in 1..Len(wire)
    BY <1>2, <2>1, <2>2 DEF Wire, Ordered
  <2>3. CASE j = Len(wire) + 1
    BY <1>2, <1>4, <2>1, <2>3
  <2>4. QED
    BY <1>3, <2>2, <2>3
<1>7. w => LastWhole'
  BY <1>1, <1>2 DEF LastWhole
<1>8. ASSUME x \notin Changing \/ ~w \/ LastWhole
      PROVE  Behind'
  <2> SUFFICES ASSUME NEW i \in 2..Len(wire'), wire'[i].name \in Changing, wire'[i].whole
               PROVE  wire'[i - 1].whole
    BY DEF Behind
  <2>1. i - 1 \in 1..Len(wire) /\ wire'[i - 1] = wire[i - 1]
    BY <1>1, <1>2
  <2>2. CASE i \in 2..Len(wire)
    BY <1>1, <1>2, <2>1, <2>2 DEF Wire, Behind
  <2>3. CASE i = Len(wire) + 1
    <3>1. LastWhole
      BY <1>2, <1>8, <2>3
    <3>2. i - 1 = Len(wire) /\ Len(wire) > 0
      BY <1>1, <2>1, <2>3
    <3>3. QED
      BY <2>1, <3>1, <3>2 DEF LastWhole
  <2>4. QED
    BY <1>1, <1>2, <2>2, <2>3
<1>9. QED
  BY <1>5, <1>6, <1>7, <1>8

\* So does reading a line, and so does every cut at the end.
LEMMA ReadInOrder ==
    ASSUME TypeOK, Wire, NEW k \in 1..Len(wire), WireRead(k), UNCHANGED <<kind, served>>
    PROVE  Belongs' /\ Ordered' /\ Behind' /\ (LastWhole => LastWhole')
<1>1. wire \in Seq(Command) /\ Len(wire) \in Nat
  BY DEF TypeOK
<1>2. Len(wire') = Len(wire) - k /\ \A i \in 1..Len(wire') : wire'[i] = wire[k + i]
  BY DEF WireRead
<1>3. \A i \in 1..Len(wire') : k + i \in 1..Len(wire)
  BY <1>1, <1>2
<1>4. Belongs'
  BY <1>2, <1>3 DEF Wire, Belongs
<1>5. Ordered'
  <2> SUFFICES ASSUME NEW i \in 1..Len(wire'), NEW j \in 1..Len(wire'), i < j
               PROVE  wire'[i].of <= wire'[j].of
    BY DEF Ordered
  <2>1. k + i < k + j
    BY <1>1, <1>2
  <2>2. QED
    BY <1>2, <1>3, <2>1 DEF Wire, Ordered
<1>6. Behind'
  <2> SUFFICES ASSUME NEW i \in 2..Len(wire'), wire'[i].name \in Changing, wire'[i].whole
               PROVE  wire'[i - 1].whole
    BY DEF Behind
  <2>1. k + i \in 2..Len(wire) /\ i \in 1..Len(wire') /\ i - 1 \in 1..Len(wire')
    BY <1>1, <1>2
  <2>2. wire'[i] = wire[k + i] /\ wire'[i - 1] = wire[(k + i) - 1]
    BY <1>1, <1>2, <2>1
  <2>3. QED
    BY <2>1, <2>2 DEF Wire, Behind
<1>7. LastWhole => LastWhole'
  BY <1>1, <1>2, <1>3 DEF LastWhole
<1>8. QED
  BY <1>4, <1>5, <1>6, <1>7

LEMMA WireStep == TypeOK /\ Control /\ Wire /\ [Next]_vars => Wire'
<1> SUFFICES ASSUME TypeOK /\ Control /\ Wire, [Next]_vars
             PROVE  Wire'
  OBVIOUS
<1> USE MaxRequestsAssumption DEF Wire
<1>1. ASSUME NEW k \in Kinds, Start(k)
      PROVE  Wire'
  <2>0. \A i \in 1..Len(wire) : wire[i].of \in Requests
    <3>1. \A i \in 1..Len(wire) : wire[i] \in Command
      BY DEF TypeOK
    <3>2. QED
      BY <3>1 DEF Command, Requests
  <2>1. \A i \in 1..Len(wire) : kind'[wire[i].of] = kind[wire[i].of]
    <3>1. \A i \in 1..Len(wire) : wire[i].of <= served
      BY DEF Wire, Belongs
    <3>2. QED
      BY <1>1, <2>0, <3>1 DEF Start, TypeOK, Requests
  <2>2. wire' = wire /\ served' = served + 1 /\ pc' = "open"
    BY <1>1 DEF Start, radioVars
  <2>3. Belongs'
    <3>1. ASSUME NEW i \in 1..Len(wire)
          PROVE  wire[i].of <= served + 1
      BY <2>0 DEF Wire, Belongs, TypeOK, Requests
    <3>2. QED
      BY <2>1, <2>2, <3>1 DEF Wire, Belongs
  <2>4. QED
    BY <2>2, <2>3 DEF Ordered, Behind, Wire
<1>2. CASE Open
  <2>1. /\ Len(wire') \in 0..Len(wire)
        /\ \A i \in 1..Len(wire') : wire'[i] = wire[i]
    BY <1>2, FlushWire DEF Open, TypeOK
  <2>2. pc' \in {"askV", "askt"} /\ UNCHANGED <<kind, served>>
    BY <1>2 DEF Open
  <2>3. Len(wire) \in Nat
    BY DEF TypeOK
  <2>4. Belongs' /\ Ordered' /\ Behind'
    BY <2>1, <2>2, <2>3, SMTT(30) DEF Belongs, Ordered, Behind
  <2>5. QED
    BY <2>2, <2>4
<1>3. CASE OpenFails
  <2>1. UNCHANGED <<wire, kind, served>> /\ pc' \notin {"readV", "begin", "write"}
    BY <1>3 DEF OpenFails, AttemptFails, End, programVars, radioVars
  <2>2. QED
    BY <2>1 DEF Belongs, Ordered, Behind, LastWhole
<1>4. CASE Ask
  <2>1. Question[pc] \in Names /\ Question[pc] \notin Changing /\ pc # "idle"
    BY <1>4 DEF Ask, Question, Names, Changing
  <2>2. WirePut(Question[pc], TRUE)
    BY <1>4, <2>1, PutWire DEF Ask
  <2>3. UNCHANGED <<kind, served>>
    BY <1>4 DEF Ask
  <2>4. QED
    BY <2>1, <2>2, <2>3, PutInOrder DEF Changing
<1>5. CASE AskFails
  <2>1. Question[pc] \in Names /\ Question[pc] \notin Changing /\ pc # "idle"
    BY <1>5 DEF AskFails, Question, Names, Changing
  <2>2. UNCHANGED <<kind, served>> /\ pc' \notin {"readV", "begin", "write"}
    BY <1>5 DEF AskFails, AttemptFails, End, StatusDone, AfterStatus
  <2>3. CASE Put(Question[pc], FALSE)
    <3>1. WirePut(Question[pc], FALSE)
      BY <2>1, <2>3, PutWire
    <3>2. QED
      BY <2>1, <2>2, <3>1, PutInOrder DEF Changing
  <2>4. CASE UNCHANGED radioVars
    BY <2>2, <2>4 DEF radioVars, Belongs, Ordered, Behind
  <2>5. QED
    BY <1>5, <2>3, <2>4 DEF AskFails, PutFails
<1>6. CASE NoAnswer
  <2>1. UNCHANGED <<wire, kind, served>> /\ pc' \notin {"readV", "begin", "write"}
    BY <1>6 DEF NoAnswer, AttemptFails, End, StatusDone, AfterStatus, programVars,
       radioVars
  <2>2. QED
    BY <2>1 DEF Belongs, Ordered, Behind, LastWhole
<1>7. CASE SkipLine
  <2>1. UNCHANGED <<wire, kind, served>> /\ pc' = pc
    BY <1>7 DEF SkipLine, programVars, radioVars
  <2>2. QED
    BY <2>1 DEF Belongs, Ordered, Behind, LastWhole
<1>8. CASE StatusLine
  <2>1. UNCHANGED <<wire, kind, served>> /\ pc' \notin {"readV", "begin", "write"}
    BY <1>8 DEF StatusLine, StatusDone, AfterStatus, programVars, radioVars
  <2>2. QED
    BY <2>1 DEF Belongs, Ordered, Behind, LastWhole
<1>9. CASE VersionLine
  <2>1. UNCHANGED <<wire, kind, served>> /\ pc = "readV"
    BY <1>9 DEF VersionLine, AttemptFails, End, programVars, radioVars
  <2>2. QED
    BY <2>1 DEF Belongs, Ordered, Behind, LastWhole
<1>10. CASE BeginTransition
  <2>1. UNCHANGED <<wire, kind, served>> /\ pc = "begin"
    BY <1>10 DEF BeginTransition, programVars, radioVars
  <2>2. QED
    BY <2>1 DEF Belongs, Ordered, Behind, LastWhole
<1>11. CASE BeginFails
  <2>1. UNCHANGED <<wire, kind, served>> /\ pc' \notin {"readV", "begin", "write"}
    BY <1>11 DEF BeginFails, AttemptFails, End, programVars, radioVars
  <2>2. QED
    BY <2>1 DEF Belongs, Ordered, Behind, LastWhole
<1>12. CASE WriteCommand
  <2>1. /\ pc # "idle" /\ ChangingCommand \in Names
        /\ ChangingCommand = "l0x" => kind[served] = "led"
        /\ ChangingCommand = "B01" => kind[served] = "flash"
    BY <1>12 DEF WriteCommand, Control, ChangingCommand, Changing, Names
  <2>2. WirePut(ChangingCommand, TRUE)
    BY <1>12, <2>1, PutWire DEF WriteCommand
  <2>3. UNCHANGED <<kind, served>> /\ pc' = "drain" /\ pc = "write"
    BY <1>12 DEF WriteCommand
  <2>4. QED
    BY <2>1, <2>2, <2>3, PutInOrder
<1>13. CASE WriteFails
  <2>1. /\ pc # "idle" /\ ChangingCommand \in Names
        /\ ChangingCommand = "l0x" => kind[served] = "led"
        /\ ChangingCommand = "B01" => kind[served] = "flash"
    BY <1>13 DEF WriteFails, Control, ChangingCommand, Changing, Names
  <2>2. UNCHANGED <<kind, served>> /\ pc' \notin {"readV", "begin", "write"}
    BY <1>13 DEF WriteFails, AttemptFails, End
  <2>3. CASE Put(ChangingCommand, FALSE)
    <3>1. WirePut(ChangingCommand, FALSE)
      BY <2>1, <2>3, PutWire
    <3>2. QED
      BY <2>1, <2>2, <3>1, PutInOrder DEF Changing
  <2>4. CASE UNCHANGED radioVars
    BY <2>2, <2>4 DEF radioVars, Belongs, Ordered, Behind
  <2>5. QED
    BY <1>13, <2>3, <2>4 DEF WriteFails, PutFails
<1>14. CASE Drained
  <2>1. UNCHANGED <<wire, kind, served>> /\ pc' \notin {"readV", "begin", "write"}
    BY <1>14 DEF Drained, End, programVars, radioVars
  <2>2. QED
    BY <2>1 DEF Belongs, Ordered, Behind, LastWhole
<1>15. CASE DrainFails
  <2>1. UNCHANGED <<wire, kind, served>> /\ pc' \notin {"readV", "begin", "write"}
    BY <1>15 DEF DrainFails, AttemptFails, End, programVars, radioVars
  <2>2. QED
    BY <2>1 DEF Belongs, Ordered, Behind, LastWhole
<1>16. CASE Save
  <2>1. UNCHANGED <<wire, kind, served>> /\ pc' \notin {"readV", "begin", "write"}
    BY <1>16 DEF Save, End, programVars, radioVars
  <2>2. QED
    BY <2>1 DEF Belongs, Ordered, Behind, LastWhole
<1>17. CASE ReadsLine
  <2>1. PICK k \in 1..Len(wire) : WireRead(k)
    BY <1>17, ReadWire
  <2>2. UNCHANGED <<kind, served, pc>>
    BY <1>17 DEF ReadsLine, programVars
  <2>3. QED
    BY <2>1, <2>2, ReadInOrder
<1>18. CASE Returns
  <2>1. Len(wire') = 0 /\ pc' = "idle"
    BY <1>18 DEF Returns, programVars
  <2>2. QED
    BY <2>1 DEF Belongs, Ordered, Behind
<1>19. CASE UNCHANGED vars
  BY <1>19 DEF vars, Belongs, Ordered, Behind, LastWhole
<1>20. QED
  BY <1>1, <1>2, <1>3, <1>4, <1>5, <1>6, <1>7, <1>8, <1>9, <1>10, <1>11, <1>12,
     <1>13, <1>14, <1>15, <1>16, <1>17, <1>18, <1>19 DEF Next, ProgramStep,
     Terminated

----------------------------------------------------------------------------
(* At most once                                                            *)

\* Only the current request's changing command can come onto the wire.
LEMMA PutPending ==
    ASSUME TypeOK, NEW x \in Names, NEW w \in BOOLEAN, WirePut(x, w)
    PROVE  \A n \in Requests :
               /\ ran'[n] = ran[n]
               /\ n # served \/ x \notin Changing => Pending(n)' \subseteq Pending(n)
               /\ Pending(n)' \subseteq Pending(n) \cup {Len(wire) + 1}
<1> SUFFICES ASSUME NEW n \in Requests
             PROVE  /\ ran'[n] = ran[n]
                    /\ n # served \/ x \notin Changing => Pending(n)' \subseteq Pending(n)
                    /\ Pending(n)' \subseteq Pending(n) \cup {Len(wire) + 1}
  OBVIOUS
<1>1. Len(wire) \in Nat
  BY DEF TypeOK
<1>2. /\ Len(wire') = Len(wire) + 1 /\ ran' = ran
      /\ \A i \in 1..Len(wire) : wire'[i] = wire[i]
      /\ wire'[Len(wire) + 1].name = x /\ wire'[Len(wire) + 1].of = served
  BY DEF WirePut
<1>3. \A i \in 1..Len(wire') : i \in 1..Len(wire) \/ i = Len(wire) + 1
  BY <1>1, <1>2
<1>4. QED
  BY <1>2, <1>3 DEF Pending

\* Reading a line takes its first command off, and carries out only that one.
LEMMA ReadPending ==
    ASSUME TypeOK, NEW k \in 1..Len(wire), WireRead(k), NEW n \in Requests
    PROVE  /\ \A i \in Pending(n)' : k + i \in Pending(n)
           /\ \/ ran'[n] = ran[n]
              \/ 1 \in Pending(n) /\ ran'[n] = ran[n] + 1
<1>1. Len(wire) \in Nat /\ ran \in [Requests -> Nat]
  BY DEF TypeOK, Requests
<1>2. Len(wire') = Len(wire) - k /\ \A i \in 1..Len(wire') : wire'[i] = wire[k + i]
  BY DEF WireRead
<1>3. \A i \in Pending(n)' : k + i \in Pending(n)
  <2>1. \A i \in 1..Len(wire') : k + i \in 1..Len(wire)
    BY <1>1, <1>2
  <2>2. QED
    BY <1>2, <2>1 DEF Pending
<1>4. CASE ran' = ran
  BY <1>3, <1>4
<1>5. CASE wire[1].name \in Changing /\ ran' = [ran EXCEPT ![wire[1].of] = @ + 1]
  <2>1. 1 \in 1..Len(wire)
    BY <1>1
  <2>2. CASE wire[1].of = n
    BY <1>1, <1>3, <1>5, <2>1, <2>2 DEF Pending
  <2>3. CASE wire[1].of # n
    BY <1>1, <1>3, <1>5, <2>3
  <2>4. QED
    BY <2>2, <2>3
<1>6. QED
  BY <1>4, <1>5 DEF WireRead

\* A step that neither writes a changing command nor reads a line.
Quiet == \A n \in Requests : ran'[n] = ran[n] /\ Pending(n)' \subseteq Pending(n)

LEMMA QuietSteps ==
    TypeOK /\ Control /\ [Next]_vars => Quiet \/ WriteCommand \/ WriteFails \/ ReadsLine
<1> SUFFICES ASSUME TypeOK /\ Control, [Next]_vars
             PROVE  Quiet \/ WriteCommand \/ WriteFails \/ ReadsLine
  OBVIOUS
<1> USE DEF Quiet, Pending
<1>1. ASSUME NEW k \in Kinds, Start(k)
      PROVE  Quiet \/ WriteCommand \/ WriteFails \/ ReadsLine
  <2>1. UNCHANGED <<wire, ran>>
    BY <1>1 DEF Start, radioVars
  <2>2. QED
    BY <2>1
<1>2. CASE Open
  <2>1. /\ Len(wire') \in 0..Len(wire) /\ ran' = ran
        /\ \A i \in 1..Len(wire') : wire'[i] = wire[i]
    BY <1>2, FlushWire DEF Open, TypeOK
  <2>2. Len(wire) \in Nat
    BY DEF TypeOK
  <2>3. QED
    BY <2>1, <2>2
<1>3. CASE OpenFails
  <2>1. UNCHANGED <<wire, ran>>
    BY <1>3 DEF OpenFails, AttemptFails, End, programVars, radioVars
  <2>2. QED
    BY <2>1
<1>4. CASE Ask
  <2>1. Question[pc] \in Names /\ Question[pc] \notin Changing /\ pc # "idle"
    BY <1>4 DEF Ask, Question, Names, Changing
  <2>2. WirePut(Question[pc], TRUE)
    BY <1>4, <2>1, PutWire DEF Ask
  <2>3. QED
    BY <2>1, <2>2, PutPending, ZenonT(60)
<1>5. CASE AskFails
  <2>1. Question[pc] \in Names /\ Question[pc] \notin Changing /\ pc # "idle"
    BY <1>5 DEF AskFails, Question, Names, Changing
  <2>2. CASE Put(Question[pc], FALSE)
    <3>1. WirePut(Question[pc], FALSE)
      BY <2>1, <2>2, PutWire
    <3>2. QED
      BY <2>1, <3>1, PutPending, ZenonT(60)
  <2>3. CASE UNCHANGED radioVars
    BY <2>3 DEF radioVars
  <2>4. QED
    BY <1>5, <2>2, <2>3 DEF AskFails, PutFails
<1>6. CASE NoAnswer
  <2>1. UNCHANGED <<wire, ran>>
    BY <1>6 DEF NoAnswer, AttemptFails, End, StatusDone, AfterStatus, programVars,
       radioVars
  <2>2. QED
    BY <2>1
<1>7. CASE SkipLine
  <2>1. UNCHANGED <<wire, ran>>
    BY <1>7 DEF SkipLine, programVars, radioVars
  <2>2. QED
    BY <2>1
<1>8. CASE StatusLine
  <2>1. UNCHANGED <<wire, ran>>
    BY <1>8 DEF StatusLine, StatusDone, AfterStatus, programVars, radioVars
  <2>2. QED
    BY <2>1
<1>9. CASE VersionLine
  <2>1. UNCHANGED <<wire, ran>>
    BY <1>9 DEF VersionLine, AttemptFails, End, programVars, radioVars
  <2>2. QED
    BY <2>1
<1>10. CASE BeginTransition
  <2>1. UNCHANGED <<wire, ran>>
    BY <1>10 DEF BeginTransition, programVars, radioVars
  <2>2. QED
    BY <2>1
<1>11. CASE BeginFails
  <2>1. UNCHANGED <<wire, ran>>
    BY <1>11 DEF BeginFails, AttemptFails, End, programVars, radioVars
  <2>2. QED
    BY <2>1
<1>12. CASE WriteCommand
  BY <1>12
<1>13. CASE WriteFails
  BY <1>13
<1>14. CASE Drained
  <2>1. UNCHANGED <<wire, ran>>
    BY <1>14 DEF Drained, End, programVars, radioVars
  <2>2. QED
    BY <2>1
<1>15. CASE DrainFails
  <2>1. UNCHANGED <<wire, ran>>
    BY <1>15 DEF DrainFails, AttemptFails, End, programVars, radioVars
  <2>2. QED
    BY <2>1
<1>16. CASE Save
  <2>1. UNCHANGED <<wire, ran>>
    BY <1>16 DEF Save, End, programVars, radioVars
  <2>2. QED
    BY <2>1
<1>17. CASE ReadsLine
  BY <1>17
<1>18. CASE Returns
  <2>1. Len(wire') = 0 /\ ran' = ran
    BY <1>18 DEF Returns
  <2>2. QED
    BY <2>1
<1>19. CASE UNCHANGED vars
  BY <1>19 DEF vars
<1>20. QED
  BY <1>1, <1>2, <1>3, <1>4, <1>5, <1>6, <1>7, <1>8, <1>9, <1>10, <1>11, <1>12,
     <1>13, <1>14, <1>15, <1>16, <1>17, <1>18, <1>19 DEF Next, ProgramStep,
     Terminated

\* What writing the changing command does to the requests.
LEMMA WriteSteps ==
    ASSUME TypeOK, Control, Fresh, WriteCommand \/ WriteFails
    PROVE  /\ UNCHANGED served /\ served \in Requests /\ Untouched(served)
           /\ \A n \in Requests :
                  /\ ran'[n] = ran[n]
                  /\ n # served => Pending(n)' \subseteq Pending(n)
                  /\ Pending(n)' \subseteq Pending(n) \cup {Len(wire) + 1}
<1>1. ChangingCommand \in Names /\ pc = "write"
  BY DEF WriteCommand, WriteFails, ChangingCommand, Names, Changing
<1>2. served \in Requests /\ Untouched(served)
  BY <1>1 DEF Control, Fresh
<1>3. UNCHANGED served
  BY DEF WriteCommand, WriteFails, AttemptFails, End
<1>4. CASE \E w \in BOOLEAN : Put(ChangingCommand, w)
  <2>1. PICK w \in BOOLEAN : Put(ChangingCommand, w)
    BY <1>4
  <2>2. WirePut(ChangingCommand, w)
    BY <1>1, <2>1, PutWire
  <2>3. QED
    BY <1>1, <1>2, <1>3, <2>2, PutPending
<1>5. CASE UNCHANGED radioVars
  BY <1>2, <1>3, <1>5 DEF radioVars, Pending
<1>6. QED
  BY <1>4, <1>5 DEF WriteCommand, WriteFails, PutFails

LEMMA OnceStep ==
    TypeOK /\ Control /\ Once /\ Fresh /\ [Next]_vars => Once'
<1> SUFFICES ASSUME TypeOK, Control, Once, Fresh, [Next]_vars, NEW n \in Requests
             PROVE  /\ ran'[n] \in {0, 1}
                    /\ \A i, j \in Pending(n)' : i = j
                    /\ Pending(n)' # {} => ran'[n] = 0
  BY DEF Once
<1>0. /\ ran[n] \in {0, 1}
      /\ \A i, j \in Pending(n) : i = j
      /\ Pending(n) # {} => ran[n] = 0
  BY DEF Once
<1>1. CASE Quiet
  BY <1>0, <1>1 DEF Quiet
<1>2. CASE WriteCommand \/ WriteFails
  <2>1. CASE n # served
    BY <1>0, <1>2, <2>1, WriteSteps
  <2>2. CASE n = served
    <3>1. ran[n] = 0 /\ Pending(n) = {}
      BY <1>2, <2>2, WriteSteps DEF Untouched
    <3>2. ran'[n] = 0 /\ Pending(n)' \subseteq {Len(wire) + 1}
      BY <1>2, <3>1, WriteSteps
    <3>3. QED
      BY <3>2
  <2>3. QED
    BY <2>1, <2>2
<1>3. CASE ReadsLine
  <2>1. PICK k \in 1..Len(wire) : WireRead(k)
    BY <1>3, ReadWire
  <2>2. /\ \A i \in Pending(n)' : k + i \in Pending(n)
        /\ \/ ran'[n] = ran[n]
           \/ 1 \in Pending(n) /\ ran'[n] = ran[n] + 1
    BY <2>1, ReadPending
  <2>3. \A i \in Pending(n)' : i \in 1..Len(wire')
    BY DEF Pending
  <2>4. wire' \in Seq(Command) /\ Len(wire') \in Nat
    BY <2>1 DEF WireRead
  <2>5. \A i, j \in Pending(n)' : i = j
    <3> SUFFICES ASSUME NEW i \in Pending(n)', NEW j \in Pending(n)'
                 PROVE  i = j
      OBVIOUS
    <3>1. k + i = k + j /\ i \in Nat /\ j \in Nat
      BY <1>0, <2>2, <2>3, <2>4
    <3>2. QED
      BY <3>1
  <2>6. CASE ran'[n] = ran[n]
    BY <1>0, <2>2, <2>5, <2>6
  <2>7. CASE 1 \in Pending(n) /\ ran'[n] = ran[n] + 1
    <3>1. ran'[n] = 1
      BY <1>0, <2>7
    <3>2. \A i \in Pending(n)' : k + i = 1 /\ i \in 1..Len(wire')
      BY <1>0, <2>2, <2>3, <2>7
    <3>3. Pending(n)' = {}
      BY <2>4, <3>2
    <3>4. QED
      BY <3>1, <3>3
  <2>8. QED
    BY <2>2, <2>6, <2>7
<1>4. QED
  BY <1>1, <1>2, <1>3, QuietSteps

\* Nothing but its own write makes a request lose its innocence.
LEMMA UntouchedKept ==
    ASSUME TypeOK, Control, Fresh, [Next]_vars, NEW n \in Requests, Untouched(n)
    PROVE  Untouched(n)' \/ (n = served /\ (WriteCommand \/ WriteFails))
<1>1. CASE Quiet
  BY <1>1 DEF Quiet, Untouched
<1>2. CASE (WriteCommand \/ WriteFails) /\ n # served
  BY <1>2, WriteSteps DEF Untouched
<1>3. CASE ReadsLine
  <2>1. PICK k \in 1..Len(wire) : WireRead(k)
    BY <1>3, ReadWire
  <2>2. QED
    BY <2>1, ReadPending DEF Untouched
<1>4. QED
  BY <1>1, <1>2, <1>3, QuietSteps

Settled == {"idle", "drain", "save"}

\* A step that goes on with the current request and calls it failed only
\* before its command is begun.
Proceeds ==
    /\ UNCHANGED served
    /\ pc \in Settled => pc' \in Settled
    /\ \A n \in Requests :
           result'[n] = "failed" => result[n] = "failed" \/ (n = served /\ pc \notin Settled)

LEMMA ProceedsSteps ==
    TypeOK /\ Control /\ [Next]_vars => Proceeds \/ \E k \in Kinds : Start(k)
<1> SUFFICES ASSUME TypeOK /\ Control, [Next]_vars
             PROVE  Proceeds \/ \E c \in Kinds : Start(c)
  OBVIOUS
<1> USE DEF Proceeds, Settled, TypeOK, Requests
<1>1. ASSUME NEW k \in Kinds, Start(k)
      PROVE  Proceeds \/ \E c \in Kinds : Start(c)
  BY <1>1
<1>2. CASE Open
  BY <1>2 DEF Open
<1>3. CASE OpenFails
  BY <1>3 DEF OpenFails, AttemptFails, End, programVars
<1>4. CASE Ask
  BY <1>4 DEF Ask, Reader
<1>5. CASE AskFails
  BY <1>5 DEF AskFails, AttemptFails, End, StatusDone, AfterStatus
<1>6. CASE NoAnswer
  BY <1>6 DEF NoAnswer, AttemptFails, End, StatusDone, AfterStatus, programVars
<1>7. CASE SkipLine
  BY <1>7 DEF SkipLine, programVars
<1>8. CASE StatusLine
  BY <1>8 DEF StatusLine, StatusDone, AfterStatus, programVars
<1>9. CASE VersionLine
  BY <1>9 DEF VersionLine, AttemptFails, End, programVars, Control
<1>10. CASE BeginTransition
  BY <1>10 DEF BeginTransition, programVars
<1>11. CASE BeginFails
  BY <1>11 DEF BeginFails, AttemptFails, End, programVars
<1>12. CASE WriteCommand
  BY <1>12 DEF WriteCommand
<1>13. CASE WriteFails
  BY <1>13 DEF WriteFails, AttemptFails, End, Control
<1>14. CASE Drained
  BY <1>14 DEF Drained, End, programVars
<1>15. CASE DrainFails
  BY <1>15 DEF DrainFails, AttemptFails, End, programVars, Control
<1>16. CASE Save
  BY <1>16 DEF Save, End, programVars
<1>17. CASE ReadsLine
  BY <1>17 DEF ReadsLine, programVars
<1>18. CASE Returns
  BY <1>18 DEF Returns, programVars
<1>19. CASE UNCHANGED vars
  BY <1>19 DEF vars
<1>20. QED
  BY <1>1, <1>2, <1>3, <1>4, <1>5, <1>6, <1>7, <1>8, <1>9, <1>10, <1>11, <1>12,
     <1>13, <1>14, <1>15, <1>16, <1>17, <1>18, <1>19 DEF Next, ProgramStep,
     Terminated

LEMMA FreshStep ==
    TypeOK /\ Control /\ Fresh /\ [Next]_vars => Fresh'
<1> SUFFICES ASSUME TypeOK, Control, Fresh, [Next]_vars
             PROVE  Fresh'
  OBVIOUS
<1>1. ASSUME NEW k \in Kinds, Start(k)
      PROVE  Fresh'
  <2>1. served' = served + 1 /\ result' = result /\ served \in Nat
    BY <1>1 DEF Start, TypeOK
  <2>2. served' \in Requests /\ served + 1 > served
    BY <1>1, <2>1, MaxRequestsAssumption DEF Start, TypeOK, Requests
  <2>3. ~(WriteCommand \/ WriteFails)
    BY <1>1 DEF Start, WriteCommand, WriteFails
  <2>4. \A n \in Requests : Untouched(n) => Untouched(n)'
    BY <2>3, UntouchedKept
  <2>5. \A n \in Requests : n > served' => n > served
    BY <2>1 DEF Requests
  <2>6. \A n \in Requests : n >= served' => Untouched(n)'
    BY <2>1, <2>4, <2>5 DEF Fresh, Requests
  <2>7. Untouched(served)'
    <3>1. \A n \in Requests : n = served' => Untouched(n)'
      BY <2>1, <2>2, <2>6 DEF Requests
    <3>2. QED
      BY <2>2, <3>1
  <2>8. QED
    BY <2>1, <2>4, <2>6, <2>7 DEF Fresh, Requests
<1>2. CASE Proceeds /\ ~(WriteCommand \/ WriteFails)
  <2>1. \A n \in Requests : Untouched(n) => Untouched(n)'
    BY <1>2, UntouchedKept
  <2>2. pc \notin Settled => served \in Requests /\ Untouched(served)
    BY DEF Control, Fresh, Settled
  <2>3. UNCHANGED served
    BY <1>2 DEF Proceeds
  <2>4. pc' \notin Settled => Untouched(served)'
    <3>1. pc' \notin Settled => served \in Requests /\ Untouched(served)
      BY <1>2, <2>2 DEF Proceeds
    <3>2. ASSUME NEW n \in Requests, Untouched(n), n = served
          PROVE  Untouched(served)'
      BY <2>1, <2>3, <3>2 DEF Untouched, Pending
    <3>3. QED
      BY <3>1, <3>2
  <2>5. \A n \in Requests : result'[n] = "failed" => Untouched(n)'
    BY <1>2, <2>1, <2>2 DEF Proceeds, Fresh
  <2>6. QED
    BY <2>1, <2>3, <2>4, <2>5 DEF Fresh, Settled
<1>3. CASE Proceeds /\ (WriteCommand \/ WriteFails)
  <2>1. pc = "write" /\ pc' \in Settled
    BY <1>3 DEF WriteCommand, WriteFails, AttemptFails, End, Settled, Control
  <2>2. \A n \in Requests : Untouched(n) /\ n # served => Untouched(n)'
    BY UntouchedKept
  <2>3. result'[served] # "failed" /\ served \in Requests
    BY <1>3, <2>1 DEF WriteCommand, WriteFails, AttemptFails, End, Control, TypeOK,
       Requests
  <2>4. \A n \in Requests : result'[n] = "failed" => Untouched(n)'
    <3>1. \A n \in Requests : result'[n] = "failed" => result[n] = "failed" /\ n # served
      BY <1>3, <2>3 DEF Proceeds
    <3>2. QED
      BY <2>2, <3>1 DEF Fresh
  <2>5. \A n \in Requests : n > served => n # served
    BY <2>3 DEF Requests
  <2>6. QED
    BY <1>3, <2>1, <2>2, <2>4, <2>5 DEF Proceeds, Fresh, Settled
<1>4. QED
  BY <1>1, <1>2, <1>3, ProceedsSteps

----------------------------------------------------------------------------
(* Success reaches the radio                                               *)

\* A step by which no line is read and nothing is lost but what has not left
\* the kernel.
Flows ==
    /\ personality' = personality /\ ran' = ran
    /\ served' >= served
    /\ \A m \in 1..served : kind'[m] = kind[m]
    /\ sent' >= sent
    /\ \A i \in 1..sent : wire'[i] = wire[i]
    /\ \A i \in 1..Len(wire') :
           wire'[i].of = served' \/ (i \in 1..Len(wire) /\ wire'[i] = wire[i])

LEMMA PutFlows ==
    ASSUME TypeOK, UNCHANGED <<kind, served>>,
           NEW x \in Names, NEW w \in BOOLEAN, WirePut(x, w)
    PROVE  Flows
<1>1. Len(wire) \in Nat /\ sent \in 0..Len(wire) /\ served \in Nat
  BY DEF TypeOK
<1>2. /\ Len(wire') = Len(wire) + 1 /\ UNCHANGED <<ran, sent, personality>>
      /\ \A i \in 1..Len(wire) : wire'[i] = wire[i]
      /\ wire'[Len(wire) + 1].of = served
  BY DEF WirePut
<1>3. \A i \in 1..Len(wire') : i \in 1..Len(wire) \/ i = Len(wire) + 1
  BY <1>1, <1>2
<1>4. QED
  BY <1>1, <1>2, <1>3 DEF Flows

LEMMA FlowsSteps ==
    TypeOK /\ Control /\ [Next]_vars => Flows \/ ReadsLine \/ Returns
<1> SUFFICES ASSUME TypeOK /\ Control, [Next]_vars
             PROVE  Flows \/ ReadsLine \/ Returns
  OBVIOUS
<1> USE DEF Flows
<1>1. ASSUME NEW k \in Kinds, Start(k)
      PROVE  Flows \/ ReadsLine \/ Returns
  <2>1. UNCHANGED <<ran, wire, sent, personality>> /\ served' = served + 1
    BY <1>1 DEF Start, radioVars
  <2>2. \A m \in 1..served : kind'[m] = kind[m]
    BY <1>1 DEF Start, TypeOK
  <2>3. QED
    BY <2>1, <2>2 DEF TypeOK
<1>2. CASE Open
  <2>1. /\ Len(wire') \in sent..Len(wire) /\ sent' = Len(wire')
        /\ \A i \in 1..Len(wire') : wire'[i] = wire[i]
    BY <1>2, FlushWire DEF Open
  <2>2. UNCHANGED <<ran, personality, served, kind>>
    BY <1>2 DEF Open
  <2>3. Len(wire) \in Nat /\ sent \in Nat /\ served \in Nat
    BY DEF TypeOK
  <2>4. QED
    BY <2>1, <2>2, <2>3
<1>3. CASE OpenFails
  <2>1. UNCHANGED <<ran, wire, personality, served, kind>> /\ sent' >= sent
    BY <1>3 DEF OpenFails, AttemptFails, End, programVars, radioVars, TypeOK
  <2>2. QED
    BY <2>1 DEF TypeOK
<1>4. CASE Ask
  <2>1. Question[pc] \in Names /\ pc # "idle"
    BY <1>4 DEF Ask, Question, Names
  <2>2. WirePut(Question[pc], TRUE)
    BY <1>4, <2>1, PutWire DEF Ask
  <2>3. UNCHANGED <<kind, served>>
    BY <1>4 DEF Ask
  <2>4. QED
    BY <2>1, <2>2, <2>3, PutFlows
<1>5. CASE AskFails
  <2>1. Question[pc] \in Names /\ pc # "idle"
    BY <1>5 DEF AskFails, Question, Names
  <2>2. UNCHANGED <<kind, served>>
    BY <1>5 DEF AskFails, AttemptFails, End, StatusDone, AfterStatus
  <2>3. CASE Put(Question[pc], FALSE)
    <3>1. WirePut(Question[pc], FALSE)
      BY <2>1, <2>3, PutWire
    <3>2. QED
      BY <2>1, <2>2, <3>1, PutFlows
  <2>4. CASE UNCHANGED radioVars
    BY <2>2, <2>4 DEF radioVars, TypeOK
  <2>5. QED
    BY <1>5, <2>3, <2>4 DEF AskFails, PutFails
<1>6. CASE NoAnswer
  <2>1. UNCHANGED <<ran, wire, personality, served, kind>> /\ sent' >= sent
    BY <1>6 DEF NoAnswer, AttemptFails, End, StatusDone, AfterStatus, programVars,
       radioVars, TypeOK
  <2>2. QED
    BY <2>1 DEF TypeOK
<1>7. CASE SkipLine
  <2>1. UNCHANGED <<ran, wire, personality, served, kind>> /\ sent' >= sent
    BY <1>7 DEF SkipLine, programVars, radioVars, TypeOK
  <2>2. QED
    BY <2>1 DEF TypeOK
<1>8. CASE StatusLine
  <2>1. UNCHANGED <<ran, wire, personality, served, kind>> /\ sent' >= sent
    BY <1>8 DEF StatusLine, StatusDone, AfterStatus, programVars, radioVars, TypeOK
  <2>2. QED
    BY <2>1 DEF TypeOK
<1>9. CASE VersionLine
  <2>1. UNCHANGED <<ran, wire, personality, served, kind>> /\ sent' >= sent
    BY <1>9 DEF VersionLine, AttemptFails, End, programVars, radioVars, TypeOK
  <2>2. QED
    BY <2>1 DEF TypeOK
<1>10. CASE BeginTransition
  <2>1. UNCHANGED <<ran, wire, personality, served, kind>> /\ sent' >= sent
    BY <1>10 DEF BeginTransition, programVars, radioVars, TypeOK
  <2>2. QED
    BY <2>1 DEF TypeOK
<1>11. CASE BeginFails
  <2>1. UNCHANGED <<ran, wire, personality, served, kind>> /\ sent' >= sent
    BY <1>11 DEF BeginFails, AttemptFails, End, programVars, radioVars, TypeOK
  <2>2. QED
    BY <2>1 DEF TypeOK
<1>12. CASE WriteCommand
  <2>1. ChangingCommand \in Names /\ pc # "idle"
    BY <1>12 DEF WriteCommand, ChangingCommand, Names, Changing
  <2>2. WirePut(ChangingCommand, TRUE)
    BY <1>12, <2>1, PutWire DEF WriteCommand
  <2>3. UNCHANGED <<kind, served>>
    BY <1>12 DEF WriteCommand
  <2>4. QED
    BY <2>1, <2>2, <2>3, PutFlows
<1>13. CASE WriteFails
  <2>1. ChangingCommand \in Names /\ pc # "idle"
    BY <1>13 DEF WriteFails, ChangingCommand, Names, Changing
  <2>2. UNCHANGED <<kind, served>>
    BY <1>13 DEF WriteFails, AttemptFails, End
  <2>3. CASE Put(ChangingCommand, FALSE)
    <3>1. WirePut(ChangingCommand, FALSE)
      BY <2>1, <2>3, PutWire
    <3>2. QED
      BY <2>1, <2>2, <3>1, PutFlows
  <2>4. CASE UNCHANGED radioVars
    BY <2>2, <2>4 DEF radioVars, TypeOK
  <2>5. QED
    BY <1>13, <2>3, <2>4 DEF WriteFails, PutFails
<1>14. CASE Drained
  <2>1. UNCHANGED <<ran, wire, personality, served, kind>> /\ sent' >= sent
    BY <1>14 DEF Drained, End, programVars, radioVars, TypeOK
  <2>2. QED
    BY <2>1 DEF TypeOK
<1>15. CASE DrainFails
  <2>1. UNCHANGED <<ran, wire, personality, served, kind>> /\ sent' >= sent
    BY <1>15 DEF DrainFails, AttemptFails, End, programVars, radioVars, TypeOK
  <2>2. QED
    BY <2>1 DEF TypeOK
<1>16. CASE Save
  <2>1. UNCHANGED <<ran, wire, personality, served, kind>> /\ sent' >= sent
    BY <1>16 DEF Save, End, programVars, radioVars, TypeOK
  <2>2. QED
    BY <2>1 DEF TypeOK
<1>17. CASE ReadsLine
  BY <1>17
<1>18. CASE Returns
  BY <1>18
<1>19. CASE UNCHANGED vars
  BY <1>19 DEF vars, TypeOK
<1>20. QED
  BY <1>1, <1>2, <1>3, <1>4, <1>5, <1>6, <1>7, <1>8, <1>9, <1>10, <1>11, <1>12,
     <1>13, <1>14, <1>15, <1>16, <1>17, <1>18, <1>19 DEF Next, ProgramStep,
     Terminated

\* A request that was carried out stays so.
LEMMA RanStays ==
    ASSUME TypeOK, Control, Once, Fresh, [Next]_vars, NEW n \in Requests, ran[n] = 1
    PROVE  ran'[n] = 1
<1>1. CASE Flows
  BY <1>1 DEF Flows
<1>2. CASE Returns
  BY <1>2 DEF Returns
<1>3. CASE ReadsLine
  <2>1. PICK k \in 1..Len(wire) : WireRead(k)
    BY <1>3, ReadWire
  <2>2. ran'[n] = ran[n] \/ (1 \in Pending(n) /\ ran'[n] = ran[n] + 1)
    BY <2>1, ReadPending
  <2>3. 1 \notin Pending(n)
    BY DEF Once
  <2>4. QED
    BY <2>2, <2>3
<1>4. QED
  BY <1>1, <1>2, <1>3, FlowsSteps

LEMMA GoneStep ==
    TypeOK /\ Control /\ Wire /\ Once /\ Fresh /\ Gone /\ [Next]_vars => Gone'
<1> SUFFICES ASSUME TypeOK, Control, Wire, Once, Fresh, Gone, [Next]_vars,
                    personality' = "bootloader"
             PROVE  \E m \in 1..served' :
                        /\ kind'[m] = "flash" /\ ran'[m] = 1
                        /\ \A i \in 1..Len(wire') : wire'[i].of >= m
  BY DEF Gone
<1>0. served \in Nat
  BY DEF TypeOK
<1>1. CASE Flows
  <2>1. PICK m \in 1..served :
            /\ kind[m] = "flash" /\ ran[m] = 1
            /\ \A i \in 1..Len(wire) : wire[i].of >= m
    BY <1>1 DEF Flows, Gone
  <2>2. m \in 1..served' /\ served' >= m
    <3>1. served' \in Nat
      BY TypeStep DEF TypeOK
    <3>2. QED
      BY <1>0, <1>1, <2>1, <3>1 DEF Flows
  <2>3. kind'[m] = "flash" /\ ran'[m] = 1
    BY <1>1, <2>1 DEF Flows
  <2>4. \A i \in 1..Len(wire') : wire'[i].of >= m
    BY <1>1, <2>1, <2>2 DEF Flows
  <2>5. QED
    BY <2>2, <2>3, <2>4
<1>2. CASE ReadsLine
  <2>1. PICK k \in 1..Len(wire) : WireRead(k)
    BY <1>2, ReadWire
  <2>2. personality = "application" /\ UNCHANGED <<kind, served>>
    BY <1>2 DEF ReadsLine, programVars
  <2>3. /\ wire[1].name = "B01" /\ wire[1].name \in Changing
        /\ ran' = [ran EXCEPT ![wire[1].of] = @ + 1]
    BY <2>1, <2>2 DEF WireRead
  <2>4. 1 \in 1..Len(wire) /\ Len(wire) \in Nat /\ wire[1] \in Command
    BY <2>1 DEF TypeOK
  <2>5. wire[1].of \in Requests /\ wire[1].of <= served
    BY <2>4 DEF Command, Requests, Wire, Belongs
  <2>6. wire[1].of \in 1..served /\ kind[wire[1].of] = "flash"
    BY <1>0, <2>3, <2>4, <2>5 DEF Requests, Wire, Belongs
  <2>7. ran'[wire[1].of] = 1
    <3>1. 1 \in Pending(wire[1].of)
      BY <2>3, <2>4 DEF Pending
    <3>2. ran[wire[1].of] = 0
      BY <2>5, <3>1 DEF Once
    <3>3. QED
      BY <2>3, <2>5, <3>2 DEF TypeOK, Requests
  <2>8. \A i \in 1..Len(wire') : wire'[i].of >= wire[1].of
    <3> SUFFICES ASSUME NEW i \in 1..Len(wire')
                 PROVE  wire'[i].of >= wire[1].of
      OBVIOUS
    <3>1. wire'[i] = wire[k + i] /\ k + i \in 1..Len(wire) /\ 1 < k + i
      BY <2>1, <2>4 DEF WireRead
    <3>2. wire[1].of <= wire[k + i].of
      BY <2>4, <3>1 DEF Wire, Ordered
    <3>3. wire[k + i] \in Command
      BY <3>1 DEF TypeOK
    <3>4. wire[k + i].of \in Nat
      BY <3>3 DEF Command
    <3>5. QED
      BY <2>5, <3>1, <3>2, <3>4 DEF Requests
  <2>9. QED
    BY <2>2, <2>6, <2>7, <2>8
<1>3. CASE Returns
  BY <1>3 DEF Returns
<1>4. QED
  BY <1>1, <1>2, <1>3, FlowsSteps

\* Reached(n, r) after a step.
ReachedNext(n, r) ==
    \/ ran'[n] = 1
    \/ \E m \in 1..(n - 1) : kind'[m] = "flash" /\ ran'[m] = 1
    \/ \E i \in 1..r : wire'[i].of = n /\ wire'[i].name = "l0x" /\ wire'[i].whole

\* Reading lines does not lose an LED command that is written whole.
LEMMA ReachedRead ==
    ASSUME TypeOK, Control, Wire, Once, Fresh, [Next]_vars, ReadsLine,
           NEW n \in Requests
    PROVE  \A l \in 0..Len(wire), r \in Nat :
               /\ Reached(n, l)
               /\ \A k \in 1..Len(wire) : WireRead(k) => \A i \in 1..l : i > k => i - k <= r
               => ReachedNext(n, r)
<1> SUFFICES ASSUME NEW l \in 0..Len(wire), NEW r \in Nat, Reached(n, l),
                    \A k \in 1..Len(wire) : WireRead(k) => \A i \in 1..l : i > k => i - k <= r
             PROVE  ReachedNext(n, r)
  OBVIOUS
<1>1. PICK k \in 1..Len(wire) : WireRead(k)
  BY ReadWire
<1>2. UNCHANGED kind
  BY DEF ReadsLine, programVars
<1>3. CASE ran[n] = 1
  BY <1>3, RanStays DEF Reached, ReachedNext
<1>4. CASE \E m \in 1..(n - 1) : kind[m] = "flash" /\ ran[m] = 1
  <2>1. PICK m \in 1..(n - 1) : kind[m] = "flash" /\ ran[m] = 1
    BY <1>4
  <2>2. m \in Requests
    BY <2>1, MaxRequestsAssumption DEF Requests
  <2>3. ran'[m] = 1
    BY <2>1, <2>2, RanStays
  <2>4. QED
    BY <1>2, <2>1, <2>3 DEF Reached, ReachedNext
<1>5. CASE \E i \in 1..l : wire[i].of = n /\ wire[i].name = "l0x" /\ wire[i].whole
  <2>1. PICK i \in 1..l : wire[i].of = n /\ wire[i].name = "l0x" /\ wire[i].whole
    BY <1>5
  <2>2. Len(wire) \in Nat /\ i \in 1..Len(wire) /\ i \in Pending(n)
    BY <2>1 DEF TypeOK, Pending, Changing
  <2>3. /\ wire[k].whole /\ \A j \in 1..(k - 1) : ~wire[j].whole
        /\ Len(wire') = Len(wire) - k /\ \A j \in 1..Len(wire') : wire'[j] = wire[k + j]
    BY <1>1 DEF WireRead
  <2>4. CASE i > k
    <3>1. i - k \in 1..Len(wire') /\ wire'[i - k] = wire[k + (i - k)] /\ k + (i - k) = i
      BY <2>2, <2>3, <2>4
    <3>2. i - k \in 1..r
      BY <1>1, <2>1, <2>2, <2>4
    <3>3. wire'[i - k].of = n /\ wire'[i - k].name = "l0x" /\ wire'[i - k].whole
      BY <2>1, <3>1
    <3>4. QED
      BY <3>2, <3>3 DEF Reached, ReachedNext
  <2>5. CASE i <= k
    <3>1. i = k
      BY <2>1, <2>2, <2>3, <2>5
    <3>2. i = 1
      <4> SUFFICES ASSUME i # 1
                   PROVE  FALSE
        OBVIOUS
      <4>1. i \in 2..Len(wire)
        BY <2>2
      <4>2. wire[i - 1].whole
        BY <2>1, <4>1 DEF Wire, Behind, Changing
      <4>3. i - 1 \in 1..(k - 1)
        BY <2>2, <3>1, <4>1
      <4>4. QED
        BY <2>3, <4>2, <4>3
    <3>3. ran' = [ran EXCEPT ![n] = @ + 1]
      BY <1>1, <2>1, <3>2 DEF WireRead, Changing
    <3>4. ran'[n] = 1
      BY <2>2, <3>3, SMTT(30) DEF Once, TypeOK, Requests
    <3>5. QED
      BY <3>4 DEF Reached, ReachedNext
  <2>6. QED
    BY <2>2, <2>4, <2>5
<1>6. QED
  BY <1>3, <1>4, <1>5 DEF Reached, ReachedNext

\* Which requests a step ends with a success, and how it comes to drain or save.
Concludes ==
    /\ \A n \in Requests :
           kind'[n] = "led" /\ result'[n] \in {"ok", "unsaved"} =>
               /\ n <= served /\ kind[n] = "led"
               /\ result[n] \in {"ok", "unsaved"} \/ (n = served /\ pc = "save")
    /\ pc' = "save" /\ kind'[served'] = "led" =>
           /\ UNCHANGED served /\ kind[served] = "led" /\ served \in Requests
           /\ pc = "save" \/ (pc = "drain" /\ Drained)
    /\ pc' = "drain" /\ kind'[served'] = "led" =>
           /\ UNCHANGED <<kind, served>> /\ kind[served] = "led" /\ served \in Requests
           /\ WriteCommand \/ (pc = "drain" /\ (ReadsLine \/ UNCHANGED radioVars))

LEMMA ConcludesSteps == TypeOK /\ Control /\ [Next]_vars => Concludes
<1> SUFFICES ASSUME TypeOK /\ Control, [Next]_vars
             PROVE  Concludes
  OBVIOUS
<1> USE MaxRequestsAssumption DEF Concludes, TypeOK, Control, Requests
<1>1. ASSUME NEW k \in Kinds, Start(k)
      PROVE  Concludes
  BY <1>1 DEF Start
<1>2. CASE Open
  BY <1>2 DEF Open
<1>3. CASE OpenFails
  BY <1>3, SMTT(30) DEF OpenFails, AttemptFails, End, programVars
<1>4. CASE Ask
  BY <1>4 DEF Ask, Reader
<1>5. CASE AskFails
  BY <1>5, SMTT(30) DEF AskFails, AttemptFails, End, StatusDone, AfterStatus
<1>6. CASE NoAnswer
  BY <1>6, SMTT(30) DEF NoAnswer, AttemptFails, End, StatusDone, AfterStatus, programVars
<1>7. CASE SkipLine
  BY <1>7 DEF SkipLine, programVars
<1>8. CASE StatusLine
  BY <1>8 DEF StatusLine, StatusDone, AfterStatus, programVars
<1>9. CASE VersionLine
  BY <1>9, SMTT(30) DEF VersionLine, AttemptFails, End, AfterVersion
<1>10. CASE BeginTransition
  BY <1>10 DEF BeginTransition, programVars
<1>11. CASE BeginFails
  BY <1>11 DEF BeginFails, AttemptFails, End, programVars
<1>12. CASE WriteCommand
  <2>1. UNCHANGED <<kind, result, served>> /\ pc' = "drain" /\ pc = "write"
    BY <1>12 DEF WriteCommand
  <2>2. QED
    BY <1>12, <2>1
<1>13. CASE WriteFails
  BY <1>13 DEF WriteFails, AttemptFails, End
<1>14. CASE Drained
  <2>1. /\ pc = "drain" /\ UNCHANGED <<kind, served>> /\ pc' \in {"save", "idle"}
        /\ kind[served] = "led" => pc' = "save" /\ UNCHANGED result
        /\ kind[served] # "led" => result' = [result EXCEPT ![served] = "ok"]
    BY <1>14 DEF Drained, End
  <2>2. QED
    BY <1>14, <2>1
<1>15. CASE DrainFails
  <2>1. /\ pc = "drain" /\ UNCHANGED <<kind, served>> /\ pc' = "idle"
        /\ \/ result' = [result EXCEPT ![served] = "ambiguous"]
           \/ kind[served] = "flash" /\ result' = [result EXCEPT ![served] = "ok"]
    BY <1>15 DEF DrainFails, AttemptFails, End
  <2>2. QED
    BY <2>1
<1>16. CASE Save
  BY <1>16 DEF Save, End, programVars
<1>17. CASE ReadsLine
  <2>1. UNCHANGED <<kind, result, served, pc>>
    BY <1>17 DEF ReadsLine, programVars
  <2>2. QED
    BY <1>17, <2>1
<1>18. CASE Returns
  BY <1>18 DEF Returns, programVars
<1>19. CASE UNCHANGED vars
  BY <1>19 DEF vars, radioVars
<1>20. QED
  BY <1>1, <1>2, <1>3, <1>4, <1>5, <1>6, <1>7, <1>8, <1>9, <1>10, <1>11, <1>12,
     <1>13, <1>14, <1>15, <1>16, <1>17, <1>18, <1>19 DEF Next, ProgramStep,
     Terminated

\* A request that has reached the radio has reached it for good.
LEMMA ReachedStep ==
    ASSUME TypeOK, Control, Wire, Once, Fresh, Gone, [Next]_vars,
           NEW n \in Requests, n <= served, kind[n] = "led", Reached(n, sent)
    PROVE  Reached(n, sent)'
<1>0. sent \in 0..Len(wire) /\ sent' \in Nat /\ Len(wire) \in Nat /\ served \in Nat
  <2>1. TypeOK'
    BY TypeStep
  <2>2. QED
    BY <2>1 DEF TypeOK
<1>1. CASE Flows
  <2>1. CASE ran[n] = 1
    BY <1>1, <2>1 DEF Flows, Reached
  <2>2. CASE \E m \in 1..(n - 1) : kind[m] = "flash" /\ ran[m] = 1
    <3>1. PICK m \in 1..(n - 1) : kind[m] = "flash" /\ ran[m] = 1
      BY <2>2
    <3>2. m \in 1..served
      BY <1>0, <3>1 DEF Requests
    <3>3. QED
      BY <1>1, <3>1, <3>2 DEF Flows, Reached
  <2>3. CASE \E i \in 1..sent : wire[i].of = n /\ wire[i].name = "l0x" /\ wire[i].whole
    <3>1. PICK i \in 1..sent : wire[i].of = n /\ wire[i].name = "l0x" /\ wire[i].whole
      BY <2>3
    <3>2. i \in 1..sent' /\ wire'[i] = wire[i]
      BY <1>0, <1>1, <3>1 DEF Flows
    <3>3. QED
      BY <3>1, <3>2 DEF Reached
  <2>4. QED
    BY <2>1, <2>2, <2>3 DEF Reached
<1>2. CASE ReadsLine
  <2>1. ASSUME NEW k \in 1..Len(wire), WireRead(k), NEW i \in 1..sent, i > k
        PROVE  i - k <= sent'
    BY <1>0, <2>1 DEF WireRead
  <2>2. ReachedNext(n, sent')
    BY <1>0, <1>2, <2>1, ReachedRead
  <2>3. QED
    BY <2>2 DEF Reached, ReachedNext
<1>3. CASE Returns
  <2>1. ran' = ran /\ kind' = kind /\ personality = "bootloader"
    BY <1>3 DEF Returns, programVars
  <2>2. CASE ran[n] = 1 \/ \E m \in 1..(n - 1) : kind[m] = "flash" /\ ran[m] = 1
    BY <2>1, <2>2 DEF Reached
  <2>3. CASE \E i \in 1..sent : wire[i].of = n
    <3>1. PICK i \in 1..Len(wire) : wire[i].of = n
      BY <1>0, <2>3
    <3>2. PICK m \in 1..served :
              kind[m] = "flash" /\ ran[m] = 1 /\ \A j \in 1..Len(wire) : wire[j].of >= m
      BY <2>1 DEF Gone
    <3>3. n >= m /\ n # m
      BY <3>1, <3>2
    <3>4. m \in 1..(n - 1)
      BY <1>0, <3>2, <3>3 DEF Requests
    <3>5. QED
      BY <2>1, <3>2, <3>4 DEF Reached
  <2>4. QED
    BY <2>2, <2>3 DEF Reached
<1>4. QED
  BY <1>1, <1>2, <1>3, FlowsSteps

LEMMA DeliveredStep ==
    TypeOK /\ Control /\ Wire /\ Once /\ Fresh /\ Gone /\ Delivered /\ [Next]_vars => Delivered'
<1> SUFFICES ASSUME TypeOK, Control, Wire, Once, Fresh, Gone, Delivered, [Next]_vars
             PROVE  Delivered'
  OBVIOUS
<1>0. Concludes
  BY ConcludesSteps
<1>1. \A n \in Requests :
          n <= served /\ kind[n] = "led" /\ Reached(n, sent) => Reached(n, sent)'
  BY ReachedStep
<1>2. ASSUME NEW n \in Requests, kind'[n] = "led", result'[n] \in {"ok", "unsaved"}
      PROVE  Reached(n, sent)'
  <2>1. n <= served /\ kind[n] = "led"
    BY <1>0, <1>2 DEF Concludes
  <2>2. Reached(n, sent)
    BY <1>0, <1>2 DEF Concludes, Delivered
  <2>3. QED
    BY <1>1, <2>1, <2>2
<1>3. ASSUME pc' = "save", kind'[served'] = "led"
      PROVE  Reached(served, sent)'
  <2>1. /\ UNCHANGED served /\ kind[served] = "led" /\ served \in Requests
        /\ pc = "save" \/ (pc = "drain" /\ Drained)
    BY <1>0, <1>3 DEF Concludes
  <2>2. CASE pc = "save"
    <3>1. Reached(served, sent)
      BY <2>1, <2>2 DEF Delivered
    <3>2. ASSUME NEW n \in Requests, n = served
          PROVE  Reached(n, sent)'
      BY <1>1, <2>1, <3>1, <3>2 DEF Requests
    <3>3. QED
      BY <2>1, <3>2 DEF Reached
  <2>3. CASE pc = "drain" /\ Drained
    <3>1. Reached(served, Len(wire))
      BY <2>1, <2>3 DEF Delivered
    <3>2. sent' = Len(wire) /\ UNCHANGED <<kind, served, ran, wire>>
      BY <2>3 DEF Drained
    <3>3. QED
      BY <3>1, <3>2 DEF Reached
  <2>4. QED
    BY <2>1, <2>2, <2>3
<1>4. ASSUME pc' = "drain", kind'[served'] = "led"
      PROVE  Reached(served, Len(wire))'
  <2>1. /\ UNCHANGED <<kind, served>> /\ kind[served] = "led" /\ served \in Requests
        /\ WriteCommand \/ (pc = "drain" /\ (ReadsLine \/ UNCHANGED radioVars))
    BY <1>0, <1>4 DEF Concludes
  <2>2. Len(wire) \in Nat
    BY DEF TypeOK
  <2>3. CASE WriteCommand
    <3>1. ChangingCommand = "l0x" /\ "l0x" \in Names /\ pc # "idle"
      BY <2>1, <2>3 DEF WriteCommand, ChangingCommand, Names, Changing
    <3>2. WirePut("l0x", TRUE)
      BY <2>3, <3>1, PutWire DEF WriteCommand
    <3>3. Len(wire) + 1 \in 1..Len(wire') /\ wire'[Len(wire) + 1].of = served'
          /\ wire'[Len(wire) + 1].name = "l0x" /\ wire'[Len(wire) + 1].whole
      BY <2>1, <2>2, <3>2 DEF WirePut
    <3>4. QED
      BY <3>3 DEF Reached
  <2>4. CASE pc = "drain" /\ UNCHANGED radioVars
    <3>1. Reached(served, Len(wire))
      BY <2>1, <2>4 DEF Delivered
    <3>2. QED
      BY <2>1, <2>4, <3>1 DEF Reached, radioVars
  <2>5. CASE pc = "drain" /\ ReadsLine
    <3>1. Reached(served, Len(wire))
      BY <2>1, <2>5 DEF Delivered
    <3>2. Len(wire') \in Nat
      <4>1. TypeOK'
        BY TypeStep
      <4>2. QED
        BY <4>1 DEF TypeOK
    <3>3. ASSUME NEW k \in 1..Len(wire), WireRead(k), NEW i \in 1..Len(wire), i > k
          PROVE  i - k <= Len(wire')
      BY <2>2, <3>3 DEF WireRead
    <3>4. ReachedNext(served, Len(wire'))
      <4>1. Len(wire) \in 0..Len(wire)
        BY <2>2
      <4>2. QED
        BY <2>1, <2>5, <3>1, <3>2, <3>3, <4>1, ReachedRead
    <3>5. QED
      BY <2>1, <3>4 DEF Reached, ReachedNext
  <2>6. QED
    BY <2>1, <2>3, <2>4, <2>5
<1>5. QED
  BY <1>2, <1>3, <1>4 DEF Delivered

----------------------------------------------------------------------------
(* The theorems                                                            *)

\* The inductive invariant: what the program counter, the wire and the radio
\* say of each request.
THEOREM InductiveInvariant == Spec => []IInv
<1>1. Init => IInv
  BY InitHolds
<1>2. IInv /\ [Next]_vars => IInv'
  BY TypeStep, ControlStep, WireStep, OnceStep, FreshStep, GoneStep, DeliveredStep
     DEF IInv
<1>3. QED
  BY <1>1, <1>2, PTL DEF Spec

\* Type correctness of the session, the kernel's buffers and the radio.
THEOREM TypeCorrect == Spec => []TypeOK
<1>1. IInv => TypeOK
  BY DEF IInv
<1>2. QED
  BY <1>1, InductiveInvariant, PTL

\* However often set_led() and the flash retry, their changing command is
\* carried out at most once.
THEOREM NoSecondExecution == Spec => []AtMostOnce
<1>1. IInv => AtMostOnce
  BY DEF IInv, Once, AtMostOnce, Requests
<1>2. QED
  BY <1>1, InductiveInvariant, PTL

\* A request that failed before its command neither changed the radio nor
\* ever will.
THEOREM FailureChangedNothing == Spec => []CleanFailure
<1>1. IInv => CleanFailure
  BY DEF IInv, Fresh, Untouched, Pending, CleanFailure, OnTheWire, Requests
<1>2. QED
  BY <1>1, InductiveInvariant, PTL

\* An LED request that succeeded was carried out or is on its way for good,
\* unless a bootloader request overtook it.
THEOREM SuccessIsDelivered == Spec => []SuccessReachedTheRadio
<1>1. IInv => SuccessReachedTheRadio
  BY DEF IInv, Delivered, Reached, SuccessReachedTheRadio, Requests
<1>2. QED
  BY <1>1, InductiveInvariant, PTL
=============================================================================
