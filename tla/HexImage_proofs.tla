--------------------------- MODULE HexImage_proofs ---------------------------
(***************************************************************************)
(* Proofs about HexImage for every flash size, page size, set of lines and *)
(* length of file: parse_hex_file() accepts the images and nothing else.   *)
(***************************************************************************)
EXTENDS HexImage, FiniteSetTheorems, TLAPS

----------------------------------------------------------------------------
(* The base a line is addressed from                                       *)

\* At most one line sets the base of another.
LEMMA OneBase ==
    ASSUME NEW f, NEW i \in Nat, NEW j, NEW k, SetsBase(f, j, i), SetsBase(f, k, i)
    PROVE  j = k
<1>1. j \in 1..(i - 1) /\ k \in 1..(i - 1)
  BY DEF SetsBase
<1>2. CASE j < k
  BY <1>1, <1>2 DEF SetsBase
<1>3. CASE k < j
  BY <1>1, <1>3 DEF SetsBase
<1>4. QED
  BY <1>1, <1>2, <1>3

\* u is the base in effect before line i.
InEffect(f, i, u) ==
    \/ u = 0 /\ \A j \in 1..(i - 1) : f[j].type # "base"
    \/ \E j \in 1..(i - 1) : SetsBase(f, j, i) /\ u = f[j].upper

\* Extent() addresses a data line from the base in effect.
LEMMA ExtentIs ==
    ASSUME NEW f, NEW i \in Nat, NEW u \in Nat, InEffect(f, i, u), f[i].type = "data"
    PROVE  Extent(f, i) = (u * Page + f[i].address)..(u * Page + f[i].address + f[i].count - 1)
<1>1. CASE \E j \in 1..(i - 1) : SetsBase(f, j, i)
  <2>1. PICK j \in 1..(i - 1) : SetsBase(f, j, i) /\ u = f[j].upper
    BY <1>1 DEF InEffect, SetsBase
  <2>2. (CHOOSE k \in 1..(i - 1) : SetsBase(f, k, i)) = j
    <3>1. \A k \in 1..(i - 1) : SetsBase(f, k, i) => k = j
      BY <2>1, OneBase
    <3>2. QED
      BY <2>1, <3>1
  <2>3. QED
    BY <1>1, <2>1, <2>2 DEF Extent
<1>2. CASE ~\E j \in 1..(i - 1) : SetsBase(f, j, i)
  <2>1. u = 0
    BY <1>2 DEF InEffect
  <2>2. QED
    BY <1>2, <2>1 DEF Extent
<1>3. QED
  BY <1>1, <1>2

LEMMA NoExtent ==
    ASSUME NEW f, NEW i, f[i].type # "data"
    PROVE  Extent(f, i) = {}
  BY DEF Extent

\* Taking line i moves the base on.
LEMMA NextBase ==
    ASSUME NEW f, NEW i \in Nat \ {0}, NEW u, InEffect(f, i, u)
    PROVE  /\ f[i].type # "base" => InEffect(f, i + 1, u)
           /\ f[i].type = "base" => InEffect(f, i + 1, f[i].upper)
<1>1. \A j : j \in 1..((i + 1) - 1) <=> j \in 1..(i - 1) \/ j = i
  OBVIOUS
<1>2. ASSUME f[i].type # "base"
      PROVE  InEffect(f, i + 1, u)
  <2>1. CASE u = 0 /\ \A j \in 1..(i - 1) : f[j].type # "base"
    BY <1>1, <1>2, <2>1 DEF InEffect
  <2>2. CASE \E j \in 1..(i - 1) : SetsBase(f, j, i) /\ u = f[j].upper
    <3>1. PICK j \in 1..(i - 1) : SetsBase(f, j, i) /\ u = f[j].upper
      BY <2>2
    <3>2. SetsBase(f, j, i + 1)
      BY <1>1, <1>2, <3>1 DEF SetsBase
    <3>3. QED
      BY <1>1, <3>1, <3>2 DEF InEffect
  <2>3. QED
    BY <2>1, <2>2 DEF InEffect
<1>3. ASSUME f[i].type = "base"
      PROVE  InEffect(f, i + 1, f[i].upper)
  <2>1. SetsBase(f, i, i + 1)
    BY <1>1, <1>3 DEF SetsBase
  <2>2. QED
    BY <1>1, <2>1 DEF InEffect
<1>4. QED
  BY <1>2, <1>3

----------------------------------------------------------------------------
(* The inductive invariant                                                 *)

\* Before the parser starts its locals are as parse_hex_file() sets them.
Unparsed ==
    phase \in {"idle", "receive", "stored"} =>
        /\ phase = "idle" => file = <<>>
        /\ pos = 1 /\ occupied = {} /\ upper = 0 /\ dataBytes = 0
        /\ lowest = None /\ highest = None /\ ~sawEof

\* What the lines taken so far are, and that the locals describe them.
Parsed ==
    phase \in {"parse", "accepted"} =>
        /\ InEffect(file, pos, upper)
        /\ \A i \in 1..(pos - 1) :
               /\ WellFormed(file[i])
               /\ Extent(file, i) \subseteq occupied
               /\ file[i].type = "eof" => i = pos - 1 /\ sawEof
        /\ \A i, j \in 1..(pos - 1) : i # j => Extent(file, i) \cap Extent(file, j) = {}
        /\ \A b \in occupied : \E i \in 1..(pos - 1) : b \in Extent(file, i)
        /\ sawEof => pos > 1 /\ file[pos - 1].type = "eof"

\* The counters describe the set of occupied bytes.
Counted ==
    /\ IsFiniteSet(occupied) /\ dataBytes = Cardinality(occupied)
    /\ \/ occupied = {} /\ lowest = None /\ highest = None
       \/ lowest \in occupied /\ highest \in occupied /\ occupied \subseteq lowest..highest

\* How the parser ends.
Ended ==
    /\ phase = "accepted" => pos = Len(file) + 1 /\ Complete
    /\ phase = "refused" /\ pos > 1 => ~IsImage(file)

IInv == TypeOK /\ Unparsed /\ Parsed /\ Counted /\ Ended

LEMMA InitHolds == Init => IInv
<1> SUFFICES ASSUME Init
             PROVE  IInv
  OBVIOUS
<1>1. TypeOK
  <2>1. file \in Seq(Lines) /\ Len(file) = 0
    BY DEF Init
  <2>2. lowest \in Flash \cup {None} /\ highest \in Flash \cup {None} /\ occupied \subseteq Flash
    BY DEF Init
  <2>3. /\ phase \in Phases /\ remaining = 0 /\ pos = 1
        /\ upper = 0 /\ dataBytes = 0 /\ sawEof \in BOOLEAN
    BY DEF Init, Phases
  <2>4. QED
    BY <2>1, <2>2, <2>3, SizesAssumption DEF TypeOK
<1>2. Counted
  BY FS_EmptySet DEF Init, Counted
<1>3. Unparsed /\ Parsed /\ Ended
  BY DEF Init, Unparsed, Parsed, Ended
<1>4. QED
  BY <1>1, <1>2, <1>3 DEF IInv

\* The line being parsed and its place.
LEMMA LineTyped ==
    ASSUME TypeOK, Parsing
    PROVE  /\ Line \in Lines /\ Line.type \in Types /\ Line.count \in Nat
           /\ Line.address \in Nat /\ Line.upper \in Nat
           /\ Absolute \in Nat /\ upper * Page \in Nat /\ pos \in 1..Len(file) /\ Len(file) \in Nat
<1>1. pos \in 1..Len(file) /\ Len(file) \in Nat /\ Line \in Lines
  BY DEF TypeOK, Parsing, Line
<1>2. Line \in [type : Types, count : Nat, address : Nat, upper : Nat]
  BY <1>1, LinesAssumption
<1>3. upper * Page \in Nat
  BY SizesAssumption DEF TypeOK
<1>4. QED
  BY <1>1, <1>2, <1>3 DEF Absolute

\* An admitted data line programs new bytes of the flash, its first and its
\* last one among them.
LEMMA SpanTyped ==
    ASSUME TypeOK, Parsing, DataAdmitted
    PROVE  /\ Span \subseteq Flash /\ Absolute \in Span /\ Absolute + Line.count - 1 \in Span
           /\ \A b \in Span : Absolute <= b /\ b <= Absolute + Line.count - 1
           /\ IsFiniteSet(Span) /\ Cardinality(Span) = Line.count
<1>1. Absolute \in Nat /\ Line.count \in Nat /\ Line.count > 0 /\ Absolute + Line.count <= FlashSize
  BY LineTyped DEF DataAdmitted
<1>2. IsFiniteSet(Span) /\ Cardinality(Span) = Line.count
  <2> DEFINE last == Absolute + Line.count - 1
  <2>1. Absolute \in Int /\ last \in Int /\ Absolute <= last /\ last - Absolute + 1 = Line.count
    BY <1>1
  <2> HIDE DEF last
  <2>2. IsFiniteSet(Absolute..last) /\ Cardinality(Absolute..last) = Line.count
    BY <2>1, FS_Interval
  <2>3. QED
    BY <2>2 DEF last, Span
<1>3. QED
  BY <1>1, <1>2, SizesAssumption DEF Span, Flash

LEMMA TypeStep == TypeOK /\ Unparsed /\ [Next]_vars => TypeOK'
<1> SUFFICES ASSUME TypeOK, Unparsed, [Next]_vars
             PROVE  TypeOK'
  OBVIOUS
<1> USE SizesAssumption DEF TypeOK, Phases
<1>1. ASSUME NEW n \in 0..(MaxLines + 1), Declare(n)
      PROVE  TypeOK'
  <2>1. CASE n \in 1..MaxLines
    <3>1. phase' = "receive" /\ remaining' = n /\ UNCHANGED <<file, parseVars>> /\ file = <<>>
      BY <1>1, <2>1 DEF Declare, Unparsed
    <3>2. QED
      BY <2>1, <3>1 DEF parseVars
  <2>2. CASE n \notin 1..MaxLines
    BY <1>1, <2>2 DEF Declare, Refuse, parseVars
  <2>3. QED
    BY <2>1, <2>2
<1>2. ASSUME NEW line \in Lines, Receive(line)
      PROVE  TypeOK'
  BY <1>2 DEF Receive, parseVars, Unparsed
<1>3. CASE ReceiveFails \/ ReadFails \/ LineRefused \/ FileRefused
  BY <1>3 DEF ReceiveFails, ReadFails, LineRefused, FileRefused, Refuse, parseVars
<1>4. CASE Stored \/ Read \/ Accept
  BY <1>4 DEF Stored, Read, Accept, parseVars
<1>5. CASE Data
  <2>1. Parsing /\ DataAdmitted
    BY <1>5 DEF Data
  <2>2. occupied' \subseteq Flash /\ lowest' \in Flash \cup {None} /\ highest' \in Flash \cup {None}
    BY <1>5, <2>1, SpanTyped DEF Data
  <2>3. dataBytes' \in Nat /\ pos' \in 1..(Len(file) + 1)
    BY <1>5, <2>1, LineTyped, SMTT(30) DEF Data
  <2>4. QED
    BY <1>5, <2>2, <2>3 DEF Data
<1>6. CASE Eof
  BY <1>6 DEF Eof, Parsing
<1>7. CASE Base
  BY <1>7, LineTyped DEF Base, Parsing
<1>8. CASE UNCHANGED vars
  BY <1>8 DEF vars, parseVars
<1>9. QED
  BY <1>1, <1>2, <1>3, <1>4, <1>5, <1>6, <1>7, <1>8 DEF Next, Terminated

LEMMA UnparsedStep == Unparsed /\ [Next]_vars => Unparsed'
<1> SUFFICES ASSUME Unparsed, [Next]_vars
             PROVE  Unparsed'
  OBVIOUS
<1> USE DEF Unparsed, parseVars
<1>1. ASSUME NEW n \in 0..(MaxLines + 1), Declare(n)
      PROVE  Unparsed'
  BY <1>1 DEF Declare, Refuse
<1>2. ASSUME NEW line \in Lines, Receive(line)
      PROVE  Unparsed'
  BY <1>2 DEF Receive
<1>3. CASE ReceiveFails \/ ReadFails \/ LineRefused \/ FileRefused
  BY <1>3 DEF ReceiveFails, ReadFails, LineRefused, FileRefused, Refuse
<1>4. CASE Stored \/ Read \/ Accept
  BY <1>4 DEF Stored, Read, Accept
<1>5. CASE Data \/ Eof \/ Base
  BY <1>5 DEF Data, Eof, Base, Parsing
<1>6. CASE UNCHANGED vars
  BY <1>6 DEF vars
<1>7. QED
  BY <1>1, <1>2, <1>3, <1>4, <1>5, <1>6 DEF Next, Terminated

\* What taking a line adds to what is known of the lines before it.
LEMMA TakeLine ==
    ASSUME TypeOK, Parsed, Parsing, ~sawEof, WellFormed(Line),
           UNCHANGED file, pos' = pos + 1, phase' = phase,
           occupied' = occupied \cup Extent(file, pos),
           Extent(file, pos) \cap occupied = {},
           upper' = IF Line.type = "base" THEN Line.upper ELSE upper,
           sawEof' <=> Line.type = "eof"
    PROVE  Parsed'
<1>1. pos \in 1..Len(file) /\ Len(file) \in Nat /\ phase = "parse" /\ Line = file[pos]
  BY LineTyped DEF Parsing, Line
<1>2. \A i : i \in 1..(pos' - 1) <=> i \in 1..(pos - 1) \/ i = pos
  BY <1>1
<1>3. InEffect(file, pos', upper')
  BY <1>1, NextBase DEF Parsed
<1>4. ASSUME NEW i \in 1..(pos - 1)
      PROVE  /\ WellFormed(file[i]) /\ Extent(file, i) \subseteq occupied'
             /\ file[i].type # "eof"
  BY <1>1, <1>4 DEF Parsed
<1>5. ASSUME NEW i \in 1..(pos' - 1), NEW j \in 1..(pos' - 1), i # j
      PROVE  Extent(file, i) \cap Extent(file, j) = {}
  <2>1. CASE i = pos
    <3>1. j \in 1..(pos - 1)
      BY <1>2, <1>5, <2>1
    <3>2. Extent(file, j) \subseteq occupied
      BY <1>1, <3>1 DEF Parsed
    <3>3. QED
      BY <2>1, <3>2
  <2>2. CASE j = pos
    <3>1. i \in 1..(pos - 1)
      BY <1>2, <1>5, <2>2
    <3>2. Extent(file, i) \subseteq occupied
      BY <1>1, <3>1 DEF Parsed
    <3>3. QED
      BY <2>2, <3>2
  <2>3. CASE i # pos /\ j # pos
    BY <1>1, <1>2, <1>5, <2>3 DEF Parsed
  <2>4. QED
    BY <2>1, <2>2, <2>3
<1>6. ASSUME NEW b \in occupied'
      PROVE  \E i \in 1..(pos' - 1) : b \in Extent(file, i)
  <2>1. CASE b \in occupied
    <3>1. PICK i \in 1..(pos - 1) : b \in Extent(file, i)
      BY <1>1, <2>1 DEF Parsed
    <3>2. QED
      BY <1>2, <3>1
  <2>2. CASE b \in Extent(file, pos)
    BY <1>2, <2>2
  <2>3. QED
    BY <1>6, <2>1, <2>2
<1>7. ASSUME NEW i \in 1..(pos' - 1)
      PROVE  /\ WellFormed(file[i]) /\ Extent(file, i) \subseteq occupied'
             /\ file[i].type = "eof" => i = pos' - 1 /\ sawEof'
  <2>1. CASE i = pos
    BY <1>1, <2>1
  <2>2. CASE i \in 1..(pos - 1)
    BY <1>4, <2>2
  <2>3. QED
    BY <1>2, <2>1, <2>2
<1>8. sawEof' => pos' > 1 /\ file[pos' - 1].type = "eof"
  BY <1>1
<1>9. QED
  BY <1>3, <1>5, <1>6, <1>7, <1>8 DEF Parsed

LEMMA ExtentIsSpan ==
    ASSUME TypeOK, Parsed, Parsing, Line.type = "data"
    PROVE  Extent(file, pos) = Span
<1>1. InEffect(file, pos, upper) /\ upper \in Nat /\ pos \in Nat /\ file[pos].type = "data"
  BY LineTyped DEF Parsed, Parsing, Line, TypeOK
<1>2. QED
  BY <1>1, ExtentIs DEF Span, Absolute, Line

LEMMA ParsedStep == TypeOK /\ Unparsed /\ Parsed /\ [Next]_vars => Parsed'
<1> SUFFICES ASSUME TypeOK, Unparsed, Parsed, [Next]_vars
             PROVE  Parsed'
  OBVIOUS
<1>1. ASSUME NEW n \in 0..(MaxLines + 1), Declare(n)
      PROVE  Parsed'
  BY <1>1 DEF Declare, Refuse, Parsed
<1>2. ASSUME NEW line \in Lines, Receive(line)
      PROVE  Parsed'
  BY <1>2 DEF Receive, Parsed
<1>3. CASE ReceiveFails \/ ReadFails \/ LineRefused \/ FileRefused \/ Stored
  BY <1>3 DEF ReceiveFails, ReadFails, LineRefused, FileRefused, Refuse, Stored, Parsed
<1>4. CASE Read
  BY <1>4 DEF Read, Unparsed, Parsed, parseVars, InEffect
<1>5. CASE Accept \/ UNCHANGED vars
  BY <1>5 DEF Accept, vars, Parsed, parseVars
<1>6. CASE Data
  <2>1. Parsing /\ DataAdmitted /\ Line.type = "data" /\ ~sawEof
    BY <1>6 DEF Data, DataAdmitted
  <2>2. Extent(file, pos) = Span
    BY <2>1, ExtentIsSpan
  <2>3. WellFormed(Line) /\ Span \cap occupied = {}
    BY <2>1 DEF DataAdmitted, WellFormed
  <2>4. QED
    <3>1. /\ UNCHANGED <<file, phase, upper>> /\ pos' = pos + 1 /\ ~sawEof'
          /\ occupied' = occupied \cup Extent(file, pos)
      BY <1>6, <2>1, <2>2 DEF Data
    <3>2. Extent(file, pos) \cap occupied = {}
      BY <2>2, <2>3
    <3>3. QED
      BY <2>1, <2>3, <3>1, <3>2, TakeLine
<1>7. CASE Eof \/ Base
  <2>1. Parsing /\ ~sawEof /\ Line.type \in {"eof", "base"} /\ WellFormed(Line)
    BY <1>7 DEF Eof, Base, EofAdmitted, BaseAdmitted, WellFormed
  <2>2. Extent(file, pos) = {}
    BY <2>1, NoExtent DEF Line
  <2>3. QED
    <3>1. /\ UNCHANGED <<file, phase, occupied>> /\ pos' = pos + 1
          /\ sawEof' <=> Line.type = "eof"
          /\ upper' = IF Line.type = "base" THEN Line.upper ELSE upper
      BY <1>7, <2>1 DEF Eof, Base, EofAdmitted, BaseAdmitted
    <3>2. occupied' = occupied \cup Extent(file, pos) /\ Extent(file, pos) \cap occupied = {}
      BY <2>2, <3>1
    <3>3. QED
      BY <2>1, <3>1, <3>2, TakeLine
<1>8. QED
  BY <1>1, <1>2, <1>3, <1>4, <1>5, <1>6, <1>7 DEF Next, Terminated

LEMMA CountedStep == TypeOK /\ Counted /\ [Next]_vars => Counted'
<1> SUFFICES ASSUME TypeOK, Counted, [Next]_vars
             PROVE  Counted'
  OBVIOUS
<1>1. CASE UNCHANGED <<occupied, dataBytes, lowest, highest>>
  BY <1>1 DEF Counted
<1>2. CASE Data
  <2>1. Parsing /\ DataAdmitted /\ Span \cap occupied = {}
    BY <1>2 DEF Data, DataAdmitted
  <2>2. /\ Span \subseteq Flash /\ Absolute \in Span /\ Absolute + Line.count - 1 \in Span
        /\ \A b \in Span : Absolute <= b /\ b <= Absolute + Line.count - 1
        /\ IsFiniteSet(Span) /\ Cardinality(Span) = Line.count
    BY <2>1, SpanTyped
  <2>3. /\ occupied' = occupied \cup Span /\ dataBytes' = dataBytes + Line.count
        /\ lowest' = IF lowest = None \/ Absolute < lowest THEN Absolute ELSE lowest
        /\ highest' = IF Absolute + Line.count - 1 > highest THEN Absolute + Line.count - 1 ELSE highest
    BY <1>2 DEF Data
  <2>4. IsFiniteSet(occupied') /\ dataBytes' = Cardinality(occupied')
    <3>1. Cardinality(occupied \cup Span) = Cardinality(occupied) + Cardinality(Span) - 0
      BY <2>1, <2>2, FS_Union, FS_EmptySet DEF Counted
    <3>2. IsFiniteSet(occupied \cup Span)
      BY <2>2, FS_Union DEF Counted
    <3>3. Cardinality(occupied) \in Nat /\ Line.count \in Nat
      BY <2>1, FS_CardinalityType, LineTyped DEF Counted
    <3>4. QED
      BY <2>2, <2>3, <3>1, <3>2, <3>3 DEF Counted
  <2>5. \A b \in occupied \cup Span : b \in Int
    BY <2>2 DEF TypeOK, Flash
  <2>6. Absolute \in Int /\ Line.count \in Int
    BY <2>1, LineTyped
  <2>7. \A b \in Flash : b # None /\ b > None
    BY DEF Flash, None
  <2>8. /\ lowest' \in occupied' /\ highest' \in occupied'
        /\ \A b \in occupied' : lowest' <= b /\ b <= highest'
    <3>1. CASE occupied = {} /\ lowest = None /\ highest = None
      BY <2>2, <2>3, <2>7, <3>1
    <3>2. CASE lowest \in occupied /\ highest \in occupied /\ occupied \subseteq lowest..highest
      <4>1. lowest # None /\ \A b \in occupied : lowest <= b /\ b <= highest
        BY <2>7, <3>2 DEF TypeOK
      <4>2. QED
        BY <2>2, <2>3, <2>5, <2>6, <3>2, <4>1
    <3>3. QED
      BY <3>1, <3>2 DEF Counted
  <2>9. occupied' \subseteq lowest'..highest'
    <3>1. \A b \in occupied' : b \in Int
      BY <2>3, <2>5
    <3>2. lowest' \in Int /\ highest' \in Int
      BY <2>8, <3>1
    <3>3. \A b \in occupied' : b \in lowest'..highest'
      BY <2>8, <3>1, <3>2
    <3>4. QED
      BY <3>3
  <2>10. QED
    BY <2>4, <2>8, <2>9 DEF Counted
<1>3. QED
  BY <1>1, <1>2 DEF Next, Terminated, vars, parseVars, Declare, Receive, ReceiveFails, Stored, Read,
     ReadFails, Eof, Base, LineRefused, Accept, FileRefused, Refuse

----------------------------------------------------------------------------
(* The theorems                                                            *)

\* All lines taken and the end seen: the file is an image.
LEMMA CompleteIsImage ==
    ASSUME TypeOK, Parsed, phase = "accepted", pos = Len(file) + 1, Complete
    PROVE  IsImage(file)
<1>1. Len(file) \in Nat /\ pos - 1 = Len(file)
  BY DEF TypeOK
<1>2. 0 \in Programmed(file)
  <2>1. PICK i \in 1..Len(file) : 0 \in Extent(file, i)
    BY <1>1 DEF Complete, Parsed
  <2>2. QED
    BY <2>1 DEF Programmed
<1>3. \A i \in 1..Len(file) : file[i].type = "eof" <=> i = Len(file)
  BY <1>1 DEF Complete, Parsed
<1>4. \A i \in 1..Len(file) : Extent(file, i) \subseteq Flash
  BY <1>1 DEF Parsed, TypeOK
<1>5. QED
  BY <1>1, <1>2, <1>3, <1>4 DEF Parsed, IsImage

\* A line that is refused could not be part of an image.
LEMMA RefusedLine ==
    ASSUME TypeOK, Parsed, LineRefused
    PROVE  ~IsImage(file)
<1> SUFFICES ASSUME IsImage(file)
             PROVE  FALSE
  OBVIOUS
<1>1. Parsing /\ phase = "parse" /\ Line = file[pos]
  BY DEF LineRefused, Parsing, Line
<1>2. pos \in 1..Len(file) /\ Len(file) \in Nat /\ WellFormed(Line)
  BY <1>1, LineTyped DEF IsImage
<1>3. ~sawEof
  BY <1>1, <1>2 DEF Parsed, IsImage
<1>4. ~DataAdmitted /\ Line.type = "data" /\ Line.count > 0
  BY <1>2, <1>3 DEF LineRefused, WellFormed, EofAdmitted, BaseAdmitted
<1>5. Extent(file, pos) = Span
  BY <1>1, <1>4, ExtentIsSpan
<1>6. Absolute + Line.count <= FlashSize
  <2>1. Absolute \in Nat /\ Line.count \in Nat
    BY <1>1, LineTyped
  <2>2. Absolute + Line.count - 1 \in Span
    BY <1>4, <2>1 DEF Span
  <2>3. Absolute + Line.count - 1 \in Flash
    BY <1>2, <1>5, <2>2 DEF IsImage
  <2>4. QED
    BY <2>1, <2>3, SizesAssumption DEF Flash
<1>7. PICK b : b \in Span /\ b \in occupied
  BY <1>4, <1>6 DEF DataAdmitted
<1>8. PICK i \in 1..(pos - 1) : b \in Extent(file, i)
  BY <1>1, <1>7 DEF Parsed
<1>9. i \in 1..Len(file) /\ i # pos
  BY <1>2, <1>8
<1>10. QED
  BY <1>2, <1>5, <1>7, <1>8, <1>9 DEF IsImage

\* Nor is a file an image that ends without its end or without its start.
LEMMA RefusedFile ==
    ASSUME TypeOK, Parsed, Counted, FileRefused
    PROVE  ~IsImage(file)
<1> SUFFICES ASSUME IsImage(file)
             PROVE  FALSE
  OBVIOUS
<1>1. phase = "parse" /\ pos - 1 = Len(file) /\ Len(file) \in Nat /\ ~Complete
  BY DEF FileRefused, TypeOK
<1>2. PICK i \in 1..Len(file) : 0 \in Extent(file, i)
  BY DEF IsImage, Programmed
<1>3. 0 \in occupied
  BY <1>1, <1>2 DEF Parsed
<1>4. dataBytes # 0
  BY <1>3, FS_EmptySet DEF Counted
<1>5. Len(file) \in 1..Len(file)
  BY <1>1, <1>2
<1>6. sawEof
  BY <1>1, <1>5 DEF Parsed, IsImage
<1>7. QED
  BY <1>1, <1>3, <1>4, <1>6 DEF Complete

LEMMA EndedStep ==
    TypeOK /\ Unparsed /\ Parsed /\ Counted /\ Ended /\ [Next]_vars => Ended'
<1> SUFFICES ASSUME TypeOK, Unparsed, Parsed, Counted, Ended, [Next]_vars
             PROVE  Ended'
  OBVIOUS
<1>1. ASSUME NEW n \in 0..(MaxLines + 1), Declare(n)
      PROVE  Ended'
  BY <1>1 DEF Declare, Refuse, Ended, Unparsed, parseVars
<1>2. ASSUME NEW line \in Lines, Receive(line)
      PROVE  Ended'
  BY <1>2 DEF Receive, Ended
<1>3. CASE ReceiveFails \/ ReadFails \/ Stored \/ Read
  BY <1>3 DEF ReceiveFails, ReadFails, Stored, Read, Refuse, Ended, Unparsed, parseVars
<1>4. CASE Data \/ Eof \/ Base
  BY <1>4 DEF Data, Eof, Base, Parsing, Ended
<1>5. CASE LineRefused
  <2>1. ~IsImage(file) /\ UNCHANGED file /\ phase' = "refused"
    BY <1>5, RefusedLine DEF LineRefused, Refuse
  <2>2. QED
    BY <2>1 DEF Ended
<1>6. CASE FileRefused
  <2>1. ~IsImage(file) /\ UNCHANGED file /\ phase' = "refused"
    BY <1>6, RefusedFile DEF FileRefused, Refuse
  <2>2. QED
    BY <2>1 DEF Ended
<1>7. CASE Accept
  <2>1. pos = Len(file) + 1 /\ Complete /\ UNCHANGED <<file, pos, sawEof, dataBytes, occupied>>
    BY <1>7 DEF Accept, TypeOK, parseVars
  <2>2. phase' = "accepted"
    BY <1>7 DEF Accept
  <2>3. QED
    BY <2>1, <2>2 DEF Ended, Complete
<1>8. CASE UNCHANGED vars
  BY <1>8 DEF vars, parseVars, Ended, Complete
<1>9. QED
  BY <1>1, <1>2, <1>3, <1>4, <1>5, <1>6, <1>7, <1>8 DEF Next, Terminated

\* The inductive invariant: the parser's locals describe the lines it took.
THEOREM InductiveInvariant == Spec => []IInv
<1>1. Init => IInv
  BY InitHolds
<1>2. IInv /\ [Next]_vars => IInv'
  BY TypeStep, UnparsedStep, ParsedStep, CountedStep, EndedStep DEF IInv
<1>3. QED
  BY <1>1, <1>2, PTL DEF Spec

\* Type correctness of the parser's locals.
THEOREM TypeCorrect == Spec => []TypeOK
<1>1. IInv => TypeOK
  BY DEF IInv
<1>2. QED
  BY <1>1, InductiveInvariant, PTL

\* parse_hex_file() accepts exactly the images, of any size, for any flash.
THEOREM ExactlyImages == Spec => []AdmitsExactlyImages
<1>1. IInv => AdmitsExactlyImages
  <2> SUFFICES ASSUME IInv
               PROVE  AdmitsExactlyImages
    OBVIOUS
  <2>1. ASSUME phase = "accepted"
        PROVE  IsImage(file)
    BY <2>1, CompleteIsImage DEF IInv, Ended
  <2>2. QED
    BY <2>1 DEF IInv, Ended, AdmitsExactlyImages
<1>2. QED
  BY <1>1, InductiveInvariant, PTL

\* The bytes counted and the range reported are those of the accepted file.
THEOREM SummaryHolds == Spec => []SummaryIsTrue
<1>1. IInv => SummaryIsTrue
  <2> SUFFICES ASSUME IInv, phase = "accepted"
               PROVE  /\ dataBytes = Cardinality(Programmed(file))
                      /\ lowest \in Programmed(file) /\ highest \in Programmed(file)
                      /\ Programmed(file) \subseteq lowest..highest
    BY DEF SummaryIsTrue
  <2>1. pos - 1 = Len(file) /\ Len(file) \in Nat /\ Complete
    BY DEF IInv, Ended, TypeOK
  <2>2. Programmed(file) = occupied
    BY <2>1 DEF IInv, Parsed, Programmed
  <2>3. occupied # {}
    BY <2>1 DEF Complete
  <2>4. QED
    BY <2>2, <2>3 DEF IInv, Counted
<1>2. QED
  BY <1>1, InductiveInvariant, PTL
=============================================================================
