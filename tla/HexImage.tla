------------------------------ MODULE HexImage ------------------------------
(***************************************************************************)
(* Admission of an uploaded Intel HEX file: the length-delimited copy of   *)
(* write_upload() and the line by line check of parse_hex_file() in        *)
(* app/hexfile.py, against what it means for a file to be an image of the  *)
(* application flash.                                                      *)
(*                                                                         *)
(* The file is a sequence of lines and lengths are counted in lines.  A    *)
(* line is what _parse_record() makes of it: its type, count, address and, *)
(* for an extended linear address, the base in its payload; a line that    *)
(* _parse_record() refuses (marker, length, digits, checksum) is "bad".    *)
(***************************************************************************)
EXTENDS Integers, Sequences, FiniteSets

CONSTANTS
    Lines,      \* the lines a file is made of
    FlashSize,  \* APPLICATION_FLASH_BYTES
    Page,       \* what the 16 address bits of a record span
    MaxLines    \* MAX_HEX_FILE_BYTES

Types == {"data", "eof", "base", "other", "bad"}

ASSUME SizesAssumption == FlashSize \in Nat \ {0} /\ Page \in Nat \ {0} /\ MaxLines \in Nat
ASSUME LinesAssumption ==
    Lines \subseteq [type : Types, count : Nat, address : Nat, upper : Nat]

VARIABLES
    phase,      \* where the upload is
    remaining,  \* what write_upload() has yet to read
    file,       \* the lines of the temporary file
    pos,        \* the line being parsed
    occupied,   \* addresses of the occupied[] bytes that are set
    upper,      \* upper_address
    dataBytes,  \* data_bytes
    lowest,     \* lowest_address
    highest,    \* highest_address
    sawEof      \* saw_eof

parseVars == <<pos, occupied, upper, dataBytes, lowest, highest, sawEof>>
vars == <<phase, remaining, file, parseVars>>

Phases == {"idle", "receive", "stored", "parse", "accepted", "refused"}
Flash == 0..(FlashSize - 1)
None == -1

TypeOK ==
    /\ phase \in Phases
    /\ remaining \in 0..MaxLines
    /\ file \in Seq(Lines)
    /\ Len(file) + remaining <= MaxLines
    /\ pos \in 1..(Len(file) + 1)
    /\ occupied \subseteq Flash
    /\ upper \in Nat
    /\ dataBytes \in Nat
    /\ lowest \in Flash \cup {None}
    /\ highest \in Flash \cup {None}
    /\ sawEof \in BOOLEAN

Init ==
    /\ phase = "idle"
    /\ remaining = 0
    /\ file = <<>>
    /\ pos = 1
    /\ occupied = {}
    /\ upper = 0
    /\ dataBytes = 0
    /\ lowest = None
    /\ highest = None
    /\ sawEof = FALSE

Refuse ==
    /\ phase' = "refused"
    /\ UNCHANGED <<remaining, file, parseVars>>

----------------------------------------------------------------------------
(* write_upload()                                                          *)

\* Content-Length is checked before a file is made.
Declare(n) ==
    /\ phase = "idle"
    /\ IF n \in 1..MaxLines
         THEN /\ phase' = "receive"
              /\ remaining' = n
              /\ UNCHANGED <<file, parseVars>>
         ELSE Refuse

Receive(line) ==
    /\ phase = "receive"
    /\ remaining > 0
    /\ file' = Append(file, line)
    /\ remaining' = remaining - 1
    /\ UNCHANGED <<phase, parseVars>>

\* The client stops sending, or the file cannot be written.
ReceiveFails == phase = "receive" /\ Refuse

Stored ==
    /\ phase = "receive"
    /\ remaining = 0
    /\ phase' = "stored"
    /\ UNCHANGED <<remaining, file, parseVars>>

----------------------------------------------------------------------------
(* parse_hex_file()                                                        *)

\* stat() and read_bytes() agree; a file that changed in between is refused.
Read ==
    /\ phase = "stored"
    /\ phase' = "parse"
    /\ UNCHANGED <<remaining, file, parseVars>>

ReadFails == phase = "stored" /\ Refuse

Line == file[pos]
Absolute == upper * Page + Line.address
Span == Absolute..(Absolute + Line.count - 1)

\* Fault variant of DataAdmitted: the last byte of flash is refused.
DataAdmittedShort ==
    /\ Line.type = "data"
    /\ Line.count > 0
    /\ Absolute + Line.count < FlashSize
    /\ Span \cap occupied = {}

DataAdmitted ==
    /\ Line.type = "data"
    /\ Line.count > 0
    /\ Absolute + Line.count <= FlashSize
    /\ Span \cap occupied = {}

EofAdmitted == Line.type = "eof" /\ Line.count = 0 /\ Line.address = 0
BaseAdmitted == Line.type = "base" /\ Line.count = 2 /\ Line.address = 0

Parsing == phase = "parse" /\ pos <= Len(file)

\* Fault variant of Data: the last record's end is taken for the highest.
DataLastHighest ==
    /\ Parsing
    /\ ~sawEof
    /\ DataAdmitted
    /\ pos' = pos + 1
    /\ occupied' = occupied \cup Span
    /\ dataBytes' = dataBytes + Line.count
    /\ lowest' = IF lowest = None THEN Absolute ELSE lowest
    /\ highest' = Absolute + Line.count - 1
    /\ UNCHANGED <<phase, remaining, file, upper, sawEof>>

Data ==
    /\ Parsing
    /\ ~sawEof
    /\ DataAdmitted
    /\ pos' = pos + 1
    /\ occupied' = occupied \cup Span
    /\ dataBytes' = dataBytes + Line.count
    /\ lowest' = IF lowest = None \/ Absolute < lowest THEN Absolute ELSE lowest
    /\ highest' = IF Absolute + Line.count - 1 > highest THEN Absolute + Line.count - 1 ELSE highest
    /\ UNCHANGED <<phase, remaining, file, upper, sawEof>>

Eof ==
    /\ Parsing
    /\ ~sawEof
    /\ EofAdmitted
    /\ pos' = pos + 1
    /\ sawEof' = TRUE
    /\ UNCHANGED <<phase, remaining, file, occupied, upper, dataBytes, lowest, highest>>

Base ==
    /\ Parsing
    /\ ~sawEof
    /\ BaseAdmitted
    /\ pos' = pos + 1
    /\ upper' = Line.upper
    /\ UNCHANGED <<phase, remaining, file, occupied, dataBytes, lowest, highest, sawEof>>

LineRefused ==
    /\ Parsing
    /\ sawEof \/ ~(DataAdmitted \/ EofAdmitted \/ BaseAdmitted)
    /\ Refuse

Complete == sawEof /\ dataBytes # 0 /\ 0 \in occupied

Accept ==
    /\ phase = "parse"
    /\ pos > Len(file)
    /\ Complete
    /\ phase' = "accepted"
    /\ UNCHANGED <<remaining, file, parseVars>>

FileRefused ==
    /\ phase = "parse"
    /\ pos > Len(file)
    /\ ~Complete
    /\ Refuse

Terminated == phase \in {"accepted", "refused"} /\ UNCHANGED vars

Next ==
    \/ \E n \in 0..(MaxLines + 1) : Declare(n)
    \/ \E line \in Lines : Receive(line)
    \/ ReceiveFails \/ Stored \/ Read \/ ReadFails
    \/ Data \/ Eof \/ Base \/ LineRefused
    \/ Accept \/ FileRefused
    \/ Terminated

Spec == Init /\ [][Next]_vars

----------------------------------------------------------------------------
(* What an image is, without an order of reading                           *)

\* Line j of f sets the base that line i is addressed from.
SetsBase(f, j, i) ==
    /\ j \in 1..(i - 1)
    /\ f[j].type = "base"
    /\ \A k \in (j + 1)..(i - 1) : f[k].type # "base"

\* The bytes that line i of f programs.
Extent(f, i) ==
    LET first(b) == b * Page + f[i].address
        span(b) == first(b)..(first(b) + f[i].count - 1)
    IN  IF f[i].type # "data" THEN {}
        ELSE IF \E j \in 1..(i - 1) : SetsBase(f, j, i)
             THEN span(f[CHOOSE j \in 1..(i - 1) : SetsBase(f, j, i)].upper)
             ELSE span(0)

WellFormed(line) ==
    \/ line.type = "data" /\ line.count > 0
    \/ line.type = "eof" /\ line.count = 0 /\ line.address = 0
    \/ line.type = "base" /\ line.count = 2 /\ line.address = 0

\* The bytes the file programs.
Programmed(f) == UNION {Extent(f, i) : i \in 1..Len(f)}

IsImage(f) ==
    /\ \A i \in 1..Len(f) : WellFormed(f[i])
    /\ \A i \in 1..Len(f) : f[i].type = "eof" <=> i = Len(f)
    /\ \A i \in 1..Len(f) : Extent(f, i) \subseteq Flash
    /\ \A i, j \in 1..Len(f) : i # j => Extent(f, i) \cap Extent(f, j) = {}
    /\ 0 \in Programmed(f)

----------------------------------------------------------------------------
(* Properties                                                              *)

\* Exactly the images are admitted.  Every byte an accepted file programs lies
\* in the application flash, whatever base addresses and lengths its lines
\* combine, none is programmed twice, and the reset vector is there; a file
\* the parser refuses after a line it took is no image.
AdmitsExactlyImages ==
    /\ phase = "accepted" => IsImage(file)
    /\ phase = "refused" /\ pos > 1 => ~IsImage(file)

\* What HexImage says of the file - its data bytes and its range - is true of
\* the bytes it programs.
SummaryIsTrue ==
    phase = "accepted" =>
        /\ dataBytes = Cardinality(Programmed(file))
        /\ lowest \in Programmed(file) /\ highest \in Programmed(file)
        /\ Programmed(file) \subseteq lowest..highest
=============================================================================
