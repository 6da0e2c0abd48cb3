------------------------------ MODULE Hexdump ------------------------------
(***************************************************************************)
(* hexdump(), src/src/report.c:310, on top of report().  One call dumps    *)
(* `length` bytes: a header line with the range, then one report("%z") per *)
(* row of 16 bytes.  A row is laid out by overlapping writes into one      *)
(* buffer: every sprintf() ends in a NUL that a later store has to cover,  *)
(* and the last store ends the line on purpose.  What reaches the log is   *)
(* what Format says "%z" prints of that buffer.                            *)
(* Cap is the limit on the length (0x1000 in the code).                    *)
(*                                                                         *)
(* A behaviour of TextSpec is one call of report() or one of hexdump().    *)
(***************************************************************************)
EXTENDS Format

CONSTANTS Cap, Lengths, Memories

ASSUME HexdumpAssumption ==
  /\ Cap \in Nat /\ Cap % 16 = 0 /\ Cap <= 65536
  /\ Lengths \subseteq Int
  /\ \A m \in Memories : \A a \in 0..(Cap - 1) : m[a] \in 0..255

VARIABLES
  hpc,         (* "call", "rows", "done"; "idle" in a call of report()*)
  mem,         (* the bytes behind addr                               *)
  asked,       (* the argument `length`                               *)
  length, offset, ptr,
  header,      (* the range of the header line                        *)
  rows         (* the lines printed                                   *)

hexVars == <<hpc, mem, asked, length, offset, ptr, header, rows>>

NUL == 0
Blank == 32
Dot == 46

\* The columns of byte i of a row: its two digits, the blank after them,
\* its character.

HexAt(i) == i * 3 + 6 + (IF i > 7 THEN 1 ELSE 0)

(* Mutant of BlankAt: the third column, where sprintf() put a blank already. *)
BlankAtThird(i) == HexAt(i) + 2

BlankAt(i) == i * 3 + 9 + (IF i > 7 THEN 1 ELSE 0)
AsciiAt(i) == 16 * 3 + 9 + i

Visible(b) == b >= 32 /\ b < 126

\* sprintf(): the characters and the NUL behind them, over what was there.
Sprintf(buf, col, chars) ==
    [k \in DOMAIN buf |->
        IF k \in col .. (col + Len(chars) - 1) THEN chars[k - col + 1]
        ELSE IF k = col + Len(chars) THEN NUL ELSE buf[k]]

OffsetText(o) ==
    <<HexChar((o \div 4096) % 16), HexChar((o \div 256) % 16),
      HexChar((o \div 16) % 16), HexChar(o % 16), Blank, Blank>>
ByteText(b) == <<HexChar(b \div 16), HexChar(b % 16), Blank>>

\* One turn of the inner loop.
PutByte(buf, i, b) ==
    [Sprintf(buf, HexAt(i), ByteText(b)) EXCEPT
        ![BlankAt(i)] = Blank, ![AsciiAt(i)] = IF Visible(b) THEN b ELSE Dot]

EndOfRow == 16 * 4 + 7

\* The buffer of the row of `bytes` at offset o.
RowBuffer(o, bytes) ==
    LET blank == Sprintf([k \in 0..127 |-> Blank], 0, OffsetText(o))
        filled[i \in 0..Len(bytes)] ==
            IF i = 0 THEN blank ELSE PutByte(filled[i - 1], i - 1, bytes[i])
    IN  [filled[Len(bytes)] EXCEPT
            ![8 * 3 + 6] = Blank, ![16 * 3 + 7] = Blank, ![16 * 3 + 8] = Blank,
            ![EndOfRow] = NUL]

\* The buffer as the text it is in memory, and the line report("%z") makes
\* of it, without the newline.
RowText(buf) == Directive("z", [is |-> "text", text |-> [k \in 1..128 |-> buf[k - 1]]])

Smaller(a, b) == IF a < b THEN a ELSE b

HexInit ==
    /\ hpc = "call" /\ mem \in Memories /\ asked \in Lengths
    /\ length = asked /\ offset = 0 /\ ptr = 0
    /\ header = <<>> /\ rows = <<>>

\* The header is printed before the length is cut down.
Start ==
    /\ hpc = "call" /\ hpc' = "rows"
    /\ header' = <<0, asked>>
    /\ length' = Smaller(asked, Cap)
    /\ UNCHANGED <<mem, asked, offset, ptr, rows>>

Count(n) == Smaller(n, 16)

Row ==
    /\ hpc = "rows" /\ length > 0
    /\ \E buf \in {RowBuffer(offset, [i \in 1..Count(length) |-> mem[ptr + i - 1]])} :
           rows' = Append(rows, RowText(buf))
    /\ ptr' = ptr + Count(length)
    /\ offset' = offset + 16 /\ length' = length - 16
    /\ UNCHANGED <<hpc, mem, asked, header>>

HexReturn ==
    /\ hpc = "rows" /\ length <= 0 /\ hpc' = "done"
    /\ UNCHANGED <<mem, asked, length, offset, ptr, header, rows>>

HexNext == Start \/ Row \/ HexReturn

HexIdle ==
    /\ hpc = "idle" /\ mem = <<>> /\ asked = 0 /\ length = 0 /\ offset = 0
    /\ ptr = 0 /\ header = <<>> /\ rows = <<>>

FormatIdle ==
    /\ call = <<>> /\ pass = "idle" /\ at = 0 /\ next = 0
    /\ todo = <<>> /\ ret = 0 /\ len = 0 /\ out = <<>>

TextInit == (Init /\ HexIdle) \/ (FormatIdle /\ HexInit)

TextNext == (Next /\ UNCHANGED hexVars) \/ (HexNext /\ UNCHANGED vars)

TextSpec == TextInit /\ [][TextNext]_<<vars, hexVars>>

-----------------------------------------------------------------------------
\* The number of bytes the call has to show.
Wanted == IF asked < 0 THEN 0 ELSE Smaller(asked, Cap)

InRow(r) == Smaller(Wanted - 16 * (r - 1), 16)

\* No row is cut short: the NUL each sprintf() leaves inside the buffer is
\* covered by a later store, so each line reaches the column where
\* src/src/report.c:327 ends it, and a short last row is padded to the same width.
RowsComplete == \A r \in DOMAIN rows : Len(rows[r]) = EndOfRow

\* The dump can be read back: the digits in the columns of row r, byte i are
\* those of byte 16r+i of the memory and the offset of the row is printed,
\* though neighbouring bytes overwrite each other's separators.
DigitsReadBack ==
    \A r \in DOMAIN rows :
        /\ 4096 * Digit(rows[r][1]) + 256 * Digit(rows[r][2])
             + 16 * Digit(rows[r][3]) + Digit(rows[r][4]) = 16 * (r - 1)
        /\ \A i \in 0..InRow(r) - 1 :
            16 * Digit(rows[r][HexAt(i) + 1]) + Digit(rows[r][HexAt(i) + 2]) = mem[16 * (r - 1) + i]

\* The text column is safe to print and agrees with the digits as far as the
\* line reaches: bytes 0..13 of a row are shown as themselves or as a dot, and
\* a control character, a DEL or a byte from 0x80 never reaches the line.  (The
\* line ends at column 71, where the character of byte 14 is: the last two
\* characters of a full row are lost.)
TextAgrees ==
    \A r \in DOMAIN rows :
        /\ \A k \in DOMAIN rows[r] : rows[r][k] \in 32..126
        /\ \A i \in 0..Smaller(InRow(r), 14) - 1 :
            rows[r][AsciiAt(i) + 1] \in {mem[16 * (r - 1) + i], Dot}

\* When the call returns, the rows show exactly the first
\* min(length, 0x1000) bytes, none missing and none beyond, all of them
\* within the range the header announced.
DumpComplete ==
    hpc = "done" =>
        /\ Len(rows) = (Wanted + 15) \div 16
        /\ ptr = Wanted
        /\ Wanted > 0 => header[1] <= 0 /\ ptr <= header[2]
        /\ \A r \in DOMAIN rows : \A i \in InRow(r)..15 :
            rows[r][HexAt(i) + 1] = Blank /\ rows[r][HexAt(i) + 2] = Blank

\* Whatever the length and the bytes are, the dump is whole and can be read.
HexdumpReadable == RowsComplete /\ DigitsReadBack /\ TextAgrees /\ DumpComplete
=============================================================================
