------------------------------- MODULE Format -------------------------------
(***************************************************************************)
(* The text conversion of src/src/report.c: one call of report(), whose    *)
(* format _report_sprintf() walks twice, once to count the bytes (out is   *)
(* NULL) and once to store them, with the va_list at the first argument    *)
(* both times.  Each piece of the format, a literal character, a directive *)
(* or the newline report() adds, is turned into characters that            *)
(* _report_utf8x() encodes one by one.                                     *)
(*                                                                         *)
(* A byte is a number below 256, a character (uint16_t) one below 65536.   *)
(* An argument is a number, NULL, a text (the bytes or characters in       *)
(* memory, with the length the caller gives or that precedes them), or a   *)
(* variant; a variant that points to a variant points to one that does     *)
(* not.  Numbers are words of Width8, Width16, Width32 and Width64 values, *)
(* in the place of 2^8, 2^16, 2^32 and 2^64.                               *)
(***************************************************************************)
EXTENDS Integers, Sequences, FiniteSets, SequencesExt

CONSTANTS
  Calls,       (* the calls of report(): a format and its arguments   *)
  Texts,       (* the texts an argument may point to: units in memory *)
  Width8, Width16, Width32, Width64

Units == {c \in Nat : c < 65536}

VARIABLES
  call,        (* fmt and the arguments                               *)
  pass,        (* "size" (out is NULL), "fill", "done"; "idle"        *)
  at,          (* the pieces of the format this pass has begun        *)
  next,        (* the argument va_arg() gives next                    *)
  todo,        (* the characters still to print of this piece         *)
  ret,         (* the bytes counted in this pass                      *)
  len,         (* what the first pass counted                         *)
  out          (* the bytes stored by the second pass, piece by piece *)

vars == <<call, pass, at, next, todo, ret, len, out>>

TwoBytes(c) == << 192 + 4 * (c \div 256) + c \div 64, 128 + (c % 64) >>

(* Mutant of ThreeBytes: the bits 6 and 7 are forgotten. *)
ThreeBytesLossy(c) ==
  << 224 + c \div 4096, 128 + 4 * ((c \div 256) % 32), 128 + (c % 64) >>

ThreeBytes(c) ==
  << 224 + c \div 4096,
     128 + 4 * ((c \div 256) % 32) + ((c \div 64) % 4),
     128 + (c % 64) >>

utf8_encode(c) ==
  IF c < 128 THEN <<c>> ELSE IF c < 2048 THEN TwoBytes(c) ELSE ThreeBytes(c)

Tab == 9
NewLine == 10
Return == 13
Quote == 34
Backslash == 92

(* Mutant of Escape: the quote is not among the cases of the switch. *)
EscapeNoQuote(ch) ==
  CASE ch = Tab     -> <<Backslash, 116>>
    [] ch = Return  -> <<Backslash, 114>>
    [] ch = NewLine -> <<Backslash, 110>>
    [] OTHER        -> <<ch>>

(* The characters _report_character() prints for ch inside quotes. *)
Escape(ch) ==
  CASE ch = Tab     -> <<Backslash, 116>>
    [] ch = Return  -> <<Backslash, 114>>
    [] ch = NewLine -> <<Backslash, 110>>
    [] ch = Quote   -> <<Backslash, Quote>>
    [] OTHER        -> <<ch>>

(* What becomes of a char that is passed as uint16_t. *)
SignExtend(b) == IF b < 128 THEN b ELSE 65280 + b

NullText  == <<60, 110, 117, 108, 108, 62>>        \* "<null>"
EmptyText == <<60, 101, 109, 112, 116, 121, 62>>   \* "<empty>"

Quoted(s) ==
  <<Quote>> \o FlattenSeq([i \in DOMAIN s |-> Escape(s[i])]) \o <<Quote>>

(* _report_ascii and _report_unicode: an empty text is printed as <empty>. *)
Printed(s, quoted) ==
  IF s = <<>> THEN EmptyText ELSE IF quoted THEN Quoted(s) ELSE s

Chars(s) == [i \in DOMAIN s |-> SignExtend(s[i])]

(* The part of s in front of its first zero: strlen and lstrlenW. *)
ToZero(s) ==
  IF \E i \in DOMAIN s : s[i] = 0
    THEN SubSeq(s, 1, (CHOOSE i \in DOMAIN s :
                         s[i] = 0 /\ \A j \in 1..(i - 1) : s[j] # 0) - 1)
    ELSE s

(* sprintf("%u", n) *)
Decimal[n \in Nat] ==
  IF n < 10 THEN <<48 + n>> ELSE Append(Decimal[n \div 10], 48 + (n % 10))

Minus == 45

(* sprintf("%d", n) of the word `bits` *)
Signed(bits) ==
  IF 2 * bits < Width32 THEN Decimal[bits]
    ELSE <<Minus>> \o Decimal[Width32 - bits]

HexChar(n) == IF n < 10 THEN 48 + n ELSE 87 + n

(* The values of the eight digits of a hexadecimal number.                 *)
Places == <<4096 * 65536, 256 * 65536, 16 * 65536, 65536, 4096, 256, 16, 1>>

(* sprintf("%08x", n) *)
Hexadecimal(n) == [i \in 1..8 |-> HexChar((n \div Places[i]) % 16)]

(* The types of a variant that hold a number, and their widths.            *)
Bytewise  == {"I1", "UI1"}
Wordwise  == {"I2", "UI2"}
Longwise  == {"I4", "UI4", "INT", "UINT"}
Quadwise  == {"I8", "UI8"}
Numeric   == Bytewise \cup Wordwise \cup Longwise \cup Quadwise

Width(vt) ==
  CASE vt \in Bytewise -> Width8
    [] vt \in Wordwise -> Width16
    [] vt \in Longwise -> Width32
    [] vt \in Quadwise -> Width64

(* The number printed for one: bVal is unsigned, iVal is signed and is     *)
(* promoted to an int, intVal and llVal are taken as unsigned.             *)
Unsigned(vt, bits) ==
  IF vt \in Wordwise /\ 2 * bits >= Width16
    THEN Width32 - Width16 + bits ELSE bits

(* The values of vt that have a case of their own in _report_variant().    *)
Listed == {1, 2, 3, 8, 11, 12, 30, 31} \cup 16..23

Null == [is |-> "null"]

(* A text in memory, of bytes or of characters, or no text.                *)
AnsiTexts   == {s \in Texts : \A i \in DOMAIN s : s[i] < 256}
Pointers(T) == {Null} \cup [is : {"text"}, text : T]

Scalars ==
  {v \in [is : {"variant"}, vt : Numeric, bits : Nat] : v.bits < Width(v.vt)}
  \cup [is : {"variant"}, vt : {"NULL"}]
  \cup [is : {"variant"}, vt : {"BOOL"}, bits : 0..(Width16 - 1)]
  \cup [is : {"variant"}, vt : {"LPSTR"}, to : Pointers(AnsiTexts)]
  \cup [is : {"variant"}, vt : {"LPWSTR", "BSTR"}, to : Pointers(Texts)]
  \cup [is : {"variant"}, vt : {"other"}, bits : (0..(Width16 - 1)) \ Listed]

Variants == Scalars \cup [is : {"variant"}, vt : {"VARIANT"}, to : Scalars]

(* The arguments a directive is meant for: bytes for z and s, characters   *)
(* for Z, S and b, an int, or a pointer to a variant.                      *)
Arguments(d) ==
  CASE d \in {"z", "s"}      -> Pointers(AnsiTexts)
    [] d \in {"Z", "S", "b"} -> Pointers(Texts)
    [] d \in {"d", "u", "x"} -> [is : {"number"}, bits : 0..(Width32 - 1)]
    [] d = "v"               -> {Null} \cup Variants

(* _report_unicode() or _report_ascii() of what a pointer points to.       *)
Wide(p, s, quoted)   == IF p = Null THEN NullText ELSE Printed(s, quoted)
Narrow(p, s, quoted) == Wide(p, Chars(s), quoted)

TrueText  == <<84, 114, 117, 101>>        \* "True"
FalseText == <<70, 97, 108, 115, 101>>    \* "False"
OtherText(n) == <<60, 86, 84, 95>> \o Decimal[n] \o <<62>>    \* "<VT_%d>"

Target(v) == IF v.vt = "VARIANT" THEN v.to ELSE v

_report_variant(v) ==
  LET t == Target(v) IN
  CASE t.vt = "NULL"     -> NullText
    [] t.vt = "BOOL"     -> IF t.bits # 0 THEN TrueText ELSE FalseText
    [] t.vt \in Numeric  -> Decimal[Unsigned(t.vt, t.bits)]
    [] t.vt = "LPSTR"    -> Narrow(t.to, ToZero(t.to.text), TRUE)
    [] t.vt = "LPWSTR"   -> Wide(t.to, ToZero(t.to.text), TRUE)
    [] t.vt = "BSTR"     -> Wide(t.to, t.to.text, TRUE)
    [] t.vt = "other"    -> OtherText(t.bits)

(* The characters that _report_sprintf() prints for '%d' and argument a.   *)
Directive(d, a) ==
  CASE d = "z"           -> Narrow(a, ToZero(a.text), FALSE)
    [] d = "Z"           -> Wide(a, ToZero(a.text), FALSE)
    [] d = "s"           -> Narrow(a, a.text, TRUE)
    [] d \in {"S", "b"}  -> Wide(a, a.text, TRUE)
    [] d = "d"           -> Signed(a.bits)
    [] d = "u"           -> Decimal[a.bits]
    [] d = "x"           -> Hexadecimal(a.bits)
    [] d = "v"           -> IF a = Null THEN NullText ELSE _report_variant(a)

Directives == {"z", "Z", "s", "S", "d", "u", "x", "b", "v"}

(* A piece of a format: a literal byte, or '%' and a letter.  A letter the *)
(* switch does not know ("other") prints nothing and takes no argument.    *)
Pieces == [is : {"literal"}, char : 1..255 \ {37}]
          \cup [is : {"directive"}, letter : Directives \cup {"other"}]

Takes(p) == p.is = "directive" /\ p.letter \in Directives

(* The number of arguments that the first k pieces of fmt take.            *)
Taken(fmt, k) == Cardinality({j \in 1..k : Takes(fmt[j])})

(* A call that gives each directive the argument it is meant for.          *)
WellFormed(c) ==
  /\ c.fmt \in Seq(Pieces)
  /\ \A k \in DOMAIN c.fmt :
       Takes(c.fmt[k]) =>
         c.args[Taken(c.fmt, k)] \in Arguments(c.fmt[k].letter)

ASSUME FormatAssumption ==
  /\ Texts \subseteq Seq(Units)
  /\ Width8 \in Nat /\ Width16 \in Nat /\ Width32 \in Nat /\ Width64 \in Nat
  /\ 1 < Width8 /\ Width8 < Width16 /\ Width16 < Width32 /\ 1 < Width64
  /\ Width16 % 2 = 0 /\ Width32 % Width16 = 0
  /\ (Width32 - 1) \div (4096 * 65536) < 16
  /\ \A c \in Calls : WellFormed(c)

(* The characters of piece k of a format whose next argument is args[n];   *)
(* behind the last piece is the newline.                                   *)
Characters(c, k, n) ==
  IF k > Len(c.fmt) THEN <<NewLine>>
  ELSE LET p == c.fmt[k] IN
       CASE p.is = "literal" -> <<SignExtend(p.char)>>
         [] Takes(p)         -> Directive(p.letter, c.args[n])
         [] OTHER            -> <<>>

Init ==
  /\ call \in Calls
  /\ pass = "size"
  /\ at = 0
  /\ next = 1
  /\ todo = <<>>
  /\ ret = 0
  /\ len = 0
  /\ out = <<>>

(* One turn of the loop over fmt, up to the first character.               *)
NextPiece ==
  /\ pass \in {"size", "fill"}
  /\ todo = <<>>
  /\ at <= Len(call.fmt)
  /\ at' = at + 1
  /\ todo' = Characters(call, at + 1, next)
  /\ next' = IF at < Len(call.fmt) /\ Takes(call.fmt[at + 1])
               THEN next + 1 ELSE next
  /\ out' = IF pass = "fill" THEN Append(out, <<>>) ELSE out
  /\ UNCHANGED <<call, pass, ret, len>>

(* Mutant of _report_utf8x: the bytes are counted while they are stored. *)
UnitCountedOnce ==
  /\ todo # <<>>
  /\ todo' = Tail(todo)
  /\ ret' = IF pass = "size" THEN ret + 1
               ELSE ret + Len(utf8_encode(Head(todo)))
  /\ out' = IF pass = "fill"
               THEN [out EXCEPT ![at] = @ \o utf8_encode(Head(todo))] ELSE out
  /\ UNCHANGED <<call, pass, at, next, len>>

_report_utf8x ==
  /\ todo # <<>>
  /\ todo' = Tail(todo)
  /\ ret' = ret + Len(utf8_encode(Head(todo)))
  /\ out' = IF pass = "fill"
               THEN [out EXCEPT ![at] = @ \o utf8_encode(Head(todo))] ELSE out
  /\ UNCHANGED <<call, pass, at, next, len>>

PassEnds == todo = <<>> /\ at = Len(call.fmt) + 1

(* char buf[len + 1]; _report_sprintf(buf, fmt, args); *)
SecondPass ==
  /\ pass = "size"
  /\ PassEnds
  /\ pass' = "fill"
  /\ at' = 0
  /\ next' = 1
  /\ len' = ret
  /\ ret' = 0
  /\ UNCHANGED <<call, todo, out>>

Written ==
  /\ pass = "fill"
  /\ PassEnds
  /\ pass' = "done"
  /\ UNCHANGED <<call, at, next, todo, ret, len, out>>

Next == NextPiece \/ _report_utf8x \/ SecondPass \/ Written

Spec == Init /\ [][Next]_vars

-----------------------------------------------------------------------------
(* What piece k is to print, and the whole line.                           *)
Piece(k) == Characters(call, k, Taken(call.fmt, k))
LineTo(n) == FlattenSeq([k \in 1..n |-> Piece(k)])
Line == LineTo(Len(call.fmt) + 1)

Buffer == FlattenSeq(out)

(* The second pass stores exactly as many bytes as the first one counted,  *)
(* whatever directives the format mixes: it never runs out of the buffer   *)
(* that report() made from that count, and fwrite() finds no byte unset    *)
(* (report.c:286-305).                                                     *)
FillFits ==
  /\ pass = "fill" => ret <= len /\ Len(Buffer) = ret
  /\ pass = "done" => Len(Buffer) = len

(* UTF-8 as the standard has it, a surrogate like any other character. *)
Utf8(c) ==
  IF c < 128 THEN <<c>>
  ELSE IF c < 2048 THEN <<192 + c \div 64, 128 + (c % 64)>>
  ELSE <<224 + c \div 4096, 128 + ((c \div 64) % 64), 128 + (c % 64)>>

Utf8Line(s) == FlattenSeq([i \in DOMAIN s |-> Utf8(s[i])])

(* The characters whose bits 8 and above utf8_encode() puts where they     *)
(* belong: bits 8..10 of a two-byte character are added twice, and bit 12  *)
(* of a three-byte one also goes into its second byte.                     *)
Safe(c) == c < 256 \/ (2048 <= c /\ (c \div 4096) % 2 = 0)

(* A line of safe characters is UTF-8 (report.c:26-43).                    *)
SafeLinesAreUtf8 ==
  (pass = "done" /\ \A i \in DOMAIN Line : Safe(Line[i]))
    => Buffer = Utf8Line(Line)

(* Where byte i of b is the first of a character, the number of its bytes. *)
SizeAt(b, i) ==
  IF b[i] < 128 THEN 1
  ELSE IF i + 2 <= Len(b) /\ (b[i + 1] >= 192 \/ b[i + 2] \in 128..191) THEN 3
  ELSE 2

CharAt(b, i) ==
  CASE SizeAt(b, i) = 1 -> b[i]
    [] SizeAt(b, i) = 2 -> 256 * ((b[i] - 192) \div 8)
                           + 64 * ((b[i] - 192) % 8) + b[i + 1] - 128
    [] SizeAt(b, i) = 3 -> 4096 * (b[i] - 224)
                           + 256 * (((b[i + 1] - 128) \div 4) % 16)
                           + 64 * ((b[i + 1] - 128) % 4) + b[i + 2] - 128

(* The characters of b from byte i on. *)
Decoded(b) ==
  LET from[i \in 1..(Len(b) + 3)] ==
        IF i > Len(b) THEN <<>>
          ELSE <<CharAt(b, i)>> \o from[i + SizeAt(b, i)]
  IN from[1]

(* Nothing is lost: although the bytes are not UTF-8 for every character,  *)
(* a reader who knows how utf8_encode() spreads the bits can read every    *)
(* character of a line back, whatever its neighbours are.                  *)
NothingLost == pass = "done" => Decoded(Buffer) = Line

(* The pieces that are directives, and their arguments.                    *)
Arg(k) == call.args[Taken(call.fmt, k)]
Prints(k, letters) ==
  k \in DOMAIN call.fmt /\ Takes(call.fmt[k]) /\ call.fmt[k].letter \in letters

(* The bytes of an ANSI text are read back likewise: a char from 0x80 on   *)
(* is sign extended to a character above 0xff00, of which it is the lowest *)
(* byte (report.c:92-94).                                                  *)
BytesKept ==
  pass = "done" =>
    \A k \in DOMAIN call.fmt :
      (Prints(k, {"z"}) /\ Arg(k) # Null /\ ToZero(Arg(k).text) # <<>>) =>
        [i \in DOMAIN Decoded(out[k]) |-> Decoded(out[k])[i] % 256]
          = ToZero(Arg(k).text)

(* An odd number of backslashes stands directly before place i of b.       *)
OddBefore(b, i) ==
  \E n \in 1..(i - 1) :
    /\ n % 2 = 1
    /\ \A j \in (i - n)..(i - 1) : b[j] = Backslash
    /\ i - n > 1 => b[i - n - 1] # Backslash

(* The quotes of b that a reader who knows "\\" for an escape does not     *)
(* take for part of the text.                                              *)
OpenQuotes(b) == {i \in DOMAIN b : b[i] = Quote /\ ~OddBefore(b, i)}

(* The text that directive d prints in quotes of argument a, if any.       *)
QuotedTexts(d, a) ==
  IF a = Null THEN {}
  ELSE CASE d = "s"          -> {Chars(a.text)}
         [] d \in {"S", "b"} -> {a.text}
         [] d = "v"          ->
              LET t == Target(a) IN
              IF t.vt \notin {"LPSTR", "LPWSTR", "BSTR"} \/ t.to = Null THEN {}
              ELSE {CASE t.vt = "LPSTR"  -> Chars(ToZero(t.to.text))
                      [] t.vt = "LPWSTR" -> ToZero(t.to.text)
                      [] t.vt = "BSTR"   -> t.to.text}
         [] OTHER            -> {}

(* A quoted text stays on its line, and of its quotes the reader takes the *)
(* first and the last for the ends exactly when no quote of the text, nor  *)
(* its end, follows an odd number of backslashes: _report_character()      *)
(* escapes the quote and not the backslash, so a text that ends in one     *)
(* hides the quote that closes it (report.c:56-78).                        *)
QuotedTextClosed ==
  pass = "done" =>
    \A k \in {i \in DOMAIN call.fmt : Takes(call.fmt[i])} :
      \A s \in QuotedTexts(call.fmt[k].letter, Arg(k)) \ {<<>>} :
        /\ \A i \in DOMAIN out[k] : out[k][i] \notin {Tab, NewLine, Return}
        /\ OpenQuotes(out[k]) = {1, Len(out[k])}
             <=> \A i \in 1..(Len(s) + 1) :
                   Append(s, Quote)[i] = Quote => ~OddBefore(s, i)

(* The value of a decimal or hexadecimal digit, and of a row of them.      *)
Digit(c) == IF c \in 48..57 THEN c - 48 ELSE c - 87
Value(base, d) == FoldLeft(LAMBDA v, x : base * v + Digit(x), 0, d)

(* A number can be read back from what was printed: of an int in each of   *)
(* the three ways (report.c:227-240), and of a variant when its type is    *)
(* known: the value itself or, as for VT_UI2 from 0x8000 on, the value and *)
(* a multiple of the width of the type (report.c:138-150).                 *)
NumbersRecoverable ==
  pass = "done" =>
    \A k \in DOMAIN call.fmt :
      /\ Prints(k, {"u"}) => Value(10, out[k]) = Arg(k).bits
      /\ Prints(k, {"x"}) => Value(16, out[k]) = Arg(k).bits
      /\ Prints(k, {"d"}) =>
           Arg(k).bits = IF out[k][1] = Minus
                           THEN Width32 - Value(10, Tail(out[k]))
                           ELSE Value(10, out[k])
      /\ (Prints(k, {"v"}) /\ Arg(k) # Null /\ Target(Arg(k)).vt \in Numeric) =>
           LET t == Target(Arg(k))
               n == Value(10, out[k])
           IN  /\ n % Width(t.vt) = t.bits
               /\ n # t.bits => t.vt \in Wordwise /\ 2 * t.bits >= Width16

(* What was printed can be read back from the line: characters, bytes and  *)
(* numbers, each as far as the four properties above say.                  *)
LineReadBack ==
  SafeLinesAreUtf8 /\ NothingLost /\ BytesKept /\ NumbersRecoverable
=============================================================================
