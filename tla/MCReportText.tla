---------------------------- MODULE MCReportText ----------------------------
(***************************************************************************)
(* One call of report() with one directive and any argument it is meant    *)
(* for: a text of up to two characters, taken from the boundaries of       *)
(* utf8_encode() and of its bit fields, the escapes and their neighbours,  *)
(* longer ones with runs of backslashes, NULL, or a number at the          *)
(* boundaries of its width; or with two or three pieces, literals and      *)
(* directives of different lengths.  Or one call of hexdump() with a       *)
(* length around the row and the cap and one odd byte.                     *)
(***************************************************************************)
EXTENDS Hexdump

(* 0, tab, newline, return, the quote, an 'n', the backslash, ...          *)
MCUnits == {0, 9, 10, 13, 34, 110, 92, 127, 128, 233, 255,
            256, 1023, 1024, 1152, 2047, 2048, 4095, 4096, 8192, 12354,
            55296, 65408, 65535}

MCTexts == {<<>>} \cup {<<c>> : c \in MCUnits} \cup (MCUnits \X MCUnits)
           \cup {<<34, c, 92>> : c \in MCUnits}
           \cup UNION {[1..n -> {92, 34}] : n \in 1..4}

(* The numbers of at most three bits, and those around the sign bit, the   *)
(* end of the type and the end of the hexadecimal digits.                  *)
Near(n)  == {n - 1, n, n + 1}
Bits(w)  == (0..7 \cup Near(w \div 2) \cup Near(65536) \cup {w - 2, w - 1})
            \cap 0..(w - 1)

Picked(d) ==
  IF d \in {"d", "u", "x"} THEN [is : {"number"}, bits : Bits(Width32)]
  ELSE IF d # "v" THEN Arguments(d)
  ELSE LET some ==
             UNION {[is : {"variant"}, vt : {t}, bits : Bits(Width(t))] : t \in Numeric}
             \cup [is : {"variant"}, vt : {"NULL"}]
             \cup [is : {"variant"}, vt : {"BOOL"}, bits : Bits(Width16)]
             \cup [is : {"variant"}, vt : {"LPSTR"}, to : Pointers(AnsiTexts)]
             \cup [is : {"variant"}, vt : {"LPWSTR", "BSTR"}, to : Pointers(Texts)]
             \cup [is : {"variant"}, vt : {"other"}, bits : {0, 9, 13, 24, 8200}]
       IN  {Null} \cup some
           \cup [is : {"variant"}, vt : {"VARIANT"},
                to : {v \in some : v.vt \notin {"LPSTR", "LPWSTR"}}]

Pieces1 == {[is |-> "literal", char |-> 61], [is |-> "literal", char |-> 228],
            [is |-> "directive", letter |-> "other"]}

Letter(d) == [is |-> "directive", letter |-> d]

(* An argument or two of each directive, for the formats of several pieces *)
Sample(d) ==
  CASE d \in {"z", "s", "Z", "S", "b"} -> {Null, [is |-> "text", text |-> <<34, 128>>]}
    [] d \in {"d", "u", "x"} -> {[is |-> "number", bits |-> Width32 - 5]}
    [] d = "v" -> {[is |-> "variant", vt |-> "I2", bits |-> Width16 - 1]}

MCCalls ==
  UNION {{[fmt |-> <<Letter(d)>>, args |-> <<a>>] : a \in Picked(d)} : d \in Directives}
  \cup {[fmt |-> <<p, q>>, args |-> <<>>] : p, q \in Pieces1}
  \cup UNION {{[fmt |-> <<Letter(d), p, Letter(e)>>, args |-> <<a, b>>] :
                 p \in Pieces1, a \in Sample(d), b \in Sample(e)} :
               d, e \in Directives}

MCLengths == {-1, 0, 1, 7, 8, 9, 15, 16, 17, 31, 32, 33, 40}

Plain(i) == 97 + (i % 16)
Odd == {0, 31, 32, 125, 126, 128, 255}

MCMemories == {[i \in 0..40 |-> IF i = p THEN b ELSE Plain(i)] :
                 p \in {0, 7, 8, 13, 14, 15, 16, 31}, b \in Odd}
=============================================================================
