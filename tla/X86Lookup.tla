----------------------------- MODULE X86Lookup -----------------------------
(***************************************************************************)
(* Which instruction stands at the opcode: distorm3.2-package/src/         *)
(* instructions.c.  A lookup takes the record w of X86Prefix and gives     *)
(* back << the record it leaves, the row it found >>.                      *)
(***************************************************************************)
EXTENDS X86Info, X86Prefix

INST_WAIT_INDEX == 155
INST_LEA_INDEX == 141
INST_ARPL_INDEX == 99
INST_NOP_INDEX == 144
ESCAPE_3DNOW == 15

Here(w) == Byte(w, w.code)
Advance(w) == [w EXCEPT !.code = @ + 1, !.codeLen = @ - 1]
Reg(byte) == (byte \div 8) % 8
InstType(in) == INST_NODE_TYPE(in)
IsInst(in) == InstType(in) < INT_INFOS

Drop(w, flag) == [w EXCEPT !.decodedPrefixes = @ \ {flag}]

-----------------------------------------------------------------------------
(* Which of the prefixes is a part of the opcode; NoIndex when there are   *)
(* too many of them.                                                       *)
MandatoryIndex(prefixes) ==
  IF {"PRE_REP", "PRE_REPNZ"} \subseteq prefixes THEN NoIndex
  ELSE IF "PRE_REPNZ" \in prefixes THEN 3
  ELSE IF "PRE_REP" \in prefixes THEN 2
  ELSE IF "PRE_OP_SIZE" \in prefixes THEN 1 ELSE 0

(* Mutant of inst_lookup_prefixed: the prefix stays an ordinary one. *)
inst_lookup_prefixedKept(w, in) ==
  LET ii == inst_get_info(in, MandatoryIndex(w.decodedPrefixes))
  IN  <<w, IF ii = NULL THEN inst_get_info(in, 0) ELSE ii>>

(* Next to REP or REPNZ, the operand size prefix must be one for real; the *)
(* row without a prefix stands in for one that does not exist.              *)
LookupPrefixed(w, index, ii, plain) ==
  LET checkOpSize == index > 1 /\ "PRE_OP_SIZE" \in w.decodedPrefixes
      used        == CASE index = 3 -> Drop(w, "PRE_REPNZ")
                       [] index = 2 -> Drop(w, "PRE_REP")
                       [] index = 1 -> [Drop(w, "PRE_OP_SIZE") EXCEPT !.isOpSizeMandatory = TRUE]
                       [] OTHER     -> w
  IN  IF \/ index = NoIndex
         \/ checkOpSize /\ ii = NULL
         \/ checkOpSize /\ "PRE_OP_SIZE" \notin ii.flags
      THEN <<used, NULL>>
      ELSE <<used, IF ii = NULL THEN plain ELSE ii>>

inst_lookup_prefixed(w, in) ==
  LET index == MandatoryIndex(w.decodedPrefixes)
  IN  LookupPrefixed(w, index, inst_get_info(in, index), inst_get_info(in, 0))

-----------------------------------------------------------------------------
(* An instruction of which mod = 3 and the rest are two rows. *)
inst_vex_mod_lookup(w, in, ii, index) ==
  LET x == Advance(w)
  IN  <<x, CASE x.codeLen < 0 -> NULL
             [] x.codeLen >= 0 /\ Here(x) < INST_DIVIDED_MODRM -> inst_get_info(in, index + 4)
             [] OTHER -> ii>>

VexByMod(w, in, index, ii) ==
  IF ii /= NULL /\ "MODRR_BASED" \in ii.flagsEx
  THEN inst_vex_mod_lookup(w, in, ii, index)
  ELSE <<w, ii>>
VexPrefixed(w, in, index) == VexByMod(w, in, index, inst_get_info(in, index))

(* A list in front of the prefixed one takes a byte more. *)
VexList(w, in, index) ==
  LET x    == Advance(w)
      next == IF InstType(in) = INT_LIST_GROUP THEN Node(in, Reg(Here(x))) ELSE Node(in, Here(x))
  IN  IF x.codeLen >= 0 /\ InstType(next) = INT_LIST_PREFIXED
      THEN VexPrefixed(x, next, index)
      ELSE <<x, NULL>>

(* From the node of the first byte on. *)
VexWalk(w, in, index) ==
  IF w.codeLen < 0 \/ in = INT_NOTEXISTS THEN <<w, NULL>>
  ELSE CASE InstType(in) = INT_LIST_PREFIXED -> VexPrefixed(w, in, index)
         [] InstType(in) \in {INT_INFO, INT_INFOEX, INT_LIST_DIVIDED} -> <<w, NULL>>
         [] OTHER -> VexList(w, in, index)

(* A lookup counts the first byte of the opcode before it looks at it. *)
CountOpcode(w) == [w EXCEPT !.codeLen = @ - 1]

SetV(w, v) == [w EXCEPT !.vexV = v]

inst_vex_lookup(w) ==
  LET vex   == Byte(w, w.vexPos)
      last  == IF w.prefixExtType = "VEX2" THEN vex ELSE Byte(w, w.vexPos + 1)
      start == IF w.prefixExtType = "VEX2" THEN 1 ELSE vex % 32
      table == CASE start = 1 -> Table_0F [] start = 2 -> Table_0F_38 [] OTHER -> Table_0F_3A
      v     == SetV(w, 15 - ((last \div 8) % 16))
  IN  IF w.decodedPrefixes \cap (LOKREP \cup {"PRE_OP_SIZE", "PRE_REX"}) /= {} THEN <<w, NULL>>
      ELSE IF start \notin 1..3 THEN <<v, NULL>>
      ELSE VexWalk(CountOpcode(v), Node(table, Here(v)), 4 + (last % 4))

(* VEX.L must be there when it is forced and VEX.vvvv zero when unused. *)
VexAllowed(w, ii) ==
  /\ "FORCE_VEXL" \in ii.flagsEx => "L" \in w.vrex
  /\ "VEX_V_UNUSED" \in ii.flagsEx => w.vexV = 0

-----------------------------------------------------------------------------
(* ARPL or MOVSXD, NOP or PAUSE or XCHG, and LEA, which has no segment. *)
OneByte(w, in) ==
  LET rexW == IF "W" \in w.vrex THEN [w EXCEPT !.usedPrefixes = @ \cup {"PRE_REX"}] ELSE w
      lea  == prefixes_ignore([w EXCEPT !.decodedPrefixes = @ \ SEGOVRD], "SEG")
  IN  CASE Here(w) = INST_ARPL_INDEX -> <<w, IF w.dt = 64 THEN II_movsxd ELSE II_arpl>>
        [] Here(w) = INST_NOP_INDEX /\ "PRE_REP" \in w.decodedPrefixes ->
             <<[w EXCEPT !.usedPrefixes = @ \cup {"PRE_REP"}], II_pause>>
        [] Here(w) = INST_NOP_INDEX /\ "PRE_REP" \notin w.decodedPrefixes ->
             <<rexW, IF w.dt /= 64 \/ "B" \notin w.vrex THEN II_nop ELSE Info(in)>>
        [] Here(w) = INST_LEA_INDEX -> <<lea, Info(in)>>
        [] OTHER -> <<w, Info(in)>>

(* The index of a divided list: the REG bits, or the whole byte from 0xc0. *)
DividedIndex(byte) ==
  IF byte < INST_DIVIDED_MODRM THEN Reg(byte) ELSE byte - INST_DIVIDED_MODRM + 8

(* One byte and a divided list (x87); 0x9b in front is the wait of some. *)
OneDivided(w, in, isWaitIncluded) ==
  LET leaf == Node(in, DividedIndex(Here(w)))
  IN  <<w, IF leaf = INT_NOTEXISTS THEN NULL
           ELSE IF ~IsInst(leaf) THEN inst_get_info(leaf, IF isWaitIncluded THEN 1 ELSE 0)
           ELSE IF isWaitIncluded /\ "PRE_OP_SIZE" \notin Info(leaf).flags THEN NULL
           ELSE Info(leaf)>>

(* Two bytes and a divided list: a row that is not divided goes first. *)
DividedFrom(w, in, ii) ==
  <<w, IF ii /= NULL /\ "NOT_DIVIDED" \in ii.flags THEN ii
       ELSE IF Here(w) >= INST_DIVIDED_MODRM THEN inst_get_info(in, DividedIndex(Here(w)))
       ELSE ii>>
TwoDivided(w, in) ==
  LET leaf == Node(in, Reg(Here(w)))
  IN  DividedFrom(w, in, IF InstType(leaf) \in {INT_INFO, INT_INFOEX} THEN Info(leaf) ELSE NULL)

(* A node that must be a row, or a list by mandatory prefix. *)
Leaf(w, in) ==
  CASE in = INT_NOTEXISTS -> <<w, NULL>>
    [] in /= INT_NOTEXISTS /\ IsInst(in) -> <<w, Info(in)>>
    [] OTHER -> inst_lookup_prefixed(w, in)

(* The third byte. *)
ThirdByte(w, in) ==
  LET x == Advance(w)
  IN  CASE x.codeLen < 0 -> <<x, NULL>>
        [] x.codeLen >= 0 /\ InstType(in) = INT_LIST_GROUP -> Leaf(x, Node(in, Reg(Here(x))))
        [] x.codeLen >= 0 /\ InstType(in) = INT_LIST_DIVIDED -> TwoDivided(x, in)
        [] x.codeLen >= 0 /\ InstType(in) = INT_LIST_FULL ->
             LET third == Node(in, Here(x))
             IN  IF IsInst(third) \/ InstType(third) = INT_LIST_PREFIXED THEN Leaf(x, third)
                 ELSE <<x, NULL>>
        [] OTHER -> <<x, NULL>>

(* The second byte, after one that leads to a list. *)
SecondByte(w, in, isWaitIncluded) ==
  LET x      == Advance(w)
      second == Node(in, Here(x))
  IN  CASE x.codeLen < 0 -> <<x, NULL>>
        [] x.codeLen >= 0 /\ InstType(in) = INT_LIST_GROUP /\ ~isWaitIncluded ->
             <<x, inst_get_info(in, Reg(Here(x)))>>
        [] x.codeLen >= 0 /\ InstType(in) = INT_LIST_DIVIDED -> OneDivided(x, in, isWaitIncluded)
        [] x.codeLen >= 0 /\ InstType(in) = INT_LIST_FULL /\ ~isWaitIncluded ->
             IF second = INT_NOTEXISTS THEN <<x, NULL>>
             ELSE IF Here(w) = ESCAPE_3DNOW /\ Here(x) = ESCAPE_3DNOW THEN <<x, II_3dnow>>
             ELSE IF IsInst(second) \/ InstType(second) = INT_LIST_PREFIXED THEN Leaf(x, second)
             ELSE ThirdByte(x, second)
        [] OTHER -> <<x, NULL>>

FirstByte(w, isWaitIncluded) ==
  LET in == Root(Here(w))
  IN  CASE in = INT_NOTEXISTS -> <<w, NULL>>
        [] in /= INT_NOTEXISTS /\ IsInst(in) /\ ~isWaitIncluded -> OneByte(w, in)
        [] OTHER -> SecondByte(w, in, isWaitIncluded)

VexChecked(found) ==
  IF found[2] /= NULL /\ ~VexAllowed(found[1], found[2]) THEN <<found[1], NULL>> ELSE found

(* WAIT takes the prefixes for itself, and may open an x87 instruction. *)
inst_lookup(w) ==
  IF "PRE_VEX" \in w.decodedPrefixes THEN VexChecked(inst_vex_lookup(w))
  ELSE LET x       == CountOpcode(w)
           isWait  == x.codeLen >= 0 /\ Here(x) = INST_WAIT_INDEX
           opcode  == IF isWait THEN Advance(prefixes_ignore_all(x)) ELSE x
       IN  IF opcode.codeLen < 0 THEN <<opcode, NULL>> ELSE FirstByte(opcode, isWait)

(* The byte after the operands says which 3DNow! instruction it was. *)
inst_lookup_3dnow(w) ==
  IF w.codeLen < 1 THEN <<w, NULL>> ELSE <<Advance(w), inst_get_info(Table_0F_0F, Here(w))>>
=============================================================================
