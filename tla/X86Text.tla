------------------------------ MODULE X86Text ------------------------------
(***************************************************************************)
(* The text of an instruction: distorm_format() of the bundled diStorm,    *)
(* distorm3.2-package/src/distorm.c, and the tables of names in            *)
(* mnemonics.c.  Of a text, only the length is kept, the longest one that  *)
(* the values of an immediate or a displacement of that size can give.     *)
(***************************************************************************)
EXTENDS X86Decoder, FiniteSetsExt

(* What the array of a _WString holds, less the NUL. *)
MAX_TEXT_SIZE == 48

(* _REGISTERS: the lengths of the names, 0 for a register that is none. *)
RegisterLength == <<
  3,3,3,3,3,3,3,3,2,2,3,3,3,3,3,3,3,3,3,3,3,3,3,3,3,3,4,4,4,4,4,4,2,2,2,2,2,2,2,2,3,3,4,4,4,4,
  4,4,2,2,2,2,2,2,2,2,3,3,4,4,4,4,4,4,3,3,3,3,2,2,2,2,2,2,3,3,3,3,3,3,3,3,3,3,3,3,3,3,3,3,3,4,
  4,4,4,4,4,4,4,4,4,5,5,5,5,5,5,4,4,4,4,4,4,4,4,4,4,5,5,5,5,5,5,3,0,3,3,3,0,0,0,3,3,3,3,3,0,0,
  3,3 >>

(* _MNEMONICS: the lengths of the names; the opcode of an instruction is    *)
(* where its name begins, after names of a byte more in front and a NUL.    *)
MnemonicLength_0 == <<
  9,3,4,3,2,3,3,3,3,3,3,3,3,3,3,3,3,5,4,5,4,4,3,4,2,3,2,3,2,3,3,2,2,3,2,3,2,3,3,2,4,4,3,3,3,4,
  4,3,3,3,8,5,4,4,4,4,4,4,4,4,3,3,3,5,5,4,5,3,4,4,3,3,4,4,6,5,4,4,5,5,2,3,4,3,7,4,3,3,3,3,3,3,
  3,3,3,3,7,4,6,4,6,3,5,3,5,5,5,5,8,7,6,5,6,5,6,5,6,6,5,5,6,5,6,5,6,6,5,4,5,4,5,4,5,5,4,4,5,4,
  5,4,5,5,4,5,2,4,3,3,4,7,3,3,3,3,5,3,5,4,6,5,3,3,3,3,3,3,3,3,4,4,4,5,4,5,4,5,3,3,4,6,5,4,4,4,
  4,4,4,4,6,6,5,6,6,4,5,5,5,6,7,6,7,7,5,7,5,7,7,6,4,4,5,5,5,6,5,6,5,6,6,6,7,6,7,4,6,4,5,7,7,8,
  7,4,6,6,6,5,6,5,5,6,5,5,6,6,5,6,5,4,5,7,6,3,3,3,3,4,4,3,4,3,4,4,4,4,4,4,4,4,6,6,8,8,6,7,5,6,
  6,6,5,7,6,6,4,4,6,7,6,6,8,9,5,5,5,5,6,7,7,5,5,7,5,5,7,5,8,8,6,5,7,5,8,7,6,7,6,6,5,5,7,7,6,6,
  7,6,6,8,7,8,7,7,9,8,8,8,9,9,8,8,9,9,7,6,6,8,8,7,7,9,11,10,10,10,6,6,7,7,8,8,8,8,9,9,7,7,7,7,
  8,8,9,9,9,9,10,10,8,8,8,8,9,9,7,7,8,8,6,6,7,7,8,8,9,9,6,6,6,6,7,7,7,7,7,7,8,8,5,5,6,6,5,5,6,
  6,6,6,7,7,4,4,5,5,5,5,6,6,5,5,5,5,6,6,6,6,5,5,5,5,6,6,6,6,8,8,8,8,9,9,9,9,8,8,9,9,9,10,5,5,
  5,5,6,6,6,6,5,5,5,5,6,6,6,6,5,5,5,5,6,6,6,6,5,5,5,5,6,6,6,6,9,10,9,10,9,10,8,9,7,8,7,8,7,8,
  8,9,9,10,9,10,9,10,8,9,10,11,10,11,4,4,5,5,6,6,7,7,6,6,7,7,7,8,8,7,8,7,8,7,8,4,10,8,6,5,7,7,
  8,8,6,6,7,7,6,6,7,7,5,7,6,6,8,6,8,10,6,7,6,3,5,3,5,7,7,7,10,8,8,8,8,7,7,7,10,8,8,8,8 >>
MnemonicLength_1 == <<
  7,7,7,10,8,8,8,8,7,7,7,10,8,8,8,8,8,8,8,11,9,9,9,9,11,9,9,11,12,8,8,10,11,11,11,13,12,12,12,
  11,11,12,12,14,12,11,11,13,8,8,8,11,9,9,9,9,11,9,9,11,12,8,8,10,11,11,11,13,12,12,12,11,11,
  12,12,14,12,11,11,13,8,8,8,11,9,9,9,9,11,9,9,11,12,8,8,10,11,11,11,13,12,12,12,11,11,12,12,
  14,12,11,11,13,8,8,8,11,9,9,9,9,11,9,9,11,12,8,8,10,11,11,11,13,12,12,12,11,11,12,12,14,12,
  11,11,13,6,7,6,7,6,6,7,7,9,10,7,8,8,9,9,5,6,5,6,5,6,5,6,6,7,7,7,8,9,7,8,7,8,6,7,4,5,7,8,7,6,
  7,5,6,5,6,5,6,5,6,5,6,7,8,6,7,9,8,8,10,9,9,6,7,8,6,7,6,7,6,7,3,4,6,7,6,7,6,7,4,5,5,6,5,6,5,
  6,5,6,7,8,7,8,6,7,8,10,11,5,6,5,6,5,6,5,6,5,6,5,6,5,6,7,6,6,5,6,5,6,5,6,5,6,5,6,7,6,7,6,7,7,
  8,9,10,6,7,6,7,7,8,6,7,6,7,6,7,8,9,9,9,7,7,8,8,8,5,6,12,12,14,5,6,5,6,5,6,8,9,8,9,8,9,8,9,8,
  9,8,9,6,7,7,8,8,9,8,9,10,10,8,9,8,9,8,9,8,9,8,9,8,9,7,8,6,7,6,7,6,7,6,7,6,7,6,7,6,7,6,7,6,7,
  10,11,6,7,7,14,14,14,14,11,11,11,11,11,11,11,11,12,12,12,12,12,12,12,12,14,14,14,14,11,11,
  11,11,11,11,11,11,12,12,12,12,12,12,12,12,14,14,14,14,11,11,11,11,11,11,11,11,12,12,12,12,
  12,12,12,12,6,7,6,7,10,11,6,7,10,11,5,5,10,7,8,7,8,7,8,7,8,7,8,7,8,7,8,7,8,6,7,6,6,7,7,9,10,
  11,12,6,7,8,9,6,6,7,7,4,5,4,5,7,8,9,10,9,9,9,9,10,9,10,9,10,9,10,15,16,6,7,6,7,6,8,8,7,9,8,
  7,8,8,7,8,8,6,7,7,5,4,6,5 >>
MnemonicLength == MnemonicLength_0 \o MnemonicLength_1
MnemonicStart ==
  LET start[n \in 1..Len(MnemonicLength) + 1] ==
        IF n = 1 THEN 0 ELSE start[n - 1] + MnemonicLength[n - 1] + 2
  IN  {start[n] : n \in DOMAIN MnemonicLength}

I_PUSH == 16
I_INS == 123
I_OUTS == 128
I_MOVS == 295
I_CMPS == 301
I_STOS == 307
I_LODS == 313
I_SCAS == 319

Name(r) == RegisterLength[r + 1]

(* "0x" and as many digits as a number of that many bits can need. *)
Hex(bits) == 2 + bits \div 4

SumTo(n, Length(_)) == MapThenSumSet(Length, 1..n)

(* The operands end at the first that is none. *)
OperandsShown(d) == Cardinality({n \in 1..4 : \A m \in 1..n : d.ops[m].type /= "NONE"})

(* "BYTE " to "YWORD ", when no register tells the size. *)
distorm_format_size(d, n) ==
  IF n <= 2 /\ (d.ops[1].type = "REG" \/ d.ops[2].type = "REG") /\ d.opcode \notin {I_INS, I_OUTS}
  THEN 0
  ELSE CASE d.ops[n].size = 0 -> 0
         [] d.ops[n].size \in {8, 16} -> 5
         [] d.ops[n].size = 128 -> 7
         [] OTHER -> 6

(* A sign and the magnitude, cut to the width of an address. *)
distorm_format_signed_disp(d, addrBits) ==
  IF d.dispSize = 0 THEN 0 ELSE 1 + Hex(Min({d.dispSize, addrBits}))

(* "ES:".  A string instruction shows the segment that it uses. *)
IsDefault(d) == d.segment \cap {"DEFAULT", "NONE"} /= {}
SegmentText(d, n) ==
  LET string == d.ops[n].type = "SMEM"
      es     == string /\ <<d.opcode, n>> \in {<<I_MOVS, 1>>, <<I_CMPS, 2>>}
      shown  == string /\ d.opcode \in {I_MOVS, I_CMPS, I_INS, I_LODS, I_STOS, I_SCAS}
  IN  IF es \/ ((shown \/ ~IsDefault(d)) /\ "NONE" \notin d.segment) THEN 3 ELSE 0

(* A signed byte may have a minus; only the widest ones have 64 bits. *)
ImmText(d, n) ==
  LET size == d.ops[n].size
  IN  (IF d.opcode = I_PUSH /\ size /= 8 THEN distorm_format_size(d, n) ELSE 0)
        + CASE size = 64 -> Hex(64)
            [] size = 8 -> Hex(8) + (IF "IMM_SIGNED" \in d.flags THEN 1 ELSE 0)
            [] size = 16 -> Hex(IF "IMM_SIGNED" \in d.flags THEN 32 ELSE 16)
            [] OTHER -> Hex(32)

(* Base, index and scale. *)
IndirectText(d, n) ==
  Name(d.ops[n].index)
    + (IF d.ops[n].type = "MEM"
       THEN (IF d.base = R_NONE THEN 0 ELSE Name(d.base) + 1) + (IF d.scale = 0 THEN 0 ELSE 2)
       ELSE 0)

MemText(d, n, addrBits) ==
  distorm_format_size(d, n) + 2 + SegmentText(d, n)
    + IF d.ops[n].type = "DISP" THEN Hex(addrBits)
      ELSE IndirectText(d, n) + distorm_format_signed_disp(d, addrBits)

OperandText(d, n, addrBits) ==
  CASE d.ops[n].type = "REG" -> Name(d.ops[n].index)
    [] d.ops[n].type = "IMM" -> ImmText(d, n)
    [] d.ops[n].type \in {"IMM1", "IMM2"} -> Hex(d.ops[n].size)
    [] d.ops[n].type = "PC" -> Hex(addrBits)
    [] d.ops[n].type = "PTR" -> Hex(16) + 1 + Hex(d.ops[n].size)
    [] OTHER -> MemText(d, n, addrBits)

HintText(d) ==
  CASE "HINT_TAKEN" \in d.flags -> 7 [] "HINT_NOT_TAKEN" \in d.flags -> 11 [] OTHER -> 0

(* Nothing but a letter behind the name of a string instruction, if all of *)
(* it is as usual.                                                         *)
IsShort(d, dt) ==
  d.opcode \in {I_MOVS, I_CMPS, I_STOS, I_LODS, I_SCAS} /\ d.adrSize = dt /\ IsDefault(d)

(* distorm_format(): the length of result->operands, the names separated   *)
(* by ", ".  Addresses have as many bits as the mode.                      *)
distorm_format(d, dt) ==
  LET k == OperandsShown(d)
      Text(n) == OperandText(d, n, dt)
  IN  IF IsShort(d, dt) THEN 0
      ELSE SumTo(k, Text) + (IF k > 1 THEN 2 * (k - 1) ELSE 0) + HintText(d)
=============================================================================
