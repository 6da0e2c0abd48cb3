---------------------------- MODULE X86Operands ----------------------------
(***************************************************************************)
(* The operands of an x86 instruction: distorm3.2-package/src/operands.c.  *)
(*                                                                         *)
(* The record w of X86Prefix has, from decode_inst() on, also              *)
(*   ii, modrm, effOpSz, effAdrSz    the row, the ModR/M byte and the      *)
(*                                   effective sizes (16, 32 or 64)        *)
(*   ops               the four operands: [type, index, size]              *)
(*   base, scale, dispSize, flags    the rest of _DInst                    *)
(*   lockable          the first operand allows LOCK                       *)
(*   ok                FALSE once a read has run out of bytes or an        *)
(*                     operand is not possible: all is dropped then        *)
(* The values of immediates and displacements and the mask of the classes  *)
(* of the registers used are left out.                                     *)
(***************************************************************************)
EXTENDS X86Lookup

R_NONE == -1
REGS64_BASE == 0
REGS32_BASE == 16
REGS16_BASE == 32
REGS8_BASE == 48
REGS8_REX_BASE == 64
SREGS_BASE == 68
R_RIP == 74
FPUREGS_BASE == 75
MMXREGS_BASE == 83
SSEREGS_BASE == 91
AVXREGS_BASE == 107
CREGS_BASE == 123
DREGS_BASE == 132
REGISTERTORCLASS_SIZE == 140
EX_GPR_BASE == 8
SEG_REGS_MAX == 6
CREGS_MAX == 9

GprBase(size) ==
  CASE size = 64 -> REGS64_BASE [] size = 32 -> REGS32_BASE [] size = 16 -> REGS16_BASE
AX == 0
CX == 1
DX == 2
BX == 3
SP == 4
BP == 5
SI == 6
DI == 7

Use(w, prefixes) == [w EXCEPT !.usedPrefixes = @ \cup prefixes]
Set(w, n, type, size, index) ==
  [w EXCEPT !.ops[n] = [type |-> type, size |-> size, index |-> index]]
Fail(w) == [w EXCEPT !.ok = FALSE]

(* A prefix set if a condition holds. *)
When(flag, cond) == IF cond THEN {flag} ELSE {}
Ext(w, bit) == IF bit \in w.vrex THEN EX_GPR_BASE ELSE 0
RexFor(w, bit) == When("PRE_REX", bit \in w.vrex)

Mod(w) == w.modrm \div 64
RegBits(w) == (w.modrm \div 8) % 8
Rm(w) == w.modrm % 8

(* Promoted by itself to 64 bits, or only with REX. *)
Promoted(w) == "64BITS" \in w.ii.flags /\ "PRE_REX" \notin w.ii.flags
NeedsRex(w) == {"64BITS", "PRE_REX"} \subseteq w.ii.flags

(* Mutant of operands_fix_8bit_rex_base: all of them are. *)
operands_fix_8bit_rex_baseAll(reg) == reg + REGS8_REX_BASE - 4

(* With REX, four of the byte registers are other ones. *)
operands_fix_8bit_rex_base(reg) ==
  IF reg \in 4..7 THEN reg + REGS8_REX_BASE - 4 ELSE reg + REGS8_BASE

(* Mutant of read_stream_safe: the position moves, the length does not. *)
read_stream_safeUncounted(w, size) == [w EXCEPT !.code = @ + size, !.ok = @ /\ w.codeLen >= size]

(* A read of size bytes, of which only the length matters here. *)
read_stream_safe(w, size) ==
  [w EXCEPT !.code = @ + size, !.codeLen = @ - size, !.ok = @ /\ w.codeLen >= size]

-----------------------------------------------------------------------------
(* The memory forms. *)

(* No base when base = 5 and mod = 0, and no index when index = 4. *)
operands_extract_sib(w, n, sib, mod) ==
  LET index == ((sib \div 8) % 8) + Ext(w, "X")
      base  == sib % 8
      noBase == base = 5 /\ mod = 0
      regs  == IF w.effAdrSz = 64 THEN REGS64_BASE ELSE REGS32_BASE
      reg   == IF noBase THEN R_NONE ELSE regs + base + Ext(w, "B")
      x     == Use(w, RexFor(w, "X") \cup (IF noBase THEN {} ELSE RexFor(w, "B")))
      size  == w.ops[n].size
  IN  CASE index = 4 /\ noBase  -> Set(x, n, "DISP", size, 0)
        [] index = 4 /\ ~noBase -> Set(x, n, "SMEM", size, reg)
        [] OTHER -> [Set(x, n, "MEM", size, regs + index)
                       EXCEPT !.base = IF noBase THEN @ ELSE reg,
                              !.scale = IF sib < 64 THEN 0 ELSE 2^(sib \div 64)]

Disp(w, bits) ==
  IF bits = 0 THEN w ELSE [read_stream_safe(w, bits \div 8) EXCEPT !.dispSize = bits]

(* Table 2-1: at most two of BX, BP, SI and DI. *)
Form16(w, n) ==
  LET rm   == Rm(w)
      size == w.ops[n].size
      MODS == <<BX, BX, BP, BP, SI, DI, BP, BX>>
  IN  CASE rm = 6 /\ Mod(w) = 0 -> Set(w, n, "DISP", size, 0)
        [] rm < 4 -> [Set(w, n, "MEM", size, REGS16_BASE + <<SI, DI, SI, DI>>[rm + 1])
                        EXCEPT !.base = REGS16_BASE + MODS[rm + 1]]
        [] OTHER -> Set(w, n, "SMEM", size, REGS16_BASE + MODS[rm + 1])

Memory16(w, n) ==
  LET alone == Rm(w) = 6 /\ Mod(w) = 0
      bits  == CASE Mod(w) = 1 -> 8 [] Mod(w) = 2 \/ alone -> 16 [] OTHER -> 0
  IN  prefixes_use_segment(Disp(Form16(w, n), bits),
                           IF Rm(w) \in {2, 3, 6} /\ ~alone THEN "PRE_SS" ELSE "PRE_DS")

(* Tables 2-2 and 2-3: a register, a SIB byte, or a displacement alone,    *)
(* which in 64 bits mode is relative to RIP.                               *)
Alone32(w) == Rm(w) = 5 /\ Mod(w) = 0
Sib(w) == IF Rm(w) = 4 THEN Byte(w, w.code) ELSE 0

Form32(w, n) ==
  LET size == w.ops[n].size
      regs == IF w.effAdrSz = 64 THEN REGS64_BASE ELSE REGS32_BASE
  IN  CASE Alone32(w) /\ w.dt = 64 ->
             [Set(w, n, "SMEM", size, R_RIP) EXCEPT !.flags = @ \cup {"RIP_RELATIVE"}]
        [] Alone32(w) /\ w.dt /= 64 -> Set(w, n, "DISP", size, 0)
        [] Rm(w) = 4 -> operands_extract_sib(read_stream_safe(w, 1), n, Sib(w), Mod(w))
        [] OTHER -> Use(Set(w, n, "SMEM", size, regs + Rm(w) + Ext(w, "B")), RexFor(w, "B"))

Displaced32(w, n) ==
  Disp(Form32(w, n), CASE Mod(w) = 1 -> 8
                       [] Mod(w) = 2 \/ (Mod(w) = 0 /\ (Alone32(w) \/ Sib(w) % 8 = 5)) -> 32
                       [] OTHER -> 0)

(* BP and SP go with SS; an index that is scaled has no say in it. *)
Segmented32(w, n) ==
  LET base == IF w.base /= R_NONE THEN w.base ELSE IF w.scale >= 2 THEN 0 ELSE w.ops[n].index
  IN  prefixes_use_segment(w, IF base \in {REGS32_BASE + BP, REGS32_BASE + SP}
                              THEN "PRE_SS" ELSE "PRE_DS")

Memory32(w, n) == Segmented32(Displaced32(w, n), n)

-----------------------------------------------------------------------------
(* The register forms of an operand that may also be memory (mod = 3). *)
Register(index, size, used) == [index |-> index, size |-> size, used |-> used, ok |-> TRUE]
NoRegister == [index |-> 0, size |-> 0, used |-> {}, ok |-> FALSE]

RmGeneral(w, type) ==
  LET rm    == Rm(w) + Ext(w, "B")
      rex   == RexFor(w, "B")
      W     == "W" \in w.vrex
      auto  == w.dt = 64 /\ Promoted(w)
      small == "PRE_OP_SIZE" \in w.decodedPrefixes
  IN  CASE type \in {"RFULL_M16", "RM_FULL"} ->
             Register(GprBase(w.effOpSz) + rm, w.effOpSz,
                      rex \cup When("PRE_OP_SIZE", w.effOpSz /= 64)
                          \cup When("PRE_REX", w.effOpSz = 64
                                      /\ (type = "RFULL_M16" \/ "PRE_REX" \in w.ii.flags)))
        [] type \in {"R32_64_M8", "R32_64_M16", "RM32_64"} ->
             Register(GprBase(IF auto \/ W THEN 64 ELSE 32) + rm, IF auto \/ W THEN 64 ELSE 32,
                      rex \cup When("PRE_REX", W /\ ~auto))
        [] type = "RM16_32" ->
             Register(GprBase(IF small THEN 16 ELSE 32) + rm, IF small THEN 16 ELSE 32,
                      rex \cup When("PRE_OP_SIZE", small))
        [] type = "RM16" -> Register(REGS16_BASE + rm, 16, rex)
        [] type = "RM8" /\ w.prefixExtType = "REX" ->
             Register(operands_fix_8bit_rex_base(rm), 8, {"PRE_REX"})
        [] type = "RM8" /\ w.prefixExtType /= "REX" -> Register(REGS8_BASE + Rm(w), 8, {})
        [] type \in {"RM32", "R32_M8", "R32_M16"} -> Register(REGS32_BASE + rm, 32, rex)
        [] type \in {"WRM32_64", "REG32_64_M8", "REG32_64_M16"} ->
             Register(GprBase(IF W THEN 64 ELSE 32) + rm, IF W THEN 64 ELSE 32, {})

RmVector(w, type) ==
  LET rm == Rm(w) + Ext(w, "B")
  IN  CASE type \in {"MM32", "MM64"} -> Register(MMXREGS_BASE + Rm(w), 64, {})
        [] type \in {"XMM16", "XMM32", "XMM64", "XMM128"} ->
             Register(SSEREGS_BASE + rm, 128, RexFor(w, "B"))
        [] type = "YMM256" -> Register(AVXREGS_BASE + rm, 256, {})
        [] type \in {"YXMM64_256", "YXMM128_256"} /\ "L" \in w.vrex ->
             Register(AVXREGS_BASE + rm, 256, {})
        [] OTHER -> Register(SSEREGS_BASE + rm, 128, {})

SetRegister(w, n, r) ==
  IF r.ok THEN Use(Set(w, n, "REG", r.size, r.index), r.used) ELSE Fail(w)

-----------------------------------------------------------------------------
(* The sizes of memory operands: << bits, prefixes used >>. *)
MemTypes == {"MEM64_128", "MEM32", "MEM32_64", "MEM64", "MEM128", "MEM16_FULL", "MEM16_3264",
             "MEM_OPT", "FPUM16", "FPUM32", "FPUM64", "FPUM80", "LMEM128_256", "MEM"}
GeneralTypes == {"RM_FULL", "RM16", "RM32_64", "RM16_32", "RFULL_M16", "RM8", "R32_M8",
                 "R32_64_M8", "REG32_64_M8", "R32_M16", "R32_64_M16", "REG32_64_M16", "RM32",
                 "WRM32_64"}
VectorTypes == {"WXMM32_64", "YXMM64_256", "YXMM128_256", "LXMM64_128", "XMM16", "MM32",
                "XMM32", "MM64", "XMM64", "XMM128", "YMM256"}
RmTypes == GeneralTypes \cup VectorTypes

(* Operands in memory only. *)
MemSize(w, type) ==
  LET wide == w.effOpSz = 64
      L    == "L" \in w.vrex
  IN  CASE type = "MEM64_128"   -> <<IF wide THEN 128 ELSE 64, When("PRE_REX", wide)>>
        [] type = "MEM32_64"    -> <<IF wide THEN 64 ELSE 32, When("PRE_REX", wide)>>
        [] type = "MEM16_FULL"  -> <<w.effOpSz, When("PRE_OP_SIZE", ~wide)
                                                  \cup When("PRE_REX", wide /\ NeedsRex(w))>>
        [] type = "MEM16_3264"  -> <<IF w.dt = 64 THEN 64 ELSE 32, {}>>
        [] type = "LMEM128_256" -> <<IF L THEN 256 ELSE 128, {}>>
        [] type \in {"MEM32", "FPUM32"} -> <<32, {}>>
        [] type \in {"MEM64", "FPUM64"} -> <<64, {}>>
        [] type = "MEM128" -> <<128, {}>>
        [] type = "FPUM16" -> <<16, {}>>
        [] type = "FPUM80" -> <<80, {}>>
        [] type \in {"MEM", "MEM_OPT"} -> <<0, {}>>

(* Operands in memory or in a register: the size of the memory. *)
RmSize(w, type) ==
  LET wide  == w.effOpSz = 64
      W     == "W" \in w.vrex
      L     == "L" \in w.vrex
      small == "PRE_OP_SIZE" \in w.decodedPrefixes
  IN  CASE type = "RM_FULL" -> <<w.effOpSz, {"PRE_OP_SIZE"}
                                   \cup When("PRE_REX", wide /\ "64BITS" \notin w.ii.flags)>>
        [] type = "RM32_64" -> <<IF wide THEN 64 ELSE 32, When("PRE_REX", wide /\ NeedsRex(w))>>
        [] type = "RM16_32" -> <<IF small THEN 16 ELSE 32, When("PRE_OP_SIZE", small)>>
        [] type \in {"WXMM32_64", "WRM32_64"} -> <<IF W THEN 64 ELSE 32, {}>>
        [] type = "YXMM64_256"  -> <<IF L THEN 256 ELSE 64, {}>>
        [] type = "YXMM128_256" -> <<IF L THEN 256 ELSE 128, {}>>
        [] type = "LXMM64_128"  -> <<IF L THEN 128 ELSE 64, {}>>
        [] type = "RFULL_M16" -> <<16, {"PRE_OP_SIZE"}>>
        [] type \in {"RM8", "R32_M8", "R32_64_M8", "REG32_64_M8"} -> <<8, {}>>
        [] type \in {"RM16", "XMM16", "R32_M16", "R32_64_M16", "REG32_64_M16"} -> <<16, {}>>
        [] type \in {"RM32", "MM32", "XMM32"} -> <<32, {}>>
        [] type \in {"MM64", "XMM64"} -> <<64, {}>>
        [] type = "XMM128" -> <<128, {}>>
        [] type = "YMM256" -> <<256, {}>>

(* Only the first operand can allow LOCK, and only when it is in memory. *)
operands_extract_modrm(w, n, type) ==
  IF Mod(w) = 3
  THEN SetRegister(w, n, IF type \in GeneralTypes THEN RmGeneral(w, type) ELSE RmVector(w, type))
  ELSE LET x == [Use(w, {"PRE_ADDR_SIZE"})
                   EXCEPT !.lockable = @ \/ (n = 1 /\ "PRE_LOCK" \in w.decodedPrefixes)]
       IN  IF w.effAdrSz = 16 THEN Memory16(x, n) ELSE Memory32(x, n)

Sized(w, n, size) == Use([w EXCEPT !.ops[n].size = size[1]], size[2])

(* An operand of the ModR/M byte, in memory only or in either. *)
ModRMOperand(w, n, type) ==
  IF type \in MemTypes /\ Mod(w) = 3 THEN IF type = "MEM_OPT" THEN w ELSE Fail(w)
  ELSE operands_extract_modrm(
         Sized(w, n, IF type \in MemTypes THEN MemSize(w, type) ELSE RmSize(w, type)), n, type)

-----------------------------------------------------------------------------
(* The operands without a ModR/M byte. *)
I_JO == 134
I_JG == 202

ImmTypes == {"IMM8", "IMM16", "IMM_FULL", "IMM32", "SEIMM8", "IMM16_1", "IMM8_1", "IMM8_2",
             "CONST1"}

Imm(w, n, type, size, bytes) == read_stream_safe(Set(w, n, type, size, 0), bytes)

(* 32 bits, which are sign extended in 64 bits mode. *)
Imm32(w, n) ==
  IF w.dt = 64 THEN [Imm(w, n, "IMM", 64, 4) EXCEPT !.flags = @ \cup {"IMM_SIGNED"}]
  ELSE Imm(w, n, "IMM", 32, 4)

(* A byte that is extended to the operand size if that was overridden. *)
SeImm8(w, n) ==
  LET over == "PRE_OP_SIZE" \in w.ii.flags \cap w.decodedPrefixes
      size == IF ~over THEN 8 ELSE IF w.dt = 16 THEN 32 ELSE 16
  IN  [Imm(Use(w, When("PRE_OP_SIZE", over)), n, "IMM", size, 1)
         EXCEPT !.flags = @ \cup {"IMM_SIGNED"}]

ImmOperand(w, n, type) ==
  CASE type = "IMM8"    -> Imm(w, n, "IMM", 8, 1)
    [] type = "IMM16"   -> Imm(w, n, "IMM", 16, 2)
    [] type = "IMM_FULL" /\ w.effOpSz = 16 -> Imm(Use(w, {"PRE_OP_SIZE"}), n, "IMM", 16, 2)
    [] type = "IMM_FULL" /\ w.effOpSz = 64 /\ NeedsRex(w) ->
         Imm(Use(w, {"PRE_REX"}), n, "IMM", 64, 8)
    [] type = "IMM_FULL" /\ (w.effOpSz = 32 \/ (w.effOpSz = 64 /\ ~NeedsRex(w))) ->
         Imm32(Use(w, {"PRE_OP_SIZE"}), n)
    [] type = "IMM32"   -> Imm32(w, n)
    [] type = "SEIMM8"  -> SeImm8(w, n)
    [] type = "IMM16_1" -> Imm(w, n, "IMM1", 16, 2)
    [] type = "IMM8_1"  -> Imm(w, n, "IMM1", 8, 1)
    [] type = "IMM8_2"  -> Imm(w, n, "IMM2", 8, 1)
    [] type = "CONST1"  -> Imm(w, n, "IMM", 8, 0)

-----------------------------------------------------------------------------
RegTypes == {"REG8", "REG16", "REG_FULL", "REG32", "REG32_64", "FREG32_64_RM", "MM", "MM_RM",
             "REGXMM0", "XMM", "XMM_RM"}
SpecialTypes == {"CREG", "DREG", "SREG", "SEG", "ACC8", "ACC16", "ACC_FULL_NOT64", "ACC_FULL",
                 "REGCL", "REGDX", "REGECX"}

(* The register in the REG bits, or in the RM bits. *)
RegOperand(w, type) ==
  LET reg  == RegBits(w) + Ext(w, "R")
      rex  == RexFor(w, "R")
      auto == w.dt = 64 /\ Promoted(w)
      W    == "W" \in w.vrex
  IN  CASE type = "REG8" /\ w.prefixExtType /= "NONE" ->
             Register(operands_fix_8bit_rex_base(reg), 8, {"PRE_REX"})
        [] type = "REG8" /\ w.prefixExtType = "NONE" -> Register(REGS8_BASE + RegBits(w), 8, {})
        [] type = "REG16" -> Register(REGS16_BASE + RegBits(w), 16, {})
        [] type = "REG_FULL" ->
             Register(GprBase(w.effOpSz) + reg, w.effOpSz,
                      CASE w.effOpSz = 16 -> rex \cup {"PRE_OP_SIZE"}
                        [] w.effOpSz = 32 -> IF rex /= {} THEN rex ELSE {"PRE_OP_SIZE"}
                        [] w.effOpSz = 64 -> {"PRE_REX"})
        [] type = "REG32" -> Register(REGS32_BASE + reg, 32, rex)
        [] type = "REG32_64" ->
             Register(GprBase(IF auto \/ W THEN 64 ELSE 32) + reg, IF auto \/ W THEN 64 ELSE 32,
                      rex \cup When("PRE_REX", W /\ ~auto))
        [] type = "FREG32_64_RM" ->
             Register(GprBase(IF w.dt = 64 THEN 64 ELSE 32) + Rm(w) + Ext(w, "B"),
                      IF w.dt = 64 THEN 64 ELSE 32, RexFor(w, "B"))
        [] type = "MM"      -> Register(MMXREGS_BASE + RegBits(w), 64, {})
        [] type = "MM_RM"   -> Register(MMXREGS_BASE + Rm(w), 64, {})
        [] type = "REGXMM0" -> Register(SSEREGS_BASE, 128, {})
        [] type = "XMM"     -> Register(SSEREGS_BASE + reg, 128, rex)
        [] type = "XMM_RM"  -> Register(SSEREGS_BASE + Rm(w) + Ext(w, "B"), 128, RexFor(w, "B"))

(* Control registers: LOCK stands for REX.R in 32 bits mode. *)
ControlRegister(w) ==
  LET lock == w.dt = 32 /\ "PRE_LOCK" \in w.decodedPrefixes /\ "R" \notin w.vrex
      reg  == RegBits(w) + (IF lock THEN EX_GPR_BASE ELSE Ext(w, "R"))
  IN  IF reg >= CREGS_MAX \/ reg \in {1, 5, 6, 7} THEN NoRegister
      ELSE Register(CREGS_BASE + reg, IF w.dt = 64 THEN 64 ELSE 32,
                    RexFor(w, "R") \cup When("PRE_LOCK", lock))

(* R_ES to R_GS, by the flag of a prefix. *)
SegmentRegister(flags) ==
  CHOOSE i \in 0..5 : <<"PRE_ES", "PRE_CS", "PRE_SS", "PRE_DS", "PRE_FS", "PRE_GS">>[i + 1] \in flags

(* Control, debug and segment registers, and those an instruction implies. *)
SpecialOperand(w, n, type) ==
  CASE type = "CREG" -> ControlRegister(w)
    [] type = "DREG" ->
         IF RegBits(w) \in {4, 5} \/ "R" \in w.vrex THEN NoRegister
         ELSE Register(DREGS_BASE + RegBits(w), IF w.dt = 64 THEN 64 ELSE 32, {})
    [] type = "SREG" ->
         IF (n = 1 /\ RegBits(w) = 1) \/ RegBits(w) >= SEG_REGS_MAX THEN NoRegister
         ELSE Register(SREGS_BASE + RegBits(w), 16, {})
    [] type = "SEG" -> Register(SREGS_BASE + SegmentRegister(w.ii.flags), 16, {"PRE_OP_SIZE"})
    [] type \in {"ACC_FULL_NOT64", "ACC_FULL"} ->
         Register(GprBase(w.effOpSz) + AX, w.effOpSz,
                  When("PRE_OP_SIZE", w.effOpSz /= 64)
                    \cup When("PRE_REX", w.effOpSz = 64 /\ "64BITS" \notin w.ii.flags))
    [] type = "ACC8"   -> Register(REGS8_BASE + AX, 8, {})
    [] type = "ACC16"  -> Register(REGS16_BASE + AX, 16, {})
    [] type = "REGCL"  -> Register(REGS8_BASE + CX, 8, {})
    [] type = "REGDX"  -> Register(REGS16_BASE + DX, 16, {})
    [] type = "REGECX" -> Register(REGS32_BASE + CX, 32, {})

-----------------------------------------------------------------------------
TargetTypes == {"PTR16_FULL", "RELCB", "RELC_FULL"}
MoffsTypes == {"MOFFS8", "MOFFS_FULL"}

(* A segment override of a conditional jump is a hint. *)
Hint(w) ==
  IF w.ii.id \notin I_JO..I_JG THEN w
  ELSE CASE "PRE_CS" \in w.decodedPrefixes ->
              [Use(w, {"PRE_CS"}) EXCEPT !.flags = @ \cup {"HINT_NOT_TAKEN"}]
         [] {"PRE_CS", "PRE_DS"} \cap w.decodedPrefixes = {"PRE_DS"} ->
              [Use(w, {"PRE_DS"}) EXCEPT !.flags = @ \cup {"HINT_TAKEN"}]
         [] OTHER -> w

(* Where a jump or a call goes. *)
TargetOperand(w, n, type) ==
  LET small == w.effOpSz = 16
      x     == Use(w, {"PRE_OP_SIZE"})
  IN  CASE type = "RELCB" -> Hint(Imm(w, n, "PC", 8, 1))
        [] type = "RELC_FULL" -> Hint(IF small THEN Imm(x, n, "PC", 16, 2) ELSE Imm(x, n, "PC", 32, 4))
        [] type = "PTR16_FULL" -> IF small THEN Imm(x, n, "PTR", 16, 4) ELSE Imm(x, n, "PTR", 32, 6)

(* An absolute address. *)
MoffsOperand(w, n, type) ==
  LET x == Set(w, n, "DISP", IF type = "MOFFS8" THEN 8 ELSE w.effOpSz, 0)
  IN  Disp(Use(prefixes_use_segment(x, "PRE_DS"), When("PRE_ADDR_SIZE", w.effAdrSz /= 64)), w.effAdrSz)

-----------------------------------------------------------------------------
CodeTypes == {"FPU_SI", "FPU_SSI", "FPU_SIS", "IB_RB", "IB_R_FULL"}
StringTypes == {"REGI_ESI", "REGI_EDI", "REGI_EBXAL", "REGI_EAX"}

(* The register is in the last byte of the opcode. *)
CodeOperand(w, n, type) ==
  LET low == Byte(w, w.code - 1) % 8
      reg == low + Ext(w, "B")
      rex == RexFor(w, "B")
      ST(x, i, num) == Set(x, i, "REG", 32, FPUREGS_BASE + num)
  IN  CASE type = "FPU_SI"  -> ST(w, n, low)
        [] type = "FPU_SSI" -> ST(ST(w, n, 0), n + 1, low)
        [] type = "FPU_SIS" -> ST(ST(w, n, low), n + 1, 0)
        [] type = "IB_RB"   ->
             SetRegister(w, n, IF rex /= {} \/ w.prefixExtType = "REX"
                               THEN Register(operands_fix_8bit_rex_base(reg), 8, {"PRE_REX"})
                               ELSE Register(REGS8_BASE + low, 8, {}))
        [] type = "IB_R_FULL" ->
             SetRegister(w, n, Register(GprBase(w.effOpSz) + reg, w.effOpSz,
               CASE w.effOpSz = 16 -> rex \cup {"PRE_OP_SIZE"}
                 [] w.effOpSz = 32 -> IF rex /= {} THEN rex ELSE {"PRE_OP_SIZE"}
                 [] w.effOpSz = 64 -> IF Promoted(w) THEN rex ELSE {"PRE_REX"}))

(* The size of what a string instruction moves. *)
StringSize(w) ==
  CASE "16BITS" \notin w.ii.flags -> <<8, {}>>
    [] "16BITS" \in w.ii.flags /\ w.effOpSz = 16 -> <<16, {"PRE_OP_SIZE"}>>
    [] {"16BITS", "64BITS"} \subseteq w.ii.flags /\ w.effOpSz = 64 ->
         <<64, {"PRE_OP_SIZE", "PRE_REX"}>>
    [] OTHER -> <<32, {"PRE_OP_SIZE"}>>

(* [rSI] can have a segment and takes it from [rDI], which cannot. *)
StringOperand(w, n, type) ==
  LET regs == GprBase(w.effAdrSz)
      x    == Use(w, {"PRE_ADDR_SIZE"})
      size == StringSize(w)
      es   == n = 1 /\ w.dt /= 64
  IN  CASE type = "REGI_ESI" ->
             prefixes_use_segment([Set(Use(x, size[2]), n, "SMEM", size[1], regs + SI)
                                     EXCEPT !.segment = {}], "PRE_DS")
        [] type = "REGI_EDI" ->
             [Set(Use(x, size[2]), n, "SMEM", size[1], regs + DI)
                EXCEPT !.segment = IF es THEN {"PRE_ES", "DEFAULT"} ELSE @]
        [] type = "REGI_EBXAL" ->
             [Set(prefixes_use_segment(Use(x, When("PRE_REX", w.effAdrSz = 64)), "PRE_DS"),
                  n, "MEM", 8, REGS8_BASE + AX) EXCEPT !.base = regs + BX]
        [] type = "REGI_EAX" ->
             Set(IF w.effAdrSz = 64 THEN w ELSE x, n, "SMEM", w.effAdrSz, regs + AX)

-----------------------------------------------------------------------------
VexTypes == {"VXMM", "XMM_IMM", "YXMM", "YXMM_IMM", "YMM", "VYMM", "VYXMM", "WREG32_64"}

(* A register in the upper half of an immediate byte. *)
ImmRegister(w) ==
  LET reg == Byte(w, w.code) \div 16 IN IF w.dt = 32 THEN reg % 8 ELSE reg

Vector(w, n, long, reg) ==
  IF long THEN Set(w, n, "REG", 256, AVXREGS_BASE + reg) ELSE Set(w, n, "REG", 128, SSEREGS_BASE + reg)

(* The registers of AVX: in VEX.vvvv, in an immediate, or in REG. *)
VexOperand(w, n, type) ==
  LET L   == "L" \in w.vrex
      W   == "W" \in w.vrex
      reg == RegBits(w) + Ext(w, "R")
  IN  CASE type = "VXMM"     -> Vector(w, n, FALSE, w.vexV)
        [] type = "VYMM"     -> Vector(w, n, TRUE, w.vexV)
        [] type = "VYXMM"    -> Vector(w, n, L, w.vexV)
        [] type = "YXMM"     -> Vector(w, n, L, reg)
        [] type = "YMM"      -> Vector(w, n, TRUE, reg)
        [] type = "XMM_IMM"  -> Vector(read_stream_safe(w, 1), n, FALSE, ImmRegister(w))
        [] type = "YXMM_IMM" -> Vector(read_stream_safe(w, 1), n, L, ImmRegister(w))
        [] type = "WREG32_64" ->
             IF W THEN Set(w, n, "REG", 64, REGS64_BASE + reg) ELSE Set(w, n, "REG", 32, REGS32_BASE + reg)

(* One operand, n from 1 to 4. *)
operands_extract(w, n, type) ==
  CASE type \in MemTypes \cup RmTypes -> ModRMOperand(w, n, type)
    [] type \in ImmTypes     -> ImmOperand(w, n, type)
    [] type \in RegTypes     -> SetRegister(w, n, RegOperand(w, type))
    [] type \in SpecialTypes -> SetRegister(w, n, SpecialOperand(w, n, type))
    [] type \in TargetTypes  -> TargetOperand(w, n, type)
    [] type \in MoffsTypes   -> MoffsOperand(w, n, type)
    [] type \in CodeTypes    -> CodeOperand(w, n, type)
    [] type \in StringTypes  -> StringOperand(w, n, type)
    [] type \in VexTypes     -> VexOperand(w, n, type)
    [] OTHER                 -> Fail(w)
=============================================================================
