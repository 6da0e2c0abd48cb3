------------------------------ MODULE X86Info ------------------------------
(***************************************************************************)
(* The vocabulary of the instruction database of the bundled diStorm       *)
(* (distorm3.2-package/src/instructions.h): the names of the operand types *)
(* and of the flags, and the rows of the tables of X86Tables as records.   *)
(***************************************************************************)
EXTENDS Integers, Sequences, X86Tables

(* _OpType: the type number n is OpType[n + 1]. *)
OpType == <<
  "NONE", "IMM8", "IMM16", "IMM_FULL", "IMM32", "SEIMM8", "IMM16_1", "IMM8_1", "IMM8_2",
  "REG8", "REG16", "REG_FULL", "REG32", "REG32_64", "FREG32_64_RM",
  "RM8", "RM16", "RM_FULL", "RM32_64", "RM16_32", "FPUM16", "FPUM32", "FPUM64", "FPUM80",
  "R32_M8", "R32_M16", "R32_64_M8", "R32_64_M16", "RFULL_M16",
  "CREG", "DREG", "SREG", "SEG", "ACC8", "ACC16", "ACC_FULL", "ACC_FULL_NOT64",
  "MEM16_FULL", "PTR16_FULL", "MEM16_3264", "RELCB", "RELC_FULL",
  "MEM", "MEM_OPT", "MEM32", "MEM32_64", "MEM64", "MEM128", "MEM64_128",
  "MOFFS8", "MOFFS_FULL", "CONST1", "REGCL", "IB_RB", "IB_R_FULL",
  "REGI_ESI", "REGI_EDI", "REGI_EBXAL", "REGI_EAX", "REGDX", "REGECX",
  "FPU_SI", "FPU_SSI", "FPU_SIS", "MM", "MM_RM", "MM32", "MM64",
  "XMM", "XMM_RM", "XMM16", "XMM32", "XMM64", "XMM128", "REGXMM0",
  "RM32", "REG32_64_M8", "REG32_64_M16", "WREG32_64", "WRM32_64", "WXMM32_64",
  "VXMM", "XMM_IMM", "YXMM", "YXMM_IMM", "YMM", "YMM256", "VYMM", "VYXMM",
  "YXMM64_256", "YXMM128_256", "LXMM64_128", "LMEM128_256" >>

(* The flags of an instruction by bit, and the flags of the extended form. *)
FlagNames == <<
  "MODRM_REQUIRED", "NOT_DIVIDED", "16BITS", "32BITS", "PRE_LOCK", "PRE_REPNZ", "PRE_REP",
  "PRE_CS", "PRE_SS", "PRE_DS", "PRE_ES", "PRE_FS", "PRE_GS", "PRE_OP_SIZE", "PRE_ADDR_SIZE",
  "NATIVE", "USE_EXMNEMONIC", "USE_OP3", "USE_OP4", "MNEMONIC_MODRM_BASED",
  "MODRR_REQUIRED", "3DNOW_FETCH", "PSEUDO_OPCODE", "INVALID_64BITS", "64BITS", "PRE_REX",
  "USE_EXMNEMONIC2", "64BITS_FETCH", "FORCE_REG0", "PRE_VEX", "MODRM_INCLUDED", "DST_WR" >>
FlagExNames == <<
  "VEX_L", "VEX_W", "MNEMONIC_VEXW_BASED", "MNEMONIC_VEXL_BASED", "FORCE_VEXL",
  "MODRR_BASED", "VEX_V_UNUSED" >>

InstFlags == [f \in 1..Len(FlagsTable) |-> {FlagNames[b + 1] : b \in FlagsTable[f]}]
INST_INFO_FLAGS(flagsIndex) == InstFlags[flagsIndex + 1]
InfoExFlags(flags) == {FlagExNames[b + 1] : b \in {n \in 0..6 : (flags \div 2^n) % 2 = 1}}

(* The lower three bits of meta: how the instruction changes the flow. *)
META_GET_FC(meta) == meta % 8

(* _InstInfo and _InstInfoEx.  What the shorter structure does not have is *)
(* given the value that no row has.                                        *)
InstInfo(flagsIndex, s, d, meta, opcodeId) ==
  [kind |-> "INFO", flags |-> INST_INFO_FLAGS(flagsIndex), s |-> OpType[s + 1],
   d |-> OpType[d + 1], fc |-> META_GET_FC(meta), id |-> opcodeId,
   flagsEx |-> {}, op3 |-> "NONE", op4 |-> "NONE", id2 |-> 0, id3 |-> 0]
InstInfoEx(base, flagsEx, op3, op4, id2, id3) ==
  [base EXCEPT !.kind = "INFOEX", !.flagsEx = InfoExFlags(flagsEx),
               !.op3 = OpType[op3 + 1], !.op4 = OpType[op4 + 1], !.id2 = id2, !.id3 = id3]
NULL == [kind |-> "NULL"]

(* Mutant of InfoOf: the operands are swapped. *)
InfoOfSwapped(r) == InstInfo(r[1], r[3], r[2], r[4], r[5])

(* The structure of a row of a table. *)
InfoOf(r) == InstInfo(r[1], r[2], r[3], r[4], r[5])
InfoExOf(r) == InstInfoEx(InfoOf(r), r[6], r[7], r[8], r[9], r[10])

Row(i) == InfoOf(InstInfos[i + 1])
RowEx(i) == InfoExOf(InstInfosEx[i + 1])

-----------------------------------------------------------------------------
(* The nodes of the trie. *)
INST_NODE_TYPE(in) == in \div 8192
INST_NODE_INDEX(in) == in % 8192
INT_NOTEXISTS == 0
INT_INFO == 1
INT_INFOEX == 2
INT_LIST_GROUP == 3
INT_LIST_FULL == 4
INT_LIST_DIVIDED == 5
INT_LIST_PREFIXED == 6
INT_INFOS == INT_LIST_GROUP

Node(in, index) == InstructionsTree[INST_NODE_INDEX(in) + index + 1]
Root(byte) == InstructionsTree[byte + 1]
Info(in) == IF INST_NODE_TYPE(in) = INT_INFO THEN Row(INST_NODE_INDEX(in))
            ELSE RowEx(INST_NODE_INDEX(in))

(* Two fetches: the node from the list, the row from its table. *)
InfoOrNull(in) == IF in = INT_NOTEXISTS THEN NULL ELSE Info(in)
inst_get_info(in, index) == InfoOrNull(Node(in, index))

(* The instructions that are not in the database, x86defs.c.  The first    *)
(* rows of FlagsTable are kept for them.                                   *)
II_arpl   == InstInfo(0, 10, 16, 8, 111)
II_movsxd == InstInfo(1, 75, 13, 8, 10019)
II_nop    == InstInfo(2, 0, 0, 8, 581)
II_pause  == InstInfo(3, 0, 0, 8, 10027)
II_3dnow  == InstInfo(4, 67, 64, 96, 0)
=============================================================================
