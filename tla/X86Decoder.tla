----------------------------- MODULE X86Decoder -----------------------------
(***************************************************************************)
(* The loop of the bundled diStorm: distorm3.2-package/src/decoder.c under *)
(* the two entry points of distorm.c.  One action is one turn of the loop  *)
(* of decode_internal(): the prefixes are read, then the instruction, then *)
(* one or more entries of the result are written.                          *)
(*                                                                         *)
(* Offsets count from the start of the code; codeOffset, the address of    *)
(* the first byte, is added in the entries.                                *)
(***************************************************************************)
EXTENDS X86Operands

CONSTANTS Inputs         \* what the program calls the disassembler with: families of calls

(* Any bytes, any number of entries; _DecodeType and the features are what *)
(* the caller makes them.                                                  *)
Calls == [bytes : Seq(0..255), dt : Nat, max : Nat, features : SUBSET STRING, codeOffset : Nat]
ASSUME InputAssumption == \A family \in Inputs : family \subseteq Calls

VARIABLES input,         \* [bytes, dt, codeOffset, max, features]
          pc,            \* "call", "loop" or "done"
          at,            \* code: offset of the next byte
          codeLen,       \* bytes left
          result,        \* the entries that were written (nextPos = Len)
          usedInstructionsCount,
          nextOffset,
          ret            \* the _DecodeResult

vars == <<input, pc, at, codeLen, result, usedInstructionsCount, nextOffset, ret>>

INST_CMP_MAX_RANGE == 8
INST_VCMP_MAX_RANGE == 32
I_WAIT == 10013
I_UNDEFINED == 0
FC_NONE == 0
StopOn == [f \in 1..7 |-> <<"STOP_ON_CALL", "STOP_ON_RET", "STOP_ON_SYS", "STOP_ON_UNC_BRANCH",
                            "STOP_ON_CND_BRANCH", "STOP_ON_INT", "STOP_ON_CMOV">>[f]]

NoOperand == [type |-> "NONE", index |-> 0, size |-> 0]

(* What the loop starts every instruction with. *)
Fresh(in, from, left) ==
  [bytes |-> in.bytes, dt |-> in.dt, code |-> from, codeLen |-> left,
   start |-> from, last |-> from, decodedPrefixes |-> {}, usedPrefixes |-> {},
   pfxIndexer |-> [t \in PrefixTypes |-> NoIndex], unusedPrefixesMask |-> {},
   prefixExtType |-> "NONE", vrex |-> {}, rexPos |-> 0, vexPos |-> 0, vexV |-> 0,
   isOpSizeMandatory |-> FALSE, segment |-> {}, base |-> R_NONE, scale |-> 0, dispSize |-> 0,
   flags |-> {}, ops |-> [n \in 1..4 |-> NoOperand], lockable |-> FALSE, ok |-> TRUE,
   ii |-> NULL, modrm |-> 0, effOpSz |-> in.dt, effAdrSz |-> in.dt,
   opcode |-> I_UNDEFINED, opSize |-> 16, cmpType |-> 0]

-----------------------------------------------------------------------------
decode_get_effective_addr_size(w) ==
  IF "PRE_ADDR_SIZE" \notin w.decodedPrefixes THEN w.dt ELSE IF w.dt = 32 THEN 16 ELSE 32

decode_get_effective_op_size(w) ==
  CASE "PRE_OP_SIZE" \in w.decodedPrefixes -> IF w.dt = 16 THEN 32 ELSE 16
    [] "PRE_OP_SIZE" \notin w.decodedPrefixes /\ w.dt /= 64 -> w.dt
    [] OTHER -> IF Promoted(w) \/ ("PRE_REX" \in w.decodedPrefixes /\ "W" \in w.vrex) THEN 64 ELSE 32

(* REX.W has precedence over the operand size, unless that is mandatory. *)
RexDisablesOpSize(w) ==
  IF /\ w.prefixExtType = "REX" /\ "W" \in w.vrex
     /\ "PRE_OP_SIZE" \in w.decodedPrefixes /\ ~w.isOpSizeMandatory
  THEN prefixes_ignore(Drop(w, "PRE_OP_SIZE"), "OP_SIZE")
  ELSE w

ValidInMode(w) ==
  IF w.dt = 64 THEN "INVALID_64BITS" \notin w.ii.flags ELSE "64BITS_FETCH" \notin w.ii.flags

(* The ModR/M byte, if it is not a part of the opcode already; code is then *)
(* past the last byte that was read.                                        *)
FetchModRM(w) ==
  IF "MODRM_REQUIRED" \notin w.ii.flags THEN [w EXCEPT !.code = @ + 1]
  ELSE LET x == IF "MODRM_INCLUDED" \in w.ii.flags THEN w ELSE Advance(w)
       IN  [x EXCEPT !.modrm = Here(x), !.code = @ + 1,
                     !.ok = /\ x.codeLen >= 0
                            /\ "FORCE_REG0" \in w.ii.flags => Reg(Here(x)) = 0
                            /\ "MODRR_REQUIRED" \in w.ii.flags => Here(x) >= INST_DIVIDED_MODRM]

Effective(w) == [w EXCEPT !.effOpSz = decode_get_effective_op_size(w),
                          !.effAdrSz = decode_get_effective_addr_size(w)]

(* The operands an instruction has, up to the first that is missing. *)
OperandCount(ii) ==
  CASE ii.d = "NONE" -> 0
    [] ii.d /= "NONE" /\ ii.s = "NONE" -> 1
    [] ii.d /= "NONE" /\ ii.s /= "NONE" /\ "USE_OP3" \notin ii.flags -> 2
    [] OTHER -> IF "USE_OP4" \in ii.flags THEN 4 ELSE 3

Operand(w, n) ==
  IF w.ok /\ n <= OperandCount(w.ii)
  THEN operands_extract(w, n, <<w.ii.d, w.ii.s, w.ii.op3, w.ii.op4>>[n])
  ELSE w

Operands(w) == Operand(Operand(Operand(Operand(Effective(w), 1), 2), 3), 4)

(* A 3DNow! instruction is known by the byte after its operands. *)
Found3DNow(found) ==
  [found[1] EXCEPT !.ok = found[2] /= NULL, !.ii = IF found[2] = NULL THEN @ ELSE found[2]]
Fetch3DNow(w) ==
  IF w.ok /\ "3DNOW_FETCH" \in w.ii.flags THEN Found3DNow(inst_lookup_3dnow(w)) ELSE w

(* The kind of a comparison is the byte after the operands. *)
PseudoOpcode(w) ==
  IF ~w.ok \/ "PSEUDO_OPCODE" \notin w.ii.flags THEN w
  ELSE [read_stream_safe(w, 1) EXCEPT
          !.cmpType = Byte(w, w.code),
          !.ok = @ /\ Byte(w, w.code) < (IF "PRE_VEX" \in w.ii.flags THEN INST_VCMP_MAX_RANGE
                                         ELSE INST_CMP_MAX_RANGE)]

(* LOCK, REPNZ and REP: the first of them that the instruction can have. *)
RepeatFlag(w) ==
  LET both == w.ii.flags \cap w.decodedPrefixes
  IN  CASE w.lockable /\ "PRE_LOCK" \in w.ii.flags ->
             [Use(w, {"PRE_LOCK"}) EXCEPT !.flags = @ \cup {"LOCK"}]
        [] ~(w.lockable /\ "PRE_LOCK" \in w.ii.flags) /\ "PRE_REPNZ" \in both ->
             [Use(w, {"PRE_REPNZ"}) EXCEPT !.flags = @ \cup {"REPNZ"}]
        [] ~(w.lockable /\ "PRE_LOCK" \in w.ii.flags) /\ both \cap {"PRE_REPNZ", "PRE_REP"} = {"PRE_REP"} ->
             [Use(w, {"PRE_REP"}) EXCEPT !.flags = @ \cup {"REP"}]
        [] OTHER -> w

-----------------------------------------------------------------------------
Named(w, opcode, used) == [Use(w, used) EXCEPT !.opcode = opcode]

(* Which of up to three names: by the address size for JCXZ, by the operand *)
(* size, by mod, and in 64 bits by REX.W.                                   *)
Mnemonic(w) ==
  LET flags == w.ii.flags
      ex    == "USE_EXMNEMONIC" \in flags
      ex2   == "USE_EXMNEMONIC2" \in flags /\ "W" \in w.vrex
      byMod == "MNEMONIC_MODRM_BASED" \in flags /\ w.modrm >= INST_DIVIDED_MODRM
      sized == [w EXCEPT !.opSize = w.effOpSz]
  IN  CASE {"PRE_ADDR_SIZE", "USE_EXMNEMONIC"} \subseteq flags ->
             Named(w, CASE w.effAdrSz = 16 -> w.ii.id [] w.effAdrSz = 32 -> w.ii.id2
                        [] w.effAdrSz = 64 -> w.ii.id3, {"PRE_ADDR_SIZE"})
        [] {"PRE_ADDR_SIZE", "NATIVE"} \subseteq flags /\ ~ex -> Named(w, w.ii.id, {"PRE_ADDR_SIZE"})
        [] OTHER ->
             CASE w.effOpSz = 16 ->
                    Named(sized, w.ii.id,
                          When("PRE_OP_SIZE", ex /\ flags \cap {"32BITS", "64BITS"} = {}))
               [] w.effOpSz = 32 ->
                    Named(sized, IF ex /\ ~byMod THEN w.ii.id2 ELSE w.ii.id, When("PRE_OP_SIZE", ex))
               [] w.effOpSz = 64 ->
                    IF ~ex /\ "USE_EXMNEMONIC2" \notin flags THEN Named(sized, w.ii.id, {})
                    ELSE [Named(sized, IF ex2 THEN w.ii.id3 ELSE w.ii.id2, When("PRE_REX", ex2))
                            EXCEPT !.ok = ~byMod]

(* Mutant of NameFixed: the names of both forms lie equally far apart. *)
NameFixedAlike(w) ==
  [w EXCEPT !.opcode = IF "PSEUDO_OPCODE" \in w.ii.flags THEN w.ii.id + CmpMnemonicOffsets[(w.cmpType % 8) + 1]
                       ELSE @]

(* Native instructions use the operand size; some names of AVX depend on   *)
(* VEX.W or VEX.L, and those of comparisons on the byte that was read.     *)
NameFixed(w) ==
  LET native == "NATIVE" \in w.ii.flags /\ "PRE_OP_SIZE" \in w.decodedPrefixes
      vex    == "PRE_VEX" \in w.ii.flags
      other  == vex /\ \/ "MNEMONIC_VEXW_BASED" \in w.ii.flagsEx /\ "W" \in w.vrex
                       \/ "MNEMONIC_VEXL_BASED" \in w.ii.flagsEx /\ "L" \in w.vrex
      offset == IF vex THEN VCmpMnemonicOffsets[w.cmpType + 1] ELSE CmpMnemonicOffsets[w.cmpType + 1]
  IN  [Use(w, When("PRE_OP_SIZE", native)) EXCEPT
         !.opcode = IF "PSEUDO_OPCODE" \in w.ii.flags THEN w.ii.id + offset
                    ELSE IF other THEN w.ii.id2 ELSE @]

(* What _DInst says of an instruction, and how many bytes are left. *)
Decoded(w, startCode) ==
  [decodable |-> TRUE, opcode |-> w.opcode, size |-> w.code - startCode, ops |-> w.ops,
   segment |-> IF w.segment = {} THEN {"NONE"} ELSE w.segment, base |-> w.base,
   scale |-> w.scale, dispSize |-> w.dispSize, opSize |-> w.opSize, adrSize |-> w.effAdrSz,
   flags |-> w.flags \cup When("DST_WR", "DST_WR" \in w.ii.flags), fc |-> w.ii.fc,
   unusedPrefixesMask |-> prefixes_set_unused_mask(w), left |-> w.codeLen, addr |-> 0]

(* WAIT is a valid instruction of its own when what follows is not. *)
Undecodable(w) ==
  [decodable |-> Here(w) = INST_WAIT_INDEX, size |-> 1, ops |-> [n \in 1..4 |-> NoOperand],
   opcode |-> IF Here(w) = INST_WAIT_INDEX THEN I_WAIT ELSE I_UNDEFINED,
   segment |-> {}, base |-> R_NONE, scale |-> 0, dispSize |-> 0, opSize |-> 16, adrSize |-> 16,
   flags |-> {}, fc |-> FC_NONE, unusedPrefixesMask |-> {}, left |-> w.codeLen - 1, addr |-> 0]

(* Everything between the lookup and the entry, as long as all goes well. *)
Extracted(w) == PseudoOpcode(Fetch3DNow(Operands(FetchModRM(w))))

(* No more than 15 bytes with its prefixes. *)
ShortEnough(w) == [w EXCEPT !.ok = @ /\ w.code - w.start <= INST_MAXIMUM_SIZE]

NamedInst(w) == IF w.ok THEN NameFixed(Mnemonic(RepeatFlag(w))) ELSE w

(* From the row that was found to what is known of the instruction; not ok *)
(* when there is no row or the instruction is none after all.              *)
InMode(w) == [w EXCEPT !.ok = ValidInMode(w)]
WithRow(found) ==
  IF found[2] = NULL THEN [found[1] EXCEPT !.ok = FALSE]
  ELSE InMode(RexDisablesOpSize([found[1] EXCEPT !.ii = found[2]]))

Completed(w) == IF w.ok THEN NamedInst(ShortEnough(Extracted(w))) ELSE w

Entry(w, done) == IF done.ok THEN Decoded(done, w.code) ELSE Undecodable(w)

decode_inst(w) == Entry(w, Completed(WithRow(inst_lookup(w))))

-----------------------------------------------------------------------------
(* The prefixes in front of an instruction. *)
PastPrefixes(w) == [w EXCEPT !.code = w.last, !.codeLen = @ - (w.last - w.start)]
ReadPrefixes(w) ==
  IF prefixes_is_valid(Here(w), w.dt) THEN PastPrefixes(prefixes_decode(w)) ELSE w

PrefixSize(w) == w.last - w.start

(* In 64 bits mode a REX that is not in front of the opcode does not count, *)
(* and neither does an override of CS, DS, ES or SS.                        *)
Prefixes64(w) ==
  LET rex == IF "PRE_REX" \in w.decodedPrefixes /\ w.rexPos /= w.code - 1
             THEN prefixes_ignore([Drop(w, "PRE_REX") EXCEPT !.prefixExtType = "NONE"], "REX")
             ELSE w
  IN  IF w.dt /= 64 THEN w
      ELSE IF SEGOVRD32 \cap w.decodedPrefixes = {} THEN rex
      ELSE prefixes_ignore([rex EXCEPT !.decodedPrefixes = @ \ SEGOVRD32], "SEG")

(* Addresses are cut to 16 bits in that mode; 32 bits are never exceeded. *)
Masked(in, addr) == IF "MAXIMUM_ADDR16" \in in.features THEN addr % 65536 ELSE addr

Filtered(in) == "RETURN_FC_ONLY" \in in.features
FcOnly == Filtered(input)

(* One entry for each byte that is not a part of an instruction. *)
Bytes(in, first, n) ==
  [i \in 1..n |-> [decodable |-> FALSE, size |-> 1, addr |-> Masked(in, in.codeOffset + first + i - 1),
                   byte |-> in.bytes[first + i]]]

Room(n) == Len(result) + n <= input.max

(* What one turn of the loop reads at a position. *)
TurnAt(in, from, left) == Prefixes64(ReadPrefixes(Fresh(in, from, left)))
Turn == TurnAt(input, at, codeLen)

Finish(res) == pc' = "done" /\ ret' = res

(* distorm_decompose() and distorm_decode() look at their arguments. *)
distorm_decompose ==
  /\ pc = "call"
  /\ UNCHANGED <<input, at, codeLen, result, usedInstructionsCount>>
  /\ IF \/ input.dt \notin {16, 32, 64}
        \/ {"MAXIMUM_ADDR16", "MAXIMUM_ADDR32"} \subseteq input.features
     THEN Finish("INPUTERR") /\ UNCHANGED nextOffset
     ELSE IF codeLen = 0 THEN Finish("SUCCESS") /\ UNCHANGED nextOffset
     ELSE pc' = "loop" /\ nextOffset' = input.codeOffset /\ UNCHANGED ret

(* decode_internal() starts. *)
Init ==
  /\ \E family \in Inputs : input \in family
  /\ pc = "call"
  /\ at = 0
  /\ codeLen = Len(input.bytes)
  /\ result = <<>>
  /\ usedInstructionsCount = 0
  /\ nextOffset = -1
  /\ ret = "NONE"

OnlyPrefixes(w) == PrefixSize(w) > 0 /\ (w.codeLen = 0 \/ PrefixSize(w) = INST_MAXIMUM_SIZE)

(* The code ends after a prefix, or 15 of them were read.  nextOffset is   *)
(* not brought up to date.                                                 *)
DropPrefixes ==
  /\ pc = "loop" /\ codeLen > 0
  /\ \E w \in {Turn} :
       /\ OnlyPrefixes(w)
       /\ UNCHANGED <<input, nextOffset>>
       /\ IF ~FcOnly /\ ~Room(PrefixSize(w))
          THEN Finish("MEMORYERR") /\ UNCHANGED <<at, codeLen, result, usedInstructionsCount>>
          ELSE /\ result' = IF FcOnly THEN result ELSE result \o Bytes(input, at, PrefixSize(w))
               /\ usedInstructionsCount' = IF FcOnly THEN usedInstructionsCount ELSE Len(result')
               /\ codeLen' = w.codeLen
               /\ IF w.codeLen = 0 THEN Finish("SUCCESS") /\ UNCHANGED at
                  ELSE at' = at + PrefixSize(w) /\ UNCHANGED <<pc, ret>>

(* No entry is left. *)
NoRoom ==
  /\ pc = "loop" /\ codeLen > 0
  /\ ~OnlyPrefixes(Turn) /\ ~Room(1)
  /\ Finish("MEMORYERR")
  /\ UNCHANGED <<input, at, codeLen, result, usedInstructionsCount, nextOffset>>

(* Mutant of Advanced: the prefixes are forgotten. *)
AdvancedShort(n, size) ==
  /\ at' = at + size
  /\ codeLen' = codeLen - size
  /\ usedInstructionsCount' = Len(result')
  /\ nextOffset' = input.codeOffset + at'

(* Past n prefixes and an instruction, with the result as it is by now. *)
Advanced(n, size) ==
  /\ at' = at + n + size
  /\ codeLen' = codeLen - n - size
  /\ usedInstructionsCount' = Len(result')
  /\ nextOffset' = input.codeOffset + at'

(* An entry covers its prefixes as well. *)
Stored(in, p, w, d) == [d EXCEPT !.addr = Masked(in, in.codeOffset + p), !.size = @ + PrefixSize(w)]
StoreEntry(w, d) == result' = Append(result, Stored(input, at, w, d))

(* An instruction: kept, or filtered out as it does not change the flow;   *)
(* some of those that do may end the call.                                 *)
Stops(in, d) == d.fc \in DOMAIN StopOn /\ StopOn[d.fc] \in in.features
StoreInstruction(w, d) ==
  /\ d.decodable \/ FcOnly
  /\ IF FcOnly /\ d.fc = FC_NONE
     THEN UNCHANGED <<result, pc, ret>>
     ELSE /\ StoreEntry(w, d)
          /\ IF Stops(input, d)
             THEN Finish("SUCCESS")
             ELSE UNCHANGED <<pc, ret>>
  /\ Advanced(PrefixSize(w), d.size)

(* Mutant of DropInstruction: the entries are not counted. *)
DropInstructionAlways(w, d) ==
  /\ ~d.decodable /\ ~FcOnly
  /\ result' = result \o Bytes(input, at, PrefixSize(w) + 1)
  /\ Advanced(PrefixSize(w), 1)
  /\ UNCHANGED <<pc, ret>>

(* No instruction: its first byte and the prefixes are an entry each. *)
DropInstruction(w, d) ==
  /\ ~d.decodable /\ ~FcOnly
  /\ IF Room(PrefixSize(w) + 1)
     THEN /\ result' = result \o Bytes(input, at, PrefixSize(w) + 1)
          /\ Advanced(PrefixSize(w), 1)
          /\ UNCHANGED <<pc, ret>>
     ELSE /\ Finish("MEMORYERR")
          /\ UNCHANGED <<at, codeLen, result, usedInstructionsCount, nextOffset>>

Instruction ==
  /\ pc = "loop" /\ codeLen > 0 /\ Room(1)
  /\ UNCHANGED input
  /\ \E w \in {Turn} : ~OnlyPrefixes(w) /\ \E d \in {decode_inst(w)} :
       StoreInstruction(w, d) \/ DropInstruction(w, d)

OutOfCode ==
  /\ pc = "loop" /\ codeLen <= 0
  /\ Finish("SUCCESS")
  /\ UNCHANGED <<input, at, codeLen, result, usedInstructionsCount, nextOffset>>

Next == \/ distorm_decompose \/ DropPrefixes \/ NoRoom
        \/ Instruction \/ OutOfCode

Spec == Init /\ [][Next]_vars
=============================================================================
