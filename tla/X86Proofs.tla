------------------------------ MODULE X86Proofs ------------------------------
(***************************************************************************)
(* Proofs about the loop of the bundled diStorm, for any code, any number  *)
(* of entries and any features:                                            *)
(*                                                                         *)
(*   - reading an instruction: every operator between the prefixes and the *)
(*     entry keeps code + codeLen the same, so an entry stands for at      *)
(*     least one byte and never for more than there are (EntrySized,       *)
(*     TurnOpened);                                                        *)
(*   - the loop: the entries tile what was read of the code (LoopInv);     *)
(*   - the reference: the listing of the code exists, and the loop is      *)
(*     always somewhere in it (LoopLists).                                 *)
(*                                                                         *)
(* What the tables say is not used: the proofs hold of any rows.           *)
(***************************************************************************)
EXTENDS X86Properties, FiniteSetTheorems, SequenceTheorems, WellFoundedInduction, TLAPS

(* The fields of the record that a turn works on, and the sizes.           *)
Fields ==
  {"bytes", "dt", "code", "codeLen", "start", "last", "decodedPrefixes", "usedPrefixes",
   "pfxIndexer", "unusedPrefixesMask", "prefixExtType", "vrex", "rexPos", "vexPos", "vexV",
   "isOpSizeMandatory", "segment", "base", "scale", "dispSize", "flags", "ops", "lockable",
   "ok", "ii", "modrm", "effOpSz", "effAdrSz", "opcode", "opSize", "cmpType"}
Sizes == {16, 32, 64}

(* What holds of it while the operands are read.                           *)
Ready(w) ==
  /\ DOMAIN w = Fields
  /\ w.code \in Nat /\ w.codeLen \in Int /\ w.ok \in BOOLEAN
  /\ w.ok => w.codeLen >= 0
  /\ w.dt \in Sizes /\ w.effOpSz \in Sizes /\ w.effAdrSz \in Sizes
  /\ DOMAIN w.ops = 1..4

(* What reading an operand leaves alone.                                   *)
Same(w, x) ==
  /\ x.bytes = w.bytes /\ x.dt = w.dt /\ x.start = w.start /\ x.last = w.last
  /\ x.effOpSz = w.effOpSz /\ x.effAdrSz = w.effAdrSz /\ x.ii = w.ii /\ x.modrm = w.modrm
  /\ x.vrex = w.vrex /\ x.vexV = w.vexV
  /\ x.decodedPrefixes = w.decodedPrefixes /\ x.prefixExtType = w.prefixExtType

(* What it does to the two counters.                                       *)
Step(w, x) ==
  /\ Ready(x) /\ Same(w, x)
  /\ x.code >= w.code /\ x.code + x.codeLen = w.code + w.codeLen
  /\ x.ok => w.ok

(* The fields that the proofs change are among them.                       *)
LEMMA InFields ==
  /\ "bytes" \in Fields /\ "dt" \in Fields /\ "code" \in Fields /\ "codeLen" \in Fields
  /\ "start" \in Fields /\ "last" \in Fields /\ "ok" \in Fields /\ "ops" \in Fields
  /\ "effOpSz" \in Fields /\ "effAdrSz" \in Fields /\ "ii" \in Fields /\ "modrm" \in Fields
  /\ "vrex" \in Fields /\ "vexV" \in Fields /\ "decodedPrefixes" \in Fields
  /\ "prefixExtType" \in Fields /\ "usedPrefixes" \in Fields /\ "segment" \in Fields
  /\ "base" \in Fields /\ "scale" \in Fields /\ "flags" \in Fields /\ "dispSize" \in Fields
  /\ "lockable" \in Fields /\ "opcode" \in Fields /\ "opSize" \in Fields /\ "cmpType" \in Fields
  /\ "unusedPrefixesMask" \in Fields /\ "pfxIndexer" \in Fields /\ "vexPos" \in Fields
  /\ "rexPos" \in Fields /\ "isOpSizeMandatory" \in Fields
BY DEF Fields

(* Steps compose.                                                          *)
LEMMA StepTrans ==
  ASSUME NEW w, NEW x, NEW y, Ready(w), Step(w, x), Step(x, y) PROVE Step(w, y)
BY DEF Step, Ready, Same

(* A step leads to such a record again.                                    *)
LEMMA StepReady == ASSUME NEW w, NEW x, Step(w, x) PROVE Ready(x)
BY DEF Step

(* Doing nothing is a step.                                                *)
LEMMA StepSelf == ASSUME NEW w, Ready(w) PROVE Step(w, w)
BY DEF Step, Ready, Same

(* So is taking note of a prefix,                                          *)
LEMMA StepUse == ASSUME NEW w, Ready(w), NEW p PROVE Step(w, Use(w, p))
BY InFields DEF Use, Ready, Step, Same

(* or of something in a field that no reading depends on,                  *)
LEMMA StepSet ==
  ASSUME NEW w, Ready(w), NEW n, NEW t, NEW s, NEW i PROVE Step(w, Set(w, n, t, s, i))
BY InFields DEF Set, Ready, Step, Same

(* and finding that this is no instruction.                                *)
LEMMA StepFail == ASSUME NEW w, Ready(w) PROVE Step(w, Fail(w))
BY InFields DEF Fail, Ready, Step, Same

(* Reading n bytes is one when they are there, and fails when not.         *)
LEMMA StepRead ==
  ASSUME NEW w, Ready(w), NEW size \in Nat PROVE Step(w, read_stream_safe(w, size))
<1> DEFINE x == read_stream_safe(w, size)
<1>1. x.ok = (w.ok /\ w.codeLen >= size)
  BY InFields, Zenon DEF read_stream_safe, Ready
<1>2. x.code = w.code + size /\ x.codeLen = w.codeLen - size /\ DOMAIN x = Fields
  BY InFields DEF read_stream_safe, Ready
<1>3. Same(w, x) /\ x.ops = w.ops
  BY InFields DEF read_stream_safe, Ready, Same
<1> HIDE DEF x
<1>4. x.ok \in BOOLEAN /\ (x.ok => w.ok) /\ (x.ok => w.codeLen >= size)
  BY <1>1, Zenon
<1>5. Step(w, x)
  BY <1>2, <1>3, <1>4 DEF Ready, Step, Same
<1> QED BY <1>5 DEF x

(* Fields that are neither counters nor sizes may change.                  *)
WithSegment(w, v) == [w EXCEPT !.segment = v]
WithFlags(w, v) == [w EXCEPT !.flags = v]
WithBase(w, v) == [w EXCEPT !.base = v]
WithBaseScale(w, b, s) == [w EXCEPT !.base = b, !.scale = s]
WithDispSize(w, v) == [w EXCEPT !.dispSize = v]
WithLockable(w, v) == [w EXCEPT !.lockable = v]
WithSize(w, n, s) == [w EXCEPT !.ops[n].size = s]

(* Several such fields at a time.                                          *)
LEMMA StepFields ==
  ASSUME NEW w, Ready(w), NEW u, NEW v
  PROVE  /\ Step(w, WithSegment(w, v)) /\ Step(w, WithFlags(w, v)) /\ Step(w, WithBase(w, v))
         /\ Step(w, WithBaseScale(w, u, v)) /\ Step(w, WithDispSize(w, v))
         /\ Step(w, WithLockable(w, v)) /\ Step(w, WithSize(w, u, v))
<1>1. Step(w, WithSegment(w, v)) /\ Step(w, WithFlags(w, v)) /\ Step(w, WithBase(w, v))
  BY InFields DEF Ready, Step, Same, WithSegment, WithFlags, WithBase
<1>2. Step(w, WithBaseScale(w, u, v)) /\ Step(w, WithDispSize(w, v)) /\ Step(w, WithLockable(w, v))
  BY InFields DEF Ready, Step, Same, WithBaseScale, WithDispSize, WithLockable
<1>3. Step(w, WithSize(w, u, v))
  BY InFields DEF Ready, Step, Same, WithSize
<1> QED BY <1>1, <1>2, <1>3

(* The segment of an operand in memory.                                    *)
LEMMA StepUseSegment ==
  ASSUME NEW w, Ready(w), NEW s PROVE Step(w, prefixes_use_segment(w, s))
BY InFields DEF Ready, Step, Same, prefixes_use_segment

-----------------------------------------------------------------------------
(* The memory forms.                                                       *)
LEMMA StepSib ==
  ASSUME NEW w, Ready(w), NEW n, NEW sib, NEW mod PROVE Step(w, operands_extract_sib(w, n, sib, mod))
<1> DEFINE noBase == sib % 8 = 5 /\ mod = 0
           x == Use(w, RexFor(w, "X") \cup (IF noBase THEN {} ELSE RexFor(w, "B")))
           y(i) == Set(x, n, "MEM", w.ops[n].size, i)
<1>1. Step(w, x)
  BY StepUse
<1>2. \A t, s, i : Step(w, Set(x, n, t, s, i))
  <2> HIDE DEF x
  <2> QED BY <1>1, StepSet, StepTrans, StepReady
<1>3. ASSUME NEW i, NEW b, NEW c PROVE Step(w, WithBaseScale(y(i), b, c))
  <2>1. Step(w, y(i))
    BY <1>2
  <2> HIDE DEF y
  <2>2. Step(y(i), WithBaseScale(y(i), b, c))
    BY <2>1, StepFields, StepReady
  <2> QED BY <2>1, <2>2, StepTrans
<1>5. CASE noBase
  <2>1. \A i, c : Step(w, [y(i) EXCEPT !.base = @, !.scale = c])
    BY <1>3 DEF WithBaseScale
  <2> HIDE DEF x
  <2> QED BY <1>2, <2>1, <1>5 DEF operands_extract_sib, x
<1>6. CASE ~noBase
  <2> DEFINE index == ((sib \div 8) % 8) + Ext(w, "X")
             regs == IF w.effAdrSz = 64 THEN REGS64_BASE ELSE REGS32_BASE
             reg == regs + (sib % 8) + Ext(w, "B")
             scale == IF sib < 64 THEN 0 ELSE 2^(sib \div 64)
  <2>1. CASE index = 4
    <3>1. operands_extract_sib(w, n, sib, mod) = Set(x, n, "SMEM", w.ops[n].size, reg)
      BY <1>6, <2>1 DEF operands_extract_sib
    <3> HIDE DEF x, reg
    <3> QED BY <1>2, <3>1
  <2>2. CASE index # 4
    <3>1. operands_extract_sib(w, n, sib, mod) =
            [Set(x, n, "MEM", w.ops[n].size, regs + index) EXCEPT !.base = reg, !.scale = scale]
      BY <1>6, <2>2, Zenon DEF operands_extract_sib
    <3>2. operands_extract_sib(w, n, sib, mod) = WithBaseScale(y(regs + index), reg, scale)
      BY <3>1 DEF WithBaseScale
    <3> HIDE DEF x, y, reg, regs, index, scale
    <3> QED BY <1>3, <3>2
  <2> QED BY <2>1, <2>2
<1> QED BY <1>5, <1>6

(* A displacement of 8, 16 or 32 bits.                                     *)
LEMMA StepDisp ==
  ASSUME NEW w, Ready(w), NEW bits \in {0, 8, 16, 32, 64} PROVE Step(w, Disp(w, bits))
<1>1. CASE bits = 0
  BY <1>1, StepSelf DEF Disp
<1>2. CASE bits # 0
  <2>1. bits \div 8 \in Nat
    OBVIOUS
  <2>2. Step(w, read_stream_safe(w, bits \div 8))
    BY <2>1, StepRead
  <2>3. Step(w, WithDispSize(read_stream_safe(w, bits \div 8), bits))
    BY <2>2, StepFields, StepTrans, StepReady
  <2> QED BY <1>2, <2>3 DEF Disp, WithDispSize
<1> QED BY <1>1, <1>2

(* The registers of a 16 bits address,                                     *)
LEMMA StepForm16 == ASSUME NEW w, Ready(w), NEW n PROVE Step(w, Form16(w, n))
<1>1. \A t, s, i : Step(w, Set(w, n, t, s, i))
  BY StepSet
<1>2. \A t, s, i, b : Step(w, WithBase(Set(w, n, t, s, i), b))
  BY <1>1, StepFields, StepTrans, StepReady
<1> QED BY <1>1, <1>2 DEF Form16, WithBase

(* and the operand it belongs to.                                          *)
LEMMA StepMemory16 == ASSUME NEW w, Ready(w), NEW n PROVE Step(w, Memory16(w, n))
<1> DEFINE alone == Rm(w) = 6 /\ Mod(w) = 0
           bits  == CASE Mod(w) = 1 -> 8 [] Mod(w) = 2 \/ alone -> 16 [] OTHER -> 0
<1>1. bits \in {0, 8, 16, 32, 64}
  OBVIOUS
<1> HIDE DEF bits
<1>2. Step(w, Disp(Form16(w, n), bits))
  BY <1>1, StepForm16, StepDisp, StepTrans, StepReady
<1>3. \A s : Step(w, prefixes_use_segment(Disp(Form16(w, n), bits), s))
  BY <1>2, StepUseSegment, StepTrans, StepReady
<1> QED BY <1>3 DEF Memory16, bits

(* The same of 32 and 64 bits,                                             *)
LEMMA StepForm32 == ASSUME NEW w, Ready(w), NEW n PROVE Step(w, Form32(w, n))
<1>1. \A t, s, i : Step(w, Set(w, n, t, s, i))
  BY StepSet
<1>2. \A t, s, i, v : Step(w, WithFlags(Set(w, n, t, s, i), v))
  BY <1>1, StepFields, StepTrans, StepReady
<1>3. \A t, s, i, v : Step(w, Use(Set(w, n, t, s, i), v))
  BY <1>1, StepUse, StepTrans, StepReady
<1>4. Step(w, operands_extract_sib(read_stream_safe(w, 1), n, Sib(w), Mod(w)))
  <2>1. Step(w, read_stream_safe(w, 1))
    BY StepRead
  <2> DEFINE r == read_stream_safe(w, 1)
  <2> HIDE DEF r
  <2>2. \A sib, mod : Step(r, operands_extract_sib(r, n, sib, mod))
    BY <2>1, StepReady, StepSib DEF r
  <2>3. \A sib, mod : Step(w, operands_extract_sib(r, n, sib, mod))
    BY <2>1, <2>2, StepTrans DEF r
  <2> QED BY <2>3 DEF r
<1> QED BY <1>1, <1>2, <1>3, <1>4 DEF Form32, WithFlags

(* with a SIB byte or without.                                             *)
LEMMA StepMemory32 == ASSUME NEW w, Ready(w), NEW n PROVE Step(w, Memory32(w, n))
<1> DEFINE bits == CASE Mod(w) = 1 -> 8
                     [] Mod(w) = 2 \/ (Mod(w) = 0 /\ (Alone32(w) \/ Sib(w) % 8 = 5)) -> 32
                     [] OTHER -> 0
<1>1. bits \in {0, 8, 16, 32, 64}
  OBVIOUS
<1> HIDE DEF bits
<1>2. Step(w, Disp(Form32(w, n), bits))
  BY <1>1, StepForm32, StepDisp, StepTrans, StepReady
<1>3. \A s : Step(w, prefixes_use_segment(Disp(Form32(w, n), bits), s))
  BY <1>2, StepUseSegment, StepTrans, StepReady
<1> QED BY <1>3 DEF Memory32, Displaced32, Segmented32, bits

-----------------------------------------------------------------------------
(* The operands of the ModR/M byte.                                        *)
LEMMA StepRegister == ASSUME NEW w, Ready(w), NEW n, NEW r PROVE Step(w, SetRegister(w, n, r))
<1>1. \A t, s, i, p : Step(w, Use(Set(w, n, t, s, i), p))
  BY StepSet, StepUse, StepTrans, StepReady
<1> QED BY <1>1, StepFail DEF SetRegister

(* An operand in memory, of either kind.                                   *)
LEMMA StepExtract ==
  ASSUME NEW w, Ready(w), NEW n, NEW type PROVE Step(w, operands_extract_modrm(w, n, type))
<1>1. \A p, v : Step(w, WithLockable(Use(w, p), v))
  BY StepUse, StepFields, StepTrans, StepReady
<1>2. \A p, v : /\ Step(w, Memory16(WithLockable(Use(w, p), v), n))
                /\ Step(w, Memory32(WithLockable(Use(w, p), v), n))
  BY <1>1, StepMemory16, StepMemory32, StepTrans, StepReady
<1> QED BY <1>2, StepRegister DEF operands_extract_modrm, WithLockable

(* The operand that ModR/M says, a register or in memory.                  *)
LEMMA StepModRM ==
  ASSUME NEW w, Ready(w), NEW n, NEW type PROVE Step(w, ModRMOperand(w, n, type))
<1>1. \A s, p : Step(w, Use(WithSize(w, n, s), p))
  BY StepFields, StepUse, StepTrans, StepReady
<1>2. \A size : Step(w, Sized(w, n, size))
  BY <1>1 DEF Sized, WithSize
<1>3. \A size : Step(w, operands_extract_modrm(Sized(w, n, size), n, type))
  BY <1>2, StepExtract, StepTrans, StepReady
<1> QED BY <1>3, StepSelf, StepFail DEF ModRMOperand

-----------------------------------------------------------------------------
(* The operands without one.                                               *)
LEMMA StepImm ==
  ASSUME NEW w, Ready(w), NEW n, NEW type, NEW size, NEW bytes \in Nat
  PROVE  Step(w, Imm(w, n, type, size, bytes))
BY StepSet, StepRead, StepTrans, StepReady DEF Imm

(* An immediate and what is noted of it.                                   *)
LEMMA StepImmFlags ==
  ASSUME NEW w, Ready(w), NEW n, NEW type, NEW size, NEW bytes \in Nat, NEW f
  PROVE  Step(w, WithFlags(Imm(w, n, type, size, bytes), f))
BY StepImm, StepFields, StepTrans, StepReady

(* One of the operand size,                                                *)
LEMMA StepImm32 == ASSUME NEW w, Ready(w), NEW n PROVE Step(w, Imm32(w, n))
BY StepImm, StepImmFlags DEF Imm32, WithFlags

(* and one of a byte that is extended.                                     *)
LEMMA StepSeImm8 == ASSUME NEW w, Ready(w), NEW n PROVE Step(w, SeImm8(w, n))
<1>1. \A p, s, f : Step(w, WithFlags(Imm(Use(w, p), n, "IMM", s, 1), f))
  BY StepUse, StepImmFlags, StepTrans, StepReady
<1> QED BY <1>1 DEF SeImm8, WithFlags

(* All the kinds of immediates.                                            *)
LEMMA StepImmOperand ==
  ASSUME NEW w, Ready(w), NEW n, NEW type \in ImmTypes PROVE Step(w, ImmOperand(w, n, type))
<1>1. \A t, s, b : b \in Nat => Step(w, Imm(w, n, t, s, b))
  BY StepImm
<1>2. \A p, t, s, b : b \in Nat => Step(w, Imm(Use(w, p), n, t, s, b))
  BY StepUse, StepImm, StepTrans, StepReady
<1>3. \A p : Step(w, Imm32(Use(w, p), n))
  BY StepUse, StepImm32, StepTrans, StepReady
<1>4. w.effOpSz \in {16, 32, 64}
  BY DEF Ready, Sizes
<1> QED BY <1>1, <1>2, <1>3, <1>4, StepImm32, StepSeImm8 DEF ImmOperand, ImmTypes

(* The hint of a branch.                                                   *)
LEMMA StepHint == ASSUME NEW w, Ready(w) PROVE Step(w, Hint(w))
<1>1. \A p, f : Step(w, WithFlags(Use(w, p), f))
  BY StepUse, StepFields, StepTrans, StepReady
<1> QED BY <1>1, StepSelf DEF Hint, WithFlags

(* Where a branch goes to.                                                 *)
LEMMA StepTarget ==
  ASSUME NEW w, Ready(w), NEW n, NEW type \in TargetTypes PROVE Step(w, TargetOperand(w, n, type))
<1>1. \A p, t, s, b : b \in Nat => Step(w, Imm(Use(w, p), n, t, s, b))
  BY StepUse, StepImm, StepTrans, StepReady
<1>2. \A p, t, s, b : b \in Nat => Step(w, Hint(Imm(Use(w, p), n, t, s, b)))
  BY <1>1, StepHint, StepTrans, StepReady
<1>3. \A t, s, b : b \in Nat => Step(w, Hint(Imm(w, n, t, s, b)))
  BY StepImm, StepHint, StepTrans, StepReady
<1> QED BY <1>1, <1>2, <1>3 DEF TargetOperand, TargetTypes

(* An address in the instruction.                                          *)
LEMMA StepMoffs ==
  ASSUME NEW w, Ready(w), NEW n, NEW type PROVE Step(w, MoffsOperand(w, n, type))
<1>1. \A t, s, i, d, p : Step(w, Use(prefixes_use_segment(Set(w, n, t, s, i), d), p))
  BY StepSet, StepUseSegment, StepUse, StepTrans, StepReady
<1>2. w.effAdrSz \in {0, 8, 16, 32, 64}
  BY DEF Ready, Sizes
<1>3. \A t, s, i, d, p : Step(w, Disp(Use(prefixes_use_segment(Set(w, n, t, s, i), d), p), w.effAdrSz))
  BY <1>1, <1>2, StepDisp, StepTrans, StepReady
<1> QED BY <1>3 DEF MoffsOperand

(* Operands that are code or its address.                                  *)
LEMMA StepCode ==
  ASSUME NEW w, Ready(w), NEW n, NEW type \in CodeTypes PROVE Step(w, CodeOperand(w, n, type))
<1>1. \A i, t, s, r : Step(w, Set(w, i, t, s, r))
  BY StepSet
<1>2. \A i, t, s, r, j, u, v, q : Step(w, Set(Set(w, i, t, s, r), j, u, v, q))
  BY <1>1, StepSet, StepTrans, StepReady
<1>3. \A r : Step(w, SetRegister(w, n, r))
  BY StepRegister
<1> QED BY <1>1, <1>2, <1>3 DEF CodeOperand, CodeTypes

(* The operands of string instructions.                                    *)
LEMMA StepString ==
  ASSUME NEW w, Ready(w), NEW n, NEW type \in StringTypes PROVE Step(w, StringOperand(w, n, type))
<1> DEFINE x == Use(w, {"PRE_ADDR_SIZE"})
<1>1. Step(w, x)
  BY StepUse
<1> HIDE DEF x
<1>2. \A t, s, i : Step(w, Set(w, n, t, s, i)) /\ Step(w, Set(x, n, t, s, i))
  BY <1>1, StepSet, StepTrans, StepReady
<1>3. \A p, t, s, i, v : Step(w, WithSegment(Set(Use(x, p), n, t, s, i), v))
  BY <1>1, StepUse, StepSet, StepFields, StepTrans, StepReady
<1>4. \A p, t, s, i, v, d : Step(w, prefixes_use_segment(WithSegment(Set(Use(x, p), n, t, s, i), v), d))
  BY <1>3, StepUseSegment, StepTrans, StepReady
<1>5. \A p, d : Step(w, prefixes_use_segment(Use(x, p), d))
  BY <1>1, StepUse, StepUseSegment, StepTrans, StepReady
<1>6. \A p, d, t, s, i, b : Step(w, WithBase(Set(prefixes_use_segment(Use(x, p), d), n, t, s, i), b))
  BY <1>5, StepSet, StepFields, StepTrans, StepReady
<1>7. CASE type = "REGI_ESI"
  BY <1>4, <1>7 DEF StringOperand, x, WithSegment, WithBase
<1>8. CASE type = "REGI_EDI"
  <2> DEFINE y == Set(Use(x, StringSize(w)[2]), n, "SMEM", StringSize(w)[1], GprBase(w.effAdrSz) + DI)
             es == n = 1 /\ w.dt /= 64
  <2>1. StringOperand(w, n, type) =
          [y EXCEPT !.segment = IF es THEN {"PRE_ES", "DEFAULT"} ELSE @]
    BY <1>8 DEF StringOperand, x
  <2>2. [y EXCEPT !.segment = IF es THEN {"PRE_ES", "DEFAULT"} ELSE @] =
          WithSegment(y, IF es THEN {"PRE_ES", "DEFAULT"} ELSE y.segment)
    BY DEF WithSegment
  <2> QED BY <1>3, <2>1, <2>2
<1>9. CASE type = "REGI_EBXAL"
  BY <1>6, <1>9 DEF StringOperand, x, WithSegment, WithBase
<1>10. CASE type = "REGI_EAX"
  BY <1>2, <1>10 DEF StringOperand, x, WithSegment, WithBase
<1> QED BY <1>7, <1>8, <1>9, <1>10 DEF StringTypes

(* The operand in VEX.vvvv.                                                *)
LEMMA StepVex ==
  ASSUME NEW w, Ready(w), NEW n, NEW type \in VexTypes PROVE Step(w, VexOperand(w, n, type))
<1>1. \A t, s, i : Step(w, Set(w, n, t, s, i))
  BY StepSet
<1>2. \A long, reg : Step(w, Vector(w, n, long, reg))
  BY StepSet DEF Vector
<1>3. \A long, reg : Step(w, Vector(read_stream_safe(w, 1), n, long, reg))
  BY StepRead, StepSet, StepTrans, StepReady DEF Vector
<1> QED BY <1>1, <1>2, <1>3 DEF VexOperand, VexTypes

(* One operand of any type.                                                *)
LEMMA StepOperand ==
  ASSUME NEW w, Ready(w), NEW n, NEW type PROVE Step(w, operands_extract(w, n, type))
BY StepModRM, StepImmOperand, StepRegister, StepTarget, StepMoffs, StepCode, StepString, StepVex,
   StepFail DEF operands_extract

-----------------------------------------------------------------------------
(* The lookup.  What it needs of the record, and what it may change.       *)
Placed(w) == DOMAIN w = Fields /\ w.code \in Nat /\ w.codeLen \in Int

Moved(w, x) ==
  /\ Placed(x)
  /\ x.bytes = w.bytes /\ x.dt = w.dt /\ x.start = w.start /\ x.last = w.last
  /\ x.effOpSz = w.effOpSz /\ x.effAdrSz = w.effAdrSz /\ x.ops = w.ops /\ x.ok = w.ok
  /\ x.vrex = w.vrex /\ x.prefixExtType = w.prefixExtType /\ x.base = w.base
  /\ x.flags = w.flags /\ x.segment = w.segment /\ x.lockable = w.lockable
  /\ x.decodedPrefixes \subseteq w.decodedPrefixes
  /\ x.code >= w.code /\ x.code + x.codeLen = w.code + w.codeLen

(* What it gives back: a row only if every byte read was there.            *)
Found(w, f) ==
  /\ DOMAIN f[1] = Fields
  /\ f[2] # NULL => Moved(w, f[1]) /\ f[1].codeLen >= 0

(* Moves compose.                                                          *)
LEMMA MovedTrans ==
  ASSUME NEW w, NEW x, NEW y, Placed(w), Moved(w, x), Moved(x, y) PROVE Moved(w, y)
BY DEF Moved, Placed

(* A move leads to a place again.                                          *)
LEMMA MovedPlaced == ASSUME NEW w, NEW x, Moved(w, x) PROVE Placed(x)
BY DEF Moved

(* Staying is a move,                                                      *)
LEMMA MovedSelf == ASSUME NEW w, Placed(w) PROVE Moved(w, w)
BY DEF Moved, Placed

(* and so is a byte more,                                                  *)
LEMMA MovedAdvance == ASSUME NEW w, Placed(w) PROVE Moved(w, Advance(w))
BY InFields DEF Moved, Placed, Advance

(* and taking note of prefixes.                                            *)
LEMMA MovedPrefixes ==
  ASSUME NEW w, Placed(w), NEW t
  PROVE  /\ Moved(w, Drop(w, t)) /\ Drop(w, t).codeLen = w.codeLen
         /\ Moved(w, prefixes_ignore(w, t)) /\ prefixes_ignore(w, t).codeLen = w.codeLen
         /\ Moved(w, prefixes_ignore_all(w)) /\ prefixes_ignore_all(w).codeLen = w.codeLen
<1>1. Moved(w, Drop(w, t)) /\ Drop(w, t).codeLen = w.codeLen
  BY InFields DEF Moved, Placed, Drop
<1>2. Moved(w, prefixes_ignore(w, t)) /\ prefixes_ignore(w, t).codeLen = w.codeLen
  BY InFields DEF Moved, Placed, prefixes_ignore
<1>3. Moved(w, prefixes_ignore_all(w)) /\ prefixes_ignore_all(w).codeLen = w.codeLen
  BY InFields DEF Moved, Placed, prefixes_ignore_all
<1> QED BY <1>1, <1>2, <1>3

(* A row found here,                                                       *)
LEMMA FoundHere ==
  ASSUME NEW w, Placed(w), w.codeLen >= 0, NEW r PROVE Found(w, <<w, r>>)
BY MovedSelf DEF Found, Placed

(* none,                                                                   *)
LEMMA FoundNothing == ASSUME NEW w, NEW x, Placed(x) PROVE Found(w, <<x, NULL>>)
BY DEF Found, Placed

(* one found after a move,                                                 *)
LEMMA FoundOn ==
  ASSUME NEW w, NEW x, NEW f, Placed(w), Moved(w, x), Found(x, f) PROVE Found(w, f)
BY MovedTrans DEF Found

(* and one that the same move finds.                                       *)
LEMMA FoundSame ==
  ASSUME NEW w, Placed(w), w.codeLen >= 0, NEW x, Moved(w, x), x.codeLen = w.codeLen, NEW r
  PROVE  Found(w, <<x, r>>)
BY DEF Found, Moved, Placed

(* A row by the mandatory prefix.                                          *)
LEMMA FoundPrefixed ==
  ASSUME NEW w, Placed(w), w.codeLen >= 0, NEW in PROVE Found(w, inst_lookup_prefixed(w, in))
<1>1. \A p, r : Found(w, <<Drop(w, p), r>>)
  BY MovedPrefixes, FoundSame
<1>2. \A r : Found(w, <<[Drop(w, "PRE_OP_SIZE") EXCEPT !.isOpSizeMandatory = TRUE], r>>)
  <2> DEFINE x == [Drop(w, "PRE_OP_SIZE") EXCEPT !.isOpSizeMandatory = TRUE]
  <2>1. Moved(w, x) /\ x.codeLen = w.codeLen
    BY InFields DEF Moved, Placed, Drop
  <2> HIDE DEF x
  <2> QED BY <2>1, FoundSame DEF x
<1>3. \A r : Found(w, <<w, r>>)
  BY FoundHere
<1>4. ASSUME NEW i, NEW a, NEW b PROVE Found(w, LookupPrefixed(w, i, a, b))
  BY <1>1, <1>2, <1>3 DEF LookupPrefixed
<1> QED BY <1>4 DEF inst_lookup_prefixed

(* A row that a table names.                                               *)
LEMMA FoundLeaf ==
  ASSUME NEW w, Placed(w), w.codeLen >= 0, NEW in PROVE Found(w, Leaf(w, in))
BY FoundHere, FoundPrefixed DEF Leaf

(* A row by the ModR/M byte.                                               *)
LEMMA FoundDivided ==
  ASSUME NEW w, Placed(w), w.codeLen >= 0, NEW in, NEW wait
  PROVE  Found(w, OneDivided(w, in, wait)) /\ Found(w, TwoDivided(w, in))
<1>1. \A r : Found(w, <<w, r>>)
  BY FoundHere
<1>2. Found(w, OneDivided(w, in, wait))
  BY <1>1 DEF OneDivided
<1>3. \A ii : Found(w, DividedFrom(w, in, ii))
  BY <1>1 DEF DividedFrom
<1> QED BY <1>2, <1>3 DEF TwoDivided

(* A row by the third byte,                                                *)
LEMMA FoundThird ==
  ASSUME NEW w, Placed(w), NEW in PROVE Found(w, ThirdByte(w, in))
<1> DEFINE x == Advance(w)
<1>1. Moved(w, x) /\ Placed(x)
  BY MovedAdvance, MovedPlaced
<1> HIDE DEF x
<1>2. Found(w, <<x, NULL>>)
  BY <1>1, FoundNothing
<1>3. ASSUME x.codeLen >= 0, NEW node PROVE Found(w, Leaf(x, node)) /\ Found(w, TwoDivided(x, node))
  BY <1>1, <1>3, FoundLeaf, FoundDivided, FoundOn
<1>4. CASE x.codeLen < 0
  BY <1>1, <1>2, <1>4 DEF ThirdByte, Placed, x
<1>5. CASE x.codeLen >= 0
  BY <1>2, <1>3, <1>5 DEF ThirdByte, x
<1> QED BY <1>1, <1>4, <1>5 DEF Placed

(* by the second                                                           *)
LEMMA FoundSecond ==
  ASSUME NEW w, Placed(w), NEW in, NEW wait PROVE Found(w, SecondByte(w, in, wait))
<1> DEFINE x == Advance(w)
<1>1. Moved(w, x) /\ Placed(x)
  BY MovedAdvance, MovedPlaced
<1> HIDE DEF x
<1>2. Found(w, <<x, NULL>>)
  BY <1>1, FoundNothing
<1>3. ASSUME x.codeLen >= 0, NEW node
      PROVE  /\ Found(w, Leaf(x, node)) /\ Found(w, OneDivided(x, node, wait))
             /\ Found(w, ThirdByte(x, node)) /\ Found(w, <<x, node>>)
  BY <1>1, <1>3, FoundLeaf, FoundDivided, FoundThird, FoundHere, FoundOn
<1>4. CASE x.codeLen < 0
  BY <1>1, <1>2, <1>4 DEF SecondByte, Placed, x
<1>5. CASE x.codeLen >= 0
  BY <1>2, <1>3, <1>5 DEF SecondByte, x
<1> QED BY <1>1, <1>4, <1>5 DEF Placed

(* or by the first.                                                        *)
LEMMA FoundOne ==
  ASSUME NEW w, Placed(w), w.codeLen >= 0, NEW in PROVE Found(w, OneByte(w, in))
<1> DEFINE a == [w EXCEPT !.usedPrefixes = @ \cup {"PRE_REX"}]
           b == [w EXCEPT !.usedPrefixes = @ \cup {"PRE_REP"}]
           c == [w EXCEPT !.decodedPrefixes = @ \ SEGOVRD]
           lea == prefixes_ignore(c, "SEG")
<1>1. Moved(w, a) /\ a.codeLen = w.codeLen /\ Moved(w, b) /\ b.codeLen = w.codeLen
  BY InFields DEF Moved, Placed
<1>2. Moved(w, c) /\ c.codeLen = w.codeLen
  BY InFields DEF Moved, Placed
<1> HIDE DEF a, b, c
<1>3. Moved(w, lea) /\ lea.codeLen = w.codeLen
  BY <1>2, MovedPlaced, MovedPrefixes, MovedTrans
<1> HIDE DEF lea
<1>4. \A r : /\ Found(w, <<a, r>>) /\ Found(w, <<b, r>>) /\ Found(w, <<lea, r>>)
             /\ Found(w, <<w, r>>)
  BY <1>1, <1>3, FoundSame, FoundHere
<1> QED BY <1>4 DEF OneByte, a, b, c, lea

(* A row by the first byte, or by those after it.                          *)
LEMMA FoundFirst ==
  ASSUME NEW w, Placed(w), w.codeLen >= 0, NEW wait PROVE Found(w, FirstByte(w, wait))
BY FoundOne, FoundSecond, FoundNothing DEF FirstByte

-----------------------------------------------------------------------------
(* The lookup behind VEX.                                                  *)
LEMMA FoundByMod ==
  ASSUME NEW w, Placed(w), w.codeLen >= 0, NEW in, NEW index, NEW ii
  PROVE  Found(w, VexByMod(w, in, index, ii))
<1> DEFINE x == Advance(w)
<1>1. Moved(w, x) /\ Placed(x)
  BY MovedAdvance, MovedPlaced
<1> HIDE DEF x
<1>2. Found(w, <<x, NULL>>) /\ \A r : Found(w, <<w, r>>)
  BY <1>1, FoundNothing, FoundHere
<1>3. ASSUME x.codeLen >= 0, NEW r PROVE Found(w, <<x, r>>)
  BY <1>1, <1>3, FoundHere, FoundOn
<1>4. Found(w, inst_vex_mod_lookup(w, in, ii, index))
  <2>1. CASE x.codeLen < 0
    BY <1>1, <1>2, <2>1 DEF inst_vex_mod_lookup, Placed, x
  <2>2. CASE x.codeLen >= 0
    BY <1>3, <2>2 DEF inst_vex_mod_lookup, x
  <2> QED BY <1>1, <2>1, <2>2 DEF Placed
<1> QED BY <1>2, <1>4 DEF VexByMod

(* A row of VEX by the prefix it stands for,                               *)
LEMMA FoundVexPrefixed ==
  ASSUME NEW w, Placed(w), w.codeLen >= 0, NEW in, NEW index
  PROVE  Found(w, VexPrefixed(w, in, index))
BY FoundByMod DEF VexPrefixed

(* and by its list.                                                        *)
LEMMA FoundVexList ==
  ASSUME NEW w, Placed(w), NEW in, NEW index PROVE Found(w, VexList(w, in, index))
<1> DEFINE x == Advance(w)
<1>1. Moved(w, x) /\ Placed(x)
  BY MovedAdvance, MovedPlaced
<1> HIDE DEF x
<1>2. Found(w, <<x, NULL>>)
  BY <1>1, FoundNothing
<1>3. ASSUME x.codeLen >= 0, NEW node PROVE Found(w, VexPrefixed(x, node, index))
  BY <1>1, <1>3, FoundVexPrefixed, FoundOn
<1> QED BY <1>2, <1>3 DEF VexList, x

(* The first byte of the opcode is counted, and then looked at.            *)
LEMMA BegunPlaced ==
  ASSUME NEW w, Placed(w) PROVE Placed(CountOpcode(w)) /\ CountOpcode(w).codeLen = w.codeLen - 1 /\ CountOpcode(w).code = w.code
BY InFields DEF Placed, CountOpcode

(* A row by what VEX says of the tables.                                   *)
LEMMA FoundVex == ASSUME NEW w, Placed(w) PROVE Found(CountOpcode(w), inst_vex_lookup(w))
<1> DEFINE v(n) == SetV(w, n)
           x(n) == CountOpcode(v(n))
<1>1. \A n : Moved(CountOpcode(w), x(n)) /\ Placed(v(n)) /\ Placed(x(n))
  BY InFields DEF Moved, Placed, CountOpcode, SetV
<1> HIDE DEF v, x
<1>2. \A n : /\ Found(CountOpcode(w), <<w, NULL>>) /\ Found(CountOpcode(w), <<v(n), NULL>>)
             /\ Found(CountOpcode(w), <<x(n), NULL>>)
  BY <1>1, FoundNothing
<1>3. \A n, in, i : Found(CountOpcode(w), VexList(x(n), in, i))
  BY <1>1, FoundVexList, FoundOn, BegunPlaced
<1>4. \A n, in, i : x(n).codeLen >= 0 => Found(CountOpcode(w), VexPrefixed(x(n), in, i))
  BY <1>1, FoundVexPrefixed, FoundOn, BegunPlaced
<1>5. ASSUME NEW n, NEW in, NEW i PROVE Found(CountOpcode(w), VexWalk(x(n), in, i))
  <2>1. x(n).codeLen \in Int
    BY <1>1 DEF Placed
  <2> DEFINE y == x(n)
             z == CountOpcode(w)
  <2>2. Found(z, <<y, NULL>>) /\ Found(z, VexList(y, in, i))
    BY <1>2, <1>3
  <2>3. y.codeLen < 0 \/ Found(z, VexPrefixed(y, in, i))
    BY <1>4, <2>1
  <2> HIDE DEF y, z
  <2>4. Found(z, VexWalk(y, in, i))
    BY <2>2, <2>3 DEF VexWalk
  <2> QED BY <2>4 DEF y, z
<1> QED BY <1>2, <1>5 DEF inst_vex_lookup, v, x

(* Every lookup stays in the code.                                         *)
LEMMA FoundLookup ==
  ASSUME NEW w, Placed(w) PROVE Found(CountOpcode(w), inst_lookup(w))
<1> DEFINE x == CountOpcode(w)
           y == Advance(prefixes_ignore_all(x))
<1>1. Placed(x)
  BY BegunPlaced
<1> HIDE DEF x
<1>2. Moved(x, y) /\ Placed(y)
  BY <1>1, MovedPrefixes, MovedAdvance, MovedPlaced, MovedTrans
<1> HIDE DEF y
<1>3. \A f : Found(x, f) => Found(x, VexChecked(f))
  BY DEF VexChecked, Found
<1>4. CASE "PRE_VEX" \in w.decodedPrefixes
  BY <1>3, <1>4, FoundVex DEF inst_lookup, x
<1>5. CASE "PRE_VEX" \notin w.decodedPrefixes
  <2>1. /\ Found(x, <<x, NULL>>) /\ Found(x, <<y, NULL>>)
    BY <1>1, <1>2, FoundNothing
  <2>2. \A b : x.codeLen >= 0 => Found(x, FirstByte(x, b))
    BY <1>1, FoundFirst
  <2>3. \A b : y.codeLen >= 0 => Found(x, FirstByte(y, b))
    BY <1>1, <1>2, FoundFirst, FoundOn
  <2> QED BY <1>1, <1>2, <1>5, <2>1, <2>2, <2>3 DEF inst_lookup, x, y, Placed
<1> QED BY <1>4, <1>5 DEF x

(* The lookup behind the operands of 3DNow!.                               *)
LEMMA Found3D == ASSUME NEW w, Placed(w), w.codeLen >= 0 PROVE Found(w, inst_lookup_3dnow(w))
<1>1. CASE w.codeLen < 1
  BY <1>1, FoundHere DEF inst_lookup_3dnow
<1>2. CASE w.codeLen >= 1
  <2>1. Moved(w, Advance(w)) /\ Advance(w).codeLen >= 0
    <3>1. Advance(w).codeLen = w.codeLen - 1
      BY InFields DEF Advance, Placed
    <3> QED BY <1>2, <3>1, MovedAdvance DEF Placed
  <2> QED BY <1>2, <2>1, FoundHere, FoundOn, MovedPlaced DEF inst_lookup_3dnow, Placed
<1> QED BY <1>1, <1>2 DEF Placed

-----------------------------------------------------------------------------
(* From the row to the entry.                                              *)
Counted(w, x) ==
  /\ Ready(x) /\ x.start = w.start /\ x.code >= w.code
  /\ x.code + x.codeLen = w.code + w.codeLen
  /\ x.ok => w.ok

(* What is counted is such a record.                                       *)
LEMMA CountedReady == ASSUME NEW w, NEW x, Counted(w, x) PROVE Ready(x)
BY DEF Counted

(* Counting goes on.                                                       *)
LEMMA CountedTrans ==
  ASSUME NEW w, NEW x, NEW y, Ready(w), Counted(w, x), Counted(x, y) PROVE Counted(w, y)
BY DEF Counted, Ready

(* Nothing is counted.                                                     *)
LEMMA CountedSelf == ASSUME NEW w, Ready(w) PROVE Counted(w, w)
BY DEF Counted, Ready

(* A step counts.                                                          *)
LEMMA CountedStep == ASSUME NEW w, NEW x, Step(w, x) PROVE Counted(w, x)
BY DEF Counted, Step, Same

(* The row of a lookup: one byte, of the opcode, is not yet passed.        *)
Rowed(w, x) ==
  /\ x.ok \in BOOLEAN
  /\ x.ok => /\ Ready(x) /\ x.start = w.start /\ x.code >= w.code
             /\ x.code + x.codeLen = w.code + w.codeLen - 1

(* The checks of a row and the mode.                                       *)
LEMMA RowedIn ==
  ASSUME NEW w, Ready(w), NEW x, Moved(CountOpcode(w), x), x.codeLen >= 0
  PROVE  Rowed(w, InMode(x))
<1> DEFINE y == InMode(x)
<1>1. CountOpcode(w).code = w.code /\ CountOpcode(w).codeLen = w.codeLen - 1
  BY InFields DEF Ready, CountOpcode
<1>2. /\ CountOpcode(w).start = w.start /\ CountOpcode(w).dt = w.dt
      /\ CountOpcode(w).effOpSz = w.effOpSz /\ CountOpcode(w).effAdrSz = w.effAdrSz
      /\ CountOpcode(w).ops = w.ops
  BY InFields DEF Ready, CountOpcode
<1>3. ValidInMode(x) \in BOOLEAN
  BY DEF ValidInMode
<1>4. /\ y.ok = ValidInMode(x) /\ y.code = x.code /\ y.codeLen = x.codeLen /\ y.start = x.start
      /\ y.dt = x.dt /\ y.effOpSz = x.effOpSz /\ y.effAdrSz = x.effAdrSz /\ y.ops = x.ops
      /\ DOMAIN y = Fields
  BY InFields DEF InMode, Moved, Placed
<1>5. y.ok \in BOOLEAN
  BY <1>3, <1>4
<1> HIDE DEF y
<1> SUFFICES Rowed(w, y)
  BY DEF y
<1> QED BY <1>1, <1>2, <1>4, <1>5 DEF Rowed, Moved, Placed, Ready

(* A record that is ready is in the code.                                  *)
LEMMA ReadyPlaced == ASSUME NEW w, Ready(w) PROVE Placed(w)
BY DEF Ready, Placed

(* What the lookup of an instruction leaves.                               *)
LEMMA RowFound == ASSUME NEW w, Ready(w) PROVE Rowed(w, WithRow(inst_lookup(w)))
<1> DEFINE f == inst_lookup(w)
           c == CountOpcode(w)
<1>1. Found(c, f) /\ Placed(c)
  BY ReadyPlaced, FoundLookup, BegunPlaced
<1> HIDE DEF f, c
<1>2. CASE f[2] = NULL
  <2>1. [f[1] EXCEPT !.ok = FALSE].ok = FALSE
    BY <1>1, InFields DEF Found
  <2> QED BY <1>2, <2>1 DEF WithRow, Rowed, f
<1>3. CASE f[2] # NULL
  <2> DEFINE x == [f[1] EXCEPT !.ii = f[2]]
  <2>1. Moved(c, x) /\ x.codeLen >= 0 /\ Placed(x)
    BY <1>1, <1>3, InFields DEF Found, Moved, Placed
  <2> HIDE DEF x
  <2>2. Moved(c, RexDisablesOpSize(x)) /\ RexDisablesOpSize(x).codeLen >= 0
    BY <1>1, <2>1, MovedPrefixes, MovedTrans, MovedPlaced DEF RexDisablesOpSize
  <2> QED BY <1>3, <2>2, RowedIn DEF WithRow, x, f, c
<1> QED BY <1>2, <1>3

(* The ModR/M byte, if there is one, and the last byte of the opcode.      *)
LEMMA Fetched ==
  ASSUME NEW w, Ready(w), w.ok
  PROVE  LET x == FetchModRM(w)
         IN  /\ Ready(x) /\ x.start = w.start /\ x.code >= w.code + 1
             /\ x.code + x.codeLen = w.code + w.codeLen + 1
<1>1. CASE "MODRM_REQUIRED" \notin w.ii.flags
  <2> DEFINE y == [w EXCEPT !.code = @ + 1]
  <2>1. /\ DOMAIN y = Fields /\ y.code = w.code + 1 /\ y.codeLen = w.codeLen /\ y.start = w.start
        /\ y.dt = w.dt /\ y.effOpSz = w.effOpSz /\ y.effAdrSz = w.effAdrSz /\ y.ops = w.ops
        /\ y.ok = w.ok
    BY InFields DEF Ready
  <2>2. FetchModRM(w) = y
    BY <1>1, Zenon DEF FetchModRM
  <2> HIDE DEF y
  <2>3. /\ Ready(y) /\ y.start = w.start /\ y.code >= w.code + 1
        /\ y.code + y.codeLen = w.code + w.codeLen + 1
    BY <2>1 DEF Ready
  <2> QED BY <2>2, <2>3
<1>2. CASE "MODRM_REQUIRED" \in w.ii.flags
  <2> DEFINE x == IF "MODRM_INCLUDED" \in w.ii.flags THEN w ELSE Advance(w)
             ok == /\ x.codeLen >= 0
                   /\ "FORCE_REG0" \in w.ii.flags => Reg(Here(x)) = 0
                   /\ "MODRR_REQUIRED" \in w.ii.flags => Here(x) >= INST_DIVIDED_MODRM
             y == [x EXCEPT !.modrm = Here(x), !.code = @ + 1, !.ok = ok]
  <2>1. /\ DOMAIN x = Fields /\ x.code \in Nat /\ x.codeLen \in Int /\ x.start = w.start
        /\ x.dt = w.dt /\ x.effOpSz = w.effOpSz /\ x.effAdrSz = w.effAdrSz /\ x.ops = w.ops
        /\ x.code >= w.code /\ x.code + x.codeLen = w.code + w.codeLen
    BY InFields DEF Advance, Ready
  <2>2. FetchModRM(w) = y
    BY <1>2, Zenon DEF FetchModRM
  <2>3. ok \in BOOLEAN /\ (ok => x.codeLen >= 0)
    <3> HIDE DEF x
    <3> QED BY Zenon
  <2> HIDE DEF x, ok
  <2>4. /\ DOMAIN y = Fields /\ y.code = x.code + 1 /\ y.codeLen = x.codeLen /\ y.start = x.start
        /\ y.dt = x.dt /\ y.effOpSz = x.effOpSz /\ y.effAdrSz = x.effAdrSz /\ y.ops = x.ops
        /\ y.ok = ok
    BY <2>1, InFields
  <2> HIDE DEF y
  <2>5. /\ Ready(y) /\ y.start = w.start /\ y.code >= w.code + 1
        /\ y.code + y.codeLen = w.code + w.codeLen + 1
    BY <2>1, <2>3, <2>4 DEF Ready
  <2> QED BY <2>2, <2>5
<1> QED BY <1>1, <1>2

(* The sizes of the operands and addresses,                                *)
LEMMA CountedEffective == ASSUME NEW w, Ready(w) PROVE Counted(w, Effective(w))
<1>1. decode_get_effective_op_size(w) \in Sizes /\ decode_get_effective_addr_size(w) \in Sizes
  BY DEF decode_get_effective_op_size, decode_get_effective_addr_size, Ready, Sizes
<1> QED BY <1>1, InFields DEF Effective, Counted, Ready

(* the operands,                                                           *)
LEMMA CountedOperands == ASSUME NEW w, Ready(w) PROVE Counted(w, Operands(w))
<1>1. ASSUME NEW x, Counted(w, x), NEW n PROVE Counted(w, Operand(x, n))
  <2>1. \A t : Counted(x, operands_extract(x, n, t))
    BY <1>1, CountedReady, StepOperand, CountedStep
  <2>2. Counted(x, Operand(x, n))
    BY <1>1, <2>1, CountedReady, CountedSelf DEF Operand
  <2> QED BY <1>1, <2>2, CountedTrans
<1>2. Counted(w, Effective(w))
  BY CountedEffective
<1> QED BY <1>1, <1>2 DEF Operands

(* the byte of 3DNow! behind them,                                         *)
LEMMA Counted3D == ASSUME NEW w, Ready(w) PROVE Counted(w, Fetch3DNow(w))
<1>1. CASE w.ok /\ "3DNOW_FETCH" \in w.ii.flags
  <2> DEFINE f == inst_lookup_3dnow(w)
             x == Found3DNow(f)
  <2>1. Found(w, f)
    BY <1>1, ReadyPlaced, Found3D DEF Ready
  <2>2. Moved(w, f[1])
    <3>1. Moved(w, w) /\ Moved(w, Advance(w))
      BY ReadyPlaced, MovedSelf, MovedAdvance
    <3> QED BY <3>1 DEF inst_lookup_3dnow
  <2> HIDE DEF f
  <2>3. /\ DOMAIN x = Fields /\ x.code = f[1].code /\ x.codeLen = f[1].codeLen
        /\ x.start = f[1].start /\ x.dt = f[1].dt /\ x.effOpSz = f[1].effOpSz
        /\ x.effAdrSz = f[1].effAdrSz /\ x.ops = f[1].ops
    BY <2>1, InFields DEF Found, Found3DNow
  <2>4. x.ok = (f[2] /= NULL)
    BY <2>1, InFields, Zenon DEF Found, Found3DNow
  <2> HIDE DEF x
  <2>5. x.ok \in BOOLEAN /\ (x.ok => f[2] # NULL)
    BY <2>4, Zenon
  <2>6. Counted(w, x)
    BY <1>1, <2>1, <2>2, <2>3, <2>5 DEF Counted, Ready, Moved, Placed, Found
  <2> QED BY <1>1, <2>6 DEF Fetch3DNow, x, f
<1>2. CASE ~(w.ok /\ "3DNOW_FETCH" \in w.ii.flags)
  BY <1>2, CountedSelf DEF Fetch3DNow
<1> QED BY <1>1, <1>2

(* the byte of a comparison,                                               *)
LEMMA CountedPseudo == ASSUME NEW w, Ready(w) PROVE Counted(w, PseudoOpcode(w))
<1>1. CASE ~w.ok \/ "PSEUDO_OPCODE" \notin w.ii.flags
  BY <1>1, CountedSelf DEF PseudoOpcode
<1>2. CASE ~(~w.ok \/ "PSEUDO_OPCODE" \notin w.ii.flags)
  <2> DEFINE r == read_stream_safe(w, 1)
             below == Byte(w, w.code) < (IF "PRE_VEX" \in w.ii.flags THEN INST_VCMP_MAX_RANGE
                                         ELSE INST_CMP_MAX_RANGE)
             x == [r EXCEPT !.cmpType = Byte(w, w.code), !.ok = @ /\ below]
  <2>1. Step(w, r)
    BY StepRead
  <2>2. PseudoOpcode(w) = x
    BY <1>2, Zenon DEF PseudoOpcode
  <2> HIDE DEF r, below
  <2>3. /\ DOMAIN x = Fields /\ x.code = r.code /\ x.codeLen = r.codeLen
        /\ x.start = r.start /\ x.dt = r.dt /\ x.effOpSz = r.effOpSz
        /\ x.effAdrSz = r.effAdrSz /\ x.ops = r.ops
    BY <2>1, InFields DEF Step, Ready
  <2>4. x.ok = (r.ok /\ below)
    BY <2>1, InFields, Zenon DEF Step, Ready
  <2> HIDE DEF x
  <2>5. x.ok \in BOOLEAN /\ (x.ok => r.ok)
    BY <2>4, Zenon
  <2>6. Counted(w, x)
    BY <2>1, <2>3, <2>5 DEF Counted, Ready, Step, Same
  <2> QED BY <2>2, <2>6
<1> QED BY <1>1, <1>2

(* the length of the whole,                                                *)
LEMMA CountedShort == ASSUME NEW w, Ready(w) PROVE Counted(w, ShortEnough(w))
<1> DEFINE x == ShortEnough(w)
<1>1. /\ DOMAIN x = Fields /\ x.code = w.code /\ x.codeLen = w.codeLen
      /\ x.start = w.start /\ x.dt = w.dt /\ x.effOpSz = w.effOpSz
      /\ x.effAdrSz = w.effAdrSz /\ x.ops = w.ops
  BY InFields DEF ShortEnough, Ready
<1>2. x.ok = (w.ok /\ w.code - w.start <= INST_MAXIMUM_SIZE)
  BY InFields, Zenon DEF ShortEnough, Ready
<1> HIDE DEF x
<1>3. x.ok \in BOOLEAN /\ (x.ok => w.ok)
  BY <1>2, Zenon
<1>4. Counted(w, x)
  BY <1>1, <1>3 DEF Counted, Ready
<1> QED BY <1>4 DEF x

(* a name and the prefixes it depends on,                                  *)
LEMMA CountedNamed ==
  ASSUME NEW w, Ready(w), NEW o, NEW u PROVE Counted(w, Named(w, o, u))
BY InFields DEF Named, Use, Counted, Ready

(* the name,                                                               *)
LEMMA CountedMnemonic == ASSUME NEW w, Ready(w), w.ok PROVE Counted(w, Mnemonic(w))
<1> DEFINE sized == [w EXCEPT !.opSize = w.effOpSz]
<1>0. /\ DOMAIN sized = Fields /\ sized.code = w.code /\ sized.codeLen = w.codeLen
      /\ sized.start = w.start /\ sized.dt = w.dt /\ sized.effOpSz = w.effOpSz
      /\ sized.effAdrSz = w.effAdrSz /\ sized.ops = w.ops /\ sized.ok = w.ok
  BY InFields DEF Ready
<1> HIDE DEF sized
<1>1. Counted(w, sized)
  BY <1>0 DEF Counted, Ready
<1>2. \A o, u : Counted(w, Named(w, o, u)) /\ Counted(w, Named(sized, o, u))
  BY <1>1, CountedNamed, CountedReady, CountedTrans
<1>3. ASSUME NEW o, NEW u, NEW b \in BOOLEAN
      PROVE  Counted(w, [Named(sized, o, u) EXCEPT !.ok = b])
  <2> DEFINE y == Named(sized, o, u)
             x == [y EXCEPT !.ok = b]
  <2>1. Counted(w, y) /\ y.codeLen >= 0
    <3>1. Counted(w, y)
      BY <1>2
    <3>2. y.ok = sized.ok /\ y.codeLen = sized.codeLen
      BY <1>0, InFields DEF Named, Use
    <3> QED BY <1>0, <3>1, <3>2 DEF Counted, Ready
  <2> HIDE DEF y
  <2>2. /\ DOMAIN x = Fields /\ x.code = y.code /\ x.codeLen = y.codeLen
        /\ x.start = y.start /\ x.dt = y.dt /\ x.effOpSz = y.effOpSz
        /\ x.effAdrSz = y.effAdrSz /\ x.ops = y.ops /\ x.ok = b
    BY <2>1, InFields DEF Counted, Ready
  <2> HIDE DEF x
  <2>3. Counted(w, x)
    BY <2>1, <2>2 DEF Counted, Ready
  <2> QED BY <2>3 DEF x, y
<1> DEFINE flags == w.ii.flags
           ex    == "USE_EXMNEMONIC" \in flags
           ex2   == "USE_EXMNEMONIC2" \in flags /\ "W" \in w.vrex
           byMod == "MNEMONIC_MODRM_BASED" \in flags /\ w.modrm >= INST_DIVIDED_MODRM
<1>4. byMod \in BOOLEAN
  BY Zenon
<1>5. w.effOpSz \in {16, 32, 64}
  BY DEF Ready, Sizes
<1>6. CASE {"PRE_ADDR_SIZE", "USE_EXMNEMONIC"} \subseteq flags
  BY <1>2, <1>6 DEF Mnemonic
<1>7. CASE {"PRE_ADDR_SIZE", "NATIVE"} \subseteq flags /\ ~ex
  BY <1>2, <1>7 DEF Mnemonic
<1>8. CASE ~({"PRE_ADDR_SIZE", "USE_EXMNEMONIC"} \subseteq flags) /\ ~({"PRE_ADDR_SIZE", "NATIVE"} \subseteq flags /\ ~ex)
  <2>1. CASE w.effOpSz = 16
    BY <1>2, <1>8, <2>1 DEF Mnemonic, sized
  <2>2. CASE w.effOpSz = 32
    BY <1>2, <1>8, <2>2 DEF Mnemonic, sized
  <2>3. CASE w.effOpSz = 64
    <3>1. CASE ~ex /\ "USE_EXMNEMONIC2" \notin flags
      BY <1>2, <1>8, <2>3, <3>1 DEF Mnemonic, sized
    <3>2. CASE ~(~ex /\ "USE_EXMNEMONIC2" \notin flags)
      <4>1. Mnemonic(w) = [Named(sized, IF ex2 THEN w.ii.id3 ELSE w.ii.id2, When("PRE_REX", ex2))
                            EXCEPT !.ok = ~byMod]
        BY <1>8, <2>3, <3>2 DEF Mnemonic, sized
      <4> DEFINE b == ~byMod
                 u == When("PRE_REX", ex2)
                 o == IF ex2 THEN w.ii.id3 ELSE w.ii.id2
      <4>2. b \in BOOLEAN
        BY Zenon
      <4>3. Mnemonic(w) = [Named(sized, o, u) EXCEPT !.ok = b]
        BY <4>1
      <4> HIDE DEF b, u, o
      <4> QED BY <1>3, <4>2, <4>3
    <3> QED BY <3>1, <3>2
  <2> QED BY <1>5, <2>1, <2>2, <2>3
<1> QED BY <1>6, <1>7, <1>8

(* the prefixes of a repetition                                            *)
LEMMA CountedRepeat == ASSUME NEW w, Ready(w) PROVE Counted(w, RepeatFlag(w))
<1>1. \A p, v : Counted(w, [Use(w, p) EXCEPT !.flags = v])
  BY InFields DEF Use, Counted, Ready
<1> QED BY <1>1, CountedSelf DEF RepeatFlag

(* and the corrections of the name count.                                  *)
LEMMA CountedFixed == ASSUME NEW w, Ready(w) PROVE Counted(w, NameFixed(w))
<1>1. \A p, v : Counted(w, [Use(w, p) EXCEPT !.opcode = v])
  BY InFields DEF Use, Counted, Ready
<1> QED BY <1>1 DEF NameFixed

(* The prefixes of a repetition never make an instruction wrong.           *)
LEMMA RepeatOk == ASSUME NEW w, Ready(w) PROVE RepeatFlag(w).ok = w.ok
<1>1. \A p, v : [Use(w, p) EXCEPT !.flags = v].ok = w.ok
  BY InFields DEF Use, Ready
<1> QED BY <1>1 DEF RepeatFlag

(* All of these together.                                                  *)
LEMMA CountedInst == ASSUME NEW w, Ready(w) PROVE Counted(w, NamedInst(w))
<1>1. CASE ~w.ok
  BY <1>1, CountedSelf DEF NamedInst
<1>2. CASE w.ok
  <2>1. Counted(w, RepeatFlag(w)) /\ RepeatFlag(w).ok
    BY <1>2, CountedRepeat, RepeatOk
  <2>2. Counted(w, Mnemonic(RepeatFlag(w)))
    BY <2>1, CountedReady, CountedMnemonic, CountedTrans
  <2>3. Counted(w, NameFixed(Mnemonic(RepeatFlag(w))))
    BY <2>2, CountedReady, CountedFixed, CountedTrans
  <2> QED BY <1>2, <2>3 DEF NamedInst
<1> QED BY <1>1, <1>2 DEF Ready

(* What an entry says of the code it stands for.                           *)
EntryFields ==
  {"decodable", "opcode", "size", "ops", "segment", "base", "scale", "dispSize", "opSize",
   "adrSize", "flags", "fc", "unusedPrefixesMask", "left", "addr"}
WithinCode(w, d) ==
  /\ DOMAIN d = EntryFields
  /\ d.decodable \in BOOLEAN
  /\ d.size \in 1..w.codeLen
  /\ d.left = w.codeLen - d.size
  /\ ~d.decodable => d.size = 1 /\ d.fc = FC_NONE

(* An entry never stands for more than the code that is there.             *)
LEMMA EntrySized ==
  ASSUME NEW w, Ready(w), w.codeLen >= 1 PROVE WithinCode(w, decode_inst(w))
<1> DEFINE r == WithRow(inst_lookup(w))
           x == Completed(r)
<1>1. Rowed(w, r)
  BY RowFound
<1> HIDE DEF r
<1>2. x.ok \in BOOLEAN /\ (x.ok => /\ x.code \in Nat /\ x.codeLen \in Nat /\ x.code > w.code
                                  /\ x.code + x.codeLen = w.code + w.codeLen)
  <2>1. CASE ~r.ok
    BY <1>1, <2>1 DEF Completed, Rowed
  <2>2. CASE r.ok
    <3> DEFINE m == FetchModRM(r)
    <3>1. Ready(m) /\ m.code >= r.code + 1 /\ m.code + m.codeLen = r.code + r.codeLen + 1
      BY <1>1, <2>2, Fetched DEF Rowed
    <3> HIDE DEF m
    <3>2. Counted(m, Operands(m))
      BY <3>1, CountedOperands
    <3>3. Counted(m, Fetch3DNow(Operands(m)))
      BY <3>1, <3>2, CountedReady, Counted3D, CountedTrans
    <3>4. Counted(m, Extracted(r))
      BY <3>1, <3>3, CountedReady, CountedPseudo, CountedTrans DEF Extracted, m
    <3>5. Counted(m, ShortEnough(Extracted(r)))
      BY <3>1, <3>4, CountedReady, CountedShort, CountedTrans
    <3>6. Counted(m, NamedInst(ShortEnough(Extracted(r))))
      BY <3>1, <3>5, CountedReady, CountedInst, CountedTrans
    <3>7. Counted(m, x)
      BY <2>2, <3>6 DEF Completed
    <3> HIDE DEF x
    <3> QED BY <1>1, <2>2, <3>1, <3>7 DEF Counted, Ready, Rowed
  <2> QED BY <1>1, <2>1, <2>2 DEF Rowed
<1> HIDE DEF x
<1>3. CASE x.ok
  <2>1. decode_inst(w) = Decoded(x, w.code)
    BY <1>3, Zenon DEF decode_inst, Entry, x, r
  <2> DEFINE d == Decoded(x, w.code)
  <2>2. /\ DOMAIN d = EntryFields /\ d.decodable = TRUE
        /\ d.size = x.code - w.code /\ d.left = x.codeLen
    BY DEF Decoded, EntryFields
  <2> HIDE DEF d
  <2>3. d.decodable \in BOOLEAN
    BY <2>2, Zenon
  <2>4. WithinCode(w, d)
    BY <1>2, <1>3, <2>2, <2>3 DEF WithinCode, Ready
  <2> QED BY <2>1, <2>4 DEF d
<1>4. CASE ~x.ok
  <2>1. decode_inst(w) = Undecodable(w)
    BY <1>4, Zenon DEF decode_inst, Entry, x, r
  <2>2. /\ DOMAIN Undecodable(w) = EntryFields
        /\ Undecodable(w).decodable = (Here(w) = INST_WAIT_INDEX)
        /\ Undecodable(w).size = 1 /\ Undecodable(w).fc = FC_NONE
        /\ Undecodable(w).left = w.codeLen - 1
    BY DEF Undecodable, EntryFields
  <2>3. Undecodable(w).decodable \in BOOLEAN
    BY <2>2, Zenon
  <2> QED BY <2>1, <2>2, <2>3 DEF WithinCode, Ready
<1> QED BY <1>2, <1>3, <1>4
-----------------------------------------------------------------------------
(***************************************************************************)
(* The prefixes of a turn.                                                 *)
(***************************************************************************)
(* Induction over the natural numbers.                                     *)
LEMMA NatInd ==
  ASSUME NEW T, 0 \in T, \A n \in Nat : n \in T => n + 1 \in T
  PROVE  Nat \subseteq T
<1> SUFFICES ASSUME Nat \ T # {} PROVE FALSE
  OBVIOUS
<1>1. PICK x \in Nat \ T : \A y \in Nat \ T : ~(<<y, x>> \in OpToRel(<, Nat))
  BY NatLessThanWellFounded, WFMin
<1>2. x # 0 /\ x - 1 \in Nat /\ x - 1 < x
  OBVIOUS
<1>3. <<x - 1, x>> \in OpToRel(<, Nat)
  BY <1>2 DEF OpToRel
<1>4. x - 1 \in T
  BY <1>1, <1>2, <1>3
<1> QED BY <1>2, <1>4

(* The loop takes at most 15 bytes, and no more than there are.            *)
LEMMA LoopCounted ==
  ASSUME NEW w, w.codeLen \in Nat
  PROVE  LoopCount(w) \in 0..15 /\ LoopCount(w) <= w.codeLen
<1> DEFINE R == {n \in 0 .. INST_MAXIMUM_SIZE :
                   n <= w.codeLen /\ \A i \in 0..n - 1 : LoopPrefix(Byte(w, w.start + i), w.dt)}
           T == {m \in Nat : (15 - m) \in R}
<1>1. 0 \in R /\ R \subseteq 0..15 /\ \A n \in R : n <= w.codeLen
  BY DEF INST_MAXIMUM_SIZE
<1>2. LoopCount(w) = Max(R)
  BY DEF LoopCount
<1> HIDE DEF R
<1>3. 15 \in T
  BY <1>1
<1>4. PICK m \in T : \A k \in T : ~(<<k, m>> \in OpToRel(<, Nat))
  BY <1>3, NatLessThanWellFounded, WFMin
<1>5. \A k \in T : k >= m
  <2> SUFFICES ASSUME NEW k \in T PROVE k >= m
    OBVIOUS
  <2>1. k \in Nat /\ m \in Nat
    OBVIOUS
  <2>2. ~(<<k, m>> \in OpToRel(<, Nat))
    BY <1>4
  <2> HIDE DEF T
  <2>3. ~(k < m)
    BY <2>1, <2>2 DEF OpToRel
  <2> QED BY <2>1, <2>3
<1>6. \A n \in R : 15 - m >= n
  <2> SUFFICES ASSUME NEW n \in R PROVE 15 - m >= n
    OBVIOUS
  <2>1. n \in 0..15 /\ 15 - (15 - n) = n
    BY <1>1
  <2>2. (15 - n) \in T
    BY <2>1
  <2>3. m \in Nat
    OBVIOUS
  <2> HIDE DEF T
  <2> QED BY <1>5, <2>1, <2>2, <2>3
<1>7. Max(R) \in R
  BY <1>6 DEF Max
<1> QED BY <1>1, <1>2, <1>7

(* What no prefix changes of the record that a turn starts with.           *)
Begun(in, from, x) ==
  /\ DOMAIN x = Fields /\ x.bytes = in.bytes /\ x.dt = in.dt /\ x.start = from
  /\ x.effOpSz = in.dt /\ x.effAdrSz = in.dt /\ DOMAIN x.ops = 1..4 /\ x.ok = TRUE

(* The loop begins with no prefix,                                         *)
LEMMA BegunFresh ==
  ASSUME NEW in, NEW from, NEW left
  PROVE  LET x == Fresh(in, from, left)
         IN  Begun(in, from, x) /\ x.code = from /\ x.last = from /\ x.codeLen = left
BY DEF Fresh, Begun, Fields

(* reads up to 15 of them,                                                 *)
LEMMA BegunLoop ==
  ASSUME NEW in, NEW from \in Nat, NEW w, Begun(in, from, w), w.last = from, w.codeLen \in Nat
  PROVE  LET x == PrefixLoop(w)
         IN  /\ Begun(in, from, x) /\ x.last - from \in 0..15 /\ x.last \in Nat
             /\ x.last - from + x.codeLen = w.codeLen /\ x.codeLen \in Nat
<1> DEFINE x == PrefixLoop(w)
           n == LoopCount(w)
<1>1. n \in 0..15 /\ n <= w.codeLen
  BY LoopCounted
<1>2. Begun(in, from, x) /\ x.last = w.start + n /\ x.codeLen = w.codeLen - n
  BY InFields, Zenon DEF PrefixLoop, Begun
<1> HIDE DEF x, n
<1>3. w.start = from
  BY DEF Begun
<1>4. /\ x.last - from \in 0..15 /\ x.last \in Nat
      /\ x.last - from + x.codeLen = w.codeLen /\ x.codeLen \in Nat
  BY <1>1, <1>2, <1>3
<1> QED BY <1>2, <1>4 DEF x

(* and VEX behind those.                                                   *)
LEMMA BegunVex ==
  ASSUME NEW in, NEW from \in Nat, NEW w, Begun(in, from, w), w.last - from \in 0..15,
         w.last \in Nat, w.codeLen \in Nat
  PROVE  LET x == TryVex3(TryVex2(w))
         IN  /\ Begun(in, from, x) /\ x.last - from \in 0..15 /\ x.last \in Nat
             /\ x.last - from <= w.last - from + w.codeLen
<1> DEFINE Good(x) == /\ Begun(in, from, x) /\ x.last - from \in 0..15 /\ x.last \in Nat
                      /\ x.last - from <= w.last - from + w.codeLen
<1>1. w.start = from
  BY DEF Begun
<1>2. ASSUME VexFits(w, 2, VEX2)
      PROVE  Good(Vex2(w)) /\ "PRE_VEX" \in Vex2(w).decodedPrefixes
  <2> DEFINE x == Vex2(w)
  <2>1. Begun(in, from, x) /\ x.last = w.last + 2 /\ "PRE_VEX" \in x.decodedPrefixes
    BY InFields DEF Vex2, Begun
  <2> HIDE DEF x
  <2>2. Good(x)
    BY <1>1, <1>2, <2>1 DEF VexFits, INST_MAXIMUM_SIZE
  <2> QED BY <2>1, <2>2 DEF x
<1>3. ASSUME VexFits(w, 3, VEX3) PROVE Good(Vex3(w))
  <2> DEFINE x == Vex3(w)
  <2>1. Begun(in, from, x) /\ x.last = w.last + 3
    BY InFields, Zenon DEF Vex3, Begun
  <2> HIDE DEF x
  <2>2. Good(x)
    BY <1>1, <1>3, <2>1 DEF VexFits, INST_MAXIMUM_SIZE
  <2> QED BY <2>2 DEF x
<1>4. Good(w)
  OBVIOUS
<1> HIDE DEF Good
<1>5. CASE VexFits(w, 2, VEX2)
  BY <1>2, <1>5, Zenon DEF TryVex2, TryVex3, Good
<1>6. CASE ~VexFits(w, 2, VEX2)
  BY <1>3, <1>4, <1>6, Zenon DEF TryVex2, TryVex3, Good
<1> QED BY <1>5, <1>6

(* A turn begins with from 0 to 15 bytes of prefixes, and looks for an     *)
(* instruction in the rest.                                                *)
Opened(in, from, left, w) ==
  /\ Ready(w) /\ w.ok = TRUE /\ w.start = from /\ w.bytes = in.bytes /\ w.dt = in.dt
  /\ PrefixSize(w) \in 0..15
  /\ w.code = from + PrefixSize(w) /\ w.codeLen = left - PrefixSize(w) /\ w.codeLen >= 0

(* All of that is how a turn begins.                                       *)
LEMMA TurnOpened ==
  ASSUME NEW in, in.dt \in Sizes, NEW from \in Nat, NEW left \in Nat
  PROVE  Opened(in, from, left, TurnAt(in, from, left))
<1> DEFINE f == Fresh(in, from, left)
           r == ReadPrefixes(f)
<1>1. Begun(in, from, f) /\ f.code = from /\ f.last = from /\ f.codeLen = left
  BY BegunFresh
<1> HIDE DEF f
<1>2. /\ Begun(in, from, r) /\ r.last - from \in 0..15 /\ r.last \in Nat
      /\ r.code = r.last /\ r.codeLen = left - (r.last - from) /\ r.codeLen >= 0
  <2>1. CASE prefixes_is_valid(Here(f), f.dt)
    <3> DEFINE p == PrefixLoop(f)
               v == TryVex3(TryVex2(p))
               d == [v EXCEPT !.codeLen = f.codeLen]
               x == [d EXCEPT !.code = d.last, !.codeLen = @ - (d.last - d.start)]
    <3>1. /\ Begun(in, from, p) /\ p.last - from \in 0..15 /\ p.last \in Nat
          /\ p.last - from + p.codeLen = left /\ p.codeLen \in Nat
      BY <1>1, BegunLoop
    <3> HIDE DEF p
    <3>2. /\ Begun(in, from, v) /\ v.last - from \in 0..15 /\ v.last \in Nat
          /\ v.last - from <= p.last - from + p.codeLen
      BY <3>1, BegunVex
    <3> HIDE DEF v
    <3>3. Begun(in, from, d) /\ d.last = v.last /\ d.codeLen = left
      BY <1>1, <3>2, InFields DEF Begun
    <3>4. r = x
      BY <2>1 DEF ReadPrefixes, PastPrefixes, prefixes_decode, d, v, p
    <3> HIDE DEF d
    <3>5. /\ Begun(in, from, x) /\ x.last = d.last /\ x.code = d.last
          /\ x.codeLen = left - (d.last - from)
      BY <3>3, InFields DEF Begun
    <3> HIDE DEF x
    <3> QED BY <3>1, <3>2, <3>3, <3>4, <3>5
  <2>2. CASE ~prefixes_is_valid(Here(f), f.dt)
    BY <1>1, <2>2 DEF ReadPrefixes
  <2> QED BY <2>1, <2>2
<1> HIDE DEF r
<1> DEFINE w == Prefixes64(r)
<1>3. /\ Begun(in, from, w) /\ w.last = r.last /\ w.code = r.code /\ w.codeLen = r.codeLen
  <2> DEFINE Alike(x) == Begun(in, from, x) /\ x.last = r.last /\ x.code = r.code /\ x.codeLen = r.codeLen
  <2>1. Alike(r)
    BY <1>2
  <2>2. ASSUME NEW x, Alike(x), NEW t, NEW u, NEW v
        PROVE  /\ Alike(prefixes_ignore(x, t)) /\ Alike(Drop(x, t))
               /\ Alike([x EXCEPT !.prefixExtType = u]) /\ Alike([x EXCEPT !.decodedPrefixes = v])
    <3>1. Alike(prefixes_ignore(x, t)) /\ Alike(Drop(x, t))
      BY <2>2, InFields DEF prefixes_ignore, Drop, Begun
    <3>2. Alike([x EXCEPT !.prefixExtType = u]) /\ Alike([x EXCEPT !.decodedPrefixes = v])
      BY <2>2, InFields DEF Begun
    <3> QED BY <3>1, <3>2
  <2> DEFINE rex == IF "PRE_REX" \in r.decodedPrefixes /\ r.rexPos /= r.code - 1
                    THEN prefixes_ignore([Drop(r, "PRE_REX") EXCEPT !.prefixExtType = "NONE"], "REX")
                    ELSE r
  <2> HIDE DEF Alike
  <2>3. Alike(rex)
    BY <2>1, <2>2
  <2> HIDE DEF rex
  <2>4. Alike(prefixes_ignore([rex EXCEPT !.decodedPrefixes = @ \ SEGOVRD32], "SEG"))
    BY <2>2, <2>3
  <2>5. Alike(w)
    BY <2>1, <2>3, <2>4 DEF Prefixes64, rex
  <2> QED BY <2>5 DEF Alike
<1>4. TurnAt(in, from, left) = w
  BY DEF TurnAt, f, r
<1> HIDE DEF w
<1>5. Ready(w)
  <2>1. w.ok \in BOOLEAN
    BY <1>3, Zenon DEF Begun
  <2> QED BY <1>2, <1>3, <2>1 DEF Begun, Ready
<1>6. Opened(in, from, left, w)
  BY <1>2, <1>3, <1>5 DEF Opened, Begun, PrefixSize
<1> QED BY <1>4, <1>6

-----------------------------------------------------------------------------
(***************************************************************************)
(* How many bytes the entries stand for.                                   *)
(***************************************************************************)
(* A function on 1..n is a sequence of length n.                           *)
LEMMA FunctionIsSeq ==
  ASSUME NEW Q, NEW n \in Nat, NEW f \in [1..n -> Q]
  PROVE  f \in Seq(Q) /\ Len(f) = n
<1>1. f \in Seq(Q)
  BY SeqDef
<1>2. Len(f) \in Nat /\ DOMAIN f = 1..Len(f)
  BY <1>1, LenProperties
<1> QED BY <1>1, <1>2

(* The function that Extents is defined with exists.                       *)
LEMMA ExtentsDef ==
  ASSUME NEW e, Len(e) \in Nat
  PROVE  Extents(e) = [n \in 0..Len(e) |-> IF n = 0 THEN 0 ELSE Extents(e)[n - 1] + e[n].size]
<1> DEFINE G(f, m) == f = [n \in 0..m |-> IF n = 0 THEN 0 ELSE f[n - 1] + e[n].size]
           N == {m \in Nat : \E f : G(f, m)}
<1>1. 0 \in N
  <2> DEFINE f == [n \in 0..0 |-> 0]
  <2>1. G(f, 0)
    OBVIOUS
  <2> QED BY <2>1
<1>2. ASSUME NEW m \in Nat, m \in N PROVE m + 1 \in N
  <2>1. PICK f : G(f, m)
    BY <1>2
  <2> DEFINE g == [n \in 0..m + 1 |-> IF n = m + 1 THEN f[m] + e[m + 1].size ELSE f[n]]
  <2>2. ASSUME NEW n \in 0..m + 1
        PROVE  g[n] = IF n = 0 THEN 0 ELSE g[n - 1] + e[n].size
    <3>1. CASE n = 0
      <4>1. g[n] = f[n] /\ n \in 0..m
        BY <3>1
      <4> QED BY <2>1, <3>1, <4>1
    <3>2. CASE n # 0
      <4>1. n - 1 \in 0..m /\ n - 1 \in 0..m + 1 /\ n - 1 # m + 1
        BY <3>2
      <4>2. g[n - 1] = f[n - 1]
        BY <4>1
      <4>3. CASE n = m + 1
        <5>1. g[n] = f[m] + e[m + 1].size /\ n - 1 = m
          BY <4>3
        <5> HIDE DEF g
        <5> QED BY <3>2, <4>2, <4>3, <5>1
      <4>4. CASE n # m + 1
        <5>1. n \in 0..m /\ g[n] = f[n]
          BY <4>4
        <5>2. f[n] = f[n - 1] + e[n].size
          BY <2>1, <3>2, <5>1
        <5> HIDE DEF g
        <5> QED BY <3>2, <4>2, <5>1, <5>2
      <4> QED BY <4>3, <4>4
    <3> QED BY <3>1, <3>2
  <2>3. G(g, m + 1)
    <3>1. g = [n \in 0..m + 1 |-> g[n]]
      OBVIOUS
    <3> HIDE DEF g
    <3> QED BY <2>2, <3>1
  <2> HIDE DEF g, G
  <2>4. \E h : G(h, m + 1)
    BY <2>3
  <2> QED BY <2>4
<1>3. Nat \subseteq N
  <2> HIDE DEF N
  <2> QED BY <1>1, <1>2, NatInd
<1>4. \E f : G(f, Len(e))
  BY <1>3
<1> QED BY <1>4 DEF Extents

(* Entries as they are kept: the sizes are those of pieces of code.        *)
Listed(e) ==
  /\ \E S : e \in Seq(S)
  /\ \A i \in DOMAIN e : e[i].size \in Nat \ {0} /\ e[i].decodable \in BOOLEAN

(* They are numbered from 1.                                               *)
LEMMA ListedLen == ASSUME NEW e, Listed(e) PROVE Len(e) \in Nat /\ DOMAIN e = 1..Len(e)
BY LenProperties DEF Listed

(* Each entry adds its size.                                               *)
LEMMA ExtentsStep ==
  ASSUME NEW e, Len(e) \in Nat
  PROVE  /\ Extents(e)[0] = 0
         /\ \A n \in 1..Len(e) : Extents(e)[n] = Extents(e)[n - 1] + e[n].size
<1>1. Extents(e) = [n \in 0..Len(e) |-> IF n = 0 THEN 0 ELSE Extents(e)[n - 1] + e[n].size]
  BY ExtentsDef
<1>2. \A n \in 0..Len(e) : Extents(e)[n] = IF n = 0 THEN 0 ELSE Extents(e)[n - 1] + e[n].size
  BY <1>1
<1> QED BY <1>2

(* Entries of the same sizes stand for as many bytes.                      *)
LEMMA ExtentsAgree ==
  ASSUME NEW e, NEW f, Len(e) \in Nat, Len(f) \in Nat, NEW k \in Nat,
         k <= Len(e), k <= Len(f), \A i \in 1..k : e[i].size = f[i].size
  PROVE  \A n \in 0..k : Extents(e)[n] = Extents(f)[n]
<1> DEFINE N == {n \in Nat : n <= k => Extents(e)[n] = Extents(f)[n]}
<1>1. 0 \in N
  BY ExtentsStep
<1>2. ASSUME NEW n \in Nat, n \in N PROVE n + 1 \in N
  <2> SUFFICES ASSUME n + 1 <= k PROVE Extents(e)[n + 1] = Extents(f)[n + 1]
    OBVIOUS
  <2>1. n + 1 \in 1..k /\ n + 1 \in 1..Len(e) /\ n + 1 \in 1..Len(f) /\ (n + 1) - 1 = n
    OBVIOUS
  <2>2. /\ Extents(e)[n + 1] = Extents(e)[n] + e[n + 1].size
        /\ Extents(f)[n + 1] = Extents(f)[n] + f[n + 1].size
    BY <2>1, ExtentsStep
  <2>3. Extents(e)[n] = Extents(f)[n]
    BY <1>2
  <2> QED BY <2>1, <2>2, <2>3
<1>3. Nat \subseteq N
  <2> HIDE DEF N
  <2> QED BY <1>1, <1>2, NatInd
<1> QED BY <1>3

(* They are numbers, and they grow.                                        *)
LEMMA ExtentsGrow ==
  ASSUME NEW e, Listed(e)
  PROVE  /\ \A n \in 0..Len(e) : Extents(e)[n] \in Nat
         /\ \A n \in 0..Len(e) : Extents(e)[n] <= Extents(e)[Len(e)]
<1> USE ListedLen
<1>0. \A n \in 1..Len(e) : Extents(e)[n] = Extents(e)[n - 1] + e[n].size /\ e[n].size \in Nat \ {0}
  BY ExtentsStep DEF Listed
<1>1. \A n \in Nat : n <= Len(e) => Extents(e)[n] \in Nat
  <2> DEFINE N == {n \in Nat : n <= Len(e) => Extents(e)[n] \in Nat}
  <2>1. 0 \in N
    BY ExtentsStep
  <2>2. ASSUME NEW n \in Nat, n \in N PROVE n + 1 \in N
    <3> SUFFICES ASSUME n + 1 <= Len(e) PROVE Extents(e)[n + 1] \in Nat
      OBVIOUS
    <3>1. n + 1 \in 1..Len(e) /\ (n + 1) - 1 = n
      OBVIOUS
    <3>2. Extents(e)[n] \in Nat
      BY <2>2
    <3> QED BY <1>0, <3>1, <3>2
  <2>3. Nat \subseteq N
    <3> HIDE DEF N
    <3> QED BY <2>1, <2>2, NatInd
  <2> QED BY <2>3
<1>2. \A n \in Nat : n <= Len(e) => Extents(e)[Len(e) - n] <= Extents(e)[Len(e)]
  <2> DEFINE N == {n \in Nat : n <= Len(e) => Extents(e)[Len(e) - n] <= Extents(e)[Len(e)]}
  <2>1. 0 \in N
    BY <1>1
  <2>2. ASSUME NEW n \in Nat, n \in N PROVE n + 1 \in N
    <3> SUFFICES ASSUME n + 1 <= Len(e)
                 PROVE Extents(e)[Len(e) - (n + 1)] <= Extents(e)[Len(e)]
      OBVIOUS
    <3> DEFINE m == Len(e) - n
    <3>1. m \in 1..Len(e) /\ m - 1 = Len(e) - (n + 1) /\ m - 1 \in Nat
      OBVIOUS
    <3>2. Extents(e)[m] <= Extents(e)[Len(e)]
      BY <2>2
    <3> HIDE DEF m
    <3>3. Extents(e)[m] = Extents(e)[m - 1] + e[m].size /\ e[m].size \in Nat
      BY <1>0, <3>1
    <3>4. Extents(e)[m - 1] \in Nat /\ Extents(e)[Len(e)] \in Nat
      BY <1>1, <3>1
    <3> QED BY <3>1, <3>2, <3>3, <3>4
  <2>3. Nat \subseteq N
    <3> HIDE DEF N
    <3> QED BY <2>1, <2>2, NatInd
  <2> QED BY <2>3
<1>3. ASSUME NEW n \in 0..Len(e) PROVE Extents(e)[n] <= Extents(e)[Len(e)]
  <2>1. Len(e) - n \in Nat /\ Len(e) - (Len(e) - n) = n
    OBVIOUS
  <2> QED BY <1>2, <2>1
<1> QED BY <1>1, <1>3

(* One entry more.                                                         *)
LEMMA ExtentsAppend ==
  ASSUME NEW e, Listed(e), NEW d, d.size \in Nat \ {0}, d.decodable \in BOOLEAN
  PROVE  LET f == Append(e, d)
         IN  /\ Listed(f) /\ Len(f) = Len(e) + 1 /\ f[Len(f)] = d
             /\ \A i \in 1..Len(e) : f[i] = e[i]
             /\ \A n \in 0..Len(e) : Extents(f)[n] = Extents(e)[n]
             /\ Extents(f)[Len(f)] = Extents(e)[Len(e)] + d.size
<1> DEFINE f == Append(e, d)
<1>1. PICK S : e \in Seq(S)
  BY DEF Listed
<1>2. e \in Seq(S \cup {d})
  BY <1>1
<1>3. /\ f \in Seq(S \cup {d}) /\ Len(f) = Len(e) + 1 /\ f[Len(f)] = d
      /\ \A i \in 1..Len(e) : f[i] = e[i]
  BY <1>2, AppendProperties, ListedLen
<1> HIDE DEF f
<1>4. Listed(f)
  <2>1. DOMAIN f = 1..Len(f)
    BY <1>3, LenProperties
  <2>2. ASSUME NEW i \in DOMAIN f PROVE f[i].size \in Nat \ {0} /\ f[i].decodable \in BOOLEAN
    <3>1. i = Len(f) \/ i \in 1..Len(e)
      BY <1>3, <2>1, ListedLen
    <3> QED BY <1>3, <3>1, ListedLen DEF Listed
  <2> QED BY <1>3, <2>2 DEF Listed
<1>5. \A n \in 0..Len(e) : Extents(f)[n] = Extents(e)[n]
  <2>1. /\ Len(e) \in Nat /\ Len(f) \in Nat /\ Len(e) <= Len(f) /\ Len(e) <= Len(e)
        /\ \A i \in 1..Len(e) : f[i].size = e[i].size
    BY <1>3, ListedLen
  <2> QED BY <2>1, ExtentsAgree, Zenon
<1>6. Extents(f)[Len(f)] = Extents(e)[Len(e)] + d.size
  <2>1. Len(f) \in Nat /\ Len(f) \in 1..Len(f) /\ Len(f) - 1 = Len(e)
    BY <1>3, ListedLen
  <2>2. Extents(f)[Len(f)] = Extents(f)[Len(f) - 1] + f[Len(f)].size
    BY <2>1, ExtentsStep
  <2> QED BY <1>3, <1>5, <2>1, <2>2, ListedLen
<1> QED BY <1>3, <1>4, <1>5, <1>6 DEF f

(* Some entries of one byte each more.                                     *)
Joined(e, b, f) ==
  /\ Listed(f) /\ Len(f) = Len(e) + Len(b)
  /\ \A i \in 1..Len(e) : f[i] = e[i]
  /\ \A i \in 1..Len(b) : f[Len(e) + i] = b[i]
  /\ \A n \in 0..Len(e) : Extents(f)[n] = Extents(e)[n]
  /\ \A n \in 0..Len(b) : Extents(f)[Len(e) + n] = Extents(e)[Len(e)] + n

(* Joining such entries gives that.                                        *)
LEMMA ExtentsConcat ==
  ASSUME NEW e, Listed(e), NEW b, Listed(b), \A i \in DOMAIN b : b[i].size = 1
  PROVE  Joined(e, b, e \o b)
<1> DEFINE f == e \o b
<1>1. PICK S : e \in Seq(S)
  BY DEF Listed
<1>2. PICK T : b \in Seq(T)
  BY DEF Listed
<1>3. /\ f \in Seq(S \cup T) /\ Len(f) = Len(e) + Len(b)
      /\ \A i \in 1..Len(f) : f[i] = IF i <= Len(e) THEN e[i] ELSE b[i - Len(e)]
  <2>1. e \in Seq(S \cup T) /\ b \in Seq(S \cup T)
    BY <1>1, <1>2
  <2> QED BY <2>1, ConcatProperties
<1> HIDE DEF f
<1>4. /\ Len(e) \in Nat /\ Len(b) \in Nat /\ DOMAIN e = 1..Len(e) /\ DOMAIN b = 1..Len(b)
      /\ DOMAIN f = 1..Len(f)
  BY <1>3, ListedLen, LenProperties
<1>5. \A i \in 1..Len(e) : f[i] = e[i]
  BY <1>3, <1>4
<1>6. ASSUME NEW i \in 1..Len(b) PROVE f[Len(e) + i] = b[i]
  <2>1. Len(e) + i \in 1..Len(f) /\ ~(Len(e) + i <= Len(e)) /\ (Len(e) + i) - Len(e) = i
    BY <1>3, <1>4
  <2> QED BY <1>3, <2>1
<1>7. Listed(f)
  <2>2. ASSUME NEW i \in DOMAIN f PROVE f[i].size \in Nat \ {0} /\ f[i].decodable \in BOOLEAN
    <3>1. i \in 1..Len(e) \/ (i - Len(e) \in 1..Len(b) /\ Len(e) + (i - Len(e)) = i)
      BY <1>3, <1>4
    <3> QED BY <1>4, <1>5, <1>6, <3>1 DEF Listed
  <2> QED BY <1>3, <2>2 DEF Listed
<1>8. \A n \in 0..Len(e) : Extents(f)[n] = Extents(e)[n]
  <2>1. /\ Len(e) \in Nat /\ Len(f) \in Nat /\ Len(e) <= Len(f) /\ Len(e) <= Len(e)
        /\ \A i \in 1..Len(e) : f[i].size = e[i].size
    BY <1>3, <1>4, <1>5
  <2> QED BY <2>1, ExtentsAgree, Zenon
<1>9. \A n \in 0..Len(b) : Extents(f)[Len(e) + n] = Extents(e)[Len(e)] + n
  <2> DEFINE N == {n \in Nat : n <= Len(b) => Extents(f)[Len(e) + n] = Extents(e)[Len(e)] + n}
  <2>0. Extents(e)[Len(e)] \in Nat
    BY <1>4, ExtentsGrow
  <2>1. 0 \in N
    BY <1>4, <1>8, <2>0
  <2>2. ASSUME NEW n \in Nat, n \in N PROVE n + 1 \in N
    <3> SUFFICES ASSUME n + 1 <= Len(b)
                 PROVE Extents(f)[Len(e) + (n + 1)] = Extents(e)[Len(e)] + (n + 1)
      OBVIOUS
    <3> DEFINE m == Len(e) + (n + 1)
    <3>1. m \in 1..Len(f) /\ m - 1 = Len(e) + n /\ n + 1 \in 1..Len(b) /\ Len(f) \in Nat
      BY <1>3, <1>4
    <3>5. f[m] = b[n + 1]
      BY <1>6, <3>1
    <3> HIDE DEF m
    <3>2. Extents(f)[m] = Extents(f)[m - 1] + f[m].size
      BY <3>1, ExtentsStep
    <3>3. f[m].size = 1
      BY <1>4, <3>1, <3>5
    <3>4. Extents(f)[Len(e) + n] = Extents(e)[Len(e)] + n
      BY <1>4, <2>2
    <3>6. Extents(f)[m] = Extents(e)[Len(e)] + (n + 1)
      BY <2>0, <3>1, <3>2, <3>3, <3>4
    <3> QED BY <3>6 DEF m
  <2>3. Nat \subseteq N
    <3> HIDE DEF N
    <3> QED BY <2>1, <2>2, NatInd
  <2> QED BY <2>3
<1>10. Joined(e, b, f)
  BY <1>3, <1>5, <1>6, <1>7, <1>8, <1>9 DEF Joined
<1> QED BY <1>10 DEF f

-----------------------------------------------------------------------------
(***************************************************************************)
(* The entries that a turn adds.                                           *)
(***************************************************************************)
(* Bytes that are no instruction, one entry each.                          *)
LEMMA BytesListed ==
  ASSUME NEW from, NEW n \in Nat
  PROVE  LET b == Bytes(input, from, n)
         IN  /\ Listed(b) /\ Len(b) = n /\ DOMAIN b = 1..n
             /\ \A i \in 1..n : /\ b[i].size = 1 /\ b[i].decodable = FALSE
                                /\ b[i].addr = Masked(input, input.codeOffset + from + i - 1)
<1> DEFINE b == Bytes(input, from, n)
<1>1. /\ DOMAIN b = 1..n
      /\ \A i \in 1..n : /\ b[i].size = 1 /\ b[i].decodable = FALSE
                         /\ b[i].addr = Masked(input, input.codeOffset + from + i - 1)
  BY DEF Bytes
<1>2. b = [i \in 1..n |-> b[i]]
  BY DEF Bytes
<1> HIDE DEF b
<1>3. b \in [1..n -> {b[i] : i \in 1..n}]
  BY <1>2
<1>4. b \in Seq({b[i] : i \in 1..n}) /\ Len(b) = n
  BY <1>3, FunctionIsSeq
<1>5. \A i \in 1..n : b[i].decodable \in BOOLEAN
  BY <1>1, Zenon
<1>6. Listed(b)
  BY <1>1, <1>4, <1>5 DEF Listed
<1> QED BY <1>1, <1>4, <1>6 DEF b

(* They stand for as many bytes.                                           *)
LEMMA BytesConcat ==
  ASSUME NEW r, Listed(r), NEW from, NEW n \in Nat
  PROVE  Joined(r, Bytes(input, from, n), r \o Bytes(input, from, n)) /\ Len(Bytes(input, from, n)) = n
<1> DEFINE b == Bytes(input, from, n)
<1>1. Listed(b) /\ Len(b) = n
  BY BytesListed
<1>2. \A i \in DOMAIN b : b[i].size = 1
  BY BytesListed
<1> HIDE DEF b
<1>3. Joined(r, b, r \o b)
  BY <1>1, <1>2, ExtentsConcat
<1> QED BY <1>1, <1>3 DEF b

(* The entries of a result: how many bytes they leave of the code, at      *)
(* which address each is, and how many bytes an instruction saw behind it. *)
Tiling(r, rest) ==
  /\ Extents(r)[Len(r)] + rest = Len(input.bytes)
  /\ \A i \in DOMAIN r : r[i].addr = Masked(input, input.codeOffset + Extents(r)[i - 1])
  /\ \A i \in DOMAIN r : r[i].decodable => r[i].left = Len(input.bytes) - Extents(r)[i]

(* The place from which a caller goes on: behind one of the entries, and   *)
(* behind that are no instructions.                                        *)
Skipping(r, next) ==
  \E n \in 0..Len(r) : /\ next = input.codeOffset + Extents(r)[n]
                       /\ \A i \in n + 1..Len(r) : ~r[i].decodable

(* It holds with an instruction more,                                      *)
LEMMA TilingAppend ==
  ASSUME NEW r, Listed(r), NEW rest \in Int, Tiling(r, rest), NEW d, d.size \in Nat \ {0},
         d.decodable \in BOOLEAN, d.addr = Masked(input, input.codeOffset + Extents(r)[Len(r)]),
         d.left = rest - d.size
  PROVE  Tiling(Append(r, d), rest - d.size)
<1> DEFINE f == Append(r, d)
<1>1. /\ Listed(f) /\ Len(f) = Len(r) + 1 /\ f[Len(f)] = d
      /\ \A i \in 1..Len(r) : f[i] = r[i]
      /\ \A n \in 0..Len(r) : Extents(f)[n] = Extents(r)[n]
      /\ Extents(f)[Len(f)] = Extents(r)[Len(r)] + d.size
  BY ExtentsAppend
<1> HIDE DEF f
<1>2. /\ Len(r) \in Nat /\ DOMAIN r = 1..Len(r) /\ DOMAIN f = 1..Len(f)
      /\ Extents(r)[Len(r)] \in Nat
  BY <1>1, ListedLen, ExtentsGrow
<1>3. Extents(f)[Len(f)] + (rest - d.size) = Len(input.bytes)
  BY <1>1, <1>2 DEF Tiling
<1>4. ASSUME NEW i \in DOMAIN f
      PROVE  /\ f[i].addr = Masked(input, input.codeOffset + Extents(f)[i - 1])
             /\ f[i].decodable => f[i].left = Len(input.bytes) - Extents(f)[i]
  <2>1. CASE i \in 1..Len(r)
    <3>1. i - 1 \in 0..Len(r) /\ i \in 0..Len(r)
      BY <1>2, <2>1
    <3>2. f[i] = r[i] /\ Extents(f)[i - 1] = Extents(r)[i - 1] /\ Extents(f)[i] = Extents(r)[i]
      BY <1>1, <2>1, <3>1
    <3> QED BY <1>2, <2>1, <3>2 DEF Tiling
  <2>2. CASE i \notin 1..Len(r)
    <3>1. i = Len(f) /\ i - 1 = Len(r)
      BY <1>1, <1>2, <2>2
    <3>2. Extents(f)[i - 1] = Extents(r)[Len(r)]
      BY <1>1, <1>2, <3>1
    <3>3. f[i].left = Len(input.bytes) - Extents(f)[i]
      BY <1>1, <1>2, <1>3, <3>1
    <3> QED BY <1>1, <3>1, <3>2, <3>3
  <2> QED BY <2>1, <2>2
<1>5. Tiling(f, rest - d.size)
  BY <1>3, <1>4 DEF Tiling
<1> QED BY <1>5 DEF f

(* and with some bytes that are none more.                                 *)
LEMMA TilingBytes ==
  ASSUME NEW r, Listed(r), NEW rest \in Int, Tiling(r, rest), NEW n \in Nat,
         input.codeOffset \in Nat
  PROVE  Tiling(r \o Bytes(input, Extents(r)[Len(r)], n), rest - n)
<1> DEFINE b == Bytes(input, Extents(r)[Len(r)], n)
           f == r \o b
<1>1. /\ Listed(b) /\ Len(b) = n /\ DOMAIN b = 1..n
      /\ \A i \in 1..n : /\ b[i].size = 1 /\ b[i].decodable = FALSE
                         /\ b[i].addr = Masked(input, input.codeOffset + Extents(r)[Len(r)] + i - 1)
  BY BytesListed
<1>2. /\ Listed(f) /\ Len(f) = Len(r) + Len(b)
      /\ \A i \in 1..Len(r) : f[i] = r[i]
      /\ \A i \in 1..Len(b) : f[Len(r) + i] = b[i]
      /\ \A k \in 0..Len(r) : Extents(f)[k] = Extents(r)[k]
      /\ \A k \in 0..Len(b) : Extents(f)[Len(r) + k] = Extents(r)[Len(r)] + k
  <2>1. Joined(r, b, f)
    BY BytesConcat
  <2> HIDE DEF f, b
  <2> QED BY <2>1 DEF Joined
<1> HIDE DEF f, b
<1>3. /\ Len(r) \in Nat /\ DOMAIN r = 1..Len(r) /\ DOMAIN f = 1..Len(f)
      /\ Extents(r)[Len(r)] \in Nat
  BY <1>2, ListedLen, ExtentsGrow
<1>4. Extents(f)[Len(f)] + (rest - n) = Len(input.bytes)
  <2>1. Extents(f)[Len(r) + n] = Extents(r)[Len(r)] + n
    BY <1>1, <1>2
  <2> QED BY <1>1, <1>2, <1>3, <2>1 DEF Tiling
<1>5. ASSUME NEW i \in DOMAIN f
      PROVE  /\ f[i].addr = Masked(input, input.codeOffset + Extents(f)[i - 1])
             /\ f[i].decodable => f[i].left = Len(input.bytes) - Extents(f)[i]
  <2>1. CASE i \in 1..Len(r)
    <3>1. i - 1 \in 0..Len(r) /\ i \in 0..Len(r)
      BY <1>3, <2>1
    <3>2. f[i] = r[i] /\ Extents(f)[i - 1] = Extents(r)[i - 1] /\ Extents(f)[i] = Extents(r)[i]
      BY <1>2, <2>1, <3>1
    <3> QED BY <1>3, <2>1, <3>2 DEF Tiling
  <2>2. CASE i \notin 1..Len(r)
    <3> DEFINE k == i - Len(r)
    <3>0. i \in 1..Len(r) + n /\ ~(i <= Len(r))
      BY <1>1, <1>2, <1>3, <2>2
    <3>1. k \in 1..n /\ i = Len(r) + k /\ k - 1 \in 0..n /\ i - 1 = Len(r) + (k - 1)
      BY <1>3, <3>0
    <3> HIDE DEF k
    <3>2. f[i] = b[k] /\ Extents(f)[i - 1] = Extents(r)[Len(r)] + (k - 1)
      BY <1>1, <1>2, <3>1
    <3>3. input.codeOffset + Extents(r)[Len(r)] + k - 1 = input.codeOffset + Extents(f)[i - 1]
      BY <1>3, <3>1, <3>2
    <3> QED BY <1>1, <3>1, <3>2, <3>3
  <2> QED BY <2>1, <2>2
<1>6. Tiling(f, rest - n)
  BY <1>4, <1>5 DEF Tiling
<1> QED BY <1>6 DEF f, b

(* Bytes that are no instruction may be left out.                          *)
LEMMA SkippingBytes ==
  ASSUME NEW r, Listed(r), NEW from, NEW n \in Nat, NEW next, Skipping(r, next)
  PROVE  Skipping(r \o Bytes(input, from, n), next)
<1> DEFINE b == Bytes(input, from, n)
           f == r \o b
<1>1. Listed(b) /\ Len(b) = n /\ DOMAIN b = 1..n /\ \A i \in 1..n : b[i].size = 1 /\ b[i].decodable = FALSE
  BY BytesListed
<1>2. /\ Listed(f) /\ Len(f) = Len(r) + Len(b)
      /\ \A i \in 1..Len(r) : f[i] = r[i]
      /\ \A i \in 1..Len(b) : f[Len(r) + i] = b[i]
      /\ \A k \in 0..Len(r) : Extents(f)[k] = Extents(r)[k]
  <2>1. Joined(r, b, f)
    BY BytesConcat
  <2> HIDE DEF f, b
  <2> QED BY <2>1 DEF Joined
<1> HIDE DEF f, b
<1>3. Len(r) \in Nat
  BY ListedLen
<1>4. PICK k \in 0..Len(r) : /\ next = input.codeOffset + Extents(r)[k]
                             /\ \A i \in k + 1..Len(r) : ~r[i].decodable
  BY DEF Skipping
<1>5. k \in 0..Len(f) /\ next = input.codeOffset + Extents(f)[k]
  BY <1>1, <1>2, <1>3, <1>4
<1>6. ASSUME NEW i \in k + 1..Len(f) PROVE ~f[i].decodable
  <2>1. CASE i <= Len(r)
    <3>1. i \in 1..Len(r) /\ i \in k + 1..Len(r)
      BY <1>3, <2>1
    <3> QED BY <1>2, <1>4, <3>1
  <2>2. CASE ~(i <= Len(r))
    <3>1. i - Len(r) \in 1..Len(b) /\ Len(r) + (i - Len(r)) = i
      BY <1>1, <1>2, <1>3, <2>2
    <3>2. f[i] = b[i - Len(r)]
      BY <1>2, <3>1
    <3> QED BY <1>1, <3>1, <3>2
  <2> QED BY <2>1, <2>2
<1>7. Skipping(f, next)
  BY <1>5, <1>6 DEF Skipping
<1> QED BY <1>7 DEF f, b

(* Behind the last entry there is nothing to skip.                         *)
LEMMA SkippingLast ==
  ASSUME NEW r, Listed(r) PROVE Skipping(r, input.codeOffset + Extents(r)[Len(r)])
BY ListedLen DEF Skipping

-----------------------------------------------------------------------------
(***************************************************************************)
(* The loop.                                                               *)
(***************************************************************************)
LoopTyped ==
  /\ input \in Calls
  /\ pc \in {"call", "loop", "done"}
  /\ at \in Nat /\ codeLen \in Nat
  /\ Listed(result)

LoopCounts ==
  /\ usedInstructionsCount = Len(result) /\ Len(result) <= input.max
  /\ pc /= "done" => at + codeLen = Len(input.bytes)
  /\ pc = "loop" => input.dt \in Sizes
  /\ pc = "call" => at = 0 /\ result = <<>> /\ nextOffset = -1 /\ ret = "NONE"

LoopTiles ==
  ~FcOnly => /\ Tiling(result, codeLen)
             /\ pc = "loop" => Extents(result)[Len(result)] = at

LoopSkips == ~FcOnly /\ nextOffset /= -1 => Skipping(result, nextOffset)

LoopUses == ret = "MEMORYERR" /\ input.max >= INST_MAXIMUM_SIZE => Len(result) > 0

LoopInv == LoopTyped /\ LoopCounts /\ LoopTiles /\ LoopSkips /\ LoopUses

(* The invariant holds of the call.                                        *)
LEMMA LoopInit == Init => LoopInv
<1> SUFFICES ASSUME Init PROVE LoopInv
  OBVIOUS
<1>1. input \in Calls
  BY InputAssumption DEF Init
<1>2. input.bytes \in Seq(0..255) /\ input.max \in Nat /\ Len(input.bytes) \in Nat
  BY <1>1 DEF Calls
<1>3. Listed(<<>>) /\ Len(<<>>) = 0 /\ Extents(<<>>)[0] = 0
  <2>1. <<>> \in Seq({}) /\ Len(<<>>) = 0 /\ DOMAIN <<>> = {}
    OBVIOUS
  <2> QED BY <2>1, ExtentsStep DEF Listed
<1>4. LoopTyped
  BY <1>1, <1>2, <1>3 DEF Init, LoopTyped
<1>5. LoopCounts
  BY <1>2, <1>3 DEF Init, LoopCounts
<1>6. LoopTiles
  BY <1>2, <1>3 DEF Init, LoopTiles, Tiling
<1>7. LoopSkips /\ LoopUses
  BY DEF Init, LoopSkips, LoopUses
<1> QED BY <1>4, <1>5, <1>6, <1>7 DEF LoopInv

(* What a turn finds: the size of its prefixes, and behind them an         *)
(* instruction or what is none, in one byte at least.                      *)
Behind(left, n, d) ==
  /\ DOMAIN d = EntryFields /\ d.decodable \in BOOLEAN
  /\ d.size \in Nat \ {0} /\ d.size + n <= left /\ d.left = left - (d.size + n)
  /\ ~d.decodable => d.size = 1 /\ d.fc = FC_NONE

(* That is what every turn finds.                                          *)
LEMMA TurnAtFound ==
  ASSUME NEW in, in.dt \in Sizes, NEW from \in Nat, NEW left \in Nat \ {0}
  PROVE  LET w == TurnAt(in, from, left)
             n == PrefixSize(w)
         IN  /\ n \in Nat /\ n <= 15 /\ n <= left /\ w.codeLen = left - n
             /\ OnlyPrefixes(w) => n > 0
             /\ ~OnlyPrefixes(w) => n <= 14 /\ Behind(left, n, decode_inst(w))
<1> DEFINE w == TurnAt(in, from, left)
           n == PrefixSize(w)
           d == decode_inst(w)
<1>2. Opened(in, from, left, w)
  BY TurnOpened
<1> HIDE DEF w
<1>3. n \in 0..15 /\ w.codeLen = left - n /\ w.codeLen >= 0 /\ Ready(w)
  BY <1>2 DEF Opened
<1>4. OnlyPrefixes(w) <=> n > 0 /\ (w.codeLen = 0 \/ n = 15)
  BY DEF OnlyPrefixes, INST_MAXIMUM_SIZE
<1> HIDE DEF n
<1>5. n \in Nat /\ n <= 15 /\ n <= left
  BY <1>3
<1>6. ASSUME ~OnlyPrefixes(w) PROVE n <= 14 /\ Behind(left, n, d)
  <2>1. w.codeLen \in Nat \ {0} /\ n <= 14
    BY <1>3, <1>4, <1>6
  <2>2. WithinCode(w, d)
    BY <1>3, <2>1, EntrySized
  <2> HIDE DEF d
  <2>3. DOMAIN d = EntryFields /\ d.decodable \in BOOLEAN /\ (~d.decodable => d.size = 1 /\ d.fc = FC_NONE)
    BY <2>2 DEF WithinCode
  <2>4. d.size \in 1..w.codeLen /\ d.left = w.codeLen - d.size
    BY <2>2 DEF WithinCode
  <2>5. d.size \in Nat \ {0} /\ d.size + n <= left /\ d.left = left - (d.size + n)
    BY <1>3, <2>1, <2>4
  <2> QED BY <2>1, <2>3, <2>5 DEF Behind
<1> QED BY <1>3, <1>4, <1>5, <1>6 DEF n, w, d

(* The same of the turn the loop takes.                                    *)
LEMMA TurnFound ==
  ASSUME LoopInv, pc = "loop", codeLen > 0
  PROVE  LET w == Turn
             n == PrefixSize(w)
         IN  /\ n \in Nat /\ n <= 15 /\ n <= codeLen /\ w.codeLen = codeLen - n
             /\ OnlyPrefixes(w) => n > 0
             /\ ~OnlyPrefixes(w) => n <= 14 /\ Behind(codeLen, n, decode_inst(w))
<1>1. input.dt \in Sizes /\ at \in Nat /\ codeLen \in Nat \ {0}
  BY DEF LoopInv, LoopTyped, LoopCounts
<1> QED BY <1>1, TurnAtFound DEF Turn

(* The facts of the invariant that the steps use.                          *)
LEMMA LoopFacts ==
  ASSUME LoopInv
  PROVE  /\ input.codeOffset \in Nat /\ input.max \in Nat /\ Len(input.bytes) \in Nat
         /\ at \in Nat /\ codeLen \in Nat /\ Listed(result)
         /\ Len(result) \in Nat /\ Extents(result)[Len(result)] \in Nat
<1>1. input \in Calls /\ at \in Nat /\ codeLen \in Nat /\ Listed(result)
  BY DEF LoopInv, LoopTyped
<1>2. input.codeOffset \in Nat /\ input.max \in Nat /\ Len(input.bytes) \in Nat
  BY <1>1 DEF Calls
<1> QED BY <1>1, <1>2, ListedLen, ExtentsGrow

(* With the input and the entries as they are.                             *)
LEMMA LoopEnds ==
  ASSUME LoopInv, UNCHANGED <<input, at, codeLen, result, usedInstructionsCount>>,
         pc' = "done" \/ (pc' = "loop" /\ pc = "call" /\ input.dt \in Sizes),
         nextOffset' # nextOffset => pc = "call" /\ nextOffset' = input.codeOffset,
         ret' = "MEMORYERR" /\ input.max >= INST_MAXIMUM_SIZE => Len(result) > 0
  PROVE  LoopInv'
<1>1. LoopTyped'
  BY DEF LoopInv, LoopTyped
<1>2. LoopCounts'
  BY DEF LoopInv, LoopCounts
<1>3. LoopTiles'
  <2>1. pc = "call" => Extents(result)[Len(result)] = at
    <3> SUFFICES ASSUME pc = "call" PROVE Extents(result)[Len(result)] = at
      OBVIOUS
    <3>1. result = <<>> /\ at = 0
      BY DEF LoopInv, LoopCounts
    <3>2. Len(<<>>) = 0 /\ Extents(<<>>)[0] = 0
      BY ExtentsStep
    <3> QED BY <3>1, <3>2
  <2> QED BY <2>1 DEF LoopInv, LoopTiles, Tiling, FcOnly, Masked, Filtered
<1>4. LoopSkips'
  <2>1. CASE nextOffset' = nextOffset
    BY <2>1 DEF LoopInv, LoopSkips, Skipping, FcOnly, Filtered
  <2>2. CASE nextOffset' # nextOffset
    <3>1. result = <<>> /\ nextOffset' = input.codeOffset
      BY <2>2 DEF LoopInv, LoopCounts
    <3>2. Len(<<>>) = 0 /\ Extents(<<>>)[0] = 0
      BY ExtentsStep
    <3>3. Skipping(result, input.codeOffset)
      BY <3>1, <3>2, LoopFacts DEF Skipping
    <3> QED BY <3>1, <3>3 DEF LoopSkips, Skipping, FcOnly, Filtered
  <2> QED BY <2>1, <2>2
<1>5. LoopUses'
  BY DEF LoopUses
<1> QED BY <1>1, <1>2, <1>3, <1>4, <1>5 DEF LoopInv

(* With n bytes less to read, and with the entries f.                      *)
LEMMA LoopAdds ==
  ASSUME LoopInv, pc = "loop", NEW f, NEW n \in Nat, n <= codeLen, Listed(f),
         Len(f) >= Len(result), Len(f) <= input.max,
         ~FcOnly => Tiling(f, codeLen - n) /\ Extents(f)[Len(f)] = at + n,
         ~FcOnly /\ nextOffset' # -1 => Skipping(f, nextOffset'),
         input' = input, result' = f, codeLen' = codeLen - n, usedInstructionsCount' = Len(f),
         (pc' = "loop" /\ at' = at + n) \/ (pc' = "done" /\ at' \in Nat),
         ret' # "MEMORYERR" \/ ret' = ret
  PROVE  LoopInv'
<1>1. codeLen' \in Nat /\ at' \in Nat /\ Len(f) \in Nat /\ Len(result) \in Nat
  BY LoopFacts, ListedLen
<1>2. LoopTyped'
  BY <1>1 DEF LoopInv, LoopTyped
<1>3. LoopCounts'
  <2>1. at + codeLen = Len(input.bytes) /\ input.dt \in Sizes
    BY DEF LoopInv, LoopCounts
  <2>2. pc' # "done" => at' + codeLen' = Len(input.bytes)
    BY <2>1, LoopFacts
  <2> QED BY <2>1, <2>2 DEF LoopCounts
<1>4. LoopTiles'
  BY DEF LoopTiles, Tiling, FcOnly, Masked, Filtered
<1>5. LoopSkips'
  BY DEF LoopSkips, Skipping, FcOnly, Filtered
<1>6. LoopUses'
  BY <1>1 DEF LoopInv, LoopUses
<1> QED BY <1>2, <1>3, <1>4, <1>5, <1>6 DEF LoopInv

(* With entries for bytes that are no instruction.                         *)
LEMMA LoopDrops ==
  ASSUME LoopInv, pc = "loop", NEW n \in Nat, n <= codeLen, ~FcOnly, Room(n),
         input' = input, result' = result \o Bytes(input, at, n), codeLen' = codeLen - n,
         usedInstructionsCount' = Len(result'),
         (pc' = "loop" /\ at' = at + n) \/ (pc' = "done" /\ at' = at),
         nextOffset' = nextOffset \/ nextOffset' = input.codeOffset + (at + n),
         ret' # "MEMORYERR" \/ ret' = ret
  PROVE  LoopInv'
<1> DEFINE f == result \o Bytes(input, at, n)
<1>0. Listed(result) /\ Len(result) \in Nat /\ at \in Nat
  BY LoopFacts
<1>1. /\ Listed(f) /\ Len(f) = Len(result) + n
      /\ Extents(f)[Len(f)] = Extents(result)[Len(result)] + n
  <2>1. /\ Listed(f) /\ Len(f) = Len(result) + n
        /\ \A k \in 0..n : Extents(f)[Len(result) + k] = Extents(result)[Len(result)] + k
    <3>1. Joined(result, Bytes(input, at, n), f) /\ Len(Bytes(input, at, n)) = n
      BY <1>0, BytesConcat
    <3> HIDE DEF f
    <3> QED BY <3>1 DEF Joined
  <2> HIDE DEF f
  <2> QED BY <2>1
<1>2. result' = f
  BY DEF f
<1>3. Extents(result)[Len(result)] = at /\ Tiling(result, codeLen)
  BY DEF LoopInv, LoopTiles
<1>4. Tiling(f, codeLen - n)
  BY <1>3, LoopFacts, TilingBytes DEF f
<1>5. nextOffset # -1 => Skipping(f, nextOffset)
  BY LoopFacts, SkippingBytes DEF f, LoopInv, LoopSkips
<1>6. Skipping(f, input.codeOffset + (at + n))
  BY <1>1, <1>3, SkippingLast
<1> HIDE DEF f
<1>7. nextOffset' # -1 => Skipping(f, nextOffset')
  BY <1>5, <1>6
<1>8. Len(f) >= Len(result) /\ Len(f) <= input.max /\ Extents(f)[Len(f)] = at + n /\ at' \in Nat
  BY <1>0, <1>1, <1>3 DEF Room
<1> QED BY <1>1, <1>2, <1>4, <1>7, <1>8, LoopAdds

(* With the entry of an instruction and its prefixes.                      *)
LEMMA LoopStores ==
  ASSUME LoopInv, pc = "loop", NEW e, e.decodable \in BOOLEAN, e.size \in Nat \ {0},
         e.addr = Masked(input, input.codeOffset + at), e.left = codeLen - e.size,
         e.size <= codeLen, Room(1), input' = input, result' = Append(result, e),
         at' = at + e.size, codeLen' = codeLen - e.size, usedInstructionsCount' = Len(result'),
         nextOffset' = input.codeOffset + (at + e.size),
         pc' \in {"loop", "done"}, ret' # "MEMORYERR" \/ ret' = ret
  PROVE  LoopInv'
<1> DEFINE f == Append(result, e)
           n == e.size
<1>0. Listed(result) /\ Len(result) \in Nat /\ at \in Nat /\ codeLen \in Int
  BY LoopFacts
<1>1. /\ Listed(f) /\ Len(f) = Len(result) + 1
      /\ Extents(f)[Len(f)] = Extents(result)[Len(result)] + n
  BY <1>0, ExtentsAppend
<1>2. result' = f
  BY DEF f
<1>3. ASSUME ~FcOnly PROVE Tiling(f, codeLen - n) /\ Extents(f)[Len(f)] = at + n
  <2>1. Extents(result)[Len(result)] = at /\ Tiling(result, codeLen)
    BY <1>3 DEF LoopInv, LoopTiles
  <2>2. Tiling(f, codeLen - n)
    BY <1>0, <2>1, TilingAppend
  <2> HIDE DEF f, n
  <2> QED BY <1>1, <2>1, <2>2
<1> HIDE DEF f
<1>4. ~FcOnly => Skipping(f, nextOffset')
  BY <1>1, <1>3, SkippingLast
<1>5. Len(f) >= Len(result) /\ Len(f) <= input.max /\ n \in Nat /\ n <= codeLen /\ at' \in Nat
  BY <1>0, <1>1 DEF Room
<1>6. /\ codeLen' = codeLen - n /\ usedInstructionsCount' = Len(f)
      /\ (pc' = "loop" /\ at' = at + n) \/ (pc' = "done" /\ at' \in Nat)
  BY <1>2, <1>5
<1> HIDE DEF n
<1> QED BY <1>1, <1>2, <1>3, <1>4, <1>5, <1>6, LoopAdds

(* With the filter, and nothing to keep.                                   *)
LEMMA LoopFilters ==
  ASSUME LoopInv, pc = "loop", FcOnly, NEW n \in Nat, n <= codeLen,
         input' = input, result' = result, codeLen' = codeLen - n,
         usedInstructionsCount' = Len(result),
         (pc' = "loop" /\ at' = at + n) \/ (pc' = "done" /\ at' = at),
         ret' # "MEMORYERR" \/ ret' = ret
  PROVE  LoopInv'
<1>1. Listed(result) /\ Len(result) \in Nat /\ Len(result) <= input.max /\ at \in Nat
  BY LoopFacts DEF LoopInv, LoopCounts
<1> QED BY <1>1, LoopAdds

(* Every step keeps the invariant.                                         *)
LEMMA LoopStep == LoopInv /\ [Next]_vars => LoopInv'
<1> SUFFICES ASSUME LoopInv, [Next]_vars PROVE LoopInv'
  OBVIOUS
<1>0. at \in Nat /\ codeLen \in Nat /\ Len(result) \in Nat /\ input.max \in Nat
  BY LoopFacts
<1>1. CASE distorm_decompose
  <2>1. Finish("INPUTERR") => ret' # "MEMORYERR" /\ pc' = "done"
    BY DEF Finish
  <2>2. Finish("SUCCESS") => ret' # "MEMORYERR" /\ pc' = "done"
    BY DEF Finish
  <2>3. pc = "call" => ret = "NONE"
    BY DEF LoopInv, LoopCounts
  <2> QED BY <1>1, <2>1, <2>2, <2>3, LoopEnds DEF distorm_decompose, Sizes
<1>2. CASE DropPrefixes
  <2> DEFINE w == Turn
  <2>1. /\ pc = "loop" /\ codeLen > 0 /\ OnlyPrefixes(w) /\ input' = input /\ nextOffset' = nextOffset
        /\ IF ~FcOnly /\ ~Room(PrefixSize(w))
           THEN Finish("MEMORYERR") /\ UNCHANGED <<at, codeLen, result, usedInstructionsCount>>
           ELSE /\ result' = IF FcOnly THEN result ELSE result \o Bytes(input, at, PrefixSize(w))
                /\ usedInstructionsCount' = IF FcOnly THEN usedInstructionsCount ELSE Len(result')
                /\ codeLen' = w.codeLen
                /\ IF w.codeLen = 0 THEN Finish("SUCCESS") /\ UNCHANGED at
                   ELSE at' = at + PrefixSize(w) /\ UNCHANGED <<pc, ret>>
    BY <1>2 DEF DropPrefixes
  <2> DEFINE n == PrefixSize(w)
  <2>3. n \in Nat /\ n <= codeLen /\ n <= 15 /\ w.codeLen = codeLen - n
    BY <2>1, TurnFound
  <2> HIDE DEF n, w
  <2>4. CASE ~FcOnly /\ ~Room(n)
    <3>1. input.max >= INST_MAXIMUM_SIZE => Len(result) > 0
      BY <1>0, <2>3, <2>4 DEF Room, INST_MAXIMUM_SIZE
    <3> QED BY <2>1, <2>4, <3>1, LoopEnds DEF Finish, n
  <2>5. CASE ~FcOnly /\ Room(n)
    <3>1. /\ result' = result \o Bytes(input, at, n) /\ usedInstructionsCount' = Len(result')
          /\ codeLen' = codeLen - n
          /\ (pc' = "loop" /\ at' = at + n) \/ (pc' = "done" /\ at' = at)
          /\ ret' # "MEMORYERR" \/ ret' = ret
      BY <2>1, <2>3, <2>5 DEF Finish, n
    <3> QED BY <2>1, <2>3, <2>5, <3>1, LoopDrops
  <2>6. CASE FcOnly
    <3>1. usedInstructionsCount = Len(result)
      BY DEF LoopInv, LoopCounts
    <3>2. /\ result' = result /\ usedInstructionsCount' = Len(result)
          /\ codeLen' = codeLen - n
          /\ (pc' = "loop" /\ at' = at + n) \/ (pc' = "done" /\ at' = at)
          /\ ret' # "MEMORYERR" \/ ret' = ret
      BY <2>1, <2>3, <2>6, <3>1 DEF Finish, n
    <3> QED BY <2>1, <2>3, <2>6, <3>2, LoopFilters
  <2> QED BY <2>4, <2>5, <2>6
<1>3. CASE NoRoom
  <2>1. input.max >= INST_MAXIMUM_SIZE => Len(result) > 0
    BY <1>0, <1>3 DEF NoRoom, Room, INST_MAXIMUM_SIZE
  <2> QED BY <1>3, <2>1, LoopEnds DEF NoRoom, Finish
<1>4. CASE Instruction
  <2> DEFINE w == Turn
             d == decode_inst(w)
             n == PrefixSize(w)
  <2>1. /\ pc = "loop" /\ codeLen > 0 /\ Room(1) /\ input' = input /\ ~OnlyPrefixes(w)
        /\ StoreInstruction(w, d) \/ DropInstruction(w, d)
    BY <1>4 DEF Instruction
  <2>2. n \in Nat /\ n <= codeLen /\ n <= 14 /\ Behind(codeLen, n, d)
    BY <2>1, TurnFound
  <2> HIDE DEF w, d, n
  <2>3. /\ DOMAIN d = EntryFields /\ d.size \in Nat \ {0} /\ d.size + n <= codeLen
        /\ d.left = codeLen - (d.size + n) /\ n \in Nat /\ n <= codeLen
    BY <2>2 DEF Behind
  <2>4. d.decodable \in BOOLEAN
    BY <2>2 DEF Behind
  <2>5. CASE StoreInstruction(w, d) /\ FcOnly /\ d.fc = FC_NONE
    <3>0. result' = result /\ pc' = "loop" /\ ret' = ret /\ Advanced(n, d.size)
      BY <2>1, <2>5 DEF StoreInstruction, n
    <3> DEFINE k == n + d.size
    <3>1. at' = at + k /\ codeLen' = codeLen - k /\ usedInstructionsCount' = Len(result')
      <4>1. at' = at + n + d.size /\ codeLen' = codeLen - n - d.size /\ usedInstructionsCount' = Len(result')
        BY <3>0 DEF Advanced
      <4> QED BY <1>0, <2>3, <4>1
    <3>2. k \in Nat /\ k <= codeLen
      BY <1>0, <2>3
    <3> HIDE DEF k
    <3> QED BY <2>1, <2>5, <3>0, <3>1, <3>2, LoopFilters
  <2>6. CASE StoreInstruction(w, d) /\ ~(FcOnly /\ d.fc = FC_NONE)
    <3>1. StoreEntry(w, d) /\ Advanced(n, d.size)
          /\ pc' \in {"loop", "done"} /\ (ret' # "MEMORYERR" \/ ret' = ret)
      BY <2>1, <2>6 DEF StoreInstruction, Finish, n
    <3> DEFINE e == [d EXCEPT !.addr = Masked(input, input.codeOffset + at), !.size = @ + n]
    <3>2. result' = Append(result, e)
      BY <3>1 DEF StoreEntry, Stored, n
    <3>3. /\ e.addr = Masked(input, input.codeOffset + at) /\ e.size = d.size + n
          /\ e.decodable = d.decodable /\ e.left = d.left
      <4>1. "addr" \in EntryFields /\ "size" \in EntryFields /\ "left" \in EntryFields
            /\ "decodable" \in EntryFields
        BY DEF EntryFields
      <4> QED BY <2>3, <4>1
    <3> HIDE DEF e
    <3>4. e.decodable \in BOOLEAN
      BY <2>4, <3>3, Zenon
    <3>5. e.size \in Nat \ {0} /\ e.size <= codeLen /\ e.left = codeLen - e.size
      BY <2>3, <3>3
    <3>6. /\ at' = at + e.size /\ codeLen' = codeLen - e.size
          /\ usedInstructionsCount' = Len(result') /\ nextOffset' = input.codeOffset + (at + e.size)
      <4>1. /\ at' = at + n + d.size /\ codeLen' = codeLen - n - d.size
            /\ usedInstructionsCount' = Len(result') /\ nextOffset' = input.codeOffset + at'
        BY <3>1 DEF Advanced
      <4>2. at' = at + e.size /\ codeLen' = codeLen - e.size
        BY <1>0, <2>3, <3>3, <4>1
      <4> QED BY <4>1, <4>2
    <3> QED BY <2>1, <3>1, <3>2, <3>3, <3>4, <3>5, <3>6, LoopStores
  <2>7. CASE DropInstruction(w, d) /\ Room(n + 1)
    <3>0. ~FcOnly /\ result' = result \o Bytes(input, at, n + 1) /\ pc' = "loop" /\ ret' = ret
      BY <2>1, <2>7 DEF DropInstruction, n
    <3>1. Advanced(n, 1)
      BY <2>7 DEF DropInstruction, n
    <3> DEFINE k == n + 1
    <3>2. /\ at' = at + k /\ codeLen' = codeLen - k /\ usedInstructionsCount' = Len(result')
          /\ nextOffset' = input.codeOffset + (at + k)
      <4>1. at' = at + n + 1 /\ codeLen' = codeLen - n - 1
        BY <3>1 DEF Advanced
      <4>2. usedInstructionsCount' = Len(result') /\ nextOffset' = input.codeOffset + at'
        BY <3>1 DEF Advanced
      <4>3. at' = at + k /\ codeLen' = codeLen - k
        BY <1>0, <2>3, <4>1
      <4> QED BY <4>2, <4>3
    <3>3. k \in Nat /\ k <= codeLen
      BY <1>0, <2>3
    <3> QED BY <2>1, <2>7, <3>0, <3>2, <3>3, LoopDrops
  <2>8. CASE DropInstruction(w, d) /\ ~Room(n + 1)
    <3>1. input.max >= INST_MAXIMUM_SIZE => Len(result) > 0
      BY <1>0, <2>2, <2>3, <2>8 DEF Room, INST_MAXIMUM_SIZE
    <3> QED BY <2>1, <2>8, <3>1, LoopEnds DEF DropInstruction, Finish, n
  <2> QED BY <2>1, <2>5, <2>6, <2>7, <2>8
<1>5. CASE OutOfCode
  BY <1>5, LoopEnds DEF OutOfCode, Finish
<1>6. CASE UNCHANGED vars
  BY <1>6 DEF vars, LoopInv, LoopTyped, LoopCounts, LoopTiles, LoopSkips, LoopUses, Tiling, Skipping,
              FcOnly, Masked, Filtered
<1> QED BY <1>1, <1>2, <1>3, <1>4, <1>5, <1>6 DEF Next

(* The invariant of the loop: the count of entries is true and within the  *)
(* array, every byte taken is accounted for, and so is the way on.         *)
THEOREM LoopInvHolds == Spec => []LoopInv
BY LoopInit, LoopStep, PTL DEF Spec

(* No entry says more than the code holds, and what each instruction saw   *)
(* behind it is what there was (operands.c:58-78, decoder.c:300-345).      *)
THEOREM BytesAccountedHolds == Spec => []BytesAccounted
<1>1. LoopInv => BytesAccounted
  <2> SUFFICES ASSUME LoopInv, ~FcOnly
               PROVE  /\ Covered(Len(result)) <= Len(input.bytes)
                      /\ \A i \in Instructions : result[i].left = Len(input.bytes) - Covered(i)
    BY DEF BytesAccounted, InsideCode, LengthAgrees
  <2>1. Tiling(result, codeLen)
    BY DEF LoopInv, LoopTiles
  <2>2. Covered(Len(result)) <= Len(input.bytes)
    BY <2>1, LoopFacts DEF Tiling, Covered
  <2> QED BY <2>1, <2>2 DEF Tiling, Covered, Instructions
<1> QED BY <1>1, LoopInvHolds, PTL

(* The loop ends, a full array was used, and a caller that goes on skips   *)
(* no instruction (decoder.c:390-604).                                     *)
THEOREM CallerMayGoOnHolds == Spec => []CallerMayGoOn
<1>1. LoopInv => MemoryErrAfterProgress
  BY DEF LoopInv, LoopUses, LoopCounts, MemoryErrAfterProgress
<1>2. LoopInv => NextOffsetSkipsNothing
  BY DEF LoopInv, LoopSkips, Skipping, NextOffsetSkipsNothing, Covered
<1>3. LoopInv => TurnTakesBytes
  <2> SUFFICES ASSUME LoopInv, pc = "loop", codeLen > 0
               PROVE  PrefixSize(Turn) + (IF OnlyPrefixes(Turn) THEN 0 ELSE decode_inst(Turn).size)
                        \in 1..codeLen
    BY DEF TurnTakesBytes
  <2> DEFINE w == Turn
             d == decode_inst(w)
             n == PrefixSize(w)
  <2>1. /\ n \in Nat /\ n <= codeLen /\ codeLen \in Nat
        /\ OnlyPrefixes(w) => n > 0
        /\ ~OnlyPrefixes(w) => Behind(codeLen, n, d)
    BY TurnFound, LoopFacts
  <2> HIDE DEF w, d, n
  <2>2. CASE OnlyPrefixes(w)
    BY <2>1, <2>2 DEF n, w, d
  <2>3. CASE ~OnlyPrefixes(w)
    <3>1. d.size \in Nat \ {0} /\ d.size + n <= codeLen
      BY <2>1, <2>3 DEF Behind
    <3>2. n + d.size \in 1..codeLen
      BY <2>1, <3>1
    <3> QED BY <2>3, <3>2 DEF n, w, d
  <2> QED BY <2>2, <2>3
<1>4. LoopInv => CallerMayGoOn
  BY <1>1, <1>2, <1>3 DEF CallerMayGoOn
<1> QED BY <1>4, LoopInvHolds, PTL

-----------------------------------------------------------------------------
(***************************************************************************)
(* Sequences of any elements.                                              *)
(***************************************************************************)
IsSeq(s) == \E S : s \in Seq(S)

(* They are functions on an initial piece of the numbers.                  *)
LEMMA SeqDomain == ASSUME NEW s, IsSeq(s) PROVE Len(s) \in Nat /\ DOMAIN s = 1..Len(s)
BY LenProperties DEF IsSeq

(* The empty one.                                                          *)
LEMMA SeqNone == IsSeq(<<>>) /\ Len(<<>>) = 0
<1>1. <<>> \in Seq({}) /\ Len(<<>>) = 0
  OBVIOUS
<1> QED BY <1>1 DEF IsSeq

(* Those with the same elements are the same.                              *)
LEMMA SeqSame ==
  ASSUME NEW s, IsSeq(s), NEW t, IsSeq(t), Len(s) = Len(t), \A i \in 1..Len(s) : s[i] = t[i]
  PROVE  s = t
<1>1. PICK S : s \in Seq(S)
  BY DEF IsSeq
<1>2. PICK T : t \in Seq(T)
  BY DEF IsSeq
<1>3. s \in Seq(S \cup T) /\ t \in Seq(S \cup T)
  BY <1>1, <1>2
<1> QED BY <1>3, SeqEqual

(* f is s with t behind it.                                                *)
Chain(s, t, f) ==
  /\ IsSeq(f) /\ Len(f) = Len(s) + Len(t)
  /\ \A i \in 1..Len(s) : f[i] = s[i]
  /\ \A i \in 1..Len(t) : f[Len(s) + i] = t[i]

(* Joining two gives that.                                                 *)
LEMMA SeqConcat == ASSUME NEW s, IsSeq(s), NEW t, IsSeq(t) PROVE Chain(s, t, s \o t)
<1> DEFINE f == s \o t
<1>1. PICK S : s \in Seq(S)
  BY DEF IsSeq
<1>2. PICK T : t \in Seq(T)
  BY DEF IsSeq
<1>3. /\ f \in Seq(S \cup T) /\ Len(f) = Len(s) + Len(t)
      /\ \A i \in 1..Len(s) + Len(t) : f[i] = IF i <= Len(s) THEN s[i] ELSE t[i - Len(s)]
  <2>1. s \in Seq(S \cup T) /\ t \in Seq(S \cup T)
    BY <1>1, <1>2
  <2> QED BY <2>1, ConcatProperties
<1> HIDE DEF f
<1>4. Len(s) \in Nat /\ Len(t) \in Nat
  BY SeqDomain
<1>5. \A i \in 1..Len(s) : f[i] = s[i]
  BY <1>3, <1>4
<1>6. ASSUME NEW i \in 1..Len(t) PROVE f[Len(s) + i] = t[i]
  <2>1. Len(s) + i \in 1..Len(s) + Len(t) /\ ~(Len(s) + i <= Len(s)) /\ (Len(s) + i) - Len(s) = i
    BY <1>4
  <2> QED BY <1>3, <2>1
<1>7. IsSeq(f)
  BY <1>3 DEF IsSeq
<1>8. Chain(s, t, f)
  BY <1>3, <1>5, <1>6, <1>7 DEF Chain
<1> QED BY <1>8 DEF f

(* One element more.                                                       *)
Longer(s, d, f) ==
  IsSeq(f) /\ Len(f) = Len(s) + 1 /\ f[Len(f)] = d /\ \A i \in 1..Len(s) : f[i] = s[i]

(* Append gives that.                                                      *)
LEMMA SeqAppend == ASSUME NEW s, IsSeq(s), NEW d PROVE Longer(s, d, Append(s, d))
<1>1. PICK S : s \in Seq(S)
  BY DEF IsSeq
<1>2. s \in Seq(S \cup {d})
  BY <1>1
<1> QED BY <1>2, AppendProperties, SeqDomain DEF IsSeq, Longer

(* The order in which three are joined does not matter.                    *)
LEMMA SeqAssoc ==
  ASSUME NEW s, IsSeq(s), NEW t, IsSeq(t), NEW u, IsSeq(u)
  PROVE  (s \o t) \o u = s \o (t \o u)
<1>1. PICK S : s \in Seq(S)
  BY DEF IsSeq
<1>2. PICK T : t \in Seq(T)
  BY DEF IsSeq
<1>3. PICK U : u \in Seq(U)
  BY DEF IsSeq
<1>4. s \in Seq(S \cup T \cup U) /\ t \in Seq(S \cup T \cup U) /\ u \in Seq(S \cup T \cup U)
  BY <1>1, <1>2, <1>3
<1> QED BY <1>4, ConcatAssociative

(* Nor do the empty one, and one element as a sequence.                    *)
LEMMA SeqTrivial ==
  ASSUME NEW s, IsSeq(s), NEW d
  PROVE  /\ s \o <<>> = s /\ <<>> \o s = s /\ IsSeq(<<d>>) /\ s \o <<d>> = Append(s, d)
<1>1. PICK S : s \in Seq(S)
  BY DEF IsSeq
<1>2. s \in Seq(S \cup {d}) /\ <<d>> \in Seq({d})
  BY <1>1
<1>3. s \o <<>> = s /\ <<>> \o s = s
  BY <1>1, ConcatEmptySeq
<1>4. s \o <<d>> = Append(s, d)
  <2>1. d \in S \cup {d}
    OBVIOUS
  <2>2. Append(s, d) = s \o <<d>>
    BY <1>2, <2>1, AppendIsConcat
  <2> QED BY <2>2
<1> QED BY <1>2, <1>3, <1>4 DEF IsSeq

(* The beginning of a sequence.                                            *)
Starts(a, b) == IsSeq(a) /\ IsSeq(b) /\ Len(a) <= Len(b) /\ \A i \in 1..Len(a) : b[i] = a[i]

(* Beginnings of beginnings.                                               *)
LEMMA StartsTrans == ASSUME NEW a, NEW b, NEW c, Starts(a, b), Starts(b, c) PROVE Starts(a, c)
<1>1. Len(a) \in Nat /\ Len(b) \in Nat /\ Len(c) \in Nat
  BY SeqDomain DEF Starts
<1> QED BY <1>1 DEF Starts

(* A piece from the beginning.                                             *)
LEMMA SeqCut ==
  ASSUME NEW s, IsSeq(s), NEW n \in Nat, n <= Len(s)
  PROVE  Starts(SubSeq(s, 1, n), s) /\ Len(SubSeq(s, 1, n)) = n
<1> DEFINE f == SubSeq(s, 1, n)
<1>1. PICK S : s \in Seq(S)
  BY DEF IsSeq
<1>2. Len(s) \in Nat /\ \A i \in 1..n : s[i] \in S
  BY <1>1, SeqDomain
<1>3. f \in Seq(S) /\ Len(f) = (IF 1 <= n THEN n - 1 + 1 ELSE 0) /\ \A i \in 1..n - 1 + 1 : f[i] = s[1 + i - 1]
  BY <1>2, SubSeqProperties
<1> HIDE DEF f
<1>4. IsSeq(f) /\ Len(f) = n /\ \A i \in 1..n : f[i] = s[i]
  BY <1>3 DEF IsSeq
<1>5. Starts(f, s) /\ Len(f) = n
  BY <1>4 DEF Starts
<1> QED BY <1>5 DEF f

(* What begins a sequence is a prefix of it.                               *)
LEMMA StartsPrefix == ASSUME NEW a, NEW b, Starts(a, b) PROVE IsPrefix(a, b)
<1> DEFINE n == Len(a)
           x == SubSeq(a, 1, n)
           y == SubSeq(b, 1, n)
<1>1. IsSeq(a) /\ IsSeq(b) /\ n \in Nat /\ n <= Len(a) /\ n <= Len(b) /\ \A i \in 1..n : b[i] = a[i]
  BY SeqDomain DEF Starts
<1>2. Starts(x, a) /\ Len(x) = n /\ Starts(y, b) /\ Len(y) = n
  BY <1>1, SeqCut, Zenon
<1>3. x = y
  <2> HIDE DEF x, y
  <2>1. IsSeq(x) /\ IsSeq(y) /\ \A i \in 1..n : x[i] = y[i]
    BY <1>1, <1>2 DEF Starts
  <2> QED BY <1>2, <2>1, SeqSame
<1> QED BY <1>1, <1>3 DEF IsPrefix

-----------------------------------------------------------------------------
(***************************************************************************)
(* The entries that change the flow.                                       *)
(***************************************************************************)
(* The function that Flowing is defined with exists.                       *)
LEMMA FlowingDef ==
  ASSUME NEW e, Len(e) \in Nat
  PROVE  /\ FlowingTo(e)[0] = <<>>
         /\ \A n \in 1..Len(e) :
              FlowingTo(e)[n] = IF Flows(e[n]) THEN Append(FlowingTo(e)[n - 1], e[n])
                                ELSE FlowingTo(e)[n - 1]
<1> DEFINE Kept(f, n) == IF Flows(e[n]) THEN Append(f, e[n]) ELSE f
           G(f, m) == f = [n \in 0..m |-> IF n = 0 THEN <<>> ELSE Kept(f[n - 1], n)]
           N == {m \in Nat : \E f : G(f, m)}
<1> HIDE DEF Kept
<1>1. 0 \in N
  <2> DEFINE f == [n \in 0..0 |-> <<>>]
  <2>1. G(f, 0)
    OBVIOUS
  <2> QED BY <2>1
<1>2. ASSUME NEW m \in Nat, m \in N PROVE m + 1 \in N
  <2>1. PICK f : G(f, m)
    BY <1>2
  <2> DEFINE g == [n \in 0..m + 1 |-> IF n = m + 1 THEN Kept(f[m], m + 1) ELSE f[n]]
  <2>2. ASSUME NEW n \in 0..m + 1
        PROVE  g[n] = IF n = 0 THEN <<>> ELSE Kept(g[n - 1], n)
    <3>1. CASE n = 0
      <4>1. g[n] = f[n] /\ n \in 0..m
        BY <3>1
      <4> QED BY <2>1, <3>1, <4>1
    <3>2. CASE n # 0
      <4>1. n - 1 \in 0..m /\ n - 1 \in 0..m + 1 /\ n - 1 # m + 1
        BY <3>2
      <4>2. g[n - 1] = f[n - 1]
        BY <4>1
      <4>3. CASE n = m + 1
        <5>1. g[n] = Kept(f[m], m + 1) /\ n - 1 = m
          BY <4>3
        <5> HIDE DEF g
        <5> QED BY <3>2, <4>2, <4>3, <5>1
      <4>4. CASE n # m + 1
        <5>1. n \in 0..m /\ g[n] = f[n]
          BY <4>4
        <5>2. f[n] = Kept(f[n - 1], n)
          BY <2>1, <3>2, <5>1
        <5> HIDE DEF g
        <5> QED BY <3>2, <4>2, <5>1, <5>2
      <4> QED BY <4>3, <4>4
    <3> QED BY <3>1, <3>2
  <2>3. G(g, m + 1)
    <3>1. g = [n \in 0..m + 1 |-> g[n]]
      OBVIOUS
    <3> HIDE DEF g
    <3> QED BY <2>2, <3>1
  <2> HIDE DEF g, G
  <2>4. \E h : G(h, m + 1)
    BY <2>3
  <2> QED BY <2>4
<1>3. Nat \subseteq N
  <2> HIDE DEF N
  <2> QED BY <1>1, <1>2, NatInd
<1>4. \E f : G(f, Len(e))
  BY <1>3
<1>5. FlowingTo(e) = [n \in 0..Len(e) |-> IF n = 0 THEN <<>> ELSE Kept(FlowingTo(e)[n - 1], n)]
  BY <1>4 DEF FlowingTo, Kept
<1>6. \A n \in 0..Len(e) : FlowingTo(e)[n] = IF n = 0 THEN <<>> ELSE Kept(FlowingTo(e)[n - 1], n)
  BY <1>5
<1> QED BY <1>6 DEF Kept

(* One step of it.                                                         *)
LEMMA FlowingNext ==
  ASSUME NEW e, Len(e) \in Nat, NEW m \in Nat, m + 1 <= Len(e), IsSeq(FlowingTo(e)[m])
  PROVE  /\ Starts(FlowingTo(e)[m], FlowingTo(e)[m + 1])
         /\ ~Flows(e[m + 1]) => FlowingTo(e)[m + 1] = FlowingTo(e)[m]
<1> DEFINE a == FlowingTo(e)[m]
           b == FlowingTo(e)[m + 1]
<1>1. m + 1 \in 1..Len(e) /\ (m + 1) - 1 = m
  OBVIOUS
<1>2. b = IF Flows(e[m + 1]) THEN Append(a, e[m + 1]) ELSE a
  BY <1>1, FlowingDef
<1> HIDE DEF a, b
<1>3. IsSeq(a) /\ Len(a) \in Nat
  BY SeqDomain DEF a
<1>4. CASE Flows(e[m + 1])
  <2>1. Longer(a, e[m + 1], b)
    BY <1>2, <1>3, <1>4, SeqAppend
  <2> QED BY <1>3, <1>4, <2>1 DEF Longer, Starts, a, b
<1>5. CASE ~Flows(e[m + 1])
  BY <1>2, <1>3, <1>5 DEF Starts, a, b
<1> QED BY <1>4, <1>5

(* What the first k entries contribute depends on them only, and comes     *)
(* first; entries that do not change the flow contribute nothing.          *)
LEMMA FlowingAgree ==
  ASSUME NEW e, Len(e) \in Nat, NEW f, Len(f) \in Nat, NEW k \in Nat, k <= Len(e), k <= Len(f),
         \A i \in 1..k : e[i] = f[i]
  PROVE  FlowingTo(e)[k] = FlowingTo(f)[k]
<1> DEFINE N == {n \in Nat : n <= k => FlowingTo(e)[n] = FlowingTo(f)[n]}
<1>1. 0 \in N
  BY FlowingDef
<1>2. ASSUME NEW n \in Nat, n \in N PROVE n + 1 \in N
  <2> SUFFICES ASSUME n + 1 <= k PROVE FlowingTo(e)[n + 1] = FlowingTo(f)[n + 1]
    OBVIOUS
  <2>1. n + 1 \in 1..k /\ n + 1 \in 1..Len(e) /\ n + 1 \in 1..Len(f) /\ (n + 1) - 1 = n
    OBVIOUS
  <2>2. FlowingTo(e)[n] = FlowingTo(f)[n] /\ e[n + 1] = f[n + 1]
    BY <1>2, <2>1
  <2>3. FlowingTo(e)[n + 1] = IF Flows(e[n + 1]) THEN Append(FlowingTo(e)[n], e[n + 1]) ELSE FlowingTo(e)[n]
    BY <2>1, FlowingDef
  <2>4. FlowingTo(f)[n + 1] = IF Flows(f[n + 1]) THEN Append(FlowingTo(f)[n], f[n + 1]) ELSE FlowingTo(f)[n]
    BY <2>1, FlowingDef
  <2> QED BY <2>2, <2>3, <2>4
<1>3. Nat \subseteq N
  <2> HIDE DEF N
  <2> QED BY <1>1, <1>2, NatInd
<1> QED BY <1>3

(* The rest of them comes behind that.                                     *)
LEMMA FlowingFrom ==
  ASSUME NEW e, Len(e) \in Nat, NEW k \in Nat, k <= Len(e), IsSeq(FlowingTo(e)[k])
  PROVE  /\ Starts(FlowingTo(e)[k], FlowingTo(e)[Len(e)])
         /\ (\A i \in k + 1..Len(e) : ~Flows(e[i])) => FlowingTo(e)[Len(e)] = FlowingTo(e)[k]
<1> DEFINE a == FlowingTo(e)[k]
           None == \A i \in k + 1..Len(e) : ~Flows(e[i])
           N == {n \in Nat : k + n <= Len(e) =>
                   /\ Starts(a, FlowingTo(e)[k + n])
                   /\ None => FlowingTo(e)[k + n] = a}
<1>1. 0 \in N
  <2>1. k + 0 = k /\ Len(a) \in Nat
    BY SeqDomain
  <2> QED BY <2>1 DEF Starts
<1>2. ASSUME NEW n \in Nat, n \in N PROVE n + 1 \in N
  <2> DEFINE m == k + n
  <2> SUFFICES ASSUME m + 1 <= Len(e)
               PROVE  /\ Starts(a, FlowingTo(e)[m + 1])
                      /\ None => FlowingTo(e)[m + 1] = a
    <3>1. k + (n + 1) = m + 1
      OBVIOUS
    <3> HIDE DEF m
    <3> QED BY <3>1
  <2>1. m \in Nat /\ m + 1 \in k + 1..Len(e)
    OBVIOUS
  <2>2. Starts(a, FlowingTo(e)[m]) /\ (None => FlowingTo(e)[m] = a)
    BY <1>2
  <2> HIDE DEF m, a
  <2>3. IsSeq(FlowingTo(e)[m])
    BY <2>2 DEF Starts
  <2>4. /\ Starts(FlowingTo(e)[m], FlowingTo(e)[m + 1])
        /\ ~Flows(e[m + 1]) => FlowingTo(e)[m + 1] = FlowingTo(e)[m]
    BY <2>1, <2>3, FlowingNext
  <2>5. Starts(a, FlowingTo(e)[m + 1])
    BY <2>2, <2>4, StartsTrans
  <2> QED BY <2>1, <2>2, <2>4, <2>5
<1>3. Nat \subseteq N
  <2> HIDE DEF N
  <2> QED BY <1>1, <1>2, NatInd
<1>4. Len(e) - k \in N /\ k + (Len(e) - k) = Len(e)
  BY <1>3
<1> QED BY <1>4

(* All of it is a sequence.                                                *)
LEMMA FlowingSeq == ASSUME NEW e, Len(e) \in Nat PROVE \A k \in 0..Len(e) : IsSeq(FlowingTo(e)[k])
<1> DEFINE N == {n \in Nat : n <= Len(e) => IsSeq(FlowingTo(e)[n])}
<1>1. 0 \in N
  BY FlowingDef, SeqNone
<1>2. ASSUME NEW n \in Nat, n \in N PROVE n + 1 \in N
  BY <1>2, FlowingNext DEF Starts
<1>3. Nat \subseteq N
  <2> HIDE DEF N
  <2> QED BY <1>1, <1>2, NatInd
<1> QED BY <1>3

-----------------------------------------------------------------------------
(* The entries with the filter, or without.                                *)
Shown(in, e) == IF Filtered(in) THEN Flowing(e) ELSE e

(* It is a sequence.                                                       *)
LEMMA ShownSeq == ASSUME NEW in, NEW e, IsSeq(e) PROVE IsSeq(Shown(in, e))
<1>1. Len(e) \in Nat /\ Len(e) \in 0..Len(e)
  BY SeqDomain
<1> QED BY <1>1, FlowingSeq DEF Shown, Flowing

(* More entries show what fewer do, and more.                              *)
LEMMA ShownStarts ==
  ASSUME NEW in, NEW e, NEW f, Starts(e, f) PROVE Starts(Shown(in, e), Shown(in, f))
<1>1. /\ Len(e) \in Nat /\ Len(f) \in Nat /\ Len(e) <= Len(f) /\ Len(e) <= Len(e) /\ Len(e) \in 0..Len(f)
      /\ \A i \in 1..Len(e) : e[i] = f[i]
  BY SeqDomain DEF Starts
<1>2. FlowingTo(e)[Len(e)] = FlowingTo(f)[Len(e)]
  BY <1>1, FlowingAgree, Zenon
<1>3. Starts(FlowingTo(f)[Len(e)], FlowingTo(f)[Len(f)])
  BY <1>1, FlowingSeq, FlowingFrom
<1> QED BY <1>2, <1>3 DEF Shown, Flowing

(* Bytes that are no instruction are not shown with the filter.            *)
LEMMA ShownBytes ==
  ASSUME NEW in, Filtered(in), NEW e, IsSeq(e), NEW b, IsSeq(b), \A i \in 1..Len(b) : ~Flows(b[i])
  PROVE  Shown(in, e \o b) = Shown(in, e)
<1> DEFINE f == e \o b
<1>1. Chain(e, b, f)
  BY SeqConcat
<1> HIDE DEF f
<1>2. /\ Len(e) \in Nat /\ Len(f) \in Nat /\ Len(b) \in Nat /\ Len(e) <= Len(f) /\ Len(e) <= Len(e)
      /\ Len(e) \in 0..Len(f) /\ Len(f) = Len(e) + Len(b)
      /\ \A i \in 1..Len(e) : e[i] = f[i]
  BY <1>1, SeqDomain DEF Chain
<1>3. FlowingTo(e)[Len(e)] = FlowingTo(f)[Len(e)]
  BY <1>2, FlowingAgree, Zenon
<1>4. ASSUME NEW i \in Len(e) + 1..Len(f) PROVE ~Flows(f[i])
  <2>1. i - Len(e) \in 1..Len(b) /\ Len(e) + (i - Len(e)) = i
    BY <1>2
  <2>2. f[i] = b[i - Len(e)]
    BY <1>1, <2>1 DEF Chain
  <2> QED BY <2>1, <2>2
<1>5. FlowingTo(f)[Len(f)] = FlowingTo(f)[Len(e)]
  BY <1>2, <1>4, FlowingSeq, FlowingFrom
<1> QED BY <1>3, <1>5 DEF Shown, Flowing, f

(* An instruction is shown if it changes the flow.                         *)
LEMMA ShownAppend ==
  ASSUME NEW in, NEW e, IsSeq(e), NEW d
  PROVE  Shown(in, Append(e, d)) = IF Filtered(in) /\ ~Flows(d) THEN Shown(in, e)
                                   ELSE Append(Shown(in, e), d)
<1> DEFINE f == Append(e, d)
<1>1. Longer(e, d, f)
  BY SeqAppend
<1> HIDE DEF f
<1>2. /\ Len(e) \in Nat /\ Len(f) \in Nat /\ Len(e) <= Len(f) /\ Len(e) <= Len(e)
      /\ Len(f) \in 1..Len(f) /\ Len(f) - 1 = Len(e) /\ f[Len(f)] = d
      /\ \A i \in 1..Len(e) : e[i] = f[i]
  BY <1>1, SeqDomain DEF Longer
<1>3. FlowingTo(e)[Len(e)] = FlowingTo(f)[Len(e)]
  BY <1>2, FlowingAgree, Zenon
<1>4. FlowingTo(f)[Len(f)] = IF Flows(d) THEN Append(FlowingTo(f)[Len(e)], d) ELSE FlowingTo(f)[Len(e)]
  BY <1>2, FlowingDef
<1> QED BY <1>3, <1>4 DEF Shown, Flowing, f

-----------------------------------------------------------------------------
(***************************************************************************)
(* The listing of the reference.                                           *)
(***************************************************************************)
(* Its entries at a place.                                                 *)
EntriesFrom(in, p) == ListedAt(in, p, TurnAt(in, p, Len(in.bytes) - p))

(* Bytes that are no instruction stand for themselves.                     *)
LEMMA BytesExtent ==
  ASSUME NEW in, NEW from, NEW n \in Nat
  PROVE  LET b == Bytes(in, from, n)
         IN  IsSeq(b) /\ Len(b) = n /\ Extent(b) = n /\ \A i \in 1..n : b[i].decodable = FALSE
<1> DEFINE b == Bytes(in, from, n)
<1>1. DOMAIN b = 1..n /\ \A i \in 1..n : b[i].size = 1 /\ b[i].decodable = FALSE
  BY DEF Bytes
<1>2. b = [i \in 1..n |-> b[i]]
  BY DEF Bytes
<1> HIDE DEF b
<1>3. b \in [1..n -> {b[i] : i \in 1..n}]
  BY <1>2
<1>4. b \in Seq({b[i] : i \in 1..n}) /\ Len(b) = n
  BY <1>3, FunctionIsSeq
<1>5. Extent(b) = n
  <2> DEFINE N == {k \in Nat : k <= n => Extents(b)[k] = k}
  <2>1. 0 \in N
    BY <1>4, ExtentsStep
  <2>2. ASSUME NEW k \in Nat, k \in N PROVE k + 1 \in N
    <3> SUFFICES ASSUME k + 1 <= n PROVE Extents(b)[k + 1] = k + 1
      OBVIOUS
    <3>1. k + 1 \in 1..n /\ (k + 1) - 1 = k /\ Extents(b)[k] = k
      BY <2>2
    <3>2. Extents(b)[k + 1] = Extents(b)[k] + b[k + 1].size
      BY <1>4, <3>1, ExtentsStep
    <3> QED BY <1>1, <3>1, <3>2
  <2>3. Nat \subseteq N
    <3> HIDE DEF N
    <3> QED BY <2>1, <2>2, NatInd
  <2> QED BY <1>4, <2>3 DEF Extent
<1> QED BY <1>1, <1>4, <1>5 DEF IsSeq, b

(* An instruction stands for its bytes and those of its prefixes.          *)
LEMMA EntryExtent ==
  ASSUME NEW x, x.size \in Nat
  PROVE  IsSeq(<<x>>) /\ Len(<<x>>) = 1 /\ (<<x>>)[1] = x /\ Extent(<<x>>) = x.size
<1> DEFINE e == <<x>>
<1>1. IsSeq(e) /\ Len(e) = 1 /\ e[1] = x
  BY SeqNone, SeqTrivial
<1> HIDE DEF e
<1>2. Extents(e)[1] = Extents(e)[1 - 1] + e[1].size /\ Extents(e)[0] = 0
  BY <1>1, ExtentsStep
<1>3. Extent(e) = x.size
  BY <1>1, <1>2 DEF Extent
<1> QED BY <1>1, <1>3 DEF e

(* The three kinds of entries that a turn at p can give.                   *)
Piece(in, p, left, w, d, e) ==
  LET n == PrefixSize(w)
  IN  \/ OnlyPrefixes(w) /\ e = Bytes(in, p, n) /\ Extent(e) = n
      \/ ~OnlyPrefixes(w) /\ d.decodable /\ e = <<Stored(in, p, w, d)>> /\ Extent(e) = n + d.size
      \/ ~OnlyPrefixes(w) /\ ~d.decodable /\ e = Bytes(in, p, n + 1) /\ Extent(e) = n + 1

(* What the entry keeps of the instruction.                                *)
LEMMA StoredFields ==
  ASSUME NEW in, NEW p, NEW w, NEW d, DOMAIN d = EntryFields
  PROVE  LET x == Stored(in, p, w, d)
         IN  /\ x.size = d.size + PrefixSize(w) /\ x.decodable = d.decodable /\ x.fc = d.fc
             /\ x.left = d.left /\ x.addr = Masked(in, in.codeOffset + p)
<1>1. /\ "addr" \in EntryFields /\ "size" \in EntryFields /\ "left" \in EntryFields
      /\ "decodable" \in EntryFields /\ "fc" \in EntryFields
  BY DEF EntryFields
<1> QED BY <1>1 DEF Stored

(* There are no others.                                                    *)
LEMMA PieceFound ==
  ASSUME NEW in, in.dt \in Sizes, NEW p \in Nat, NEW left \in Nat \ {0}
  PROVE  LET w == TurnAt(in, p, left)
             e == ListedAt(in, p, w)
         IN  IsSeq(e) /\ Extent(e) \in 1..left /\ Piece(in, p, left, w, decode_inst(w), e)
<1> DEFINE w == TurnAt(in, p, left)
           n == PrefixSize(w)
           d == decode_inst(w)
           e == ListedAt(in, p, w)
<1>1. /\ n \in Nat /\ n <= left
      /\ OnlyPrefixes(w) => n > 0
      /\ ~OnlyPrefixes(w) => Behind(left, n, d)
  BY TurnAtFound
<1> HIDE DEF w, d
<1>2. CASE OnlyPrefixes(w)
  <2>1. e = Bytes(in, p, n)
    BY <1>2 DEF ListedAt
  <2>2. IsSeq(e) /\ Extent(e) = n
    <3> HIDE DEF n, e
    <3>1. IsSeq(Bytes(in, p, n)) /\ Extent(Bytes(in, p, n)) = n
      BY <1>1, BytesExtent
    <3> QED BY <2>1, <3>1
  <2>3. n \in 1..left
    BY <1>1, <1>2
  <2> HIDE DEF n, e
  <2>4. Piece(in, p, left, w, d, e)
    BY <1>2, <2>1, <2>2 DEF Piece, n
  <2> QED BY <2>2, <2>3, <2>4 DEF w, d, e
<1>3. CASE ~OnlyPrefixes(w) /\ ~d.decodable
  <2>1. e = Bytes(in, p, n + 1)
    BY <1>3, Zenon DEF ListedAt, EntriesAt, d
  <2>2. IsSeq(e) /\ Extent(e) = n + 1
    <3> DEFINE k == n + 1
    <3>0. k \in Nat
      BY <1>1
    <3> HIDE DEF n, e, k
    <3>1. IsSeq(Bytes(in, p, k)) /\ Extent(Bytes(in, p, k)) = k
      BY <3>0, BytesExtent
    <3> QED BY <2>1, <3>1 DEF k
  <2>3. n + 1 \in 1..left
    <3>1. d.size + n <= left /\ d.size = 1
      BY <1>1, <1>3 DEF Behind
    <3> HIDE DEF n
    <3> QED BY <1>1, <3>1
  <2> HIDE DEF n, e
  <2>4. Piece(in, p, left, w, d, e)
    BY <1>3, <2>1, <2>2 DEF Piece, n
  <2> QED BY <2>2, <2>3, <2>4 DEF w, d, e
<1>4. CASE ~OnlyPrefixes(w) /\ d.decodable
  <2> DEFINE x == Stored(in, p, w, d)
  <2>1. e = <<x>>
    BY <1>4, Zenon DEF ListedAt, EntriesAt, d
  <2>0. DOMAIN d = EntryFields /\ d.size \in Nat \ {0} /\ d.size + n <= left
    BY <1>1, <1>4 DEF Behind
  <2>5. x.size = d.size + n
    BY <2>0, StoredFields
  <2> HIDE DEF x, n
  <2>6. x.size \in Nat /\ x.size = n + d.size /\ n + d.size \in 1..left
    BY <1>1, <2>0, <2>5
  <2>2. IsSeq(e) /\ Extent(e) = n + d.size
    BY <2>1, <2>6, EntryExtent
  <2> HIDE DEF e
  <2>4. Piece(in, p, left, w, d, e)
    BY <1>4, <2>1, <2>2 DEF Piece, n, x
  <2> QED BY <2>2, <2>4, <2>6 DEF w, d, e
<1> QED BY <1>2, <1>3, <1>4

(* The function that the listing is defined with exists.                   *)
LEMMA ListingDef ==
  ASSUME NEW in, in.dt \in Sizes, in.bytes \in Seq(0..255)
  PROVE  LET n == Len(in.bytes)
             F == ListingFrom(in)
         IN  /\ F[n] = <<>>
             /\ \A p \in 0..n - 1 : F[p] = EntriesFrom(in, p) \o F[p + Extent(EntriesFrom(in, p))]
<1> DEFINE n == Len(in.bytes)
           C(p, f) == EntriesFrom(in, p) \o f
           X(p) == p + Extent(EntriesFrom(in, p))
           G(f, k) == f = [p \in n - k..n |-> IF p = n THEN <<>> ELSE C(p, f[X(p)])]
           N == {k \in Nat : k <= n => \E f : G(f, k)}
<1>0. n \in Nat
  OBVIOUS
<1>X. ASSUME NEW p \in 0..n - 1 PROVE X(p) \in p + 1..n
  <2>1. p \in Nat /\ n - p \in Nat \ {0}
    BY <1>0
  <2>2. Extent(EntriesFrom(in, p)) \in 1..n - p
    BY <2>1, PieceFound, Zenon DEF EntriesFrom
  <2> QED BY <1>0, <2>1, <2>2
<1> HIDE DEF n, C, X
<1>1. 0 \in N
  <2> DEFINE f == [p \in n - 0..n |-> <<>>]
  <2>1. \A p \in n - 0..n : p = n
    BY <1>0
  <2>2. G(f, 0)
    BY <2>1
  <2> QED BY <2>2
<1>2. ASSUME NEW k \in Nat, k \in N PROVE k + 1 \in N
  <2> SUFFICES ASSUME k + 1 <= n PROVE \E f : G(f, k + 1)
    OBVIOUS
  <2>1. PICK f : G(f, k)
    BY <1>0, <1>2
  <2> DEFINE m == n - (k + 1)
             g == [p \in m..n |-> IF p = m THEN C(m, f[X(m)]) ELSE f[p]]
  <2>0. m \in Nat /\ m < n /\ n - k = m + 1 /\ n \in Nat
    BY <1>0
  <2> HIDE DEF m
  <2>2. ASSUME NEW p \in m..n
        PROVE  g[p] = IF p = n THEN <<>> ELSE C(p, g[X(p)])
    <3>1. CASE p = n
      <4>1. p \in m + 1..n /\ p # m
        BY <2>0, <3>1
      <4>2. g[p] = f[p]
        BY <4>1
      <4>3. f[p] = <<>>
        BY <2>0, <2>1, <3>1, <4>1
      <4> QED BY <3>1, <4>2, <4>3
    <3>2. CASE p # n
      <4>1. p \in 0..n - 1
        BY <2>0, <3>2
      <4>2. X(p) \in p + 1..n
        BY <4>1, <1>X
      <4>3. X(p) \in m..n /\ X(p) # m
        BY <2>0, <4>1, <4>2
      <4>4. g[X(p)] = f[X(p)]
        BY <4>3
      <4>5. CASE p = m
        <5>1. g[p] = C(p, f[X(p)])
          BY <4>5
        <5> HIDE DEF g
        <5> QED BY <3>2, <4>4, <5>1
      <4>6. CASE p # m
        <5>1. p \in n - k..n /\ g[p] = f[p]
          BY <2>0, <4>6
        <5>2. f[p] = C(p, f[X(p)])
          BY <2>1, <3>2, <5>1
        <5> HIDE DEF g
        <5> QED BY <3>2, <4>4, <5>1, <5>2
      <4> QED BY <4>5, <4>6
    <3> QED BY <3>1, <3>2
  <2>3. G(g, k + 1)
    <3>1. g = [p \in m..n |-> g[p]]
      OBVIOUS
    <3> HIDE DEF g
    <3>2. g = [p \in m..n |-> IF p = n THEN <<>> ELSE C(p, g[X(p)])]
      BY <2>2, <3>1
    <3> QED BY <3>2 DEF m
  <2> HIDE DEF g, G
  <2> QED BY <2>3
<1>3. Nat \subseteq N
  <2> HIDE DEF N
  <2> QED BY <1>1, <1>2, NatInd
<1>4. \E f : f = [p \in 0..n |-> IF p = n THEN <<>> ELSE C(p, f[X(p)])]
  <2>0. \E f : G(f, n)
    <3> HIDE DEF G
    <3> QED BY <1>0, <1>3
  <2>1. PICK f : G(f, n)
    BY <2>0
  <2>2. n - n = 0
    BY <1>0
  <2> QED BY <2>1, <2>2
<1> DEFINE F == ListingFrom(in)
<1>5. F = [p \in 0..n |-> IF p = n THEN <<>> ELSE C(p, F[X(p)])]
  BY <1>4, Zenon DEF ListingFrom, EntriesFrom, Continued, n, C, X
<1> HIDE DEF F
<1>6. \A p \in 0..n : F[p] = IF p = n THEN <<>> ELSE C(p, F[X(p)])
  BY <1>5
<1>7. F[n] = <<>> /\ \A p \in 0..n - 1 : F[p] = C(p, F[X(p)])
  <2>1. n \in 0..n /\ \A p \in 0..n - 1 : p \in 0..n /\ p # n
    BY <1>0
  <2> QED BY <1>6, <2>1
<1> QED BY <1>7 DEF n, F, C, X

(* Each of its values is a sequence of entries.                            *)
LEMMA ListingSeq ==
  ASSUME NEW in, in.dt \in Sizes, in.bytes \in Seq(0..255)
  PROVE  \A p \in 0..Len(in.bytes) : IsSeq(ListingFrom(in)[p])
<1> DEFINE n == Len(in.bytes)
           F == ListingFrom(in)
           N == {k \in Nat : \A p \in 0..n : n - p <= k => IsSeq(F[p])}
<1>0. n \in Nat /\ F[n] = <<>> /\ IsSeq(<<>>)
  BY ListingDef, SeqNone
<1>1. ASSUME NEW p \in 0..n - 1
      PROVE  /\ F[p] = EntriesFrom(in, p) \o F[p + Extent(EntriesFrom(in, p))]
             /\ IsSeq(EntriesFrom(in, p)) /\ p + Extent(EntriesFrom(in, p)) \in p + 1..n
  <2>1. p \in Nat /\ n - p \in Nat \ {0}
    BY <1>0
  <2>2. IsSeq(EntriesFrom(in, p)) /\ Extent(EntriesFrom(in, p)) \in 1..n - p
    BY <2>1, PieceFound, Zenon DEF EntriesFrom
  <2>3. F[p] = EntriesFrom(in, p) \o F[p + Extent(EntriesFrom(in, p))]
    BY ListingDef
  <2> HIDE DEF F, n
  <2> QED BY <1>0, <2>1, <2>2, <2>3
<1> HIDE DEF n, F
<1>2. 0 \in N
  BY <1>0
<1>3. ASSUME NEW k \in Nat, k \in N PROVE k + 1 \in N
  <2> SUFFICES ASSUME NEW p \in 0..n, n - p <= k + 1 PROVE IsSeq(F[p])
    OBVIOUS
  <2>1. CASE p = n
    BY <1>0, <2>1
  <2>2. CASE p # n
    <3> DEFINE q == p + Extent(EntriesFrom(in, p))
    <3>0. p \in 0..n - 1
      BY <1>0, <2>2
    <3>1. F[p] = EntriesFrom(in, p) \o F[q] /\ IsSeq(EntriesFrom(in, p)) /\ q \in p + 1..n
      BY <3>0, <1>1
    <3> HIDE DEF q
    <3>2. q \in 0..n /\ n - q <= k
      BY <1>0, <3>1
    <3>3. IsSeq(F[q])
      BY <1>3, <3>2
    <3> QED BY <3>1, <3>3, SeqConcat DEF Chain
  <2> QED BY <2>1, <2>2
<1>4. Nat \subseteq N
  <2> HIDE DEF N
  <2> QED BY <1>2, <1>3, NatInd
<1>5. ASSUME NEW p \in 0..n PROVE IsSeq(F[p])
  <2>1. n - p \in Nat /\ n - p <= n - p
    BY <1>0
  <2> QED BY <1>4, <2>1
<1> QED BY <1>5 DEF n, F

-----------------------------------------------------------------------------
(***************************************************************************)
(* What is wanted of the listing.                                          *)
(***************************************************************************)
(* An entry that ends the call.                                            *)
EndsAt(in, d) == d.decodable /\ Stops(in, d)
NoEnd(in, e) == \A i \in 1..Len(e) : ~EndsAt(in, e[i])

(* Every nonempty set of numbers has a least one.                          *)
LEMMA LeastIn == ASSUME NEW S, S \subseteq Nat, S # {} PROVE Min(S) \in S /\ \A y \in S : Min(S) <= y
<1>1. PICK x \in S : \A y \in S : ~(<<y, x>> \in OpToRel(<, Nat))
  BY NatLessThanWellFounded, WFMin
<1>2. ASSUME NEW y \in S PROVE x <= y
  <2>1. x \in Nat /\ y \in Nat /\ ~(y < x)
    BY <1>1 DEF OpToRel
  <2> QED BY <2>1
<1>3. \E z \in S : \A y \in S : z <= y
  BY <1>2
<1> QED BY <1>3 DEF Min

(* Wanted in two steps: where it ends, and what it shows.                  *)
LEMMA WantedCut ==
  ASSUME NEW in, NEW l, IsSeq(l)
  PROVE  \/ NoEnd(in, l) /\ Wanted(in, l) = Shown(in, l)
         \/ \E stop \in 1..Len(l) : /\ EndsAt(in, l[stop])
                                    /\ \A i \in 1..stop - 1 : ~EndsAt(in, l[i])
                                    /\ Wanted(in, l) = Shown(in, SubSeq(l, 1, stop))
<1> DEFINE I == {i \in 1..Len(l) : l[i].decodable /\ Stops(in, l[i])}
           stop == IF I # {} THEN Min(I) ELSE 0
           all == IF stop = 0 THEN l ELSE SubSeq(l, 1, stop)
<1>1. Wanted(in, l) = Shown(in, all)
  BY Zenon DEF Wanted, SelectInSeq, Shown
<1>2. Len(l) \in Nat /\ I \subseteq Nat /\ \A i \in 1..Len(l) : i \in I <=> EndsAt(in, l[i])
  BY SeqDomain DEF EndsAt
<1>3. CASE I = {}
  <2>1. NoEnd(in, l)
    BY <1>2, <1>3 DEF NoEnd
  <2>2. all = l
    BY <1>3
  <2> QED BY <1>1, <2>1, <2>2
<1>4. CASE I # {}
  <2>1. Min(I) \in I /\ \A y \in I : Min(I) <= y
    BY <1>2, <1>4, LeastIn
  <2>2. stop = Min(I)
    BY <1>4
  <2>3. stop \in 1..Len(l) /\ stop \in I
    BY <2>1, <2>2
  <2>4. all = SubSeq(l, 1, stop)
    <3>1. stop # 0
      BY <2>3
    <3> HIDE DEF stop
    <3> QED BY <3>1
  <2> HIDE DEF stop, I, all
  <2>5. ASSUME NEW i \in 1..stop - 1 PROVE ~EndsAt(in, l[i])
    <3>1. i \in 1..Len(l) /\ ~(stop <= i)
      BY <1>2, <2>3
    <3> QED BY <1>2, <2>1, <2>2, <3>1
  <2> QED BY <1>1, <1>2, <2>3, <2>4, <2>5
<1> QED BY <1>3, <1>4

(* Without an end, everything is.                                          *)
LEMMA WantedAll == ASSUME NEW in, NEW l, IsSeq(l), NoEnd(in, l) PROVE Wanted(in, l) = Shown(in, l)
BY WantedCut DEF NoEnd

(* With one, everything up to the first.                                   *)
LEMMA WantedFirst ==
  ASSUME NEW in, NEW f, IsSeq(f), NEW t, IsSeq(t), Len(f) > 0, EndsAt(in, f[Len(f)]),
         \A i \in 1..Len(f) - 1 : ~EndsAt(in, f[i])
  PROVE  Wanted(in, f \o t) = Shown(in, f)
<1> DEFINE l == f \o t
<1>1. Chain(f, t, l)
  BY SeqConcat
<1> HIDE DEF l
<1>2. /\ IsSeq(l) /\ Len(f) \in Nat /\ Len(l) \in Nat /\ Len(f) <= Len(l) /\ Len(f) \in 1..Len(f)
      /\ Len(f) \in 1..Len(l) /\ \A i \in 1..Len(f) : l[i] = f[i]
  BY <1>1, SeqDomain DEF Chain
<1>3. ~NoEnd(in, l)
  BY <1>2 DEF NoEnd
<1>4. PICK stop \in 1..Len(l) : /\ EndsAt(in, l[stop])
                                /\ \A i \in 1..stop - 1 : ~EndsAt(in, l[i])
                                /\ Wanted(in, l) = Shown(in, SubSeq(l, 1, stop))
  BY <1>2, <1>3, WantedCut
<1>5. stop = Len(f)
  <2>1. ~(Len(f) < stop)
    <3> SUFFICES ASSUME Len(f) < stop PROVE FALSE
      OBVIOUS
    <3>1. Len(f) \in 1..stop - 1
      BY <1>2
    <3> QED BY <1>2, <1>4, <3>1
  <2>2. ~(stop < Len(f))
    <3> SUFFICES ASSUME stop < Len(f) PROVE FALSE
      OBVIOUS
    <3>1. stop \in 1..Len(f) - 1 /\ stop \in 1..Len(f)
      BY <1>2
    <3> QED BY <1>2, <1>4, <3>1
  <2> QED BY <1>2, <2>1, <2>2
<1>6. SubSeq(l, 1, Len(f)) = f
  <2> DEFINE x == SubSeq(l, 1, Len(f))
  <2>1. Starts(x, l) /\ Len(x) = Len(f)
    BY <1>2, SeqCut
  <2> HIDE DEF x
  <2>2. IsSeq(x) /\ \A i \in 1..Len(x) : x[i] = f[i]
    BY <1>2, <2>1 DEF Starts
  <2>3. x = f
    BY <2>1, <2>2, SeqSame
  <2> QED BY <2>3 DEF x
<1> QED BY <1>4, <1>5, <1>6 DEF l

(* What comes before the first end is a prefix of what is wanted.          *)
LEMMA WantedBegins ==
  ASSUME NEW in, NEW e, IsSeq(e), NoEnd(in, e), NEW t, IsSeq(t)
  PROVE  IsPrefix(Shown(in, e), Wanted(in, e \o t))
<1> DEFINE l == e \o t
<1>1. Chain(e, t, l)
  BY SeqConcat
<1> HIDE DEF l
<1>2. /\ IsSeq(l) /\ Len(e) \in Nat /\ Len(l) \in Nat /\ Len(e) <= Len(l)
      /\ \A i \in 1..Len(e) : l[i] = e[i]
  BY <1>1, SeqDomain DEF Chain
<1>3. Starts(e, l)
  BY <1>2 DEF Starts
<1>4. CASE Wanted(in, l) = Shown(in, l)
  BY <1>3, <1>4, ShownStarts, StartsPrefix DEF l
<1>5. CASE Wanted(in, l) # Shown(in, l)
  <2>1. PICK stop \in 1..Len(l) : /\ EndsAt(in, l[stop])
                                  /\ Wanted(in, l) = Shown(in, SubSeq(l, 1, stop))
    BY <1>2, <1>5, WantedCut
  <2> DEFINE x == SubSeq(l, 1, stop)
  <2>2. Starts(x, l) /\ Len(x) = stop
    BY <1>2, SeqCut
  <2> HIDE DEF x
  <2>3. Len(e) < stop
    <3> SUFFICES ASSUME stop <= Len(e) PROVE FALSE
      BY <1>2
    <3>1. stop \in 1..Len(e)
      BY <1>2
    <3> QED BY <1>2, <2>1, <3>1 DEF NoEnd
  <2>4. Starts(e, x)
    <3>1. Len(e) <= Len(x) /\ \A i \in 1..Len(e) : i \in 1..Len(x)
      BY <1>2, <2>2, <2>3
    <3> QED BY <1>2, <2>2, <3>1 DEF Starts
  <2> QED BY <2>1, <2>4, ShownStarts, StartsPrefix DEF x, l
<1> QED BY <1>4, <1>5

-----------------------------------------------------------------------------
(***************************************************************************)
(* Where the loop is in the listing.                                       *)
(***************************************************************************)
(* r shows the entries before p, and none of them ended the call.          *)
Before(in, p, r, e) ==
  /\ IsSeq(e) /\ NoEnd(in, e) /\ r = Shown(in, e)
  /\ Listing(in) = e \o ListingFrom(in)[p]
Reached(in, p, r) == \E e : Before(in, p, r, e)

Listable(in) == in.dt \in Sizes /\ in.bytes \in Seq(0..255)

(* It begins with none.                                                    *)
LEMMA ReachedFirst == ASSUME NEW in, Listable(in) PROVE Reached(in, 0, <<>>)
<1>0. Len(in.bytes) \in Nat /\ 0 \in 0..Len(in.bytes)
  BY DEF Listable
<1>1. IsSeq(ListingFrom(in)[0])
  BY <1>0, ListingSeq DEF Listable
<1>2. Listing(in) = <<>> \o ListingFrom(in)[0]
  BY <1>1, SeqTrivial DEF Listing
<1>3. IsSeq(<<>>) /\ Len(<<>>) = 0
  BY SeqNone
<1>4. Shown(in, <<>>) = <<>>
  <2>1. FlowingTo(<<>>)[0] = <<>>
    BY <1>3, FlowingDef
  <2> QED BY <1>3, <2>1 DEF Shown, Flowing
<1>5. NoEnd(in, <<>>)
  BY <1>3 DEF NoEnd
<1> QED BY <1>2, <1>3, <1>4, <1>5 DEF Reached, Before

(* A turn takes it over the entries at its place.                          *)
LEMMA ReachedOn ==
  ASSUME NEW in, Listable(in), NEW p \in Nat, p < Len(in.bytes), NEW e, IsSeq(e),
         e = EntriesFrom(in, p), NEW pre, IsSeq(pre), Listing(in) = pre \o ListingFrom(in)[p]
  PROVE  /\ Listing(in) = (pre \o e) \o ListingFrom(in)[p + Extent(e)]
         /\ IsSeq(ListingFrom(in)[p + Extent(e)])
<1>0. Len(in.bytes) \in Nat /\ p \in 0..Len(in.bytes) - 1 /\ Len(in.bytes) - p \in Nat \ {0}
  BY DEF Listable
<1> DEFINE t == ListingFrom(in)[p + Extent(e)]
<1>1. ListingFrom(in)[p] = e \o t
  BY <1>0, ListingDef DEF Listable
<1>2. Extent(e) \in 1..Len(in.bytes) - p
  BY <1>0, PieceFound, Zenon DEF EntriesFrom, Listable
<1>3. p + Extent(e) \in 0..Len(in.bytes)
  BY <1>0, <1>2
<1>4. IsSeq(t)
  BY <1>3, ListingSeq DEF Listable
<1> HIDE DEF t
<1>5. (pre \o e) \o t = pre \o (e \o t)
  BY <1>4, SeqAssoc
<1> QED BY <1>1, <1>4, <1>5 DEF t

(* Over bytes that are no instruction.                                     *)
LEMMA ReachedBytes ==
  ASSUME NEW in, Listable(in), NEW p \in Nat, p < Len(in.bytes), NEW k \in Nat,
         EntriesFrom(in, p) = Bytes(in, p, k), NEW r, Reached(in, p, r)
  PROVE  Reached(in, p + k, IF Filtered(in) THEN r ELSE r \o Bytes(in, p, k))
<1> DEFINE b == Bytes(in, p, k)
<1>1. IsSeq(b) /\ Len(b) = k /\ Extent(b) = k /\ \A i \in 1..k : b[i].decodable = FALSE
  BY BytesExtent
<1> HIDE DEF b
<1>2. PICK pre : Before(in, p, r, pre)
  BY DEF Reached
<1>3. IsSeq(pre) /\ NoEnd(in, pre) /\ r = Shown(in, pre) /\ Listing(in) = pre \o ListingFrom(in)[p]
  BY <1>2 DEF Before
<1> DEFINE f == pre \o b
<1>4. Listing(in) = f \o ListingFrom(in)[p + k]
  BY <1>1, <1>3, ReachedOn DEF b
<1>5. Chain(pre, b, f)
  BY <1>1, <1>3, SeqConcat
<1>6. Shown(in, f) = IF Filtered(in) THEN r ELSE r \o b
  <2>1. CASE Filtered(in)
    <3>1. \A i \in 1..Len(b) : ~Flows(b[i])
      BY <1>1 DEF Flows
    <3> QED BY <1>1, <1>3, <2>1, <3>1, ShownBytes
  <2>2. CASE ~Filtered(in)
    BY <1>3, <2>2 DEF Shown
  <2> QED BY <2>1, <2>2
<1> HIDE DEF f
<1>7. NoEnd(in, f)
  <2> SUFFICES ASSUME NEW i \in 1..Len(f) PROVE ~EndsAt(in, f[i])
    BY DEF NoEnd
  <2>0. Len(pre) \in Nat /\ Len(b) \in Nat /\ Len(f) = Len(pre) + Len(b)
    BY <1>1, <1>3, <1>5, SeqDomain DEF Chain
  <2>1. CASE i <= Len(pre)
    <3>1. i \in 1..Len(pre)
      BY <2>0, <2>1
    <3> QED BY <1>3, <1>5, <3>1 DEF Chain, NoEnd
  <2>2. CASE ~(i <= Len(pre))
    <3>1. i - Len(pre) \in 1..Len(b) /\ Len(pre) + (i - Len(pre)) = i
      BY <2>0, <2>2
    <3>2. f[i] = b[i - Len(pre)]
      BY <1>5, <3>1 DEF Chain
    <3> QED BY <1>1, <3>1, <3>2 DEF EndsAt
  <2> QED BY <2>1, <2>2
<1>8. IsSeq(f)
  BY <1>5 DEF Chain
<1> QED BY <1>4, <1>6, <1>7, <1>8 DEF Before, Reached, b

(* Over an instruction that ends the call, or one that does not: r with x  *)
(* is s, as far as the filter shows it.                                    *)
Shows(in, r, x, s) == s = IF Filtered(in) /\ ~Flows(x) THEN r ELSE Append(r, x)
Taken(in, p, x, s) ==
  IF EndsAt(in, x) THEN s = Wanted(in, Listing(in)) ELSE Reached(in, p + x.size, s)

(* That is what the turn does.                                             *)
LEMMA ReachedEntry ==
  ASSUME NEW in, Listable(in), NEW p \in Nat, p < Len(in.bytes), NEW x, x.size \in Nat,
         EntriesFrom(in, p) = <<x>>, NEW r, Reached(in, p, r),
         NEW s, Shows(in, r, x, s)
  PROVE  Taken(in, p, x, s)
<1> DEFINE b == <<x>>
<1>1. IsSeq(b) /\ Extent(b) = x.size
  BY EntryExtent
<1> HIDE DEF b
<1>2. PICK pre : Before(in, p, r, pre)
  BY DEF Reached
<1>3. IsSeq(pre) /\ NoEnd(in, pre) /\ r = Shown(in, pre) /\ Listing(in) = pre \o ListingFrom(in)[p]
  BY <1>2 DEF Before
<1> DEFINE f == Append(pre, x)
           t == ListingFrom(in)[p + x.size]
<1>4. pre \o b = f
  BY <1>3, SeqTrivial DEF b
<1>5. Listing(in) = f \o t /\ IsSeq(t)
  BY <1>1, <1>3, <1>4, ReachedOn DEF b
<1>6. Longer(pre, x, f)
  BY <1>3, SeqAppend
<1>7. Shown(in, f) = s
  BY <1>3, ShownAppend DEF Shows
<1> HIDE DEF f, t
<1>8. /\ IsSeq(f) /\ f[Len(f)] = x /\ Len(pre) \in Nat /\ Len(f) = Len(pre) + 1
      /\ \A i \in 1..Len(pre) : f[i] = pre[i]
  BY <1>3, <1>6, SeqDomain DEF Longer
<1>9. \A i \in 1..Len(f) - 1 : ~EndsAt(in, f[i])
  <2>1. Len(f) - 1 = Len(pre)
    BY <1>8
  <2> QED BY <1>3, <1>8, <2>1 DEF NoEnd
<1>10. CASE EndsAt(in, x)
  <2>1. Len(f) > 0
    BY <1>8
  <2>2. Wanted(in, f \o t) = Shown(in, f)
    BY <1>5, <1>8, <1>9, <1>10, <2>1, WantedFirst
  <2> QED BY <1>5, <1>7, <1>10, <2>2 DEF Taken
<1>11. CASE ~EndsAt(in, x)
  <2>1. NoEnd(in, f)
    <3> SUFFICES ASSUME NEW i \in 1..Len(f) PROVE ~EndsAt(in, f[i])
      BY DEF NoEnd
    <3>1. i = Len(f) \/ i \in 1..Len(f) - 1
      BY <1>8
    <3> QED BY <1>8, <1>9, <1>11, <3>1
  <2> QED BY <1>5, <1>7, <1>8, <1>11, <2>1 DEF Before, Reached, Taken, t
<1> QED BY <1>10, <1>11

(* At the end of the code, everything is there that is wanted.             *)
LEMMA ReachedAll ==
  ASSUME NEW in, Listable(in), NEW r, Reached(in, Len(in.bytes), r)
  PROVE  r = Wanted(in, Listing(in))
<1>1. PICK e : Before(in, Len(in.bytes), r, e)
  BY DEF Reached
<1>2. ListingFrom(in)[Len(in.bytes)] = <<>>
  BY ListingDef DEF Listable
<1>3. IsSeq(e) /\ NoEnd(in, e) /\ r = Shown(in, e) /\ Listing(in) = e \o <<>>
  BY <1>1, <1>2 DEF Before
<1>4. Listing(in) = e
  BY <1>3, SeqTrivial
<1> QED BY <1>3, <1>4, WantedAll

(* Anywhere else, the beginning of it.                                     *)
LEMMA ReachedSome ==
  ASSUME NEW in, Listable(in), NEW p \in 0..Len(in.bytes), NEW r, Reached(in, p, r)
  PROVE  IsPrefix(r, Wanted(in, Listing(in)))
<1>1. PICK e : Before(in, p, r, e)
  BY DEF Reached
<1>2. IsSeq(ListingFrom(in)[p])
  BY ListingSeq DEF Listable
<1> QED BY <1>1, <1>2, WantedBegins DEF Before

(* The loop is where its result says it is, and what a call gives is what  *)
(* is wanted of the listing, or the beginning of it.                       *)
LoopLists == (pc = "loop" => Reached(input, at, result)) /\ BeginsListing

(* A step that goes on, and one that ends.                                 *)
LEMMA ListsOn ==
  ASSUME input' = input, pc' = "loop", Reached(input, at', result') PROVE LoopLists'
BY DEF LoopLists, BeginsListing, Done

(* With the result that is wanted.                                         *)
LEMMA ListsEnd ==
  ASSUME input' = input, pc' = "done",
         \/ ret' = "SUCCESS" /\ result' = Wanted(input, Listing(input))
         \/ ret' = "MEMORYERR" /\ IsPrefix(result', Wanted(input, Listing(input)))
         \/ ret' = "INPUTERR"
  PROVE  LoopLists'
<1>1. Wanted(input, Listing(input))' = Wanted(input, Listing(input))
  OBVIOUS
<1>2. BeginsListing'
  BY <1>1 DEF BeginsListing, Begins
<1> QED BY <1>2 DEF LoopLists

(* Every step keeps that.                                                  *)
LEMMA ListsStep == LoopInv /\ LoopLists /\ [Next]_vars => LoopLists'
<1> SUFFICES ASSUME LoopInv, LoopLists, [Next]_vars PROVE LoopLists'
  OBVIOUS
<1>0. /\ at \in Nat /\ codeLen \in Nat /\ input.bytes \in Seq(0..255) /\ Len(input.bytes) \in Nat
      /\ pc \in {"call", "loop", "done"}
  <2>1. input \in Calls /\ pc \in {"call", "loop", "done"}
    BY DEF LoopInv, LoopTyped
  <2> QED BY <2>1, LoopFacts DEF Calls
<1>1. ASSUME pc = "loop"
      PROVE  /\ Listable(input) /\ at + codeLen = Len(input.bytes) /\ Reached(input, at, result)
             /\ at \in 0..Len(input.bytes) /\ codeLen = Len(input.bytes) - at
  <2>1. input.dt \in Sizes /\ at + codeLen = Len(input.bytes)
    BY <1>1 DEF LoopInv, LoopCounts
  <2>2. at \in 0..Len(input.bytes) /\ codeLen = Len(input.bytes) - at
    BY <1>0, <2>1
  <2> QED BY <1>0, <1>1, <2>1, <2>2 DEF Listable, LoopLists
<1>2. ASSUME pc = "loop", codeLen > 0
      PROVE  LET w == Turn
                 d == decode_inst(w)
             IN  /\ at < Len(input.bytes) /\ EntriesFrom(input, at) = ListedAt(input, at, w)
                 /\ Piece(input, at, codeLen, w, d, EntriesFrom(input, at))
                 /\ PrefixSize(w) \in Nat /\ w.codeLen = codeLen - PrefixSize(w)
                 /\ ~OnlyPrefixes(w) => Behind(codeLen, PrefixSize(w), d)
  <2>1. /\ input.dt \in Sizes /\ codeLen \in Nat \ {0} /\ at < Len(input.bytes)
        /\ codeLen = Len(input.bytes) - at
    BY <1>0, <1>1, <1>2 DEF Listable
  <2>2. EntriesFrom(input, at) = ListedAt(input, at, Turn)
    BY <2>1 DEF EntriesFrom, Turn
  <2>3. Piece(input, at, codeLen, Turn, decode_inst(Turn), ListedAt(input, at, Turn))
    BY <1>0, <2>1, PieceFound DEF Turn
  <2> QED BY <1>2, <2>1, <2>2, <2>3, TurnFound
<1>3. ASSUME pc = "loop" PROVE IsPrefix(result, Wanted(input, Listing(input)))
  BY <1>1, <1>3, ReachedSome
<1>4. CASE distorm_decompose
  <2>0. pc = "call" /\ input' = input /\ result' = result /\ at' = at
    BY <1>4 DEF distorm_decompose
  <2>1. result = <<>> /\ at = 0 /\ at + codeLen = Len(input.bytes)
    BY <2>0 DEF LoopInv, LoopCounts
  <2>2. CASE Finish("INPUTERR")
    BY <2>0, <2>2, ListsEnd DEF Finish
  <2>3. CASE ~Finish("INPUTERR")
    <3>1. input.dt \in Sizes
      BY <1>4, <2>3 DEF distorm_decompose, Sizes
    <3>2. Listable(input)
      BY <1>0, <3>1 DEF Listable
    <3>3. Reached(input, 0, <<>>)
      BY <3>2, ReachedFirst
    <3>4. (codeLen = 0 /\ Finish("SUCCESS")) \/ pc' = "loop"
      BY <1>4, <2>3 DEF distorm_decompose
    <3>5. CASE codeLen = 0 /\ Finish("SUCCESS")
      <4>1. Len(input.bytes) = 0
        BY <1>0, <2>1, <3>5
      <4>2. result' = Wanted(input, Listing(input))
        BY <2>0, <2>1, <3>2, <3>3, <4>1, ReachedAll
      <4> QED BY <2>0, <3>5, <4>2, ListsEnd DEF Finish
    <3>6. CASE pc' = "loop"
      BY <2>0, <2>1, <3>3, <3>6, ListsOn
    <3> QED BY <3>4, <3>5, <3>6
  <2> QED BY <2>2, <2>3
<1>5. CASE DropPrefixes
  <2> DEFINE w == Turn
             n == PrefixSize(w)
             b == Bytes(input, at, n)
  <2>1. /\ pc = "loop" /\ codeLen > 0 /\ OnlyPrefixes(w) /\ input' = input
        /\ IF ~FcOnly /\ ~Room(n)
           THEN Finish("MEMORYERR") /\ UNCHANGED <<at, codeLen, result, usedInstructionsCount>>
           ELSE /\ result' = IF FcOnly THEN result ELSE result \o b
                /\ IF w.codeLen = 0 THEN Finish("SUCCESS") /\ UNCHANGED at
                   ELSE at' = at + n /\ UNCHANGED <<pc, ret>>
    BY <1>5 DEF DropPrefixes
  <2>2. /\ at < Len(input.bytes) /\ EntriesFrom(input, at) = b
        /\ n \in Nat /\ w.codeLen = codeLen - n
    BY <1>2, <2>1 DEF Piece
  <2> HIDE DEF w, n, b
  <2>3. CASE ~FcOnly /\ ~Room(n)
    BY <1>3, <2>1, <2>3, ListsEnd DEF Finish
  <2>4. CASE ~(~FcOnly /\ ~Room(n))
    <3>0. EntriesFrom(input, at) = Bytes(input, at, n) /\ Listable(input) /\ Reached(input, at, result)
      BY <1>1, <2>1, <2>2 DEF b
    <3>1. Reached(input, at + n, IF Filtered(input) THEN result ELSE result \o Bytes(input, at, n))
      BY <1>0, <2>2, <3>0, ReachedBytes
    <3>2. Reached(input, at + n, result')
      BY <2>1, <2>4, <3>1 DEF FcOnly, b
    <3>3. CASE w.codeLen = 0
      <4>1. at + n = Len(input.bytes)
        BY <1>0, <1>1, <2>1, <2>2, <3>3
      <4>2. result' = Wanted(input, Listing(input))
        BY <3>0, <3>2, <4>1, ReachedAll
      <4> QED BY <2>1, <2>4, <3>3, <4>2, ListsEnd DEF Finish
    <3>4. CASE w.codeLen # 0
      BY <2>1, <2>4, <3>2, <3>4, ListsOn
    <3> QED BY <3>3, <3>4
  <2> QED BY <2>3, <2>4
<1>6. CASE NoRoom
  BY <1>3, <1>6, ListsEnd DEF NoRoom, Finish
<1>7. CASE Instruction
  <2> DEFINE w == Turn
             n == PrefixSize(w)
             d == decode_inst(w)
  <2>1. /\ pc = "loop" /\ codeLen > 0 /\ input' = input /\ ~OnlyPrefixes(w)
        /\ StoreInstruction(w, d) \/ DropInstruction(w, d)
    BY <1>7 DEF Instruction
  <2>2. /\ at < Len(input.bytes) /\ n \in Nat /\ Behind(codeLen, n, d)
        /\ Piece(input, at, codeLen, w, d, EntriesFrom(input, at))
    BY <1>2, <2>1
  <2>3. Listable(input) /\ Reached(input, at, result)
    BY <1>1, <2>1
  <2> HIDE DEF w, d, n
  <2>4. /\ DOMAIN d = EntryFields /\ d.size \in Nat \ {0} /\ (~d.decodable => d.size = 1 /\ d.fc = FC_NONE)
    BY <2>2 DEF Behind
  <2>5. CASE ~d.decodable
    <3> DEFINE k == n + 1
    <3>1. EntriesFrom(input, at) = Bytes(input, at, k) /\ k \in Nat
      BY <2>1, <2>2, <2>5 DEF Piece, n
    <3> HIDE DEF k
    <3>2. Reached(input, at + k, IF Filtered(input) THEN result ELSE result \o Bytes(input, at, k))
      BY <1>0, <2>2, <2>3, <3>1, ReachedBytes
    <3>3. CASE StoreInstruction(w, d)
      <4>1. FcOnly /\ d.fc = FC_NONE /\ result' = result /\ pc' = pc /\ Advanced(n, d.size)
        BY <2>4, <2>5, <3>3 DEF StoreInstruction, n
      <4>2. at' = at + n + d.size
        BY <4>1 DEF Advanced
      <4>3. at' = at + k
        BY <1>0, <2>2, <2>4, <2>5, <4>2 DEF k
      <4> QED BY <2>1, <3>2, <4>1, <4>3, ListsOn DEF FcOnly
    <3>4. CASE DropInstruction(w, d) /\ Room(n + 1)
      <4>1. ~FcOnly /\ result' = result \o Bytes(input, at, k) /\ pc' = pc /\ Advanced(n, 1)
        BY <3>4 DEF DropInstruction, n, k
      <4>2. at' = at + n + 1
        BY <4>1 DEF Advanced
      <4>3. at' = at + k
        BY <1>0, <2>2, <4>2 DEF k
      <4> QED BY <2>1, <3>2, <4>1, <4>3, ListsOn DEF FcOnly
    <3>5. CASE DropInstruction(w, d) /\ ~Room(n + 1)
      BY <1>3, <2>1, <3>5, ListsEnd DEF DropInstruction, Finish, n
    <3> QED BY <2>1, <3>3, <3>4, <3>5
  <2>6. CASE d.decodable
    <3> DEFINE x == Stored(input, at, w, d)
    <3>1. EntriesFrom(input, at) = <<x>>
      BY <2>1, <2>2, <2>6 DEF Piece
    <3>2. x.size = d.size + n /\ x.decodable = d.decodable /\ x.fc = d.fc
      BY <2>4, StoredFields DEF n
    <3> HIDE DEF x
    <3>3. x.size \in Nat /\ x.size = n + d.size
      BY <2>2, <2>4, <3>2
    <3>4. EndsAt(input, x) <=> Stops(input, d)
      BY <2>6, <3>2 DEF EndsAt, Stops
    <3>5. Flows(x) <=> d.fc # FC_NONE
      BY <2>6, <3>2 DEF Flows
    <3>6. StoreInstruction(w, d)
      BY <2>1, <2>6 DEF DropInstruction
    <3>7. Advanced(n, d.size)
      BY <3>6 DEF StoreInstruction, n
    <3>8. at' = at + x.size
      <4>1. at' = at + n + d.size
        BY <3>7 DEF Advanced
      <4> QED BY <1>0, <2>2, <2>4, <3>3, <4>1
    <3>9. Shows(input, result, x, result')
      BY <3>5, <3>6 DEF StoreInstruction, StoreEntry, FcOnly, Shows, x
    <3>10. IF EndsAt(input, x) THEN result' = Wanted(input, Listing(input))
           ELSE Reached(input, at + x.size, result')
      <4>1. Taken(input, at, x, result')
        BY <1>0, <2>2, <2>3, <3>1, <3>3, <3>9, ReachedEntry
      <4> QED BY <4>1 DEF Taken
    <3>11. CASE EndsAt(input, x)
      <4>1. ~(FcOnly /\ d.fc = FC_NONE)
        BY <3>4, <3>11 DEF Stops, StopOn, FC_NONE
      <4>2. Finish("SUCCESS")
        BY <3>4, <3>6, <3>11, <4>1 DEF StoreInstruction
      <4> QED BY <2>1, <3>10, <3>11, <4>2, ListsEnd DEF Finish
    <3>12. CASE ~EndsAt(input, x)
      <4>1. pc' = pc
        BY <3>4, <3>6, <3>12 DEF StoreInstruction
      <4> QED BY <2>1, <3>8, <3>10, <3>12, <4>1, ListsOn
    <3> QED BY <3>11, <3>12
  <2> QED BY <2>5, <2>6
<1>8. CASE OutOfCode
  <2>1. pc = "loop" /\ input' = input /\ result' = result /\ at + codeLen = Len(input.bytes) /\ codeLen <= 0
        /\ Finish("SUCCESS")
    BY <1>1, <1>8 DEF OutOfCode
  <2>2. at = Len(input.bytes)
    BY <1>0, <2>1
  <2>3. result' = Wanted(input, Listing(input))
    BY <1>1, <2>1, <2>2, ReachedAll
  <2> QED BY <2>1, <2>3, ListsEnd DEF Finish
<1>9. CASE UNCHANGED vars
  <2>1. input' = input /\ pc' = pc /\ at' = at /\ result' = result /\ ret' = ret
    BY <1>9 DEF vars
  <2>2. BeginsListing'
    BY <2>1 DEF LoopLists, BeginsListing, Done, Begins
  <2> QED BY <2>1, <2>2 DEF LoopLists
<1> QED BY <1>4, <1>5, <1>6, <1>7, <1>8, <1>9 DEF Next

(* Every result so far is the beginning of the listing of the code.        *)
THEOREM LoopListsHolds == Spec => []LoopLists
<1>1. Init => LoopLists
  BY DEF Init, LoopLists, BeginsListing, Done
<1> QED BY <1>1, ListsStep, LoopInvHolds, PTL DEF Spec

(* A call gives the listing of its code, whatever the filter, the stop     *)
(* features and the room are (decoder.c:390-604).                          *)
THEOREM ResultIsListingHolds == Spec => []ResultIsListing
<1>1. LoopInv => EntriesFit
  BY DEF LoopInv, LoopCounts, EntriesFit
<1>2. LoopInv => Tiles
  BY DEF LoopInv, LoopTiles, Tiling, Tiles, Covered
<1>3. LoopLists => BeginsListing
  BY DEF LoopLists
<1>4. LoopInv /\ LoopLists => ResultIsListing
  BY <1>1, <1>2, <1>3 DEF ResultIsListing
<1> QED BY <1>4, LoopInvHolds, LoopListsHolds, PTL
==============================================================================
