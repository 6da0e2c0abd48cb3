----------------------------- MODULE X86Prefix -----------------------------
(***************************************************************************)
(* The prefixes of an x86 instruction: distorm3.2-package/src/prefix.c.    *)
(*                                                                         *)
(* The C code passes three structures along: _CodeInfo (where to read),    *)
(* _PrefixState (what the prefixes said) and _DInst (the result).  Here    *)
(* they are one record w, the fields of which keep their names:            *)
(*   bytes, dt         the code and the decoding mode: 16, 32 or 64        *)
(*   code, codeLen     offset of the next byte to look at, bytes left      *)
(*   start, last       offsets of the first prefix and of the opcode       *)
(*   decodedPrefixes, usedPrefixes   sets of the names of INST_PRE_ flags  *)
(*   pfxIndexer        where the last prefix of each type is, or NoIndex   *)
(*   unusedPrefixesMask              a set of indices of prefixes          *)
(*   prefixExtType, vrex, rexPos, vexPos, vexV, isOpSizeMandatory          *)
(* Offsets count from 0; what follows the code in memory is read as 0.     *)
(***************************************************************************)
EXTENDS Integers, Sequences, FiniteSets, FiniteSetsExt, Functions

INST_MAXIMUM_SIZE == 15
INST_DIVIDED_MODRM == 192

Byte(w, at) == IF at < Len(w.bytes) THEN w.bytes[at + 1] ELSE 0

Bit(n, b) == (n \div 2^b) % 2 = 1

NoIndex == -1
PrefixTypes == {"REX", "LOREP", "SEG", "OP_SIZE", "ADRS"}

REX == 64..79
SegmentPrefix ==
  [b \in {46, 54, 62, 38, 100, 101} |->
     CASE b = 46  -> "PRE_CS" [] b = 54  -> "PRE_SS" [] b = 62 -> "PRE_DS"
       [] b = 38  -> "PRE_ES" [] b = 100 -> "PRE_FS" [] OTHER  -> "PRE_GS"]
LockRepPrefix ==
  [b \in {240, 242, 243} |->
     CASE b = 240 -> "PRE_LOCK" [] b = 242 -> "PRE_REPNZ" [] OTHER -> "PRE_REP"]
OpSize == 102
AddrSize == 103
VEX2 == 197
VEX3 == 196

SEGOVRD32 == {"PRE_CS", "PRE_SS", "PRE_DS", "PRE_ES"}
SEGOVRD64 == {"PRE_FS", "PRE_GS"}
SEGOVRD == SEGOVRD32 \cup SEGOVRD64
LOKREP == {"PRE_LOCK", "PRE_REPNZ", "PRE_REP"}

(* The bytes the loop of prefixes_decode() takes for a prefix. *)
LoopPrefix(b, dt) ==
  \/ b \in REX /\ dt = 64
  \/ b \in DOMAIN SegmentPrefix \cup DOMAIN LockRepPrefix \cup {OpSize, AddrSize}

(* The flag and the type of such a byte. *)
FlagOf(b) ==
  CASE b \in REX -> "PRE_REX" [] b = OpSize -> "PRE_OP_SIZE" [] b = AddrSize -> "PRE_ADDR_SIZE"
    [] b \in DOMAIN SegmentPrefix -> SegmentPrefix[b]
    [] OTHER -> LockRepPrefix[b]
TypeOf(b) ==
  CASE b \in REX -> "REX" [] b = OpSize -> "OP_SIZE" [] b = AddrSize -> "ADRS"
    [] b \in DOMAIN SegmentPrefix -> "SEG"
    [] OTHER -> "LOREP"

(* The VEX bytes may turn out to be LES or LDS. *)
prefixes_is_valid(b, dt) == LoopPrefix(b, dt) \/ b \in {VEX2, VEX3}

(* The last prefix of a type becomes an unused one. *)
prefixes_ignore(w, type) ==
  [w EXCEPT !.unusedPrefixesMask = @ \cup ({w.pfxIndexer[type]} \ {NoIndex})]

prefixes_ignore_all(w) ==
  [w EXCEPT !.unusedPrefixesMask = @ \cup (Range(w.pfxIndexer) \ {NoIndex})]

(* The types of which something was read and not used, or the reverse. *)
prefixes_set_unused_mask(w) ==
  LET diff == (w.decodedPrefixes \ w.usedPrefixes) \cup (w.usedPrefixes \ w.decodedPrefixes)
      off  == (IF "PRE_REX" \in diff THEN {"REX"} ELSE {})
                \cup (IF SEGOVRD \cap diff /= {} THEN {"SEG"} ELSE {})
                \cup (IF LOKREP \cap diff /= {} THEN {"LOREP"} ELSE {})
                \cup (IF "PRE_OP_SIZE" \in diff THEN {"OP_SIZE"} ELSE {})
                \cup (IF "PRE_ADDR_SIZE" \in diff THEN {"ADRS"} ELSE {})
  IN  w.unusedPrefixesMask \cup ({w.pfxIndexer[t] : t \in off} \ {NoIndex})

-----------------------------------------------------------------------------
(* How many bytes the loop takes. *)
LoopCount(w) ==
  LET Runs == {n \in 0 .. INST_MAXIMUM_SIZE :
                 n <= w.codeLen /\ \A i \in 0..n - 1 : LoopPrefix(Byte(w, w.start + i), w.dt)}
  IN  Max(Runs)

(* The loop: every prefix is noted, and of each type the last is remembered *)
(* (prefixes_track_unused marks the one before as unused).                  *)
PrefixLoop(w) ==
  LET n        == LoopCount(w)
      At(i)    == Byte(w, w.start + i)
      Of(type) == {i \in 0..n - 1 : TypeOf(At(i)) = type}
      last     == [t \in PrefixTypes |-> IF Of(t) = {} THEN NoIndex ELSE Max(Of(t))]
  IN  [w EXCEPT
         !.decodedPrefixes = {FlagOf(At(i)) : i \in 0..n - 1},
         !.pfxIndexer = last,
         !.unusedPrefixesMask = (0..n - 1) \ Range(last),
         !.prefixExtType = IF last["REX"] = NoIndex THEN "NONE" ELSE "REX",
         !.rexPos = w.start + last["REX"],
         !.vrex = IF last["REX"] = NoIndex THEN {}
                  ELSE LET rex == At(last["REX"])
                       IN  {f \in {"B", "X", "R", "W"} :
                              Bit(rex, CASE f = "B" -> 0 [] f = "X" -> 1 [] f = "R" -> 2 [] f = "W" -> 3)},
         !.last = w.start + n, !.codeLen = @ - n]

(* The VEX forms take their bytes when the code is long enough and, outside *)
(* 64 bits mode, the second one cannot be a memory ModR/M.                  *)
VexFits(w, size, first) ==
  /\ w.codeLen >= size
  /\ Byte(w, w.last) = first
  /\ w.last - w.start <= INST_MAXIMUM_SIZE - size
  /\ w.dt = 64 \/ Byte(w, w.last + 1) >= INST_DIVIDED_MODRM

Vex2(w) ==
  LET vex == Byte(w, w.last + 1)
  IN  [w EXCEPT !.decodedPrefixes = @ \cup {"PRE_VEX"}, !.prefixExtType = "VEX2",
                !.vexPos = w.last + 1, !.last = @ + 2,
                !.vrex = @ \cup (IF ~Bit(vex, 7) /\ w.dt = 64 THEN {"R"} ELSE {})
                           \cup (IF Bit(vex, 2) THEN {"L"} ELSE {})]

Vex3(w) ==
  LET vex  == Byte(w, w.last + 1)
      vex2 == Byte(w, w.last + 2)
      all  == w.vrex \cup {f \in {"B", "X", "R"} :
                             ~Bit(vex, CASE f = "B" -> 5 [] f = "X" -> 6 [] f = "R" -> 7)}
                     \cup (IF Bit(vex2, 2) THEN {"L"} ELSE {})
                     \cup (IF Bit(vex2, 7) THEN {"W"} ELSE {})
  IN  [w EXCEPT !.decodedPrefixes = @ \cup {"PRE_VEX"}, !.prefixExtType = "VEX3",
                !.vexPos = w.last + 1, !.last = @ + 3,
                !.vrex = IF w.dt = 64 THEN all ELSE all \ {"B", "X", "R", "W"}]

TryVex2(w) == IF VexFits(w, 2, VEX2) THEN Vex2(w) ELSE w
TryVex3(w) == IF "PRE_VEX" \notin w.decodedPrefixes /\ VexFits(w, 3, VEX3) THEN Vex3(w) ELSE w

(* codeLen is the callee's copy: the caller takes the prefixes off again. *)
prefixes_decode(w) == [TryVex3(TryVex2(PrefixLoop(w))) EXCEPT !.codeLen = w.codeLen]

-----------------------------------------------------------------------------
(* The segment of a memory operand: a set that holds the flag of the       *)
(* segment (di->segment is or-ed together), "DEFAULT", or "NONE".          *)
prefixes_use_segment(w, defaultSeg) ==
  LET read  == w.decodedPrefixes \cap (IF w.dt = 64 THEN SEGOVRD64 ELSE SEGOVRD)
      plain == read \in {{}, {defaultSeg}}
      seg   == IF plain THEN {defaultSeg} ELSE read
      set   == w.segment \cup (IF plain THEN {"DEFAULT"} ELSE {})
                 \cup (IF Cardinality(seg) = 1 THEN seg ELSE {})
  IN  [w EXCEPT
         !.usedPrefixes = IF plain THEN @ ELSE @ \cup read,
         !.segment = IF w.dt = 64 /\ seg \cap SEGOVRD32 /= {} THEN {"NONE"} ELSE set]
=============================================================================
