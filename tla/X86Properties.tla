--------------------------- MODULE X86Properties ---------------------------
(***************************************************************************)
(* What the disassembler promises to those who call it, for the code of an *)
(* input and for each instruction of the result.                           *)
(***************************************************************************)
EXTENDS X86Text, X86Trie, SequencesExt

(* How many bytes the first n entries of a sequence stand for. *)
Extents(entries) ==
  LET Upto[n \in 0..Len(entries)] == IF n = 0 THEN 0 ELSE Upto[n - 1] + entries[n].size
  IN  Upto
Extent(entries) == Extents(entries)[Len(entries)]

(* Those of the result, and the bytes of one of them; only without the     *)
(* filter, as that leaves gaps.                                            *)
Covered(n) == Extents(result)[n]
EntryBytes(i) == SubSeq(input.bytes, Covered(i - 1) + 1, Covered(i))

Instructions == {i \in DOMAIN result : result[i].decodable}
Done == pc = "done"

(* An instruction decoded from bytes of its own. *)
Whole(w, d) == [d EXCEPT !.size = @ + PrefixSize(w)]
AloneAt(w) == IF OnlyPrefixes(w) THEN Undecodable(w) ELSE Whole(w, decode_inst(w))
Alone(bytes) == AloneAt(TurnAt([input EXCEPT !.bytes = bytes], 0, Len(bytes)))

(* Two entries that say the same of what the processor would do. *)
Equivalent(d, e) ==
  /\ d.decodable = e.decodable /\ d.opcode = e.opcode /\ d.ops = e.ops /\ d.segment = e.segment
  /\ d.base = e.base /\ d.scale = e.scale /\ d.dispSize = e.dispSize /\ d.flags = e.flags

(* Positions in a piece of code where a prefix was read. *)
PrefixesOf(bytes) ==
  LET w == PrefixLoop(Fresh([input EXCEPT !.bytes = bytes], 0, Len(bytes))) IN 1..w.last

Without(bytes, drop) ==
  LET keep == SelectSeq([n \in DOMAIN bytes |-> n], LAMBDA n : n \notin drop)
  IN  [n \in DOMAIN keep |-> bytes[keep[n]]]

-----------------------------------------------------------------------------
(* The loop. *)

(* The entries follow one another without a gap or an overlap, each at the *)
(* address of its first byte, whatever mixture of instructions, dropped    *)
(* instructions and dropped prefixes they are.                             *)
Tiles ==
  FcOnly \/ /\ \A i \in DOMAIN result :
                 result[i].addr = Masked(input, input.codeOffset + Covered(i - 1))
            /\ pc = "loop" => Covered(Len(result)) = at

(* The caller's array has max entries: nothing is written after them, and  *)
(* the count that the caller sees is the number of entries written.        *)
EntriesFit == Len(result) <= input.max /\ usedInstructionsCount = Len(result)

(* With at least the 15 entries that distorm.h asks for (line 416), a call *)
(* that runs out of entries has nevertheless used some: a caller that goes *)
(* on after the last one makes progress.                                   *)
MemoryErrAfterProgress ==
  ret = "MEMORYERR" /\ input.max >= INST_MAXIMUM_SIZE => usedInstructionsCount > 0

(* The reference: the code as one sequence of entries, with no limit on    *)
(* their number, no filter and no early end.                               *)
EntriesAt(in, p, w, d) ==
  IF d.decodable THEN <<Stored(in, p, w, d)>> ELSE Bytes(in, p, PrefixSize(w) + 1)
ListedAt(in, p, w) ==
  IF OnlyPrefixes(w) THEN Bytes(in, p, PrefixSize(w)) ELSE EntriesAt(in, p, w, decode_inst(w))
Continued(entries, p, from) == entries \o from[p + Extent(entries)]
ListingFrom(in) ==
  LET n == Len(in.bytes)
      From[p \in 0..n] ==
        IF p = n THEN <<>> ELSE Continued(ListedAt(in, p, TurnAt(in, p, n - p)), p, From)
  IN  From
Listing(in) == ListingFrom(in)[0]

(* The entries that change the flow.                                       *)
Flows(d) == d.decodable /\ d.fc /= FC_NONE
FlowingTo(entries) ==
  LET Upto[n \in 0..Len(entries)] ==
        IF n = 0 THEN <<>>
        ELSE IF Flows(entries[n]) THEN Append(Upto[n - 1], entries[n]) ELSE Upto[n - 1]
  IN  Upto
Flowing(entries) == FlowingTo(entries)[Len(entries)]

(* The part of the reference a call should give: up to the first entry     *)
(* that ends it, and with the filter only what changes the flow.           *)
Wanted(in, listing) ==
  LET Ends(d) == d.decodable /\ Stops(in, d)
      stop == SelectInSeq(listing, Ends)
      all  == IF stop = 0 THEN listing ELSE SubSeq(listing, 1, stop)
  IN  IF Filtered(in) THEN Flowing(all) ELSE all

(* A filter, an early end or a full array never changes what the entries   *)
(* say: a successful call gives all that was wanted, one without enough    *)
(* entries the beginning of it.                                            *)
Begins(wanted) ==
  /\ ret = "SUCCESS" => result = wanted
  /\ ret = "MEMORYERR" => IsPrefix(result, wanted)
BeginsListing == Done /\ ret \in {"SUCCESS", "MEMORYERR"} => Begins(Wanted(input, Listing(input)))

(* The caller gets the listing of its code: the entries wanted, one after  *)
(* the other, and no more than its array holds (decoder.c:390-604).        *)
ResultIsListing == EntriesFit /\ Tiles /\ BeginsListing

(* nextOffset is where an entry begins or the last one ends, and what it   *)
(* leaves out at the end are lone prefixes, never an instruction: a caller *)
(* that continues there skips nothing.                                     *)
NextOffsetSkipsNothing ==
  Done /\ ~FcOnly /\ nextOffset /= -1 =>
    \E n \in 0..Len(result) :
      /\ nextOffset = input.codeOffset + Covered(n)
      /\ \A i \in n + 1 .. Len(result) : ~result[i].decodable

(* Every turn takes at least a byte off the code, of an instruction, of    *)
(* what is none or of lone prefixes, and none takes more than there are:   *)
(* so the loop ends, and its signed codeLen never steps over zero.         *)
TurnTakesBytes ==
  pc = "loop" /\ codeLen > 0 =>
    \E w \in {Turn} :
      PrefixSize(w) + (IF OnlyPrefixes(w) THEN 0 ELSE decode_inst(w).size) \in 1..codeLen

(* A caller may go on: the loop ends, a full array is one that was used,   *)
(* and no instruction is left out between one call and the next.           *)
CallerMayGoOn == TurnTakesBytes /\ MemoryErrAfterProgress /\ NextOffsetSkipsNothing

-----------------------------------------------------------------------------
(* An instruction. *)

(* No instruction is said to be longer than the code that is left.         *)
InsideCode == FcOnly \/ Covered(Len(result)) <= Len(input.bytes)

(* The two counters of a lookup, the position and the length left, are     *)
(* moved by hand at some forty places: they agree in the end.              *)
LengthAgrees ==
  FcOnly \/ \A i \in Instructions : result[i].left = Len(input.bytes) - Covered(i)

(* The bytes are counted right: an entry stands for the bytes it says, for *)
(* none past the end of the code, and whoever counts what is left agrees.  *)
BytesAccounted == InsideCode /\ LengthAgrees

SameEntry(d, e) == Equivalent(d, e) /\ d.size = e.size

(* What an entry says does not depend on the bytes after it: its own bytes *)
(* alone give the same entry.                                              *)
OwnBytesOnly ==
  Done /\ ~FcOnly => \A i \in Instructions :
    SameEntry(result[i], Alone(EntryBytes(i)))

(* The banks of registers in the order of the enumeration _RegisterType,   *)
(* with the sizes that their operands may have.                            *)
Banks == { <<0..15, {64}>>, <<16..31, {32}>>, <<32..47, {16}>>, <<48..67, {8}>>, <<68..73, {16}>>,
           <<75..82, {32}>>, <<83..90, {64}>>, <<91..106, {128}>>, <<107..122, {256}>>,
           <<123..REGISTERTORCLASS_SIZE - 1, {32, 64}>> }
LongRegisters == (0..15) \cup (24..31) \cup (40..47) \cup (56..67) \cup {R_RIP}
                   \cup (99..106) \cup (115..122)

(* An index computed from a base, three bits of ModR/M and a bit of REX or *)
(* VEX stays in the bank of its size: no reader of the register names ever *)
(* sees a register of another kind.                                        *)
RegisterSizes ==
  Done => \A i \in Instructions, n \in 1..4 :
    LET o == result[i].ops[n]
    IN  o.type = "REG" => \E b \in Banks : o.index \in b[1] /\ o.size \in b[2]

(* The registers that only 64 bits mode has are named in no other mode,    *)
(* even though VEX has the bits that would select them: by no address, and *)
(* by no operand but those of VEX.vvvv and of an immediate byte, which are *)
(* vector registers and taken as they are (instructions.c:246, 253).       *)
VectorRegister(o) == o.type = "REG" /\ o.size \in {128, 256}
NoLongRegisters ==
  Done /\ input.dt /= 64 => \A i \in Instructions :
    /\ result[i].base \notin LongRegisters
    /\ \A n \in 1..4 :
         LET o == result[i].ops[n]
         IN  o.type \in {"REG", "SMEM", "MEM"} /\ ~VectorRegister(o) => o.index \notin LongRegisters

-----------------------------------------------------------------------------
(* Prefixes. *)

(* LOCK is reported only for an instruction that writes to memory, where a *)
(* processor allows it.                                                    *)
LockOnlyMemory ==
  Done => \A i \in Instructions :
    "LOCK" \in result[i].flags => result[i].ops[1].type \in {"MEM", "SMEM", "DISP"}

(* di->segment is or-ed together in many places; it still holds one        *)
(* segment at most.                                                        *)
OneSegment ==
  Done => \A i \in Instructions : Cardinality(result[i].segment \cap SEGOVRD) <= 1

(* What a reader of the operands relies on: registers of the right bank    *)
(* that the mode has, one segment, and LOCK where there is something to    *)
(* write to.                                                               *)
OperandsRight == RegisterSizes /\ NoLongRegisters /\ OneSegment /\ LockOnlyMemory

(* Prefixes of different types, none in front of WAIT, REX last and in     *)
(* front of no VEX, and not 66 0f c2.                                      *)
Orderly(bytes) ==
  LET p    == PrefixesOf(bytes)
      type == [n \in p |-> TypeOf(bytes[n])]
      next == IF Len(bytes) > Cardinality(p) THEN bytes[Cardinality(p) + 1] ELSE 0
  IN  /\ IsInjective(type)
      /\ \A n \in p : type[n] = "REX" => n = Cardinality(p) /\ next \notin {VEX2, VEX3}
      /\ p /= {} => next /= INST_WAIT_INDEX
      /\ ~(\E n \in DOMAIN bytes : n + 1 \in DOMAIN bytes /\ bytes[n] = 15 /\ bytes[n + 1] = 194)

Marked(i) == {n + 1 : n \in result[i].unusedPrefixesMask}

(* unusedPrefixesMask (distorm.h line 244) tells the truth: leaving those  *)
(* prefixes out makes no difference to the instruction.                    *)
UnusedMakesNoDifference ==
  Done /\ ~FcOnly => \A i \in Instructions :
    Marked(i) /= {} /\ Orderly(EntryBytes(i)) =>
      Equivalent(result[i], Alone(Without(EntryBytes(i), Marked(i))))

(* What an entry says depends on no byte but those it uses: on none after  *)
(* it, and on none of the prefixes it reports as unused.                   *)
SelfContained == OwnBytesOnly /\ UnusedMakesNoDifference

(* prefix.c, line 142: "the last prefix of its type will be considered as  *)
(* used": of two segment prefixes the second one counts.                   *)
LastSegmentCounts ==
  Done /\ ~FcOnly => \A i \in Instructions :
    LET b    == EntryBytes(i)
        segs == {n \in PrefixesOf(b) : TypeOf(b[n]) = "SEG"}
    IN  segs /= {} => Equivalent(result[i], Alone(Without(b, segs \ {Max(segs)})))

-----------------------------------------------------------------------------
(* The text. *)

(* Every index of a name is the beginning of one: the opcode was computed  *)
(* from the row, from up to three names of it and from tables of offsets,  *)
(* and the registers from bases and bits (mnemonics.h, distorm.c:169).     *)
NamesExist ==
  Done => \A i \in Instructions :
    /\ result[i].opcode \in MnemonicStart
    /\ result[i].base /= R_NONE => Name(result[i].base) > 0
    /\ \A n \in 1..4 : LET o == result[i].ops[n]
                       IN  o.type \in {"REG", "SMEM", "MEM"} => Name(o.index) > 0

(* In 16 and 32 bits mode, the second of which the tracer uses, the texts  *)
(* of an instruction fit where they are put: the operands, with the worst  *)
(* values, into a _WString, and the bytes in hexadecimal into a _WString   *)
(* and into the hex[33] of x86dump.c:113.                                  *)
TextFits ==
  Done /\ input.dt /= 64 => \A i \in Instructions :
    /\ distorm_format(result[i], input.dt) < MAX_TEXT_SIZE
    /\ 2 * result[i].size < 33

(* The text is made of names that exist and fits.                          *)
TextRight == NamesExist /\ TextFits

(* Whatever call this is, the database keeps what the decoder takes for    *)
(* granted of it (the parts are in X86Trie).                               *)
TrieSound ==
  Done => WalksEnd /\ ExtendedOnly /\ VexApart /\ ModRMOnce /\ ReadInOrder /\ OneSegmentFlag
=============================================================================
