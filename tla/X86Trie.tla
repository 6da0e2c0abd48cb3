------------------------------ MODULE X86Trie ------------------------------
(***************************************************************************)
(* The walk of the database: every place of the trie that a lookup of      *)
(* distorm3.2-package/src/instructions.c can reach, with the lists it      *)
(* passes on the way, and what the decoder takes for granted of the row    *)
(* it finds there.  Nothing tests these; "the caller should worry about    *)
(* boundary checks and whether it accesses a last-level table"             *)
(* (instructions.c:93).                                                    *)
(***************************************************************************)
EXTENDS X86Operands

ListName == [t \in INT_LIST_GROUP..INT_LIST_PREFIXED |->
               <<"GROUP", "FULL", "DIVIDED", "PREFIXED">>[t - 2]]

(* How many nodes a list has: by REG, by a byte, by REG or a byte from     *)
(* 0xc0, by a mandatory prefix, with and without VEX.                      *)
ListSize == [l \in {"GROUP", "FULL", "DIVIDED", "PREFIXED"} |->
               CASE l = "GROUP" -> 8 [] l = "FULL" -> 256 [] l = "DIVIDED" -> 72 [] l = "PREFIXED" -> 12]

IsList(in) == INST_NODE_TYPE(in) >= INT_INFOS
ListOf(p) == ListName[INST_NODE_TYPE(p.node)]

(* The places below a place: the lists passed, the slot in the last one,   *)
(* and the list itself.                                                    *)
Below(p) ==
  {[lists |-> Append(p.lists, ListOf(p)), slot |-> s, list |-> p.node, node |-> Node(p.node, s)] :
     s \in 0..ListSize[ListOf(p)] - 1}
Deeper(places) == UNION {Below(p) : p \in {q \in places : IsList(q.node)}}

(* A lookup passes four lists at most. *)
Places ==
  LET one   == {[lists |-> <<"ROOT">>, slot |-> b, list |-> 0, node |-> Root(b)] : b \in 0..255}
      now   == {[lists |-> <<"3DNOW">>, slot |-> b, list |-> Table_0F_0F, node |-> Node(Table_0F_0F, b)] :
                  b \in 0..255}
      two   == Deeper(one)
      three == Deeper(two)
  IN  one \cup two \cup three \cup Deeper(three) \cup now

Leaves == {p \in Places : ~IsList(p.node) /\ p.node /= INT_NOTEXISTS}
RowAt(p) == Info(p.node)

(* The operands in the order of their extraction. *)
OperandTypes(r) == <<r.d, r.s, r.op3, r.op4>>

ModRMTypes == MemTypes \cup RmTypes \cup {"REG8", "REG16", "REG_FULL", "REG32", "REG32_64",
  "FREG32_64_RM", "MM", "MM_RM", "XMM", "XMM_RM", "CREG", "DREG", "SREG", "YXMM", "YMM", "WREG32_64"}
ByteTypes == (ImmTypes \ {"CONST1"}) \cup TargetTypes \cup MoffsTypes \cup {"XMM_IMM", "YXMM_IMM"}

-----------------------------------------------------------------------------
(* "You could go through 4 gates at top" (instructions.c:86): no walk      *)
(* passes more lists, and behind a list by prefix there is no other.       *)
WalksEnd ==
  \A p \in Places : IsList(p.node) => Len(p.lists) < 4 /\ p.lists[Len(p.lists)] /= "PREFIXED"

(* inst_get_info() may take the shorter structure for the longer one: only *)
(* rows of the longer have flags that make a reader look beyond the other  *)
(* (decoder.c:286-330, instructions.c:235).                                *)
ExtendedOnly ==
  \A p \in Leaves :
    RowAt(p).flags \cap {"USE_OP3", "USE_OP4", "USE_EXMNEMONIC", "USE_EXMNEMONIC2", "PRE_VEX"} /= {}
      => RowAt(p).kind = "INFOEX"

(* What VEX selects is never found without it, nor the other way round: it *)
(* is in the upper slots of lists by prefix and nowhere else; the slots    *)
(* for a form in memory are used if the row before asks for the ModR/M.    *)
VexApart ==
  \A p \in Leaves :
    LET last == p.lists[Len(p.lists)]
    IN  /\ "PRE_VEX" \in RowAt(p).flags <=> (last = "PREFIXED" /\ p.slot >= 4)
        /\ last = "PREFIXED" /\ p.slot >= 8 =>
             /\ Node(p.list, p.slot - 4) /= INT_NOTEXISTS
             /\ "MODRR_BASED" \in Info(Node(p.list, p.slot - 4)).flagsEx

(* The ModR/M byte is read once: by the lookup, which goes by its bits in  *)
(* some lists, or by decode_inst() (decoder.c:228).  The opcodes 0f 7a 30  *)
(* and 31 alone have operands of a ModR/M byte that nobody reads.          *)
ReadsModRM(p) == \E i \in DOMAIN p.lists : p.lists[i] \in {"GROUP", "DIVIDED"}
NeverRead == {p \in Leaves : p.list = Node(Root(15), 122)}
ModRMOnce ==
  \A p \in Leaves \ NeverRead :
    LET r == RowAt(p) IN
    /\ "MODRM_REQUIRED" \in r.flags =>
         ("MODRM_INCLUDED" \in r.flags <=> ReadsModRM(p) \/ "MODRR_BASED" \in r.flagsEx)
    /\ (\E n \in 1..4 : OperandTypes(r)[n] \in ModRMTypes) => "MODRM_REQUIRED" \in r.flags

(* The operands are read in the order of their bytes: SIB and displacement *)
(* come before any immediate; none follows one that is missing, and the    *)
(* third and the fourth are there when the flags say so (decoder.c:269).   *)
ReadInOrder ==
  \A p \in Leaves :
    LET r == RowAt(p)
        t == OperandTypes(r)
    IN  /\ \A n \in 1..4, m \in 1..4 : n < m =>
             /\ ~(t[n] \in ByteTypes /\ t[m] \in MemTypes \cup RmTypes)
             /\ t[n] \in {"NONE", "MEM_OPT"} => t[m] = "NONE"
        /\ r.op3 /= "NONE" <=> "USE_OP3" \in r.flags
        /\ r.op4 /= "NONE" <=> "USE_OP4" \in r.flags

(* An operand that is a segment register is told by a flag of the row.     *)
OneSegmentFlag ==
  \A p \in Leaves :
    (\E n \in 1..4 : OperandTypes(RowAt(p))[n] = "SEG") =>
      Cardinality(RowAt(p).flags \cap SEGOVRD) = 1

=============================================================================
