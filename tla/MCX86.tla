------------------------------- MODULE MCX86 -------------------------------
(***************************************************************************)
(* Calls of the disassembler: every opcode, alone and with what may follow *)
(* it; prefixes in front of all opcodes; code of several pieces.           *)
(***************************************************************************)
EXTENDS X86Properties

Call(bytes, dt, max, features, offset) ==
  [bytes |-> bytes, dt |-> dt, max |-> max, features |-> features, codeOffset |-> offset]
Modes == {16, 32, 64}

(* Every opcode of one, two and three bytes, and a part of those of VEX. *)
OneByteOps == {<<b>> : b \in 0..255}
TwoByteOps == {<<15, b>> : b \in 0..255}
ThreeByteOps == {<<15, e, b>> : e \in {15, 56, 58}, b \in 0..255}
VexOps == {v \o <<b>> : v \in {<<VEX2, 193>>, <<VEX2, 253>>} \cup ({VEX3} \X {225, 194, 195} \X {49, 121, 253}),
                      b \in 0..255}
Tails == { <<3, 18, 52, 1, 2, 3, 4, 5>>, <<193, 1, 2, 3, 4>> }
LoneTails == Tails \cup { <<5, 1, 2, 3, 4, 5, 6, 7, 8, 9>>, <<>>, <<0>>, <<193, 18, 52>>, <<68, 36, 1, 2, 3, 4, 5>>,
                          <<132, 136, 1, 2, 3, 4, 5>> }

(* Prefixes of all types in front of instructions that mind them. *)
PrefixRuns == {a \o b \o c \o d \o r : a \in {<<>>, <<46>>, <<100>>}, b \in {<<>>, <<240>>, <<242>>, <<243>>},
                                       c \in {<<>>, <<102>>}, d \in {<<>>, <<103>>},
                                       r \in {<<>>, <<72>>, <<77>>}}
PrefixedOps ==
  { <<1, 8>>, <<1, 200>>, <<139, 4>>, <<139, 69, 1>>, <<139, 4, 37, 1, 2, 3, 4>>, <<164>>, <<166>>, <<144>>,
    <<141, 3>>, <<80>>, <<232, 1, 2, 3, 4>>, <<227, 1>>, <<15, 88, 2>>, <<15, 184, 193>>, <<99, 193>>,
    <<160, 1, 2, 3, 4, 5, 6, 7, 8>>, <<184, 1, 2, 3, 4, 5, 6, 7, 8>>, <<15, 32, 192>>, <<15, 199, 8>>,
    <<15, 56, 240, 1>>, <<15, 58, 15, 193, 3>>, <<15, 15, 193, 158>>, <<VEX2, 240, 88, 194>>,
    <<VEX3, 225, 112, 88, 194>>, <<108>>, <<215>>, <<15, 177, 8>>, <<142, 216>>, <<255, 32>> }

(* Code of several pieces: instructions that change the flow or do not, a  *)
(* byte that is none, lone prefixes, and as many of them as there can be.  *)
Repeat(n, b) == [i \in 1..n |-> b]
Pieces == { <<144>>, <<102>>, <<46, 15, 255>>, <<15>>, <<195>>, <<243, 116, 5>>, <<232, 1, 2, 3, 4>>,
            Repeat(14, 102), Repeat(15, 102), <<155>>, <<205, 3>> }
Code == UNION {Pieces, {a \o b : a \in Pieces, b \in Pieces},
               {a \o b \o c : a \in Pieces, b \in {<<144>>, <<46, 15, 255>>, Repeat(15, 102)}, c \in Pieces}}
Features == { {}, {"RETURN_FC_ONLY"}, {"STOP_ON_RET", "STOP_ON_INT"},
              {"RETURN_FC_ONLY", "STOP_ON_CALL", "STOP_ON_CND_BRANCH"} }

MCInputs ==
  {{Call(o \o t, dt, 15, {}, 0) : o \in OneByteOps \cup TwoByteOps, t \in LoneTails, dt \in Modes},
   {Call(o \o t, dt, 15, {}, 0) : o \in ThreeByteOps, t \in Tails, dt \in Modes},
   {Call(o \o t, dt, 15, {}, 0) : o \in VexOps, t \in Tails, dt \in Modes},
   {Call(p \o o, dt, 15, {}, 0) : p \in PrefixRuns, o \in PrefixedOps, dt \in Modes},
   {Call(<<p>> \o o \o <<4, 1, 2, 3, 4, 5, 6, 7, 8>>, dt, 15, {}, 0) :
      p \in {46, 240, 242, 243, 102, 103, 72}, o \in OneByteOps \cup TwoByteOps, dt \in Modes},
   {Call(c, 32, m, f, 0) : c \in Code, m \in {1, 2, 15}, f \in Features},
   {Call(c, 64, m, {"MAXIMUM_ADDR16"}, 65533) : c \in Code, m \in {3, 16}},
   {Call(<<144>>, 32, 1, {"MAXIMUM_ADDR16", "MAXIMUM_ADDR32"}, 0),
    Call(<<144>>, 8, 1, {}, 0), Call(<<>>, 16, 1, {}, 0)}}
=============================================================================
