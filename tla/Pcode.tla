------------------------------- MODULE Pcode -------------------------------
(***************************************************************************)
(* The readers of the opcode tables: vb6_hook_ins (src/src/hook.c) looks a *)
(* mnemonic up to place a hook, the pre-hooks of src/src/insns.c read the  *)
(* operands behind the opcode, _generic_pre (src/src/main.c) looks up the  *)
(* name of what is executed, and vb6_disasm (src/src/disasm.c) the name    *)
(* and the length of what is found in memory.                              *)
(*                                                                         *)
(* A behaviour installs the hooks, one table at a time and without other   *)
(* threads (their interleaving is the module Tracer's), and then lets the  *)
(* machine execute one instruction.  An instruction is its first two       *)
(* bytes.  A line is the name printed, the positions of the stream that    *)
(* are loaded to print it and those among them that what it says depends   *)
(* on.  The words taken from the machine's stack are left out, and so is   *)
(* what native() and x86dump() add, which the module Native models.        *)
(***************************************************************************)
EXTENDS PcodeTables, FiniteSets

CONSTANTS
  Modes,     (* which line of DllMain is compiled in: "specific", "generic" *)
  Codes      (* the instructions the machine may come to                    *)

ASSUME PcodeAssumption ==
  /\ Modes \subseteq {"specific", "generic"}
  /\ Codes \subseteq (0..255) \X (0..255)

VARIABLES
  mode,
  pc,        (* "hook", "vm", "ran"; "exit": exit(1) in vb6_set_hooks  *)
  h, k,      (* the hook and the table vb6_hook_ins is at              *)
  ret,       (* its count                                              *)
  hooked,    (* the entries redirected: table, index and hook          *)
  raw,       (* the instruction executed                               *)
  null,      (* whether its string argument, esp[1], is a null pointer *)
  lines      (* the lines its hooks logged                             *)

vars == <<mode, pc, h, k, ret, hooked, raw, null, lines>>

g_hooks ==
  <<"OpenFile", "FnLenStr", "ConcatStr", "ConcatVar", "EqStr", "NeStr", "LitStr", "MemLdStr",
    "ImpAdCallFPR4", "ImpAdCallI2", "VCallHresult", "ThisVCallHresult", "ImpAdCallCbFrame",
    "FnInStr4", "FnInStr4Var", "CStr2Uni", "CStr2Ansi", "CVarStr", "IStStr", "FStStr",
    "FMemStStr", "FStStrCopy", "MemStStrCopy", "XorVar", "LitI4", "LitI2_Byte", "LitVarI2">>

\* A 16-bit value, at index i of an array of them.
Word16(i) == {2 * i, 2 * i + 1}

\* The bytes behind esi that the line of a pre-hook depends on.
\* (LitI2_Byte prints the low byte of what it loads, sign-extended.)
OperandBytes(name) ==
  CASE name \in {"ImpAdCallFPR4", "ImpAdCallI2", "VCallHresult",
                 "ThisVCallHresult", "LitStr"} -> Word16(0)
    [] name \in {"ImpAdCallCbFrame", "LitVarI2"} -> Word16(1)
    [] name = "LitI4"      -> 0..3
    [] name = "LitI2_Byte" -> {0}
    [] OTHER               -> {}

\* The bytes it loads: esi is a uint32_t *, so that *esi is a whole word.
LoadedBytes(name) == IF name = "LitI2_Byte" THEN 0..3 ELSE OperandBytes(name)

\* The name in the format of its REPORT, for three hooks not their own.
Printed(name) ==
  CASE name = "ConcatVar"     -> "VarCat"
    [] name = "ImpAdCallFPR4" -> "ImpAdCallI2"
    [] name = "FStStrCopy"    -> "FStSTrCopy"
    [] OTHER                  -> name

LeadBytes == 251..255

(* What the hooks take for granted of the tables: no name is asked for     *)
(* twice, each is in some table (src/src/insns.c:233) but at no entry that *)
(* leads to another one, and what the line of a hook depends on lies       *)
(* inside every instruction of that name.  A length counts the opcode, but *)
(* no lead byte.                                                           *)
ASSUME TablesAssumption ==
  /\ \A t \in 0..5, i \in 0..255 : vb6_tables[t][i].length \in Int
  /\ \A m, n \in DOMAIN g_hooks : g_hooks[m] = g_hooks[n] => m = n
  /\ \A n \in DOMAIN g_hooks : \E t \in 0..5, i \in 0..255 : vb6_tables[t][i].mnemonic = g_hooks[n]
  /\ \A i \in LeadBytes, n \in DOMAIN g_hooks : vb6_tables[0][i].mnemonic # g_hooks[n]
  /\ \A t \in 0..5, i \in 0..255, n \in DOMAIN g_hooks : vb6_tables[t][i].mnemonic = g_hooks[n] =>
       \A b \in OperandBytes(g_hooks[n]) : b + 1 < vb6_tables[t][i].length

Init ==
  /\ mode \in Modes /\ pc = "hook"
  /\ h = 1 /\ k = 0 /\ ret = 0
  /\ hooked = {} /\ raw = <<>> /\ null = FALSE /\ lines = <<>>

\* The entries of table t with the mnemonic.
_vb6_hooks_ins(name, t) == {i \in 0..255 : vb6_tables[t][i].mnemonic = name}

\* One table of vb6_hook_ins.
HookIn ==
  /\ pc = "hook" /\ mode = "specific" /\ k <= 5
  /\ \E found \in {_vb6_hooks_ins(g_hooks[h], k)} :
       /\ hooked' = hooked \cup {<<k, i, h>> : i \in found}
       /\ ret' = ret + Cardinality(found)
  /\ k' = k + 1
  /\ UNCHANGED <<mode, pc, h, raw, null, lines>>

\* vb6_set_hooks after the last table: the next hook, or exit(1).
NextHook ==
  /\ pc = "hook" /\ mode = "specific" /\ k > 5
  /\ pc' = IF ret = 0 THEN "exit" ELSE IF h = Len(g_hooks) THEN "vm" ELSE "hook"
  /\ h' = h + 1 /\ k' = 0 /\ ret' = 0
  /\ UNCHANGED <<mode, hooked, raw, null, lines>>

HookGeneric ==
  /\ pc = "hook" /\ mode = "generic" /\ pc' = "vm"
  /\ hooked' = {<<0, i, 0>> : i \in {i \in 0..255 : vb6_tables[0][i].mnemonic # NULL}}
  /\ UNCHANGED <<mode, h, k, ret, raw, null, lines>>

\* The line of _generic_pre: eax holds the first byte, esi points behind it.
\* Of the word at esi it uses the low byte (*esi & 0xff).
_generic_pre(eax, code, esi) ==
  IF eax \in LeadBytes
    THEN [name |-> vb6_tables[eax - 250][code[esi + 1]].mnemonic, loads |-> esi..(esi + 3), uses |-> {esi}]
    ELSE [name |-> vb6_tables[0][eax].mnemonic, loads |-> {}, uses |-> {}]

(* Mutant of _pre: as if esi still pointed to the opcode. *)
_preBehind(name, esi) ==
  [name  |-> Printed(name),
   loads |-> {esi + 1 + b : b \in LoadedBytes(name)},
   uses  |-> {esi + 1 + b : b \in OperandBytes(name)}]

\* The line of a pre-hook.
_pre(name, esi) ==
  [name  |-> Printed(name),
   loads |-> {esi + b : b \in LoadedBytes(name)},
   uses  |-> {esi + b : b \in OperandBytes(name)}]

\* CStr2Uni has nothing to say of a null pointer.
Silent(name, nothing) == name = "CStr2Uni" /\ nothing

\* The lines the stub of an entry logs.
LinesAt(t, i, code, esi, nothing) ==
  LET hooks == {e \in hooked : /\ e[1] = t /\ e[2] = i
                               /\ ~(e[3] # 0 /\ Silent(g_hooks[e[3]], nothing))}
      line(e) == IF e[3] = 0 THEN _generic_pre(i, code, esi) ELSE _pre(g_hooks[e[3]], esi)
  IN  IF hooks = {} THEN <<>> ELSE <<line(CHOOSE e \in hooks : TRUE)>>

\* The machine: the first byte selects an entry of table 0, behind a lead
\* byte the second one an entry of another table.
Execute(code, nothing) ==
  /\ pc = "vm" /\ pc' = "ran" /\ raw' = code /\ null' = nothing
  /\ lines' = LinesAt(0, code[1], code, 1, nothing) \o
              (IF code[1] \in LeadBytes THEN LinesAt(code[1] - 250, code[2], code, 2, nothing) ELSE <<>>)
  /\ UNCHANGED <<mode, h, k, ret, hooked>>

Next == HookIn \/ NextHook \/ HookGeneric \/ \E code \in Codes, nothing \in BOOLEAN : Execute(code, nothing)

Spec == Init /\ [][Next]_vars

-----------------------------------------------------------------------------
(* Mutant of vb6_disasm: without the --raw of the default case. *)
vb6_disasmBehind(code) ==
  IF code[1] \in LeadBytes THEN vb6_tables[code[1] - 250][code[2]] ELSE vb6_tables[0][code[2]]

\* The name and the length vb6_disasm gives; the length does not count a lead
\* byte.
vb6_disasm(code) ==
  IF code[1] \in LeadBytes THEN vb6_tables[code[1] - 250][code[2]] ELSE vb6_tables[0][code[1]]

-----------------------------------------------------------------------------
(* The instructions whose lines have another name.  The one of             *)
(* ImpAdCallFPR4 cannot be told from those of ImpAdCallI2.                 *)
OtherNames ==
  {<<"ConcatVar", "VarCat">>, <<"ImpAdCallFPR4", "ImpAdCallI2">>, <<"FStStrCopy", "FStSTrCopy">>}

\* The readers agree: an instruction is logged once and by the name that
\* vb6_disasm gives its bytes, except for the three OtherNames, of the
\* specific hooks only.  The generic hook logs every one whose first byte has
\* a name, the specific ones exactly those that g_hooks asks for, in
\* whichever table they are (src/src/main.c:48, src/src/hook.c:152,
\* src/src/disasm.c:34, src/src/insns.c:48, 54 and 162).
NamesAgree ==
  pc = "ran" =>
    LET name   == vb6_disasm(raw).mnemonic
        wanted == IF mode = "generic" THEN vb6_tables[0][raw[1]].mnemonic # NULL
                                      ELSE (\E n \in DOMAIN g_hooks : g_hooks[n] = name) /\ ~Silent(name, null)
    IN  /\ Len(lines) = IF wanted THEN 1 ELSE 0
        /\ \A n \in DOMAIN lines :
             lines[n].name = name \/ (mode = "specific" /\ <<name, lines[n].name>> \in OtherNames)

\* The hooks fit the tables: each of them finds an entry, so that
\* vb6_set_hooks never ends the traced program (src/src/insns.c:233); what a
\* line depends on behind esi belongs to the instruction it is about, in
\* every table in which the mnemonic occurs, never to the one after it; and
\* so does all that is loaded for it, but for the two hooks that take one
\* byte through a uint32_t * (src/src/insns.c:182, src/src/main.c:50), which
\* load the word at esi and no further.
HooksFitTables ==
  /\ pc # "exit"
  /\ pc = "ran" =>
       LET opcode    == IF raw[1] \in LeadBytes THEN 1 ELSE 0
           Inside(r) == r <= opcode \/ r <= opcode + vb6_disasm(raw).length - 1
       IN  \A n \in DOMAIN lines :
             /\ \A r \in lines[n].uses : Inside(r)
             /\ \A r \in lines[n].loads :
                  \/ Inside(r)
                  \/ mode = "specific" /\ lines[n].name = "LitI2_Byte" /\ r <= opcode + 4
                  \/ mode = "generic" /\ r <= opcode + 3
=============================================================================
