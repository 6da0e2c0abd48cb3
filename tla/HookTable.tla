----------------------------- MODULE HookTable ------------------------------
(***************************************************************************)
(* The dispatch tables of the VB6 virtual machine and the hooks that       *)
(* src/src/hook.c puts into them.                                          *)
(*                                                                         *)
(* The machine keeps six tables of 256 code pointers: table 0 is indexed   *)
(* by the first byte of an instruction, and the entries 0xfb..0xff of it   *)
(* (the lead entries) dispatch once more, through the tables 1..5, by the  *)
(* second byte.  A slot stands for one entry of one table.  The tracer     *)
(* copies every pointer (g_table_orig), writes a stub next to it           *)
(* (g_hook_data) that calls a pre-hook and jumps to the copied pointer,    *)
(* and stores the address of the stub in the table.                        *)
(*                                                                         *)
(* The operators below are the memory operations of hook.c; the module     *)
(* Tracer says which thread does them when.                                *)
(***************************************************************************)
EXTENDS Naturals, Sequences

CONSTANTS
  Tables,      (* 0..5: table 0 and the two-byte tables              *)
  Entries,     (* the indices of one table, 0..255                   *)
  Lead,        (* Lead[k]: the entry of table 0 that leads to k      *)
  Walk,        (* the slots in the order vb6_hook_ins visits them    *)
  Mnemonic,    (* Mnemonic[s]: the name in vb6_tables.c              *)
  NoMnemonic,  (* the NULL of an entry vb6_tables.c does not name    *)
  Hooks,       (* g_hooks: the mnemonics to hook, in order           *)
  NoTable      (* g_tables[k] before the table is found              *)

Slots == Tables \X Entries

TwoByte == Tables \ {0}

ASSUME TableAssumption ==
  /\ Tables \subseteq Nat
  /\ 0 \in Tables
  /\ NoTable \notin Tables
  /\ Lead \in [TwoByte -> Entries]
  /\ \A j, k \in TwoByte : Lead[j] = Lead[k] => j = k

(* vb6_hook_ins visits every entry of every table once. *)
ASSUME WalkAssumption ==
  /\ Walk \in Seq(Slots)
  /\ \A s \in Slots : \E p \in 1..Len(Walk) : Walk[p] = s
  /\ \A p, q \in 1..Len(Walk) : Walk[p] = Walk[q] => p = q

(* g_hooks names every mnemonic once, and none is NULL. *)
ASSUME HooksAssumption ==
  /\ Hooks \in Seq({Hooks[h] : h \in DOMAIN Hooks})
  /\ \A h \in 1..Len(Hooks) : Hooks[h] # NoMnemonic
  /\ \A h, i \in 1..Len(Hooks) : Hooks[h] = Hooks[i] => h = i

VARIABLES
  lut,         (* lut[s]: where the machine jumps for slot s         *)
  g_tables,    (* g_tables[k]: the table found for k                 *)
  saved,       (* g_table_orig[s]: the pointer copied for slot s     *)
  stub         (* g_hook_data: what the stub of slot s holds         *)

tableVars == <<lut, g_tables, saved, stub>>

(* Code pointers: the handler of the machine for a slot, the stub of the   *)
(* tracer for a slot, or the NULL that g_table_orig holds at first.        *)
Handler(s) == [kind |-> "handler", slot |-> s]
StubOf(s)  == [kind |-> "stub", slot |-> s]
NullPtr(s) == [kind |-> "null", slot |-> s]
Code == [kind : {"handler", "stub", "null"}, slot : Slots]

(* A stub is int3 bytes, is being written, or is ready: it then calls the  *)
(* pre-hook of g_hooks[pre], or _generic_pre when pre is 0, and jumps to   *)
(* orig.                                                                   *)
StubContents == [state : {"int3", "partial", "ready"},
                 pre : 0..Len(Hooks), orig : Code]

Leads == {<<0, Lead[k]>> : k \in TwoByte}

(* The instructions are the slots that do not lead to another table. *)
Insns == Slots \ Leads

(* The slot that the first byte of instruction i selects. *)
First(i) == IF i[1] = 0 THEN i ELSE <<0, Lead[i[1]]>>

TableInit ==
  /\ lut = [s \in Slots |-> Handler(s)]
  /\ g_tables = [k \in Tables |-> NoTable]
  /\ saved = [s \in Slots |-> NullPtr(s)]
  /\ stub = [s \in Slots |->
       [state |-> "int3", pre |-> 0, orig |-> NullPtr(s)]]

(* memset(g_hook_data, 0xcc, ...) *)
FillInt3 ==
  /\ stub' = [s \in Slots |-> [stub[s] EXCEPT !.state = "int3"]]
  /\ UNCHANGED <<lut, g_tables, saved>>

(* The table whose address the code at c jumps through: the scan for       *)
(* "jmp lookup_table[eax*4]" finds it in the handler of a lead slot.       *)
TableBehind(c) ==
  IF c.kind = "handler" /\ c.slot \in Leads
    THEN CHOOSE k \in TwoByte : <<0, Lead[k]>> = c.slot
    ELSE NoTable

(* Table 0 is found in ProcCallEngine, table k in the code that the live   *)
(* table 0 holds for the lead byte of k.                                   *)
FoundFor(k) == IF k = 0 THEN 0 ELSE TableBehind(lut[<<0, Lead[k]>>])

(* Mutant of Locate: the memcpy of the table is left out. *)
LocateNoCopy(k) ==
  /\ FoundFor(k) # NoTable
  /\ g_tables' = [g_tables EXCEPT ![k] = FoundFor(k)]
  /\ UNCHANGED <<lut, saved, stub>>

(* The pointers of the table are copied before any of them is redirected.  *)
Locate(k) ==
  /\ FoundFor(k) # NoTable
  /\ g_tables' = [g_tables EXCEPT ![k] = FoundFor(k)]
  /\ saved' = [s \in Slots |->
       IF s[1] = k THEN lut[<<FoundFor(k), s[2]>>] ELSE saved[s]]
  /\ UNCHANGED <<lut, stub>>

(* _vb6_set_pre_hook and _vb6_set_generic_pre_hook store the stub byte by  *)
(* byte: it is not executable between BeginStub and EndStub.               *)
BeginStub(s) ==
  /\ stub' = [stub EXCEPT ![s].state = "partial"]
  /\ UNCHANGED <<lut, g_tables, saved>>

(* Mutant of EndStub: g_table_orig[0][idx] whatever the table. *)
EndStubTable0(s, h) ==
  /\ stub' = [stub EXCEPT
       ![s] = [state |-> "ready", pre |-> h, orig |-> saved[<<0, s[2]>>]]]
  /\ UNCHANGED <<lut, g_tables, saved>>

EndStub(s, h) ==
  /\ stub' = [stub EXCEPT
       ![s] = [state |-> "ready", pre |-> h, orig |-> saved[s]]]
  /\ UNCHANGED <<lut, g_tables, saved>>

(* lut[idx] = g_hook_data[table_index][idx] *)
Redirect(s) ==
  /\ lut' = [lut EXCEPT ![<<g_tables[s[1]], s[2]>>] = StubOf(s)]
  /\ UNCHANGED <<g_tables, saved, stub>>

(* Pass 0 is vb6_hook_generic_table00, which takes the named entries of    *)
(* table 0; pass h is vb6_hook_ins for g_hooks[h], in all tables.          *)
Matches(h, s) ==
  IF h = 0
    THEN s[1] = 0 /\ Mnemonic[s] # NoMnemonic
    ELSE Mnemonic[s] = Hooks[h]
=============================================================================
