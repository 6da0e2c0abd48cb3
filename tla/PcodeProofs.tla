---------------------------- MODULE PcodeProofs -----------------------------
(***************************************************************************)
(* Proofs about the readers of the opcode tables.  Of the tables only what *)
(* TablesAssumption says is used; the instructions are any pairs of bytes. *)
(* The argument is about vb6_hook_ins: after the hooks before h, and hook  *)
(* h in the tables before k, exactly the entries they ask for are          *)
(* redirected, each of them once, as g_hooks has no name twice.            *)
(***************************************************************************)
EXTENDS Pcode, FiniteSetTheorems, TLAPS

(* The entries g_hooks asks for, with the hook that does, and those of the *)
(* hooks and tables the loops have been through.                           *)
Asked ==
  {e \in (0..5) \X (0..255) \X DOMAIN g_hooks : vb6_tables[e[1]][e[2]].mnemonic = g_hooks[e[3]]}
Passed(e, n, t) == e[3] < n \/ (e[3] = n /\ e[1] < t)
Placed(n, t) == {e \in Asked : Passed(e, n, t)}

(* What the line of DllMain with the generic hook asks for.                *)
Named == {<<0, i, 0>> : i \in {i \in 0..255 : vb6_tables[0][i].mnemonic # NULL}}

(* The lines of the instruction executed.                                  *)
Logged ==
  LinesAt(0, raw[1], raw, 1, null) \o
  (IF raw[1] \in LeadBytes THEN LinesAt(raw[1] - 250, raw[2], raw, 2, null) ELSE <<>>)

LoopAt ==
  /\ mode \in {"specific", "generic"} /\ pc \in {"hook", "vm", "ran"}
  /\ mode = "specific" /\ pc = "hook" => h \in DOMAIN g_hooks /\ k \in 0..6 /\ ret \in Nat
GenericPlaced == mode = "generic" => hooked = IF pc = "hook" THEN {} ELSE Named
SpecificPlaced == mode = "specific" => hooked = IF pc = "hook" THEN Placed(h, k) ELSE Asked
(* vb6_set_hooks counts what vb6_hook_ins finds: an entry of the hook it   *)
(* is at is one that is counted.                                           *)
Counted == mode = "specific" /\ pc = "hook" /\ (\E e \in hooked : e[3] = h) => ret > 0
LineLogged == pc = "ran" => raw \in (0..255) \X (0..255) /\ null \in BOOLEAN /\ lines = Logged

PcodeInv == LoopAt /\ GenericPlaced /\ SpecificPlaced /\ Counted /\ LineLogged

-----------------------------------------------------------------------------
(* The tables. *)

(* g_hooks has a first name and a last one.                                *)
LEMMA HooksDomain == Len(g_hooks) \in Nat /\ Len(g_hooks) > 0 /\ DOMAIN g_hooks = 1..Len(g_hooks)
  BY DEF g_hooks

LEMMA OperandsBehind ==
  ASSUME NEW name
  PROVE  /\ \A b \in OperandBytes(name) : b \in Int
         /\ \A b \in LoadedBytes(name) : b \in OperandBytes(name) \/ (name = "LitI2_Byte" /\ b \in 0..3)
  BY DEF OperandBytes, LoadedBytes, Word16

(* A line has the name of its hook, or one of the three others.            *)
LEMMA PrintedName ==
  ASSUME NEW name
  PROVE  /\ Printed(name) = name \/ <<name, Printed(name)>> \in OtherNames
         /\ name = "LitI2_Byte" => Printed(name) = name
  BY DEF Printed, OtherNames

(* What the search of one table finds is counted.                          *)
LEMMA FoundCounted ==
  ASSUME NEW name, NEW t
  PROVE  /\ _vb6_hooks_ins(name, t) \in SUBSET (0..255)
         /\ Cardinality(_vb6_hooks_ins(name, t)) \in Nat
         /\ \A i \in _vb6_hooks_ins(name, t) : Cardinality(_vb6_hooks_ins(name, t)) > 0
PROOF
<1> DEFINE found == _vb6_hooks_ins(name, t)
<1>1. found \in SUBSET (0..255)
  BY DEF _vb6_hooks_ins
<1> HIDE DEF found
<1>2. IsFiniteSet(0..255)
  <2>1. \A a, b \in Int : IsFiniteSet(a..b)
    BY FS_Interval
  <2>2. 0 \in Int /\ 255 \in Int
    OBVIOUS
  <2> QED
    BY <2>1, <2>2, Zenon
<1>3. IsFiniteSet(found)
  BY <1>1, <1>2, FS_Subset
<1>4. Cardinality(found) \in Nat
  BY <1>3, FS_CardinalityType
<1>5. Cardinality(found) = 0 <=> found = {}
  BY <1>3, FS_EmptySet
<1>6. \A i \in found : Cardinality(found) > 0
  BY <1>4, <1>5
<1> QED
  BY <1>1, <1>4, <1>6 DEF found

(* What the two loops have placed, before the first table of the first     *)
(* hook, from one table to the next, from one hook to the next, at the end.*)
LEMMA PlacedFirst == Placed(1, 0) = {}
  BY HooksDomain DEF Placed, Passed, Asked

LEMMA PlacedTable ==
  ASSUME NEW n \in DOMAIN g_hooks, NEW t \in 0..5
  PROVE  Placed(n, t + 1) = Placed(n, t) \cup {<<t, i, n>> : i \in _vb6_hooks_ins(g_hooks[n], t)}
PROOF
<1> DEFINE new == {<<t, i, n>> : i \in _vb6_hooks_ins(g_hooks[n], t)}
<1>1. ASSUME NEW e \in Placed(n, t + 1) PROVE e \in Placed(n, t) \cup new
  <2>1. /\ e \in Asked /\ e[1] \in 0..5 /\ e[2] \in 0..255 /\ e[3] \in DOMAIN g_hooks
        /\ e = <<e[1], e[2], e[3]>> /\ vb6_tables[e[1]][e[2]].mnemonic = g_hooks[e[3]]
        /\ e[3] < n \/ (e[3] = n /\ e[1] < t + 1)
    BY DEF Placed, Passed, Asked
  <2>2. CASE e[3] = n /\ e[1] = t
    <3>1. e[2] \in _vb6_hooks_ins(g_hooks[n], t)
      BY <2>1, <2>2 DEF _vb6_hooks_ins
    <3> QED
      BY <2>1, <2>2, <3>1
  <2>3. CASE ~(e[3] = n /\ e[1] = t)
    BY <2>1, <2>3, HooksDomain DEF Placed, Passed
  <2> QED
    BY <2>2, <2>3
<1>2. ASSUME NEW e \in Placed(n, t) PROVE e \in Placed(n, t + 1)
  <2>1. /\ e \in Asked /\ e[1] \in 0..5 /\ e[3] \in DOMAIN g_hooks
        /\ e[3] < n \/ (e[3] = n /\ e[1] < t)
    BY DEF Placed, Passed, Asked
  <2> QED
    BY <2>1, HooksDomain DEF Placed, Passed
<1>3. ASSUME NEW i \in _vb6_hooks_ins(g_hooks[n], t) PROVE <<t, i, n>> \in Placed(n, t + 1)
  BY <1>3, HooksDomain DEF Placed, Passed, Asked, _vb6_hooks_ins
<1> QED
  BY <1>1, <1>2, <1>3

LEMMA PlacedHook ==
  ASSUME NEW n \in DOMAIN g_hooks
  PROVE  Placed(n + 1, 0) = Placed(n, 6)
PROOF
<1>1. ASSUME NEW e \in Asked PROVE Passed(e, n + 1, 0) <=> Passed(e, n, 6)
  <2>1. e[1] \in 0..5 /\ e[3] \in DOMAIN g_hooks
    BY DEF Asked
  <2> QED
    BY <2>1, HooksDomain DEF Passed
<1> QED
  BY <1>1 DEF Placed

LEMMA PlacedLast == Placed(Len(g_hooks), 6) = Asked
PROOF
<1>1. ASSUME NEW e \in Asked PROVE Passed(e, Len(g_hooks), 6)
  <2>1. e[1] \in 0..5 /\ e[3] \in DOMAIN g_hooks
    BY DEF Asked
  <2> QED
    BY <2>1, HooksDomain DEF Passed
<1> QED
  BY <1>1 DEF Placed

(* Each hook finds an entry.                                               *)
LEMMA HookFinds ==
  ASSUME NEW n \in DOMAIN g_hooks
  PROVE  \E e \in Placed(n, 6) : e[3] = n
PROOF
<1>1. PICK t \in 0..5, i \in 0..255 : vb6_tables[t][i].mnemonic = g_hooks[n]
  BY TablesAssumption
<1>2. <<t, i, n>> \in Asked
  BY <1>1 DEF Asked
<1>3. <<t, i, n>> \in Placed(n, 6)
  BY <1>2, HooksDomain DEF Placed, Passed
<1> QED
  BY <1>3

-----------------------------------------------------------------------------
(* The loops of the installer. *)

LEMMA InvInit == Init => PcodeInv
PROOF
<1> SUFFICES ASSUME Init PROVE PcodeInv
  OBVIOUS
<1>1. LoopAt
  BY PcodeAssumption, HooksDomain DEF Init, LoopAt
<1>2. GenericPlaced /\ LineLogged
  BY DEF Init, GenericPlaced, LineLogged
<1>3. SpecificPlaced
  BY PlacedFirst DEF Init, SpecificPlaced
<1>4. Counted
  BY DEF Init, Counted
<1> QED
  BY <1>1, <1>2, <1>3, <1>4 DEF PcodeInv

(* A table more: its entries are placed and counted.                       *)
LEMMA HookInStep == PcodeInv /\ HookIn => PcodeInv'
PROOF
<1> SUFFICES ASSUME PcodeInv, HookIn PROVE PcodeInv'
  OBVIOUS
<1> DEFINE found == _vb6_hooks_ins(g_hooks[h], k)
<1>1. /\ pc = "hook" /\ mode = "specific" /\ k <= 5 /\ k' = k + 1
      /\ hooked' = hooked \cup {<<k, i, h>> : i \in found} /\ ret' = ret + Cardinality(found)
      /\ mode' = mode /\ pc' = pc /\ h' = h
  BY DEF HookIn
<1>2. h \in DOMAIN g_hooks /\ k \in 0..5 /\ ret \in Nat
  BY <1>1 DEF PcodeInv, LoopAt
<1>3. /\ Cardinality(found) \in Nat /\ \A i \in found : Cardinality(found) > 0
  BY FoundCounted
<1>4. hooked = Placed(h, k)
  BY <1>1 DEF PcodeInv, SpecificPlaced
<1>5. hooked' = Placed(h, k + 1)
  BY <1>1, <1>2, <1>4, PlacedTable
<1>6. LoopAt'
  BY <1>1, <1>2, <1>3 DEF LoopAt
<1>7. GenericPlaced' /\ LineLogged'
  BY <1>1 DEF GenericPlaced, LineLogged
<1>8. SpecificPlaced'
  BY <1>1, <1>5 DEF SpecificPlaced
<1>9. Counted'
  <2> SUFFICES ASSUME NEW e \in hooked', e[3] = h PROVE ret' > 0
    BY <1>1 DEF Counted
  <2> HIDE DEF found
  <2>1. CASE e \in hooked
    BY <1>1, <1>2, <1>3, <2>1 DEF PcodeInv, Counted
  <2>2. CASE e \notin hooked
    <3>1. PICK i \in found : e = <<k, i, h>>
      BY <1>1, <2>2
    <3> QED
      BY <1>1, <1>2, <1>3, <3>1
  <2> QED
    BY <2>1, <2>2
<1> QED
  BY <1>6, <1>7, <1>8, <1>9 DEF PcodeInv

(* A hook more: it has found an entry, so exit(1) is never reached.        *)
LEMMA NextHookStep == PcodeInv /\ NextHook => PcodeInv'
PROOF
<1> SUFFICES ASSUME PcodeInv, NextHook PROVE PcodeInv'
  OBVIOUS
<1>1. /\ pc = "hook" /\ mode = "specific" /\ k > 5
      /\ pc' = (IF ret = 0 THEN "exit" ELSE IF h = Len(g_hooks) THEN "vm" ELSE "hook")
      /\ h' = h + 1 /\ k' = 0 /\ ret' = 0 /\ mode' = mode /\ hooked' = hooked
  BY DEF NextHook
<1>2. h \in DOMAIN g_hooks /\ k = 6 /\ ret \in Nat
  BY <1>1 DEF PcodeInv, LoopAt
<1>3. hooked = Placed(h, 6)
  BY <1>1, <1>2 DEF PcodeInv, SpecificPlaced
<1>4. ret # 0
  BY <1>1, <1>2, <1>3, HookFinds DEF PcodeInv, Counted
<1>5. LoopAt'
  BY <1>1, <1>2, <1>4, HooksDomain DEF PcodeInv, LoopAt
<1>6. GenericPlaced' /\ LineLogged'
  BY <1>1, <1>4 DEF GenericPlaced, LineLogged
<1>7. SpecificPlaced'
  BY <1>1, <1>2, <1>3, <1>4, PlacedHook, PlacedLast DEF SpecificPlaced
<1>8. Counted'
  <2>1. \A e \in hooked : e[3] # h + 1
    BY <1>2, <1>3, HooksDomain DEF Placed, Passed, Asked
  <2> QED
    BY <1>1, <2>1 DEF Counted
<1> QED
  BY <1>5, <1>6, <1>7, <1>8 DEF PcodeInv

LEMMA HookGenericStep == PcodeInv /\ HookGeneric => PcodeInv'
PROOF
<1> SUFFICES ASSUME PcodeInv, HookGeneric PROVE PcodeInv'
  OBVIOUS
<1>1. pc' = "vm" /\ mode = "generic" /\ mode' = mode /\ hooked' = Named
  BY DEF HookGeneric, Named
<1> QED
  BY <1>1 DEF PcodeInv, LoopAt, GenericPlaced, SpecificPlaced, Counted, LineLogged

LEMMA ExecuteStep ==
  ASSUME NEW code \in Codes, NEW nothing \in BOOLEAN
  PROVE  PcodeInv /\ Execute(code, nothing) => PcodeInv'
PROOF
<1> SUFFICES ASSUME PcodeInv, Execute(code, nothing) PROVE PcodeInv'
  OBVIOUS
<1>1. pc = "vm" /\ pc' = "ran" /\ mode' = mode /\ hooked' = hooked /\ raw' = code /\ null' = nothing
  BY DEF Execute
<1>2. LoopAt' /\ GenericPlaced' /\ SpecificPlaced' /\ Counted'
  BY <1>1 DEF PcodeInv, LoopAt, GenericPlaced, SpecificPlaced, Counted
<1>3. code \in (0..255) \X (0..255)
  BY PcodeAssumption
<1>4. lines' = Logged'
  BY <1>1 DEF Execute, Logged, LinesAt
<1> QED
  BY <1>1, <1>2, <1>3, <1>4 DEF PcodeInv, LineLogged

LEMMA InvNext == PcodeInv /\ [Next]_vars => PcodeInv'
PROOF
<1>1. PcodeInv /\ UNCHANGED vars => PcodeInv'
  BY DEF vars, PcodeInv, LoopAt, GenericPlaced, SpecificPlaced, Counted, LineLogged, Logged, LinesAt
<1> QED
  BY <1>1, HookInStep, NextHookStep, HookGenericStep, ExecuteStep DEF Next

(* The tables are hooked by the entries asked for, and no other.           *)
THEOREM InvHolds == Spec => []PcodeInv
  BY InvInit, InvNext, PTL DEF Spec
-----------------------------------------------------------------------------
(* The lines. *)

(* The hook of an entry that g_hooks asks for, and of one it does not.     *)
LEMMA EntryAsked ==
  ASSUME NEW t \in 0..5, NEW i \in 0..255, NEW n \in DOMAIN g_hooks,
         vb6_tables[t][i].mnemonic = g_hooks[n]
  PROVE  /\ <<t, i, n>> \in Asked
         /\ \A e \in Asked : e[1] = t /\ e[2] = i => e = <<t, i, n>>
PROOF
<1>1. <<t, i, n>> \in Asked
  BY DEF Asked
<1>2. ASSUME NEW e \in Asked, e[1] = t, e[2] = i PROVE e = <<t, i, n>>
  <2>1. /\ e = <<e[1], e[2], e[3]>> /\ e[3] \in DOMAIN g_hooks
        /\ vb6_tables[e[1]][e[2]].mnemonic = g_hooks[e[3]]
    BY DEF Asked
  <2>2. e[3] = n
    BY <1>2, <2>1, TablesAssumption
  <2> QED
    BY <1>2, <2>1, <2>2
<1> QED
  BY <1>1, <1>2

LEMMA EntryNotAsked ==
  ASSUME NEW t, NEW i, ~\E n \in DOMAIN g_hooks : vb6_tables[t][i].mnemonic = g_hooks[n]
  PROVE  {e \in Asked : e[1] = t /\ e[2] = i} = {}
  BY DEF Asked

(* What the stub of an entry logs with the hooks of g_hooks: one line, if  *)
(* the entry has one of its names and the hook something to say.           *)
OneLine(t, i, code, esi, nothing, n) ==
  LinesAt(t, i, code, esi, nothing) = IF Silent(g_hooks[n], nothing) THEN <<>> ELSE <<_pre(g_hooks[n], esi)>>

LEMMA SpecificLines ==
  ASSUME hooked = Asked, NEW t \in 0..5, NEW i \in 0..255, NEW code, NEW esi, NEW nothing,
         NEW n \in DOMAIN g_hooks, vb6_tables[t][i].mnemonic = g_hooks[n]
  PROVE  OneLine(t, i, code, esi, nothing, n)
PROOF
<1> DEFINE hooks == {e \in hooked : /\ e[1] = t /\ e[2] = i
                                    /\ ~(e[3] # 0 /\ Silent(g_hooks[e[3]], nothing))}
           line(e) == IF e[3] = 0 THEN _generic_pre(i, code, esi) ELSE _pre(g_hooks[e[3]], esi)
<1>1. LinesAt(t, i, code, esi, nothing) = IF hooks = {} THEN <<>> ELSE <<line(CHOOSE e \in hooks : TRUE)>>
  BY DEF LinesAt
<1>2. n # 0
  BY HooksDomain
<1>3. hooks = IF Silent(g_hooks[n], nothing) THEN {} ELSE {<<t, i, n>>}
  <2>1. <<t, i, n>> \in hooked /\ \A e \in hooked : e[1] = t /\ e[2] = i => e = <<t, i, n>>
    BY EntryAsked
  <2> QED
    BY <1>2, <2>1
<1>4. line(<<t, i, n>>) = _pre(g_hooks[n], esi)
  BY <1>2
<1> HIDE DEF hooks, line
<1>5. CASE Silent(g_hooks[n], nothing)
  BY <1>1, <1>3, <1>5 DEF OneLine
<1>6. CASE ~Silent(g_hooks[n], nothing)
  <2>1. hooks = {<<t, i, n>>}
    BY <1>3, <1>6
  <2>2. (CHOOSE e \in hooks : TRUE) = <<t, i, n>>
    BY <2>1
  <2> QED
    BY <1>1, <1>4, <1>6, <2>1, <2>2 DEF OneLine
<1> QED
  BY <1>5, <1>6

LEMMA SpecificNoLines ==
  ASSUME hooked = Asked, NEW t, NEW i, NEW code, NEW esi, NEW nothing,
         ~\E n \in DOMAIN g_hooks : vb6_tables[t][i].mnemonic = g_hooks[n]
  PROVE  LinesAt(t, i, code, esi, nothing) = <<>>
  BY EntryNotAsked DEF LinesAt

(* A stub logs one line or none.                                           *)
LEMMA LinesAtShort ==
  ASSUME NEW t, NEW i, NEW code, NEW esi, NEW nothing
  PROVE  /\ LinesAt(t, i, code, esi, nothing) \o <<>> = LinesAt(t, i, code, esi, nothing)
         /\ <<>> \o LinesAt(t, i, code, esi, nothing) = LinesAt(t, i, code, esi, nothing)
PROOF
<1> DEFINE logged == LinesAt(t, i, code, esi, nothing)
<1>1. logged = <<>> \/ \E line : logged = <<line>>
  BY DEF LinesAt
<1> HIDE DEF logged
<1>2. logged \o <<>> = logged /\ <<>> \o logged = logged
  BY <1>1
<1> QED
  BY <1>2 DEF logged

(* What the stub of an entry logs with the generic hook.                   *)
LEMMA GenericLines ==
  ASSUME hooked = Named, NEW i \in 0..255, NEW code, NEW esi, NEW nothing
  PROVE  LinesAt(0, i, code, esi, nothing) =
           IF vb6_tables[0][i].mnemonic # NULL THEN <<_generic_pre(i, code, esi)>> ELSE <<>>
PROOF
<1> DEFINE hooks == {e \in hooked : /\ e[1] = 0 /\ e[2] = i
                                    /\ ~(e[3] # 0 /\ Silent(g_hooks[e[3]], nothing))}
           line(e) == IF e[3] = 0 THEN _generic_pre(i, code, esi) ELSE _pre(g_hooks[e[3]], esi)
<1>1. LinesAt(0, i, code, esi, nothing) = IF hooks = {} THEN <<>> ELSE <<line(CHOOSE e \in hooks : TRUE)>>
  BY DEF LinesAt
<1>2. hooks = IF vb6_tables[0][i].mnemonic # NULL THEN {<<0, i, 0>>} ELSE {}
  BY DEF Named
<1>3. line(<<0, i, 0>>) = _generic_pre(i, code, esi)
  OBVIOUS
<1> HIDE DEF hooks, line
<1>4. CASE vb6_tables[0][i].mnemonic # NULL
  <2>1. hooks = {<<0, i, 0>>}
    BY <1>2, <1>4
  <2>2. (CHOOSE e \in hooks : TRUE) = <<0, i, 0>>
    BY <2>1
  <2> QED
    BY <1>1, <1>3, <1>4, <2>1, <2>2
<1>5. CASE vb6_tables[0][i].mnemonic = NULL
  BY <1>1, <1>2, <1>5
<1> QED
  BY <1>4, <1>5

LEMMA GenericNoLines ==
  ASSUME hooked = Named, NEW t \in 1..5, NEW i, NEW code, NEW esi, NEW nothing
  PROVE  LinesAt(t, i, code, esi, nothing) = <<>>
  BY DEF LinesAt, Named
-----------------------------------------------------------------------------
(* The properties. *)

(* The name vb6_disasm gives an instruction, at its table and index.       *)
TableOf(code) == IF code[1] \in LeadBytes THEN code[1] - 250 ELSE 0
IndexOf(code) == IF code[1] \in LeadBytes THEN code[2] ELSE code[1]
EsiAt(code)   == IF code[1] \in LeadBytes THEN 2 ELSE 1

LEMMA DisasmAt ==
  ASSUME NEW code \in (0..255) \X (0..255)
  PROVE  /\ code[1] \in 0..255 /\ code[2] \in 0..255
         /\ TableOf(code) \in 0..5 /\ IndexOf(code) \in 0..255
         /\ vb6_disasm(code) = vb6_tables[TableOf(code)][IndexOf(code)]
  BY DEF TableOf, IndexOf, LeadBytes, vb6_disasm

Wanted(code, nothing) ==
  (\E n \in DOMAIN g_hooks : g_hooks[n] = vb6_disasm(code).mnemonic)
    /\ ~Silent(vb6_disasm(code).mnemonic, nothing)

(* With the hooks of g_hooks: the entries that lead to another table log   *)
(* nothing, so one line at most, that of the hook of the name.             *)
LEMMA SpecificLogged ==
  ASSUME PcodeInv, pc = "ran", mode = "specific"
  PROVE  lines = IF Wanted(raw, null) THEN <<_pre(vb6_disasm(raw).mnemonic, EsiAt(raw))>> ELSE <<>>
PROOF
<1>1. raw \in (0..255) \X (0..255) /\ lines = Logged /\ hooked = Asked
  BY DEF PcodeInv, LineLogged, SpecificPlaced
<1> DEFINE t == TableOf(raw)
           i == IndexOf(raw)
<1>2. /\ raw[1] \in 0..255 /\ t \in 0..5 /\ i \in 0..255
      /\ vb6_disasm(raw) = vb6_tables[t][i]
  BY <1>1, DisasmAt
<1>3. lines = LinesAt(t, i, raw, EsiAt(raw), null)
  <2>1. CASE raw[1] \in LeadBytes
    <3>1. LinesAt(0, raw[1], raw, 1, null) = <<>>
      <4>1. ~\E n \in DOMAIN g_hooks : vb6_tables[0][raw[1]].mnemonic = g_hooks[n]
        BY <2>1, TablesAssumption
      <4> QED
        BY <1>1, <4>1, SpecificNoLines
    <3>2. lines = <<>> \o LinesAt(raw[1] - 250, raw[2], raw, 2, null)
      BY <1>1, <2>1, <3>1 DEF Logged
    <3> QED
      BY <2>1, <3>2, LinesAtShort DEF TableOf, IndexOf, EsiAt
  <2>2. CASE raw[1] \notin LeadBytes
    <3>1. lines = LinesAt(0, raw[1], raw, 1, null) \o <<>>
      BY <1>1, <2>2 DEF Logged
    <3> QED
      BY <2>2, <3>1, LinesAtShort DEF TableOf, IndexOf, EsiAt
  <2> QED
    BY <2>1, <2>2
<1> HIDE DEF t, i
<1>4. CASE \E n \in DOMAIN g_hooks : g_hooks[n] = vb6_tables[t][i].mnemonic
  <2>1. PICK n \in DOMAIN g_hooks : g_hooks[n] = vb6_tables[t][i].mnemonic
    BY <1>4
  <2> DEFINE esi == EsiAt(raw)
  <2> HIDE DEF esi
  <2>2. hooked = Asked /\ t \in 0..5 /\ i \in 0..255 /\ vb6_tables[t][i].mnemonic = g_hooks[n]
    BY <1>1, <1>2, <2>1
  <2>4. OneLine(t, i, raw, esi, null, n)
    BY <2>2, SpecificLines
  <2>3. Wanted(raw, null) <=> ~Silent(g_hooks[n], null)
    BY <1>2, <2>1 DEF Wanted
  <2> QED
    BY <1>2, <1>3, <2>1, <2>3, <2>4 DEF esi, OneLine
<1>5. CASE ~\E n \in DOMAIN g_hooks : g_hooks[n] = vb6_tables[t][i].mnemonic
  <2>1. LinesAt(t, i, raw, EsiAt(raw), null) = <<>>
    BY <1>1, <1>5, SpecificNoLines
  <2>2. ~Wanted(raw, null)
    BY <1>2, <1>5 DEF Wanted
  <2> QED
    BY <1>3, <2>1, <2>2
<1> QED
  BY <1>4, <1>5

(* With the generic hook: the entry of the first byte logs, if it has a    *)
(* name, and it looks up the name behind a lead byte itself.               *)
LEMMA GenericLogged ==
  ASSUME PcodeInv, pc = "ran", mode = "generic"
  PROVE  lines = IF vb6_tables[0][raw[1]].mnemonic # NULL THEN <<_generic_pre(raw[1], raw, 1)>> ELSE <<>>
PROOF
<1>1. raw \in (0..255) \X (0..255) /\ lines = Logged /\ hooked = Named
  BY DEF PcodeInv, LineLogged, GenericPlaced
<1>2. raw[1] \in 0..255
  BY <1>1
<1>3. lines = LinesAt(0, raw[1], raw, 1, null) \o <<>>
  <2>1. CASE raw[1] \in LeadBytes
    <3>1. raw[1] - 250 \in 1..5
      BY <2>1 DEF LeadBytes
    <3>2. LinesAt(raw[1] - 250, raw[2], raw, 2, null) = <<>>
      BY <1>1, <3>1, GenericNoLines
    <3> QED
      BY <1>1, <2>1, <3>2 DEF Logged
  <2>2. CASE raw[1] \notin LeadBytes
    BY <1>1, <2>2 DEF Logged
  <2> QED
    BY <2>1, <2>2
<1>4. lines = LinesAt(0, raw[1], raw, 1, null)
  BY <1>3, LinesAtShort
<1> QED
  BY <1>1, <1>2, <1>4, GenericLines

LEMMA InvNames == PcodeInv => NamesAgree
PROOF
<1> SUFFICES ASSUME PcodeInv, pc = "ran" PROVE NamesAgree
  BY DEF NamesAgree
<1> DEFINE name == vb6_disasm(raw).mnemonic
           some == \E n \in DOMAIN g_hooks : g_hooks[n] = name
<1>1. mode \in {"specific", "generic"} /\ raw \in (0..255) \X (0..255)
  BY DEF PcodeInv, LoopAt, LineLogged
<1>2. CASE mode = "specific"
  <2>1. lines = IF Wanted(raw, null) THEN <<_pre(name, EsiAt(raw))>> ELSE <<>>
    BY <1>2, SpecificLogged
  <2>2. _pre(name, EsiAt(raw)).name = name \/ <<name, _pre(name, EsiAt(raw)).name>> \in OtherNames
    BY PrintedName DEF _pre
  <2>3. Wanted(raw, null) <=> (some /\ ~Silent(name, null))
    BY DEF Wanted
  <2> DEFINE line == _pre(name, EsiAt(raw))
             asked == Wanted(raw, null)
  <2> HIDE DEF name, some, line, asked
  <2>4. Len(lines) = IF asked THEN 1 ELSE 0
    BY <2>1 DEF line, asked
  <2>5. \A n \in DOMAIN lines : lines[n].name = name \/ <<name, lines[n].name>> \in OtherNames
    BY <2>1, <2>2 DEF line, asked
  <2> QED
    BY <1>2, <2>3, <2>4, <2>5 DEF NamesAgree, name, some, asked
<1>3. CASE mode = "generic"
  <2> DEFINE line == _generic_pre(raw[1], raw, 1)
             asked == vb6_tables[0][raw[1]].mnemonic # NULL
  <2>1. lines = IF asked THEN <<line>> ELSE <<>>
    BY <1>3, GenericLogged
  <2>2. line.name = name
    BY <1>1 DEF _generic_pre, vb6_disasm
  <2> HIDE DEF name, line, asked
  <2>3. Len(lines) = IF asked THEN 1 ELSE 0
    BY <2>1
  <2>4. \A n \in DOMAIN lines : lines[n].name = name
    BY <2>1, <2>2
  <2> QED
    BY <1>3, <2>3, <2>4 DEF NamesAgree, name, asked
<1> QED
  BY <1>1, <1>2, <1>3

(* What a line depends on lies inside the instruction.                     *)
LEMMA InvFits == PcodeInv => HooksFitTables
PROOF
<1> SUFFICES ASSUME PcodeInv PROVE HooksFitTables
  OBVIOUS
<1>1. mode \in {"specific", "generic"} /\ pc # "exit"
  BY DEF PcodeInv, LoopAt
<1> DEFINE opcode    == IF raw[1] \in LeadBytes THEN 1 ELSE 0
           Inside(r) == r <= opcode \/ r <= opcode + vb6_disasm(raw).length - 1
           Fits(line) ==
             /\ \A r \in line.uses : Inside(r)
             /\ \A r \in line.loads :
                  \/ Inside(r)
                  \/ mode = "specific" /\ line.name = "LitI2_Byte" /\ r <= opcode + 4
                  \/ mode = "generic" /\ r <= opcode + 3
<1>2. ASSUME pc = "ran", NEW n \in DOMAIN lines
      PROVE  Fits(lines[n])
  <2>1. raw \in (0..255) \X (0..255)
    BY <1>2 DEF PcodeInv, LineLogged
  <2>2. CASE mode = "specific"
    <3> DEFINE name == vb6_disasm(raw).mnemonic
               line == _pre(name, EsiAt(raw))
    <3>1. lines = <<line>> /\ Wanted(raw, null)
      BY <1>2, <2>2, SpecificLogged
    <3>2. EsiAt(raw) = opcode + 1 /\ opcode \in Int
      BY DEF EsiAt
    <3>3. \A b \in OperandBytes(name) : Inside(EsiAt(raw) + b)
      <4> SUFFICES ASSUME NEW b \in OperandBytes(name) PROVE Inside(EsiAt(raw) + b)
        OBVIOUS
      <4> DEFINE t == TableOf(raw)
                 i == IndexOf(raw)
      <4>1. t \in 0..5 /\ i \in 0..255 /\ vb6_disasm(raw) = vb6_tables[t][i]
        BY <2>1, DisasmAt
      <4>2. PICK m \in DOMAIN g_hooks : g_hooks[m] = name
        BY <3>1 DEF Wanted
      <4> HIDE DEF t, i
      <4>3. vb6_tables[t][i].mnemonic = g_hooks[m] /\ b \in OperandBytes(g_hooks[m])
        BY <4>1, <4>2
      <4>4. vb6_tables[t][i].length \in Int /\ b + 1 < vb6_tables[t][i].length
        BY <4>1, <4>3, TablesAssumption
      <4>5. b \in Int
        BY OperandsBehind
      <4> QED
        BY <3>2, <4>1, <4>4, <4>5
    <3>4. \A b \in LoadedBytes(name) : b \in OperandBytes(name) \/ (name = "LitI2_Byte" /\ b \in 0..3)
      BY OperandsBehind
    <3>5. /\ line.name = Printed(name) /\ (name = "LitI2_Byte" => Printed(name) = name)
          /\ line.uses = {EsiAt(raw) + b : b \in OperandBytes(name)}
          /\ line.loads = {EsiAt(raw) + b : b \in LoadedBytes(name)}
      BY PrintedName DEF _pre
    <3>6. lines[n] = line
      BY <1>2, <3>1
    <3> HIDE DEF line, name, Inside
    <3>7. \A r \in line.uses : Inside(r)
      BY <3>3, <3>5
    <3>8. ASSUME NEW r \in line.loads
          PROVE  Inside(r) \/ (line.name = "LitI2_Byte" /\ r <= opcode + 4)
      <4>1. PICK b \in LoadedBytes(name) : r = EsiAt(raw) + b
        BY <3>5, <3>8
      <4>2. CASE b \in OperandBytes(name)
        BY <3>3, <4>1, <4>2
      <4>3. CASE name = "LitI2_Byte" /\ b \in 0..3
        BY <3>2, <3>5, <4>1, <4>3
      <4> QED
        BY <3>4, <4>2, <4>3
    <3> QED
      BY <2>2, <3>6, <3>7, <3>8
  <2>3. CASE mode = "generic"
    <3> DEFINE line == _generic_pre(raw[1], raw, 1)
    <3>1. lines = <<line>>
      BY <1>2, <2>3, GenericLogged
    <3>2. /\ line.uses = (IF raw[1] \in LeadBytes THEN {1} ELSE {})
          /\ line.loads = (IF raw[1] \in LeadBytes THEN 1..4 ELSE {})
      BY DEF _generic_pre
    <3> HIDE DEF line
    <3>3. lines[n] = line
      BY <1>2, <3>1
    <3>4. \A r \in line.uses : Inside(r)
      BY <3>2
    <3>5. \A r \in line.loads : r <= opcode + 3
      BY <3>2
    <3> HIDE DEF Inside, opcode
    <3> QED
      BY <2>3, <3>3, <3>4, <3>5
  <2> QED
    BY <1>1, <2>2, <2>3
<1> QED
  BY <1>1, <1>2 DEF HooksFitTables

(* The readers of the tables agree: every instruction whose line is asked  *)
(* for has one, and its name is the one vb6_disasm gives the bytes or one  *)
(* of the three other names, of the specific hooks only, whatever          *)
(* instructions there are (src/src/hook.c:152, src/src/disasm.c:34,        *)
(* src/src/insns.c:48, 54 and 162).                                        *)
THEOREM NamesAgreeHolds == Spec => []NamesAgree
  BY InvHolds, InvNames, PTL

(* Setting the hooks never ends the traced program (src/src/insns.c:233).  *)
(* What a line depends on lies inside the instruction it is about if the   *)
(* operands lie inside the rows of the tables, which TablesAssumption says *)
(* and TLC evaluates: it stays so at both dispatches, and no word loaded   *)
(* reaches beyond the four bytes at esi (src/src/insns.c:182,              *)
(* src/src/main.c:50).                                                     *)
THEOREM HooksFitTablesHolds == Spec => []HooksFitTables
  BY InvHolds, InvFits, PTL
=============================================================================
