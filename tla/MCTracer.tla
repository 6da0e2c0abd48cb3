------------------------------ MODULE MCTracer ------------------------------
(***************************************************************************)
(* Small instances of Tracer: two tables of four entries, with the cases   *)
(* of vb6_tables.c that matter: a mnemonic in both tables (FnLenStr), a    *)
(* lead entry, entries without a name in both tables, a hook that may keep *)
(* silent (CStr2Uni), one that calls native() and prints the name of       *)
(* another (ImpAdCallFPR4), and an instruction no hook names (Branch).     *)
(***************************************************************************)
EXTENDS Tracer, TLC

TwoThreads == {"main", "w1"}
Workers == Threads \ {Main}
Nobody == {}

TwoTables == {0, 1}
FourEntries == 0..3
LeadOne == (1 :> 1)
WalkAll == [p \in 1..8 |-> <<(p - 1) \div 4, (p - 1) % 4>>]

Names ==
  (<<0, 0>> :> "FnLenStr") @@ (<<0, 1>> :> "Lead0") @@
  (<<0, 2>> :> "CStr2Uni") @@ (<<0, 3>> :> "null") @@
  (<<1, 0>> :> "null") @@ (<<1, 1>> :> "FnLenStr") @@
  (<<1, 2>> :> "ImpAdCallFPR4") @@ (<<1, 3>> :> "Branch")

ThreeHooks == <<"FnLenStr", "ImpAdCallFPR4", "CStr2Uni">>
HookTexts == <<"FnLenStr", "ImpAdCallI2", "CStr2Uni">>
QuietHooks == {3}
CallHooks == {2}

(* No table has EqStr: the walk for it finds nothing, after the others did. *)
AbsentHooks == <<"FnLenStr", "ImpAdCallFPR4", "CStr2Uni", "EqStr">>
AbsentTexts == <<"FnLenStr", "ImpAdCallI2", "CStr2Uni", "EqStr">>

Messages == {"banner", "installing", "missing", "callee", "dumped"}

(* Two names of different lengths, so that a line may grow or shrink       *)
(* between the passes of report().                                         *)
NameTexts == {<<"callee">>, <<"callee", "callee">>}
AllCells ==
  Messages \cup {Names[s] : s \in Slots} \cup {Prints[h] : h \in DOMAIN Hooks}
CellChars == AllCells \cup {NewLine}
CellTexts == {<<c>> : c \in AllCells} \cup NameTexts

Generic == {"generic"}
Specific == {"specific"}
Both == {"generic", "specific"}
=============================================================================
