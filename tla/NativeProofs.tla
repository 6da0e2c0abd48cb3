---------------------------- MODULE NativeProofs -----------------------------
(***************************************************************************)
(* Proofs about Native, for any threads, functions, memory and calls.      *)
(*                                                                         *)
(* Some hold whatever the threads do to each other through the static      *)
(* buffer of symbol(): the program faults only for the reason given, and   *)
(* every call is told completely and in order.  That names and verdicts    *)
(* are right takes the buffer to oneself from symbol() to the use of its   *)
(* result; the run native_race shows that two threads do not have it.      *)
(*                                                                         *)
(* AskInv says which address a thread asked symbol() about and that the    *)
(* pages it has walked over are mapped, TellInv what the last line of a    *)
(* thread was and how many verdicts it has got, AloneInv what the buffer   *)
(* holds for the thread that uses it.                                      *)
(***************************************************************************)
EXTENDS Native, TLAPS, FiniteSetTheorems

Places == {"idle", "classify", "walk", "path", "lookup", "answer", "unknown",
           "dump", "sweep"}

InSymbol == {"walk", "path", "lookup", "answer"}

Types ==
  /\ pc \in [Threads -> Places]
  /\ fn \in [Threads -> Functions]
  /\ ins \in [Threads -> Nat]
  /\ asked \in [Threads -> Addresses]
  /\ page \in [Threads -> DOMAIN Pages]
  /\ ptr \in [Threads -> BOOLEAN]
  /\ calls \in [Threads -> Nat]
  /\ alive \in BOOLEAN
  /\ log \in Seq({log[i] : i \in DOMAIN log})

(* What the thread is naming: the function behind the thunk it classifies, *)
(* or the target of the instruction it dumps.                              *)
AskRule(t) ==
  /\ pc[t] \in {"classify", "unknown", "dump"} => ins[t] = 0
  /\ pc[t] = "sweep" =>
       /\ ins[t] \in 1..(Len(Code[fn[t]]) + 1)
       /\ ins[t] # 1 => Code[fn[t]][ins[t] - 1].op \notin Stops \cup {"bad"}
  /\ pc[t] \in InSymbol /\ ins[t] = 0 =>
       Leads(fn[t]) /\ asked[t] = Target[fn[t]]
  /\ pc[t] \in InSymbol /\ ins[t] # 0 =>
       /\ ins[t] \in 1..Len(Code[fn[t]])
       /\ Current(t).op \in Named /\ asked[t] = Current(t).to
  /\ \/ pc[t] \in {"unknown", "dump", "sweep"}
     \/ pc[t] \in InSymbol /\ ins[t] # 0
     => Shape[fn[t]] # "import"

(* The walk has found every page above the one it looks at mapped, and it  *)
(* has stopped at an image.                                                *)
WalkRule(t) ==
  pc[t] \in InSymbol =>
    /\ page[t] <= PageOf[asked[t]]
    /\ \A q \in (page[t] + 1)..PageOf[asked[t]] : Pages[q] = "mapped"
    /\ pc[t] # "walk" => Pages[page[t]] = "mz"

AskInv == Types /\ \A t \in Threads : AskRule(t) /\ WalkRule(t)

-----------------------------------------------------------------------------
(***************************************************************************)
(* Memory, code and the log.                                               *)
(***************************************************************************)

(* What the instructions of a function are; the ones that end a sweep are  *)
(* the last.                                                               *)
LEMMA CodeGoesOn ==
  ASSUME NEW f \in Functions
  PROVE  /\ Len(Code[f]) \in Nat /\ DOMAIN Code[f] = 1..Len(Code[f])
         /\ Code[f] # <<>> => Len(Code[f]) \in DOMAIN Code[f]
         /\ \A i \in DOMAIN Code[f] :
              /\ Code[f][i].op \in Ops
              /\ Code[f][i].to \in Addresses \cup {Nowhere}
              /\ Code[f][i].op \in Stops \cup {"bad"} => i = Len(Code[f])
<1> DEFINE Insn == [op : Ops, to : Addresses \cup {Nowhere}]
<1>1. Code[f] \in Seq(Insn)
  BY NativeAssumption
<1>2. /\ Len(Code[f]) \in Nat /\ DOMAIN Code[f] = 1..Len(Code[f])
      /\ Code[f] # <<>> => Len(Code[f]) \in DOMAIN Code[f]
      /\ \A i \in DOMAIN Code[f] : Code[f][i] \in Insn
  <2> HIDE DEF Insn
  <2> QED BY <1>1
<1>3. \A i \in 1..Len(Code[f]) : Code[f][i].op \in Stops \cup {"bad"} => i = Len(Code[f])
  BY NativeAssumption
<1> QED BY <1>2, <1>3

(* The walk over mapped pages leads to a page of the memory.               *)
LEMMA PageBelow ==
  ASSUME NEW p \in DOMAIN Pages, Pages[p] = "mapped"
  PROVE  p - 1 \in DOMAIN Pages /\ p \in Nat \ {0} /\ p - 1 \in Nat
<1>1. p \in Nat /\ p # 0
  BY MemoryAssumption
<1> QED BY <1>1, MemoryAssumption

(* What a new line does to the log.                                        *)
LEMMA OneMoreLine ==
  ASSUME log \in Seq({log[i] : i \in DOMAIN log}), NEW l, log' = Append(log, l)
  PROVE  /\ log' \in Seq({log'[i] : i \in DOMAIN log'})
         /\ Len(log) \in Nat /\ DOMAIN log = 1..Len(log)
         /\ DOMAIN log' = (DOMAIN log) \cup {Len(log) + 1}
         /\ log'[Len(log) + 1] = l
         /\ \A i \in DOMAIN log : log'[i] = log[i]
<1> DEFINE S == {log[i] : i \in DOMAIN log} \cup {l}
<1>1. log \in Seq(S) /\ l \in S
  OBVIOUS
<1> HIDE DEF S
<1>2. /\ Len(log) \in Nat /\ DOMAIN log = 1..Len(log)
      /\ log' \in Seq(S) /\ Len(log') = Len(log) + 1
      /\ log'[Len(log) + 1] = l
      /\ \A i \in DOMAIN log : log'[i] = log[i]
  BY <1>1
<1>3. DOMAIN log' = (DOMAIN log) \cup {Len(log) + 1}
  BY <1>2
<1>4. log' \in Seq({log'[i] : i \in DOMAIN log'})
  BY <1>2
<1> QED BY <1>2, <1>3, <1>4

(* A fault ends the program and changes nothing else.                      *)
LEMMA FaultStays ==
  ASSUME NEW t, Faults(t)
  PROVE  /\ alive /\ alive' = FALSE
         /\ UNCHANGED <<pc, fn, ins, asked, page, ptr, calls, name, log>>
BY DEF Faults, ClassifyFaults, ThunkFaults, SweepFaults, ExtraOverflows, Fault

-----------------------------------------------------------------------------
(***************************************************************************)
(* Types and what is asked.                                                *)
(***************************************************************************)
(* No thread has called anything yet.                                      *)
LEMMA AskInvInit == Init => AskInv
<1> SUFFICES ASSUME Init PROVE AskInv
  OBVIOUS
<1> USE DEF Init
<1>1. (CHOOSE f \in Functions : TRUE) \in Functions
  BY NativeAssumption
<1>2. (CHOOSE a \in Addresses : TRUE) \in Addresses
  BY <1>1, NativeAssumption
<1>3. 0 \in DOMAIN Pages
  BY <1>2, MemoryAssumption
<1>4. Types
  BY <1>1, <1>2, <1>3 DEF Types, Places
<1>5. \A t \in Threads : AskRule(t) /\ WalkRule(t)
  BY DEF AskRule, WalkRule, InSymbol
<1> QED BY <1>4, <1>5 DEF AskInv

(* A step of one thread leaves the places of the others alone.             *)
LEMMA OthersStay ==
  ASSUME Types, NEW t \in Threads, Step(t), NEW u \in Threads \ {t}
  PROVE  /\ pc'[u] = pc[u] /\ fn'[u] = fn[u] /\ ins'[u] = ins[u]
         /\ asked'[u] = asked[u] /\ page'[u] = page[u] /\ ptr'[u] = ptr[u]
         /\ calls'[u] = calls[u]
<1>1. pc'[u] = pc[u]
  BY FaultStays DEF Types, Step, Enter, Classify, Walk, Turn, Path, NoDirectory, Lookup,
         Import, Thunk, NoThunk, Unknown, Dump, Failed, Sweeps, Extra, NamedLine,
         PlainLine, AfterLine, Answered, Goto
<1>2. fn'[u] = fn[u] /\ calls'[u] = calls[u]
  BY FaultStays DEF Types, Step, Enter, Classify, Walk, Turn, Path, NoDirectory, Lookup,
         Import, Thunk, NoThunk, Unknown, Dump, Failed, Sweeps, Extra, NamedLine,
         PlainLine
<1>3. ins'[u] = ins[u]
  BY FaultStays DEF Types, Step, Enter, Classify, Walk, Turn, Path, NoDirectory, Lookup,
         Import, Thunk, NoThunk, Unknown, Dump, Failed, Sweeps, Extra, NamedLine,
         PlainLine, AfterLine
<1>4. asked'[u] = asked[u] /\ page'[u] = page[u]
  BY FaultStays DEF Types, Step, Enter, Classify, Ask, Walk, Turn, Path, NoDirectory,
         Lookup, Import, Thunk, NoThunk, Unknown, Dump, Failed, Sweeps, Extra,
         NamedLine, PlainLine
<1>5. ptr'[u] = ptr[u]
  BY FaultStays DEF Types, Step, Enter, Classify, Walk, Turn, Path, NoDirectory, Lookup,
         Import, Thunk, NoThunk, Unknown, Dump, Failed, Sweeps, Extra, NamedLine,
         PlainLine
<1> QED BY <1>1, <1>2, <1>3, <1>4, <1>5

(* A call of symbol() is about an address of the program, and starts at    *)
(* the page of that address.                                               *)
LEMMA AskStep ==
  ASSUME AskInv, NEW t \in Threads, Classify(t) \/ Extra(t)
  PROVE  /\ Types'
         /\ AskRule(t)' /\ WalkRule(t)'
<1> Types /\ AskRule(t)
  BY DEF AskInv
<1>1. ASSUME NEW a \in Addresses, Ask(t, a), Goto(t, pc[t], "walk"),
             UNCHANGED <<fn, ins, ptr, calls, name, log, alive>>,
             IF ins[t] = 0 THEN Leads(fn[t]) /\ a = Target[fn[t]]
             ELSE /\ ins[t] \in 1..Len(Code[fn[t]])
                  /\ Shape[fn[t]] # "import"
                  /\ Current(t).op \in Named /\ a = Current(t).to
      PROVE  Types' /\ AskRule(t)' /\ WalkRule(t)'
  <2>1. PageOf[a] \in DOMAIN Pages /\ PageOf[a] \in Nat
    BY MemoryAssumption
  <2>2. Types'
    BY <1>1, <2>1 DEF Types, Ask, Goto, Places
  <2>3. pc'[t] = "walk" /\ asked'[t] = a /\ page'[t] = PageOf[a]
    BY <1>1 DEF Types, Ask, Goto
  <2>4. AskRule(t)'
    BY <1>1, <2>3 DEF AskRule, InSymbol, Current, Leads
  <2>5. WalkRule(t)'
    BY <2>1, <2>3 DEF WalkRule
  <2> QED BY <2>2, <2>4, <2>5
<1>2. fn[t] \in Functions /\ Target[fn[t]] \in Addresses \cup {Nowhere}
  BY NativeAssumption DEF Types
<1>3. CASE Classify(t) /\ Leads(fn[t])
  <2>1. /\ Target[fn[t]] \in Addresses /\ Ask(t, Target[fn[t]]) /\ Goto(t, pc[t], "walk") /\ ins[t] = 0
        /\ UNCHANGED <<fn, ins, ptr, calls, name, log, alive>>
    BY <1>2, <1>3 DEF Classify, Goto, AskRule
  <2> QED BY <1>1, <1>2, <1>3, <2>1
<1>4. CASE Classify(t) /\ ~Leads(fn[t])
  <2>1. /\ pc' = [pc EXCEPT ![t] = "unknown"] /\ ins[t] = 0
        /\ UNCHANGED <<fn, ins, asked, page, ptr, calls, log, alive>>
        /\ Shape[fn[t]] # "import"
    BY <1>4 DEF Classify, Goto, AskRule, Leads
  <2> QED BY <2>1 DEF Types, Places, AskRule, WalkRule, InSymbol
<1>5. CASE Extra(t)
  <2>1. /\ Ask(t, Current(t).to) /\ Goto(t, pc[t], "walk")
        /\ Current(t).op \in Named
        /\ ins[t] \in 1..Len(Code[fn[t]]) /\ Shape[fn[t]] # "import"
        /\ UNCHANGED <<fn, ins, ptr, calls, name, log, alive>>
    BY <1>2, <1>5, CodeGoesOn DEF Extra, Sweeps, Goto, AskRule
  <2>2. Current(t).to \in Addresses /\ ins[t] # 0
    BY <1>2, <1>5, <2>1, CodeGoesOn DEF Current, Extra
  <2> QED BY <1>1, <2>1, <2>2
<1> QED BY <1>3, <1>4, <1>5

(* Inside symbol() the question stays the same while the walk goes down    *)
(* page by page.                                                           *)
LEMMA SymbolStep ==
  ASSUME AskInv, NEW t \in Threads,
         Walk(t) \/ Path(t) \/ NoDirectory(t) \/ Lookup(t)
  PROVE  Types' /\ AskRule(t)' /\ WalkRule(t)'
<1> Types /\ AskRule(t) /\ WalkRule(t)
  BY DEF AskInv
<1>1. /\ pc[t] \in InSymbol /\ pc[t] # "answer"
      /\ \E p \in InSymbol : pc' = [pc EXCEPT ![t] = p]
      /\ UNCHANGED <<fn, ins, asked, calls, log>>
  <2>1. pc = [pc EXCEPT ![t] = pc[t]]
    BY DEF Types
  <2> QED BY <2>1 DEF Walk, Turn, Path, NoDirectory, Lookup, Goto, InSymbol
<1>2. /\ page[t] \in DOMAIN Pages /\ page[t] \in Nat
      /\ PageOf[asked[t]] \in Nat
  BY MemoryAssumption DEF Types
<1>3. pc' \in [Threads -> Places] /\ pc'[t] \in InSymbol
  BY <1>1 DEF Types, Places, InSymbol
<1>4. CASE Walk(t) /\ Pages[page[t]] = "mapped"
  <2>1. /\ page' = [page EXCEPT ![t] = page[t] - 1]
        /\ page[t] - 1 \in DOMAIN Pages /\ page[t] - 1 \in Nat
        /\ pc' = pc /\ pc[t] = "walk" /\ asked' = asked
        /\ UNCHANGED <<ptr, alive>>
    BY <1>2, <1>4, PageBelow DEF Walk, Turn
  <2>2. page' \in [Threads -> DOMAIN Pages] /\ page'[t] = page[t] - 1
    BY <2>1 DEF Types
  <2>3. \A q \in (page'[t] + 1)..PageOf[asked[t]] :
          q = page[t] \/ q \in (page[t] + 1)..PageOf[asked[t]]
    BY <1>2, <2>2
  <2>4. WalkRule(t)'
    BY <1>1, <1>2, <1>4, <2>1, <2>2, <2>3 DEF WalkRule
  <2>5. Types'
    BY <1>1, <1>3, <2>1, <2>2 DEF Types
  <2> QED BY <1>1, <2>1, <2>4, <2>5 DEF AskRule, Current
<1>5. CASE ~(Walk(t) /\ Pages[page[t]] = "mapped")
  <2>1. page' = page
    BY <1>5 DEF Walk, Turn, Path, NoDirectory, Lookup
  <2>2. ptr' \in [Threads -> BOOLEAN] /\ alive' \in BOOLEAN
    BY <1>5 DEF Types, Walk, Turn, Path, NoDirectory, Lookup, Goto
  <2>3. Types'
    BY <1>1, <1>3, <2>1, <2>2 DEF Types
  <2>4. pc'[t] # "walk" => Pages[page[t]] = "mz"
    BY <1>1, <1>5 DEF Walk, Turn, Path, NoDirectory, Lookup, Goto, Types,
       WalkRule
  <2>5. WalkRule(t)'
    BY <1>1, <2>1, <2>4 DEF WalkRule
  <2>6. AskRule(t)'
    BY <1>1, <1>3 DEF AskRule, InSymbol, Current
  <2> QED BY <2>3, <2>5, <2>6
<1> QED BY <1>4, <1>5

(* A call begins, or a thread makes up its mind.                           *)
LEMMA VerdictStep ==
  ASSUME AskInv, NEW t \in Threads,
         \/ \E f \in Functions : Enter(t, f)
         \/ Import(t) \/ Thunk(t) \/ NoThunk(t) \/ Unknown(t)
  PROVE  Types' /\ AskRule(t)' /\ WalkRule(t)'
<1> Types /\ AskRule(t)
  BY DEF AskInv
<1>1. /\ pc' \in [Threads -> Places]
      /\ pc'[t] \in {"idle", "classify", "unknown", "dump"}
  BY DEF Types, Enter, Import, Thunk, NoThunk, Unknown, Answered, Goto, Places
<1>2. /\ fn' \in [Threads -> Functions] /\ calls' \in [Threads -> Nat]
      /\ ins' \in [Threads -> Nat] /\ UNCHANGED <<asked, page, ptr, alive>>
  <2>1. ASSUME NEW f \in Functions, Enter(t, f)
        PROVE  /\ fn' \in [Threads -> Functions]
               /\ calls' \in [Threads -> Nat] /\ ins' \in [Threads -> Nat]
               /\ UNCHANGED <<asked, page, ptr, alive>>
    BY <2>1 DEF Types, Enter
  <2>2. CASE Import(t) \/ Thunk(t) \/ NoThunk(t) \/ Unknown(t)
    BY <2>2 DEF Types, Import, Thunk, NoThunk, Unknown
  <2> QED BY <2>1, <2>2
<1>3. ins'[t] = 0
  BY DEF Types, Enter, Import, Thunk, NoThunk, Unknown, Answered, Goto, AskRule
<1>4. UNCHANGED log \/ \E l : log' = Append(log, l)
  BY DEF Enter, Import, Thunk, NoThunk, Unknown, Log
<1>5. log' \in Seq({log'[i] : i \in DOMAIN log'})
  BY <1>4, OneMoreLine DEF Types
<1>6. Types'
  BY <1>1, <1>2, <1>5 DEF Types
<1>7. pc'[t] \in {"unknown", "dump"} => Shape[fn[t]] # "import" /\ fn' = fn
  <2>1. ASSUME NEW f \in Functions, Enter(t, f) PROVE pc'[t] = "classify"
    BY <2>1 DEF Enter, Goto, Types
  <2>2. CASE Import(t) \/ Thunk(t)
    BY <2>2 DEF Import, Thunk, Answered, Goto, Types
  <2>3. CASE NoThunk(t)
    <3>1. Shape[fn[t]] \in Thunks /\ fn' = fn
      BY <2>3 DEF NoThunk
    <3> QED BY <3>1 DEF Thunks
  <2>4. CASE Unknown(t)
    <3>1. pc[t] = "unknown" /\ fn' = fn
      BY <2>4 DEF Unknown, Goto
    <3> QED BY <3>1 DEF AskRule
  <2> QED BY <2>1, <2>2, <2>3, <2>4
<1> QED BY <1>1, <1>3, <1>6, <1>7 DEF AskRule, WalkRule, InSymbol

(* A line of a dump ends the sweep or moves it on to the next instruction. *)
LEMMA DumpStep ==
  ASSUME AskInv, NEW t \in Threads,
         Dump(t) \/ Failed(t) \/ NamedLine(t) \/ PlainLine(t)
  PROVE  Types' /\ AskRule(t)' /\ WalkRule(t)'
<1> Types /\ AskRule(t)
  BY DEF AskInv
<1>1. UNCHANGED <<fn, asked, page, ptr, calls, alive>>
  BY DEF Dump, Failed, NamedLine, PlainLine
<1>2. fn[t] \in Functions
  BY DEF Types
<1>3. \E l : log' = Append(log, l)
  BY DEF Dump, Failed, NamedLine, PlainLine, Log
<1>4. log' \in Seq({log'[i] : i \in DOMAIN log'})
  BY <1>3, OneMoreLine DEF Types
<1>5. Len(Code[fn[t]]) \in Nat /\ DOMAIN Code[fn[t]] = 1..Len(Code[fn[t]])
  BY <1>2, CodeGoesOn
<1>6. \/ pc' = [pc EXCEPT ![t] = "idle"] /\ ins' = ins
      \/ /\ Shape[fn[t]] # "import"
         /\ \E i \in 1..(Len(Code[fn[t]]) + 1) :
              /\ pc' = [pc EXCEPT ![t] = "sweep"]
              /\ ins' = [ins EXCEPT ![t] = i]
              /\ i # 1 => Code[fn[t]][i - 1].op \notin Stops \cup {"bad"}
  <2>1. CASE Dump(t)
    <3>1. /\ pc' = [pc EXCEPT ![t] = "sweep"] /\ ins' = [ins EXCEPT ![t] = 1]
          /\ Shape[fn[t]] # "import"
      <4>1. pc[t] = "dump"
        BY <2>1 DEF Dump, Goto
      <4>2. Shape[fn[t]] # "import"
        BY <4>1 DEF AskRule
      <4> QED BY <2>1, <4>2 DEF Dump, Goto
    <3>2. 1 \in 1..(Len(Code[fn[t]]) + 1)
      BY <1>5
    <3> QED BY <3>1, <3>2
  <2>2. CASE Failed(t)
    BY <2>2 DEF Failed, Sweeps, Goto
  <2>3. CASE NamedLine(t) \/ PlainLine(t)
    <3>1. /\ ins[t] \in 1..Len(Code[fn[t]]) /\ AfterLine(t)
          /\ Shape[fn[t]] # "import" /\ Current(t).op # "bad"
      BY <1>5, <2>3 DEF NamedLine, PlainLine, AskRule, InSymbol, Named
    <3>2. CASE Current(t).op \in Stops
      BY <3>1, <3>2 DEF AfterLine
    <3>3. CASE Current(t).op \notin Stops
      <4>1. /\ ins[t] + 1 \in 1..(Len(Code[fn[t]]) + 1)
            /\ (ins[t] + 1) - 1 = ins[t]
        BY <1>5, <3>1
      <4>2. /\ pc' = [pc EXCEPT ![t] = "sweep"]
            /\ ins' = [ins EXCEPT ![t] = ins[t] + 1]
        BY <3>1, <3>3 DEF AfterLine
      <4> QED BY <3>1, <3>3, <4>1, <4>2 DEF Current
    <3> QED BY <3>2, <3>3
  <2> QED BY <2>1, <2>2, <2>3
<1>7. CASE pc' = [pc EXCEPT ![t] = "idle"] /\ ins' = ins
  <2>1. Types'
    BY <1>1, <1>4, <1>7 DEF Types, Places
  <2>2. pc'[t] = "idle"
    BY <1>7 DEF Types
  <2> QED BY <2>1, <2>2 DEF AskRule, WalkRule, InSymbol
<1>8. ASSUME NEW i \in 1..(Len(Code[fn[t]]) + 1),
             pc' = [pc EXCEPT ![t] = "sweep"], ins' = [ins EXCEPT ![t] = i],
             Shape[fn[t]] # "import",
             i # 1 => Code[fn[t]][i - 1].op \notin Stops \cup {"bad"}
      PROVE  Types' /\ AskRule(t)' /\ WalkRule(t)'
  <2>1. Types'
    BY <1>1, <1>4, <1>8, <1>5 DEF Types, Places
  <2>2. pc'[t] = "sweep" /\ ins'[t] = i /\ fn' = fn
    BY <1>1, <1>8 DEF Types
  <2> QED BY <1>8, <2>1, <2>2 DEF AskRule, WalkRule, InSymbol
<1> QED BY <1>6, <1>7, <1>8

(* Every step keeps the rules of the thread that makes it, and leaves the  *)
(* places of the others alone.                                             *)
LEMMA AskInvStep == AskInv /\ [Next]_vars => AskInv'
<1> SUFFICES ASSUME AskInv, [Next]_vars PROVE AskInv'
  OBVIOUS
<1>1. CASE UNCHANGED vars
  BY <1>1 DEF vars, AskInv, Types, AskRule, WalkRule, Current
<1>2. CASE Next
  <2>1. PICK t \in Threads : Step(t)
    BY <1>2 DEF Next
  <2>2. Types' /\ AskRule(t)' /\ WalkRule(t)'
    <3>1. CASE Faults(t)
      <4>1. alive' = FALSE /\ UNCHANGED <<pc, fn, ins, asked, page, ptr, calls, name, log>>
        BY <3>1, FaultStays
      <4>2. Types /\ AskRule(t) /\ WalkRule(t)
        BY DEF AskInv
      <4>3. Types'
        BY <4>1, <4>2 DEF Types
      <4> QED BY <4>1, <4>2, <4>3 DEF AskRule, WalkRule, Current
    <3> QED BY <2>1, <3>1, AskStep, SymbolStep, VerdictStep, DumpStep DEF Step
  <2>3. ASSUME NEW u \in Threads \ {t} PROVE (AskRule(u) /\ WalkRule(u))'
    <3>1. /\ pc'[u] = pc[u] /\ fn'[u] = fn[u] /\ ins'[u] = ins[u]
          /\ asked'[u] = asked[u] /\ page'[u] = page[u]
      BY <2>1, OthersStay DEF AskInv
    <3>2. AskRule(u) /\ WalkRule(u)
      BY DEF AskInv
    <3> QED BY <3>1, <3>2 DEF AskRule, WalkRule, Current
  <2> QED BY <2>2, <2>3 DEF AskInv
<1> QED BY <1>1, <1>2

(* At every place a thread asks symbol() about what it is going to call or *)
(* to name, and the pages that its walk has left behind are mapped         *)
(* (native.c:41-68, x86dump.c:26-46,97-113).                               *)
THEOREM AskInvHolds == Spec => []AskInv
<1>1. Init => AskInv
  BY AskInvInit
<1>2. AskInv /\ [Next]_vars => AskInv'
  BY AskInvStep
<1> QED BY <1>1, <1>2, PTL DEF Spec

-----------------------------------------------------------------------------
(***************************************************************************)
(* Faults.                                                                 *)
(***************************************************************************)
(* The walk over mapped pages and down to an image or a gap finds the      *)
(* image that the address lies in, if there is one.                        *)
LEMMA WalkFinds ==
  ASSUME AskInv, NEW t \in Threads, pc[t] \in InSymbol,
         NEW p \in DOMAIN Pages, LiesIn(asked[t], p)
  PROVE  /\ Pages[page[t]] # "gap"
         /\ Pages[page[t]] = "mz" => page[t] = p
<1>1. /\ p \in Nat /\ page[t] \in Nat /\ PageOf[asked[t]] \in Nat
      /\ page[t] <= PageOf[asked[t]]
      /\ \A q \in (page[t] + 1)..PageOf[asked[t]] : Pages[q] = "mapped"
  BY MemoryAssumption DEF AskInv, Types, WalkRule
<1>2. p <= page[t]
  <2> SUFFICES ASSUME page[t] < p PROVE FALSE
    BY <1>1
  <2>1. p \in (page[t] + 1)..PageOf[asked[t]]
    BY <1>1 DEF LiesIn
  <2> QED BY <1>1, <2>1 DEF LiesIn
<1>3. page[t] # p => page[t] \in (p + 1)..PageOf[asked[t]]
  BY <1>1, <1>2
<1> QED BY <1>3 DEF LiesIn

(* What a call of a sound function asks symbol() about lies in an image    *)
(* with exports.                                                           *)
LEMMA AskedInImage ==
  ASSUME AskInv, NEW t \in Threads, pc[t] \in InSymbol, Sound(fn[t])
  PROVE  InImage(asked[t])
<1>1. AskRule(t) /\ fn[t] \in Functions
  BY DEF AskInv, Types
<1>2. CASE ins[t] = 0
  BY <1>1, <1>2 DEF AskRule, Sound
<1>3. CASE ins[t] # 0
  <2>1. /\ ins[t] \in DOMAIN Code[fn[t]] /\ SafeToDump(fn[t])
        /\ Code[fn[t]][ins[t]].op \in Named
        /\ asked[t] = Code[fn[t]][ins[t]].to
    BY <1>1, <1>3, CodeGoesOn DEF AskRule, Sound, Current
  <2> QED BY <2>1 DEF SafeToDump
<1> QED BY <1>2, <1>3

(* The untested loads of native() and x86dump() fail in a function that is *)
(* not sound, and extra[256] overflows with a name that is too long.       *)
LEMMA FaultUnsound ==
  ASSUME AskInv, NEW t \in Threads, Faults(t)
  PROVE  pc[t] # "idle" /\ (~Sound(fn[t]) \/ name \in TooLong)
<1>1. AskRule(t) /\ fn[t] \in Functions
  BY DEF AskInv, Types
<1>2. CASE ClassifyFaults(t)
  BY <1>2 DEF ClassifyFaults, Fault, Sound
<1>3. CASE ThunkFaults(t)
  BY <1>3 DEF ThunkFaults, Fault, Sound
<1>4. CASE SweepFaults(t)
  <2>1. /\ pc[t] = "sweep" /\ Shape[fn[t]] # "import"
        /\ ins[t] \in 1..(Len(Code[fn[t]]) + 1)
        /\ ins[t] # 1 => Code[fn[t]][ins[t] - 1].op \notin Stops \cup {"bad"}
    BY <1>1, <1>4 DEF SweepFaults, Fault, AskRule
  <2>2. CASE ins[t] \in DOMAIN Code[fn[t]]
    BY <1>4, <2>1, <2>2 DEF SweepFaults, Current, Sound, SafeToDump
  <2>3. CASE ins[t] \notin DOMAIN Code[fn[t]]
    <3>1. Len(Code[fn[t]]) \in Nat /\ DOMAIN Code[fn[t]] = 1..Len(Code[fn[t]])
          /\ (Code[fn[t]] # <<>> => Len(Code[fn[t]]) \in DOMAIN Code[fn[t]])
      BY <1>1, CodeGoesOn
    <3>2. ins[t] - 1 = Len(Code[fn[t]])
      BY <2>1, <2>3, <3>1
    <3>3. Code[fn[t]] # <<>> => ins[t] # 1
      BY <3>1, <3>2
    <3> QED BY <2>1, <3>2, <3>3 DEF Sound, SafeToDump
  <2> QED BY <2>2, <2>3
<1>5. CASE ExtraOverflows(t)
  BY <1>5, LengthAssumption DEF ExtraOverflows, Fault, Text
<1> QED BY <1>2, <1>3, <1>4, <1>5 DEF Faults

(* Only a call of a function that is not sound, or a name that is too long *)
(* for extra[256], brings the program down, whatever the threads do to     *)
(* each other's names (native.c:36-63, x86dump.c:26-136).                  *)
THEOREM FaultsExplainedHolds == Spec => []FaultsExplained
<1>1. Init => FaultsExplained
  BY DEF Init, FaultsExplained
<1>2. AskInv /\ FaultsExplained /\ [Next]_vars => FaultsExplained'
  <2> SUFFICES ASSUME AskInv, FaultsExplained, [Next]_vars
               PROVE  FaultsExplained'
    OBVIOUS
  <2>1. CASE UNCHANGED vars
    BY <2>1 DEF vars, FaultsExplained
  <2>2. CASE Next
    <3>1. PICK t \in Threads : Step(t)
      BY <2>2 DEF Next
    <3>2. alive
      BY <3>1, FaultStays DEF Step, Enter, Classify, Walk, Turn, Path,
         NoDirectory, Lookup, Import, Thunk, NoThunk, Unknown, Dump, Failed,
         Sweeps, Extra, NamedLine, PlainLine, Answered, Goto
    <3>3. CASE alive' = alive
      BY <3>2, <3>3 DEF FaultsExplained
    <3>4. CASE Faults(t)
      BY <3>4, FaultStays, FaultUnsound DEF FaultsExplained
    <3>5. CASE alive' # alive /\ ~Faults(t)
      <4>1. /\ UNCHANGED <<pc, fn, name>>
            /\ \/ pc[t] = "walk" /\ Pages[page[t]] = "gap"
               \/ pc[t] = "lookup" /\ Exports[page[t]] = None
        BY <3>1, <3>5 DEF Step, Enter, Classify, Walk, Turn, Path, NoDirectory,
           Lookup, Import, Thunk, NoThunk, Unknown, Dump, Failed, Sweeps, Extra,
           NamedLine, PlainLine, Goto
      <4>2. pc[t] = "lookup" => Pages[page[t]] = "mz"
        BY DEF AskInv, WalkRule, InSymbol
      <4>3. ~InImage(asked[t])
        BY <4>1, <4>2, WalkFinds DEF InImage, InSymbol
      <4>4. ~Sound(fn[t])
        BY <4>1, <4>3, AskedInImage DEF InSymbol
      <4> QED BY <4>1, <4>4 DEF FaultsExplained
    <3> QED BY <3>3, <3>4, <3>5
  <2> QED BY <2>1, <2>2
<1> QED BY <1>1, <1>2, AskInvHolds, PTL DEF Spec

-----------------------------------------------------------------------------
(***************************************************************************)
(* Names and verdicts, when no two threads use the buffer at once.         *)
(***************************************************************************)
(* At most one thread is between the first write of symbol() to its buffer *)
(* and the use of the result; with one thread this is so.                  *)
BufferAlone ==
  \A t, u \in Threads :
    pc[t] \in {"lookup", "answer"} /\ pc[u] \in {"lookup", "answer"} => t = u

(* What the buffer holds for the thread that uses it, and why a function   *)
(* is not known.                                                           *)
BufferRule(t) ==
  /\ pc[t] = "lookup" => name = [image |-> page[t], export |-> None]
  /\ pc[t] = "answer" => Text(t) = TrueName[asked[t]]
  /\ pc[t] = "unknown" => Shape[fn[t]] # "import" /\ ~IsThunk(fn[t])

(* One line of the log is right. *)
Right(l) ==
  /\ HasName(l) => l.text = TrueName[Callee(l)]
  /\ l.kind \in Thunks => IsThunk(l.fn) /\ l.kind = Shape[l.fn]
  /\ l.kind = "unknown" => Shape[l.fn] # "import" /\ ~IsThunk(l.fn)

AloneInv ==
  /\ \A t \in Threads : BufferRule(t)
  /\ \A i \in DOMAIN log : Right(log[i])

(* Whoever gets an answer from symbol() while nobody else uses the buffer  *)
(* has the name of the address it asked about.                             *)
LEMMA AnswerRight ==
  ASSUME AskInv, AloneInv, NEW t \in Threads, NoDirectory(t) \/ Lookup(t)
  PROVE  BufferRule(t)'
<1>1. Types /\ WalkRule(t) /\ BufferRule(t)
  BY DEF AskInv, AloneInv
<1>2. pc[t] = "lookup" /\ name = [image |-> page[t], export |-> None]
  BY <1>1 DEF NoDirectory, Lookup, Goto, BufferRule
<1>3. asked[t] \in Addresses /\ page[t] \in DOMAIN Pages
      /\ LiesIn(asked[t], page[t])
  BY <1>1, <1>2 DEF Types, WalkRule, LiesIn, InSymbol
<1>4. TrueName[asked[t]] =
        IF Exports[page[t]] = None \/ Matches(Exports[page[t]], asked[t]) = {}
          THEN Blank
          ELSE [image |-> page[t],
                export |-> FirstName(Exports[page[t]], asked[t])]
  BY <1>3, NameAssumption
<1>5. pc'[t] \in {"lookup", "answer"} /\ asked' = asked /\ page' = page
  BY <1>1, <1>2 DEF NoDirectory, Lookup, Goto, Types
<1>6. CASE pc'[t] = "lookup"
  <2>1. name' = name
    BY <1>1, <1>6 DEF NoDirectory, Lookup, Goto, Types
  <2> QED BY <1>2, <1>5, <1>6, <2>1 DEF BufferRule
<1>7. CASE pc'[t] = "answer"
  <2>1. CASE NoDirectory(t)
    <3>1. Exports[page[t]] = None /\ ~ptr'[t]
      BY <1>1, <1>2, <1>7, <2>1 DEF NoDirectory, Types
    <3> QED BY <1>4, <1>5, <1>7, <3>1 DEF BufferRule, Text
  <2>2. CASE Lookup(t) /\ Matches(Exports[page[t]], asked[t]) = {}
    <3>1. ~ptr'[t]
      BY <1>1, <2>2 DEF Lookup, Types
    <3> QED BY <1>4, <1>5, <1>7, <2>2, <3>1 DEF BufferRule, Text
  <2>3. CASE Lookup(t) /\ Matches(Exports[page[t]], asked[t]) # {}
    <3>1. /\ Exports[page[t]] # None /\ ptr'[t]
          /\ name' = [name EXCEPT !.export =
                        FirstName(Exports[page[t]], asked[t])]
      BY <1>1, <2>3 DEF Lookup, Types
    <3>2. name' = TrueName[asked[t]]
      BY <1>2, <1>4, <2>3, <3>1
    <3> QED BY <1>5, <1>7, <3>1, <3>2 DEF BufferRule, Text
  <2> QED BY <2>1, <2>2, <2>3
<1> QED BY <1>5, <1>6, <1>7

(* A new line is right when the buffer is right for its thread.            *)
LEMMA LineRight ==
  ASSUME AskInv, AloneInv, NEW t \in Threads, NEW kind, NEW text,
         Log(t, kind, text),
         \/ kind \in {"head", "failed"}
         \/ kind = "ins" /\ Current(t).op \notin Named
         \/ kind = "unknown" /\ pc[t] = "unknown"
         \/ /\ pc[t] = "answer" /\ text = Text(t)
            /\ \/ kind = "import" /\ ins[t] = 0
               \/ kind \in Thunks /\ ins[t] = 0 /\ kind = Shape[fn[t]]
                  /\ Recognised(t)
               \/ kind = "ins" /\ ins[t] # 0
  PROVE  \A i \in DOMAIN log' : Right(log'[i])
<1> DEFINE l == [by |-> t, kind |-> kind, fn |-> fn[t], ins |-> ins[t],
                 text |-> text]
<1>1. log' = Append(log, l) /\ AskRule(t) /\ BufferRule(t)
  BY DEF Log, AskInv, AloneInv
<1>2. Right(l)
  <2>1. CASE pc[t] = "answer" /\ text = Text(t)
    <3>1. text = TrueName[Callee(l)]
      BY <1>1, <2>1 DEF AskRule, BufferRule, InSymbol, Callee, Current
    <3>2. kind \in Thunks /\ kind = Shape[fn[t]] /\ ins[t] = 0
            /\ Recognised(t) => IsThunk(fn[t])
      BY <1>1, <2>1, <3>1, NativeAssumption DEF AskRule, InSymbol, Leads,
         IsThunk, Text, Callee, Thunks, Recognised, AskInv, Types
    <3>3. kind \in {"head", "failed", "ins", "import"}
            \/ (kind \in Thunks /\ kind = Shape[fn[t]] /\ IsThunk(fn[t]))
      BY <2>1, <3>2
    <3> QED BY <3>1, <3>3 DEF Right, Thunks
  <2>2. CASE kind = "unknown" /\ pc[t] = "unknown"
    BY <1>1, <2>2 DEF Right, HasName, Thunks, BufferRule
  <2>3. CASE \/ kind \in {"head", "failed"}
             \/ kind = "ins" /\ Current(t).op \notin Named
    BY <2>3 DEF Right, HasName, Thunks, Current
  <2> QED BY <2>1, <2>2, <2>3
<1>3. /\ DOMAIN log' = (DOMAIN log) \cup {Len(log) + 1}
      /\ log'[Len(log) + 1] = l
      /\ \A i \in DOMAIN log : log'[i] = log[i]
  <2> HIDE DEF l
  <2> QED BY <1>1, OneMoreLine DEF AskInv, Types
<1> QED BY <1>2, <1>3 DEF AloneInv

(* No line has been written, and nothing is in the buffer.                 *)
LEMMA AloneInvInit == Init => AloneInv
BY DEF Init, AloneInv, BufferRule

(* While nobody disturbs the buffer, each thread reads what it asked for.  *)
LEMMA AloneStep ==
  ASSUME AskInv, AloneInv, BufferAlone, BufferAlone', NEW t \in Threads, Step(t)
  PROVE  AloneInv'
<1> AskRule(t) /\ WalkRule(t) /\ BufferRule(t) /\ Types /\ Types'
  BY AskInvStep DEF AskInv, AloneInv, Next
<1>1. BufferRule(t)'
  <2>1. CASE Path(t)
    <3>1. pc'[t] = "lookup" /\ name' = [image |-> page'[t], export |-> None]
      BY <2>1 DEF Path, Goto, Types
    <3> QED BY <3>1 DEF BufferRule
  <2>2. CASE NoDirectory(t) \/ Lookup(t)
    BY <2>2, AnswerRight
  <2>3. CASE Classify(t)
    BY <2>3 DEF Classify, Goto, Types, BufferRule, Leads, IsThunk, Thunks
  <2>4. CASE NoThunk(t)
    <3>1. /\ pc[t] = "answer" /\ ins[t] = 0 /\ Shape[fn[t]] \in Thunks
          /\ pc'[t] = "unknown" /\ fn' = fn
          /\ ~(ptr[t] /\ name = Engine[Shape[fn[t]]])
      BY <2>4 DEF NoThunk, Answered, Goto, Types, Recognised
    <3>2. Text(t) = TrueName[Target[fn[t]]] /\ Engine[Shape[fn[t]]] # Blank
      BY <3>1, NameAssumption DEF BufferRule, AskRule, InSymbol
    <3> QED BY <3>1, <3>2 DEF BufferRule, IsThunk, Text, Thunks
  <2>5. CASE Walk(t)
    <3>1. pc'[t] \in {"walk", "path"}
      BY <2>5 DEF Walk, Turn, Types
    <3> QED BY <3>1 DEF BufferRule
  <2>6. CASE \/ \E f \in Functions : Enter(t, f)
             \/ Import(t) \/ Thunk(t) \/ Unknown(t) \/ Dump(t) \/ Failed(t)
             \/ Extra(t) \/ NamedLine(t) \/ PlainLine(t)
    <3>1. pc'[t] \in {"classify", "idle", "dump", "sweep", "walk"}
      BY <2>6 DEF Enter, Import, Thunk, Unknown, Dump, Failed, Sweeps, Extra,
         NamedLine, PlainLine, AfterLine, Answered, Goto, Types
    <3> QED BY <3>1 DEF BufferRule
  <2>7. CASE Faults(t)
    BY <2>7, FaultStays DEF BufferRule, Text
  <2> QED BY <2>1, <2>2, <2>3, <2>4, <2>5, <2>6, <2>7 DEF Step
<1>2. ASSUME NEW u \in Threads \ {t} PROVE BufferRule(u)'
  <2>1. /\ pc'[u] = pc[u] /\ fn'[u] = fn[u] /\ asked'[u] = asked[u]
        /\ page'[u] = page[u] /\ ptr'[u] = ptr[u]
    BY OthersStay
  <2>2. BufferRule(u)
    BY DEF AloneInv
  <2>3. pc[u] \in {"lookup", "answer"} => name' = name
    <3>1. CASE Path(t)
      <4>1. pc'[t] = "lookup"
        BY <3>1 DEF Path, Goto, Types
      <4> QED BY <2>1, <4>1 DEF BufferAlone
    <3>2. CASE Lookup(t)
      BY <3>2 DEF Lookup, Goto, BufferAlone
    <3>3. CASE ~Path(t) /\ ~Lookup(t)
      BY <3>3, FaultStays DEF Step, Enter, Classify, Walk, Turn, NoDirectory, Import, Thunk,
         NoThunk, Unknown, Dump, Failed, Sweeps, Extra, NamedLine, PlainLine
    <3> QED BY <3>1, <3>2, <3>3
  <2> QED BY <2>1, <2>2, <2>3 DEF BufferRule, Text
<1>3. \A i \in DOMAIN log' : Right(log'[i])
  <2>1. CASE UNCHANGED log
    BY <2>1 DEF AloneInv
  <2>2. CASE Import(t)
    BY <2>2, LineRight DEF Import, Answered, Goto
  <2>3. CASE Thunk(t)
    BY <2>3, LineRight DEF Thunk, Answered, Goto
  <2>4. CASE Unknown(t)
    BY <2>4, LineRight DEF Unknown, Goto
  <2>5. CASE Dump(t)
    BY <2>5, LineRight DEF Dump
  <2>6. CASE Failed(t)
    BY <2>6, LineRight DEF Failed
  <2>7. CASE NamedLine(t)
    BY <2>7, LineRight DEF NamedLine
  <2>8. CASE PlainLine(t)
    BY <2>8, LineRight DEF PlainLine
  <2> QED BY <2>1, <2>2, <2>3, <2>4, <2>5, <2>6, <2>7, <2>8, FaultStays DEF Step, Enter,
          Classify, Walk, Turn, Path, NoDirectory, Lookup, NoThunk, Extra
<1> QED BY <1>1, <1>2, <1>3 DEF AloneInv

(* As long as only one thread at a time is between the first write of      *)
(* symbol() and the use of its result, every line that names a function    *)
(* names the one that is called, and native() recognises the thunks of the *)
(* runtime and nothing else (native.c:38-68, x86dump.c:97-113).            *)
THEOREM NamesRightAlone ==
  Spec /\ []BufferAlone => [](NamesOwnCallee /\ VerdictRight)
<1>1. Init => AloneInv
  BY AloneInvInit
<1>2. AskInv /\ AloneInv /\ BufferAlone /\ BufferAlone' /\ [Next]_vars
        => AloneInv'
  <2> SUFFICES ASSUME AskInv, AloneInv, BufferAlone, BufferAlone', [Next]_vars
               PROVE  AloneInv'
    OBVIOUS
  <2>1. CASE UNCHANGED vars
    BY <2>1 DEF vars, AloneInv, BufferRule, Text
  <2>2. CASE Next
    BY <2>2, AloneStep DEF Next
  <2> QED BY <2>1, <2>2
<1>3. AloneInv => NamesOwnCallee /\ VerdictRight
  BY DEF AloneInv, Right, NamesOwnCallee, VerdictRight
<1> QED BY <1>1, <1>2, <1>3, AskInvHolds, PTL DEF Spec

(* One thread always has the buffer to itself (native.c:41-68).            *)
THEOREM VerdictRightHolds ==
  ASSUME NEW u, Threads = {u}
  PROVE  Spec => [](NamesOwnCallee /\ VerdictRight)
<1>1. BufferAlone
  BY DEF BufferAlone
<1> QED BY <1>1, NamesRightAlone, PTL

-----------------------------------------------------------------------------
(***************************************************************************)
(* What is said of a call, whatever other threads do.                      *)
(***************************************************************************)
Verdicts(t) == {i \in Lines(t) : IsVerdict(log[i])}

IsLast(t, j) == j \in Lines(t) /\ \A i \in Lines(t) : i <= j

(* native() has not said yet what the function is; x86dump() is at work.   *)
Undecided(t) ==
  pc[t] \in {"classify", "unknown"} \/ (pc[t] \in InSymbol /\ ins[t] = 0)

Sweeping(t) == pc[t] = "sweep" \/ (pc[t] \in InSymbol /\ ins[t] # 0)

(* The lines of a thread so far follow one another, and there is a verdict *)
(* for every call.                                                         *)
LinesRule(t) ==
  /\ \A i, j \in Lines(t) : Adjacent(t, i, j) => Follows(log[i], log[j])
  /\ \A j \in Lines(t) : (\A i \in Lines(t) : j <= i) => IsVerdict(log[j])
  /\ IsFiniteSet(Verdicts(t))

(* What the last line of a thread says of the place it has reached.        *)
Told(t, l) ==
  /\ pc[t] = "idle" \/ Undecided(t) => Ends(l)
  /\ pc[t] = "dump" => l.kind = "unknown" /\ l.fn = fn[t]
  /\ Sweeping(t) =>
       /\ l.fn = fn[t]
       /\ \/ ins[t] = 1 /\ l.kind = "head"
          \/ /\ l.kind = "ins" /\ ins[t] = l.ins + 1
             /\ Code[l.fn][l.ins].op \notin Stops

TellRule(t) ==
  /\ LinesRule(t)
  /\ Cardinality(Verdicts(t)) = IF Undecided(t) THEN calls[t] - 1 ELSE calls[t]
  /\ \A j \in Lines(t) : IsLast(t, j) => Told(t, log[j])
  /\ Lines(t) = {} => pc[t] = "idle" \/ Undecided(t)

TellInv == \A t \in Threads : TellRule(t)

(* A line that may come next keeps the lines of its thread in order, and   *)
(* is the last one then.                                                   *)
LEMMA NextLine ==
  ASSUME Types, NEW t, NEW l, l.by = t, log' = Append(log, l), LinesRule(t),
         \A j \in Lines(t) : IsLast(t, j) => Follows(log[j], l),
         Lines(t) = {} => IsVerdict(l)
  PROVE  /\ LinesRule(t)'
         /\ Lines(t)' # {}
         /\ \A j \in Lines(t)' : IsLast(t, j)' => log'[j] = l
         /\ Cardinality(Verdicts(t))' =
              Cardinality(Verdicts(t)) + IF IsVerdict(l) THEN 1 ELSE 0
<1> DEFINE n == Len(log) + 1
<1>1. /\ n \in Nat /\ log'[n] = l /\ DOMAIN log = 1..(n - 1)
      /\ DOMAIN log' = DOMAIN log \cup {n}
      /\ \A i \in DOMAIN log : log'[i] = log[i] /\ i < n
  BY OneMoreLine DEF Types
<1> HIDE DEF n
<1>2. /\ Lines(t)' = Lines(t) \cup {n} /\ n \notin Lines(t)
      /\ \A i \in Lines(t) : i \in Nat /\ i < n /\ log'[i] = log[i]
  BY <1>1 DEF Lines
<1>3. ASSUME NEW i \in Lines(t)', NEW j \in Lines(t)', Adjacent(t, i, j)'
      PROVE  Follows(log'[i], log'[j])
  <2>1. i < j /\ \A k \in Lines(t) \cup {n} : k <= i \/ j <= k
    BY <1>2, <1>3 DEF Adjacent
  <2>2. i \in Lines(t) /\ log'[i] = log[i]
    <3>1. i \in Lines(t) \cup {n} /\ j \in Lines(t) \cup {n}
      BY <1>2, <1>3
    <3>2. i # n
      BY <1>1, <1>2, <2>1, <3>1
    <3> QED BY <1>2, <3>1, <3>2
  <2>3. CASE j = n
    <3>1. IsLast(t, i)
      BY <1>1, <1>2, <2>1, <2>2, <2>3 DEF IsLast
    <3> QED BY <1>1, <2>2, <2>3, <3>1
  <2>4. CASE j # n
    <3>1. j \in Lines(t) /\ log'[j] = log[j] /\ Adjacent(t, i, j)
      BY <1>2, <2>1, <2>4 DEF Adjacent
    <3> QED BY <2>2, <3>1 DEF LinesRule
  <2> QED BY <2>3, <2>4
<1>4. ASSUME NEW j \in Lines(t)', \A i \in Lines(t)' : j <= i
      PROVE  IsVerdict(log'[j])
  <2>1. CASE j = n
    <3>1. Lines(t) = {}
      BY <1>1, <1>2, <1>4, <2>1
    <3> QED BY <1>1, <2>1, <3>1
  <2>2. CASE j # n
    BY <1>2, <1>4, <2>2 DEF LinesRule
  <2> QED BY <2>1, <2>2
<1>5. /\ Verdicts(t)' = IF IsVerdict(l) THEN Verdicts(t) \cup {n}
                                         ELSE Verdicts(t)
      /\ n \notin Verdicts(t)
  <2>1. Verdicts(t)' = {i \in Lines(t) \cup {n} : IsVerdict(log'[i])}
    BY <1>2 DEF Verdicts
  <2> QED BY <1>1, <1>2, <2>1 DEF Verdicts
<1>6. /\ IsFiniteSet(Verdicts(t)')
      /\ Cardinality(Verdicts(t)') =
           Cardinality(Verdicts(t)) + IF IsVerdict(l) THEN 1 ELSE 0
  <2>1. IsFiniteSet(Verdicts(t)) /\ Cardinality(Verdicts(t)) \in Nat
    BY FS_CardinalityType DEF LinesRule
  <2>2. /\ IsFiniteSet(Verdicts(t) \cup {n})
        /\ Cardinality(Verdicts(t) \cup {n}) = Cardinality(Verdicts(t)) + 1
    BY <1>5, <2>1, FS_AddElement
  <2> QED BY <1>5, <2>1, <2>2
<1>7. LinesRule(t)'
  BY <1>3, <1>4, <1>6 DEF LinesRule
<1>8. ASSUME NEW j \in Lines(t)', IsLast(t, j)' PROVE log'[j] = l
  BY <1>1, <1>2, <1>8 DEF IsLast
<1> QED BY <1>2, <1>6, <1>7, <1>8

(* The lines of the other threads stay as they are.                        *)
LEMMA OtherLines ==
  ASSUME Types, NEW t \in Threads, Step(t), NEW u \in Threads \ {t}
  PROVE  Lines(u)' = Lines(u) /\ \A i \in Lines(u) : log'[i] = log[i]
<1>1. UNCHANGED log \/ \E l : log' = Append(log, l) /\ l.by = t
  <2>1. CASE Faults(t)
    BY <2>1, FaultStays
  <2>2. CASE ~Faults(t)
    BY <2>2 DEF Step, Enter, Classify, Walk, Turn, Path, NoDirectory, Lookup,
       Import, Thunk, NoThunk, Unknown, Dump, Failed, Extra, NamedLine,
       PlainLine, Log
  <2> QED BY <2>1, <2>2
<1>2. CASE UNCHANGED log
  BY <1>2 DEF Lines
<1>3. ASSUME NEW l, log' = Append(log, l), l.by = t
      PROVE  Lines(u)' = Lines(u) /\ \A i \in Lines(u) : log'[i] = log[i]
  BY <1>3, OneMoreLine DEF Types, Lines
<1> QED BY <1>1, <1>2, <1>3

(* A verdict may follow the last line of a call, and nothing else may.     *)
LEMMA EndsThenVerdict ==
  ASSUME NEW k, NEW l, Ends(k), IsVerdict(l)
  PROVE  Follows(k, l)
<1>1. /\ k.kind \notin {"unknown", "head"}
      /\ ~(k.kind = "ins" /\ Code[k.fn][k.ins].op \notin Stops)
  BY DEF Ends, Thunks
<1> QED BY <1>1 DEF Follows

(* Steps that say nothing and do not leave the part of the call they are   *)
(* in keep what has been told.                                             *)
LEMMA QuietStep ==
  ASSUME AskInv, TellInv, NEW t \in Threads, Step(t), UNCHANGED log,
         AskInv'
  PROVE  TellRule(t)'
<1> Types /\ Types' /\ AskRule(t) /\ TellRule(t)
  BY DEF AskInv, TellInv
<1>1. Lines(t)' = Lines(t) /\ Verdicts(t)' = Verdicts(t) /\ LinesRule(t)'
      /\ \A j : IsLast(t, j)' <=> IsLast(t, j)
  BY DEF Lines, Verdicts, LinesRule, Adjacent, IsLast, TellRule
<1>2. CASE \E f \in Functions : Enter(t, f)
  <2>1. PICK f \in Functions : Enter(t, f)
    BY <1>2
  <2>2. /\ pc[t] = "idle" /\ pc'[t] = "classify"
        /\ calls[t] \in Nat /\ calls'[t] = calls[t] + 1
    BY <2>1 DEF Enter, Goto, Types
  <2>3. Undecided(t)' /\ ~Undecided(t) /\ ~Sweeping(t)'
    BY <2>2 DEF Undecided, Sweeping, InSymbol
  <2>4. Cardinality(Verdicts(t)) = calls[t]
    BY <2>3 DEF TellRule
  <2>5. ASSUME NEW j \in Lines(t), IsLast(t, j) PROVE Ends(log[j])
    BY <2>2, <2>5 DEF TellRule, Told
  <2> QED BY <1>1, <2>2, <2>3, <2>4, <2>5 DEF TellRule, Told
<1>3. CASE ~\E f \in Functions : Enter(t, f)
  <2>1. /\ UNCHANGED <<fn, ins, calls>>
        /\ pc[t] \notin {"idle", "dump"} /\ pc'[t] \notin {"idle", "dump"}
        /\ Undecided(t)' <=> Undecided(t)
        /\ Sweeping(t)' <=> Sweeping(t)
    <3>1. ~(Import(t) \/ Thunk(t) \/ Unknown(t) \/ Dump(t) \/ Failed(t)
            \/ NamedLine(t) \/ PlainLine(t))
      <4>1. \A l : Append(log, l) # log
        BY OneMoreLine DEF Types
      <4> QED BY <4>1 DEF Import, Thunk, Unknown, Dump, Failed, NamedLine,
                 PlainLine, Log
    <3>2. CASE Classify(t)
      BY <3>2 DEF Classify, Goto, Types, AskRule, Undecided, Sweeping, InSymbol
    <3>3. CASE Walk(t)
      BY <3>3 DEF Walk, Turn, Types, Undecided, Sweeping, InSymbol
    <3>4. CASE Path(t) \/ NoDirectory(t) \/ Lookup(t)
      BY <3>4 DEF Path, NoDirectory, Lookup, Goto, Types, Undecided, Sweeping,
         InSymbol
    <3>5. CASE NoThunk(t)
      BY <3>5 DEF NoThunk, Answered, Goto, Types, Undecided, Sweeping, InSymbol
    <3>6. CASE Extra(t)
      <4>1. /\ pc[t] = "sweep" /\ pc'[t] = "walk" /\ ins[t] \in DOMAIN Code[fn[t]]
            /\ UNCHANGED <<fn, ins, calls>> /\ ins[t] # 0
        BY <3>6 DEF Extra, Sweeps, Goto, Types, AskRule
      <4> QED BY <4>1 DEF Undecided, Sweeping, InSymbol
    <3>7. CASE Faults(t)
      <4>1. pc[t] \notin {"idle", "dump"}
        BY <3>7 DEF Faults, ClassifyFaults, ThunkFaults, SweepFaults,
           ExtraOverflows, Fault
      <4> QED BY <3>7, <4>1, FaultStays DEF Undecided, Sweeping
    <3> QED BY <1>3, <3>1, <3>2, <3>3, <3>4, <3>5, <3>6, <3>7 DEF Step
  <2>2. Cardinality(Verdicts(t))' =
          IF Undecided(t)' THEN calls'[t] - 1 ELSE calls'[t]
    BY <1>1, <2>1 DEF TellRule
  <2>3. ASSUME NEW j \in Lines(t), IsLast(t, j) PROVE Told(t, log[j])'
    <3>1. Told(t, log[j])
      BY <2>3 DEF TellRule
    <3> QED BY <2>1, <3>1 DEF Told
  <2>4. Lines(t) = {} => Undecided(t)
    BY <2>1 DEF TellRule
  <2> QED BY <1>1, <2>1, <2>2, <2>3, <2>4 DEF TellRule
<1> QED BY <1>2, <1>3

(* A line that follows the last one and tells where its thread goes keeps  *)
(* the rules of that thread.                                               *)
LEMMA TellsOn ==
  ASSUME AskInv, TellInv, NEW t \in Threads, NEW kind, NEW text,
         Log(t, kind, text), UNCHANGED <<fn, calls>>,
         NEW l, l = [by |-> t, kind |-> kind, fn |-> fn[t], ins |-> ins[t],
                     text |-> text],
         \/ Undecided(t) /\ IsVerdict(l)
         \/ /\ pc[t] = "dump" \/ Sweeping(t)
            /\ ~IsVerdict(l)
            /\ \A j \in Lines(t) :
                 IsLast(t, j) /\ Told(t, log[j]) => Follows(log[j], l),
         ~Undecided(t)', Told(t, l)'
  PROVE  TellRule(t)'
<1> Types /\ TellRule(t)
  BY DEF AskInv, TellInv
<1>1. pc[t] \in {"dump", "sweep"} \/ pc[t] \in InSymbol => pc[t] # "idle"
  BY DEF InSymbol
<1>2. ~Undecided(t) => Lines(t) # {}
  BY <1>1 DEF TellRule, Sweeping
<1>3. /\ Undecided(t) => ~Sweeping(t) /\ pc[t] # "dump"
      /\ Undecided(t) <=> IsVerdict(l)
  BY DEF Undecided, Sweeping, InSymbol
<1>4. \A j \in Lines(t) : IsLast(t, j) => Follows(log[j], l)
  BY <1>3, EndsThenVerdict DEF TellRule, Told
<1>5. Lines(t) = {} => IsVerdict(l)
  BY <1>1, <1>2, <1>3
<1>6. l.by = t /\ log' = Append(log, l) /\ LinesRule(t)
  BY DEF Log, TellRule
<1>7. /\ LinesRule(t)' /\ Lines(t)' # {}
      /\ \A j \in Lines(t)' : IsLast(t, j)' => log'[j] = l
      /\ Cardinality(Verdicts(t))' =
           Cardinality(Verdicts(t)) + IF IsVerdict(l) THEN 1 ELSE 0
  BY <1>4, <1>5, <1>6, NextLine
<1>8. Cardinality(Verdicts(t))' = calls'[t]
  BY <1>3, <1>7 DEF TellRule, Types
<1>9. ASSUME NEW j \in Lines(t)', IsLast(t, j)' PROVE Told(t, log[j])'
  BY <1>7, <1>9
<1> QED BY <1>7, <1>8, <1>9 DEF TellRule

(* native() gives its verdict.                                             *)
LEMMA VerdictTells ==
  ASSUME AskInv, TellInv, NEW t \in Threads,
         Import(t) \/ Thunk(t) \/ Unknown(t)
  PROVE  TellRule(t)'
<1> Types
  BY DEF AskInv
<1>1. PICK kind, text :
        /\ kind \in {"import", "unknown"} \cup Thunks
        /\ Log(t, kind, text) /\ UNCHANGED <<fn, calls>>
        /\ pc'[t] = IF kind = "unknown" THEN "dump" ELSE "idle"
  BY DEF Import, Thunk, Unknown, Answered, Goto, Types, Thunks
<1>2. Undecided(t)
  BY DEF Import, Thunk, Unknown, Answered, Goto, Undecided, InSymbol
<1> PICK l : l = [by |-> t, kind |-> kind, fn |-> fn[t], ins |-> ins[t],
                  text |-> text]
  OBVIOUS
<1>3. IsVerdict(l) /\ l.kind = kind /\ l.fn = fn[t]
  BY <1>1 DEF IsVerdict
<1>4. ~Undecided(t)' /\ ~Sweeping(t)'
  BY <1>1 DEF Undecided, Sweeping, InSymbol
<1>5. Told(t, l)'
  BY <1>1, <1>3, <1>4 DEF Told, Ends
<1> QED BY <1>1, <1>2, <1>3, <1>4, <1>5, TellsOn

(* x86dump() writes its first line, or one for an instruction.             *)
LEMMA DumpTells ==
  ASSUME AskInv, TellInv, NEW t \in Threads,
         Dump(t) \/ Failed(t) \/ NamedLine(t) \/ PlainLine(t)
  PROVE  TellRule(t)'
<1> Types /\ AskRule(t)
  BY DEF AskInv
<1>1. PICK kind, text :
        /\ kind \in {"head", "failed", "ins"}
        /\ Log(t, kind, text) /\ UNCHANGED <<fn, calls>>
        /\ kind = "head" <=> Dump(t)
        /\ kind = "failed" <=> Failed(t)
  <2>1. ~(Dump(t) /\ (Failed(t) \/ NamedLine(t) \/ PlainLine(t)))
    BY DEF Dump, Failed, Sweeps, NamedLine, PlainLine, Goto
  <2>2. ~(Failed(t) /\ (NamedLine(t) \/ PlainLine(t)))
    BY DEF Failed, Sweeps, NamedLine, PlainLine, Goto
  <2> QED BY <2>1, <2>2 DEF Dump, Failed, NamedLine, PlainLine
<1> PICK l : l = [by |-> t, kind |-> kind, fn |-> fn[t], ins |-> ins[t],
                  text |-> text]
  OBVIOUS
<1>2. ~IsVerdict(l) /\ l.kind = kind /\ l.fn = fn[t] /\ l.ins = ins[t]
  BY <1>1 DEF IsVerdict, Thunks
<1>3. /\ (pc[t] = "dump" /\ ins[t] = 0) \/ (Sweeping(t) /\ ins[t] # 0)
      /\ kind = "head" <=> pc[t] = "dump"
      /\ kind # "head" => IsDumpLine(l, fn[t], ins[t])
  <2>1. fn[t] \in Functions
    BY DEF Types
  <2>2. CASE Dump(t)
    BY <1>1, <2>2 DEF Dump, Goto, AskRule
  <2>3. CASE Failed(t)
    BY <1>1, <1>2, <2>3 DEF Failed, Sweeps, Goto, Sweeping, IsDumpLine,
       Current, AskRule
  <2>4. CASE NamedLine(t)
    <3>1. /\ kind = "ins" /\ pc[t] = "answer" /\ ins[t] # 0
          /\ ins[t] \in DOMAIN Code[fn[t]] /\ Current(t).op # "bad"
      BY <1>1, <2>1, <2>4, CodeGoesOn DEF NamedLine, Dump, Failed, Sweeps, Goto,
         AskRule, InSymbol, Named
    <3> QED BY <1>2, <3>1 DEF IsDumpLine, Current, Sweeping, InSymbol
  <2>5. CASE PlainLine(t)
    <3>1. /\ kind = "ins" /\ pc[t] = "sweep" /\ ins[t] # 0
          /\ ins[t] \in DOMAIN Code[fn[t]] /\ Current(t).op # "bad"
      BY <1>1, <2>1, <2>5, CodeGoesOn DEF PlainLine, Dump, Failed, Sweeps, Goto,
         AskRule
    <3> QED BY <1>2, <3>1 DEF IsDumpLine, Current, Sweeping
  <2> QED BY <2>2, <2>3, <2>4, <2>5
<1>4. ASSUME NEW j \in Lines(t), Told(t, log[j]) PROVE Follows(log[j], l)
  <2>1. CASE kind = "head"
    <3>1. log[j].kind = "unknown" /\ log[j].fn = fn[t]
      BY <1>3, <1>4, <2>1 DEF Told
    <3> QED BY <1>2, <2>1, <3>1 DEF Follows
  <2>2. CASE kind # "head"
    <3>1. Sweeping(t) /\ kind \in {"failed", "ins"}
      BY <1>1, <1>3, <2>2
    <3>2. /\ log[j].fn = fn[t]
          /\ \/ ins[t] = 1 /\ log[j].kind = "head"
             \/ /\ log[j].kind = "ins" /\ ins[t] = log[j].ins + 1
                /\ Code[log[j].fn][log[j].ins].op \notin Stops
      BY <1>4, <3>1 DEF Told
    <3>3. CASE log[j].kind = "head"
      BY <1>2, <1>3, <2>2, <3>1, <3>2, <3>3 DEF Follows
    <3>4. CASE log[j].kind = "ins"
      BY <1>2, <1>3, <2>2, <3>1, <3>2, <3>4 DEF Follows
    <3> QED BY <3>2, <3>3, <3>4
  <2> QED BY <2>1, <2>2
<1>5. ~Undecided(t)' /\ Told(t, l)'
  <2>1. CASE Dump(t)
    <3>1. pc'[t] = "sweep" /\ ins'[t] = 1 /\ kind = "head" /\ fn' = fn
      BY <1>1, <2>1 DEF Dump, Goto, Types
    <3> QED BY <1>2, <3>1 DEF Told, Undecided, Sweeping, InSymbol
  <2>2. CASE Failed(t)
    <3>1. pc'[t] = "idle" /\ kind = "failed"
      BY <1>1, <2>2 DEF Failed, Sweeps, Goto, Types
    <3> QED BY <1>2, <3>1 DEF Told, Undecided, Sweeping, InSymbol, Ends
  <2>3. CASE NamedLine(t) \/ PlainLine(t)
    <3>1. kind = "ins" /\ fn' = fn /\ AfterLine(t)
      <4>1. ~Dump(t) /\ ~Failed(t)
        BY <2>3 DEF Dump, Failed, Sweeps, NamedLine, PlainLine, Goto
      <4> QED BY <1>1, <2>3, <4>1 DEF NamedLine, PlainLine
    <3>2. CASE Current(t).op \in Stops
      <4>1. pc'[t] = "idle"
        BY <3>1, <3>2 DEF AfterLine, Types
      <4> QED BY <1>2, <3>1, <3>2, <4>1 DEF Told, Undecided, Sweeping,
                 InSymbol, Ends, Current
    <3>3. CASE Current(t).op \notin Stops
      <4>1. pc'[t] = "sweep" /\ ins'[t] = ins[t] + 1
        BY <3>1, <3>3 DEF AfterLine, Types
      <4> QED BY <1>2, <3>1, <3>3, <4>1 DEF Told, Undecided, Sweeping,
                 InSymbol, Current
    <3> QED BY <3>2, <3>3
  <2> QED BY <2>1, <2>2, <2>3
<1> QED BY <1>1, <1>2, <1>3, <1>4, <1>5, TellsOn

(* No call has been made.                                                  *)
LEMMA TellInvInit == Init => TellInv
<1> SUFFICES ASSUME Init, NEW t \in Threads PROVE TellRule(t)
  BY DEF TellInv
<1>1. Lines(t) = {} /\ Verdicts(t) = {}
  BY DEF Init, Lines, Verdicts
<1>2. pc[t] = "idle" /\ calls[t] = 0 /\ ~Undecided(t)
  BY DEF Init, Undecided, InSymbol
<1> QED BY <1>1, <1>2, FS_EmptySet DEF TellRule, LinesRule

(* Every step keeps the story of every thread straight.                    *)
LEMMA TellInvStep == AskInv /\ TellInv /\ [Next]_vars => TellInv'
<1> SUFFICES ASSUME AskInv, TellInv, [Next]_vars PROVE TellInv'
  OBVIOUS
<1>1. AskInv'
  BY AskInvStep
<1>2. CASE UNCHANGED vars
  BY <1>2 DEF vars, TellInv, TellRule, LinesRule, Lines, Verdicts, Adjacent,
     IsLast, Told, Undecided, Sweeping
<1>3. CASE Next
  <2>1. PICK t \in Threads : Step(t)
    BY <1>3 DEF Next
  <2>2. TellRule(t)'
    <3>1. CASE UNCHANGED log
      BY <1>1, <2>1, <3>1, QuietStep
    <3>2. CASE ~UNCHANGED log
      BY <2>1, <3>2, VerdictTells, DumpTells, FaultStays DEF Step, Enter, Classify, Walk,
         Turn, Path, NoDirectory, Lookup, NoThunk, Extra
    <3> QED BY <3>1, <3>2
  <2>3. ASSUME NEW u \in Threads \ {t} PROVE TellRule(u)'
    <3>1. TellRule(u)
      BY DEF TellInv
    <3>2. /\ pc'[u] = pc[u] /\ fn'[u] = fn[u] /\ ins'[u] = ins[u]
          /\ calls'[u] = calls[u]
      BY <2>1, OthersStay DEF AskInv
    <3>3. Lines(u)' = Lines(u) /\ \A i \in Lines(u) : log'[i] = log[i]
      BY <2>1, OtherLines DEF AskInv
    <3>4. Verdicts(u)' = Verdicts(u) /\ LinesRule(u)'
      <4>1. Verdicts(u)' = Verdicts(u)
        BY <3>3 DEF Verdicts
      <4> QED BY <3>1, <3>3, <4>1 DEF LinesRule, Adjacent, TellRule
    <3>5. /\ Undecided(u)' <=> Undecided(u)
          /\ Sweeping(u)' <=> Sweeping(u)
          /\ \A j : IsLast(u, j)' <=> IsLast(u, j)
      BY <3>2, <3>3 DEF Undecided, Sweeping, IsLast
    <3>6. ASSUME NEW j \in Lines(u), IsLast(u, j) PROVE Told(u, log[j])'
      BY <3>1, <3>2, <3>3, <3>5, <3>6 DEF TellRule, Told
    <3> QED BY <3>1, <3>2, <3>3, <3>4, <3>5, <3>6 DEF TellRule
  <2> QED BY <2>2, <2>3 DEF TellInv
<1> QED BY <1>2, <1>3

(* Every call gets one verdict, and what is not known is dumped from its   *)
(* first instruction to the first return or jump through a slot or a       *)
(* register, each instruction once and in order, for any number of threads *)
(* (insns.c:55-57, x86dump.c:84-136).                                      *)
THEOREM DumpCompleteHolds == Spec => []DumpComplete
<1>1. Init => TellInv
  BY TellInvInit
<1>2. AskInv /\ TellInv /\ [Next]_vars => TellInv'
  BY TellInvStep
<1>3. TellInv => DumpComplete
  <2> SUFFICES ASSUME TellInv, NEW t \in Threads
               PROVE  /\ LinesRule(t)
                      /\ pc[t] = "idle" =>
                           /\ Cardinality(Verdicts(t)) = calls[t]
                           /\ \A i \in Lines(t) : IsLast(t, i) => Ends(log[i])
    BY DEF DumpComplete, LinesRule, Verdicts, IsLast
  <2>1. TellRule(t)
    BY DEF TellInv
  <2>2. pc[t] = "idle" => ~Undecided(t)
    BY DEF Undecided, InSymbol
  <2> QED BY <2>1, <2>2 DEF TellRule, Told
<1> QED BY <1>1, <1>2, <1>3, AskInvHolds, PTL DEF Spec
=============================================================================
