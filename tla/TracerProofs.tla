---------------------------- MODULE TracerProofs -----------------------------
(***************************************************************************)
(* Proofs about Tracer, for any tables, hooks, threads and modes.          *)
(*                                                                         *)
(* Tracer calls report() within its rules (CallsReport), so everything     *)
(* that ReportProofs shows of RacySpec holds in the traced process, and    *)
(* what it shows of ReportSpec as long as symbol() leaves a name alone     *)
(* that is being printed (UsesReport).  No hook is live before the log is  *)
(* (HooksAfterLog).  The invariant behind all three                        *)
(* is HookRules: a thread can be in a stub, or a stub in a table, only     *)
(* when the first line of DllMain is in the file.                          *)
(***************************************************************************)
EXTENDS Tracer, ReportProofs, FiniteSetTheorems

TableTypes ==
  /\ lut \in [Slots -> Code]
  /\ g_tables \in [Tables -> Tables \cup {NoTable}]
  /\ saved \in [Slots -> Code]
  /\ stub \in [Slots -> StubContents]

(* The installer stands at a slot of the walk while it works on a stub.    *)
LoaderTypes ==
  /\ lpc \in LoaderPlaces
  /\ pass \in 0..Len(Hooks)
  /\ pos \in 1..Len(Walk) + 1
  /\ lpc \in {"stub", "redirect"} => pos <= Len(Walk)

(* A thread that has fetched is at a slot with an instruction.             *)
VmTypes ==
  /\ vpc \in [Threads -> VmPlaces]
  /\ at \in [Threads -> Slots \cup {NoInsn}]
  /\ insn \in [Threads -> Insns \cup {NoInsn}]
  /\ \A t \in Threads :
       vpc[t] # "fetch" => at[t] \in Slots /\ insn[t] \in Insns

BeforeBanner == {"open", "notify", "load", "banner"}

(* DllMain has opened the log before it goes on and has made its first     *)
(* call once it is past the banner; no stub is in a table, and no thread   *)
(* in a stub, before that call has put its line into the file.             *)
HookRules ==
  /\ g_fp = "unset" <=> lpc = "open"
  /\ lpc \notin BeforeBanner => calls[Main] >= 1
  /\ \A s \in Slots : lut[s].kind = "stub" => disk # <<>>
  /\ \A t \in Threads : vpc[t] \in InStub => disk # <<>>

TracerInv ==
  /\ ReportInv
  /\ TableTypes
  /\ LoaderTypes
  /\ VmTypes
  /\ HookRules

-----------------------------------------------------------------------------
(***************************************************************************)
(* Facts about slots and code pointers.                                    *)
(***************************************************************************)

(* The pointers hook.c deals with are code.                                *)
LEMMA Pointers ==
  ASSUME NEW s \in Slots
  PROVE  /\ Handler(s) \in Code /\ Handler(s).kind = "handler"
         /\ StubOf(s) \in Code /\ StubOf(s).kind = "stub"
         /\ NullPtr(s) \in Code /\ NullPtr(s).kind = "null"
BY DEF Handler, StubOf, NullPtr, Code

(* A code pointer leads to some slot.                                      *)
LEMMA CodeFields ==
  ASSUME NEW c \in Code
  PROVE  c.kind \in {"handler", "stub", "null"} /\ c.slot \in Slots
BY DEF Code

(* A lead entry leads to a two-byte table.                                 *)
LEMMA BehindLead ==
  ASSUME NEW c, c.kind = "handler", c.slot \in Leads
  PROVE  TableBehind(c) \in TwoByte
<1>1. \E k \in TwoByte : <<0, Lead[k]>> = c.slot
  BY DEF Leads
<1> QED BY <1>1 DEF TableBehind

(* The first byte of an instruction selects an entry of table 0.           *)
LEMMA FirstIsSlot ==
  ASSUME NEW i \in Insns
  PROVE  First(i) \in Slots
<1>1. i \in Slots
  BY DEF Insns
<1>2. CASE i[1] = 0
  BY <1>1, <1>2 DEF First
<1>3. CASE i[1] # 0
  <2>1. i[1] \in TwoByte
    BY <1>1, <1>3 DEF Slots, TwoByte
  <2>2. Lead[i[1]] \in Entries /\ 0 \in Tables
    BY <2>1, TableAssumption
  <2> QED BY <1>3, <2>2 DEF First, Slots
<1> QED BY <1>2, <1>3

(* The scan finds a table.                                                 *)
LEMMA FoundIsTable ==
  ASSUME NEW k \in Tables, FoundFor(k) # NoTable
  PROVE  FoundFor(k) \in Tables
<1>1. CASE k = 0
  BY <1>1 DEF FoundFor
<1>2. CASE k # 0
  <2> DEFINE c == lut[<<0, Lead[k]>>]
  <2>1. FoundFor(k) = TableBehind(c)
    BY <1>2 DEF FoundFor
  <2>2. c.kind = "handler" /\ c.slot \in Leads
    BY <2>1 DEF TableBehind
  <2> QED BY <2>1, <2>2, BehindLead DEF TwoByte
<1> QED BY <1>1, <1>2

(* Once the first call of DllMain has returned, the file is not empty.     *)
LEMMA FirstLineWritten ==
  ASSUME ReportInv, calls[Main] >= 1, rpc[Main] = "idle"
  PROVE  disk # <<>>
<1>1. Main \in Threads /\ calls[Main] \in Nat
  BY ReportAssumption DEF ReportInv, IType, TypeOK
<1>2. CommittedCalls(Main) = calls[Main]
  BY DEF CommittedCalls, Committed
<1>3. 1 \in 1..CommittedCalls(Main)
  BY <1>1, <1>2
<1>4. \E i \in DOMAIN disk : disk[i].by = Main /\ disk[i].call = 1
  BY <1>1, <1>3 DEF ReportInv, DurableOnReturn
<1>5. disk \in Seq(LineRecs)
  BY DEF ReportInv, IType
<1> QED BY <1>4, <1>5

-----------------------------------------------------------------------------
(***************************************************************************)
(* Tracer takes steps of Report, or leaves it alone.                       *)
(***************************************************************************)
LEMMA TracerInvInit == TracerInit => TracerInv
<1> SUFFICES ASSUME TracerInit PROVE TracerInv
  OBVIOUS
<1> USE DEF TracerInit, TableInit
<1>1. ReportInv
  BY InvInit DEF TextInv
<1>2. TableTypes
  <2>1. lut \in [Slots -> Code]
    BY Pointers
  <2>2. saved \in [Slots -> Code]
    BY Pointers
  <2>3. 0 \in 0..Len(Hooks)
    BY HooksAssumption
  <2>4. stub \in [Slots -> StubContents]
    BY <2>3, Pointers DEF StubContents
  <2> QED BY <2>1, <2>2, <2>4 DEF TableTypes
<1>3. LoaderTypes
  <2>1. Len(Walk) \in Nat
    BY WalkAssumption
  <2>2. Len(Hooks) \in Nat
    BY HooksAssumption
  <2> QED BY <2>1, <2>2 DEF LoaderTypes, LoaderPlaces
<1>4. VmTypes
  BY DEF VmTypes, VmPlaces
<1>5. HookRules
  <2>1. \A s \in Slots : lut[s].kind = "handler"
    BY Pointers
  <2> QED BY <2>1 DEF HookRules, ReportInit, BeforeBanner, InStub
<1> QED BY <1>1, <1>2, <1>3, <1>4, <1>5 DEF TracerInv

(* What a pre-hook logs is an argument report() can be given.              *)
LEMMA LabelIsCell ==
  ASSUME NEW h \in 0..Len(Hooks), NEW i \in Insns
  PROVE  Label(h, i) \in Cells
<1>1. CASE h = 0
  <2>1. i \in Slots
    BY DEF Insns
  <2> QED BY <1>1, <2>1, TracerAssumption DEF Label
<1>2. CASE h # 0
  <2>1. h \in DOMAIN Hooks
    BY <1>2, HooksAssumption
  <2> QED BY <1>2, <2>1, TracerAssumption DEF Label
<1> QED BY <1>1, <1>2

(* Every step of the tracer is a step of report() with MayCall kept, or    *)
(* does not touch the log; symbol() may write to its buffer at any moment. *)
LEMMA StepOfReport ==
  ASSUME TracerInv, [TracerNext]_tracerVars
  PROVE  \/ [ReportNext]_reportVars
         \/ \E x \in Texts : Mutate(Callee, x)
<1> Main \in Threads
  BY ReportAssumption
<1>1. ASSUME NEW c \in Cells, lpc # "open", Call(Main, c)
      PROVE  ReportNext
  <2>1. MayCall(Main)
    BY <1>1 DEF TracerInv, HookRules, MayCall
  <2> QED BY <1>1, <2>1 DEF ReportNext
<1>2. ASSUME NEW t \in Threads, NEW c \in Cells, vpc[t] \in InStub, Call(t, c)
      PROVE  ReportNext
  <2>1. disk # <<>> /\ g_fp = "open"
    BY <1>2 DEF TracerInv, HookRules, ReportInv, LogOpen
  <2>2. MayCall(t)
    BY <2>1 DEF MayCall
  <2> QED BY <1>2, <2>2 DEF ReportNext
<1>3. CASE OpenReport
  BY <1>3 DEF OpenReport, ReportNext
<1>4. CASE \/ NotifyCuckoo \/ LoadRuntime \/ HookInit \/ LogBanner \/ LogInstalling
           \/ LogMissing
  <2>1. {Banner, Installing, Missing} \subseteq Cells
    BY TracerAssumption
  <2>2. CASE LogBanner
    BY <1>1, <2>1, <2>2 DEF LogBanner, LoaderAt, LoaderLogs, Logs
  <2>3. CASE LogInstalling
    BY <1>1, <2>1, <2>3 DEF LogInstalling, LoaderAt, LoaderLogs, Logs
  <2>4. CASE LogMissing
    BY <1>1, <2>1, <2>4 DEF LogMissing, LoaderAt, LoaderLogs, Logs
  <2> QED BY <1>4, <2>2, <2>3, <2>4 DEF NotifyCuckoo, LoadRuntime, HookInit
<1>5. CASE \E k \in Tables : LocateTable(k)
  BY <1>5 DEF LocateTable
<1>6. CASE \/ Skip \/ StartStub \/ FinishStub \/ RedirectSlot \/ EndPass
           \/ Attached
  BY <1>6 DEF Skip, StartStub, FinishStub, RedirectSlot, EndPass, Attached
<1>7. CASE ExitFlush
  BY <1>7 DEF ExitFlush, ReportNext
<1>8. CASE ExitProcess \/ KillProcess
  BY <1>8 DEF ExitProcess, KillProcess, ReportNext
<1>9. ASSUME NEW t \in Threads, NEW i \in Insns, Fetch(t, i)
      PROVE  UNCHANGED reportVars
  BY <1>9 DEF Fetch
<1>10. ASSUME NEW t \in Threads, CallPreHook(t)
       PROVE  ReportNext
  <2>1. /\ vpc[t] = "stub"
        /\ Call(t, Label(PreHook(t), insn[t]))
    BY <1>10 DEF CallPreHook, VmAt, Logs
  <2>2. at[t] \in Slots /\ insn[t] \in Insns
    BY <2>1 DEF TracerInv, VmTypes
  <2>3. PreHook(t) \in 0..Len(Hooks)
    BY <2>2 DEF PreHook, TracerInv, TableTypes, StubContents
  <2>4. Label(PreHook(t), insn[t]) \in Cells
    BY <2>2, <2>3, LabelIsCell
  <2> QED BY <1>2, <2>1, <2>4 DEF InStub
<1>11. ASSUME NEW t \in Threads, CallNative(t) \/ BeginDump(t) \/ DumpLine(t)
       PROVE  ReportNext
  <2>1. vpc[t] \in InStub /\ \E c \in {Callee, Dumped} : Call(t, c)
    BY <1>11 DEF CallNative, BeginDump, DumpLine, Logs, InStub
  <2> QED BY <1>2, <2>1, TracerAssumption
<1>12. ASSUME NEW t \in Threads,
              QuietPreHook(t) \/ LeaveStub(t) \/ SecondByte(t) \/ Execute(t)
       PROVE  UNCHANGED reportVars
  BY <1>12 DEF QuietPreHook, LeaveStub, SecondByte, Execute
<1>13. ASSUME NEW t \in Threads, ReportThread(t)
       PROVE  ReportNext
  BY <1>13 DEF ReportThread, ReportNext
<1>14. CASE ServePipe \/ Ended \/ UNCHANGED tracerVars
  BY <1>14 DEF ServePipe, Ended, tracerVars
<1>15. ASSUME NEW t \in Threads, AskSymbol(t)
       PROVE  \E x \in Texts : Mutate(Callee, x)
  BY <1>15, TracerAssumption DEF AskSymbol
<1> QED
  BY <1>3, <1>4, <1>5, <1>6, <1>7, <1>8, <1>9, <1>10, <1>11, <1>12, <1>13,
     <1>14, <1>15
  DEF TracerNext, LoaderStep, VmStep

(* So it is a step of report() that may find the memory changed ...        *)
LEMMA StepOfRacy ==
  ASSUME TracerInv, [TracerNext]_tracerVars
  PROVE  [RacyNext]_reportVars
BY StepOfReport, TracerAssumption DEF RacyNext

(* ... and one that does not if symbol() leaves alone what is printed.     *)
LEMMA StepOfStable ==
  ASSUME TracerInv, [TracerNext /\ StableStep]_tracerVars
  PROVE  [ReportNext]_reportVars
<1>1. CASE UNCHANGED tracerVars
  BY <1>1 DEF tracerVars
<1>2. CASE TracerNext /\ StableStep
  <2>1. ASSUME NEW x \in Texts, Mutate(Callee, x)
        PROVE  [ReportNext]_reportVars
    <3>1. Callee \in Cells /\ mem' = [mem EXCEPT ![Callee] = x]
      BY <2>1, TracerAssumption DEF Mutate
    <3>2. CASE mem' = mem
      BY <2>1, <3>2 DEF Mutate, reportVars
    <3>3. CASE mem' # mem
      <4>1. mem \in [Cells -> Texts]
        BY DEF TracerInv, ReportInv, IType, TypeOK
      <4>2. mem'[Callee] # mem[Callee]
        BY <3>1, <3>3, <4>1
      <4>3. Stable(Callee)
        BY <1>2, <3>1, <4>2 DEF StableStep
      <4> QED BY <2>1, <3>1, <4>3 DEF ReportNext
    <3> QED BY <3>2, <3>3
  <2> QED BY <1>2, <2>1, StepOfReport
<1> QED BY <1>1, <1>2

-----------------------------------------------------------------------------
(***************************************************************************)
(* The types.                                                              *)
(***************************************************************************)

(* Tables and stubs always hold code pointers (hook.c:25-42).              *)
LEMMA TableTypesStep ==
  ASSUME TracerInv, [TracerNext]_tracerVars
  PROVE  TableTypes'
<1> TableTypes /\ LoaderTypes
  BY DEF TracerInv
<1>1. CASE UNCHANGED tableVars
  BY <1>1 DEF tableVars, TableTypes
<1>2. CASE HookInit
  <2>1. /\ stub' = [s \in Slots |-> [stub[s] EXCEPT !.state = "int3"]]
        /\ UNCHANGED <<lut, g_tables, saved>>
    BY <1>2 DEF HookInit, FillInt3
  <2>2. stub' \in [Slots -> StubContents]
    BY <2>1 DEF TableTypes, StubContents
  <2> QED BY <2>1, <2>2 DEF TableTypes
<1>3. ASSUME NEW k \in Tables, LocateTable(k)
      PROVE  TableTypes'
  <2>1. /\ FoundFor(k) # NoTable
        /\ g_tables' = [g_tables EXCEPT ![k] = FoundFor(k)]
        /\ saved' = [s \in Slots |->
             IF s[1] = k THEN lut[<<FoundFor(k), s[2]>>] ELSE saved[s]]
        /\ UNCHANGED <<lut, stub>>
    BY <1>3 DEF LocateTable, Locate
  <2>2. FoundFor(k) \in Tables
    BY <2>1, FoundIsTable
  <2>3. \A s \in Slots : <<FoundFor(k), s[2]>> \in Slots
    BY <2>2 DEF Slots
  <2>4. saved' \in [Slots -> Code]
    BY <2>1, <2>3 DEF TableTypes
  <2>5. g_tables' \in [Tables -> Tables \cup {NoTable}]
    BY <2>1, <2>2 DEF TableTypes
  <2> QED BY <2>1, <2>4, <2>5 DEF TableTypes
<1>4. CASE StartStub
  <2>1. /\ stub' = [stub EXCEPT ![Walk[pos]].state = "partial"]
        /\ UNCHANGED <<lut, g_tables, saved>>
    BY <1>4 DEF StartStub, BeginStub
  <2> DEFINE w == Walk[pos]
  <2>2. stub' = [stub EXCEPT ![w] = [stub[w] EXCEPT !.state = "partial"]]
    BY <2>1
  <2>3. w \in Slots => [stub[w] EXCEPT !.state = "partial"] \in StubContents
    BY DEF TableTypes, StubContents
  <2>4. stub' \in [Slots -> StubContents]
    BY <2>2, <2>3 DEF TableTypes
  <2> QED BY <2>1, <2>4 DEF TableTypes
<1>5. CASE FinishStub
  <2> DEFINE w == Walk[pos]
             c == [state |-> "ready", pre |-> pass, orig |-> saved[w]]
  <2>1. stub' = [stub EXCEPT ![w] = c] /\ UNCHANGED <<lut, g_tables, saved>>
    BY <1>5 DEF FinishStub, EndStub
  <2>2. w \in Slots => c \in StubContents
    BY DEF TableTypes, StubContents, LoaderTypes
  <2>3. stub' \in [Slots -> StubContents]
    BY <2>1, <2>2 DEF TableTypes
  <2> QED BY <2>1, <2>3 DEF TableTypes
<1>6. CASE RedirectSlot
  <2> DEFINE w == Walk[pos]
  <2>1. /\ lut' = [lut EXCEPT ![<<g_tables[w[1]], w[2]>>] = StubOf(w)]
        /\ UNCHANGED <<g_tables, saved, stub>>
    BY <1>6 DEF RedirectSlot, Redirect
  <2>2. pos \in 1..Len(Walk)
    BY <1>6, WalkAssumption DEF RedirectSlot, LoaderAt, LoaderTypes
  <2>3. w \in Slots
    BY <2>2, WalkAssumption
  <2>4. StubOf(w) \in Code
    BY <2>3, Pointers
  <2>5. lut' \in [Slots -> Code]
    BY <2>1, <2>4 DEF TableTypes
  <2> QED BY <2>1, <2>5 DEF TableTypes
<1>7. ASSUME \/ OpenReport \/ NotifyCuckoo \/ LoadRuntime \/ LogBanner
             \/ LogInstalling \/ Skip \/ EndPass \/ Attached \/ LogMissing
             \/ ExitFlush \/ ExitProcess
      PROVE  UNCHANGED tableVars
  BY <1>7 DEF OpenReport, NotifyCuckoo, LoadRuntime, LogBanner, LogInstalling,
              Skip, EndPass, Attached, LogMissing, ExitFlush, ExitProcess
<1>8. ASSUME NEW t \in Threads,
             \/ \E i \in Insns : Fetch(t, i)
             \/ VmStep(t)
             \/ ReportThread(t)
      PROVE  UNCHANGED tableVars
  BY <1>8 DEF Fetch, VmStep, CallPreHook, QuietPreHook, AskSymbol, CallNative,
              BeginDump, DumpLine, LeaveStub, SecondByte, Execute,
              ReportThread
<1>9. ASSUME ServePipe \/ KillProcess \/ Ended \/ UNCHANGED tracerVars
      PROVE  UNCHANGED tableVars
  BY <1>9 DEF ServePipe, KillProcess, Ended, tracerVars
<1> QED
  BY <1>1, <1>2, <1>3, <1>4, <1>5, <1>6, <1>7, <1>8, <1>9
  DEF TracerNext, LoaderStep

(* The installer never leaves its walk (hook.c:138, 197; insns.c:227).     *)
LEMMA LoaderTypesStep ==
  ASSUME TracerInv, [TracerNext]_tracerVars
  PROVE  LoaderTypes'
<1> Len(Walk) \in Nat /\ Len(Hooks) \in Nat /\ Len(Hooks) >= 1
  <2>1. Hooks # <<>> /\ Hooks \in Seq({Hooks[h] : h \in DOMAIN Hooks})
    BY TracerAssumption, HooksAssumption
  <2> QED BY <2>1, WalkAssumption
<1> USE DEF LoaderTypes, LoaderPlaces, LoaderAt
<1> LoaderTypes
  BY DEF TracerInv
<1>1. ASSUME UNCHANGED loaderVars
      PROVE  LoaderTypes'
  BY <1>1 DEF loaderVars
<1>2. CASE \/ OpenReport \/ NotifyCuckoo \/ LoadRuntime \/ LogBanner \/ HookInit
           \/ LogInstalling \/ Attached \/ LogMissing \/ ExitFlush \/ ExitProcess
  BY <1>2 DEF OpenReport, NotifyCuckoo, LoadRuntime, LogBanner, HookInit,
              LogInstalling, Attached, LogMissing, ExitFlush, ExitProcess
<1>3. ASSUME NEW k \in Tables, LocateTable(k)
      PROVE  LoaderTypes'
  BY <1>3 DEF LocateTable, FirstPass, StartOf
<1>4. CASE Skip \/ StartStub \/ FinishStub \/ RedirectSlot
  BY <1>4 DEF Skip, StartStub, FinishStub, RedirectSlot
<1>5. CASE EndPass
  <2>1. pass # Len(Hooks)
    BY <1>5 DEF EndPass, IsLastPass
  <2> QED BY <1>5, <2>1 DEF EndPass
<1>6. ASSUME NEW t \in Threads,
             \/ \E i \in Insns : Fetch(t, i)
             \/ VmStep(t)
             \/ ReportThread(t)
      PROVE  UNCHANGED loaderVars
  BY <1>6 DEF Fetch, VmStep, CallPreHook, QuietPreHook, AskSymbol, CallNative,
              BeginDump, DumpLine, LeaveStub, SecondByte, Execute,
              ReportThread
<1>7. ASSUME KillProcess \/ Ended \/ UNCHANGED tracerVars
      PROVE  UNCHANGED loaderVars
  BY <1>7 DEF KillProcess, Ended, tracerVars
<1>8. CASE ServePipe
  BY <1>8 DEF ServePipe
<1> QED
  BY <1>1, <1>2, <1>3, <1>4, <1>5, <1>6, <1>7, <1>8
  DEF TracerNext, LoaderStep

(* A thread of the machine is always at an entry of the tables.            *)
LEMMA VmTypesStep ==
  ASSUME TracerInv, [TracerNext]_tracerVars
  PROVE  VmTypes'
<1> TableTypes /\ VmTypes
  BY DEF TracerInv
<1>1. ASSUME UNCHANGED <<vpc, at, insn>>
      PROVE  VmTypes'
  BY <1>1 DEF VmTypes
<1>2. ASSUME NEW t \in Threads, NEW c \in Code, Jump(t, c),
             \/ UNCHANGED insn /\ vpc[t] # "fetch"
             \/ \E i \in Insns : insn' = [insn EXCEPT ![t] = i]
      PROVE  VmTypes'
  BY <1>2, CodeFields DEF Jump, VmTypes, VmPlaces, InStub
<1>3. ASSUME NEW t \in Threads, UNCHANGED <<at, insn>>, vpc[t] # "fetch",
             \E p \in VmPlaces : vpc' = [vpc EXCEPT ![t] = p]
      PROVE  VmTypes'
  BY <1>3 DEF VmTypes
<1>4. ASSUME NEW t \in Threads, NEW i \in Insns, Fetch(t, i)
      PROVE  VmTypes'
  <2>1. lut[First(i)] \in Code
    BY FirstIsSlot DEF TableTypes
  <2> QED BY <1>2, <1>4, <2>1 DEF Fetch
<1>5. ASSUME NEW t \in Threads, \/ CallPreHook(t) \/ QuietPreHook(t) \/ AskSymbol(t)
                               \/ CallNative(t) \/ BeginDump(t) \/ DumpLine(t)
      PROVE  VmTypes'
  <2>1. vpc[t] \in InStub /\ UNCHANGED <<at, insn>>
    BY <1>5 DEF CallPreHook, QuietPreHook, AskSymbol, CallNative, BeginDump,
                DumpLine, VmAt, InStub
  <2>2. \E p \in InStub : vpc' = [vpc EXCEPT ![t] = p]
    BY <1>5 DEF CallPreHook, QuietPreHook, AskSymbol, CallNative, BeginDump,
                DumpLine, InStub
  <2> QED BY <1>3, <2>1, <2>2 DEF VmPlaces, InStub
<1>6. ASSUME NEW t \in Threads, LeaveStub(t)
      PROVE  VmTypes'
  <2>1. vpc[t] # "fetch"
    BY <1>6 DEF LeaveStub
  <2>2. stub[at[t]].orig \in Code
    BY <2>1 DEF VmTypes, TableTypes, StubContents
  <2> QED BY <1>2, <1>6, <2>1, <2>2 DEF LeaveStub
<1>7. ASSUME NEW t \in Threads, SecondByte(t)
      PROVE  VmTypes'
  <2> DEFINE k == TableBehind(Handler(at[t]))
  <2>1. vpc[t] # "fetch" /\ at[t] \in Leads
    BY <1>7 DEF SecondByte, VmAt
  <2>2. k \in Tables
    BY <2>1, BehindLead DEF Handler, TwoByte
  <2>3. insn[t][2] \in Entries
    BY <2>1 DEF VmTypes, Insns, Slots
  <2>4. lut[<<k, insn[t][2]>>] \in Code
    BY <2>2, <2>3 DEF TableTypes, Slots
  <2> QED BY <1>2, <1>7, <2>1, <2>4 DEF SecondByte
<1>8. ASSUME NEW t \in Threads, Execute(t)
      PROVE  VmTypes'
  BY <1>3, <1>8 DEF Execute, VmAt, VmPlaces
<1>9. ASSUME LoaderStep
      PROVE  UNCHANGED <<vpc, at, insn>>
  BY <1>9 DEF LoaderStep, OpenReport, NotifyCuckoo, LoadRuntime, LogBanner,
     HookInit, LocateTable, LogInstalling, Skip, StartStub, FinishStub,
     RedirectSlot, EndPass, Attached, LogMissing, ExitFlush, ExitProcess,
     LoaderLogs, vmVars
<1>10. ASSUME \/ \E t \in Threads : ReportThread(t)
              \/ ServePipe \/ KillProcess \/ Ended \/ UNCHANGED tracerVars
       PROVE  UNCHANGED <<vpc, at, insn>>
  BY <1>10 DEF ReportThread, ServePipe, KillProcess, Ended, tracerVars, vmVars
<1> QED
  BY <1>1, <1>4, <1>5, <1>6, <1>7, <1>8, <1>9, <1>10
  DEF TracerNext, VmStep

-----------------------------------------------------------------------------
(***************************************************************************)
(* The rules of the hooks.                                                 *)
(***************************************************************************)

(* report() never takes a line away, nor a call back (report.c:303-306).   *)
LEMMA LogGrows ==
  ASSUME ReportInv, [RacyNext]_reportVars
  PROVE  /\ disk # <<>> => disk' # <<>>
         /\ calls[Main] >= 1 => calls'[Main] >= 1
<1> /\ disk \in Seq(LineRecs)
    /\ calls \in [Threads -> 0..MaxCalls]
    /\ Main \in Threads
  BY ReportAssumption DEF ReportInv, IType, TypeOK
<1>1. disk # <<>> => disk' # <<>>
  <2>1. ASSUME NEW t \in Threads, CommitsLineOf(t)
        PROVE  disk' # <<>>
    BY <2>1 DEF CommitsLineOf
  <2> QED BY <2>1, StepCommits DEF CommitsNothing
<1>2. calls' = calls \/ \E t \in Threads : calls' = [calls EXCEPT ![t] = @ + 1]
  BY DEF RacyNext, ReportNext, OpenLog, Call, ReportStep, SizePass, FillPass,
         TestInit, InitSection, SetInit, Enter, Write, Flush, Leave, Mutate, FlushAll,
         Kill, Terminating, reportVars, callVars
<1>3. calls[Main] >= 1 => calls'[Main] >= 1
  BY <1>2, ReportAssumption
<1> QED BY <1>1, <1>3

(* A step that installs nothing and moves no thread keeps the rules, as    *)
(* long as DllMain passes the banner only with a call.                     *)
LEMMA HookRulesFrame ==
  ASSUME TracerInv, [TracerNext]_tracerVars, UNCHANGED <<lut, vpc>>,
         (g_fp = "unset" <=> lpc = "open")',
         (lpc \notin BeforeBanner)' =>
           lpc \notin BeforeBanner \/ calls'[Main] >= 1
  PROVE  HookRules'
<1>1. /\ disk # <<>> => disk' # <<>>
      /\ calls[Main] >= 1 => calls'[Main] >= 1
  BY StepOfRacy, LogGrows DEF TracerInv
<1> QED BY <1>1 DEF TracerInv, HookRules

(* A jump of a thread keeps the rules when it leads to a stub only if one  *)
(* can be live.                                                            *)
LEMMA HookRulesJump ==
  ASSUME TracerInv, UNCHANGED <<reportVars, lut, lpc>>,
         NEW t \in Threads, NEW p, vpc' = [vpc EXCEPT ![t] = p],
         p \in InStub => disk # <<>>
  PROVE  HookRules'
<1>1. UNCHANGED <<g_fp, disk, calls>>
  BY DEF reportVars, logVars, callVars
<1> QED BY <1>1 DEF TracerInv, HookRules, VmTypes

(* DllMain logs before it installs, and a thread gets to a stub only       *)
(* through the tables or from another part of the stub (main.c:66-89).     *)
LEMMA HookRulesStep ==
  ASSUME TracerInv, [TracerNext]_tracerVars
  PROVE  HookRules'
<1> HookRules
  BY DEF TracerInv
<1> USE DEF LoaderAt, BeforeBanner
<1>1. CASE OpenReport
  BY <1>1, HookRulesFrame
  DEF OpenReport, OpenLog, HookRules, tableVars, vmVars
<1>2. ASSUME LogBanner \/ LogInstalling \/ LogMissing
      PROVE  HookRules'
  <2>1. /\ UNCHANGED <<g_fp, lut, vpc>>
        /\ calls' = [calls EXCEPT ![Main] = @ + 1]
        /\ lpc # "open" /\ lpc' # "open"
    BY <1>2 DEF LogBanner, LogInstalling, LogMissing, LoaderLogs, Logs, Call,
                logVars, tableVars
  <2>2. calls'[Main] >= 1
    BY <2>1, ReportAssumption DEF TracerInv, ReportInv, IType, TypeOK
  <2> QED BY <2>1, <2>2, HookRulesFrame DEF HookRules
<1>3. ASSUME \/ NotifyCuckoo \/ LoadRuntime \/ HookInit
             \/ \E k \in Tables : LocateTable(k)
             \/ Skip \/ StartStub \/ FinishStub \/ EndPass
             \/ Attached \/ ExitFlush \/ ExitProcess
      PROVE  HookRules'
  <2>1. /\ UNCHANGED <<g_fp, lut, vpc>>
        /\ lpc # "open" /\ lpc' # "open"
        /\ lpc' \notin BeforeBanner => lpc \notin BeforeBanner
    BY <1>3
    DEF NotifyCuckoo, LoadRuntime, HookInit, FillInt3, LocateTable, Locate,
        StartOf, Skip, StartStub, BeginStub, FinishStub, EndStub, EndPass,
        Attached, ExitFlush, FlushAll, ExitProcess, Kill, reportVars, logVars,
        tableVars, vmVars
  <2> QED BY <2>1, HookRulesFrame DEF HookRules
<1>4. CASE RedirectSlot
  <2>1. lpc = "redirect" /\ lpc' = "scan" /\ rpc[Main] = "idle"
        /\ UNCHANGED <<g_fp, disk, calls, vpc>>
    BY <1>4 DEF RedirectSlot, reportVars, logVars, callVars, vmVars
  <2>2. calls[Main] >= 1
    BY <2>1 DEF HookRules
  <2>3. disk # <<>>
    BY <2>1, <2>2, FirstLineWritten DEF TracerInv
  <2> QED BY <2>1, <2>2, <2>3 DEF HookRules
<1>5. ASSUME NEW t \in Threads, NEW i \in Insns, Fetch(t, i)
      PROVE  HookRules'
  <2>1. First(i) \in Slots
    BY FirstIsSlot
  <2>2. lut[First(i)].kind \in InStub => disk # <<>>
    <3>1. lut[First(i)].kind \in {"handler", "stub", "null"}
      BY <2>1, CodeFields DEF TracerInv, TableTypes
    <3> QED BY <2>1, <3>1 DEF HookRules, InStub
  <2> QED BY <1>5, <2>2, HookRulesJump DEF Fetch, Jump, tableVars, loaderVars
<1>6. ASSUME NEW t \in Threads, \/ CallPreHook(t) \/ AskSymbol(t) \/ CallNative(t)
                               \/ BeginDump(t) \/ DumpLine(t)
      PROVE  HookRules'
  <2>1. /\ vpc[t] \in InStub
        /\ \E p \in InStub : vpc' = [vpc EXCEPT ![t] = p]
        /\ UNCHANGED <<g_fp, disk, lut, lpc>>
    BY <1>6 DEF CallPreHook, AskSymbol, CallNative, BeginDump, DumpLine, VmAt,
                Logs, Call, Mutate, InStub, logVars, tableVars, loaderVars
  <2>2. disk # <<>>
    BY <2>1 DEF HookRules
  <2>3. calls[Main] >= 1 => calls'[Main] >= 1
    BY StepOfRacy, LogGrows DEF TracerInv
  <2> QED BY <2>1, <2>2, <2>3 DEF HookRules
<1>7. ASSUME NEW t \in Threads, QuietPreHook(t) \/ LeaveStub(t)
      PROVE  HookRules'
  <2>1. vpc[t] \in InStub
    BY <1>7 DEF QuietPreHook, LeaveStub, VmAt, InStub
  <2>2. disk # <<>>
    BY <2>1 DEF HookRules
  <2> QED BY <1>7, <2>2, HookRulesJump
      DEF QuietPreHook, LeaveStub, Jump, tableVars, loaderVars
<1>8. ASSUME NEW t \in Threads, SecondByte(t)
      PROVE  HookRules'
  <2> DEFINE s == <<TableBehind(Handler(at[t])), insn[t][2]>>
  <2>1. vpc[t] = "handler" /\ at[t] \in Leads
    BY <1>8 DEF SecondByte, VmAt
  <2>2. insn[t] \in Slots
    BY <2>1 DEF TracerInv, VmTypes, Insns
  <2>3. s \in Slots
    <3>1. TableBehind(Handler(at[t])) \in Tables
      BY <2>1, BehindLead DEF Handler, TwoByte
    <3> QED BY <2>2, <3>1 DEF Slots
  <2>4. lut[s].kind \in InStub => disk # <<>>
    <3>1. lut[s].kind \in {"handler", "stub", "null"}
      BY <2>3, CodeFields DEF TracerInv, TableTypes
    <3> QED BY <2>3, <3>1 DEF HookRules, InStub
  <2> QED BY <1>8, <2>4, HookRulesJump
      DEF SecondByte, Jump, tableVars, loaderVars
<1>9. ASSUME NEW t \in Threads, Execute(t)
      PROVE  HookRules'
  BY <1>9, HookRulesJump DEF Execute, InStub, tableVars, loaderVars
<1>10. ASSUME NEW t \in Threads, ReportThread(t)
       PROVE  HookRules'
  <2>1. UNCHANGED <<g_fp, lut, vpc, lpc>>
    BY <1>10
    DEF ReportThread, ReportStep, SizePass, FillPass, TestInit, InitSection,
        SetInit, Enter, Write, Flush, Leave, logVars, tableVars, loaderVars,
        vmVars
  <2> QED BY <2>1, HookRulesFrame DEF HookRules
<1>11. ASSUME ServePipe \/ KillProcess \/ Ended \/ UNCHANGED tracerVars
       PROVE  HookRules'
  <2>1. UNCHANGED <<g_fp, lut, vpc, lpc>>
    BY <1>11
    DEF ServePipe, KillProcess, Kill, Ended, tracerVars, reportVars, logVars,
        tableVars, loaderVars, vmVars
  <2> QED BY <2>1, HookRulesFrame DEF HookRules
<1> QED
  BY <1>1, <1>2, <1>3, <1>4, <1>5, <1>6, <1>7, <1>8, <1>9, <1>10, <1>11
  DEF TracerNext, LoaderStep, VmStep

-----------------------------------------------------------------------------
(***************************************************************************)
(* The theorems.                                                           *)
(***************************************************************************)

(* TracerInv is an inductive invariant of the tracer.                      *)
THEOREM TracerInvHolds == TracerSpec => []TracerInv
<1>1. TracerInit => TracerInv
  BY TracerInvInit
<1>2. TracerInv /\ [TracerNext]_tracerVars => TracerInv'
  <2> SUFFICES ASSUME TracerInv, [TracerNext]_tracerVars
               PROVE  TracerInv'
    OBVIOUS
  <2>1. ReportInv'
    BY StepOfRacy, InvStep DEF TracerInv
  <2> QED
    BY <2>1, TableTypesStep, LoaderTypesStep, VmTypesStep, HookRulesStep
    DEF TracerInv
<1> QED BY <1>1, <1>2, PTL DEF TracerSpec

(* The tracer keeps the rule of report() that nothing in report.c checks:  *)
(* DllMain is the first to call it, and nobody else does before its line   *)
(* is written (main.c:66-74).                                              *)
THEOREM CallsReport == TracerSpec => ImplementsReport
<1>1. TracerInit => ReportInit
  BY DEF TracerInit
<1>2. TracerInv /\ [TracerNext]_tracerVars => [RacyNext]_reportVars
  BY StepOfRacy
<1> QED BY <1>1, <1>2, TracerInvHolds, PTL
    DEF TracerSpec, RacySpec, ImplementsReport

(* It keeps the other rule as far as StableStep goes.                      *)
LEMMA StableIsTracer == StableTracerSpec => TracerSpec
<1>1. [TracerNext /\ StableStep]_tracerVars => [TracerNext]_tracerVars
  OBVIOUS
<1> QED BY <1>1, PTL DEF StableTracerSpec, TracerSpec

(* If no thread calls symbol() while another one prints the name in its    *)
(* buffer, the tracer uses report() just as the module Report demands      *)
(* (x86dump.c:37, native.c:38, report.c:291-294).                          *)
THEOREM UsesReport == StableTracerSpec => ReportSpec
<1>1. TracerInit => ReportInit
  BY DEF TracerInit
<1>2. TracerInv /\ [TracerNext /\ StableStep]_tracerVars
        => [ReportNext]_reportVars
  BY StepOfStable
<1> QED BY <1>1, <1>2, StableIsTracer, TracerInvHolds, PTL
    DEF StableTracerSpec, ReportSpec

(* No hook is in a table before the log works (main.c:66, 70 before 74).   *)
THEOREM HooksAfterLog == TracerSpec => []NoHookBeforeLog
<1>1. TracerInv => NoHookBeforeLog
  <2> SUFFICES ASSUME TracerInv, NEW s \in Slots, Live(s)
               PROVE  g_fp = "open" /\ cs_init = 1 /\ cs = "ready" /\ disk # <<>>
    BY DEF NoHookBeforeLog
  <2>1. lut[s].kind = "stub"
    BY Pointers DEF Live
  <2>2. disk # <<>>
    BY <2>1 DEF TracerInv, HookRules
  <2>3. cs_init = 1
    BY <2>2 DEF TracerInv, ReportInv, IType, TypeOK, InitOnce
  <2> QED BY <2>2, <2>3 DEF TracerInv, ReportInv, LogOpen, InitOnce
<1> QED BY <1>1, TracerInvHolds, PTL

(* Then the log of the whole traced process is the atomic, durable log.    *)
THEOREM TracerLogIsAtomic == StableTracerSpec => ImplementsAtomicLog
BY UsesReport, RefinesAtomicLog

-----------------------------------------------------------------------------
(***************************************************************************)
(* Proofs that the hooks do not disturb the virtual machine, for any       *)
(* tables, hooks, threads and modes.                                       *)
(*                                                                         *)
(* A thread reads a table without a lock while DllMain writes it, so what  *)
(* matters is that every slot is good at every moment (StubsHold), that    *)
(* nobody stands in a stub that is being written (NeverAstrayHolds), and   *)
(* that a thread ends up in the handlers of its own instruction            *)
(* (TransparentHolds).  StubInv says how far the installer has come, and   *)
(* what that means for tables, copies, stubs and threads.                  *)
(*                                                                         *)
(* WalkInv counts: what a pass has redirected so far is exactly what the   *)
(* entries it has visited ask for.  At the end every entry that is wanted  *)
(* is hooked, or the process has exited for a hook that names none         *)
(* (AllOrExitHolds).                                                       *)
(***************************************************************************)

(* The places of DllMain before it has found and copied the tables, and    *)
(* those of the installation proper.                                       *)
Preparing == {"open", "notify", "load", "banner", "int3", "locate"}

Walking == {"announce", "scan", "stub", "redirect"}

(* A table is found where the machine has it, its handlers are copied when *)
(* it is found, and all of them are before the walk begins.                *)
CopyRules ==
  /\ \A k \in Tables : g_tables[k] \in {k, NoTable}
  /\ \A s \in Slots : g_tables[s[1]] = s[1] => saved[s] = Handler(s)
  /\ lpc \in Walking => \A k \in Tables : g_tables[k] = k

(* The pass that runs is one of those that are compiled in.                *)
PassRules ==
  lpc \in Walking => /\ pass = 0 => "generic" \in Modes
                     /\ pass # 0 => "specific" \in Modes

(* A slot holds its own handler or its own stub.                           *)
LutRules ==
  \A s \in Slots : \/ lut[s] = Handler(s)
                   \/ lut[s] = StubOf(s) /\ lpc \notin Preparing

(* The installer is past slot s in the current pass.                       *)
Visited(s) == \E p \in 1..pos : Walk[p] = s /\ (p < pos \/ lpc = "redirect")

(* The slot at hand is to be hooked, and its stub is finished before the   *)
(* table is redirected.  A stub that is in a table is good for its slot,   *)
(* and only a second mode ever writes to it again.                         *)
StubRules ==
  /\ lpc \in {"stub", "redirect"} => Matches(pass, Walk[pos])
  /\ lpc = "redirect" =>
       stub[Walk[pos]] = [state |-> "ready", pre |-> pass,
                          orig |-> Handler(Walk[pos])]
  /\ \A s \in Slots : Live(s) =>
       /\ stub[s].orig = Handler(s)
       /\ Matches(stub[s].pre, s)
       /\ stub[s].pre = 0 => "generic" \in Modes
       /\ stub[s].pre < pass \/ (stub[s].pre = pass /\ Visited(s))
       /\ \/ stub[s].state = "ready"
          \/ lpc = "stub" /\ s = Walk[pos] /\ Early = {}

(* A thread under way was allowed to start, is at a slot of its            *)
(* instruction, and in a stub only if that stub is in a table.             *)
ThreadRules ==
  \A t \in Threads : vpc[t] # "fetch" =>
    /\ MayRun(t)
    /\ vpc[t] # "null"
    /\ at[t] \in {First(insn[t]), insn[t]}
    /\ vpc[t] \in InStub => Live(at[t])

StubInv ==
  /\ TracerInv
  /\ CopyRules
  /\ PassRules
  /\ LutRules
  /\ StubRules
  /\ ThreadRules

-----------------------------------------------------------------------------
(***************************************************************************)
(* Tables and modes.                                                       *)
(***************************************************************************)

(* Handlers and stubs are told apart, and so are those of two slots.       *)
LEMMA HandlerIsNoStub ==
  ASSUME NEW s, NEW r
  PROVE  /\ Handler(s) # StubOf(r)
         /\ Handler(s).kind = "handler" /\ Handler(s).slot = s
         /\ StubOf(s).kind = "stub" /\ StubOf(s).slot = s
<1>1. Handler(s).kind = "handler" /\ StubOf(r).kind = "stub"
  BY DEF Handler, StubOf
<1> QED BY <1>1 DEF Handler, StubOf

(* The handler of a lead slot leads to the table of its lead byte.         *)
LEMMA BehindOwnLead ==
  ASSUME NEW k \in TwoByte
  PROVE  /\ <<0, Lead[k]>> \in Leads
         /\ TableBehind(Handler(<<0, Lead[k]>>)) = k
<1>1. <<0, Lead[k]>> \in Leads
  BY DEF Leads
<1>2. \A j \in TwoByte : <<0, Lead[j]>> = <<0, Lead[k]>> => j = k
  BY TableAssumption
<1>3. (CHOOSE j \in TwoByte : <<0, Lead[j]>> = <<0, Lead[k]>>) = k
  BY <1>2
<1> QED BY <1>1, <1>3, HandlerIsNoStub DEF TableBehind

(* A slot is the pair of its table and entry.                              *)
LEMMA SlotIsPair ==
  ASSUME NEW s \in Slots
  PROVE  s = <<s[1], s[2]>> /\ s[1] \in Tables /\ s[2] \in Entries
BY DEF Slots

(* No thread runs early when both kinds of hooks are compiled in.          *)
LEMMA BothModes ==
  ASSUME "generic" \in Modes, "specific" \in Modes
  PROVE  Early = {}
<1>1. Modes = {"generic", "specific"}
  BY TracerAssumption
<1>2. \A m : Modes # {m}
  BY <1>1
<1>3. IsFiniteSet(Modes)
  <2>1. IsFiniteSet({"generic"})
    BY FS_Singleton
  <2>2. IsFiniteSet({"generic"} \cup {"specific"})
    BY <2>1, FS_AddElement
  <2>3. Modes = {"generic"} \cup {"specific"}
    BY <1>1
  <2> QED BY <2>2, <2>3
<1>4. Cardinality(Modes) # 1
  BY <1>2, <1>3, FS_Singleton
<1> QED BY <1>4, ModeAssumption

(* A slot that is hooked again is hooked by another kind of hook.          *)
LEMMA HookedAgain ==
  ASSUME StubInv, NEW s \in Slots, Live(s), lpc \in Walking,
         Matches(pass, s), stub[s].pre < pass
  PROVE  Early = {}
<1>1. /\ pass \in 0..Len(Hooks) /\ stub[s].pre \in 0..Len(Hooks)
      /\ Len(Hooks) \in Nat
  BY HooksAssumption
  DEF StubInv, TracerInv, LoaderTypes, TableTypes, StubContents
<1>2. "specific" \in Modes
  BY <1>1 DEF StubInv, PassRules
<1>3. Matches(stub[s].pre, s) /\ (stub[s].pre = 0 => "generic" \in Modes)
  BY DEF StubInv, StubRules
<1>4. stub[s].pre = 0
  <2> SUFFICES ASSUME stub[s].pre # 0 PROVE FALSE
    OBVIOUS
  <2>1. Hooks[pass] = Hooks[stub[s].pre]
    BY <1>1, <1>3 DEF Matches
  <2> QED BY <1>1, <2>1, HooksAssumption
<1> QED BY <1>2, <1>3, <1>4, BothModes

-----------------------------------------------------------------------------
(***************************************************************************)
(* The steps.                                                              *)
(***************************************************************************)

(* Before anything runs, every slot has its handler.                       *)
LEMMA StubInvInit == TracerInit => StubInv
<1> SUFFICES ASSUME TracerInit PROVE StubInv
  OBVIOUS
<1> USE DEF TracerInit, TableInit
<1>1. TracerInv
  BY TracerInvInit
<1>2. CopyRules
  BY TableAssumption, SlotIsPair DEF CopyRules, Walking
<1>3. \A s \in Slots : lut[s] = Handler(s) /\ ~Live(s)
  BY HandlerIsNoStub DEF Live
<1>4. PassRules /\ LutRules /\ StubRules /\ ThreadRules
  BY <1>3 DEF PassRules, LutRules, StubRules, ThreadRules, Walking
<1> QED BY <1>1, <1>2, <1>4 DEF StubInv

(* While the installer stands still, its rules are kept.                   *)
LEMMA InstallerFrame ==
  ASSUME StubInv, UNCHANGED <<tableVars, lpc, pass, pos>>
  PROVE  CopyRules' /\ PassRules' /\ LutRules' /\ StubRules'
<1>1. CopyRules'
  BY DEF StubInv, CopyRules, tableVars
<1>2. PassRules' /\ LutRules'
  BY DEF StubInv, PassRules, LutRules, tableVars
<1>3. StubRules'
  BY DEF StubInv, StubRules, Live, Visited, tableVars
<1> QED BY <1>1, <1>2, <1>3

(* A step of DllMain before the walk keeps its rules.                      *)
LEMMA PreparingStep ==
  ASSUME StubInv,
         OpenReport \/ NotifyCuckoo \/ LoadRuntime \/ LogBanner \/ HookInit
  PROVE  CopyRules' /\ PassRules' /\ LutRules' /\ StubRules'
<1>1. /\ lpc \in Preparing
      /\ lpc' \in Preparing \cup {"done"}
      /\ UNCHANGED <<lut, g_tables, saved>>
  BY DEF OpenReport, NotifyCuckoo, LoadRuntime, LogBanner, HookInit, FillInt3,
         LoaderAt, Preparing, tableVars
<1>2. lpc' \notin Walking
  BY <1>1 DEF Preparing, Walking
<1>3. \A s \in Slots : lut'[s] = Handler(s) /\ ~Live(s)'
  BY <1>1, HandlerIsNoStub DEF StubInv, LutRules, Live
<1>4. CopyRules'
  BY <1>1, <1>2 DEF StubInv, CopyRules
<1>5. PassRules' /\ LutRules' /\ StubRules'
  BY <1>2, <1>3 DEF PassRules, LutRules, StubRules, Walking
<1> QED BY <1>4, <1>5

(* A table is found and copied before anything is redirected, so the       *)
(* copies are handlers (hook.c:57-91).                                     *)
LEMMA LocateStep ==
  ASSUME StubInv, NEW k \in Tables, LocateTable(k)
  PROVE  CopyRules' /\ PassRules' /\ LutRules' /\ StubRules'
<1>1. /\ lpc = "locate"
      /\ \A j \in Tables : j < k <=> g_tables[j] # NoTable
      /\ lpc' = IF \E j \in Tables : j > k THEN "locate" ELSE StartOf(FirstPass)
      /\ g_tables' = [g_tables EXCEPT ![k] = FoundFor(k)]
      /\ saved' = [s \in Slots |->
           IF s[1] = k THEN lut[<<FoundFor(k), s[2]>>] ELSE saved[s]]
      /\ pass' = FirstPass
      /\ UNCHANGED <<lut, stub, pos>>
  BY DEF LocateTable, Locate, LoaderAt
<1>2. \A s \in Slots : lut[s] = Handler(s)
  BY <1>1 DEF StubInv, LutRules, Preparing
<1>3. FoundFor(k) = k
  <2>1. CASE k = 0
    BY <2>1 DEF FoundFor
  <2>2. CASE k # 0
    <3>1. k \in TwoByte /\ <<0, Lead[k]>> \in Slots
      BY <2>2, TableAssumption DEF TwoByte, Slots
    <3> QED BY <1>2, <2>2, <3>1, BehindOwnLead DEF FoundFor
  <2> QED BY <2>1, <2>2
<1>4. \A s \in Slots : s[1] = k => lut[<<FoundFor(k), s[2]>>] = Handler(s)
  BY <1>2, <1>3, SlotIsPair
<1>5. /\ \A j \in Tables : g_tables'[j] = IF j = k THEN k ELSE g_tables[j]
      /\ \A j \in Tables : j # k /\ ~(j > k) => g_tables[j] = j
      /\ k # NoTable
  <2>1. g_tables \in [Tables -> Tables \cup {NoTable}]
    BY DEF StubInv, TracerInv, TableTypes
  <2>2. \A j \in Tables : j # k /\ ~(j > k) => j < k
    BY TableAssumption
  <2> QED BY <1>1, <1>3, <2>1, <2>2, TableAssumption DEF StubInv, CopyRules
<1>6. CopyRules'
  <2>1. \A j \in Tables : g_tables'[j] \in {j, NoTable}
    BY <1>5 DEF StubInv, CopyRules
  <2>2. \A s \in Slots : g_tables'[s[1]] = s[1] => saved'[s] = Handler(s)
    BY <1>1, <1>4, <1>5, SlotIsPair DEF StubInv, CopyRules
  <2>3. lpc' \in Walking => ~\E j \in Tables : j > k
    BY <1>1 DEF Walking
  <2>4. lpc' \in Walking => \A j \in Tables : g_tables'[j] = j
    BY <1>5, <2>3
  <2> QED BY <2>1, <2>2, <2>4 DEF CopyRules
<1>7. PassRules'
  <2>1. CASE "generic" \in Modes
    BY <1>1, <2>1 DEF PassRules, FirstPass
  <2>2. CASE "generic" \notin Modes
    <3>1. "specific" \in Modes
      BY <2>2, TracerAssumption
    <3> QED BY <1>1, <2>2, <3>1 DEF PassRules, FirstPass
  <2> QED BY <2>1, <2>2
<1>8. \A s \in Slots : lut'[s] = Handler(s) /\ ~Live(s)'
  BY <1>1, <1>2, HandlerIsNoStub DEF Live
<1>9. lpc' \notin {"stub", "redirect"}
  BY <1>1 DEF StartOf
<1>10. LutRules' /\ StubRules'
  BY <1>8, <1>9 DEF LutRules, StubRules
<1> QED BY <1>6, <1>7, <1>10

(* What the installer knows at the slot it works on.                       *)
LEMMA AtWork ==
  ASSUME TracerInv, pos <= Len(Walk)
  PROVE  /\ pos \in 1..Len(Walk)
         /\ Walk[pos] \in Slots
         /\ pass \in Nat
         /\ \A p \in 1..pos : Walk[p] = Walk[pos] => p = pos
<1>1. pos \in 1..Len(Walk) /\ pass \in Nat
  BY WalkAssumption, HooksAssumption DEF TracerInv, LoaderTypes
<1> QED BY <1>1, WalkAssumption

(* Passing over a slot, or starting the next pass, leaves the stubs alone  *)
(* and the installer past what it was past before.                         *)
LEMMA WalkOnStep ==
  ASSUME StubInv, LogInstalling \/ Skip \/ EndPass \/ Attached \/ LogMissing
                    \/ ExitFlush \/ ExitProcess
  PROVE  CopyRules' /\ PassRules' /\ LutRules' /\ StubRules'
<1>1. /\ lpc \notin Preparing /\ lpc # "stub" /\ lpc # "redirect"
      /\ lpc' \in {"announce", "scan", "done", "exit", "exiting", "exited"}
      /\ lpc' \in Walking => lpc \in Walking
      /\ UNCHANGED tableVars
  BY DEF LogInstalling, Skip, EndPass, Attached, LogMissing, ExitFlush,
         ExitProcess, LoaderAt, Preparing, Walking
<1>2. /\ pos \in Nat /\ pos >= 1 /\ pass \in Nat
      /\ \A s \in Slots : stub[s].pre \in Nat
  BY WalkAssumption, HooksAssumption
  DEF StubInv, TracerInv, LoaderTypes, TableTypes, StubContents
<1>3. \/ UNCHANGED pass /\ pos' \in {pos, pos + 1}
      \/ pass' = pass + 1 /\ "specific" \in Modes /\ pos' = 1
  BY DEF LogInstalling, Skip, EndPass, Attached, LogMissing, ExitFlush,
         ExitProcess, IsLastPass
<1>4. CopyRules' /\ LutRules'
  BY <1>1 DEF StubInv, CopyRules, LutRules, tableVars, Preparing
<1>5. PassRules'
  BY <1>1, <1>2, <1>3 DEF StubInv, PassRules
<1>6. ASSUME NEW s \in Slots, Live(s)
      PROVE  stub[s].pre < pass' \/ (stub[s].pre = pass' /\ Visited(s)')
  <2>1. stub[s].pre < pass \/ (stub[s].pre = pass /\ Visited(s))
    BY <1>6 DEF StubInv, StubRules
  <2>2. CASE pass' = pass + 1
    <3>1. stub[s].pre < pass \/ stub[s].pre = pass
      BY <2>1
    <3>2. stub[s].pre < pass'
      BY <1>2, <2>2, <3>1
    <3> QED BY <3>2
  <2>3. CASE UNCHANGED pass /\ pos' \in {pos, pos + 1}
    <3>1. Visited(s) => Visited(s)'
      BY <1>1, <1>2, <2>3 DEF Visited
    <3> QED BY <2>1, <2>3, <3>1
  <2> QED BY <1>3, <2>2, <2>3
<1>7. \A s \in Slots : Live(s)' <=> Live(s)
  BY <1>1 DEF Live, tableVars
<1>8. UNCHANGED stub
  BY <1>1 DEF tableVars
<1>9. StubRules'
  BY <1>1, <1>6, <1>7, <1>8 DEF StubInv, StubRules
<1> QED BY <1>4, <1>5, <1>9

(* A stub that is in a table is opened again only by a second kind of      *)
(* hook, and then nothing runs early (hook.c:112-131).                     *)
LEMMA StartStubStep ==
  ASSUME StubInv, StartStub
  PROVE  CopyRules' /\ PassRules' /\ LutRules' /\ StubRules'
<1> DEFINE w == Walk[pos]
<1>1. /\ pos <= Len(Walk) /\ Matches(pass, w)
      /\ lpc = "scan" /\ lpc' = "stub"
      /\ stub' = [stub EXCEPT ![w].state = "partial"]
      /\ UNCHANGED <<lut, g_tables, saved, pass, pos>>
  BY DEF StartStub, BeginStub, LoaderAt
<1>2. /\ w \in Slots /\ pos \in 1..Len(Walk) /\ Len(Walk) \in Nat
      /\ \A p \in 1..pos : Walk[p] = w => p = pos
      /\ stub \in [Slots -> StubContents]
  BY <1>1, AtWork, WalkAssumption DEF StubInv, TracerInv, TableTypes
<1>3. CopyRules' /\ PassRules' /\ LutRules'
  BY <1>1
  DEF StubInv, CopyRules, PassRules, LutRules, Walking, Preparing
<1>4. /\ \A s \in Slots : stub'[s].orig = stub[s].orig /\ stub'[s].pre = stub[s].pre
      /\ \A s \in Slots \ {w} : stub'[s] = stub[s]
  BY <1>1, <1>2 DEF StubContents
<1>5. ASSUME NEW s \in Slots, Live(s)
      PROVE  /\ stub[s].pre < pass \/ (stub[s].pre = pass /\ Visited(s)')
             /\ stub'[s].state = "ready" \/ (s = w /\ Early = {})
  <2>1. stub[s].pre < pass \/ (stub[s].pre = pass /\ Visited(s))
    BY <1>5 DEF StubInv, StubRules
  <2>2. Visited(s) <=> Visited(s)'
    BY <1>1 DEF Visited
  <2>3. stub[s].state = "ready"
    BY <1>1, <1>5 DEF StubInv, StubRules
  <2>4. CASE s = w
    <3>1. ~Visited(w)
      BY <1>1, <1>2 DEF Visited
    <3> QED BY <1>1, <1>5, <2>1, <2>4, <3>1, HookedAgain DEF Walking
  <2>5. CASE s # w
    BY <1>4, <2>1, <2>2, <2>3, <2>5
  <2> QED BY <2>4, <2>5
<1>6. \A s \in Slots : Live(s)' <=> Live(s)
  BY <1>1 DEF Live
<1>7. StubRules'
  <2>1. Matches(pass, Walk[pos])'
    BY <1>1 DEF Matches
  <2>2. ASSUME NEW s \in Slots, Live(s)
        PROVE  /\ stub'[s].orig = Handler(s)
               /\ Matches(stub'[s].pre, s)
               /\ stub'[s].pre = 0 => "generic" \in Modes
    BY <1>4, <2>2 DEF StubInv, StubRules
  <2> QED BY <1>1, <1>4, <1>5, <1>6, <2>1, <2>2 DEF StubRules
<1> QED BY <1>3, <1>7

(* The stub gets the copied handler, which is the one of the slot          *)
(* (hook.c:125-131).                                                       *)
LEMMA FinishStubStep ==
  ASSUME StubInv, FinishStub
  PROVE  CopyRules' /\ PassRules' /\ LutRules' /\ StubRules'
<1> DEFINE w == Walk[pos]
<1>1. /\ lpc = "stub" /\ lpc' = "redirect"
      /\ stub' = [stub EXCEPT ![w] =
           [state |-> "ready", pre |-> pass, orig |-> saved[w]]]
      /\ UNCHANGED <<lut, g_tables, saved, pass, pos>>
  BY DEF FinishStub, EndStub, LoaderAt
<1>2. /\ w \in Slots /\ pos \in 1..Len(Walk) /\ Len(Walk) \in Nat
      /\ pass \in Nat
      /\ \A p \in 1..pos : Walk[p] = w => p = pos
      /\ stub \in [Slots -> StubContents]
  <2>1. pos <= Len(Walk)
    BY <1>1 DEF StubInv, TracerInv, LoaderTypes
  <2> QED BY <2>1, AtWork, WalkAssumption DEF StubInv, TracerInv, TableTypes
<1>3. CopyRules' /\ PassRules' /\ LutRules'
  BY <1>1
  DEF StubInv, CopyRules, PassRules, LutRules, Walking, Preparing
<1>4. saved[w] = Handler(w)
  BY <1>1, <1>2, SlotIsPair DEF StubInv, CopyRules, Walking
<1>5. /\ stub'[w] = [state |-> "ready", pre |-> pass, orig |-> Handler(w)]
      /\ \A s \in Slots \ {w} : stub'[s] = stub[s]
  BY <1>1, <1>2, <1>4
<1>6. \A s \in Slots : Live(s)' <=> Live(s)
  BY <1>1 DEF Live
<1>7. Matches(pass, w) /\ (pass = 0 => "generic" \in Modes)
  BY <1>1 DEF StubInv, StubRules, PassRules, Walking
<1>8. \A s \in Slots : s = w => Visited(s)'
  BY <1>1, <1>2 DEF Visited
<1>9. ASSUME NEW s \in Slots \ {w}, Live(s)
      PROVE  /\ stub[s].pre < pass \/ (stub[s].pre = pass /\ Visited(s)')
             /\ stub[s].state = "ready"
  <2>1. stub[s].pre < pass \/ (stub[s].pre = pass /\ Visited(s))
    BY <1>9 DEF StubInv, StubRules
  <2>2. Visited(s) => Visited(s)'
    BY <1>1 DEF Visited
  <2> QED BY <1>9, <2>1, <2>2 DEF StubInv, StubRules
<1>10. StubRules'
  <2>1. Matches(pass, Walk[pos])'
    BY <1>1, <1>7 DEF Matches
  <2>2. ASSUME NEW s \in Slots, Live(s)
        PROVE  /\ stub'[s].orig = Handler(s)
               /\ Matches(stub'[s].pre, s)
               /\ stub'[s].pre = 0 => "generic" \in Modes
               /\ stub'[s].pre < pass \/ (stub'[s].pre = pass /\ Visited(s)')
               /\ stub'[s].state = "ready"
    <3>1. CASE s = w
      <4>1. /\ stub'[s].state = "ready" /\ stub'[s].pre = pass
            /\ stub'[s].orig = Handler(s)
        BY <1>5, <3>1
      <4>2. Visited(s)'
        BY <1>8, <3>1
      <4>3. Matches(pass, s) /\ (pass = 0 => "generic" \in Modes)
        BY <1>7, <3>1
      <4> QED BY <4>1, <4>2, <4>3
    <3>2. CASE s # w
      BY <1>5, <1>9, <2>2, <3>2 DEF StubInv, StubRules
    <3> QED BY <3>1, <3>2
  <2>3. stub'[Walk'[pos']] = [state |-> "ready", pre |-> pass',
                              orig |-> Handler(Walk'[pos'])]
    BY <1>1, <1>5
  <2> QED BY <1>1, <1>6, <2>1, <2>2, <2>3 DEF StubRules
<1> QED BY <1>3, <1>10

(* Redirecting touches the slot at hand only (hook.c:143-144).             *)
LEMMA RedirectStep ==
  ASSUME StubInv, RedirectSlot
  PROVE  CopyRules' /\ PassRules' /\ LutRules' /\ StubRules'
<1> DEFINE w == Walk[pos]
<1>1. /\ lpc = "redirect" /\ lpc' = "scan" /\ pos' = pos + 1
      /\ lut' = [lut EXCEPT ![<<g_tables[w[1]], w[2]>>] = StubOf(w)]
      /\ UNCHANGED <<g_tables, saved, stub, pass>>
  BY DEF RedirectSlot, Redirect, LoaderAt
<1>2. /\ w \in Slots /\ pos \in 1..Len(Walk) /\ Len(Walk) \in Nat
      /\ pass \in Nat
      /\ lut \in [Slots -> Code]
  <2>1. pos <= Len(Walk)
    BY <1>1 DEF StubInv, TracerInv, LoaderTypes
  <2> QED BY <2>1, AtWork, WalkAssumption DEF StubInv, TracerInv, TableTypes
<1>3. <<g_tables[w[1]], w[2]>> = w
  BY <1>1, <1>2, SlotIsPair DEF StubInv, CopyRules, Walking
<1>4. lut'[w] = StubOf(w) /\ \A s \in Slots \ {w} : lut'[s] = lut[s]
  BY <1>1, <1>2, <1>3
<1>5. CopyRules' /\ PassRules'
  BY <1>1 DEF StubInv, CopyRules, PassRules, Walking
<1>6. LutRules'
  BY <1>1, <1>4 DEF StubInv, LutRules, Preparing
<1>7. \A s \in Slots \ {w} : Live(s)' <=> Live(s)
  BY <1>4 DEF Live
<1>8. ASSUME NEW s \in Slots, Visited(s)
      PROVE  Visited(s)'
  <2>1. \A p \in 1..pos : p \in 1..pos' /\ p < pos'
    BY <1>1, <1>2
  <2> QED BY <1>8, <2>1 DEF Visited
<1>9. \A s \in Slots : s = w => Visited(s)'
  BY <1>1, <1>2 DEF Visited
<1>10. ASSUME NEW s \in Slots, Live(s)'
       PROVE  /\ stub[s].orig = Handler(s)
              /\ Matches(stub[s].pre, s)
              /\ stub[s].pre = 0 => "generic" \in Modes
              /\ stub[s].pre < pass \/ (stub[s].pre = pass /\ Visited(s)')
              /\ stub[s].state = "ready"
  <2>1. CASE s = w
    <3>1. /\ stub[s].state = "ready" /\ stub[s].pre = pass
          /\ stub[s].orig = Handler(s) /\ Matches(pass, s)
      BY <1>1, <2>1 DEF StubInv, StubRules
    <3>2. Visited(s)'
      BY <1>9, <2>1
    <3>3. pass = 0 => "generic" \in Modes
      BY <1>1 DEF StubInv, PassRules, Walking
    <3> QED BY <3>1, <3>2, <3>3
  <2>2. CASE s # w
    <3>1. Live(s)
      BY <1>7, <1>10, <2>2
    <3> QED BY <1>1, <1>8, <3>1 DEF StubInv, StubRules
  <2> QED BY <2>1, <2>2
<1>11. StubRules'
  BY <1>1, <1>10 DEF StubRules
<1> QED BY <1>5, <1>6, <1>11

(* Every step keeps what is known of tables, copies and stubs.             *)
LEMMA InstallerStep ==
  ASSUME StubInv, [TracerNext]_tracerVars
  PROVE  CopyRules' /\ PassRules' /\ LutRules' /\ StubRules'
<1>1. CASE LoaderStep
  BY <1>1, PreparingStep, LocateStep, WalkOnStep, StartStubStep,
     FinishStubStep, RedirectStep
  DEF LoaderStep
<1>2. ASSUME NEW t \in Threads,
             \/ \E i \in Insns : Fetch(t, i)
             \/ VmStep(t)
             \/ ReportThread(t)
      PROVE  UNCHANGED <<tableVars, lpc, pass, pos>>
  BY <1>2 DEF Fetch, VmStep, CallPreHook, QuietPreHook, AskSymbol, CallNative,
              BeginDump, DumpLine, LeaveStub, SecondByte, Execute,
              ReportThread, loaderVars
<1>3. ASSUME ServePipe \/ KillProcess \/ Ended \/ UNCHANGED tracerVars
      PROVE  UNCHANGED <<tableVars, lpc, pass, pos>>
  BY <1>3 DEF ServePipe, KillProcess, Ended, tracerVars, loaderVars
<1> QED BY <1>1, <1>2, <1>3, InstallerFrame DEF TracerNext

-----------------------------------------------------------------------------
(***************************************************************************)
(* The threads.                                                            *)
(***************************************************************************)

(* What DllMain does to the tables pulls no slot away under a thread: a    *)
(* live stub stays live, and a thread that may run may go on.              *)
LEMMA LiveStays ==
  ASSUME StubInv, LoaderStep
  PROVE  /\ \A s \in Slots : Live(s) => Live(s)'
         /\ lpc = "done" => lpc' = "done"
<1>1. lpc # "done"
  BY DEF LoaderStep, OpenReport, NotifyCuckoo, LoadRuntime, LogBanner, HookInit,
     LocateTable, LogInstalling, Skip, StartStub, FinishStub, RedirectSlot,
     EndPass, Attached, LogMissing, ExitFlush, ExitProcess, LoaderAt
<1>2. CASE RedirectSlot
  <2> DEFINE w == Walk[pos]
  <2>1. /\ lpc = "redirect"
        /\ lut' = [lut EXCEPT ![<<g_tables[w[1]], w[2]>>] = StubOf(w)]
    BY <1>2 DEF RedirectSlot, Redirect, LoaderAt
  <2>2. w \in Slots
    <3>1. pos <= Len(Walk)
      BY <2>1 DEF StubInv, TracerInv, LoaderTypes
    <3> QED BY <3>1, AtWork DEF StubInv
  <2>3. <<g_tables[w[1]], w[2]>> = w
    BY <2>1, <2>2, SlotIsPair DEF StubInv, CopyRules, Walking
  <2>4. lut \in [Slots -> Code]
    BY DEF StubInv, TracerInv, TableTypes
  <2> QED BY <1>1, <2>1, <2>2, <2>3, <2>4 DEF Live
<1>3. CASE ~RedirectSlot
  <2>1. UNCHANGED lut
    BY <1>3
    DEF LoaderStep, OpenReport, NotifyCuckoo, LoadRuntime, LogBanner, HookInit,
        FillInt3, LocateTable, Locate, LogInstalling, Skip, StartStub,
        BeginStub, FinishStub, EndStub, EndPass, Attached, LogMissing,
        ExitFlush, ExitProcess, tableVars
  <2> QED BY <1>1, <2>1 DEF Live
<1> QED BY <1>2, <1>3

(* Where a jump through the table leads.                                   *)
LEMMA JumpThrough ==
  ASSUME StubInv, NEW s \in Slots
  PROVE  /\ lut[s].slot = s
         /\ lut[s].kind \in {"handler", "stub"}
         /\ lut[s].kind \in InStub => Live(s)
<1>1. lut[s] = Handler(s) \/ Live(s)
  BY DEF StubInv, LutRules, Live
<1> QED BY <1>1, HandlerIsNoStub DEF Live, InStub

(* A step of thread t alone keeps the rules if t keeps them.               *)
LEMMA ThreadAlone ==
  ASSUME StubInv, UNCHANGED <<lut, lpc>>, NEW t \in Threads,
         \A u \in Threads \ {t} :
           vpc'[u] = vpc[u] /\ at'[u] = at[u] /\ insn'[u] = insn[u],
         vpc'[t] # "fetch" =>
           /\ MayRun(t)
           /\ vpc'[t] # "null"
           /\ at'[t] \in {First(insn'[t]), insn'[t]}
           /\ vpc'[t] \in InStub => Live(at'[t])
  PROVE  ThreadRules'
<1>1. ASSUME NEW u \in Threads \ {t}, vpc'[u] # "fetch"
      PROVE  /\ MayRun(u)'
             /\ vpc'[u] # "null"
             /\ at'[u] \in {First(insn'[u]), insn'[u]}
             /\ vpc'[u] \in InStub => Live(at[u])'
  BY <1>1 DEF StubInv, ThreadRules, MayRun, Live
<1>2. vpc'[t] # "fetch" => MayRun(t)' /\ (vpc'[t] \in InStub => Live(at[t])')
  BY DEF MayRun, Live
<1>3. \A i : First(i)' = First(i)
  BY DEF First
<1> QED BY <1>1, <1>2, <1>3 DEF ThreadRules

(* A thread goes from the tables into a live stub, from there to the       *)
(* handler of the same slot, and behind a lead byte to the slot of its     *)
(* instruction.                                                            *)
LEMMA ThreadStep ==
  ASSUME StubInv, NEW t \in Threads,
         (\E i \in Insns : Fetch(t, i)) \/ VmStep(t)
  PROVE  ThreadRules'
<1> /\ vpc \in [Threads -> VmPlaces]
    /\ at \in [Threads -> Slots \cup {NoInsn}]
    /\ insn \in [Threads -> Insns \cup {NoInsn}]
    /\ vpc[t] # "fetch" => at[t] \in Slots /\ insn[t] \in Insns
  BY DEF StubInv, TracerInv, VmTypes
<1> ThreadRules
  BY DEF StubInv
<1>1. ASSUME NEW i \in Insns, Fetch(t, i)
      PROVE  ThreadRules'
  <2> DEFINE c == lut[First(i)]
  <2>1. /\ MayRun(t) /\ UNCHANGED <<lut, lpc>>
        /\ insn' = [insn EXCEPT ![t] = i]
        /\ vpc' = [vpc EXCEPT ![t] = c.kind]
        /\ at' = [at EXCEPT ![t] = c.slot]
    BY <1>1 DEF Fetch, Jump, tableVars, loaderVars
  <2>2. /\ c.slot = First(i) /\ c.kind \in {"handler", "stub"}
        /\ c.kind \in InStub => Live(First(i))
    BY FirstIsSlot, JumpThrough
  <2>3. vpc'[t] = c.kind /\ at'[t] = First(i) /\ insn'[t] = i
    BY <2>1, <2>2
  <2> QED BY <2>1, <2>2, <2>3, ThreadAlone
<1>2. ASSUME \/ CallPreHook(t) \/ QuietPreHook(t) \/ AskSymbol(t) \/ CallNative(t)
             \/ BeginDump(t) \/ DumpLine(t)
      PROVE  ThreadRules'
  <2>1. /\ vpc[t] \in InStub
        /\ \E p \in InStub : vpc' = [vpc EXCEPT ![t] = p]
        /\ UNCHANGED <<lut, lpc, at, insn>>
    BY <1>2 DEF CallPreHook, QuietPreHook, AskSymbol, CallNative, BeginDump,
                DumpLine, VmAt, InStub, tableVars, loaderVars
  <2>2. MayRun(t) /\ at[t] \in {First(insn[t]), insn[t]} /\ Live(at[t])
    BY <2>1 DEF ThreadRules, InStub
  <2>3. /\ vpc'[t] # "null" /\ at'[t] = at[t] /\ insn'[t] = insn[t]
        /\ \A u \in Threads \ {t} :
             vpc'[u] = vpc[u] /\ at'[u] = at[u] /\ insn'[u] = insn[u]
    BY <2>1 DEF InStub
  <2> QED BY <2>1, <2>2, <2>3, ThreadAlone
<1>3. ASSUME LeaveStub(t)
      PROVE  ThreadRules'
  <2>1. /\ vpc[t] \in InStub
        /\ vpc' = [vpc EXCEPT ![t] = stub[at[t]].orig.kind]
        /\ at' = [at EXCEPT ![t] = stub[at[t]].orig.slot]
        /\ UNCHANGED <<lut, lpc, insn>>
    BY <1>3 DEF LeaveStub, Jump, InStub, tableVars, loaderVars
  <2>2. /\ MayRun(t) /\ at[t] \in {First(insn[t]), insn[t]} /\ Live(at[t])
        /\ at[t] \in Slots
    BY <2>1 DEF ThreadRules, InStub
  <2>3. stub[at[t]].orig = Handler(at[t])
    BY <2>2 DEF StubInv, StubRules
  <2>4. vpc'[t] = "handler" /\ at'[t] = at[t] /\ insn'[t] = insn[t]
    BY <2>1, <2>2, <2>3, HandlerIsNoStub
  <2>5. \A u \in Threads \ {t} :
          vpc'[u] = vpc[u] /\ at'[u] = at[u] /\ insn'[u] = insn[u]
    BY <2>1
  <2> QED BY <2>1, <2>2, <2>4, <2>5, ThreadAlone DEF InStub
<1>4. ASSUME SecondByte(t)
      PROVE  ThreadRules'
  <2> DEFINE i == insn[t]
             k == TableBehind(Handler(at[t]))
             c == lut[<<k, i[2]>>]
  <2>1. /\ vpc[t] = "handler" /\ at[t] \in Leads
        /\ vpc' = [vpc EXCEPT ![t] = c.kind]
        /\ at' = [at EXCEPT ![t] = c.slot]
        /\ UNCHANGED <<lut, lpc, insn>>
    BY <1>4 DEF SecondByte, VmAt, Jump, tableVars, loaderVars
  <2>2. MayRun(t) /\ at[t] \in {First(i), i} /\ i \in Slots /\ i \notin Leads
    BY <2>1 DEF ThreadRules, Insns
  <2>3. i[1] # 0 /\ at[t] = <<0, Lead[i[1]]>> /\ i[1] \in TwoByte
    BY <2>1, <2>2, SlotIsPair DEF First, TwoByte
  <2>4. <<k, i[2]>> = i
    BY <2>2, <2>3, BehindOwnLead, SlotIsPair
  <2>5. /\ c.slot = i /\ c.kind \in {"handler", "stub"}
        /\ c.kind \in InStub => Live(i)
    BY <2>2, <2>4, JumpThrough
  <2>6. vpc'[t] = c.kind /\ at'[t] = i /\ insn'[t] = i
    BY <2>1, <2>5
  <2>7. \A u \in Threads \ {t} :
          vpc'[u] = vpc[u] /\ at'[u] = at[u] /\ insn'[u] = insn[u]
    BY <2>1
  <2> QED BY <2>1, <2>2, <2>5, <2>6, <2>7, ThreadAlone
<1>5. ASSUME Execute(t)
      PROVE  ThreadRules'
  <2>1. vpc' = [vpc EXCEPT ![t] = "fetch"] /\ UNCHANGED <<lut, lpc, at, insn>>
    BY <1>5 DEF Execute, tableVars, loaderVars
  <2> QED BY <2>1, ThreadAlone
<1> QED BY <1>1, <1>2, <1>3, <1>4, <1>5 DEF VmStep

(* Steps of others leave the threads of the machine where they are.        *)
LEMMA ThreadRulesStep ==
  ASSUME StubInv, [TracerNext]_tracerVars
  PROVE  ThreadRules'
<1>1. ASSUME UNCHANGED <<vpc, at, insn>>,
             \A s \in Slots : Live(s) => Live(s)',
             lpc = "done" => lpc' = "done"
      PROVE  ThreadRules'
  <2> SUFFICES ASSUME NEW t \in Threads, vpc[t] # "fetch"
               PROVE  /\ MayRun(t)'
                      /\ vpc[t] # "null"
                      /\ at[t] \in {First(insn[t]), insn[t]}
                      /\ vpc[t] \in InStub => Live(at[t])'
    BY <1>1 DEF ThreadRules, First
  <2>1. at[t] \in Slots
    BY DEF StubInv, TracerInv, VmTypes
  <2>2. /\ MayRun(t)
        /\ vpc[t] # "null"
        /\ at[t] \in {First(insn[t]), insn[t]}
        /\ vpc[t] \in InStub => Live(at[t])
    BY DEF StubInv, ThreadRules
  <2>3. Live(at[t]) => Live(at[t])'
    BY <1>1, <2>1 DEF Live
  <2> QED BY <1>1, <2>2, <2>3 DEF MayRun
<1>2. CASE LoaderStep
  <2>1. UNCHANGED <<vpc, at, insn>>
    BY <1>2
    DEF LoaderStep, OpenReport, NotifyCuckoo, LoadRuntime, LogBanner, HookInit,
        LocateTable, LogInstalling, Skip, StartStub, FinishStub, RedirectSlot,
        EndPass, Attached, LogMissing, ExitFlush, ExitProcess, LoaderLogs,
        vmVars
  <2> QED BY <1>1, <1>2, <2>1, LiveStays
<1>3. ASSUME NEW t \in Threads,
             (\E i \in Insns : Fetch(t, i)) \/ VmStep(t)
      PROVE  ThreadRules'
  BY <1>3, ThreadStep
<1>4. ASSUME \/ \E t \in Threads : ReportThread(t)
             \/ ServePipe \/ KillProcess \/ Ended \/ UNCHANGED tracerVars
      PROVE  ThreadRules'
  <2>1. UNCHANGED <<vpc, at, insn, lut, lpc>>
    BY <1>4 DEF ReportThread, ServePipe, KillProcess, Ended, tracerVars, vmVars,
                tableVars, loaderVars
  <2> QED BY <1>1, <2>1 DEF Live
<1> QED BY <1>2, <1>3, <1>4 DEF TracerNext

-----------------------------------------------------------------------------
(***************************************************************************)
(* The theorems.                                                           *)
(***************************************************************************)

(* StubInv is an inductive invariant of the tracer.                        *)
THEOREM StubInvHolds == TracerSpec => []StubInv
<1>1. TracerInit => StubInv
  BY StubInvInit
<1>2. StubInv /\ TracerInv' /\ [TracerNext]_tracerVars => StubInv'
  <2> SUFFICES ASSUME StubInv, TracerInv', [TracerNext]_tracerVars
               PROVE  StubInv'
    OBVIOUS
  <2> QED BY InstallerStep, ThreadRulesStep DEF StubInv
<1> QED BY <1>1, <1>2, TracerInvHolds, PTL DEF TracerSpec

(* Whoever dispatches through the tables, at any moment of the             *)
(* installation, finds the handler of the slot or a finished stub of it    *)
(* that leads to the handler (hook.c:112-131 before 143-144).              *)
THEOREM StubsHold == TracerSpec => []StubsSound
<1>1. StubInv => StubsSound
  <2> SUFFICES ASSUME StubInv, NEW t \in Threads, MayRun(t), NEW s \in Slots,
                      lut[s] # Handler(s)
               PROVE  /\ Live(s)
                      /\ stub[s].state = "ready"
                      /\ stub[s].orig = Handler(s)
                      /\ Matches(stub[s].pre, s)
    BY DEF StubsSound
  <2>1. Live(s)
    BY DEF StubInv, LutRules, Live
  <2>2. ~(lpc = "stub" /\ Early = {})
    BY DEF MayRun
  <2> QED BY <2>1, <2>2 DEF StubInv, StubRules
<1> QED BY <1>1, StubInvHolds, PTL

(* No thread is in a stub that is being rewritten, and none jumps to an    *)
(* address that was not copied.                                            *)
THEOREM NeverAstrayHolds == TracerSpec => []NeverAstray
<1>1. StubInv => NeverAstray
  <2> SUFFICES ASSUME StubInv, NEW t \in Threads
               PROVE  /\ vpc[t] # "null"
                      /\ vpc[t] \in InStub => StubReady(t)
    BY DEF NeverAstray, InStub
  <2>1. vpc[t] # "null"
    BY DEF StubInv, ThreadRules
  <2>2. ASSUME vpc[t] \in InStub
        PROVE  StubReady(t)
    <3>1. at[t] \in Slots /\ MayRun(t) /\ Live(at[t])
      BY <2>2 DEF StubInv, TracerInv, VmTypes, ThreadRules, InStub
    <3>2. ~(lpc = "stub" /\ Early = {})
      BY <3>1 DEF MayRun
    <3> QED BY <3>1, <3>2 DEF StubInv, StubRules, StubReady
  <2> QED BY <2>1, <2>2
<1> QED BY <1>1, StubInvHolds, PTL

(* Tracing is transparent: the handlers that run are those of the untraced *)
(* machine, for any hooks, at any moment of the installation.              *)
THEOREM TransparentHolds == TracerSpec => []Transparent
<1>1. StubInv => Transparent
  BY DEF StubInv, ThreadRules, Transparent
<1> QED BY <1>1, StubInvHolds, PTL

-----------------------------------------------------------------------------
(***************************************************************************)
(* All or exit: what the installer has done when it stops, whichever way   *)
(* it stops.  WalkInv follows the walk slot by slot: which hooks are due,  *)
(* that they and no others are in the tables, and what ret tells.          *)
(***************************************************************************)
GivingUp == {"exit", "exiting", "exited"}

InstallerRan == lpc \notin Preparing /\ (lpc = "done" => g_vb6)

(* The installer has left slot s behind in the current pass.               *)
Passed(s) == \E p \in 1..(pos - 1) : Walk[p] = s

(* A pass starts at the first slot, ret counts from its start, and it is   *)
(* given up, or counted as done, only at the end of the walk.              *)
WalkRules ==
  /\ ret \in Nat
  /\ lpc \in Preparing \cup {"announce"} => pos = 1
  /\ ret = 0 <=> \A s \in Slots : Passed(s) => ~Matches(pass, s)
  /\ lpc \in GivingUp => pos > Len(Walk) /\ NothingHooked
  /\ lpc = "done" /\ g_vb6 => pos > Len(Walk) /\ ~NothingHooked /\ IsLastPass

(* The hooks that slot s ought to have got by now.                         *)
Due(s) == {h \in Wanted(s) : h < pass \/ (h = pass /\ Passed(s))}

(* Every earlier pass has found its mnemonic; a slot has a stub if and     *)
(* only if a hook is due, and it is that of the last hook that is.         *)
DueRules ==
  InstallerRan =>
    /\ \A h \in 1..(pass - 1) : \E s \in Slots : Matches(h, s)
    /\ \A s \in Slots :
         /\ Live(s) <=> Due(s) # {}
         /\ Live(s) /\ ~(lpc = "redirect" /\ s = Walk[pos]) =>
              /\ stub[s].pre \in Due(s)
              /\ \A h \in Due(s) : h <= stub[s].pre

WalkInv == StubInv /\ WalkRules /\ DueRules

(* The numbers of the walk.                                                *)
LEMMA WalkNumbers ==
  ASSUME StubInv
  PROVE  /\ pass \in 0..Len(Hooks) /\ Len(Hooks) \in Nat
         /\ pos \in 1..(Len(Walk) + 1) /\ Len(Walk) \in Nat
         /\ \A s \in Slots : Wanted(s) \subseteq Nat
         /\ \A s \in Slots : stub[s].pre \in Nat
BY WalkAssumption, HooksAssumption
DEF StubInv, TracerInv, LoaderTypes, TableTypes, StubContents, Wanted

(* The walk visits every slot.                                             *)
LEMMA AllPassed ==
  ASSUME StubInv, pos > Len(Walk), NEW s \in Slots
  PROVE  Passed(s)
<1>1. pos = Len(Walk) + 1
  BY WalkNumbers
<1>2. \E p \in 1..Len(Walk) : Walk[p] = s
  BY WalkAssumption
<1> QED BY <1>1, <1>2, WalkNumbers DEF Passed

(* Going on to the next slot passes the one at hand, and no other.         *)
LEMMA PassedOn ==
  ASSUME StubInv, pos' = pos + 1
  PROVE  \A s \in Slots : Passed(s)' <=> Passed(s) \/ s = Walk[pos]
<1>1. 1..(pos' - 1) = (1..(pos - 1)) \cup {pos}
  BY WalkNumbers
<1> QED BY <1>1 DEF Passed

(* Whether a hook is wanted for a slot does not change.                    *)
LEMMA WantedStays ==
  ASSUME NEW s, UNCHANGED <<lut, stub>>
  PROVE  (Live(s)' <=> Live(s)) /\ Wanted(s)' = Wanted(s)
BY DEF Live, Wanted, Matches

(* While the installer stands still, or before it starts.                  *)
LEMMA WalkFrame ==
  ASSUME WalkInv, UNCHANGED <<tableVars, g_vb6, lpc, pass, pos, ret>>
  PROVE  WalkRules' /\ DueRules'
<1>1. WalkRules'
  BY DEF WalkInv, WalkRules, Passed, Matches, NothingHooked, IsLastPass
<1>2. DueRules'
  BY DEF WalkInv, DueRules, InstallerRan, Live, Due, Wanted, Passed, Matches,
         tableVars
<1> QED BY <1>1, <1>2

(* Before the tables are located, or without the runtime, nothing is due.  *)
LEMMA WalkPreparing ==
  ASSUME WalkInv,
         OpenReport \/ NotifyCuckoo \/ LoadRuntime \/ LogBanner \/ HookInit
  PROVE  WalkRules' /\ DueRules'
<1>1. /\ lpc \in Preparing
      /\ lpc' \in Preparing \/ (lpc' = "done" /\ ~g_vb6')
      /\ UNCHANGED <<pass, pos, ret>>
  BY DEF OpenReport, NotifyCuckoo, LoadRuntime, LogBanner, HookInit, LoaderAt,
         Preparing
<1>2. lpc' \notin GivingUp /\ ~(lpc' = "done" /\ g_vb6') /\ ~InstallerRan'
  BY <1>1 DEF Preparing, GivingUp, InstallerRan
<1>3. WalkRules'
  BY <1>1, <1>2 DEF WalkInv, WalkRules, Passed, Matches
<1> QED BY <1>2, <1>3 DEF DueRules

(* While the tables are located, nothing is due and nothing is live.       *)
LEMMA WalkLocate ==
  ASSUME WalkInv, NEW k \in Tables, LocateTable(k)
  PROVE  WalkRules' /\ DueRules'
<1>1. /\ lpc = "locate" /\ lpc' \in {"locate", "scan", "announce"}
      /\ pass' = FirstPass
      /\ UNCHANGED <<lut, stub, pos, ret>>
  BY DEF LocateTable, Locate, LoaderAt, StartOf
<1>2. pos = 1 /\ pos' = 1 /\ \A s : ~Passed(s) /\ ~Passed(s)'
  BY <1>1 DEF WalkInv, WalkRules, Passed, Preparing
<1>3. WalkRules'
  BY <1>1, <1>2 DEF WalkInv, WalkRules, GivingUp, Preparing
<1>4. \A s \in Slots : ~Live(s)'
  BY <1>1, HandlerIsNoStub DEF WalkInv, StubInv, LutRules, Preparing, Live
<1>5. \A s \in Slots : Due(s)' = {}
  <2>1. ASSUME NEW s \in Slots, NEW h \in Wanted(s)'
        PROVE  ~(h < pass')
    <3>1. h \in Nat /\ (h = 0 => "generic" \in Modes)
      BY <2>1, HooksAssumption DEF Wanted
    <3> QED BY <1>1, <3>1 DEF FirstPass
  <2> QED BY <1>2, <2>1 DEF Due
<1>6. ~\E h \in 1..(pass' - 1) : TRUE
  BY <1>1 DEF FirstPass
<1> QED BY <1>3, <1>4, <1>5, <1>6 DEF DueRules

(* A slot that the hook of the pass does not name is due to nothing more.  *)
LEMMA WalkSkip ==
  ASSUME WalkInv, Skip
  PROVE  WalkRules' /\ DueRules'
<1> DEFINE w == Walk[pos]
<1>1. /\ pos <= Len(Walk) /\ ~Matches(pass, w)
      /\ lpc = "scan" /\ lpc' = "scan" /\ pos' = pos + 1
      /\ UNCHANGED <<lut, g_tables, saved, stub, g_vb6, pass, ret>>
  BY DEF Skip, LoaderAt, tableVars
<1>2. \A s \in Slots : Passed(s)' <=> Passed(s) \/ s = w
  BY <1>1, PassedOn DEF WalkInv
<1>3. WalkRules'
  BY <1>1, <1>2 DEF WalkInv, WalkRules, Matches, GivingUp, Preparing
<1>4. ASSUME NEW s \in Slots
      PROVE  Due(s)' = Due(s)
  <2>1. s = w => pass \notin Wanted(s)
    BY <1>1 DEF Wanted
  <2> QED BY <1>1, <1>2, <2>1, WantedStays DEF Due
<1>5. InstallerRan
  BY <1>1 DEF InstallerRan, Preparing
<1> QED BY <1>1, <1>3, <1>4, <1>5, WantedStays DEF WalkInv, DueRules, Matches

(* While the stub of a slot is made, the slot is not passed; its stub may  *)
(* change owner, which counts only from the redirection on.                *)
LEMMA WalkStub ==
  ASSUME WalkInv, StartStub \/ FinishStub
  PROVE  WalkRules' /\ DueRules'
<1> DEFINE w == Walk[pos]
<1>1. /\ lpc \in {"scan", "stub"} /\ lpc' \in {"stub", "redirect"}
      /\ lpc = "stub" => lpc' = "redirect"
      /\ UNCHANGED <<lut, g_vb6, pass, pos, ret>>
  BY DEF StartStub, FinishStub, BeginStub, EndStub, LoaderAt
<1>2. /\ \A s \in Slots \ {w} : stub'[s] = stub[s]
      /\ lpc' # "redirect" => \A s \in Slots : stub'[s].pre = stub[s].pre
  <2>1. stub \in [Slots -> StubContents]
    BY DEF WalkInv, StubInv, TracerInv, TableTypes
  <2>2. CASE StartStub
    <3>1. stub' = [stub EXCEPT ![w].state = "partial"]
      BY <2>2 DEF StartStub, BeginStub
    <3> QED BY <2>1, <3>1 DEF StubContents
  <2>3. CASE FinishStub
    <3>1. /\ stub' = [stub EXCEPT
               ![w] = [state |-> "ready", pre |-> pass, orig |-> saved[w]]]
          /\ lpc' = "redirect"
      BY <2>3 DEF FinishStub, EndStub, LoaderAt
    <3> QED BY <2>1, <3>1
  <2> QED BY <2>2, <2>3
<1>3. \A s : Passed(s)' <=> Passed(s)
  BY <1>1 DEF Passed
<1>4. WalkRules'
  BY <1>1, <1>3 DEF WalkInv, WalkRules, Matches, GivingUp, Preparing
<1>5. \A s \in Slots : Due(s)' = Due(s) /\ (Live(s)' <=> Live(s))
  BY <1>1, <1>3 DEF Due, Wanted, Live, Matches
<1>6. InstallerRan
  BY <1>1 DEF InstallerRan, Preparing
<1>7. ASSUME NEW s \in Slots, Live(s)', ~(lpc' = "redirect" /\ s = w)
      PROVE  stub'[s].pre \in Due(s)' /\ \A h \in Due(s)' : h <= stub'[s].pre
  BY <1>1, <1>2, <1>5, <1>6, <1>7 DEF WalkInv, DueRules
<1>8. \A h \in 1..(pass' - 1) : \E s \in Slots : Matches(h, s)'
  BY <1>1, <1>6 DEF WalkInv, DueRules, Matches
<1>9. \A s \in Slots : Live(s)' <=> Due(s)' # {}
  BY <1>5, <1>6 DEF WalkInv, DueRules
<1>10. w' = w
  BY <1>1
<1> QED BY <1>4, <1>7, <1>8, <1>9, <1>10 DEF DueRules

(* The slot is redirected: from now on it has the hook of the pass, which  *)
(* is the last of those that are due.                                      *)
LEMMA WalkRedirect ==
  ASSUME WalkInv, RedirectSlot
  PROVE  WalkRules' /\ DueRules'
<1>0. PICK w : w = Walk[pos]
  OBVIOUS
<1>1. /\ lpc = "redirect" /\ lpc' = "scan"
      /\ pos' = pos + 1 /\ ret' = ret + 1
      /\ lut' = [lut EXCEPT ![<<g_tables[w[1]], w[2]>>] = StubOf(w)]
      /\ UNCHANGED <<stub, g_vb6, pass>>
  BY <1>0 DEF RedirectSlot, Redirect, LoaderAt
<1>2. w \in Slots /\ lut \in [Slots -> Code]
  <2>1. pos <= Len(Walk)
    BY <1>1 DEF WalkInv, StubInv, TracerInv, LoaderTypes
  <2> QED BY <1>0, <2>1, AtWork DEF WalkInv, StubInv, TracerInv, TableTypes
<1>3. <<g_tables[w[1]], w[2]>> = w
  BY <1>1, <1>2, SlotIsPair DEF WalkInv, StubInv, CopyRules, Walking
<1>4. /\ Live(w)'
      /\ \A s \in Slots \ {w} : Live(s)' <=> Live(s)
  BY <1>1, <1>2, <1>3 DEF Live
<1>5. Matches(pass, w) /\ stub[w].pre = pass
  BY <1>0, <1>1, <1>2 DEF WalkInv, StubInv, StubRules
<1>6. \A s \in Slots : Passed(s)' <=> Passed(s) \/ s = w
  BY <1>0, <1>1, PassedOn DEF WalkInv
<1>7. WalkRules'
  <2>1. ret' \in Nat /\ ret' # 0
    BY <1>1 DEF WalkInv, WalkRules
  <2>2. Passed(w)' /\ Matches(pass, w)'
    BY <1>1, <1>2, <1>5, <1>6 DEF Matches
  <2> QED BY <1>1, <1>2, <2>1, <2>2 DEF WalkRules, GivingUp, Preparing
<1>8. \A s \in Slots : Wanted(s)' = Wanted(s)
  BY DEF Wanted, Matches
<1>9. pass \in Wanted(w)
  <2>1. (IF pass = 0 THEN "generic" ELSE "specific") \in Modes
    BY <1>1 DEF WalkInv, StubInv, PassRules, Walking
  <2> QED BY <1>5, <2>1, WalkNumbers DEF Wanted, WalkInv
<1>10. \A s \in Slots \ {w} : Due(s)' = Due(s)
  BY <1>1, <1>6, <1>8 DEF Due
<1>11. pass \in Due(w)' /\ \A h \in Due(w)' : h <= pass
  <2>1. pass \in Due(w)'
    BY <1>1, <1>2, <1>6, <1>8, <1>9 DEF Due
  <2>2. \A h \in Due(w)' : h \in Nat /\ (h < pass \/ h = pass)
    BY <1>1, <1>2, <1>8, WalkNumbers DEF Due, WalkInv
  <2> QED BY <2>1, <2>2, WalkNumbers DEF WalkInv
<1>12. InstallerRan
  BY <1>1 DEF InstallerRan, Preparing
<1>13. ASSUME NEW s \in Slots
       PROVE  /\ Live(s)' <=> Due(s)' # {}
              /\ Live(s)' => /\ stub'[s].pre \in Due(s)'
                             /\ \A h \in Due(s)' : h <= stub'[s].pre
  <2>1. CASE s = w
    BY <1>1, <1>4, <1>5, <1>11, <2>1
  <2>2. CASE s # w
    <3>1. /\ Live(s) <=> Due(s) # {}
          /\ Live(s) => /\ stub[s].pre \in Due(s)
                        /\ \A h \in Due(s) : h <= stub[s].pre
      BY <1>0, <1>12, <2>2 DEF WalkInv, DueRules
    <3> QED BY <1>1, <1>4, <1>10, <2>2, <3>1
  <2> QED BY <2>1, <2>2
<1>14. \A h \in 1..(pass' - 1) : \E s \in Slots : Matches(h, s)'
  BY <1>1, <1>12 DEF WalkInv, DueRules, Matches
<1> QED BY <1>7, <1>13, <1>14 DEF DueRules

(* A pass that hooked something is followed by the next; what was due at   *)
(* its end is due at the start of the next, and no more.                   *)
LEMMA WalkEndPass ==
  ASSUME WalkInv, EndPass
  PROVE  WalkRules' /\ DueRules'
<1>1. /\ pos > Len(Walk) /\ ~NothingHooked
      /\ lpc = "scan" /\ lpc' = "announce"
      /\ pass' = pass + 1 /\ pos' = 1 /\ ret' = 0
      /\ UNCHANGED <<lut, stub, g_vb6>>
  BY DEF EndPass, LoaderAt, tableVars
<1>2. \A s \in Slots : Passed(s) /\ ~Passed(s)'
  BY <1>1, AllPassed DEF WalkInv, Passed
<1>3. WalkRules'
  BY <1>1, <1>2 DEF WalkRules, GivingUp, Preparing
<1>4. InstallerRan
  BY <1>1 DEF InstallerRan, Preparing
<1>5. ASSUME NEW s \in Slots
      PROVE  Due(s)' = Due(s)
  <2>1. \A h \in Wanted(s) : h < pass + 1 <=> h < pass \/ h = pass
    BY WalkNumbers DEF WalkInv
  <2>2. Wanted(s)' = Wanted(s)
    BY <1>1, WantedStays
  <2> QED BY <1>1, <1>2, <2>1, <2>2 DEF Due
<1>6. \A h \in 1..(pass' - 1) : \E s \in Slots : Matches(h, s)'
  <2>1. pass # 0 => \E s \in Slots : Matches(pass, s)
    BY <1>1 DEF NothingHooked, WalkInv, WalkRules
  <2>2. \A h \in 1..(pass - 1) : \E s \in Slots : Matches(h, s)
    BY <1>4 DEF WalkInv, DueRules
  <2>3. \A h \in 1..(pass' - 1) : h \in 1..(pass - 1) \/ (h = pass /\ pass # 0)
    BY <1>1, WalkNumbers DEF WalkInv
  <2> QED BY <2>1, <2>2, <2>3 DEF Matches
<1>7. \A s \in Slots : Live(s)' <=> Live(s)
  BY <1>1 DEF Live
<1>8. \A s \in Slots :
        /\ Live(s) <=> Due(s) # {}
        /\ Live(s) => /\ stub[s].pre \in Due(s)
                      /\ \A h \in Due(s) : h <= stub[s].pre
  BY <1>1, <1>4 DEF WalkInv, DueRules
<1>9. \A s \in Slots :
        /\ Live(s)' <=> Due(s)' # {}
        /\ Live(s)' => /\ stub'[s].pre \in Due(s)'
                       /\ \A h \in Due(s)' : h <= stub'[s].pre
  BY <1>1, <1>5, <1>7, <1>8
<1> QED BY <1>3, <1>6, <1>9 DEF DueRules

(* The other steps of DllMain move neither the walk nor the tables.        *)
LEMMA WalkRest ==
  ASSUME WalkInv,
         LogInstalling \/ Attached \/ LogMissing \/ ExitFlush \/ ExitProcess
  PROVE  WalkRules' /\ DueRules'
<1>1. /\ lpc \notin Preparing /\ lpc \notin {"done", "redirect"}
      /\ lpc' \in {"scan", "done"} \cup GivingUp
      /\ UNCHANGED <<lut, stub, pass, pos, ret>>
  BY DEF LogInstalling, Attached, LogMissing, ExitFlush, ExitProcess, LoaderAt,
         Preparing, GivingUp, tableVars
<1>2. /\ lpc' \in GivingUp => pos > Len(Walk) /\ NothingHooked
      /\ lpc' = "done" => pos > Len(Walk) /\ ~NothingHooked /\ IsLastPass
  BY DEF LogInstalling, Attached, LogMissing, ExitFlush, ExitProcess, LoaderAt,
         WalkInv, WalkRules, GivingUp
<1>3. /\ \A s : Passed(s)' <=> Passed(s)
      /\ NothingHooked' <=> NothingHooked
      /\ IsLastPass' <=> IsLastPass
  BY <1>1 DEF Passed, NothingHooked, IsLastPass
<1>4. WalkRules'
  BY <1>1, <1>2, <1>3 DEF WalkInv, WalkRules, Matches, GivingUp, Preparing
<1>5. \A s \in Slots : Due(s)' = Due(s) /\ (Live(s)' <=> Live(s))
  BY <1>1, <1>3, WantedStays DEF Due
<1>6. InstallerRan
  BY <1>1 DEF InstallerRan
<1>7. lpc' # "redirect"
  BY <1>1 DEF GivingUp
<1> QED BY <1>1, <1>4, <1>5, <1>6, <1>7 DEF WalkInv, DueRules, Matches

(* Every step keeps what is known of the walk.                             *)
LEMMA WalkStep ==
  ASSUME WalkInv, [TracerNext]_tracerVars
  PROVE  WalkRules' /\ DueRules'
<1>1. CASE LoaderStep
  BY <1>1, WalkPreparing, WalkLocate, WalkSkip, WalkStub, WalkRedirect,
     WalkEndPass, WalkRest
  DEF LoaderStep
<1>2. ASSUME NEW t \in Threads,
             \/ \E i \in Insns : Fetch(t, i)
             \/ VmStep(t)
             \/ ReportThread(t)
      PROVE  UNCHANGED <<tableVars, g_vb6, lpc, pass, pos, ret>>
  BY <1>2 DEF Fetch, VmStep, CallPreHook, QuietPreHook, AskSymbol, CallNative,
              BeginDump, DumpLine, LeaveStub, SecondByte, Execute,
              ReportThread, loaderVars
<1>3. ASSUME ServePipe \/ KillProcess \/ Ended \/ UNCHANGED tracerVars
      PROVE  UNCHANGED <<tableVars, g_vb6, lpc, pass, pos, ret>>
  BY <1>3 DEF ServePipe, KillProcess, Ended, tracerVars, loaderVars
<1> QED BY <1>1, <1>2, <1>3, WalkFrame DEF TracerNext

(* The walk has not begun.                                                 *)
LEMMA WalkInit == TracerInit => WalkInv
<1> SUFFICES ASSUME TracerInit PROVE WalkInv
  OBVIOUS
<1>1. StubInv
  BY StubInvInit
<1>2. lpc = "open" /\ pass = 0 /\ pos = 1 /\ ret = 0
  BY DEF TracerInit
<1>3. WalkRules
  BY <1>2 DEF WalkRules, Passed, GivingUp
<1>4. DueRules
  BY <1>2 DEF DueRules, InstallerRan, Preparing
<1> QED BY <1>1, <1>3, <1>4 DEF WalkInv

(* WalkInv is an inductive invariant of the tracer.                        *)
THEOREM WalkInvHolds == TracerSpec => []WalkInv
<1>1. TracerInit => WalkInv
  BY WalkInit
<1>2. WalkInv /\ StubInv' /\ [TracerNext]_tracerVars => WalkInv'
  BY WalkStep DEF WalkInv
<1> QED BY <1>1, <1>2, StubInvHolds, PTL DEF TracerSpec

(* When DllMain has returned, everything that is wanted is due.            *)
LEMMA DueAtEnd ==
  ASSUME WalkInv, lpc = "done", g_vb6, NEW s \in Slots
  PROVE  Due(s) = Wanted(s)
<1>1. pos > Len(Walk) /\ IsLastPass
  BY DEF WalkInv, WalkRules
<1>2. Passed(s)
  BY <1>1, AllPassed DEF WalkInv
<1>3. ASSUME NEW h \in Wanted(s)
      PROVE  h < pass \/ h = pass
  <2>1. h \in 0..Len(Hooks) /\ ("specific" \notin Modes => h = 0)
    BY DEF Wanted
  <2> QED BY <1>1, <2>1, WalkNumbers DEF WalkInv, IsLastPass
<1> QED BY <1>2, <1>3 DEF Due

(* What the tables hold when DllMain has returned.                         *)
LEMMA Installed ==
  ASSUME WalkInv, lpc = "done", g_vb6
  PROVE  \A s \in Slots :
           /\ Live(s) <=> Wanted(s) # {}
           /\ Live(s) => /\ stub[s].state = "ready"
                         /\ stub[s].orig = Handler(s)
                         /\ stub[s].pre \in Wanted(s)
                         /\ \A h \in Wanted(s) : h <= stub[s].pre
<1>1. InstallerRan
  BY DEF InstallerRan, Preparing
<1>2. \A s \in Slots : Due(s) = Wanted(s)
  BY DueAtEnd
<1>3. ASSUME NEW s \in Slots, Live(s)
      PROVE  stub[s].state = "ready" /\ stub[s].orig = Handler(s)
  BY <1>3 DEF WalkInv, StubInv, StubRules
<1> QED BY <1>1, <1>2, <1>3 DEF WalkInv, DueRules

(* Between two passes, at the end and when DllMain gives up, the hooks due *)
(* for a slot are those of the passes that are over.                       *)
LEMMA DueOfPassesOver ==
  ASSUME WalkInv, NEW s \in Slots,
         \/ lpc \in GivingUp
         \/ lpc = "announce"
         \/ lpc = "done" /\ g_vb6
  PROVE  Due(s) = {h \in PassesOver : Matches(h, s)}
<1>1. {h \in PassesOver : Matches(h, s)}
        = {h \in Wanted(s) : h < pass \/ lpc = "done"}
  BY DEF PassesOver, Wanted
<1>2. CASE lpc \in GivingUp
  <2>1. pos > Len(Walk) /\ ret = 0 /\ lpc # "done"
    BY <1>2 DEF WalkInv, WalkRules, NothingHooked, GivingUp
  <2>2. ~Matches(pass, s)
    BY <2>1, AllPassed DEF WalkInv, WalkRules
  <2> QED BY <1>1, <2>1, <2>2 DEF Due, Wanted
<1>3. CASE lpc = "announce"
  <2>1. ~Passed(s)
    BY <1>3 DEF WalkInv, WalkRules, Passed
  <2> QED BY <1>1, <1>3, <2>1 DEF Due
<1>4. CASE lpc = "done" /\ g_vb6
  BY <1>1, <1>4, DueAtEnd
<1> QED BY <1>2, <1>3, <1>4

(* DllMain gives up only when a mnemonic is in no table, and whenever it   *)
(* is between two passes, has returned or gives up, the tables hold the    *)
(* hooks of the passes that are over and no others, each in a whole stub   *)
(* of its own slot (insns.c:226-236, hook.c:152-219).                      *)
THEOREM AllOrExitHolds == TracerSpec => []AllOrExit
<1>1. ASSUME WalkInv PROVE AllOrExit
  <2> DEFINE absent(h) == \A s \in Slots : ~Matches(h, s)
             rests == \/ lpc \in GivingUp
                      \/ lpc = "announce"
                      \/ lpc = "done" /\ g_vb6
  <2>1. lpc \in GivingUp => absent(pass)
    <3> SUFFICES ASSUME lpc \in GivingUp PROVE absent(pass)
      OBVIOUS
    <3>1. pos > Len(Walk) /\ ret = 0
      BY <1>1 DEF WalkInv, WalkRules, NothingHooked
    <3> QED BY <1>1, <3>1, AllPassed DEF WalkInv, WalkRules
  <2>2. rests => InstallerRan
    BY DEF InstallerRan, GivingUp, Preparing
  <2>3. ASSUME rests, NEW h \in PassesOver \ {0}
        PROVE  ~absent(h)
    <3>1. h \in 1..Len(Hooks) /\ "specific" \in Modes
      BY <1>1, WalkNumbers DEF WalkInv, PassesOver
    <3>2. CASE h \in 1..(pass - 1)
      BY <1>1, <2>2, <2>3, <3>2 DEF WalkInv, DueRules
    <3>3. CASE lpc = "done"
      <4>1. pass = Len(Hooks) /\ ~NothingHooked /\ g_vb6
        BY <1>1, <2>3, <3>1, <3>3 DEF WalkInv, WalkRules, IsLastPass, GivingUp
      <4>2. CASE h = pass
        BY <1>1, <3>1, <4>1, <4>2 DEF NothingHooked, WalkInv, WalkRules
      <4>3. h \in 1..(pass - 1) \/ h = pass
        BY <1>1, <3>1, <4>1, WalkNumbers DEF WalkInv
      <4> QED BY <3>2, <4>2, <4>3
    <3>4. h < pass \/ lpc = "done"
      BY DEF PassesOver
    <3> QED BY <1>1, <3>1, <3>2, <3>3, <3>4, WalkNumbers DEF WalkInv
  <2>4. ASSUME rests, NEW s \in Slots
        PROVE  LET by == {h \in PassesOver : Matches(h, s)}
               IN  /\ Live(s) <=> by # {}
                   /\ Live(s) => /\ stub[s].state = "ready"
                                 /\ stub[s].orig = Handler(s)
                                 /\ stub[s].pre \in by
                                 /\ \A h \in by : h <= stub[s].pre
    <3>1. Due(s) = {h \in PassesOver : Matches(h, s)}
      BY <1>1, <2>4, DueOfPassesOver
    <3>2. lpc # "redirect" /\ lpc # "stub"
      BY <2>4 DEF GivingUp
    <3>3. Live(s) => stub[s].state = "ready" /\ stub[s].orig = Handler(s)
      BY <1>1, <3>2 DEF WalkInv, StubInv, StubRules
    <3> QED BY <1>1, <2>2, <2>4, <3>1, <3>2, <3>3 DEF WalkInv, DueRules
  <2> QED BY <2>1, <2>3, <2>4 DEF AllOrExit, GivingUp
<1> QED BY <1>1, WalkInvHolds, PTL

-----------------------------------------------------------------------------
(***************************************************************************)
(* Proofs that the trace is written ahead of the program and that it is    *)
(* complete, for any tables, hooks, threads and modes.                     *)
(*                                                                         *)
(* WriteAhead relates three things kept by different threads and parts:    *)
(* what the pre-hooks of a thread passed to report() (ran), what report()  *)
(* is doing for the thread (rpc, arg, buf), and the file.  LogInv ties     *)
(* them together: the line of call n of a thread, in the buffer or in the  *)
(* file, is the rendering of what ran says of call n unless that is the    *)
(* buffer of symbol(), the only memory that changes; and a thread that has *)
(* left its stub has left report().                                        *)
(*                                                                         *)
(* CompleteTrace compares what a thread logged for an instruction with the *)
(* hooks on the way of that instruction; TraceInv says how many of them    *)
(* the thread has met at each place of its way.                            *)
(***************************************************************************)

RanRecs == [insn : Insns \cup {NoInsn}, says : Cells]

(* One record for each call.                                               *)
RanTypes ==
  /\ ran \in [Threads -> Seq(RanRecs)]
  /\ \A t \in Threads : Len(ran[t]) = calls[t]

(* A call under way measures and formats what the latest record says.      *)
CallRules ==
  \A t \in Threads : rpc[t] # "idle" =>
    /\ arg[t] = ran[t][calls[t]].says
    /\ arg[t] # Callee =>
         /\ rpc[t] = "fill" => len[t] = Len(Rendered(arg[t]))
         /\ rpc[t] \in Filled =>
              buf[t] = Rendered(arg[t]) /\ len[t] = Len(buf[t])

(* What record r demands of the text of its line.                          *)
SaysSo(text, r) == r.says # Callee => text = Rendered(r.says)

(* A line of the file is what was logged in its call.                      *)
FileRules ==
  \A i \in DOMAIN disk :
    SaysSo(disk[i].text, ran[disk[i].by][disk[i].call])

(* Where a thread may be while report() works for it.                      *)
Reporting == {"hooked", "native", "dump", "dumping"}

(* Only a stub or DllMain is in report().                                  *)
ReturnRules ==
  \A t \in Threads : rpc[t] # "idle" =>
    vpc[t] \in Reporting \/ (t = Main /\ lpc # "done")

LogInv ==
  /\ StubInv
  /\ RanTypes
  /\ CallRules
  /\ FileRules
  /\ ReturnRules

-----------------------------------------------------------------------------
(***************************************************************************)
(* The steps.                                                              *)
(***************************************************************************)

(* Nothing has been logged at first.                                       *)
LEMMA LogInvInit == TracerInit => LogInv
<1> SUFFICES ASSUME TracerInit PROVE LogInv
  OBVIOUS
<1> USE DEF TracerInit, ReportInit
<1>1. StubInv
  BY StubInvInit
<1>2. RanTypes
  BY DEF RanTypes
<1>3. CallRules /\ FileRules /\ ReturnRules
  BY DEF CallRules, FileRules, ReturnRules, Filled
<1> QED BY <1>1, <1>2, <1>3 DEF LogInv

(* Thread t calls report(), in DllMain or in a stub, and this is recorded. *)
Records(t) ==
  \E i \in Insns \cup {NoInsn}, c \in Cells :
    /\ Logs(t, i, c)
    /\ \/ t = Main /\ lpc' # "done" /\ UNCHANGED vpc
       \/ /\ \E p \in Reporting : vpc' = [vpc EXCEPT ![t] = p]
          /\ UNCHANGED lpc

(* Of the memory that arguments point to, only the buffer of symbol()      *)
(* changes.                                                                *)
MemStays == \A c \in Cells \ {Callee} : mem'[c] = mem[c]

NoCall == UNCHANGED <<calls, ran, arg, len, buf, rpc>> /\ MemStays

(* A step of the tracer makes one call of report(), and records it, or     *)
(* makes a step inside report(), or does neither.                          *)
LEMMA StepRecords ==
  ASSUME LogInv, [TracerNext]_tracerVars
  PROVE  \/ \E t \in Threads : Records(t)
         \/ /\ \E t \in Threads : ReportStep(t)
            /\ UNCHANGED <<ran, vpc, lpc>>
         \/ NoCall
<1> Main \in Threads /\ NoInsn \in Insns \cup {NoInsn}
  BY ReportAssumption
<1>1. ASSUME LogBanner \/ LogInstalling \/ LogMissing
      PROVE  Records(Main)
  <2>1. {Banner, Installing, Missing} \subseteq Cells
    BY TracerAssumption
  <2>2. /\ \E c \in Cells : Logs(Main, NoInsn, c)
        /\ lpc' # "done" /\ UNCHANGED vpc
    BY <1>1, <2>1 DEF LogBanner, LogInstalling, LogMissing, LoaderAt, LoaderLogs
  <2> QED BY <2>2 DEF Records
<1>2. ASSUME LoaderStep, ~(LogBanner \/ LogInstalling \/ LogMissing)
      PROVE  NoCall
  BY <1>2
  DEF LoaderStep, OpenReport, OpenLog, NotifyCuckoo, LoadRuntime, HookInit,
      LocateTable, Skip, StartStub, FinishStub, RedirectSlot, EndPass, Attached,
      ExitFlush, FlushAll, ExitProcess, Kill, reportVars, callVars, vmVars,
      NoCall, MemStays
<1>3. ASSUME NEW t \in Threads, CallPreHook(t)
      PROVE  Records(t)
  <2>1. /\ Logs(t, insn[t], Label(PreHook(t), insn[t]))
        /\ vpc' = [vpc EXCEPT ![t] = "hooked"] /\ UNCHANGED lpc
    BY <1>3 DEF CallPreHook, loaderVars
  <2>2. vpc[t] = "stub"
    BY <1>3 DEF CallPreHook, VmAt
  <2>3. at[t] \in Slots /\ insn[t] \in Insns
    BY <2>2 DEF LogInv, StubInv, TracerInv, VmTypes
  <2>4. PreHook(t) \in 0..Len(Hooks)
    BY <2>3 DEF PreHook, LogInv, StubInv, TracerInv, TableTypes, StubContents
  <2>5. Label(PreHook(t), insn[t]) \in Cells
    BY <2>3, <2>4, LabelIsCell
  <2> QED BY <2>1, <2>3, <2>5 DEF Records, Reporting
<1>4. ASSUME NEW t \in Threads, CallNative(t) \/ BeginDump(t) \/ DumpLine(t)
      PROVE  Records(t)
  <2>1. /\ vpc[t] # "fetch"
        /\ \E c \in {Callee, Dumped} : Logs(t, insn[t], c)
        /\ \E p \in Reporting : vpc' = [vpc EXCEPT ![t] = p]
        /\ UNCHANGED lpc
    BY <1>4 DEF CallNative, BeginDump, DumpLine, loaderVars, Reporting
  <2>2. insn[t] \in Insns
    BY <2>1 DEF LogInv, StubInv, TracerInv, VmTypes
  <2>3. {Callee, Dumped} \subseteq Cells
    BY TracerAssumption
  <2> QED BY <2>1, <2>2, <2>3 DEF Records
<1>5. ASSUME NEW t \in Threads,
             \/ \E i \in Insns : Fetch(t, i)
             \/ QuietPreHook(t) \/ LeaveStub(t) \/ SecondByte(t) \/ Execute(t)
      PROVE  NoCall
  BY <1>5 DEF Fetch, QuietPreHook, LeaveStub, SecondByte, Execute, reportVars,
              callVars, NoCall, MemStays
<1>6. ASSUME NEW t \in Threads, ReportThread(t)
      PROVE  ReportStep(t) /\ UNCHANGED <<ran, vpc, lpc>>
  BY <1>6 DEF ReportThread, vmVars, loaderVars
<1>7. ASSUME ServePipe \/ KillProcess \/ Ended \/ UNCHANGED tracerVars
      PROVE  NoCall
  BY <1>7 DEF ServePipe, KillProcess, Kill, Ended, tracerVars, reportVars,
              callVars, vmVars, NoCall, MemStays
<1>8. ASSUME NEW t \in Threads, AskSymbol(t)
      PROVE  NoCall
  <2>1. PICK x \in Texts : Mutate(Callee, x)
    BY <1>8, TracerAssumption DEF AskSymbol
  <2>2. mem \in [Cells -> Texts]
    BY DEF LogInv, StubInv, TracerInv, ReportInv, IType, TypeOK
  <2>3. MemStays
    BY <2>1, <2>2 DEF Mutate, MemStays
  <2> QED BY <1>8, <2>1, <2>3 DEF AskSymbol, Mutate, callVars, NoCall
<1> QED
  BY <1>1, <1>2, <1>3, <1>4, <1>5, <1>6, <1>7, <1>8
  DEF TracerNext, VmStep

(* What a call does to the variables of report(), and to ran.              *)
LEMMA RecordsCall ==
  ASSUME LogInv, NEW t \in Threads, Records(t)
  PROVE  /\ rpc[t] = "idle" /\ rpc' = [rpc EXCEPT ![t] = "size"]
         /\ calls' = [calls EXCEPT ![t] = @ + 1]
         /\ UNCHANGED <<len, buf, mem>>
         /\ \E r \in RanRecs : /\ ran' = [ran EXCEPT ![t] = Append(@, r)]
                               /\ arg' = [arg EXCEPT ![t] = r.says]
<1>1. PICK i \in Insns \cup {NoInsn}, c \in Cells : Logs(t, i, c)
  BY DEF Records
<1> DEFINE r == [insn |-> i, says |-> c]
<1>2. r \in RanRecs /\ r.says = c
  BY DEF RanRecs
<1> QED BY <1>1, <1>2 DEF Logs, Call, Goto, RanRecs

(* The records go with the calls.                                          *)
LEMMA RanTypesStep ==
  ASSUME LogInv, [TracerNext]_tracerVars
  PROVE  RanTypes' /\ MemStays
<1> RanTypes /\ calls \in [Threads -> 0..MaxCalls]
  BY DEF LogInv, StubInv, TracerInv, ReportInv, IType, TypeOK
<1>1. ASSUME NEW t \in Threads, Records(t)
      PROVE  RanTypes' /\ MemStays
  <2>1. PICK r \in RanRecs : ran' = [ran EXCEPT ![t] = Append(@, r)]
    BY <1>1, RecordsCall
  <2>2. calls' = [calls EXCEPT ![t] = @ + 1] /\ UNCHANGED mem
    BY <1>1, RecordsCall
  <2>3. /\ Append(ran[t], r) \in Seq(RanRecs)
        /\ Len(Append(ran[t], r)) = calls[t] + 1
    BY DEF RanTypes
  <2> QED BY <2>1, <2>2, <2>3 DEF RanTypes, MemStays
<1>2. ASSUME UNCHANGED <<calls, ran>>
      PROVE  RanTypes'
  BY <1>2 DEF RanTypes
<1>3. ASSUME NEW t \in Threads, ReportStep(t)
      PROVE  UNCHANGED <<calls, mem>>
  BY <1>3 DEF ReportStep, SizePass, FillPass, TestInit, InitSection, SetInit,
              Enter, Write, Flush, Leave, callVars
<1> QED BY <1>1, <1>2, <1>3, StepRecords DEF NoCall, MemStays

(* A record, once made, stays.                                             *)
LEMMA RecordsStay ==
  ASSUME LogInv, [TracerNext]_tracerVars,
         NEW t \in Threads, NEW n \in 1..calls[t]
  PROVE  ran'[t][n] = ran[t][n]
<1> RanTypes /\ calls \in [Threads -> 0..MaxCalls]
  BY DEF LogInv, StubInv, TracerInv, ReportInv, IType, TypeOK
<1>1. ASSUME NEW u \in Threads, Records(u)
      PROVE  ran'[t][n] = ran[t][n]
  <2>1. PICK r \in RanRecs : ran' = [ran EXCEPT ![u] = Append(@, r)]
    BY <1>1, RecordsCall
  <2>2. n \in 1..Len(ran[t]) /\ ran[t] \in Seq(RanRecs)
    BY DEF RanTypes
  <2>3. Append(ran[t], r)[n] = ran[t][n]
    BY <2>2
  <2> QED BY <2>1, <2>3 DEF RanTypes
<1> QED BY <1>1, StepRecords DEF NoCall

(* Both passes of a call render what was recorded for it (report.c:291,    *)
(* 294).                                                                   *)
LEMMA CallRulesStep ==
  ASSUME LogInv, [TracerNext]_tracerVars
  PROVE  CallRules'
<1> /\ CallRules /\ RanTypes
    /\ calls \in [Threads -> 0..MaxCalls]
    /\ rpc \in [Threads -> Steps]
    /\ arg \in [Threads -> Cells]
    /\ len \in [Threads -> {0} \cup {Len(x) : x \in LineTexts}]
    /\ buf \in [Threads -> {<<>>} \cup LineTexts]
    /\ MemStays
  BY RanTypesStep
  DEF LogInv, StubInv, TracerInv, ReportInv, IType, TypeOK
<1> DEFINE Ok(t) ==
      rpc[t] # "idle" =>
        /\ arg[t] = ran[t][calls[t]].says
        /\ arg[t] # Callee =>
             /\ rpc[t] = "fill" => len[t] = Len(Rendered(arg[t]))
             /\ rpc[t] \in Filled =>
                  buf[t] = Rendered(arg[t]) /\ len[t] = Len(buf[t])
<1>1. ASSUME NEW u \in Threads, rpc'[u] = rpc[u], arg'[u] = arg[u],
             ran'[u] = ran[u], calls'[u] = calls[u], len'[u] = len[u],
             buf'[u] = buf[u]
      PROVE  Ok(u)'
  <2>1. Ok(u)
    BY DEF CallRules
  <2>2. arg[u] # Callee => Rendered(arg[u])' = Rendered(arg[u])
    BY <1>1 DEF MemStays, Rendered
  <2> QED BY <1>1, <2>1, <2>2
<1>2. ASSUME NEW t \in Threads, Records(t)
      PROVE  CallRules'
  <2>1. PICK r \in RanRecs :
          /\ ran' = [ran EXCEPT ![t] = Append(@, r)]
          /\ arg' = [arg EXCEPT ![t] = r.says]
    BY <1>2, RecordsCall
  <2>2. /\ rpc' = [rpc EXCEPT ![t] = "size"]
        /\ calls' = [calls EXCEPT ![t] = @ + 1]
        /\ UNCHANGED <<len, buf>>
    BY <1>2, RecordsCall
  <2>3. ran'[t][calls'[t]] = r
    BY <2>1, <2>2, ReportAssumption DEF RanTypes
  <2>4. arg'[t] = ran'[t][calls'[t]].says /\ rpc'[t] \notin Filled \cup {"fill"}
    BY <2>1, <2>2, <2>3 DEF Filled
  <2>5. \A u \in Threads \ {t} :
          /\ rpc'[u] = rpc[u] /\ arg'[u] = arg[u] /\ ran'[u] = ran[u]
          /\ calls'[u] = calls[u] /\ len'[u] = len[u] /\ buf'[u] = buf[u]
    BY <2>1, <2>2 DEF RanTypes
  <2>6. Ok(t)'
    BY <2>4
  <2>7. \A u \in Threads \ {t} : Ok(u)'
    <3> SUFFICES ASSUME NEW u \in Threads \ {t} PROVE Ok(u)'
      OBVIOUS
    <3> HIDE DEF Ok
    <3> QED BY <1>1, <2>5
  <2> QED BY <2>6, <2>7 DEF CallRules
<1>3. ASSUME NoCall
      PROVE  CallRules'
  <2>1. \A u \in Threads : Ok(u)'
    <3> HIDE DEF Ok
    <3> QED BY <1>1, <1>3 DEF NoCall
  <2> QED BY <2>1 DEF CallRules
<1>4. ASSUME NEW t \in Threads, ReportStep(t), UNCHANGED ran
      PROVE  CallRules'
  <2>1. UNCHANGED <<calls, arg, mem>>
    BY <1>4 DEF ReportStep, SizePass, FillPass, TestInit, InitSection, SetInit,
                Enter, Write, Flush, Leave, callVars
  <2>2. /\ rpc[t] # "idle"
        /\ \A u \in Threads \ {t} :
             rpc'[u] = rpc[u] /\ buf'[u] = buf[u] /\ len'[u] = len[u]
    BY <1>4 DEF ReportStep, SizePass, FillPass, TestInit, InitSection, SetInit,
                Enter, Write, Flush, Leave, Goto, callVars
  <2>3. Rendered(arg[t])' = Rendered(arg[t])
    BY <2>1 DEF Rendered
  <2>4. Ok(t)'
    <3>1. CASE SizePass(t)
      BY <1>4, <2>1, <2>3, <3>1 DEF SizePass, Goto, Filled, CallRules
    <3>2. CASE FillPass(t)
      <4>1. /\ rpc[t] = "fill" /\ rpc'[t] = "test"
            /\ buf'[t] = Rendered(arg[t]) /\ len'[t] = len[t]
        BY <3>2 DEF FillPass, Goto
      <4> QED BY <1>4, <2>1, <2>3, <4>1 DEF CallRules, Filled
    <3>3. CASE ~SizePass(t) /\ ~FillPass(t)
      <4>1. /\ UNCHANGED <<len, buf>>
            /\ rpc'[t] # "fill"
            /\ rpc'[t] \in Filled => rpc[t] \in Filled
        BY <1>4, <3>3 DEF ReportStep, TestInit, InitSection, SetInit, Enter,
                          Write, Flush, Leave, Goto, callVars, Filled
      <4> QED BY <1>4, <2>1, <2>2, <2>3, <4>1 DEF CallRules
    <3> QED BY <3>1, <3>2, <3>3
  <2>5. \A u \in Threads \ {t} : Ok(u)'
    <3> SUFFICES ASSUME NEW u \in Threads \ {t} PROVE Ok(u)'
      OBVIOUS
    <3> HIDE DEF Ok
    <3> QED BY <1>1, <1>4, <2>1, <2>2
  <2> QED BY <2>4, <2>5 DEF CallRules
<1> QED BY <1>2, <1>3, <1>4, StepRecords

(* A line that reaches the file is the rendering of its call's record.     *)
LEMMA FileRulesStep ==
  ASSUME LogInv, [TracerNext]_tracerVars
  PROVE  FileRules'
<1> /\ ReportInv /\ IType /\ CallRules /\ FileRules /\ RanTypes
    /\ disk \in Seq(LineRecs)
    /\ calls \in [Threads -> 0..MaxCalls]
    /\ buf \in [Threads -> {<<>>} \cup LineTexts]
  BY DEF LogInv, StubInv, TracerInv, ReportInv, IType, TypeOK
<1> MemStays
  BY RanTypesStep
<1> DEFINE Now(x, r) == r.says # Callee => x = Append(mem'[r.says], NewLine)
<1>1. ASSUME NEW t \in Threads, NEW n \in 1..calls[t], NEW x,
             SaysSo(x, ran[t][n])
      PROVE  Now(x, ran'[t][n])
  <2>1. ran'[t][n] = ran[t][n]
    BY RecordsStay
  <2>2. ran[t][n].says \in Cells
    <3>1. ran[t] \in Seq(RanRecs) /\ n \in 1..Len(ran[t])
      BY DEF RanTypes
    <3>2. ran[t][n] \in RanRecs
      BY <3>1
    <3> QED BY <3>2 DEF RanRecs
  <2> QED BY <1>1, <2>1, <2>2 DEF SaysSo, MemStays, Rendered
<1>2. ASSUME NEW i \in DOMAIN disk
      PROVE  Now(disk[i].text, ran'[disk[i].by][disk[i].call])
  <2>1. disk[i].by \in Threads
    BY LinesOfFile
  <2>2. disk[i].call \in 1..CommittedCalls(disk[i].by)
    BY DEF ReportInv, InCallOrder
  <2>3. disk[i].call \in 1..calls[disk[i].by]
    BY <2>1, <2>2, ReportAssumption DEF CommittedCalls
  <2>4. SaysSo(disk[i].text, ran[disk[i].by][disk[i].call])
    BY DEF FileRules
  <2> HIDE DEF Now
  <2> QED BY <1>1, <2>1, <2>3, <2>4
<1>3. ASSUME NEW t \in Threads, CommitsLineOf(t)
      PROVE  FileRules'
  <2> DEFINE l == LineOf(t)
  <2>1. rpc[t] = "flush" /\ disk' = Append(disk, l)
    BY <1>3 DEF CommitsLineOf
  <2>2. /\ l.by = t /\ l.call = calls[t]
        /\ l.text = Fit(buf[t], len[t])
    BY DEF LineOf
  <2>3. calls[t] \in 1..calls[t]
    BY <2>1, ReportAssumption DEF ReportInv, InCall
  <2>4. SaysSo(l.text, ran[t][calls[t]])
    <3> SUFFICES ASSUME arg[t] # Callee PROVE l.text = Rendered(arg[t])
      BY <2>1 DEF CallRules, SaysSo
    <3>1. buf[t] = Rendered(arg[t]) /\ len[t] = Len(buf[t])
      BY <2>1 DEF CallRules, Filled
    <3>2. buf[t] \in Seq(Chars)
      <4>1. Rendered(arg[t]) \in LineTexts
        BY DEF ReportInv, IType, TypeOK, LineTexts, Rendered
      <4> QED BY <3>1, <4>1, LineTextsAreSeqs
    <3>3. Fit(buf[t], Len(buf[t])) = buf[t]
      BY <3>2, FitWhole
    <3> HIDE DEF l
    <3> QED BY <2>2, <3>1, <3>3
  <2>5. Now(l.text, ran'[l.by][l.call])
    <3> HIDE DEF Now, l
    <3> QED BY <1>1, <2>2, <2>3, <2>4
  <2>6. \A i \in DOMAIN disk' :
          (i \in DOMAIN disk /\ disk'[i] = disk[i]) \/ disk'[i] = l
    BY <2>1
  <2> HIDE DEF l
  <2>7. \A i \in DOMAIN disk' :
          Now(disk'[i].text, ran'[disk'[i].by][disk'[i].call])
    <3> HIDE DEF Now
    <3> QED BY <1>2, <2>5, <2>6
  <2> QED BY <2>7 DEF FileRules, SaysSo, Rendered
<1>4. CASE CommitsNothing
  BY <1>2, <1>4 DEF CommitsNothing, FileRules, SaysSo, Rendered
<1>5. [RacyNext]_reportVars
  BY StepOfRacy DEF LogInv, StubInv
<1> QED BY <1>3, <1>4, <1>5, StepCommits

(* DllMain and the stubs wait until report() has returned.                 *)
LEMMA ReturnRulesStep ==
  ASSUME LogInv, [TracerNext]_tracerVars
  PROVE  ReturnRules'
<1> /\ ReturnRules /\ ThreadRules
    /\ rpc \in [Threads -> Steps]
    /\ vpc \in [Threads -> VmPlaces]
    /\ Main \in Threads /\ Main \notin Early
  BY ReportAssumption, TracerAssumption
  DEF LogInv, StubInv, TracerInv, ReportInv, IType, TypeOK, VmTypes
<1>1. ASSUME NEW t \in Threads, Records(t)
      PROVE  ReturnRules'
  <2>1. rpc' = [rpc EXCEPT ![t] = "size"]
    BY <1>1, RecordsCall
  <2>2. CASE t = Main /\ lpc' # "done" /\ UNCHANGED vpc
    BY <2>1, <2>2 DEF ReturnRules
  <2>3. ASSUME NEW p \in Reporting, vpc' = [vpc EXCEPT ![t] = p],
               UNCHANGED lpc
        PROVE  ReturnRules'
    BY <2>1, <2>3 DEF ReturnRules
  <2> QED BY <1>1, <2>2, <2>3 DEF Records
<1>2. ASSUME NEW t \in Threads, ReportStep(t), UNCHANGED <<vpc, lpc>>
      PROVE  ReturnRules'
  <2>1. rpc[t] # "idle" /\ \A u \in Threads \ {t} : rpc'[u] = rpc[u]
    BY <1>2 DEF ReportStep, SizePass, FillPass, TestInit, InitSection, SetInit,
                Enter, Write, Flush, Leave, Goto
  <2> QED BY <1>2, <2>1 DEF ReturnRules
<1>3. ASSUME LoaderStep, UNCHANGED rpc
      PROVE  ReturnRules'
  <2>1. rpc[Main] = "idle" /\ UNCHANGED vpc
    BY <1>3
    DEF LoaderStep, OpenReport, NotifyCuckoo, LoadRuntime, LogBanner, HookInit,
        LocateTable, LogInstalling, Skip, StartStub, FinishStub, RedirectSlot,
        EndPass, Attached, LogMissing, ExitFlush, ExitProcess, LoaderLogs,
        LoaderAt, vmVars
  <2> QED BY <1>3, <2>1 DEF ReturnRules
<1>4. ASSUME NEW t \in Threads, UNCHANGED <<rpc, lpc>>,
             rpc[t] = "idle" \/ vpc'[t] \in Reporting,
             \A u \in Threads \ {t} : vpc'[u] = vpc[u]
      PROVE  ReturnRules'
  BY <1>4 DEF ReturnRules
<1>5. ASSUME NEW t \in Threads, (\E i \in Insns : Fetch(t, i)) \/ VmStep(t),
             UNCHANGED rpc
      PROVE  ReturnRules'
  <2>1. UNCHANGED lpc
    BY <1>5 DEF Fetch, VmStep, CallPreHook, QuietPreHook, AskSymbol, CallNative,
                BeginDump, DumpLine, LeaveStub, SecondByte, Execute, loaderVars
  <2>2. MayRun(t)
    <3>1. CASE \E i \in Insns : Fetch(t, i)
      BY <3>1 DEF Fetch
    <3>2. CASE VmStep(t)
      <4>1. vpc[t] # "fetch"
        BY <3>2 DEF VmStep, CallPreHook, QuietPreHook, AskSymbol, CallNative,
                    BeginDump, DumpLine, LeaveStub, SecondByte, Execute, VmAt
      <4> QED BY <4>1 DEF ThreadRules
    <3> QED BY <1>5, <3>1, <3>2
  <2>3. ~(t = Main /\ lpc # "done")
    BY <2>2 DEF MayRun
  <2>4. \A u \in Threads \ {t} : vpc'[u] = vpc[u]
    BY <1>5 DEF Fetch, VmStep, CallPreHook, QuietPreHook, AskSymbol, CallNative,
                BeginDump, DumpLine, LeaveStub, SecondByte, Execute, Jump
  <2>5. rpc[t] = "idle" \/ vpc'[t] \in Reporting
    <3>1. CASE vpc[t] \in {"fetch", "handler"}
      BY <2>3, <3>1 DEF ReturnRules, Reporting
    <3>2. CASE \/ CallPreHook(t) \/ QuietPreHook(t) \/ AskSymbol(t) \/ CallNative(t)
               \/ BeginDump(t) \/ DumpLine(t) \/ LeaveStub(t)
      BY <3>2 DEF CallPreHook, QuietPreHook, AskSymbol, CallNative, BeginDump,
                  DumpLine, LeaveStub, VmAt, Reporting
    <3>3. CASE (\E i \in Insns : Fetch(t, i)) \/ SecondByte(t) \/ Execute(t)
      BY <3>1, <3>3 DEF Fetch, SecondByte, Execute, VmAt
    <3> QED BY <1>5, <3>2, <3>3 DEF VmStep
  <2> QED BY <1>4, <1>5, <2>1, <2>4, <2>5
<1>6. ASSUME ServePipe \/ KillProcess \/ Ended \/ UNCHANGED tracerVars
      PROVE  UNCHANGED <<rpc, vpc, lpc>>
  BY <1>6 DEF ServePipe, KillProcess, Kill, Ended, tracerVars, reportVars,
              loaderVars, vmVars
<1>7. ASSUME UNCHANGED <<rpc, vpc, lpc>>
      PROVE  ReturnRules'
  BY <1>7 DEF ReturnRules
<1>8. ASSUME NEW t \in Threads, ReportThread(t)
      PROVE  ReportStep(t) /\ UNCHANGED <<vpc, lpc>>
  BY <1>8 DEF ReportThread, vmVars, loaderVars
<1>9. CASE UNCHANGED rpc
  BY <1>2, <1>3, <1>5, <1>6, <1>7, <1>8, <1>9 DEF TracerNext
<1>10. CASE ~UNCHANGED rpc
  BY <1>1, <1>2, <1>10, StepRecords DEF NoCall
<1> QED BY <1>9, <1>10

-----------------------------------------------------------------------------
(***************************************************************************)
(* The theorems.                                                           *)
(***************************************************************************)

(* LogInv is an inductive invariant of the tracer.                         *)
THEOREM LogInvHolds == TracerSpec => []LogInv
<1>1. TracerInit => LogInv
  BY LogInvInit
<1>2. LogInv /\ StubInv' /\ [TracerNext]_tracerVars => LogInv'
  <2> SUFFICES ASSUME LogInv, StubInv', [TracerNext]_tracerVars
               PROVE  LogInv'
    OBVIOUS
  <2> QED
    BY RanTypesStep, CallRulesStep, FileRulesStep, ReturnRulesStep DEF LogInv
<1> QED BY <1>1, <1>2, StubInvHolds, PTL DEF TracerSpec

(* Write-ahead: when a handler runs, every line its thread has logged is   *)
(* in the file, so a crash of the traced program inside the handler loses  *)
(* none of them (hook.c:112-131, report.c:304-305).                        *)
THEOREM WriteAheadHolds == TracerSpec => []WriteAhead
<1>1. LogInv => WriteAhead
  <2> SUFFICES ASSUME LogInv, NEW t \in Threads, vpc[t] = "handler",
                      NEW n \in DOMAIN ran[t]
               PROVE  \E i \in DOMAIN disk :
                        /\ disk[i].by = t
                        /\ disk[i].call = n
                        /\ SaysSo(disk[i].text, ran[t][n])
    BY DEF WriteAhead, SaysSo
  <2>1. MayRun(t)
    BY DEF LogInv, StubInv, ThreadRules
  <2>2. rpc[t] = "idle"
    BY <2>1, TracerAssumption DEF MayRun, LogInv, ReturnRules, Reporting
  <2>3. n \in 1..calls[t]
    BY DEF LogInv, RanTypes
  <2>4. CommittedCalls(t) = calls[t]
    BY <2>2 DEF CommittedCalls, Committed
  <2>5. PICK i \in DOMAIN disk : disk[i].by = t /\ disk[i].call = n
    BY <2>3, <2>4
    DEF LogInv, StubInv, TracerInv, ReportInv, DurableOnReturn
  <2>6. SaysSo(disk[i].text, ran[t][n])
    BY <2>5 DEF LogInv, FileRules
  <2> QED BY <2>5, <2>6
<1> QED BY <1>1, LogInvHolds, PTL

-----------------------------------------------------------------------------
(***************************************************************************)
(* The trace is complete.  A thread that fetched after DllMain returned    *)
(* goes through the tables as they stay, so what it must have logged can   *)
(* be told from where it is: TraceRules counts the stubs it has met.       *)
(***************************************************************************)

(* The slots whose stubs, if they have one, the thread has entered and     *)
(* whose pre-hooks it has called.                                          *)
Met(t) ==
  IF vpc[t] = "stub" THEN {First(insn[t])} \ {at[t]}
                     ELSE {First(insn[t]), at[t]}

MetStubs(t) == {s \in Met(t) : Live(s)}

(* At most one line from each stub, of the instruction and of the hook of  *)
(* the stub, and none at all only if every hook met may keep silent.       *)
LogsMet(t) ==
  /\ Cardinality(LoggedCalls(t)) <= Cardinality(MetStubs(t))
  /\ \A n \in LoggedCalls(t) :
       /\ ran[t][n].insn = insn[t]
       /\ \E s \in MetStubs(t) : ran[t][n].says = Label(stub[s].pre, insn[t])
  /\ LoggedCalls(t) # {} \/ \A s \in MetStubs(t) : stub[s].pre \in Quiet

TraceRules ==
  /\ since \in [Threads -> Nat]
  /\ \A t \in Threads : since[t] <= calls[t] + 1
  /\ \A t \in Threads : vpc[t] # "fetch" /\ since[t] # 0 =>
       lpc = "done" /\ (g_vb6 => LogsMet(t))

TraceInv == LogInv /\ WalkInv /\ TraceRules

(* What a thread has logged and the stubs it has met are few.              *)
LEMMA FiniteTrace ==
  ASSUME LogInv, NEW t \in Threads
  PROVE  /\ LoggedCalls(t) \subseteq 1..calls[t] /\ calls[t] \in Nat
         /\ IsFiniteSet(LoggedCalls(t)) /\ IsFiniteSet(MetStubs(t))
<1>1. calls[t] \in Nat /\ LoggedCalls(t) \subseteq 1..calls[t]
  BY ReportAssumption
  DEF LogInv, StubInv, TracerInv, ReportInv, IType, TypeOK, RanTypes,
      LoggedCalls
<1>2. IsFiniteSet(LoggedCalls(t))
  <2>1. IsFiniteSet(1..calls[t])
    BY <1>1, FS_Interval
  <2> QED BY <1>1, <2>1, FS_Subset
<1>3. IsFiniteSet(MetStubs(t))
  <2>1. IsFiniteSet({First(insn[t])} \cup {at[t]})
    BY FS_Singleton, FS_AddElement
  <2>2. MetStubs(t) \subseteq {First(insn[t])} \cup {at[t]}
    BY DEF MetStubs, Met
  <2> QED BY <2>1, <2>2, FS_Subset
<1> QED BY <1>1, <1>2, <1>3

(* One more record is one more line of the trace, unless it is about the   *)
(* target of a call.                                                       *)
LEMMA OneMoreRecord ==
  ASSUME TraceInv, NEW t \in Threads, NEW r \in RanRecs,
         ran' = [ran EXCEPT ![t] = Append(@, r)], UNCHANGED since
  PROVE  /\ LoggedCalls(t)' = IF r.says \in {Callee, Dumped}
                                THEN LoggedCalls(t)
                                ELSE LoggedCalls(t) \cup {calls[t] + 1}
         /\ calls[t] + 1 \notin LoggedCalls(t)
         /\ \A n \in LoggedCalls(t) : ran'[t][n] = ran[t][n]
         /\ ran'[t][calls[t] + 1] = r
<1>1. /\ ran \in [Threads -> Seq(RanRecs)] /\ Len(ran[t]) = calls[t]
      /\ calls[t] \in Nat /\ LoggedCalls(t) \subseteq 1..calls[t]
      /\ since[t] \in Nat /\ since[t] <= calls[t] + 1
  BY FiniteTrace DEF TraceInv, LogInv, RanTypes, TraceRules
<1>2. /\ ran'[t] = Append(ran[t], r)
      /\ DOMAIN ran'[t] = (DOMAIN ran[t]) \cup {calls[t] + 1}
      /\ DOMAIN ran[t] = 1..calls[t]
      /\ ran'[t][calls[t] + 1] = r
      /\ \A n \in 1..calls[t] : ran'[t][n] = ran[t][n]
  BY <1>1
<1> QED BY <1>1, <1>2 DEF LoggedCalls

(* The label of a hook is never a line of native() or x86dump().           *)
LEMMA LabelIsNoTarget ==
  ASSUME NEW h \in 0..Len(Hooks), NEW i \in Insns
  PROVE  Label(h, i) \notin {Callee, Dumped}
<1>1. i \in Slots
  BY DEF Insns
<1>2. h = 0 \/ h \in DOMAIN Hooks
  BY HooksAssumption
<1> QED BY <1>1, <1>2, LineAssumption DEF Label

(* A thread stays complete while it stands still, or when it moves without *)
(* meeting a stub or saying anything.                                      *)
LEMMA MetNothing ==
  ASSUME NEW t \in Threads, LogsMet(t), UNCHANGED stub, UNCHANGED ran[t],
         UNCHANGED insn[t], LoggedCalls(t)' = LoggedCalls(t),
         MetStubs(t)' = MetStubs(t)
  PROVE  LogsMet(t)'
BY DEF LogsMet, Label

(* The rules of the others when thread t makes a step, or nobody does.     *)
LEMMA TraceAlone ==
  ASSUME TraceInv, NEW t \in Threads, UNCHANGED <<lut, stub, lpc, g_vb6>>,
         since' \in [Threads -> Nat],
         \A u \in Threads : since'[u] <= calls'[u] + 1,
         \A u \in Threads \ {t} :
           /\ vpc'[u] = vpc[u] /\ at'[u] = at[u] /\ insn'[u] = insn[u]
           /\ ran'[u] = ran[u] /\ since'[u] = since[u],
         vpc'[t] # "fetch" /\ since'[t] # 0 =>
           lpc = "done" /\ (g_vb6 => LogsMet(t)')
  PROVE  TraceRules'
<1>1. ASSUME NEW u \in Threads \ {t}, LogsMet(u)
      PROVE  LogsMet(u)'
  <2>1. LoggedCalls(u)' = LoggedCalls(u)
    BY DEF LoggedCalls
  <2>2. MetStubs(u)' = MetStubs(u)
    BY DEF MetStubs, Met, Live, First
  <2> QED BY <1>1, <2>1, <2>2, MetNothing
<1> QED BY <1>1 DEF TraceInv, TraceRules

(* A fetch starts a new trace: either it goes straight to a handler, or    *)
(* the stub of its slot is still to be met.                                *)
LEMMA TraceFetch ==
  ASSUME TraceInv, NEW t \in Threads, NEW i \in Insns, Fetch(t, i)
  PROVE  TraceRules'
<1> DEFINE c == lut[First(i)]
<1>1. /\ insn' = [insn EXCEPT ![t] = i]
      /\ since' = [since EXCEPT ![t] = IF lpc = "done" THEN calls[t] + 1 ELSE 0]
      /\ vpc' = [vpc EXCEPT ![t] = c.kind]
      /\ at' = [at EXCEPT ![t] = c.slot]
      /\ UNCHANGED <<lut, stub, lpc, g_vb6, ran, calls>>
  BY DEF Fetch, Jump, tableVars, loaderVars, reportVars, callVars
<1>2. /\ since \in [Threads -> Nat] /\ calls[t] \in Nat
      /\ \A u \in Threads : since[u] <= calls[u] + 1
      /\ Len(ran[t]) = calls[t] /\ ran[t] \in Seq(RanRecs)
      /\ vpc \in [Threads -> VmPlaces]
      /\ at \in [Threads -> Slots \cup {NoInsn}]
      /\ insn \in [Threads -> Insns \cup {NoInsn}]
  BY FiniteTrace
  DEF TraceInv, TraceRules, LogInv, RanTypes, StubInv, TracerInv, VmTypes
<1>3. /\ c.slot = First(i) /\ First(i) \in Slots
      /\ c.kind \in {"handler", "stub"}
      /\ c.kind # "stub" => ~Live(First(i))
  <2>1. First(i) \in Slots
    BY FirstIsSlot
  <2>2. c = Handler(First(i)) \/ c = StubOf(First(i))
    BY <2>1 DEF TraceInv, LogInv, StubInv, LutRules
  <2> QED BY <2>1, <2>2, HandlerIsNoStub DEF Live
<1>4. ASSUME lpc = "done" PROVE LogsMet(t)'
  <2>1. /\ vpc'[t] = c.kind /\ at'[t] = First(i) /\ insn'[t] = i
        /\ since'[t] = calls[t] + 1
    BY <1>1, <1>2, <1>3, <1>4
  <2>2. LoggedCalls(t)' = {}
    BY <1>1, <1>2, <2>1 DEF LoggedCalls
  <2>3. MetStubs(t)' = {}
    <3>1. First(insn[t])' = First(i)
      BY <2>1 DEF First
    <3>2. Live(First(i))' <=> Live(First(i))
      BY <1>1 DEF Live
    <3> QED BY <1>3, <2>1, <3>1, <3>2 DEF MetStubs, Met
  <2> QED BY <2>2, <2>3, FS_EmptySet DEF LogsMet
<1>5. /\ since' \in [Threads -> Nat]
      /\ \A u \in Threads : since'[u] <= calls'[u] + 1
  BY <1>1, <1>2
<1>6. since'[t] # 0 => lpc = "done"
  BY <1>1, <1>2
<1>7. \A u \in Threads \ {t} :
        /\ vpc'[u] = vpc[u] /\ at'[u] = at[u] /\ insn'[u] = insn[u]
        /\ ran'[u] = ran[u] /\ since'[u] = since[u]
  BY <1>1, <1>2
<1> QED BY <1>1, <1>4, <1>5, <1>6, <1>7, TraceAlone

(* The stub that a thread enters its pre-hook from is counted then.        *)
LEMMA MeetsStub ==
  ASSUME TraceInv, NEW t \in Threads, vpc[t] = "stub",
         vpc'[t] = "hooked", UNCHANGED <<at, insn, lut, stub>>
  PROVE  /\ MetStubs(t)' = MetStubs(t) \cup {at[t]}
         /\ at[t] \notin MetStubs(t)
         /\ PreHook(t) \in 0..Len(Hooks)
<1>1. at[t] \in {First(insn[t]), insn[t]} /\ Live(at[t]) /\ at[t] \in Slots
  BY DEF TraceInv, LogInv, StubInv, ThreadRules, InStub, TracerInv, VmTypes
<1>2. Met(t)' = Met(t) \cup {at[t]}
  BY DEF Met, First
<1>3. \A s : Live(s)' <=> Live(s)
  BY DEF Live
<1>4. MetStubs(t)' = MetStubs(t) \cup {at[t]}
  BY <1>1, <1>2, <1>3 DEF MetStubs
<1>5. at[t] \notin MetStubs(t)
  BY DEF MetStubs, Met
<1>6. PreHook(t) \in 0..Len(Hooks)
  BY <1>1
  DEF PreHook, TraceInv, LogInv, StubInv, TracerInv, TableTypes, StubContents
<1> QED BY <1>4, <1>5, <1>6

(* The pre-hook logs its line, or keeps silent where it may.               *)
LEMMA TracePreHook ==
  ASSUME TraceInv, NEW t \in Threads, CallPreHook(t) \/ QuietPreHook(t),
         LogsMet(t)
  PROVE  LogsMet(t)'
<1>1. /\ vpc[t] = "stub" /\ vpc' = [vpc EXCEPT ![t] = "hooked"]
      /\ UNCHANGED <<at, insn, since, lut, stub>>
  BY DEF CallPreHook, QuietPreHook, VmAt, tableVars
<1>2. /\ MetStubs(t)' = MetStubs(t) \cup {at[t]}
      /\ at[t] \notin MetStubs(t)
      /\ PreHook(t) \in 0..Len(Hooks)
  <2>1. vpc'[t] = "hooked"
    BY <1>1 DEF TraceInv, LogInv, StubInv, TracerInv, VmTypes
  <2> QED BY <1>1, <2>1, MeetsStub
<1>3. /\ IsFiniteSet(MetStubs(t)) /\ IsFiniteSet(LoggedCalls(t))
      /\ Cardinality(MetStubs(t)) \in Nat /\ Cardinality(LoggedCalls(t)) \in Nat
      /\ Cardinality(MetStubs(t)') = Cardinality(MetStubs(t)) + 1
  BY <1>2, FiniteTrace, FS_CardinalityType, FS_AddElement DEF TraceInv
<1>4. CASE CallPreHook(t)
  <2> DEFINE r == [insn |-> insn[t], says |-> Label(PreHook(t), insn[t])]
  <2>1. ran' = [ran EXCEPT ![t] = Append(@, r)]
    BY <1>4 DEF CallPreHook, Logs
  <2>2. insn[t] \in Insns
    BY <1>1 DEF TraceInv, LogInv, StubInv, TracerInv, VmTypes
  <2>3. r \in RanRecs /\ r.says \notin {Callee, Dumped}
    BY <1>2, <2>2, LabelIsCell, LabelIsNoTarget DEF RanRecs
  <2>4. /\ LoggedCalls(t)' = LoggedCalls(t) \cup {calls[t] + 1}
        /\ calls[t] + 1 \notin LoggedCalls(t)
        /\ \A n \in LoggedCalls(t) : ran'[t][n] = ran[t][n]
        /\ ran'[t][calls[t] + 1] = r
    <3> HIDE DEF r
    <3> QED BY <1>1, <2>1, <2>3, OneMoreRecord
  <2>5. Cardinality(LoggedCalls(t)') = Cardinality(LoggedCalls(t)) + 1
    BY <1>3, <2>4, FS_AddElement
  <2>6. /\ ran'[t][calls[t] + 1].insn = insn'[t]
        /\ ran'[t][calls[t] + 1].says = Label(stub[at[t]].pre, insn[t])'
    BY <1>1, <2>4 DEF PreHook, Label
  <2>7. ASSUME NEW n \in LoggedCalls(t)'
        PROVE  /\ ran'[t][n].insn = insn'[t]
               /\ \E s \in MetStubs(t)' :
                    ran'[t][n].says = Label(stub[s].pre, insn[t])'
    <3>1. CASE n = calls[t] + 1
      BY <1>1, <1>2, <2>6, <3>1
    <3>2. CASE n \in LoggedCalls(t)
      <4>1. /\ ran'[t][n].insn = insn[t]
            /\ \E s \in MetStubs(t) :
                 ran'[t][n].says = Label(stub[s].pre, insn[t])
        BY <2>4, <3>2 DEF LogsMet
      <4>2. \A s : Label(stub[s].pre, insn[t])' = Label(stub[s].pre, insn[t])
        BY <1>1 DEF Label
      <4> QED BY <1>1, <1>2, <4>1, <4>2
    <3> QED BY <2>4, <2>7, <3>1, <3>2
  <2> QED BY <1>3, <2>4, <2>5, <2>7 DEF LogsMet
<1>5. CASE QuietPreHook(t)
  <2>1. UNCHANGED ran /\ stub[at[t]].pre \in Quiet
    BY <1>5 DEF QuietPreHook, PreHook
  <2>2. LoggedCalls(t)' = LoggedCalls(t)
    BY <1>1, <2>1 DEF LoggedCalls
  <2>3. \A s : Label(stub[s].pre, insn[t])' = Label(stub[s].pre, insn[t])
    BY <1>1 DEF Label
  <2> QED BY <1>1, <1>2, <1>3, <2>1, <2>2, <2>3 DEF LogsMet
<1> QED BY <1>4, <1>5

(* What native() and x86dump() log, and the way on from the stub, change   *)
(* nothing of the trace.                                                   *)
LEMMA TraceOn ==
  ASSUME TraceInv, NEW t \in Threads, LogsMet(t),
         \/ AskSymbol(t) \/ CallNative(t) \/ BeginDump(t) \/ DumpLine(t)
         \/ LeaveStub(t)
  PROVE  LogsMet(t)'
<1>1. /\ vpc[t] \in InStub \ {"stub"} /\ vpc'[t] # "stub"
      /\ at'[t] = at[t]
      /\ UNCHANGED <<insn, since, lut, stub>>
  <2>1. vpc \in [Threads -> VmPlaces] /\ at \in [Threads -> Slots \cup {NoInsn}]
    BY DEF TraceInv, LogInv, StubInv, TracerInv, VmTypes
  <2>2. CASE AskSymbol(t) \/ CallNative(t) \/ BeginDump(t) \/ DumpLine(t)
    <3>1. /\ vpc[t] \in InStub \ {"stub"}
          /\ \E p \in InStub \ {"stub"} : vpc' = [vpc EXCEPT ![t] = p]
          /\ UNCHANGED <<at, insn, since, lut, stub>>
      BY <2>2 DEF AskSymbol, CallNative, BeginDump, DumpLine, InStub, tableVars
    <3> QED BY <2>1, <3>1
  <2>3. CASE LeaveStub(t)
    <3>1. /\ vpc[t] \in {"hooked", "native"}
          /\ vpc' = [vpc EXCEPT ![t] = stub[at[t]].orig.kind]
          /\ at' = [at EXCEPT ![t] = stub[at[t]].orig.slot]
          /\ UNCHANGED <<insn, since, lut, stub>>
      BY <2>3 DEF LeaveStub, Jump, tableVars
    <3>2. Live(at[t]) /\ at[t] \in Slots
      BY <3>1 DEF TraceInv, LogInv, StubInv, ThreadRules, InStub, TracerInv,
                  VmTypes
    <3>3. stub[at[t]].orig = Handler(at[t])
      BY <3>2 DEF TraceInv, LogInv, StubInv, StubRules
    <3> QED BY <2>1, <3>1, <3>3, HandlerIsNoStub DEF InStub
  <2> QED BY <2>2, <2>3
<1>2. MetStubs(t)' = MetStubs(t)
  BY <1>1 DEF MetStubs, Met, Live, First, InStub
<1>3. \A s : Label(stub[s].pre, insn[t])' = Label(stub[s].pre, insn[t])
  BY <1>1 DEF Label
<1>4. CASE CallNative(t) \/ BeginDump(t) \/ DumpLine(t)
  <2>0. PICK c \in {Callee, Dumped} : Logs(t, insn[t], c)
    BY <1>4 DEF CallNative, BeginDump, DumpLine
  <2> DEFINE r == [insn |-> insn[t], says |-> c]
  <2>1. ran' = [ran EXCEPT ![t] = Append(@, r)]
    BY <2>0 DEF Logs
  <2>2. r \in RanRecs /\ r.says \in {Callee, Dumped}
    <3>1. insn[t] \in Insns
      BY <1>1 DEF TraceInv, LogInv, StubInv, TracerInv, VmTypes, InStub
    <3> QED BY <3>1, TracerAssumption DEF RanRecs
  <2>3. /\ LoggedCalls(t)' = LoggedCalls(t)
        /\ \A n \in LoggedCalls(t) : ran'[t][n] = ran[t][n]
    <3> HIDE DEF r
    <3> QED BY <1>1, <2>1, <2>2, OneMoreRecord
  <2> QED BY <1>1, <1>2, <1>3, <2>3 DEF LogsMet
<1>5. CASE AskSymbol(t) \/ LeaveStub(t)
  <2>1. UNCHANGED ran
    BY <1>5 DEF AskSymbol, LeaveStub
  <2>2. LoggedCalls(t)' = LoggedCalls(t)
    BY <1>1, <2>1 DEF LoggedCalls
  <2> QED BY <1>1, <1>2, <2>1, <2>2, MetNothing
<1> QED BY <1>4, <1>5

(* Behind a lead byte the thread goes straight to the handler of its       *)
(* instruction, or to a stub that is still to be met.                      *)
LEMMA TraceSecondByte ==
  ASSUME TraceInv, NEW t \in Threads, SecondByte(t), LogsMet(t)
  PROVE  LogsMet(t)'
<1> DEFINE i == insn[t]
           k == TableBehind(Handler(at[t]))
           c == lut[<<k, i[2]>>]
<1>1. /\ vpc[t] = "handler" /\ at[t] \in Leads
      /\ vpc' = [vpc EXCEPT ![t] = c.kind]
      /\ at' = [at EXCEPT ![t] = c.slot]
      /\ UNCHANGED <<insn, ran, since, lut, stub>>
  BY DEF SecondByte, VmAt, Jump, tableVars
<1>2. at[t] \in {First(i), i} /\ i \in Slots /\ i \notin Leads
  BY <1>1
  DEF TraceInv, LogInv, StubInv, ThreadRules, TracerInv, VmTypes, Insns
<1>3. i[1] # 0 /\ at[t] = First(i) /\ at[t] = <<0, Lead[i[1]]>> /\ i[1] \in TwoByte
  BY <1>1, <1>2, SlotIsPair DEF First, TwoByte
<1>4. <<k, i[2]>> = i
  BY <1>2, <1>3, BehindOwnLead, SlotIsPair
<1>5. /\ c.slot = i
      /\ c.kind = "stub" \/ (c.kind = "handler" /\ ~Live(i))
  <2>1. c = Handler(i) \/ c = StubOf(i)
    BY <1>2, <1>4 DEF TraceInv, LogInv, StubInv, LutRules
  <2> QED BY <1>4, <2>1, HandlerIsNoStub DEF Live
<1>6. vpc'[t] = c.kind /\ at'[t] = i
  BY <1>1, <1>5 DEF TraceInv, LogInv, StubInv, TracerInv, VmTypes
<1>7. MetStubs(t)' = MetStubs(t)
  <2>1. Met(t) = {First(i)}
    BY <1>1, <1>3 DEF Met
  <2>2. First(insn[t])' = First(i)
    BY <1>1 DEF First
  <2>3. Met(t)' = IF c.kind = "stub" THEN {First(i)} ELSE {First(i), i}
    <3>1. First(i) # i
      BY <1>1, <1>2, <1>3
    <3> QED BY <1>6, <2>2, <3>1 DEF Met
  <2>4. \A s : Live(s)' <=> Live(s)
    BY <1>1 DEF Live
  <2> QED BY <1>5, <2>1, <2>3, <2>4 DEF MetStubs
<1>8. LoggedCalls(t)' = LoggedCalls(t)
  BY <1>1 DEF LoggedCalls
<1> QED BY <1>1, <1>7, <1>8, MetNothing

(* Once DllMain has returned it takes no further step.                     *)
LEMMA LoaderDone == LoaderStep => lpc # "done"
BY DEF LoaderStep, OpenReport, NotifyCuckoo, LoadRuntime, LogBanner, HookInit,
   LocateTable, LogInstalling, Skip, StartStub, FinishStub, RedirectSlot,
   EndPass, Attached, LogMissing, ExitFlush, ExitProcess, LoaderAt

(* Every step keeps the trace complete.                                    *)
LEMMA TraceStep ==
  ASSUME TraceInv, RanTypes', [TracerNext]_tracerVars
  PROVE  TraceRules'
<1> /\ since \in [Threads -> Nat] /\ TraceRules
    /\ calls \in [Threads -> 0..MaxCalls] /\ MaxCalls \in Nat
    /\ vpc \in [Threads -> VmPlaces]
    /\ at \in [Threads -> Slots \cup {NoInsn}]
    /\ ran \in [Threads -> Seq(RanRecs)]
  BY ReportAssumption
  DEF TraceInv, TraceRules, LogInv, StubInv, TracerInv, VmTypes, ReportInv,
      IType, TypeOK, RanTypes
<1>1. \A u \in Threads : calls'[u] \in Nat /\ calls'[u] >= calls[u]
  <2>1. ASSUME NEW t \in Threads, Records(t)
        PROVE  calls' = [calls EXCEPT ![t] = @ + 1]
    BY <2>1, RecordsCall DEF TraceInv
  <2>2. ASSUME NEW t \in Threads, ReportStep(t)
        PROVE  UNCHANGED calls
    BY <2>2 DEF ReportStep, SizePass, FillPass, TestInit, InitSection, SetInit,
                Enter, Write, Flush, Leave, callVars
  <2>3. \A t \in Threads :
          calls' = [calls EXCEPT ![t] = @ + 1] =>
            \A u \in Threads : calls'[u] \in Nat /\ calls'[u] >= calls[u]
    OBVIOUS
  <2> QED BY <2>1, <2>2, <2>3, StepRecords DEF TraceInv, NoCall
<1>2. CASE LoaderStep
  <2>1. /\ lpc # "done"
        /\ UNCHANGED <<vpc, since>>
    BY <1>2, LoaderDone
    DEF LoaderStep, OpenReport, NotifyCuckoo, LoadRuntime, LogBanner, HookInit,
        LocateTable, LogInstalling, Skip, StartStub, FinishStub, RedirectSlot,
        EndPass, Attached, LogMissing, ExitFlush, ExitProcess, LoaderLogs,
        vmVars
  <2>2. \A u \in Threads : since'[u] <= calls'[u] + 1
    BY <1>1, <2>1 DEF TraceRules
  <2> QED BY <2>1, <2>2 DEF TraceRules
<1>3. ASSUME NEW t \in Threads, NEW i \in Insns, Fetch(t, i)
      PROVE  TraceRules'
  BY <1>3, TraceFetch
<1>4. ASSUME NEW t \in Threads, VmStep(t)
      PROVE  TraceRules'
  <2>1. /\ UNCHANGED <<lut, stub, lpc, g_vb6, since, insn>>
        /\ vpc[t] # "fetch"
    BY <1>4 DEF VmStep, CallPreHook, QuietPreHook, AskSymbol, CallNative,
                BeginDump, DumpLine, LeaveStub, SecondByte, Execute, VmAt,
                tableVars, loaderVars
  <2>2. \A u \in Threads \ {t} : vpc'[u] = vpc[u] /\ at'[u] = at[u]
    BY <1>4 DEF VmStep, CallPreHook, QuietPreHook, AskSymbol, CallNative,
                BeginDump, DumpLine, LeaveStub, SecondByte, Execute, Jump
  <2>3. \A u \in Threads \ {t} : ran'[u] = ran[u]
    BY <1>4 DEF VmStep, CallPreHook, QuietPreHook, AskSymbol, CallNative,
                BeginDump, DumpLine, LeaveStub, SecondByte, Execute, Logs
  <2>4. \A u \in Threads : since'[u] <= calls'[u] + 1
    BY <1>1, <2>1 DEF TraceRules
  <2>5. ASSUME vpc'[t] # "fetch", since'[t] # 0, g_vb6
        PROVE  LogsMet(t)'
    <3>1. LogsMet(t)
      BY <2>1, <2>5 DEF TraceRules
    <3>2. ~Execute(t)
      BY <2>5 DEF Execute
    <3> QED BY <1>4, <3>1, <3>2, TracePreHook, TraceOn, TraceSecondByte
            DEF VmStep
  <2>6. since'[t] # 0 => lpc = "done"
    BY <2>1 DEF TraceRules
  <2> QED BY <2>1, <2>2, <2>3, <2>4, <2>5, <2>6, TraceAlone
<1>5. ASSUME \/ \E t \in Threads : ReportThread(t)
             \/ ServePipe \/ KillProcess \/ Ended \/ UNCHANGED tracerVars
      PROVE  TraceRules'
  <2>1. UNCHANGED <<vpc, at, insn, ran, since, lut, stub, lpc, g_vb6>>
    BY <1>5 DEF ReportThread, ServePipe, KillProcess, Ended, tracerVars, vmVars,
                tableVars, loaderVars
  <2>2. \A u \in Threads : since'[u] <= calls'[u] + 1
    BY <1>1, <2>1 DEF TraceRules
  <2>3. ASSUME NEW t \in Threads, LogsMet(t)
        PROVE  LogsMet(t)'
    <3>1. LoggedCalls(t)' = LoggedCalls(t) /\ MetStubs(t)' = MetStubs(t)
      BY <2>1 DEF LoggedCalls, MetStubs, Met, Live, First
    <3> QED BY <2>1, <2>3, <3>1, MetNothing
  <2> QED BY <2>1, <2>2, <2>3 DEF TraceRules
<1> QED BY <1>2, <1>3, <1>4, <1>5 DEF TracerNext

(* TraceInv is an inductive invariant of the tracer.                       *)
THEOREM TraceInvHolds == TracerSpec => []TraceInv
<1>1. TracerInit => TraceInv
  <2> SUFFICES ASSUME TracerInit PROVE TraceInv
    OBVIOUS
  <2>1. LogInv /\ WalkInv
    BY LogInvInit, WalkInit
  <2>2. TraceRules
    BY DEF TracerInit, ReportInit, TraceRules
  <2> QED BY <2>1, <2>2 DEF TraceInv
<1>2. TraceInv /\ LogInv' /\ WalkInv' /\ [TracerNext]_tracerVars => TraceInv'
  BY TraceStep DEF TraceInv, LogInv
<1> QED BY <1>1, <1>2, LogInvHolds, WalkInvHolds, PTL DEF TracerSpec

(* A thread meets no more stubs on the way to its handler than there are   *)
(* kinds of hooks: a lead entry has no specific hook, and an entry behind  *)
(* one no generic hook.                                                    *)
LEMMA FewStubs ==
  ASSUME TraceInv, lpc = "done", g_vb6, NEW i \in Insns,
         NEW S, S \subseteq {First(i), i}, \A s \in S : Live(s)
  PROVE  Cardinality(S) <= Cardinality(Modes)
<1> DEFINE kind(s) == IF stub[s].pre = 0 THEN "generic" ELSE "specific"
<1>1. First(i) \in Slots /\ i \in Slots /\ i \notin Leads
  BY FirstIsSlot DEF Insns
<1>2. \A s \in S : stub[s].pre \in Wanted(s)
  BY <1>1, Installed DEF TraceInv
<1>3. \A s \in S : kind(s) \in Modes
  BY <1>2 DEF Wanted
<1>4. \A s, r \in S : kind(s) = kind(r) => s = r
  <2>1. CASE i[1] = 0
    BY <2>1 DEF First
  <2>2. CASE i[1] # 0
    <3>1. First(i) \in Leads
      BY <1>1, <2>2, SlotIsPair DEF First, Leads, TwoByte
    <3>2. First(i) \in S => stub[First(i)].pre = 0
      BY <1>2, <3>1, LeadAssumption, HooksAssumption DEF Wanted, Matches
    <3>3. i \in S => stub[i].pre # 0
      BY <1>2, <2>2 DEF Wanted, Matches
    <3>4. kind(First(i)) = kind(i) => ~(First(i) \in S /\ i \in S)
      BY <3>2, <3>3
    <3> QED BY <3>4
  <2> QED BY <2>1, <2>2
<1>5. IsFiniteSet(Modes)
  <2>1. IsFiniteSet({"generic"} \cup {"specific"})
    BY FS_Singleton, FS_AddElement
  <2>2. Modes \subseteq {"generic"} \cup {"specific"}
    BY TracerAssumption
  <2> QED BY <2>1, <2>2, FS_Subset
<1>6. [s \in S |-> kind(s)] \in Injection(S, Modes)
  BY <1>3, <1>4 DEF Injection, IsInjective
<1> QED BY <1>5, <1>6, FS_Injection

(* The trace is complete: an instruction that is fetched after DllMain has *)
(* returned, and that some hook is wanted for, has been logged when its    *)
(* handler runs, once at most by each kind of hook, and nothing else has   *)
(* been logged in its name (main.c:50, 54, insns.c:226-236).               *)
THEOREM CompleteTraceHolds == TracerSpec => []CompleteTrace
<1>1. ASSUME TraceInv PROVE CompleteTrace
  <2> SUFFICES ASSUME NEW t \in Threads, vpc[t] = "handler", at[t] = insn[t],
                      since[t] # 0, g_vb6
      PROVE  LET hooks == Wanted(First(insn[t])) \cup Wanted(insn[t])
             IN  /\ Cardinality(LoggedCalls(t)) <= Cardinality(Modes)
                 /\ hooks # {} /\ hooks \cap Quiet = {} => LoggedCalls(t) # {}
                 /\ \A n \in LoggedCalls(t) :
                      /\ ran[t][n].insn = insn[t]
                      /\ \E h \in hooks : ran[t][n].says = Label(h, insn[t])
    BY DEF CompleteTrace
  <2> DEFINE i == insn[t]
             hooks == Wanted(First(i)) \cup Wanted(i)
  <2>1. lpc = "done" /\ LogsMet(t)
    BY <1>1 DEF TraceInv, TraceRules
  <2>2. i \in Insns /\ First(i) \in Slots /\ i \in Slots
    BY <1>1, FirstIsSlot
    DEF TraceInv, LogInv, StubInv, TracerInv, VmTypes, Insns
  <2>3. Met(t) = {First(i), i}
    BY DEF Met
  <2>4. \A s \in MetStubs(t) : Live(s) /\ stub[s].pre \in Wanted(s)
    BY <1>1, <2>1, <2>2, <2>3, Installed DEF MetStubs, TraceInv
  <2>5. \A s \in MetStubs(t) : stub[s].pre \in hooks
    BY <2>3, <2>4 DEF MetStubs
  <2>6. hooks # {} => MetStubs(t) # {}
    BY <1>1, <2>1, <2>2, <2>3, Installed DEF MetStubs, TraceInv
  <2>7. Cardinality(LoggedCalls(t)) <= Cardinality(Modes)
    <3>1. Cardinality(MetStubs(t)) <= Cardinality(Modes)
      BY <1>1, <2>1, <2>2, <2>3, FewStubs DEF MetStubs
    <3>2. /\ Cardinality(LoggedCalls(t)) \in Nat
          /\ Cardinality(MetStubs(t)) \in Nat
      BY <1>1, FiniteTrace, FS_CardinalityType DEF TraceInv
    <3>3. Cardinality(Modes) \in Nat
      <4>1. IsFiniteSet({"generic"} \cup {"specific"})
        BY FS_Singleton, FS_AddElement
      <4>2. Modes \subseteq {"generic"} \cup {"specific"}
        BY TracerAssumption
      <4> QED BY <4>1, <4>2, FS_Subset, FS_CardinalityType
    <3> QED BY <2>1, <3>1, <3>2, <3>3 DEF LogsMet
  <2>8. hooks # {} /\ hooks \cap Quiet = {} => LoggedCalls(t) # {}
    BY <2>1, <2>5, <2>6 DEF LogsMet
  <2>9. \A n \in LoggedCalls(t) :
          /\ ran[t][n].insn = i
          /\ \E h \in hooks : ran[t][n].says = Label(h, i)
    BY <2>1, <2>5 DEF LogsMet
  <2> QED BY <2>7, <2>8, <2>9
<1> QED BY <1>1, TraceInvHolds, PTL
=============================================================================
