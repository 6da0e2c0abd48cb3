------------------------------- MODULE Tracer -------------------------------
(***************************************************************************)
(* The tracer inside the traced process.  One thread runs DllMain          *)
(* (src/src/main.c): it opens the log, tells Cuckoo, loads the VB6         *)
(* runtime, finds the dispatch tables and installs the hooks, logging as   *)
(* it goes.  The threads of the virtual machine fetch instructions and     *)
(* jump through the same tables all the while; one that meets a stub       *)
(* calls report() and then jumps to the handler of the instruction.        *)
(*                                                                         *)
(* Report supplies the steps of report(), HookTable the memory operations  *)
(* on tables and stubs; this module composes them, adding the control of   *)
(* DllMain (lpc) and of the machine's threads (vpc).                       *)
(***************************************************************************)
EXTENDS Report, HookTable, FiniteSets

CONSTANTS
  Modes,       (* the hook calls main.c is compiled with             *)
  Banner,      (* the message of main.c:70                           *)
  Installing,  (* the message of insns.c:228                         *)
  Missing,     (* the message of insns.c:231                         *)
  Callee,      (* the static buffer of symbol(), which native()      *)
               (* passes to report() when the target is an import    *)
  Dumped,      (* the other lines of native() and those of x86dump() *)
  Symbols,     (* the texts symbol() leaves in its buffer            *)
  Prints,      (* Prints[h]: what the pre-hook of g_hooks[h] logs    *)
  Quiet,       (* the hooks whose pre-hook may log nothing           *)
  Inspect,     (* the hooks whose pre-hook calls native()            *)
  Early,       (* the threads that run before DllMain has returned   *)
  MaxRuns,     (* bound: hooked instructions run by one thread       *)
  MaxLines     (* bound: lines about targets after which x86dump()   *)
               (* of a thread ends                                   *)

ASSUME TracerAssumption ==
  /\ Modes \subseteq {"generic", "specific"}
  /\ Modes # {}
  /\ Hooks # <<>>
  /\ Prints \in [DOMAIN Hooks -> Cells]
  /\ {Mnemonic[s] : s \in Slots} \subseteq Cells
  /\ {Banner, Installing, Missing, Callee, Dumped} \subseteq Cells
  /\ \A c \in Cells : <<c>> \in Texts
  /\ Symbols \subseteq Texts
  /\ Quiet \cup Inspect \subseteq DOMAIN Hooks
  /\ Early \subseteq Threads \ {Main}
  /\ MaxRuns \in Nat
  /\ MaxLines \in Nat
  /\ MaxCalls >= Len(Hooks) + 2 * MaxRuns + MaxLines + 6

(* With both kinds of hooks the second pass over table 0 rewrites stubs    *)
(* that the first one has put to use: that is safe only as long as nothing *)
(* runs before DllMain returns, as in a process dllinject.c created.       *)
ASSUME ModeAssumption == Early = {} \/ Cardinality(Modes) = 1

(* A line of a pre-hook goes on with a mnemonic after an address, a line   *)
(* of native() or x86dump() never does (insns.c:29, main.c:50, 54,         *)
(* native.c:38-67, x86dump.c:82-116).                                      *)
ASSUME LineAssumption ==
  {Mnemonic[s] : s \in Slots} \cup {Prints[h] : h \in DOMAIN Hooks}
    \subseteq Cells \ {Callee, Dumped}

(* g_hooks names no lead entry (insns.c:195-223, vb6_tables.c:270-274).    *)
ASSUME LeadAssumption ==
  \A s \in Leads : Mnemonic[s] \notin {Hooks[h] : h \in DOMAIN Hooks}

VARIABLES
  pipe,        (* the Cuckoo pipe: "none", "busy" or "ready"         *)
  g_vb6,       (* TRUE if msvbvm60.dll was loaded                    *)
  lpc,         (* the next step of DllMain                           *)
  pass,        (* which hook is being installed, 0 for the generic   *)
  pos,         (* position in the walk over the slots                *)
  ret,         (* hooks installed in this pass                       *)
  vpc,         (* vpc[t]: what thread t of the machine does          *)
  at,          (* at[t]: the slot it last jumped through             *)
  insn,        (* insn[t]: the instruction it fetched                *)
  ran,         (* history: ran[t][n] says what call n of report() by *)
               (* t was about: the instruction (NoInsn for a call of *)
               (* DllMain) and the argument                          *)
  since        (* history: since[t] is the number of the next call   *)
               (* when t fetched its instruction, 0 if the hooks     *)
               (* were not yet installed                             *)

loaderVars == <<pipe, g_vb6, lpc, pass, pos, ret>>
vmVars == <<vpc, at, insn, ran, since>>
tracerVars == <<reportVars, tableVars, loaderVars, vmVars>>

NoInsn == <<>>

TracerInit ==
  /\ mem = [c \in Cells |-> <<c>>]
  /\ ReportInit
  /\ TableInit
  /\ pipe \in {"none", "busy", "ready"}
  /\ g_vb6 = FALSE
  /\ lpc = "open"
  /\ pass = 0
  /\ pos = 1
  /\ ret = 0
  /\ vpc = [t \in Threads |-> "fetch"]
  /\ at = [t \in Threads |-> NoInsn]
  /\ insn = [t \in Threads |-> NoInsn]
  /\ ran = [t \in Threads |-> <<>>]
  /\ since = [t \in Threads |-> 0]

-----------------------------------------------------------------------------
(***************************************************************************)
(* DllMain, and the functions it calls in its thread.                      *)
(***************************************************************************)
LoaderAt(from, to) ==
  /\ alive
  /\ lpc = from
  /\ rpc[Main] = "idle"
  /\ lpc' = to

(* Thread t calls report() about instruction i with an argument at c. *)
Logs(t, i, c) ==
  /\ Call(t, c)
  /\ ran' = [ran EXCEPT ![t] = Append(@, [insn |-> i, says |-> c])]

(* Mutant of LoaderLogs: the lines of DllMain are compiled out. *)
LoaderLogsNothing(c) ==
  UNCHANGED <<reportVars, ran, vpc, at, insn, since>>

(* A report() call of DllMain; the step after it waits until it returns. *)
LoaderLogs(c) ==
  /\ Logs(Main, NoInsn, c)
  /\ UNCHANGED <<vpc, at, insn, since>>

(* report_init(REPORT_PATH): DllMain ignores that it may fail. *)
OpenReport ==
  /\ LoaderAt("open", "notify")
  /\ OpenLog
  /\ UNCHANGED <<tableVars, pipe, g_vb6, pass, pos, ret, vmVars>>

(* Mutant of NotifyCuckoo: it waits for a pipe to exist. *)
NotifyCuckooWaits ==
  /\ LoaderAt("notify", "load")
  /\ pipe = "ready"
  /\ UNCHANGED <<reportVars, tableVars, pipe, g_vb6, pass, pos, ret, vmVars>>

(* CallNamedPipe(..., NMPWAIT_WAIT_FOREVER) fails at once when there is no *)
(* pipe and waits while all of its instances are busy.                     *)
NotifyCuckoo ==
  /\ LoaderAt("notify", "load")
  /\ pipe # "busy"
  /\ UNCHANGED <<reportVars, tableVars, pipe, g_vb6, pass, pos, ret, vmVars>>

(* Mutant of LoadRuntime: DllMain logs no banner. *)
LoadRuntimeSilently ==
  /\ LoaderAt("load", "int3")
  /\ g_vb6' \in BOOLEAN
  /\ UNCHANGED <<reportVars, tableVars, pipe, pass, pos, ret, vmVars>>

LoadRuntime ==
  /\ LoaderAt("load", "banner")
  /\ g_vb6' \in BOOLEAN
  /\ UNCHANGED <<reportVars, tableVars, pipe, pass, pos, ret, vmVars>>

LogBanner ==
  /\ LoaderAt("banner", "int3")
  /\ LoaderLogs(Banner)
  /\ UNCHANGED <<tableVars, pipe, g_vb6, pass, pos, ret>>

(* vb6_hook_init: GetProcAddress finds no ProcCallEngine without the       *)
(* runtime, and DllMain then installs nothing.                             *)
HookInit ==
  /\ LoaderAt("int3", IF g_vb6 THEN "locate" ELSE "done")
  /\ FillInt3
  /\ UNCHANGED <<reportVars, pipe, g_vb6, pass, pos, ret, vmVars>>

FirstPass == IF "generic" \in Modes THEN 0 ELSE 1

(* A pass h >= 1 starts with a line of the log, pass 0 does not. *)
StartOf(h) == IF h = 0 THEN "scan" ELSE "announce"

(* _vb6_locate_vm_tables takes the tables in order. *)
LocateTable(k) ==
  /\ \A j \in Tables : j < k <=> g_tables[j] # NoTable
  /\ LoaderAt("locate", IF \E j \in Tables : j > k THEN "locate"
                                                    ELSE StartOf(FirstPass))
  /\ Locate(k)
  /\ pass' = FirstPass
  /\ UNCHANGED <<reportVars, pipe, g_vb6, pos, ret, vmVars>>

LogInstalling ==
  /\ LoaderAt("announce", "scan")
  /\ LoaderLogs(Installing)
  /\ UNCHANGED <<tableVars, pipe, g_vb6, pass, pos, ret>>

(* The loops over the entries of the tables.  An entry is passed over ...  *)
Skip ==
  /\ pos <= Len(Walk)
  /\ ~Matches(pass, Walk[pos])
  /\ LoaderAt("scan", "scan")
  /\ pos' = pos + 1
  /\ UNCHANGED <<reportVars, tableVars, pipe, g_vb6, pass, ret, vmVars>>

(* Mutant of StartStub: the table is redirected before the stub is written. *)
StartStubLive ==
  /\ pos <= Len(Walk)
  /\ Matches(pass, Walk[pos])
  /\ LoaderAt("scan", "stub")
  /\ stub' = [stub EXCEPT ![Walk[pos]].state = "partial"]
  /\ lut' = [lut EXCEPT ![Walk[pos]] = StubOf(Walk[pos])]
  /\ UNCHANGED <<g_tables, saved, reportVars, pipe, g_vb6, pass, pos, ret,
                 vmVars>>

(* ... or hooked: its stub is written, then the table is redirected to it. *)
StartStub ==
  /\ pos <= Len(Walk)
  /\ Matches(pass, Walk[pos])
  /\ LoaderAt("scan", "stub")
  /\ BeginStub(Walk[pos])
  /\ UNCHANGED <<reportVars, pipe, g_vb6, pass, pos, ret, vmVars>>

FinishStub ==
  /\ LoaderAt("stub", "redirect")
  /\ EndStub(Walk[pos], pass)
  /\ UNCHANGED <<reportVars, pipe, g_vb6, pass, pos, ret, vmVars>>

(* Mutant of RedirectSlot: the walk stops at the first match. *)
RedirectFirstOnly ==
  /\ LoaderAt("redirect", "scan")
  /\ Redirect(Walk[pos])
  /\ pos' = Len(Walk) + 1
  /\ ret' = ret + 1
  /\ UNCHANGED <<reportVars, pipe, g_vb6, pass, vmVars>>

RedirectSlot ==
  /\ LoaderAt("redirect", "scan")
  /\ Redirect(Walk[pos])
  /\ pos' = pos + 1
  /\ ret' = ret + 1
  /\ UNCHANGED <<reportVars, pipe, g_vb6, pass, vmVars>>

IsLastPass == "specific" \notin Modes \/ pass = Len(Hooks)

(* Mutant of NothingHooked: the result of vb6_hook_ins is not looked at. *)
NothingHookedIgnored == FALSE

NothingHooked == pass # 0 /\ ret = 0

(* A pass that hooked nothing ends the process; after the last pass        *)
(* DllMain returns and its thread runs the program.                        *)
EndPass ==
  /\ pos > Len(Walk)
  /\ ~NothingHooked
  /\ ~IsLastPass
  /\ LoaderAt("scan", "announce")
  /\ pass' = pass + 1
  /\ pos' = 1
  /\ ret' = 0
  /\ UNCHANGED <<reportVars, tableVars, pipe, g_vb6, vmVars>>

Attached ==
  /\ pos > Len(Walk)
  /\ ~NothingHooked
  /\ IsLastPass
  /\ LoaderAt("scan", "done")
  /\ UNCHANGED <<reportVars, tableVars, pipe, g_vb6, pass, pos, ret, vmVars>>

LogMissing ==
  /\ pos > Len(Walk)
  /\ NothingHooked
  /\ LoaderAt("scan", "exit")
  /\ LoaderLogs(Missing)
  /\ UNCHANGED <<tableVars, pipe, g_vb6, pass, pos, ret>>

(* exit(1) *)
ExitFlush ==
  /\ LoaderAt("exit", "exiting")
  /\ FlushAll
  /\ UNCHANGED <<tableVars, pipe, g_vb6, pass, pos, ret, vmVars>>

ExitProcess ==
  /\ LoaderAt("exiting", "exited")
  /\ Kill
  /\ UNCHANGED <<tableVars, pipe, g_vb6, pass, pos, ret, vmVars>>

LoaderStep ==
  \/ OpenReport
  \/ NotifyCuckoo
  \/ LoadRuntime
  \/ LogBanner
  \/ HookInit
  \/ \E k \in Tables : LocateTable(k)
  \/ LogInstalling
  \/ Skip
  \/ StartStub
  \/ FinishStub
  \/ RedirectSlot
  \/ EndPass
  \/ Attached
  \/ LogMissing
  \/ ExitFlush
  \/ ExitProcess

-----------------------------------------------------------------------------
(***************************************************************************)
(* The threads of the virtual machine.                                     *)
(***************************************************************************)
VmAt(t, from) == alive /\ vpc[t] = from

(* Thread t jumps to the code at c; a NULL ends the program. *)
Jump(t, c) ==
  /\ vpc' = [vpc EXCEPT ![t] = c.kind]
  /\ at' = [at EXCEPT ![t] = c.slot]

HookedRuns(t) == {n \in DOMAIN ran[t] : ran[t][n].insn # NoInsn}

(* The program runs when DllMain has returned, Early threads before. *)
MayRun(t) == t \in Early \/ lpc = "done"

Fetch(t, i) ==
  /\ VmAt(t, "fetch")
  /\ MayRun(t)
  /\ Cardinality(HookedRuns(t)) < MaxRuns
  /\ insn' = [insn EXCEPT ![t] = i]
  /\ since' = [since EXCEPT ![t] = IF lpc = "done" THEN calls[t] + 1 ELSE 0]
  /\ Jump(t, lut[First(i)])
  /\ UNCHANGED <<reportVars, tableVars, loaderVars, ran>>

(* The pre-hook that the stub of thread t calls. *)
PreHook(t) == stub[at[t]].pre

StubReady(t) == stub[at[t]].state = "ready"

(* What pre-hook h logs about instruction i: the generic one looks the     *)
(* mnemonic up, following a lead byte, the others print one of their own.  *)
Label(h, i) == IF h = 0 THEN Mnemonic[i] ELSE Prints[h]

(* Mutant of CallPreHook: the generic hook names the lead byte itself. *)
CallPreHookFirstByte(t) ==
  /\ VmAt(t, "stub")
  /\ StubReady(t)
  /\ Logs(t, insn[t], Label(PreHook(t), at[t]))
  /\ vpc' = [vpc EXCEPT ![t] = "hooked"]
  /\ UNCHANGED <<tableVars, loaderVars, at, insn, since>>

CallPreHook(t) ==
  /\ VmAt(t, "stub")
  /\ StubReady(t)
  /\ Logs(t, insn[t], Label(PreHook(t), insn[t]))
  /\ vpc' = [vpc EXCEPT ![t] = "hooked"]
  /\ UNCHANGED <<tableVars, loaderVars, at, insn, since>>

(* CStr2Uni logs nothing when there is no string to convert. *)
QuietPreHook(t) ==
  /\ VmAt(t, "stub")
  /\ StubReady(t)
  /\ PreHook(t) \in Quiet
  /\ vpc' = [vpc EXCEPT ![t] = "hooked"]
  /\ UNCHANGED <<reportVars, tableVars, loaderVars, at, insn, ran, since>>

(* The pre-hooks of the call instructions go on to native() and x86dump(), *)
(* unless the target is NULL.  Both ask symbol() for names, which it       *)
(* writes to a buffer that all threads share.                              *)
AskSymbol(t) ==
  /\ vpc[t] \in {"hooked", "dumping"}
  /\ rpc[t] = "idle"
  /\ PreHook(t) \in Inspect
  /\ vpc' = [vpc EXCEPT ![t] = IF @ = "hooked" THEN "named" ELSE "noted"]
  /\ \E x \in Symbols : Mutate(Callee, x)
  /\ UNCHANGED <<tableVars, loaderVars, at, insn, ran, since>>

(* The line of native().  It classifies nothing without a name, passes the *)
(* buffer itself for an import, and leaves unknown code to x86dump().      *)
CallNative(t) ==
  /\ vpc[t] \in {"hooked", "named"}
  /\ PreHook(t) \in Inspect
  /\ \E c \in {Callee, Dumped}, to \in {"native", "dump"} :
       /\ c = Callee => to = "native"
       /\ to = "native" => vpc[t] = "named"
       /\ Logs(t, insn[t], c)
       /\ vpc' = [vpc EXCEPT ![t] = to]
  /\ UNCHANGED <<tableVars, loaderVars, at, insn, since>>

(* x86dump() announces itself ... *)
BeginDump(t) ==
  /\ vpc[t] = "dump"
  /\ Logs(t, insn[t], Dumped)
  /\ vpc' = [vpc EXCEPT ![t] = "dumping"]
  /\ UNCHANGED <<tableVars, loaderVars, at, insn, since>>

LinesAbout(t) == {n \in DOMAIN ran[t] : ran[t][n].says \in {Callee, Dumped}}

(* ... and logs one line after the other, the last when it returns.  A     *)
(* name that it printed was copied into a local buffer before.             *)
DumpLine(t) ==
  /\ vpc[t] \in {"dumping", "noted"}
  /\ Logs(t, insn[t], Dumped)
  /\ \/ vpc' = [vpc EXCEPT ![t] = "native"]
     \/ Cardinality(LinesAbout(t)) < MaxLines /\ vpc' = [vpc EXCEPT ![t] = "dumping"]
  /\ UNCHANGED <<tableVars, loaderVars, at, insn, since>>

(* Mutant of LeaveStub: the stub does not wait for report(). *)
LeaveStubAtOnce(t) ==
  /\ alive
  /\ vpc[t] \in {"hooked", "native"}
  /\ Jump(t, stub[at[t]].orig)
  /\ UNCHANGED <<reportVars, tableVars, loaderVars, insn, ran, since>>

(* The pre-hook has returned: the jump at the end of the stub. *)
LeaveStub(t) ==
  /\ alive
  /\ vpc[t] \in {"hooked", "native"}
  /\ rpc[t] = "idle"
  /\ Jump(t, stub[at[t]].orig)
  /\ UNCHANGED <<reportVars, tableVars, loaderVars, insn, ran, since>>

(* The handler of a lead slot dispatches on the second byte ... *)
SecondByte(t) ==
  /\ VmAt(t, "handler")
  /\ at[t] \in Leads
  /\ Jump(t, lut[<<TableBehind(Handler(at[t])), insn[t][2]>>])
  /\ UNCHANGED <<reportVars, tableVars, loaderVars, insn, ran, since>>

(* ... every other handler runs the instruction. *)
Execute(t) ==
  /\ VmAt(t, "handler")
  /\ at[t] \notin Leads
  /\ vpc' = [vpc EXCEPT ![t] = "fetch"]
  /\ UNCHANGED <<reportVars, tableVars, loaderVars, at, insn, ran, since>>

VmStep(t) ==
  \/ CallPreHook(t)
  \/ QuietPreHook(t)
  \/ AskSymbol(t)
  \/ CallNative(t)
  \/ BeginDump(t)
  \/ DumpLine(t)
  \/ LeaveStub(t)
  \/ SecondByte(t)
  \/ Execute(t)

-----------------------------------------------------------------------------
ReportThread(t) ==
  /\ ReportStep(t)
  /\ UNCHANGED <<tableVars, loaderVars, vmVars>>

(* The server of the Cuckoo pipe becomes free. *)
ServePipe ==
  /\ alive
  /\ pipe = "busy"
  /\ pipe' = "ready"
  /\ UNCHANGED <<reportVars, tableVars, g_vb6, lpc, pass, pos, ret, vmVars>>

KillProcess ==
  /\ Kill
  /\ UNCHANGED <<tableVars, loaderVars, vmVars>>

(* The process is gone. *)
Ended == ~alive /\ UNCHANGED tracerVars

TracerNext ==
  \/ LoaderStep
  \/ \E t \in Threads :
       \/ \E i \in Insns : Fetch(t, i)
       \/ VmStep(t)
       \/ ReportThread(t)
  \/ ServePipe
  \/ KillProcess
  \/ Ended

TracerSpec == TracerInit /\ [][TracerNext]_tracerVars

(* Every thread that can run is run, and the pipe server serves.  Nothing  *)
(* makes the traced program fetch another instruction.                     *)
TracerFairSpec ==
  /\ TracerSpec
  /\ WF_tracerVars(LoaderStep)
  /\ WF_tracerVars(ServePipe)
  /\ \A t \in Threads : WF_tracerVars(VmStep(t) \/ ReportThread(t))

(* What the log needs and nothing in the code ensures: a thread calls      *)
(* symbol() only while no other one is in report() with the buffer.  The   *)
(* module Native shows two threads that break it.                          *)
StableStep == \A c \in Cells : mem'[c] # mem[c] => Stable(c)

StableTracerSpec == TracerInit /\ [][TracerNext /\ StableStep]_tracerVars

-----------------------------------------------------------------------------
(***************************************************************************)
(* Properties.                                                             *)
(***************************************************************************)
(* Where a thread is between the jump to a stub and the one at its end.    *)
InStub == {"stub", "hooked", "named", "native", "dump", "dumping", "noted"}

VmPlaces == InStub \cup {"fetch", "handler", "null"}

LoaderPlaces == {"open", "notify", "load", "banner", "int3", "locate",
                 "announce", "scan", "stub", "redirect", "done",
                 "exit", "exiting", "exited"}

(* Every variable of this module and of HookTable has its type; ret counts *)
(* hooks of the current pass only.                                         *)
TracerTypeOK ==
  /\ lut \in [Slots -> Code]
  /\ g_tables \in [Tables -> Tables \cup {NoTable}]
  /\ saved \in [Slots -> Code]
  /\ stub \in [Slots -> StubContents]
  /\ pipe \in {"none", "busy", "ready"}
  /\ g_vb6 \in BOOLEAN
  /\ lpc \in LoaderPlaces
  /\ pass \in 0..Len(Hooks)
  /\ pos \in 1..Len(Walk) + 1
  /\ ret \in 0..Cardinality({s \in Slots : Matches(pass, s)})
  /\ vpc \in [Threads -> VmPlaces]
  /\ at \in [Threads -> Slots \cup {NoInsn}]
  /\ insn \in [Threads -> Insns \cup {NoInsn}]
  /\ since \in [Threads -> 0..MaxCalls]
  /\ \A t \in Threads : Len(ran[t]) = calls[t]

Live(s) == lut[s] = StubOf(s)

(* A thread that dispatches through the tables, at any moment of the       *)
(* installation, finds in every slot the handler of that slot or the stub  *)
(* of that slot, finished, for a hook that names it and chained to that    *)
(* handler (hook.c:112-131 before 143-144, and 63, 83 before both).        *)
StubsSound ==
  (\E t \in Threads : MayRun(t)) =>
    \A s \in Slots :
      \/ lut[s] = Handler(s)
      \/ /\ Live(s)
         /\ stub[s].state = "ready"
         /\ stub[s].orig = Handler(s)
         /\ Matches(stub[s].pre, s)

(* No thread is ever inside a stub that is being rewritten, and none jumps *)
(* to an address that was not yet copied.                                  *)
NeverAstray ==
  \A t \in Threads :
    /\ vpc[t] # "null"
    /\ vpc[t] \in InStub => StubReady(t)

(* Tracing is transparent: a thread gets to the handlers the untraced      *)
(* machine would run for its instruction, whether it fetched before,       *)
(* during or after the installation.                                       *)
Transparent ==
  \A t \in Threads :
    vpc[t] = "handler" => at[t] \in {First(insn[t]), insn[t]}

(* Write-ahead: when a handler runs, the lines of everything the thread    *)
(* logged, the line of this instruction included, are in the file with the *)
(* text the pre-hook passed; a crash inside the handler loses none.  Only  *)
(* what a line printed from the buffer of symbol() says is left open:      *)
(* another thread may have been writing to it.                             *)
WriteAhead ==
  \A t \in Threads :
    vpc[t] = "handler" =>
      \A n \in DOMAIN ran[t] :
        \E i \in DOMAIN disk :
          /\ disk[i].by = t
          /\ disk[i].call = n
          /\ ran[t][n].says # Callee => disk[i].text = Rendered(ran[t][n].says)

(* The hooks, in order, that are to be in force for slot s at the end. *)
Wanted(s) ==
  {h \in 0..Len(Hooks) :
     /\ Matches(h, s)
     /\ (IF h = 0 THEN "generic" ELSE "specific") \in Modes}

(* An instruction that is fetched after DllMain has returned and that some *)
(* hook is wanted for is logged before its handler runs, once by each kind *)
(* of hook; only the hooks of Quiet may keep silent.                       *)
LoggedCalls(t) ==
  {n \in DOMAIN ran[t] : n >= since[t] /\ ran[t][n].says \notin {Callee, Dumped}}

CompleteTrace ==
  \A t \in Threads :
    vpc[t] = "handler" /\ at[t] = insn[t] /\ since[t] # 0 /\ g_vb6 =>
      LET hooks == Wanted(First(insn[t])) \cup Wanted(insn[t])
      IN  /\ Cardinality(LoggedCalls(t)) <= Cardinality(Modes)
          /\ hooks # {} /\ hooks \cap Quiet = {} => LoggedCalls(t) # {}
          /\ \A n \in LoggedCalls(t) :
               /\ ran[t][n].insn = insn[t]
               /\ \E h \in hooks : ran[t][n].says = Label(h, insn[t])

(* No hook is in a table before the log is open, its critical section is   *)
(* initialised and its first line is in the file: DllMain keeps the rule   *)
(* report() depends on (main.c:66, 70 before 74; report.c:298-301).        *)
NoHookBeforeLog ==
  (\E s \in Slots : Live(s)) =>
    g_fp = "open" /\ cs_init = 1 /\ cs = "ready" /\ disk # <<>>

(* The passes that are over and were compiled in. *)
PassesOver ==
  {h \in 0..Len(Hooks) :
     /\ h < pass \/ lpc = "done"
     /\ (IF h = 0 THEN "generic" ELSE "specific") \in Modes}

(* DllMain gives up only when a mnemonic is in no table, and does not go   *)
(* on when it is.  Between two passes, at the end and when it gives up,    *)
(* every slot that was to be hooked is, by the last hook that names it,    *)
(* with a stub that is whole and leads to the handler of this slot         *)
(* although an earlier pass may have used it for another hook, and no      *)
(* other slot was touched (main.c:73-74, hook.c:134-162, insns.c:230).     *)
AllOrExit ==
  LET absent(h) == \A s \in Slots : ~Matches(h, s)
      gaveUp == lpc \in {"exit", "exiting", "exited"}
      by(s) == {h \in PassesOver : Matches(h, s)}
  IN  /\ gaveUp => absent(pass)
      /\ g_vb6 /\ (gaveUp \/ lpc \in {"announce", "done"}) =>
           /\ \A h \in PassesOver \ {0} : ~absent(h)
           /\ \A s \in Slots :
                /\ Live(s) <=> by(s) # {}
                /\ Live(s) => /\ stub[s].state = "ready"
                              /\ stub[s].orig = Handler(s)
                              /\ stub[s].pre \in by(s)
                              /\ \A h \in by(s) : h <= stub[s].pre

(* The threads of the tracer use report() as it demands: the first call is *)
(* made by DllMain and all others wait for its line (main.c:66, 70 and 74  *)
(* before any hook), whatever symbol() does to the name in its buffer.     *)
ImplementsReport == RacySpec

(* DllMain comes to an end, unless the process is killed or the log could  *)
(* not be opened.                                                          *)
AttachEnds ==
  <>(lpc \in {"done", "exited"} \/ ~alive \/ rpc[Main] = "fault")
=============================================================================
