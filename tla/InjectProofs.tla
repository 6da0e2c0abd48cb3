---------------------------- MODULE InjectProofs ----------------------------
(***************************************************************************)
(* Proofs about the injector for every set of argument counts.  The        *)
(* invariant follows main(): what is known of the program, of the handles  *)
(* and of the APC between two calls of Windows.                            *)
(***************************************************************************)
EXTENDS Inject, TLAPS

Begun    == {"GetProcAddress", "OpenFile", "CreateOut", "CreateErr", "CreateProcess"}
Created  == {"VirtualAllocEx", "WriteProcessMemory", "QueueUserAPC", "TerminateProcess"}
Queued   == {"CreateDebugger", "CloseDebuggerThread", "CloseDebuggerProcess", "Sleep", "ResumeThread"}
Resuming == {"CloseThread", "CloseProcess", "Done"}
Failing  == {"CloseThreadError", "CloseProcessError", "Failed"}

\* The program was given the whole path, and its thread will call
\* LoadLibraryA with it before anything else, or has done so.
Armed == path = "whole" /\ (apc \/ tried = "whole")

\* Only an armed program ever runs: what main() has done so far comes before
\* whoever may resume the thread.
ApcInv ==
  /\ apc => path = "whole"
  /\ child = "running" => Armed
  /\ debugger => Armed
  /\ pc \in Queued \cup Resuming => Armed
  /\ pc = "QueueUserAPC" => path = "whole"
  /\ pc \in Begun \cup Created => child # "running" /\ ~apc
  /\ pc \in Begun \cup Created \cup {"CreateDebugger"} => ~debugger
  /\ LoadedFirst

\* What became of the program up to each call of main(), and that main() still
\* holds its thread unless it closed it in place of the debugger's.
ChildInv ==
  /\ child \in {"none", "suspended", "running", "dead"}
  /\ pc \in Begun => child = "none" /\ ~began
  /\ pc \in Created => child = "suspended" /\ ~began /\ "process" \in open
  /\ pc \in Failing => child = "dead" /\ ~began
  /\ pc \in Queued \cup Resuming => child # "none"
  /\ pc \in Created \cup {"CreateDebugger"} => "thread" \in open
  /\ pc \in Queued => "thread" \in open \/ ClosedThread
  /\ pc \in {"CloseDebuggerThread", "CloseDebuggerProcess"} /\ debugger =>
       "thread" \notin {pi2.hThread, pi2.hProcess}
  /\ pc \in Resuming => child # "suspended" \/ ClosedThread
  /\ NoneStranded

Inv == ApcInv /\ ChildInv

USE DEF Begun, Created, Queued, Resuming, Failing

LEMMA InitInv == Init => Inv
  BY DEF Init, Inv, ApcInv, ChildInv, LoadedFirst, NoneStranded

\* The calls before there is a program, and those that only look at it.
LEMMA EarlySteps ==
  ASSUME Inv,
         \/ NotStarted \/ GetProcAddress \/ OpenFile
         \/ CreateFile("CreateOut", "out", "CreateErr")
         \/ CreateFile("CreateErr", "err", "CreateProcess")
         \/ CreateProcess \/ VirtualAllocEx \/ WriteProcessMemory \/ QueueUserAPC
  PROVE  Inv'
<1> USE DEF Inv, ApcInv, ChildInv, LoadedFirst, NoneStranded, Armed, ClosedThread,
            Return, Goto, mainVars, childVars
<1>1. CASE NotStarted BY <1>1 DEF NotStarted
<1>2. CASE GetProcAddress BY <1>2 DEF GetProcAddress
<1>3. CASE OpenFile BY <1>3 DEF OpenFile
<1>4. CASE CreateFile("CreateOut", "out", "CreateErr") BY <1>4 DEF CreateFile
<1>5. CASE CreateFile("CreateErr", "err", "CreateProcess") BY <1>5 DEF CreateFile
<1>6. CASE CreateProcess BY <1>6 DEF CreateProcess
<1>7. CASE VirtualAllocEx BY <1>7 DEF VirtualAllocEx
<1>8. CASE WriteProcessMemory BY <1>8 DEF WriteProcessMemory
<1>9. CASE QueueUserAPC BY <1>9 DEF QueueUserAPC
<1> QED BY <1>1, <1>2, <1>3, <1>4, <1>5, <1>6, <1>7, <1>8, <1>9

\* From the debugger to the end of main(), and the error path.
LEMMA LateSteps ==
  ASSUME Inv,
         \/ CreateDebugger
         \/ CloseHandle("CloseDebuggerThread", pi2.hThread, "CloseDebuggerProcess")
         \/ CloseHandle("CloseDebuggerProcess", pi2.hProcess, "Sleep")
         \/ Sleep \/ ResumeThread
         \/ CloseHandle("CloseThread", "thread", "CloseProcess")
         \/ CloseHandle("CloseProcess", "process", "Done")
         \/ End("Done", 0)
         \/ TerminateProcess
         \/ CloseHandle("CloseThreadError", "thread", "CloseProcessError")
         \/ CloseHandle("CloseProcessError", "process", "Failed")
         \/ End("Failed", 1)
  PROVE  Inv'
<1> USE DEF Inv, ApcInv, ChildInv, LoadedFirst, NoneStranded, Armed, ClosedThread,
            Return, Goto, mainVars, childVars
<1>1. CASE CreateDebugger BY <1>1 DEF CreateDebugger
<1>2. CASE CloseHandle("CloseDebuggerThread", pi2.hThread, "CloseDebuggerProcess")
  BY <1>2 DEF CloseHandle
<1>3. CASE CloseHandle("CloseDebuggerProcess", pi2.hProcess, "Sleep")
  BY <1>3 DEF CloseHandle
<1>4. CASE Sleep BY <1>4 DEF Sleep
<1>5. CASE ResumeThread BY <1>5 DEF ResumeThread, Resumed
<1>6. CASE CloseHandle("CloseThread", "thread", "CloseProcess") BY <1>6 DEF CloseHandle
<1>7. CASE CloseHandle("CloseProcess", "process", "Done") BY <1>7 DEF CloseHandle
<1>8. CASE End("Done", 0) BY <1>8 DEF End
<1>9. CASE TerminateProcess BY <1>9 DEF TerminateProcess
<1>10. CASE CloseHandle("CloseThreadError", "thread", "CloseProcessError") BY <1>10 DEF CloseHandle
<1>11. CASE CloseHandle("CloseProcessError", "process", "Failed") BY <1>11 DEF CloseHandle
<1>12. CASE End("Failed", 1) BY <1>12 DEF End
<1> QED BY <1>1, <1>2, <1>3, <1>4, <1>5, <1>6, <1>7, <1>8, <1>9, <1>10, <1>11, <1>12

\* The program, the debugger, and the end of the injector.
LEMMA OutsideSteps ==
  ASSUME Inv, Kill \/ DeliverApc \/ Begin \/ Exit \/ DebuggerActs
  PROVE  Inv'
<1> USE DEF Inv, ApcInv, ChildInv, LoadedFirst, NoneStranded, Armed, ClosedThread,
            mainVars, childVars
<1>1. CASE Kill BY <1>1 DEF Kill
<1>2. CASE DeliverApc BY <1>2 DEF DeliverApc
<1>3. CASE Begin BY <1>3 DEF Begin
<1>4. CASE Exit BY <1>4 DEF Exit
<1>5. CASE DebuggerActs BY <1>5 DEF DebuggerActs, Resumed
<1> QED BY <1>1, <1>2, <1>3, <1>4, <1>5

LEMMA StepInv == Inv /\ [Next]_vars => Inv'
<1> SUFFICES ASSUME Inv, [Next]_vars PROVE Inv'
  OBVIOUS
<1>1. CASE UNCHANGED vars
  BY <1>1 DEF vars, mainVars, childVars, Inv, ApcInv, ChildInv, LoadedFirst, NoneStranded,
              Armed, ClosedThread
<1>2. CASE MainStep BY <1>2, EarlySteps, LateSteps DEF MainStep
<1>3. CASE Kill \/ DeliverApc \/ Begin \/ Exit \/ DebuggerActs BY <1>3, OutsideSteps
<1> QED BY <1>1, <1>2, <1>3 DEF Next

THEOREM InvHolds == Spec => []Inv
  BY InitInv, StepInv, PTL DEF Spec

\* The program never runs an instruction of its own before LoadLibraryA was
\* called with the whole path (src/utils/dllinject.c:80).
THEOREM LoadedFirstHolds == Spec => []LoadedFirst
  BY InvHolds, PTL DEF Inv, ApcInv

\* A failure leaves no program behind, a success a resumed one, unless the
\* thread was closed in place of the debugger's (src/utils/dllinject.c:97).
THEOREM NoneStrandedHolds == Spec => []NoneStranded
  BY InvHolds, PTL DEF Inv, ChildInv
=============================================================================
