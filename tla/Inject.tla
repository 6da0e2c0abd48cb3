------------------------------- MODULE Inject ------------------------------
(***************************************************************************)
(* The injector, src/utils/dllinject.c: it creates the program suspended,  *)
(* writes the path of the DLL into it, queues LoadLibraryA as an APC of    *)
(* its only thread, optionally starts a debugger, and resumes the thread.  *)
(* Next to it run the program, whose thread delivers the APCs before its   *)
(* first instruction, and the debugger, which may resume or kill it.       *)
(*                                                                         *)
(* Every call of Windows that main() checks may fail.  TerminateProcess,   *)
(* ResumeThread and CloseHandle, which it does not check, do their work on *)
(* a handle that is open and nothing on one that is not.                   *)
(***************************************************************************)
EXTENDS Naturals, FiniteSets

CONSTANT ArgCounts   (* argc *)

ASSUME InjectAssumption == ArgCounts \subseteq Nat

VARIABLES
  pc,        (* the next call of main(); "ended", "killed"                *)
  argc,
  ret,       (* what main() returned                                      *)
  open,      (* the handles of the injector                               *)
  pi2,       (* the handles of the debugger, as the variable holds them   *)
  debugger,  (* whether it runs and is attached                           *)
  child,     (* "none", "suspended", "running", "dead"                    *)
  path,      (* what the program's memory holds of the path               *)
  apc,       (* whether LoadLibraryA is queued                            *)
  tried,     (* the path LoadLibraryA was called with                     *)
  began      (* whether the program has run an instruction of its own     *)

mainVars == <<pc, argc, ret, open, pi2, debugger>>
childVars == <<child, path, apc, tried, began>>
vars == <<mainVars, childVars>>

Handles == {"out", "err", "process", "thread", "debuggerProcess", "debuggerThread"}

\* What an uninitialised variable may hold: a handle, or no handle at all.
Garbage == Handles \cup {"stray"}

Init ==
  /\ pc = "GetProcAddress" /\ argc \in ArgCounts /\ ret = 0
  /\ open = {} /\ pi2 \in [hThread : {"stray"}, hProcess : {"stray"}] /\ debugger = FALSE
  /\ child = "none" /\ path = "nothing" /\ apc = FALSE /\ tried = "nothing" /\ began = FALSE

Goto(from, to) == pc = from /\ pc' = to

Return(code) == pc' = "ended" /\ ret' = code

\* Usage, LoadLibraryA not found, no such DLL: nothing was done yet.
NotStarted ==
  /\ pc \in {"GetProcAddress", "OpenFile"} /\ Return(1)
  /\ UNCHANGED <<argc, open, pi2, debugger, childVars>>

GetProcAddress ==
  /\ argc >= 3 /\ Goto("GetProcAddress", "OpenFile")
  /\ UNCHANGED <<argc, ret, open, pi2, debugger, childVars>>

OpenFile ==
  /\ Goto("OpenFile", "CreateOut")
  /\ UNCHANGED <<argc, ret, open, pi2, debugger, childVars>>

\* The files of the program's output; on failure what is open stays open.
CreateFile(from, handle, to) ==
  /\ pc = from
  /\ \/ Return(1) /\ UNCHANGED open
     \/ pc' = to /\ open' = open \cup {handle} /\ UNCHANGED ret
  /\ UNCHANGED <<argc, pi2, debugger, childVars>>

CreateProcess ==
  /\ pc = "CreateProcess"
  /\ \/ Return(1) /\ UNCHANGED <<open, child>>
     \/ /\ pc' = "VirtualAllocEx" /\ child' = "suspended"
        /\ open' = open \cup {"process", "thread"} /\ UNCHANGED ret
  /\ UNCHANGED <<argc, pi2, debugger, path, apc, tried, began>>

VirtualAllocEx ==
  /\ pc = "VirtualAllocEx" /\ pc' \in {"WriteProcessMemory", "TerminateProcess"}
  /\ UNCHANGED <<argc, ret, open, pi2, debugger, childVars>>

(* Mutant of WriteProcessMemory: bytes_written is not looked at. *)
WriteUncounted ==
  /\ pc = "WriteProcessMemory" /\ path' \in {"nothing", "part", "whole"}
  /\ pc' = IF path' = "nothing" THEN "TerminateProcess" ELSE "QueueUserAPC"
  /\ UNCHANGED <<argc, ret, open, pi2, debugger, child, apc, tried, began>>

\* A write that reports success and is short counts as a failure.
WriteProcessMemory ==
  /\ pc = "WriteProcessMemory" /\ path' \in {"nothing", "part", "whole"}
  /\ pc' = IF path' # "whole" THEN "TerminateProcess" ELSE "QueueUserAPC"
  /\ UNCHANGED <<argc, ret, open, pi2, debugger, child, apc, tried, began>>

QueueUserAPC ==
  /\ pc = "QueueUserAPC"
  /\ \/ pc' = "TerminateProcess" /\ UNCHANGED apc
     \/ pc' = (IF argc > 3 THEN "CreateDebugger" ELSE "ResumeThread") /\ apc' = TRUE
  /\ UNCHANGED <<argc, ret, open, pi2, debugger, child, path, tried, began>>

\* Not checked: without a debugger pi2 keeps what was on the stack.
CreateDebugger ==
  /\ Goto("CreateDebugger", "CloseDebuggerThread")
  /\ \/ /\ debugger' = TRUE /\ open' = open \cup {"debuggerProcess", "debuggerThread"}
        /\ pi2' = [hThread |-> "debuggerThread", hProcess |-> "debuggerProcess"]
     \/ /\ pi2' \in [hThread : Garbage, hProcess : Garbage]
        /\ UNCHANGED <<open, debugger>>
  /\ UNCHANGED <<argc, ret, childVars>>

CloseHandle(from, handle, to) ==
  /\ Goto(from, to) /\ open' = open \ {handle}
  /\ UNCHANGED <<argc, ret, pi2, debugger, childVars>>

Sleep ==
  /\ Goto("Sleep", "ResumeThread")
  /\ UNCHANGED <<argc, ret, open, pi2, debugger, childVars>>

Resumed == IF child = "suspended" THEN "running" ELSE child

ResumeThread ==
  /\ Goto("ResumeThread", "CloseThread")
  /\ child' = IF "thread" \in open THEN Resumed ELSE child
  /\ UNCHANGED <<argc, ret, open, pi2, debugger, path, apc, tried, began>>

(* Mutant of TerminateProcess: the error path only closes the handles. *)
LeaveProcess ==
  /\ Goto("TerminateProcess", "CloseThreadError")
  /\ UNCHANGED <<argc, ret, open, pi2, debugger, childVars>>

TerminateProcess ==
  /\ Goto("TerminateProcess", "CloseThreadError")
  /\ child' = IF "process" \in open THEN "dead" ELSE child
  /\ UNCHANGED <<argc, ret, open, pi2, debugger, path, apc, tried, began>>

End(from, code) ==
  /\ pc = from /\ Return(code)
  /\ UNCHANGED <<argc, open, pi2, debugger, childVars>>

MainStep ==
  \/ NotStarted \/ GetProcAddress \/ OpenFile
  \/ CreateFile("CreateOut", "out", "CreateErr")
  \/ CreateFile("CreateErr", "err", "CreateProcess")
  \/ CreateProcess \/ VirtualAllocEx \/ WriteProcessMemory \/ QueueUserAPC
  \/ CreateDebugger
  \/ CloseHandle("CloseDebuggerThread", pi2.hThread, "CloseDebuggerProcess")
  \/ CloseHandle("CloseDebuggerProcess", pi2.hProcess, "Sleep")
  \/ Sleep \/ ResumeThread
  \/ CloseHandle("CloseThread", "thread", "CloseProcess")
  \/ CloseHandle("CloseProcess", "process", "Done")
  \/ End("Done", 0)
  \/ TerminateProcess
  \/ CloseHandle("CloseThreadError", "thread", "CloseProcessError")
  \/ CloseHandle("CloseProcessError", "process", "Failed")
  \/ End("Failed", 1)

\* The injector is interrupted: Windows closes its handles.
Kill ==
  /\ pc \notin {"ended", "killed"} /\ pc' = "killed" /\ open' = {}
  /\ UNCHANGED <<argc, ret, pi2, debugger, childVars>>

\* The thread of the program: APCs first, its entry point when none is left.
DeliverApc ==
  /\ child = "running" /\ apc /\ apc' = FALSE /\ tried' = path
  /\ UNCHANGED <<mainVars, child, path, began>>

Begin ==
  /\ child = "running" /\ ~apc /\ ~began /\ began' = TRUE
  /\ UNCHANGED <<mainVars, child, path, apc, tried>>

Exit ==
  /\ child = "running" /\ child' = "dead"
  /\ UNCHANGED <<mainVars, path, apc, tried, began>>

\* The user of the debugger resumes the thread before the injector does, or
\* ends the program.
DebuggerActs ==
  /\ debugger /\ child \in {"suspended", "running"} /\ child' \in {Resumed, "dead"}
  /\ UNCHANGED <<mainVars, path, apc, tried, began>>

Next == MainStep \/ Kill \/ DeliverApc \/ Begin \/ Exit \/ DebuggerActs

Spec == Init /\ [][Next]_vars

-----------------------------------------------------------------------------
\* No instruction of the program runs before LoadLibraryA was called with the
\* whole path, whoever resumes the program and whatever fails before
\* (src/utils/dllinject.c:80, the APC is queued before the debugger starts).
LoadedFirst == began => tried = "whole"

ClosedThread == ~debugger /\ "thread" \in {pi2.hThread, pi2.hProcess}

\* What main() returns is what became of the program: after 1 there is none,
\* and it ran no instruction of its own; after 0 it was resumed.  The one
\* exception: the debugger did not start and the handle closed for it
\* (src/utils/dllinject.c:97) happened to be that of the suspended thread.
NoneStranded ==
  pc = "ended" =>
    \/ ret = 1 /\ child \in {"none", "dead"} /\ ~began
    \/ ret = 0 /\ (child \in {"running", "dead"} \/ ClosedThread)
=============================================================================
