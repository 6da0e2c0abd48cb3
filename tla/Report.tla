------------------------------- MODULE Report -------------------------------
(***************************************************************************)
(* The logger of src/src/report.c: report_init() opens the log file once,  *)
(* report() formats one line and appends it to the file.  report() is      *)
(* entered by every thread that runs a hooked instruction, so each of its  *)
(* steps is an action here:                                                *)
(*                                                                         *)
(*   SizePass     _report_sprintf(NULL, ...)   measures the line           *)
(*   FillPass     _report_sprintf(buf, ...)    formats it into char[len+1] *)
(*   TestInit     if(init == 0)                                            *)
(*   InitSection  InitializeCriticalSection(&cs)                           *)
(*   SetInit      init = 1                                                 *)
(*   Enter        EnterCriticalSection(&cs)                                *)
(*   Write        fwrite(buf, 1, len, g_fp)                                *)
(*   Flush        fflush(g_fp)                                             *)
(*   Leave        LeaveCriticalSection(&cs)                                *)
(*                                                                         *)
(* The arguments of %z, %b, %v are pointers: both passes read the memory   *)
(* cell the argument points to.  A text is a sequence of characters; the   *)
(* values %x, %u, %d, which are copied on the call, are part of the text.  *)
(***************************************************************************)
EXTENDS Naturals, Sequences

CONSTANTS
  Threads,     (* threads of the traced process                      *)
  Main,        (* the thread that runs DllMain                       *)
  NoThread,    (* owner of a free critical section                   *)
  Cells,       (* memory cells the arguments of report() point to    *)
  Chars,       (* the bytes of a line                                *)
  Texts,       (* what a cell may hold                               *)
  NewLine,     (* the character '\n' that ends a line                *)
  Junk,        (* an uninitialised byte of buf                       *)
  StreamSize,  (* bytes the C library buffers before it writes them  *)
  MaxCalls     (* bound: calls of report() by one thread             *)

ASSUME ReportAssumption ==
  /\ Main \in Threads
  /\ NoThread \notin Threads
  /\ Cells # {}
  /\ NewLine \in Chars
  /\ Texts \subseteq Seq(Chars)
  /\ StreamSize \in Nat
  /\ MaxCalls \in Nat

VARIABLES
  g_fp,        (* static FILE *g_fp: "unset", "open" or "null"       *)
  cs_init,     (* static int init                                    *)
  cs,          (* the section: "raw", "ready", or "broken" by a      *)
               (* LeaveCriticalSection of a thread not owning it     *)
  owner,       (* the thread that owns the section                   *)
  rpc,         (* rpc[t]: the next step of t in report()             *)
  arg,         (* arg[t]: the cell the argument of t points to       *)
  len,         (* len[t]: what the first pass counted                *)
  buf,         (* buf[t]: what the second pass wrote                 *)
  calls,       (* calls[t]: number of calls of report() by t         *)
  stream,      (* lines in the buffer of the C library               *)
  spilled,     (* TRUE while the system has a part of those lines    *)
  disk,        (* lines the operating system has                     *)
  mem,         (* mem[c]: the text in cell c                         *)
  alive        (* FALSE once the process has been killed             *)

logVars  == <<g_fp, stream, spilled, disk>>
lockVars == <<cs_init, cs, owner>>
callVars == <<arg, len, buf, calls>>
reportVars == <<logVars, lockVars, rpc, callVars, mem, alive>>

Steps == {"idle", "size", "fill", "test", "initcs", "setinit", "enter",
          "write", "flush", "leave", "fault"}

InSection == {"write", "flush", "leave", "fault"}

(* The text of a line: the rendered argument and the '\n' of line 265. *)
Rendered(c) == Append(mem[c], NewLine)

(* The n bytes of buf that fwrite() copies when s was formatted into it. *)
Fit(s, n) == [i \in 1..n |-> IF i <= Len(s) THEN s[i] ELSE Junk]

(* Mutant of LineOf: fwrite() is given one byte too few. *)
LineCutShort(t) ==
  [by |-> t, call |-> calls[t], text |-> Fit(buf[t], len[t] - 1)]

LineOf(t) == [by |-> t, call |-> calls[t], text |-> Fit(buf[t], len[t])]

Goto(t, from, to) ==
  /\ alive
  /\ rpc[t] = from
  /\ rpc' = [rpc EXCEPT ![t] = to]

ReportInit ==
  /\ g_fp = "unset"
  /\ cs_init = 0
  /\ cs = "raw"
  /\ owner = NoThread
  /\ rpc = [t \in Threads |-> "idle"]
  /\ arg = [t \in Threads |-> CHOOSE c \in Cells : TRUE]
  /\ len = [t \in Threads |-> 0]
  /\ buf = [t \in Threads |-> <<>>]
  /\ calls = [t \in Threads |-> 0]
  /\ stream = <<>>
  /\ spilled = FALSE
  /\ disk = <<>>
  /\ mem \in [Cells -> Texts]
  /\ alive = TRUE

-----------------------------------------------------------------------------
(* report_init(): fopen() succeeds or returns NULL. *)
OpenLog ==
  /\ alive
  /\ g_fp = "unset"
  /\ g_fp' \in {"open", "null"}
  /\ UNCHANGED <<stream, spilled, disk, lockVars, rpc, callVars, mem, alive>>

(* A thread enters report() with an argument that points to cell c. *)
Call(t, c) ==
  /\ Goto(t, "idle", "size")
  /\ calls[t] < MaxCalls
  /\ calls' = [calls EXCEPT ![t] = @ + 1]
  /\ arg' = [arg EXCEPT ![t] = c]
  /\ UNCHANGED <<logVars, lockVars, len, buf, mem, alive>>

(* The test of line 292 never fails: a line has at least its newline. *)
SizePass(t) ==
  /\ Goto(t, "size", "fill")
  /\ len' = [len EXCEPT ![t] = Len(Rendered(arg[t]))]
  /\ UNCHANGED <<logVars, lockVars, arg, buf, calls, mem, alive>>

(* Mutant of FillPass: the newline is counted and not stored. *)
FillPassNoNewLine(t) ==
  /\ Goto(t, "fill", "test")
  /\ buf' = [buf EXCEPT ![t] = mem[arg[t]]]
  /\ UNCHANGED <<logVars, lockVars, arg, len, calls, mem, alive>>

FillPass(t) ==
  /\ Goto(t, "fill", "test")
  /\ buf' = [buf EXCEPT ![t] = Rendered(arg[t])]
  /\ UNCHANGED <<logVars, lockVars, arg, len, calls, mem, alive>>

TestInit(t) ==
  /\ Goto(t, "test", IF cs_init = 0 THEN "initcs" ELSE "enter")
  /\ UNCHANGED <<logVars, lockVars, callVars, mem, alive>>

(* Initialising a section that is in use forgets who owns it. *)
InitSection(t) ==
  /\ Goto(t, "initcs", "setinit")
  /\ cs' = "ready"
  /\ owner' = NoThread
  /\ UNCHANGED <<logVars, cs_init, callVars, mem, alive>>

SetInit(t) ==
  /\ Goto(t, "setinit", "enter")
  /\ cs_init' = 1
  /\ UNCHANGED <<logVars, cs, owner, callVars, mem, alive>>

(* Windows lets the owner in again; report() never calls itself, so a      *)
(* thread that gets here is not the owner (SectionSound).                  *)
Enter(t) ==
  /\ Goto(t, "enter", "write")
  /\ cs = "ready"
  /\ owner = NoThread
  /\ owner' = t
  /\ UNCHANGED <<logVars, cs_init, cs, callVars, mem, alive>>

(* Mutant of Write: the section is left without the flush. *)
WriteUnflushed(t) ==
  /\ Goto(t, "write", "leave")
  /\ stream' = Append(stream, LineOf(t))
  /\ spilled' = (spilled \/ len[t] > StreamSize)
  /\ UNCHANGED <<g_fp, disk, lockVars, callVars, mem, alive>>

(* fwrite() on the NULL that a failed fopen() left behind does not return. *)
(* A line longer than the buffer is handed to the system piece by piece.   *)
Write(t) ==
  /\ Goto(t, "write", IF g_fp = "open" THEN "flush" ELSE "fault")
  /\ IF g_fp = "open"
       THEN /\ stream' = Append(stream, LineOf(t))
            /\ spilled' = (spilled \/ len[t] > StreamSize)
       ELSE UNCHANGED <<stream, spilled>>
  /\ UNCHANGED <<g_fp, disk, lockVars, callVars, mem, alive>>

(* Mutant of FlushStream: what was written stays in the stream. *)
FlushStreamKeeps ==
  /\ disk' = disk \o stream
  /\ UNCHANGED <<stream, spilled>>

FlushStream ==
  /\ disk' = disk \o stream
  /\ stream' = <<>>
  /\ spilled' = FALSE

(* Mutant of Flush: the line is left to a later flush. *)
FlushLater(t) ==
  /\ Goto(t, "flush", "leave")
  /\ UNCHANGED <<logVars, lockVars, callVars, mem, alive>>

Flush(t) ==
  /\ Goto(t, "flush", "leave")
  /\ FlushStream
  /\ UNCHANGED <<g_fp, lockVars, callVars, mem, alive>>

(* Mutant of Leave: report() returns and keeps the section. *)
LeaveHeld(t) ==
  /\ Goto(t, "leave", "idle")
  /\ UNCHANGED <<logVars, lockVars, callVars, mem, alive>>

Leave(t) ==
  /\ Goto(t, "leave", "idle")
  /\ cs' = IF owner = t THEN cs ELSE "broken"
  /\ owner' = NoThread
  /\ UNCHANGED <<logVars, cs_init, callVars, mem, alive>>

ReportStep(t) ==
  \/ SizePass(t)
  \/ FillPass(t)
  \/ TestInit(t)
  \/ InitSection(t)
  \/ SetInit(t)
  \/ Enter(t)
  \/ Write(t)
  \/ Flush(t)
  \/ Leave(t)

(* exit() flushes every stream before it ends the process. *)
FlushAll ==
  /\ alive
  /\ FlushStream
  /\ UNCHANGED <<g_fp, lockVars, rpc, callVars, mem, alive>>

(* The process ends, by itself or by force: the system keeps disk, and of  *)
(* the lines in stream at most the part that was spilled.                  *)
Kill ==
  /\ alive
  /\ alive' = FALSE
  /\ UNCHANGED <<logVars, lockVars, rpc, callVars, mem>>

-----------------------------------------------------------------------------
(* Mutant of MayCall: hooks go live before the first line is logged. *)
MayCallEarly(t) == g_fp # "unset"

(***************************************************************************)
(* What the callers of report() have to keep for it to be a log.  Nothing  *)
(* in report.c enforces either rule.                                       *)
(*                                                                         *)
(*   MayCall  the thread of DllMain logs first: everybody else waits until *)
(*            its first line is in the file (main.c:70 before main.c:74)   *)
(*   Stable   no one changes the memory behind an argument between the     *)
(*            two passes.  The tracer itself breaks this one: symbol()     *)
(*            hands the same static buffer to every thread (x86dump.c:37)  *)
(***************************************************************************)
MayCall(t) == IF t = Main THEN g_fp # "unset" ELSE disk # <<>>

Stable(c) == \A t \in Threads : rpc[t] \in {"size", "fill"} => arg[t] # c

(* The traced program goes on changing its own memory. *)
Mutate(c, x) ==
  /\ alive
  /\ mem' = [mem EXCEPT ![c] = x]
  /\ UNCHANGED <<logVars, lockVars, rpc, callVars, alive>>

(* The behaviour is over when the process is, when the thread of DllMain   *)
(* faulted, or when every thread has used up its calls.                    *)
Finished ==
  \/ ~alive
  \/ rpc[Main] = "fault"
  \/ \A t \in Threads : rpc[t] = "idle" /\ calls[t] = MaxCalls

Terminating == Finished /\ UNCHANGED reportVars

ReportNext ==
  \/ OpenLog
  \/ \E t \in Threads :
       \/ \E c \in Cells : MayCall(t) /\ Call(t, c)
       \/ ReportStep(t)
  \/ \E c \in Cells, x \in Texts : Stable(c) /\ Mutate(c, x)
  \/ FlushAll
  \/ Kill
  \/ Terminating

ReportSpec == ReportInit /\ [][ReportNext]_reportVars

(* The same without the rule Stable.  A text that grows between the passes *)
(* is written behind the end of buf, on the stack of its thread: the       *)
(* process may die (Kill) or fwrite() gets the first len bytes; a text     *)
(* that shrinks leaves bytes that were never written (Fit).                *)
RacyNext == ReportNext \/ \E c \in Cells, x \in Texts : Mutate(c, x)

RacySpec == ReportInit /\ [][RacyNext]_reportVars

(* A thread inside report() is scheduled again and again. *)
ReportFairSpec == ReportSpec /\ \A t \in Threads : WF_reportVars(ReportStep(t))

-----------------------------------------------------------------------------
(***************************************************************************)
(* Properties.                                                             *)
(***************************************************************************)
LineTexts == {Append(x, NewLine) : x \in Texts}

(* Every variable has its type; len is 0 or the length of a line, the      *)
(* newline included.                                                       *)
TypeOK ==
  /\ g_fp \in {"unset", "open", "null"}
  /\ cs_init \in {0, 1}
  /\ cs \in {"raw", "ready", "broken"}
  /\ owner \in Threads \cup {NoThread}
  /\ rpc \in [Threads -> Steps]
  /\ arg \in [Threads -> Cells]
  /\ len \in [Threads -> {0} \cup {Len(x) : x \in LineTexts}]
  /\ buf \in [Threads -> {<<>>} \cup LineTexts]
  /\ calls \in [Threads -> 0..MaxCalls]
  /\ spilled \in BOOLEAN
  /\ mem \in [Cells -> Texts]
  /\ alive \in BOOLEAN

(* At most one thread is between EnterCriticalSection and                  *)
(* LeaveCriticalSection (report.c:303-306), although the section is        *)
(* initialised on first use by an unsynchronised test of init.             *)
MutualExclusion ==
  \A t, u \in Threads :
    rpc[t] \in InSection /\ rpc[u] \in InSection => t = u

(* The section is owned by the thread inside it, and no thread ever leaves *)
(* a section it does not own: the lazy initialisation of report.c:298-301  *)
(* never hits a section that is in use.                                    *)
SectionSound ==
  /\ cs # "broken"
  /\ \A t \in Threads : rpc[t] \in InSection <=> owner = t

(* The line of the latest call of t is with the operating system. *)
Committed(t) ==
  \/ rpc[t] \in {"idle", "leave"}
  \/ rpc[t] = "flush" /\ stream = <<>>

CommittedCalls(t) == IF Committed(t) THEN calls[t] ELSE calls[t] - 1

(* The line of every call that has returned is with the operating system,  *)
(* so it survives the death of the process (report.c:304-305).             *)
DurableOnReturn ==
  \A t \in Threads : \A n \in 1..CommittedCalls(t) :
    \E i \in DOMAIN disk : disk[i].by = t /\ disk[i].call = n

(* The lines of one thread are in the file in the order of its calls, each *)
(* once, and no line is there before fwrite and fflush of its call.        *)
InCallOrder ==
  /\ \A i, j \in DOMAIN disk :
       i < j /\ disk[i].by = disk[j].by => disk[i].call < disk[j].call
  /\ \A i \in DOMAIN disk : disk[i].call \in 1..CommittedCalls(disk[i].by)

(* Every line of the file is a whole line: a text and its newline, without *)
(* a byte that the second pass did not write and with every byte it did,   *)
(* although the two passes of report.c:291 and 294 read the argument       *)
(* twice.                                                                  *)
WholeLines == \A i \in DOMAIN disk : disk[i].text \in LineTexts

(* A process that dies leaves at most one incomplete line, and it is the   *)
(* last one of the file: bytes of an unfinished line reach the system only *)
(* while its writer is inside the section and no other line is buffered.   *)
TornTailOnly ==
  spilled => /\ Len(stream) = 1
             /\ \E t \in Threads : rpc[t] = "flush" /\ owner = t

(* report() implements the atomic, durable log of AtomicLog: the line of a *)
(* call takes effect when fflush hands it to the operating system.         *)
AbsStatus(t) ==
  CASE rpc[t] = "idle"                   -> "idle"
    [] rpc[t] # "idle" /\ Committed(t)   -> "committed"
    [] rpc[t] # "idle" /\ ~Committed(t)  -> "pending"

AbsText(t) ==
  IF rpc[t] \in {"size", "fill"} THEN Rendered(arg[t]) ELSE buf[t]

Abs == INSTANCE AtomicLog WITH
  Lines  <- LineTexts,
  log    <- disk,
  text   <- [t \in Threads |-> AbsText(t)],
  status <- [t \in Threads |-> AbsStatus(t)]

ImplementsAtomicLog == Abs!Spec

(* A call of report() returns, unless the process is killed or the log     *)
(* could not be opened: no thread waits for the section forever.           *)
CallsReturn ==
  \A t \in Threads :
    rpc[t] = "size" ~> rpc[t] = "idle" \/ ~alive \/ rpc[Main] = "fault"
=============================================================================
