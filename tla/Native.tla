------------------------------- MODULE Native -------------------------------
(***************************************************************************)
(* What the hooks of the call instructions do with the function that is    *)
(* about to be called: native() of src/src/native.c tells the thunks of    *)
(* the VB6 runtime from other code by their bytes and by the symbol they   *)
(* jump to, and x86dump() of src/src/x86dump.c disassembles the rest.      *)
(* Both name functions with symbol(), which returns a pointer into one     *)
(* static buffer: the steps of symbol() and of its callers are separate    *)
(* actions, and threads interleave between them.  A line of the log is one *)
(* step, as Report shows that report() is atomic.                          *)
(*                                                                         *)
(* Addresses are abstract.  Memory is a map of pages, an image has an      *)
(* export table, a function has the shape its first bytes show and the     *)
(* instructions that a linear sweep finds, and the buffer holds the path   *)
(* of an image and the name of one of its exports.  Nothing native() and   *)
(* x86dump() load through is tested first: a load from memory that is not  *)
(* there is an access violation and ends the program.                      *)
(***************************************************************************)
EXTENDS Naturals, Sequences, FiniteSets

CONSTANTS
  Threads,     (* threads of the traced program                      *)
  Functions,   (* functions the program calls                        *)
  Shape,       (* Shape[f]: which thunk the bytes of f look like     *)
  Via,         (* Via[f]: whether that thunk leads to a ff 25        *)
  Target,      (* Target[f]: where the ff 25 leads                   *)
  Strings,     (* Strings[f]: whether the names in a "dyn" are there *)
  Code,        (* Code[f]: the instructions from f on                *)
  Pages,       (* Pages[p]: "mz", "mapped" or "gap"                  *)
  PageOf,      (* PageOf[a]: the page of address a                   *)
  Exports,     (* Exports[p]: the export table of the image at p     *)
  TrueName,    (* TrueName[a]: the exported name of the code at a    *)
  Engine,      (* Engine[k]: the symbol a thunk of shape k leads to  *)
  None,        (* no name                                            *)
  Nowhere,     (* what is behind a pointer into memory not there     *)
  TooLong,     (* the names that do not fit into extra[256]          *)
  MaxCalls     (* bound: calls by one thread                         *)

Thunks == {"proc", "meth", "dyn"}

(* The instructions whose target x86dump() names, and those it stops at.   *)
(* It goes on behind a jump, and behind a byte that is no instruction,     *)
(* which diStorm returns as "db"; only prefixes in front of such a byte,   *)
(* or fifteen of them, make the decoding fail ("bad").                     *)
Named == {"call", "jmpimport", "movcall"}
Stops == {"ret", "jmpimport", "jmpreg"}
Ops == Named \cup Stops \cup {"other", "jump", "db", "bad"}

Addresses == DOMAIN PageOf

(* Code[f] lists what a sweep from f can reach: it goes up to the first    *)
(* instruction the sweep ends with, or to the end of the memory that can   *)
(* be read.  A function is "torn" when its memory ends before native() has *)
(* compared its bytes; a slot may hold a pointer to nowhere.               *)
ASSUME NativeAssumption ==
  /\ Functions # {}
  /\ Addresses # {} /\ Nowhere \notin Addresses
  /\ \A f \in Functions :
       /\ Shape[f] \in Thunks \cup {"import", "other", "torn"}
       /\ Target[f] \in Addresses \cup {Nowhere}
       /\ Code[f] \in Seq([op : Ops, to : Addresses \cup {Nowhere}])
       /\ \A i \in 1..Len(Code[f]) :
            Code[f][i].op \in Stops \cup {"bad"} => i = Len(Code[f])
  /\ MaxCalls \in Nat

(* The pages are numbered without a break, and the first is not mapped.    *)
ASSUME MemoryAssumption ==
  /\ DOMAIN Pages \subseteq Nat /\ 0 \in DOMAIN Pages
  /\ \A p \in DOMAIN Pages :
       /\ Pages[p] \in {"mz", "mapped", "gap"}
       /\ p # 0 => p - 1 \in DOMAIN Pages
  /\ \A a \in Addresses : PageOf[a] \in DOMAIN Pages
  /\ Pages[0] = "gap"

VARIABLES
  pc,          (* pc[t]: what thread t does next                     *)
  fn,          (* fn[t]: the function it is about to call            *)
  ins,         (* ins[t]: the instruction of the sweep, or 0         *)
  asked,       (* asked[t]: the address given to symbol()            *)
  page,        (* page[t]: the page _module_from_address looks at    *)
  ptr,         (* ptr[t]: whether symbol() returned a pointer        *)
  calls,       (* calls[t]: how many calls t has made                *)
  name,        (* the static buffer of symbol()                      *)
  log,         (* the lines logged                                   *)
  alive        (* FALSE after an access violation                    *)

vars == <<pc, fn, ins, asked, page, ptr, calls, name, log, alive>>

Blank == [image |-> None, export |-> None]

(* "(null)" fits. *)
ASSUME LengthAssumption == Blank \notin TooLong

Goto(t, from, to) ==
  /\ alive
  /\ pc[t] = from
  /\ pc' = [pc EXCEPT ![t] = to]

Log(t, kind, text) ==
  log' = Append(log,
    [by |-> t, kind |-> kind, fn |-> fn[t], ins |-> ins[t], text |-> text])

Init ==
  /\ pc = [t \in Threads |-> "idle"]
  /\ fn = [t \in Threads |-> CHOOSE f \in Functions : TRUE]
  /\ ins = [t \in Threads |-> 0]
  /\ asked = [t \in Threads |-> CHOOSE a \in Addresses : TRUE]
  /\ page = [t \in Threads |-> 0]
  /\ ptr = [t \in Threads |-> FALSE]
  /\ calls = [t \in Threads |-> 0]
  /\ name = Blank
  /\ log = <<>>
  /\ alive = TRUE

(* A call hook has logged "... fn 0x%x" and enters native(). *)
Enter(t, f) ==
  /\ Goto(t, "idle", "classify")
  /\ calls[t] < MaxCalls
  /\ calls' = [calls EXCEPT ![t] = @ + 1]
  /\ fn' = [fn EXCEPT ![t] = f]
  /\ ins' = [ins EXCEPT ![t] = 0]
  /\ UNCHANGED <<asked, page, ptr, name, log, alive>>

(* symbol(a) *)
Ask(t, a) ==
  /\ asked' = [asked EXCEPT ![t] = a]
  /\ page' = [page EXCEPT ![t] = PageOf[a]]

(* Mutant of Leads: is_jump_symbol() does not look for the ff 25. *)
LeadsAnyhow(f) == Shape[f] # "other"

(* The byte patterns of native() differ in their first byte, so at most    *)
(* one fits; is_jump_symbol() asks for the symbol behind a ff 25 only.     *)
Leads(f) == Shape[f] = "import" \/ (Shape[f] \in Thunks /\ Via[f])

Classify(t) ==
  /\ Shape[fn[t]] # "torn"
  /\ \/ /\ Leads(fn[t])
        /\ Target[fn[t]] # Nowhere
        /\ Goto(t, "classify", "walk")
        /\ Ask(t, Target[fn[t]])
        /\ UNCHANGED <<fn, ins, ptr, calls, name, log, alive>>
     \/ /\ ~Leads(fn[t])
        /\ Goto(t, "classify", "unknown")
        /\ UNCHANGED <<fn, ins, asked, page, ptr, calls, name, log, alive>>

(* An access violation, or the end of a process with an overwritten stack. *)
Fault(t, place) ==
  /\ alive
  /\ pc[t] = place
  /\ alive' = FALSE
  /\ UNCHANGED <<pc, fn, ins, asked, page, ptr, calls, name, log>>

(* The bytes of fn, the code a thunk leads to and the slot behind a ff 25  *)
(* are loaded untested.                                                    *)
ClassifyFaults(t) ==
  /\ Fault(t, "classify")
  /\ \/ Shape[fn[t]] = "torn"
     \/ Leads(fn[t]) /\ Target[fn[t]] = Nowhere

-----------------------------------------------------------------------------
(* symbol() *)

(* One turn of the loop of _module_from_address, which goes on at page     *)
(* next; the read of a page that is not mapped is an access violation.     *)
Turn(t, next) ==
  /\ alive
  /\ pc[t] = "walk"
  /\ \/ /\ Pages[page[t]] = "mz"
        /\ pc' = [pc EXCEPT ![t] = "path"]
        /\ UNCHANGED <<page, alive>>
     \/ /\ Pages[page[t]] = "mapped"
        /\ page' = [page EXCEPT ![t] = next]
        /\ UNCHANGED <<pc, alive>>
     \/ /\ Pages[page[t]] = "gap"
        /\ alive' = FALSE
        /\ UNCHANGED <<pc, page>>
  /\ UNCHANGED <<fn, ins, asked, ptr, calls, name, log>>

(* Mutant of Walk: the search goes up. *)
WalkUp(t) == Turn(t, page[t] + 1)

(* Mutant of Walk: addr -= 0x1000 is left out. *)
WalkStays(t) == Turn(t, page[t])

(* addr -= 0x1000 *)
Walk(t) == Turn(t, page[t] - 1)

(* GetModuleFileName(mod, name, sizeof(name)) *)
Path(t) ==
  /\ Goto(t, "path", "lookup")
  /\ name' = [image |-> page[t], export |-> None]
  /\ UNCHANGED <<fn, ins, asked, page, ptr, calls, log, alive>>

(* The names of export table e that belong to address a. *)
Matches(e, a) == {i \in DOMAIN e.names : e.functions[e.ordinals[i]] = a}

FirstName(e, a) ==
  e.names[CHOOSE i \in Matches(e, a) : \A j \in Matches(e, a) : i <= j]

(* Address a lies in the image that starts at page p.                      *)
LiesIn(a, p) ==
  /\ p <= PageOf[a]
  /\ Pages[p] = "mz"
  /\ \A q \in (p + 1)..PageOf[a] : Pages[q] = "mapped"

(* The name of an address is the first that its image exports it under;    *)
(* the engines of the runtime have one.                                    *)
ASSUME NameAssumption ==
  /\ \A a \in Addresses, p \in DOMAIN Pages :
       LiesIn(a, p) =>
         TrueName[a] = IF Exports[p] = None \/ Matches(Exports[p], a) = {}
                         THEN Blank
                         ELSE [image |-> p, export |-> FirstName(Exports[p], a)]
  /\ \A k \in Thunks : Engine[k] # Blank

(* An image need not have an export directory; symbol() does not test that *)
(* and reads the header of the image as if it were one.                    *)
NoDirectory(t) ==
  /\ alive
  /\ pc[t] = "lookup"
  /\ Exports[page[t]] = None
  /\ \/ /\ pc' = [pc EXCEPT ![t] = "answer"]
        /\ ptr' = [ptr EXCEPT ![t] = FALSE]
        /\ UNCHANGED alive
     \/ /\ alive' = FALSE
        /\ UNCHANGED <<pc, ptr>>
  /\ UNCHANGED <<fn, ins, asked, page, calls, name, log>>

(* The scan of the export table: '!' and the first name of the address are *)
(* put behind the path, whatever the buffer holds now.                     *)
Lookup(t) ==
  LET e == Exports[page[t]] IN
  /\ Goto(t, "lookup", "answer")
  /\ e # None
  /\ IF Matches(e, asked[t]) = {}
       THEN /\ ptr' = [ptr EXCEPT ![t] = FALSE]
            /\ UNCHANGED name
       ELSE /\ ptr' = [ptr EXCEPT ![t] = TRUE]
            /\ name' = [name EXCEPT !.export = FirstName(e, asked[t])]
  /\ UNCHANGED <<fn, ins, asked, page, calls, log, alive>>

(* What a caller reads through the pointer that symbol() returned. *)
Text(t) ==
  IF ptr[t] THEN name ELSE Blank

-----------------------------------------------------------------------------
(* The callers of symbol() *)

Answered(t, to) == ins[t] = 0 /\ Goto(t, "answer", to)

(* "Calling imported function.. %z" *)
Import(t) ==
  /\ Answered(t, "idle")
  /\ Shape[fn[t]] = "import"
  /\ Log(t, "import", Text(t))
  /\ UNCHANGED <<fn, ins, asked, page, ptr, calls, name, alive>>

(* The strcmp() of is_jump_symbol(). *)
Recognised(t) == ptr[t] /\ name = Engine[Shape[fn[t]]]

(* The line of the thunk; that of a dynamic function reads two strings.    *)
Thunk(t) ==
  /\ Answered(t, "idle")
  /\ Shape[fn[t]] \in Thunks
  /\ Recognised(t)
  /\ Shape[fn[t]] = "dyn" => Strings[fn[t]]
  /\ Log(t, Shape[fn[t]], Text(t))
  /\ UNCHANGED <<fn, ins, asked, page, ptr, calls, name, alive>>

ThunkFaults(t) ==
  /\ Fault(t, "answer")
  /\ ins[t] = 0
  /\ Shape[fn[t]] = "dyn"
  /\ Recognised(t)
  /\ ~Strings[fn[t]]

NoThunk(t) ==
  /\ Answered(t, "unknown")
  /\ Shape[fn[t]] \in Thunks
  /\ ~Recognised(t)
  /\ UNCHANGED <<fn, ins, asked, page, ptr, calls, name, log, alive>>

(* ".. unknown x86": native() returns -1. *)
Unknown(t) ==
  /\ Goto(t, "unknown", "dump")
  /\ Log(t, "unknown", Blank)
  /\ UNCHANGED <<fn, ins, asked, page, ptr, calls, name, alive>>

(* "Disassembling 0x%x: %z": the hook calls x86dump() for -1. *)
Dump(t) ==
  /\ Goto(t, "dump", "sweep")
  /\ ins' = [ins EXCEPT ![t] = 1]
  /\ Log(t, "head", Blank)
  /\ UNCHANGED <<fn, asked, page, ptr, calls, name, alive>>

Current(t) == Code[fn[t]][ins[t]]

(* The sweep looks at an instruction that is there. *)
Sweeps(t, to) ==
  /\ Goto(t, "sweep", to)
  /\ ins[t] \in DOMAIN Code[fn[t]]

(* "Disassembly failed" *)
Failed(t) ==
  /\ Sweeps(t, "idle")
  /\ Current(t).op = "bad"
  /\ Log(t, "failed", Blank)
  /\ UNCHANGED <<fn, ins, asked, page, ptr, calls, name, alive>>

(* The argument of sprintf(extra, "; 0x%p %s", fn, symbol(fn)).            *)
Extra(t) ==
  /\ Sweeps(t, "walk")
  /\ Current(t).op \in Named
  /\ Current(t).to # Nowhere
  /\ Ask(t, Current(t).to)
  /\ UNCHANGED <<fn, ins, ptr, calls, name, log, alive>>

(* The sweep has come to the end of the memory, or to a ff 25 whose slot   *)
(* is not there.                                                           *)
SweepFaults(t) ==
  /\ Fault(t, "sweep")
  /\ ins[t] \in DOMAIN Code[fn[t]] =>
       Current(t).op \in Named /\ Current(t).to = Nowhere

(* sprintf() writes behind extra[256]: the program may die of it.          *)
ExtraOverflows(t) ==
  /\ Fault(t, "answer")
  /\ ins[t] # 0
  /\ Text(t) \in TooLong

(* Mutant of AfterLine: a jump ends the dump too. *)
AfterLineJump(t) ==
  IF Current(t).op \in Stops \cup {"jump"}
    THEN pc' = [pc EXCEPT ![t] = "idle"] /\ UNCHANGED ins
    ELSE /\ pc' = [pc EXCEPT ![t] = "sweep"]
         /\ ins' = [ins EXCEPT ![t] = @ + 1]

(* The switch at the end of the loop of x86dump(), and addr += ins.size. *)
AfterLine(t) ==
  IF Current(t).op \in Stops
    THEN pc' = [pc EXCEPT ![t] = "idle"] /\ UNCHANGED ins
    ELSE /\ pc' = [pc EXCEPT ![t] = "sweep"]
         /\ ins' = [ins EXCEPT ![t] = @ + 1]

NamedLine(t) ==
  /\ alive
  /\ pc[t] = "answer"
  /\ ins[t] # 0
  /\ Log(t, "ins", Text(t))
  /\ AfterLine(t)
  /\ UNCHANGED <<fn, asked, page, ptr, calls, name, alive>>

PlainLine(t) ==
  /\ alive
  /\ pc[t] = "sweep"
  /\ ins[t] \in DOMAIN Code[fn[t]]
  /\ Current(t).op \notin Named \cup {"bad"}
  /\ Log(t, "ins", Blank)
  /\ AfterLine(t)
  /\ UNCHANGED <<fn, asked, page, ptr, calls, name, alive>>

Faults(t) ==
  ClassifyFaults(t) \/ ThunkFaults(t) \/ SweepFaults(t) \/ ExtraOverflows(t)

Step(t) ==
  \/ \E f \in Functions : Enter(t, f)
  \/ Classify(t)
  \/ Walk(t) \/ Path(t) \/ NoDirectory(t) \/ Lookup(t)
  \/ Import(t) \/ Thunk(t) \/ NoThunk(t)
  \/ Unknown(t) \/ Dump(t)
  \/ Failed(t) \/ Extra(t) \/ NamedLine(t) \/ PlainLine(t)
  \/ Faults(t)

Next == \E t \in Threads : Step(t)

Spec == Init /\ [][Next]_vars

(* Threads are scheduled fairly; a program need not call anything. *)
FairSpec ==
  /\ Spec
  /\ \A t \in Threads : WF_vars(pc[t] # "idle" /\ Step(t))

-----------------------------------------------------------------------------
(* The address a line of the log is about. *)
Callee(l) == IF l.ins = 0 THEN Target[l.fn] ELSE Code[l.fn][l.ins].to

HasName(l) ==
  \/ l.kind \in {"import"} \cup Thunks
  \/ l.kind = "ins" /\ Code[l.fn][l.ins].op \in Named

(* A line that names a function names the one that is called there, and    *)
(* none when the code called is not exported (native.c:38, x86dump.c:98).  *)
(* It takes one thread at a time between symbol() and the use of its       *)
(* result: the buffer is static.                                           *)
NamesOwnCallee ==
  \A i \in DOMAIN log : HasName(log[i]) => log[i].text = TrueName[Callee(log[i])]

IsThunk(f) ==
  /\ Shape[f] \in Thunks /\ Via[f] /\ Target[f] # Nowhere
  /\ TrueName[Target[f]] = Engine[Shape[f]]

(* native() recognises the thunks of the VB6 runtime and nothing else, and *)
(* what it does not recognise is disassembled (native.c:41-68).            *)
VerdictRight ==
  \A i \in DOMAIN log :
    /\ log[i].kind \in Thunks =>
         IsThunk(log[i].fn) /\ log[i].kind = Shape[log[i].fn]
    /\ log[i].kind = "unknown" =>
         Shape[log[i].fn] # "import" /\ ~IsThunk(log[i].fn)

(* The lines of thread t, and whether line j comes next after line i.      *)
Lines(t) == {i \in DOMAIN log : log[i].by = t}

Adjacent(t, i, j) == i < j /\ \A k \in Lines(t) : k <= i \/ j <= k

IsVerdict(l) == l.kind \in {"import", "unknown"} \cup Thunks

(* Line l is what a dump of f says of its instruction i. *)
IsDumpLine(l, f, i) ==
  /\ l.fn = f /\ l.ins = i /\ i \in DOMAIN Code[f]
  /\ l.kind = IF Code[f][i].op = "bad" THEN "failed" ELSE "ins"

(* Line l may come after line k in the log of a thread. *)
Follows(k, l) ==
  CASE k.kind = "unknown" -> l.kind = "head" /\ l.fn = k.fn
    [] k.kind = "head" -> IsDumpLine(l, k.fn, 1)
    [] k.kind = "ins" /\ Code[k.fn][k.ins].op \notin Stops ->
         IsDumpLine(l, k.fn, k.ins + 1)
    [] OTHER -> IsVerdict(l)

(* Nothing is left to say of a call after line l. *)
Ends(l) ==
  \/ l.kind \in {"import", "failed"} \cup Thunks
  \/ l.kind = "ins" /\ Code[l.fn][l.ins].op \in Stops

(* Every call gets one verdict; an unknown function is then dumped from    *)
(* its first instruction to the first return or jump through a slot or a   *)
(* register, past other jumps and bytes that are no instructions, each     *)
(* instruction once and in order, and the decoding is said to have failed  *)
(* where it does and nowhere else, whatever other threads do to the buffer *)
(* of names (insns.c:55-57, x86dump.c:84-136).                             *)
DumpComplete ==
  \A t \in Threads :
    /\ \A j \in Lines(t) :
         /\ \A i \in Lines(t) : Adjacent(t, i, j) => Follows(log[i], log[j])
         /\ (\A i \in Lines(t) : j <= i) => IsVerdict(log[j])
    /\ pc[t] = "idle" =>
         /\ Cardinality({i \in Lines(t) : IsVerdict(log[i])}) = calls[t]
         /\ \A i \in Lines(t) : (\A j \in Lines(t) : j <= i) => Ends(log[i])

(* Address a lies in an image that exports something.                      *)
InImage(a) == \E p \in DOMAIN Pages : LiesIn(a, p) /\ Exports[p] # None

(* All that a sweep from f names lies in images and has a name that fits,  *)
(* and the sweep ends before the memory does.                              *)
SafeToDump(f) ==
  /\ Code[f] # <<>> /\ Code[f][Len(Code[f])].op \in Stops \cup {"bad"}
  /\ \A i \in DOMAIN Code[f] : Code[f][i].op \in Named =>
       /\ Code[f][i].to # Nowhere /\ InImage(Code[f][i].to)
       /\ TrueName[Code[f][i].to] \notin TooLong

(* Nothing about f can bring the program down: what native() loads is      *)
(* there, what it names lies in an image, and so does what a dump names.   *)
Sound(f) ==
  /\ Shape[f] # "torn"
  /\ Leads(f) => Target[f] # Nowhere /\ InImage(Target[f])
  /\ Shape[f] = "dyn" => Strings[f]
  /\ Shape[f] # "import" => SafeToDump(f)

(* The tracer brings the program down only in a call of a function that is *)
(* not sound, or by a name too long for extra[256] in the buffer: a call   *)
(* of a sound function survives native.c:36-63 and x86dump.c:26-136.       *)
(* _module_from_address does not stop at the NULL that x86dump.c:40 tests  *)
(* for.                                                                    *)
FaultsExplained ==
  \/ alive
  \/ \E t \in Threads : pc[t] # "idle" /\ (~Sound(fn[t]) \/ name \in TooLong)

(* A call hook returns, or has crashed the program. *)
CallsEnd ==
  \A t \in Threads : pc[t] # "idle" ~> pc[t] = "idle" \/ ~alive
=============================================================================
