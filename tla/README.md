# VB6 Tracer: a TLA+ model of the tracer

VB6 Tracer is a DLL that is loaded into a Visual Basic 6 program. It replaces
entries of the dispatch tables of the P-code interpreter (msvbvm60.dll) by
stubs; a stub logs the instruction and then jumps to the original handler.
The hook of a call instruction also disassembles the x86 code that is called,
with the diStorm library the repository bundles. This directory holds TLA+
modules that model it, the TLC configurations that check small instances, and
proofs that TLAPS checks for instances of any size.

Paths below are relative to the repository; `report.c:304` is
`src/report.c`, line 304; `decoder.c`, `prefix.c`, `operands.c`,
`instructions.c`, `insts.c`, `distorm.c` and `distorm.h` are those of
`distorm3.2-package/`.

## The system

| Component | Code | State it keeps | Operations |
|---|---|---|---|
| Log writer | `src/report.c` | `g_fp`, the critical section `cs` and its flag `init`, per call `len` and `buf` | `report_init`, `report`, `hexdump` |
| Hook installer | `src/hook.c` | `g_tables`, `g_table_orig`, `g_hook_data`, and the interpreter's own tables | `vb6_hook_init`, `vb6_hook_ins`, `vb6_hook_generic_table00` |
| DllMain | `src/main.c`, `vb6_set_hooks` in `src/insns.c` | `g_vb6`, its place in the attach sequence | `DllMain`, `notify_cuckoo`, `_generic_pre` |
| Pre-hooks | `src/insns.c` | none | one function per hooked mnemonic |
| Target classifier | `src/native.c`, `symbol` in `src/x86dump.c` | one static name buffer | `native`, `symbol` |
| x86 dump | `src/x86dump.c` | the address it has come to | `x86dump` |
| P-code tables and disassembler | `src/vb6_tables.c`, `src/disasm.c` | constant data | `vb6_disasm` |
| Text conversion | `src/report.c:26-260` | `out`, the count of bytes | `utf8_encode`, `_report_ascii`, `_report_unicode`, `_report_variant`, `_report_sprintf` |
| Hexdump | `src/report.c:310-355` | the row buffer, the offset | `hexdump` |
| Injector | `utils/dllinject.c` | the suspended child and its handles | `main` |
| distorm3 | `distorm3.2-package/` | per call: the position, the entries; the instruction database | `distorm_decompose`, `distorm_decode`, `decode_internal`, `distorm_format` |
| Debugger launcher | `src/misc.c` | none | `spawn_debugger`, called by nothing |

How they interact:

* The injector starts the program suspended, queues `LoadLibraryA` as an APC
  and resumes it. `DllMain` then runs in the first thread of the program.
* `DllMain` opens the log (main.c:66), waits for the Cuckoo pipe (67), loads
  the interpreter (69), logs its first line (70), finds the tables and fills
  the stubs with int3 (72), and installs the hooks (73-74).
* The threads of the interpreter share the tables with the installer: they
  read an entry and jump to it, with no lock. A stub calls its pre-hook, the
  pre-hook calls `report()`, the stub jumps to the saved handler.
* All threads share `report()`: one stream, one critical section.
* The hook of a call asks `native()` what is called; when that does not know,
  `x86dump()` disassembles the code, with one call of `distorm_decode` and one
  line per instruction, and names call targets by `symbol()`. `distorm_decode`
  runs `decode_internal` with the feature `DF_MAXIMUM_ADDR32` and an array of one
  entry, and lets `distorm_format` put the text over each entry.

What is hard about it:

* **Concurrency.** `report()` is entered by every thread, and initialises its
  critical section lazily with an unsynchronised test (report.c:298). Tables
  and stubs are written while other threads may be executing through them.
* **Ordering.** The lazy initialisation is safe only because `DllMain` logs a
  line before it makes any hook live. Saved handlers must be copied before
  the first redirection, a stub finished before the table refers to it.
* **Failure.** The traced program may die at any instruction. The log must then
  hold everything up to that instruction, in whole lines.
* **Stale reads.** `report()` reads its arguments twice: to size the buffer and
  to fill it. `symbol()` hands out one static buffer.
* **Loads that nothing tests.** `native()`, `symbol()` and `x86dump()` follow
  pointers found in the code that is called, and read on behind it.
* **Machine code.** A stub runs between two instructions of the interpreter and
  may disturb no register and no word of the stack it needs.
* **Counting by hand.** The disassembler moves a position and a signed length
  side by side at some forty places, and trusts a generated database.

The full list of hazards, with their lines and the properties that cover them,
is in `PROJECT.json`.

## The modules

| Module | Models |
|---|---|
| `AtomicLog` | What `report()` promises: a call appends one whole line, at once and durably, between its call and its return. |
| `Report` | `report_init` and `report`, one action per step that another thread can see. |
| `ReportProofs` | The theorems about `Report`. |
| `HookTable` | The memory of `hook.c`: tables, saved handlers, stubs, and the operations on them. |
| `Tracer` | `DllMain`, the interpreter's threads, the pre-hooks, composed with `Report` and `HookTable`. |
| `TracerProofs` | The theorems about `Tracer`: it keeps the rules of `report()`; tables and stubs; the trace. |
| `HookStub` | The machine code of one stub, executed instruction by instruction. |
| `HookStubProofs` | Arguments, registers and stack of the stub, for words of any width. |
| `Native` | `native()`, `symbol()` and the sweep of `x86dump()`, called by several threads. |
| `NativeProofs` | Names, verdicts, dumps and faults of `Native`. |
| `Format` | One call of `report()`: its format and arguments, printed in two passes. |
| `Hexdump` | `hexdump()` on top of `Format`. |
| `FormatProofs` | The theorems about `Format` and `Hexdump`. |
| `PcodeTables` | The six opcode tables, as data. |
| `Pcode` | Everybody who reads the tables: the installer, the pre-hooks, the generic hook, `vb6_disasm`. |
| `PcodeProofs` | The theorems about `Pcode`. |
| `X86Tables` | The instruction database of `insts.c`, as data. |
| `X86Info` | The rows of the database and the nodes of its trie. |
| `X86Prefix` | The prefixes in front of an instruction (`prefix.c`). |
| `X86Lookup` | From the bytes to the row of the database (`instructions.c`). |
| `X86Operands` | The operands of every type (`operands.c`). |
| `X86Decoder` | The loop of `decode_internal` and `decode_inst` (`decoder.c`). |
| `X86Text` | The lengths of the texts of an instruction (`distorm_format`). |
| `X86Trie` | The walk of the whole database. |
| `X86Properties` | What the disassembler promises. |
| `X86Proofs` | The theorems about the loop of `X86Decoder`. |
| `Inject` | `main()` of `dllinject.c`, next to the program, a debugger and the death of the injector. |
| `InjectProofs` | The theorems about `Inject`. |
| `MC...` | The small instances TLC checks. `MCX86Comments` has only the calls of the run `x86_segment`. |

`Tracer` EXTENDS `Report` and `HookTable`, so that `report()` inside a stub is
the `report()` of `Report`, step by step. `Report` says under which rules it is
correct (`MayCall`, `Stable`). `Tracer` is shown to follow the first one
(`ImplementsReport`), and both where `symbol()` leaves its buffer alone while another
thread prints it (`UsesReport`). `Report` in turn implements `AtomicLog`
(`ImplementsAtomicLog`).

The other modules each open up what the two above take for granted:

* `Tracer` has a stub that calls its pre-hook and then is at the handler;
  `HookStub` executes its bytes.
* `Tracer` has `Early = {}` when the injector loads the DLL; `Inject` shows that
  no instruction of the program runs before (`LoadedFirst`).
* `Tracer` has tables of four entries with arbitrary names; `Pcode` has the
  shipped ones.
* `Report` has texts of known length, written by two passes that agree;
  `Format` has the passes.
* `Tracer` has a number of lines for the target of a call; `Native` has the steps
  that make them, and `X86Decoder` what the sweep of `Native` gets from the bytes.

### Report

| Action | Code |
|---|---|
| `OpenLog` | `fopen` in `report_init`, which may fail (report.c:271) |
| `Call`, `SizePass`, `FillPass` | the call, the two runs of `_report_sprintf` (291, 294) |
| `TestInit`, `InitSection`, `SetInit` | the lazy initialisation (298, 299, 300), each a step of its own |
| `Enter`, `Write`, `Flush`, `Leave` | 303, 304, 305, 306 |
| `FlushAll` | the flush that `exit()` makes (insns.c:233) |
| `Kill` | the process ends, by itself or by force |
| `Mutate` | the traced program changes its own memory, or `symbol()` its buffer |

An argument of `%z`, `%b`, `%v` is a pointer, so a call carries a cell of memory
and both passes read the cell. Numbers are copied at the call and belong to
the text. The variadic `args` is used for two passes; on the i386 target of
the Makefile `va_list` is passed by value, so the second pass starts over.

The C library is modelled as MSVCRT works: `fwrite` appends to a stream, one
line at a time because the section is held; a line longer than the buffer
(`StreamSize`) reaches the system in pieces, which `spilled` records; `fflush`
hands over the rest. A thread that calls `fwrite` with a NULL stream faults and
never leaves the section.

`MayCall` and `Stable` are the assumptions of `report()` about its callers.
Nothing in report.c enforces them. `MayCall`: the thread of `DllMain` calls
once `report_init` has returned, everybody else when the first line is in the
file. `Stable`: no one writes to the memory behind an argument while a call is
between its two passes.

`ReportSpec` has both rules; `RacySpec` has only `MayCall`, and a text may change at
any moment. What does not depend on the text of a line (the section, durability,
order, the torn tail) is proved of `RacySpec`. `WholeLines` and the refinement of
`AtomicLog` need `Stable`, so they say nothing of the case that the text does
change: then `SizePass` and `FillPass` see different texts, `fwrite` is given the
length of the first, and `Fit` fills up with bytes that were never written. A text
that grew has been written behind the end of `buf`, on the stack of the thread;
of that only two outcomes are modelled, the process dies or goes on.

`Tracer` keeps `MayCall`. `Stable` is, for the string literals and the operands on
the evaluation stack of the thread, an assumption about the traced program. For
the name `symbol()` returns, the tracer itself breaks it: `Tracer` writes that
buffer (`AskSymbol`), and what needs `Stable` is claimed under `StableStep` only.

### HookTable

A slot is one entry of one table. `lut[s]` is where the interpreter jumps for
it: the handler of a slot or the stub of a slot. `saved` is `g_table_orig`,
`stub` is `g_hook_data`. A stub is int3, partially written, or ready with a
pre-hook and a target. `Matches(h, s)` is the comparison of mnemonics, where
h = 0 stands for `vb6_hook_generic_table00`. Table k is found through the code
that the entry of its lead byte points to, as the scan of hook.c:78 does; if a
stub were there already, the scan would not find a table.

### Tracer

The attach sequence is `lpc`; each action is a step of `DllMain` another thread
can observe: `OpenReport`, `NotifyCuckoo`, `LoadRuntime`, `LogBanner`,
`HookInit`, `LocateTable`, then for every pass `LogInstalling`, and for every
entry `Skip` or `StartStub`, `FinishStub`, `RedirectSlot`; `EndPass`,
`Attached`; or `LogMissing`, `ExitFlush`, `ExitProcess`. A thread of the
interpreter is `vpc`: `Fetch` dispatches through the table, `CallPreHook` logs,
`LeaveStub` jumps to the saved handler, `SecondByte` dispatches again behind a
lead byte, `Execute` runs the handler. A step of `DllMain` that follows a `report()`
waits until that has returned.

The hooks in `Inspect` go on between `CallPreHook` and `LeaveStub`, unless the target
is NULL. `AskSymbol` is `symbol()`: it leaves some text of `Symbols` in the
buffer `Callee`, which all threads share. `CallNative` is the line of `native()`: it
prints that buffer for an import, and a text of its own (`Dumped`) for everything
else. Unknown code goes to `x86dump()`, whose first line is `BeginDump` and each
further one `DumpLine`, with an `AskSymbol` before those that name a target. That name
is printed from a local buffer, so it is `Dumped` too. After `MaxLines` lines about
its target a thread ends its dump; a dump may also end before.

`Modes` selects which of the two lines main.c:73-74 are compiled in: the
`generic` and the `specific` DLL of the repository's README. `Early` is the set
of threads that run before `DllMain` has returned. Under `dllinject` there are
none; the runs with one mode make every other thread `Early` all the same, so
that what they show also holds when the DLL is loaded into a running program.
With both modes the second pass rewrites stubs that are live, and `Early` has to be
empty (`ModeAssumption`).

`Prints` gives what each pre-hook prints, which is not always its mnemonic:
`_pre_ImpAdCallFPR4` prints `ImpAdCallI2` (insns.c:54), `_pre_ConcatVar` prints
`VarCat` (48), `_pre_FStStrCopy` prints `FStSTrCopy` (162). The model follows
the code.

`ran` and `since` are history variables: what each call of `report()` was
about, and the number of the next call when the thread fetched its instruction.

### HookStub

A stub is `SpecificCode` or `GenericCode`: the instructions the two writers of
`hook.c` store (hook.c:104-132 and 164-193), each with its offset, size and
operand, the displacements computed by `Displacement`. `Pushad`, `Lea`, `PushReg`,
`Call`, `Add`, `Popad`, `Jmp` execute the instruction at `eip`; `PreHook` is a
cdecl function that does whatever such a function may: it overwrites eax, ecx,
edx and the stack up to the end of its own arguments, and returns. `entry` and
`before` are history variables: registers and stack at the jump to the stub.

### Native

A thread enters with a function; its first bytes have a `Shape`, `Via` says whether
a thunk leads to a `ff 25` and `Target` where that leads; a linear sweep from the
function finds the instructions `Code`. `Classify` is the test of the bytes in
`native()`; `Walk`, `Path`, `NoDirectory`, `Lookup` are the steps of `symbol()`, which
all threads run on one buffer `name`; `Import`, `Thunk`, `NoThunk`, `Unknown` are what
`native()` makes of the answer, `Dump`, `Failed`, `Extra`, `NamedLine`, `PlainLine` the
turns of `x86dump()`.

The sweep goes on behind jumps, and behind bytes that are no instruction: those
diStorm returns as an entry `DB`, of which `x86dump()` logs a line (`"db"`). "Disassembly failed"
(`"bad"`) is what remains: with room for one entry, an undecodable byte behind a
prefix does not fit (decoder.c:563), nor do fifteen prefixes (457), and no
instruction is returned. A `Code` need not end with a stop: then the sweep has come
to the end of the memory.

Nothing these functions load through is tested. A load from where no memory is ends the
program (`alive`): the bytes of the function, the slot or the code a thunk leads
to (`ClassifyFaults`), a page below the target (`Walk`), the header of an image that
exports nothing (`NoDirectory`), the strings of a dynamic function (`ThunkFaults`), the
end of the memory or the slot of a `ff 25` in the sweep (`SweepFaults`). A name of `TooLong`
overruns `extra[256]` (x86dump.c:97): the program dies of it (`ExtraOverflows`) or goes
on; other effects of a write behind the end are not modelled.

### Format and Hexdump

`Format`: a call is a format, which is a sequence of literal bytes and directives, and its
arguments. `NextPiece` takes the next piece and, for a directive, the next argument;
`_report_utf8x` prints a character of it: it counts in the first pass and stores
as well in the second one, which `SecondPass` begins; `Written` ends the call. Which
characters a directive prints is `Directive`, for `%v` `_report_variant`, with a case for
each type the code has one for and the default; how many bytes a character takes
and which is `utf8_encode`. `Hexdump` adds `Start`,
`Row`, `HexReturn`; a row is a function from columns to characters, and the
`sprintf`s and stores are applied in the order of the source, with their NULs.

### Pcode

A behaviour first installs the hooks, `HookIn`/`NextHook` or `HookGeneric`, then
`Execute`s one instruction with the hooks in place. `vb6_disasm` is the reader
the others are compared with. A line has the name that is printed (`Printed`: three
hooks print another one than their own), the bytes loaded for it and those it
depends on. The two differ where a hook takes one byte through a `uint32_t *`:
`LitI2_Byte` and the generic hook load four bytes and use one.

### The disassembler

One action is one turn of the loop of `decode_internal`: `DropPrefixes`, `NoRoom`,
`Instruction` (`StoreInstruction` or `DropInstruction`), `OutOfCode`;
`distorm_decompose` checks the arguments first. A turn is computed by functions
on one record, the state of `decode_inst` and what it calls: `prefixes_decode`,
`inst_lookup`, `operands_extract`, `Mnemonic`, `NameFixed`, each with the early
returns of the source. The database is `X86Tables`, all of it: the nodes and
rows of `insts.c`. Values of immediates and displacements are left out, their
sizes and the bytes they take are kept.

### Inject

One action per call of Windows that `main()` makes, each with the outcomes that
it tests for and those it does not; `Kill` ends the injector anywhere. Beside it,
`DeliverApc`, `Begin` and `Exit` are the thread of the program, `DebuggerActs`
the user of the debugger.

## What is checked

Every property has a mutant of the model, kept beside the definition it
changes, that breaks it.

| Run | Instance | What it shows |
|---|---|---|
| `report_log` | 3 threads, 1 cell, 2 texts, 2 calls each | the lazy initialisation is sound (`SectionSound`), a line is durable when its call returns (`DurableOnReturn`), order (`InCallOrder`), whole lines (`WholeLines`), torn tail (`TornTailOnly`), refinement of `AtomicLog` (`ImplementsAtomicLog`) |
| `tracer_specific` | 2 threads, 2 tables of 4, 3 hooks, `native()` and `x86dump()` logging | stubs are sound at every moment (`StubsSound`), no thread goes astray (`NeverAstray`), tracing is transparent (`Transparent`), write-ahead (`WriteAhead`), complete trace (`CompleteTrace`), the walk that finishes has hooked everything (`AllOrExit`) |
| `tracer_generic` | same, generic hooks, fair | `report()` is used as it demands (`ImplementsReport`), the log before the hooks (`NoHookBeforeLog`), complete trace behind a lead byte (`CompleteTrace`), `DllMain` ends (`AttachEnds`), calls of `report()` return (`CallsReturn`) |
| `tracer_absent` | both modes, one hook names nothing | DllMain gives up, and only then; after each pass, also one that rewrote live stubs, the slots hooked are those asked for so far, each whole and leading to its own handler (`AllOrExit`) |
| `hook_stub` | words of 7 bits, 3 slots, 4 targets | the pre-hook gets its arguments (`ArgumentsRight`), the handler starts undisturbed (`Restored`), every stub ends there (`ReachesHandler`) |
| `native_one` | 1 thread, 18 functions, 2 calls | the verdict (`VerdictRight`), the dump (`DumpComplete`), when the tracer crashes the program (`FaultsExplained`: only for a function that is not `Sound`, or by a name too long for `extra`), calls end (`CallsEnd`) |
| `native_race` | 2 threads, 2 functions | **violated:** `NamesOwnCallee`, see "Findings" |
| `report_text` | every directive and literal text, every case of a variant, dumps of 0 to 3 rows | the second pass fills what the first one counted (`FillFits`), what is printed can be read back (`LineReadBack`, `QuotedTextClosed`), dumps are whole and readable (`HexdumpReadable`) |
| `x86` | 59251 calls in three modes | see below |
| `x86_segment` | pairs of segment prefixes | **violated:** `LastSegmentCounts`, see "Findings" |
| `pcode` | every opcode of every table, both builds | all readers of the tables name an instruction alike (`NamesAgree`); every hook is found, its line depends on its own operands only, and two hooks load bytes behind them (`HooksFitTables`) |
| `inject` | 2 to 4 arguments, every failure | no instruction runs before the DLL was asked for (`LoadedFirst`); no failure leaves a process (`NoneStranded`) |

The properties of the run `x86`:

* `ResultIsListing`: the entries tile the code, fit the array of the caller, and are
  the listing `Listing` of the code, a reference without limit, filter or early
  end, cut or filtered as the features ask.
* `CallerMayGoOn`: the loop ends (`TurnTakesBytes` is its variant), a full array
  is one that was used, and `nextOffset` skips no instruction.
* `BytesAccounted`: no entry reaches past the code, and the position and the length
  left agree.
* `SelfContained`: an entry depends on no byte behind it (`OwnBytesOnly`), and leaving
  out the prefixes of `unusedPrefixesMask` changes nothing (`UnusedMakesNoDifference`).
* `OperandsRight`: registers are of the bank of their size and exist in the mode,
  there is one segment, LOCK stands before memory only.
* `TextRight`: every name exists and every text fits its buffer.
* `TrieSound`: what the lookup takes for granted of the database, over all of it.

Each property is stated in words above its definition.

### Bounds, and why they are enough

* `MaxCalls` = 2 calls per thread in `Report`: the first call of a thread meets the
  initialisation, the second one the initialised section; a third meets
  nothing new. Three threads: one inside the section, one waiting, and one
  between the passes or in the initialisation.
* Two texts, one of them empty: lines of different lengths, so that a length that
  belongs to another text is seen. `StreamSize` lies between the two lengths.
* Two tables of four entries: a mnemonic in both tables, a lead entry, unnamed entries
  in both, a hook that may stay silent, a call instruction, an instruction
  without a hook. The six tables of the program differ only in their contents.
* `MaxLines` = 2 or 3: the first line of a dump, one that names a target or not, and
  one more, so that a name is asked for before and between lines. A dump that went on
  would repeat the step `DumpLine`, which changes nothing but the log.
* Two names of one and two characters for `symbol()`, so that a line grows and
  shrinks when the buffer is written.
* `MaxRuns` = 1 hooked instruction per thread, unhooked ones without limit. What a thread
  does at its next instruction depends on the tables and the log, and those
  are shared with the other thread, which runs at the same time.
* `MaxCalls` of `Tracer` leaves room for every call these bounds allow
  (`TracerAssumption`), so it never blocks a thread.
* `HookStub`: `Modulus` = 128 holds a slot and the stack of a stub; slots at the
  bottom, in the middle and at the top of memory, targets on both sides of
  each, so that displacements are positive, negative and wrap around. The
  proofs lift the bound.
* `Native`: two images, one without exports, and memory of no image; a thunk of
  each kind, thunks that fail each test, an import, code that does not decode, code
  with a jump and data in it, code that runs off its memory, slots and strings that
  are not there; a function exported under two names, one under a name too long,
  ordinals that are no identity. Two calls, so that the second finds the buffer of
  the first.
* `Format`: every directive with texts of up to two units from both sides of every
  boundary of `utf8_encode`, of its bit fields and of the escapes, and with runs of up
  to four backslashes and quotes; a character is printed without regard to its
  neighbours except where it is read back, and the longest encoding is three bytes.
  Formats of two and three pieces: every pair of directives around a literal or an
  unknown letter. `Width8` and `Width16` are those of C; `Width32` and `Width64` are 2^29
  and 2^30, as large as TLC computes with, and the numbers taken are the small ones and
  those around the sign bit, 2^16 and the end of the type.
* `Hexdump`: `Cap` = 32 for 0x1000, lengths around a row and the cap, and a byte of
  each kind at the columns where the layout changes.
* `X86Decoder`: every opcode of one, two and three bytes and a part of those of
  VEX, each with tails that give a form in memory, one in registers, and one
  that is cut short; runs of prefixes of all types before instructions that
  mind them; code of up to three pieces, arrays of 1, 2, 3, 15 and 16 entries, the
  features that end or filter a call, addresses that wrap at 16 bits. What
  happens to an instruction does not depend on the ones before it, so that three
  pieces show what a turn leaves behind.
* `Pcode`: no bound; the tables are the shipped ones.
* `Inject`: no bound but the number of arguments, of which 4 is the largest `main()`
  tells apart.

The process may be killed at any step of the runs of `Report` and `Tracer`.
`TracerSpec` and `ReportSpec` therefore never deadlock formally; that no thread
gets stuck is what the properties under fairness show. The other
specifications end, and their runs do not check deadlock: the stub ends at the
handler, a call at its return, the injector at its exit. That they do end is
`ReachesHandler`, `CallsEnd` and, for the loop of the disassembler, `TurnTakesBytes`.

### Fairness

A thread inside `report()` or inside a stub is scheduled again
(`WF` on its steps), as a preemptive scheduler does. `Enter` needs only weak
fairness because in the bounded model the section comes free and stays free
when the other calls are used up; `CallsReturn` is about the section being
released, not about the order in which Windows serves waiters. `DllMain` is
scheduled likewise. `ServePipe` is fair: the Cuckoo server answers. Without that
assumption `AttachEnds` is false, because `NMPWAIT_WAIT_FOREVER` waits in the
loader lock. No fairness makes the traced program fetch another instruction.

In `HookStub` the processor goes on (`WF` on `Next`); this takes in that a pre-hook
returns, which `CallsReturn` and `CallsEnd` are about. In `Native` each thread that
is inside a hook is scheduled. `Pcode`, `X86Decoder`, `Format`, `Hexdump` and `Inject`
state no fairness: what is asked of them is safety.

## Findings

* `symbol()` returns a pointer into one static buffer (x86dump.c:37), which its
  callers pass to `report()`. In `native_race` two threads name functions at once
  and the line of one shows the name, or part of the name, that the other
  looked up, where native.c:38 says "Calling imported function.. %z". `DumpComplete` holds
  nevertheless: only names are disturbed, not the sweep. This is also why `Stable`
  fails in the traced process: a name that changes between the passes of
  `report()` gives a line of the wrong length, or a write behind `buf`.
* Two segment prefixes: prefix.c:142 says that "the last prefix of its type
  will be considered as used". The flags of both stay in `decodedPrefixes`, and
  `prefixes_use_segment` (prefix.c:356) compares their sum with single ones: the
  instruction has no segment at all (`x86_segment`).

Noticed on the way, and modelled as the code has it:

* A backslash in a quoted text is not escaped (report.c:62-77): `"a\"` is printed for a
  text that ends in one, and a reader to whom `\"` is an escaped quote does not find
  the end. `QuotedTextClosed` says for exactly which texts (`Hidden`) this happens.
* x86dump.c goes on behind `jmp` and behind bytes that are no instruction; a function
  that ends in neither a return nor one of three jumps is dumped to the end of
  the memory (`SweepFaults`).
* `_pre_LitI2_Byte` (insns.c:182) and `_generic_pre` (main.c:50) load four bytes where
  the operand has one, up to three of them from the next instruction. They drop them.
* `unusedPrefixesMask` is less exact than distorm.h:244 makes it: a prefix that was
  replaced by one of its type, a REX not in front of the opcode, prefixes before
  WAIT, REX before VEX, and those of 0f c2. `Orderly` names these cases and
  `UnusedMakesNoDifference` excludes them.
* The bits of a REX that does not count stay in `vrex` (decoder.c:499-502).
* The opcodes 0f 7a 30 and 0f 7a 31 have operands of a ModR/M byte that nobody
  reads (`NeverRead` in `X86Trie`).
* `utf8_encode` is not UTF-8 for characters from 256 to 2047 and for those with bit 12
  set (report.c:33); `Safe` says for which it is. Nothing is lost: the spread
  bits can be read back (`NothingLost`).
* `hexdump` cuts a row at column 71, before its last two characters
  (report.c:327), which `TextAgrees` allows for; the digits are complete.
* VEX has the bits for the registers 8 to 15 in every mode. `operands.c` masks some of
  them outside 64 bits mode, but not those of VEX.vvvv: `c4 e1 38 58 c2` names
  XMM8 in 32 bits mode, which `NoLongRegisters` allows for.
* Three pre-hooks print another name than their mnemonic: `ImpAdCallI2` for
  `ImpAdCallFPR4` (insns.c:54), `VarCat` for `ConcatVar` (48), `FStSTrCopy` for
  `FStStrCopy` (162). `OtherNames` excepts them from `NamesAgree`; a line of
  `ImpAdCallFPR4` cannot be told from one of `ImpAdCallI2`.
* The lengths `vb6_disasm` gives do not count a lead byte, and are 0 or -1 for
  an instruction that has no fixed length.
* An injector that is killed between `CreateProcess` and `ResumeThread` leaves a
  suspended process; `NoneStranded` speaks of injectors that end.
* An injector whose debugger does not start closes two uninitialised handles
  (dllinject.c:97), one of which may be that of the suspended thread: the
  exception in `NoneStranded`.

## What is proved

`ReportProofs` proves, for any number of threads, cells, texts and calls and any
`StreamSize`, from `ReportAssumption`:

* `InvHolds`: `ReportInv` is an inductive invariant of `RacySpec`, whatever happens to
  the texts while they are printed;
* from it `TypeCorrect`, `SectionHolds`, `MutualExclusionHolds`, `DurableHolds`,
  `InCallOrderHolds`, `TornTailHolds`;
* `TextInvHolds`, `WholeLinesHold`: for `ReportSpec`, with the rule `Stable`;
* `RefinesAtomicLog`: `ReportSpec => Abs!Spec`.

None of the properties is inductive on its own. `ReportInv` and `TextInv` add

* `InitOnce`: while `init` is 0, the file is empty and every thread but that of
  `DllMain` is outside `report()`; past the initialisation `init` is 1 and the section
  ready. This is the reason the race of report.c:298 does not happen, and it rests on
  `MayCall`;
* `Buffers` (in `TextInv`): between the passes `len` is the length of what the second
  pass will write, and after them of what it wrote. This rests on `Stable`;
* `Buffered`: the stream is empty or holds exactly the line of the one thread
  that is about to flush. This needs `SectionSound`;
* `LogOpen`: what was written went to an open file;
* types of the lines of the file.

Every step either commits the line of one call or commits nothing
(`StepCommits`); durability and order follow from this (`HistoryStep`), and so
does the refinement: the step that commits is the `Commit` of `AtomicLog`,
`Call` is its `Call`, `Leave` its `Return`, everything else a stutter (`AbsStep`).

`TracerProofs` proves, for any tables, walk, hooks, modes and threads, from
`ReportAssumption`, `TableAssumption`, `WalkAssumption`, `HooksAssumption` and
`TracerAssumption`:

* `TracerInvHolds`: `TracerInv` is an inductive invariant;
* `CallsReport`: `TracerSpec => ImplementsReport`, which is `RacySpec`, so that every
  theorem about `RacySpec` holds in the traced process as it is. The run
  `tracer_generic` asks for no names; that writing the buffer of `symbol()` is no
  more than a change of memory is in the theorem only;
* `UsesReport`: `StableTracerSpec => ReportSpec`; `TracerLogIsAtomic` draws the
  conclusion for `AtomicLog`. Both have a condition, `StableStep`: `symbol()` writes its
  buffer only while no thread is in `report()` with it. Two threads at call
  instructions break it (`native_race`), so this is what the log would be, were
  the buffer not shared, and what it is as long as one thread calls;
* `HooksAfterLog`: `NoHookBeforeLog`.

`TracerInv` is `ReportInv`, the types, and `HookRules`: once `DllMain` is past
the banner it has called `report()`, and a stub is in a table, or a thread in a
stub, only when the file has a line. The step that matters is `RedirectSlot`:
`DllMain` waits for `report()` to return before it takes it, so its first line
is durable by `DurableOnReturn` (`FirstLineWritten`). `CallsReport` cannot be
proved without `ReportInv`, and `ReportInv` holds in the tracer only because
each step is one `Report` allows (`StepOfRacy`): the two go by one induction.

On tables and stubs it proves, from `ModeAssumption` as well, `StubsHold`, `NeverAstrayHolds`
and `TransparentHolds` from `StubInvHolds`. `StubInv` follows the installer:

* `CopyRules`: a table is found where the interpreter has it and its copies are
  handlers, since nothing is redirected before the last table is found;
* `PassRules`, `LutRules`: which pass can be running; a slot has its handler or
  its stub;
* `StubRules`: a stub in a table leads to the handler of its slot, its hook
  names the slot, and it was put there by an earlier pass or earlier in this
  walk (`Visited`). So if it is opened again, that is for another kind of hook
  (`HookedAgain`: mnemonics in `g_hooks` are distinct), both kinds are compiled
  in, and nothing runs early;
* `ThreadRules`: a thread under way is at a slot of its instruction, and in a
  stub only if the stub is in a table; it stays there, because no stub is ever
  taken out of a table (`LiveStays`).

`AllOrExitHolds` says what each walk has done when it is over. `WalkInv` adds to
`StubInv` that `ret` is 0 exactly while no entry passed in this walk matched (`WalkRules`),
that every earlier pass found its mnemonic, and that a slot has a stub exactly if a hook
is due to it, the last one (`DueRules`). The delicate step is `EndPass`: a walk that
ends has passed every slot (`WalkAssumption`), so what is due then is what the passes
so far were to hook (`DueOfPassesOver`), in the end what is wanted (`DueAtEnd`).

On the trace it proves `WriteAheadHolds`. `LogInv` adds that a call in progress
formats what was recorded for it (`CallRules`), that a line of the file is the
rendering of the record of its call, unless that was printed from the buffer of
`symbol()`, whose text may have changed since (`FileRules`), and that a thread outside its
stub is outside `report()` (`ReturnRules`); `DurableOnReturn` does the rest.

`CompleteTraceHolds` rests on `WalkInv` as well. A thread that fetched after `DllMain`
returned meets tables that no longer change; `TraceRules` tells from its place
which stubs it has met (`Met`), that it has logged at most one line for each, and none
only if the hooks it met may all be silent. Two facts about the tables go in, as
assumptions of `Tracer` that TLC evaluates with each of its runs: no pre-hook prints
what `native()` or `x86dump()` prints (`LineAssumption`), and `g_hooks` names no lead entry
(`LeadAssumption`), so that an instruction behind a lead byte does not meet two stubs
of the same kind.

`NativeProofs` proves, for any threads, functions, memory and number of calls, from
`NativeAssumption`, `MemoryAssumption` (a page of the memory has one below it, down to
the first one, which is never mapped) and `NameAssumption` (what the name of an address
is, in terms of the images):

* `AskInvHolds`: which address a thread asked `symbol()` about follows from its place,
  and the pages its walk has left behind are mapped;
* `FaultsExplainedHolds`, from it and `LengthAssumption` ("(null)" fits in `extra`): it
  gives what the code that is called has to look like (`Sound`) for none of the faults
  of `Native` to strike;
* `DumpCompleteHolds`, from `TellInv`: what the last line of a thread was, and how many
  verdicts it has got, follow from its place. Both hold whatever the threads do
  to the buffer of each other;
* `NamesRightAlone`: `NamesOwnCallee` and `VerdictRight` follow from `BufferAlone`, that no two
  threads are between the first write of `symbol()` and the use of its result. This
  hypothesis is what the code lacks: `native_race` refutes `NamesOwnCallee` without it.
  `VerdictRightHolds` draws the conclusion for one thread, the instance of `native_one`.

`FormatProofs` proves, for any formats, any texts of 16-bit units, integers of any
widths, variants of every type, any memory and lengths, from `FormatAssumption` (the
widths divide each other as those of C do, and a call gives each directive an
argument it is meant for) and `HexdumpAssumption` (`Cap` is a multiple of 16, as 0x1000 is, and an
offset has four digits):

* `TextInvHolds`: a pass has counted, and the second one stored, the encoding of what it
  has printed so far, piece by piece, and the next argument is the one that the
  pieces so far have left (`TakenNext`). `FillFitsHolds` follows. For every kind of
  argument there is a lemma that what is printed are characters (`VariantPrints`,
  `DirectivePrints`, `DecimalType`, ...);
* `QuotedTextClosedHolds`: the line stays one line, and a reader to whom a backslash
  escapes finds just the first and the last quote, if and only if the text is not
  `Hidden`: no quote in it, nor its end, follows an odd number of backslashes. It
  goes by the parity of the run of backslashes before each place (`OddNext`) and needs
  that no byte of an encoded character above 127 looks like one below;
* `LineReadBackHolds`: the reader of `Decoded` finds every character again, whatever its
  neighbours are (`CharBack`, then `ReadBack` by induction), so no information is
  lost although the bytes are not UTF-8; the digits of a number give its value, and
  that the value of the variant (`DecimalValue`, `LineNumbers`);
* `HexInvHolds` and from it `HexdumpReadableHolds`. `PutByteStores` says which columns a
  turn of the inner loop changes, `Holds` what the buffer has after m of them:
  every NUL that `sprintf` leaves is covered by the next store, but for the one
  at column 6, which the first byte covers. `RowReads` is the whole row.

These theorems are about recursive functions. That such a function exists is proved first
(`ReaderExists`, `FoldExists`, `TurnsExist`), and induction is by the set of the
numbers or sequences for which a statement holds (`NatInd`, `SeqInd`, from
`NatLessThanWellFounded`), since the induction theorems of the library take an operator.

`HookStubProofs` proves `ArgumentsHold`, `RestoredHolds` and `OnTrackHolds` for words of
any width, all slots, targets, register files and stacks, from `StubAssumption`: a slot
and the stack of a stub fit in memory, no target lies inside a slot, and there
are 52 bytes of stack below `esp`. `StubInv` is the symbolic execution of both
stubs: before each instruction, what `eip` is, which words lie below the old top
of the stack, which registers are still as they were. There is one lemma for each
instruction (`AtPushad`, `AtPush`, ...) and one for the pre-hook (`AtPreHook`); the arithmetic of
words (`InSlot`, `Reaches`, `Stack`) is apart, so that modulus and `Displacement`
appear in few leaves. None of the three theorems is inductive by itself: what
the handler sees depends on every word pushed on the way.

`InjectProofs` proves `LoadedFirstHolds` and `NoneStrandedHolds` for every set of
argument counts. `ApcInv` says that only an armed program runs: one that was given the
whole path and has `LoadLibraryA` queued or done. It has to speak of the debugger,
of `pc` and of `child` at once, since the debugger may resume the thread
while `main()` sleeps. `ChildInv` says which handles are open at which call.

`X86Proofs` proves, for any code, length, mode, room and features that `InputAssumption`
allows, `LoopInvHolds`, `BytesAccountedHolds`, `CallerMayGoOnHolds`, `LoopListsHolds`
and `ResultIsListingHolds`. No row or node of the database is looked at: the theorems hold for
any. They rest on one fact about a single instruction, `EntrySized`: whatever
`decode_inst` finds, position and length left move by the same number of bytes
in every function it calls (one lemma for each, such as `CountedOperands`), so an
entry takes at least one byte, no more than there are, and `left` is what the
position says. `LoopInv` carries it round the loop:

* `LoopTyped`, `LoopCounts`: the entries used are those stored, no more than the array holds;
  `codeLen` and the position add up to the length of the code;
* `LoopTiles`: without the filter the entries cover what is behind the position, and each
  is at the address of its first byte;
* `LoopSkips`: `nextOffset` is the end of an entry with no instruction after it;
* `LoopUses`: an array of 15 or more entries has one in use when a turn does not find
  room, as the lone prefixes of a turn are at most 15.

For `ResultIsListing` the state is compared with the reference. `LoopLists` says of a call that
is in the loop that what it has is what is wanted of the beginning of the listing, and that
the rest of the listing is the listing of the rest of the code (`Reached`); of a call that
is done that it has what `BeginsListing` wants. A turn stores what `ListedAt` lists at
its position (`TurnAtFound`), `WantedCut` says what the early end and the
filter make of it, and a full array stops inside. That `Listing` is what
its recursive definition says is a lemma (`ListingDef`), as in `FormatProofs`.

`PcodeProofs` proves `InvHolds` and `NamesAgreeHolds` for every set of pairs of
bytes as the instructions, from `TablesAssumption`, which TLC computes from the shipped
tables: no name is twice in `g_hooks`, each is in some table, none at an entry that leads to
another table, and in every table the operands that the line of a hook depends on fit the
length of the entry. `NamesAgreeHolds` excepts the three `OtherNames`. (`HooksFitTables` is
proved there too; half of it restates the assumption, so the run is what shows
it.) `PcodeInv` is the invariant of the two loops of the installer: what is redirected is
what the hooks before `h`, and hook `h` in the tables before `k`, ask for
(`Placed`), and an entry of hook `h` is one that `ret` counts (`Counted`), so that
`exit(1)` is not reached. With all of them placed an entry has one stub (`EntryAsked`), and
a lead entry none.

Only model-checked:

* The liveness properties `AttachEnds`, `CallsReturn`, `ReachesHandler` and
  `CallsEnd`: fairness and ENABLED are outside what TLAPS handles here.
* The bounds of `ret` and `since` in `TracerTypeOK`, the first of which counts the entries of
  a walk; the proofs have what they need of both in `WalkInv` and `TraceInv`.
* `SelfContained`, `OperandsRight` and `TextRight`: they depend on the rows of the database, which
  the run decodes with the inputs above. `TrieSound` is a statement about the database alone,
  evaluated in full.

## Not modelled

* Instruction caches and the order in which other processors see stores: x86 keeps the order
  of stores, and the Makefile compiles with -O0.
* Whether VirtualProtect succeeds; hook.c does not ask.
* The flags of the processor in a stub: `add` changes them and `pushad` does not save
  them. Whether the interpreter relies on them across a dispatch is not to be
  seen in the repository.
* The operands the pre-hooks take from `esp` and `ebp`: they belong to the
  interpreter, and no table says how many there are.
* `report_close` and `spawn_debugger`: nothing calls them. `utils/hello.c`: a program
  to inject into. `data/`: the script that generated the tables; the tables it
  generated are modelled.
* What a write behind `buf`, `extra[256]` or `name[]` does to the stack or the data there,
  beyond the death of the program or none.
* Names that `symbol()` cuts short (x86dump.c:72), and the bytes behind a `b8` at the very
  end of the memory (107): a fault there is one of the end of the sweep.
* Of `Format`: lengths below zero for `%s` and `%S`, a `VT_VARIANT` behind a `VT_VARIANT`, a
  `pvarVal` of NULL, and formats that do not fit their arguments. On the i386 target
  of the Makefile `va_list` is passed by value, so that the second pass starts over;
  elsewhere it might not.
* The wording of lines: names are abstract in `Native`.
* The last stage of the sweep, from the entries of `X86Decoder` to the instructions of
  `Native`: the kinds of instruction `x86dump()` tells apart are given as `Code`.
* Of diStorm: values of immediates and displacements, `usedRegistersMask`, the
  characters of texts, the lengths of texts in 64 bits mode, which the tracer
  does not use, and `distorm_decode` (distorm.c:315-377), through which `x86dump()` comes to
  the decoder: `X86Decoder` runs with arrays of one entry, as it does, but the
  formatting of the entries in place is left out.
* Opcodes of VEX beyond the prefixes listed in `MCX86`: rows reached only by them are
  covered by `TrieSound`, which walks the whole database, not by decoding.

## Left for later

`distorm_decode`, and the composition of `X86Decoder` with the sweep of `Native`.
