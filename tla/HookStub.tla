------------------------------ MODULE HookStub ------------------------------
(***************************************************************************)
(* The machine code of one stub: what _vb6_set_pre_hook and                *)
(* _vb6_set_generic_pre_hook of src/src/hook.c write into 32 bytes of      *)
(* g_hook_data, and what the processor does when the virtual machine jumps *)
(* there.  The module Tracer takes for granted that a finished stub calls  *)
(* its pre-hook and goes on at the original handler as if nothing had      *)
(* happened; this module executes the stub instruction by instruction.     *)
(*                                                                         *)
(* Registers and addresses are words.  The displacement of call and jmp is *)
(* a difference of words, computed once when the stub is written and added *)
(* once when it is executed, both modulo 2^32.  The stack is a memory of   *)
(* its own, one word per address; an instruction is an offset in the stub, *)
(* its size and what it does.  The flags are left out: add changes them    *)
(* and pushad does not save them.                                          *)
(***************************************************************************)
EXTENDS Integers, Sequences

CONSTANTS
  Modulus,     (* 2^32: a word is a number below it                  *)
  Bases,       (* the addresses a slot of g_hook_data may have       *)
  Targets,     (* the addresses of pre-hooks and original handlers   *)
  RegFiles,    (* the registers when the machine jumps to a stub     *)
  Values       (* the words the stack and a pre-hook may hold        *)

SlotSize == 32

(* pushad, four pushes and the return address: 8 + 4 + 1 words. *)
StackNeed == 52

Word == 0..(Modulus - 1)

Regs == {"eax", "ecx", "edx", "ebx", "esp", "ebp", "esi", "edi"}

ASSUME StubAssumption ==
  /\ Modulus \in Nat
  /\ SlotSize + StackNeed < Modulus
  /\ Bases \subseteq Word
  /\ Targets \subseteq Word
  /\ Values \subseteq Word
  /\ Values # {}
  /\ \A f \in RegFiles :
       f \in [Regs -> Word] /\ f["esp"] \in StackNeed..(Modulus - 1)
  /\ \A b \in Bases : b + SlotSize <= Modulus
  /\ \A b \in Bases, t \in Targets : t \notin b..(b + SlotSize - 1)

Plus(a, b)  == IF a + b < Modulus THEN a + b ELSE a + b - Modulus
Minus(a, b) == IF b <= a THEN a - b ELSE a - b + Modulus

VARIABLES
  kind,        (* which of the two writers wrote the stub            *)
  hook,        (* the address of the stub                            *)
  pre,         (* the pre-hook it has to call                        *)
  orig,        (* the handler it has to jump to                      *)
  code,        (* the instructions of the stub                       *)
  eip,         (* the address of the next instruction                *)
  reg,         (* the registers                                      *)
  stack,       (* stack[a]: the word at address a of the stack       *)
  entry,       (* the registers when the stub was entered            *)
  before       (* the stack when the stub was entered                *)

given == <<kind, hook, pre, orig, code, entry, before>>
vars  == <<given, eip, reg, stack>>

(* How far below the top of the stack pushad stores a register. *)
Below == [eax |-> 4, ecx |-> 8, edx |-> 12, ebx |-> 16,
          esp |-> 20, ebp |-> 24, esi |-> 28, edi |-> 32]

Ins(at, size, op, r, imm) ==
  [at |-> at, size |-> size, op |-> op, reg |-> r, imm |-> imm]

(* "target - hook - 4" with hook at the four bytes of the displacement. *)
Displacement(target, field) == Minus(Minus(target, field), 4)

(* pushad; lea eax, [esp+off]; push esi; push ebp; push eax; call; clean   *)
(* up; popad; jmp.                                                         *)
SpecificCode(off, call, jump) ==
  << Ins(0, 1, "pushad", "esp", 0),
     Ins(1, 4, "lea", "eax", off),
     Ins(5, 1, "push", "esi", 0),
     Ins(6, 1, "push", "ebp", 0),
     Ins(7, 1, "push", "eax", 0),
     Ins(8, 5, "call", "esp", call),
     Ins(13, 3, "add", "esp", 12),
     Ins(16, 1, "popad", "esp", 0),
     Ins(17, 5, "jmp", "esp", jump) >>

(* The same with ebx in the place of eax, which is a parameter here.       *)
GenericCode(clean, call, jump) ==
  << Ins(0, 1, "pushad", "esp", 0),
     Ins(1, 4, "lea", "ebx", 32),
     Ins(5, 1, "push", "esi", 0),
     Ins(6, 1, "push", "ebp", 0),
     Ins(7, 1, "push", "ebx", 0),
     Ins(8, 1, "push", "eax", 0),
     Ins(9, 5, "call", "esp", call),
     Ins(14, 3, "add", "esp", clean),
     Ins(17, 1, "popad", "esp", 0),
     Ins(18, 5, "jmp", "esp", jump) >>

(* Mutant of _vb6_set_pre_hook: esp is read after pushad, not before. *)
LeaNoOffset(o, h, p) ==
  SpecificCode(0, Displacement(p, Plus(h, 9)), Displacement(o, Plus(h, 18)))

(* Mutant of _vb6_set_pre_hook: hook instead of orig, an endless loop. *)
JumpsToItself(o, h, p) ==
  SpecificCode(32, Displacement(p, Plus(h, 9)), Displacement(h, Plus(h, 18)))

_vb6_set_pre_hook(o, h, p) ==
  SpecificCode(32, Displacement(p, Plus(h, 9)), Displacement(o, Plus(h, 18)))

(* Mutant of _vb6_set_generic_pre_hook: the clean-up of the other writer. *)
GenericCleansThree(o, h, p) ==
  GenericCode(12, Displacement(p, Plus(h, 10)), Displacement(o, Plus(h, 19)))

_vb6_set_generic_pre_hook(o, h, p) ==
  GenericCode(16, Displacement(p, Plus(h, 10)), Displacement(o, Plus(h, 19)))

(* The parameters of the two kinds of pre-hook, in the order of vb6.h. *)
Parameters(k) ==
  IF k = "specific" THEN <<"esp", "ebp", "esi">>
                    ELSE <<"eax", "esp", "ebp", "esi">>

(* The machine has dispatched to a finished stub. *)
Init ==
  /\ kind \in {"specific", "generic"}
  /\ hook \in Bases
  /\ pre \in Targets
  /\ orig \in Targets \ {pre}
  /\ code = IF kind = "specific"
              THEN _vb6_set_pre_hook(orig, hook, pre)
              ELSE _vb6_set_generic_pre_hook(orig, hook, pre)
  /\ eip = hook
  /\ reg \in RegFiles
  /\ \E v \in Values : stack = [a \in Word |-> v]
  /\ entry = reg
  /\ before = stack

(* The processor executes instruction i of the stub. *)
At(i, op) ==
  /\ eip = Plus(hook, i.at)
  /\ i.op = op
  /\ UNCHANGED given

NextIns(i) == Plus(hook, i.at + i.size)

Push(v) ==
  /\ reg' = [reg EXCEPT !["esp"] = Minus(@, 4)]
  /\ stack' = [stack EXCEPT ![Minus(reg["esp"], 4)] = v]

Pushad(i) ==
  /\ At(i, "pushad")
  /\ eip' = NextIns(i)
  /\ reg' = [reg EXCEPT !["esp"] = Minus(@, 32)]
  /\ stack' = [a \in Word |->
       IF \E r \in Regs : a = Minus(reg["esp"], Below[r])
         THEN reg[CHOOSE r \in Regs : a = Minus(reg["esp"], Below[r])]
         ELSE stack[a]]

Lea(i) ==
  /\ At(i, "lea")
  /\ eip' = NextIns(i)
  /\ reg' = [reg EXCEPT ![i.reg] = Plus(reg["esp"], i.imm)]
  /\ UNCHANGED stack

PushReg(i) ==
  /\ At(i, "push")
  /\ eip' = NextIns(i)
  /\ Push(reg[i.reg])

Call(i) ==
  /\ At(i, "call")
  /\ eip' = Plus(NextIns(i), i.imm)
  /\ Push(NextIns(i))

Add(i) ==
  /\ At(i, "add")
  /\ eip' = NextIns(i)
  /\ reg' = [reg EXCEPT ![i.reg] = Plus(@, i.imm)]
  /\ UNCHANGED stack

(* popad takes every register back but esp, whose word it skips. *)
Popad(i) ==
  /\ At(i, "popad")
  /\ eip' = NextIns(i)
  /\ reg' = [r \in Regs |->
       IF r = "esp" THEN Plus(reg["esp"], 32)
                    ELSE stack[Plus(reg["esp"], 32 - Below[r])]]
  /\ UNCHANGED stack

Jmp(i) ==
  /\ At(i, "jmp")
  /\ eip' = Plus(NextIns(i), i.imm)
  /\ UNCHANGED <<reg, stack>>

(* A C function of the cdecl convention: it keeps ebx, ebp, esi and edi,   *)
(* pops its return address and nothing else, and may overwrite the stack   *)
(* up to the end of its arguments.                                         *)
PreHook ==
  /\ eip = pre
  /\ \E v \in Values :
       /\ reg' = [r \in Regs |->
            CASE r \in {"eax", "ecx", "edx"} -> v
              [] r = "esp" -> Plus(reg["esp"], 4)
              [] OTHER -> reg[r]]
       /\ stack' = [a \in Word |->
            IF a < reg["esp"] + 4 + 4 * Len(Parameters(kind))
              THEN v ELSE stack[a]]
  /\ eip' = stack[reg["esp"]]
  /\ UNCHANGED given

Execute ==
  \E k \in DOMAIN code :
    \/ Pushad(code[k])
    \/ Lea(code[k])
    \/ PushReg(code[k])
    \/ Call(code[k])
    \/ Add(code[k])
    \/ Popad(code[k])
    \/ Jmp(code[k])

Next == Execute \/ PreHook

Spec == Init /\ [][Next]_vars

(* The processor goes on executing, and a pre-hook returns. *)
FairSpec == Spec /\ WF_vars(Next)

-----------------------------------------------------------------------------
(* The variables hold what their comments say. *)
StubTypeOK ==
  /\ kind \in {"specific", "generic"}
  /\ hook \in Bases
  /\ pre \in Targets
  /\ orig \in Targets \ {pre}
  /\ eip \in Word
  /\ reg \in [Regs -> Word]
  /\ stack \in [Word -> Word]
  /\ entry \in [Regs -> Word]
  /\ before \in [Word -> Word]

(* The processor is in the pre-hook, in the handler, or at an instruction  *)
(* the writer stored in full inside the 32 bytes of the slot: it never     *)
(* meets the 0xcc that memset left there (hook.c:99), nor the next slot.   *)
OnTrack ==
  \/ eip \in {pre, orig}
  \/ \E k \in DOMAIN code :
       /\ eip = hook + code[k].at
       /\ code[k].at + code[k].size <= SlotSize

(* The pre-hook finds as parameters the registers of the machine at the    *)
(* jump to the stub, esp as it was before pushad, whatever address the     *)
(* displacement of the call had to reach (hook.c:107-121, vb6.h:51-53).    *)
ArgumentsRight ==
  eip = pre =>
    \A n \in DOMAIN Parameters(kind) :
      stack[reg["esp"] + 4 * n] = entry[Parameters(kind)[n]]

(* The original handler starts as if the machine had jumped to it: every   *)
(* register has the value it had, and the words the machine had on the     *)
(* stack are untouched, although the pre-hook clobbers eax, ecx, edx and   *)
(* its own arguments (hook.c:123-131).                                     *)
Restored ==
  eip = orig =>
    /\ reg = entry
    /\ \A a \in Word : a >= entry["esp"] => stack[a] = before[a]

(* Every jump into a stub ends in the original handler. *)
ReachesHandler == <>(eip = orig)
=============================================================================
