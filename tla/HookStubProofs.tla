--------------------------- MODULE HookStubProofs ---------------------------
(***************************************************************************)
(* Proofs about the machine code of the stubs for words of every width,    *)
(* all slots, targets, registers and stacks.  The invariant is the         *)
(* symbolic execution of both stubs: what registers and stack hold at each *)
(* instruction, in terms of what they held when the stub was entered.      *)
(***************************************************************************)
EXTENDS HookStub, TLAPS

TopOf(n) == entry["esp"] - n

Down(n) == reg["esp"] = TopOf(n)
Saved == \A r \in Regs : stack[TopOf(Below[r])] = entry[r]
Above == \A a \in Word : a >= entry["esp"] => stack[a] = before[a]
Kept(rs) == \A r \in rs : reg[r] = entry[r]

\* Between pushad and popad.
Framed(n) == Down(n) /\ Saved /\ Above

Pushed(n, r) == stack[TopOf(n)] = entry[r]
Returns(n, off) == stack[TopOf(n)] = hook + off

Takes(len) == Len(Parameters(kind)) = len

OneArg == Pushed(36, "esi")
TwoArgs == OneArg /\ Pushed(40, "ebp")
ThreeArgs == TwoArgs /\ Pushed(44, "esp")
FourArgs == ThreeArgs /\ Pushed(48, "eax")

AtStart == eip = hook /\ reg = entry /\ stack = before
AtEnd == reg = entry /\ Above
AfterPushad == eip = hook + 1 /\ Framed(32) /\ Kept({"eax", "ebp", "esi"})

\* The stub of _vb6_set_pre_hook.
InSpecific ==
  \/ AtStart
  \/ AfterPushad
  \/ eip = hook + 5 /\ Framed(32) /\ Kept({"ebp", "esi"}) /\ reg["eax"] = TopOf(0)
  \/ eip = hook + 6 /\ Framed(36) /\ Kept({"ebp"}) /\ reg["eax"] = TopOf(0) /\ OneArg
  \/ eip = hook + 7 /\ Framed(40) /\ reg["eax"] = TopOf(0) /\ TwoArgs
  \/ eip = hook + 8 /\ Framed(44) /\ ThreeArgs
  \/ eip = pre /\ Framed(48) /\ ThreeArgs /\ Returns(48, 13)
  \/ eip = hook + 13 /\ Framed(44)
  \/ eip = hook + 16 /\ Framed(32)
  \/ eip = hook + 17 /\ AtEnd
  \/ eip = orig /\ AtEnd

\* The stub of _vb6_set_generic_pre_hook.
InGeneric ==
  \/ AtStart
  \/ AfterPushad
  \/ eip = hook + 5 /\ Framed(32) /\ Kept({"eax", "ebp", "esi"}) /\ reg["ebx"] = TopOf(0)
  \/ eip = hook + 6 /\ Framed(36) /\ Kept({"eax", "ebp"}) /\ reg["ebx"] = TopOf(0) /\ OneArg
  \/ eip = hook + 7 /\ Framed(40) /\ Kept({"eax"}) /\ reg["ebx"] = TopOf(0) /\ TwoArgs
  \/ eip = hook + 8 /\ Framed(44) /\ Kept({"eax"}) /\ ThreeArgs
  \/ eip = hook + 9 /\ Framed(48) /\ FourArgs
  \/ eip = pre /\ Framed(52) /\ FourArgs /\ Returns(52, 14)
  \/ eip = hook + 14 /\ Framed(48)
  \/ eip = hook + 17 /\ Framed(32)
  \/ eip = hook + 18 /\ AtEnd
  \/ eip = orig /\ AtEnd

\* What stays as it is, and the types.
Given ==
  /\ StubTypeOK
  /\ TopOf(0) \in StackNeed..(Modulus - 1)
  /\ code = IF kind = "specific" THEN _vb6_set_pre_hook(orig, hook, pre)
                                 ELSE _vb6_set_generic_pre_hook(orig, hook, pre)

StubInv ==
  /\ Given
  /\ kind = "specific" => InSpecific
  /\ kind = "generic" => InGeneric

-----------------------------------------------------------------------------
(* Arithmetic of words. *)

LEMMA Slot ==
  ASSUME Given
  PROVE  /\ Modulus \in Nat /\ hook \in Nat /\ hook + 32 <= Modulus
         /\ pre \in Word /\ orig \in Word /\ pre # orig
         /\ \A t \in {pre, orig} : t < hook \/ t >= hook + 32
<1>1. hook \in Bases /\ pre \in Targets /\ orig \in Targets /\ pre # orig
  BY DEF Given, StubTypeOK
<1>2. Modulus \in Nat /\ hook \in Word /\ pre \in Word /\ orig \in Word /\ hook + 32 <= Modulus
  BY <1>1, StubAssumption DEF SlotSize
<1>3. \A t \in {pre, orig} : t \notin hook..(hook + 31)
  <2>1. \A t \in Targets : t \notin hook..(hook + 32 - 1)
    BY <1>1, StubAssumption DEF SlotSize
  <2> QED BY <1>1, <1>2, <2>1 DEF Word
<1> QED BY <1>1, <1>2, <1>3 DEF Word

LEMMA InSlot ==
  ASSUME Given, NEW off \in 0..31
  PROVE  Plus(hook, off) = hook + off
  BY Slot DEF Plus

\* A rel32 field at offset `field` of the stub leads to its target from the
\* instruction behind it.
LEMMA Reaches ==
  ASSUME Given, NEW field \in 0..27, NEW target \in Word
  PROVE  Plus(Plus(hook, field + 4), Displacement(target, Plus(hook, field))) = target
<1>1. Plus(hook, field + 4) = hook + field + 4 /\ Plus(hook, field) = hook + field
  BY InSlot, Slot
<1> QED
  BY <1>1, Slot DEF Displacement, Plus, Minus, Word

LEMMA Stack ==
  ASSUME Given, NEW n \in 0..52, Down(n)
  PROVE  /\ Modulus \in Nat /\ entry["esp"] \in 52..(Modulus - 1)
         /\ \A k \in 0..52 : TopOf(k) = entry["esp"] - k /\ TopOf(k) \in Word
         /\ reg["esp"] = TopOf(n)
         /\ n <= 48 => Minus(reg["esp"], 4) = TopOf(n + 4)
         /\ \A k \in 0..n : Plus(reg["esp"], k) = TopOf(n - k)
<1>1. Modulus \in Nat /\ entry["esp"] \in 52..(Modulus - 1)
  <2>1. Modulus \in Nat /\ entry["esp"] \in Word
    BY StubAssumption DEF Given, StubTypeOK, Regs
  <2>2. entry["esp"] - 0 \in 52..(Modulus - 1)
    BY DEF Given, StackNeed, TopOf
  <2> QED BY <2>1, <2>2 DEF Word
<1>2. reg["esp"] = entry["esp"] - n
  BY DEF Down, TopOf
<1>3. \A k \in 0..52 : TopOf(k) = entry["esp"] - k /\ TopOf(k) \in Word
  BY <1>1 DEF TopOf, Word
<1>4. n <= 48 => Minus(reg["esp"], 4) = TopOf(n + 4)
  BY <1>1, <1>2 DEF TopOf, Minus
<1>5. ASSUME NEW k \in 0..n PROVE Plus(reg["esp"], k) = TopOf(n - k)
  <2>1. reg["esp"] + k = entry["esp"] - (n - k) /\ reg["esp"] + k < Modulus
    BY <1>1, <1>2
  <2> QED BY <2>1 DEF TopOf, Plus
<1> QED BY <1>1, <1>2, <1>3, <1>4, <1>5 DEF TopOf

LEMMA Registers ==
  /\ \A r \in Regs : Below[r] \in {4, 8, 12, 16, 20, 24, 28, 32}
  /\ \A r \in Regs : Below[r] \in 4..32
  /\ \A r, q \in Regs : Below[r] = Below[q] => r = q
  BY DEF Regs, Below

-----------------------------------------------------------------------------
(* What one instruction does to the frame. *)

LEMMA GivenNext ==
  ASSUME Given, UNCHANGED given, eip' \in Word, reg' \in [Regs -> Word],
         stack' \in [Word -> Word]
  PROVE  Given' /\ \A k : TopOf(k)' = TopOf(k)
  BY DEF Given, StubTypeOK, given, TopOf

LEMMA DoPush ==
  ASSUME Given, UNCHANGED given, NEW n \in 32..48, Framed(n), NEW v \in Word, Push(v)
  PROVE  /\ reg' \in [Regs -> Word] /\ stack' \in [Word -> Word]
         /\ Framed(n + 4)'
         /\ stack'[TopOf(n + 4)] = v
         /\ \A k \in 0..n : stack'[TopOf(k)] = stack[TopOf(k)]
         /\ \A r \in Regs \ {"esp"} : reg'[r] = reg[r]
<1>1. Down(n) /\ Saved /\ Above /\ n \in 0..52 /\ n <= 48 /\ n + 4 \in 0..52
  BY DEF Framed
<1>2. /\ Modulus \in Nat /\ entry["esp"] \in 52..(Modulus - 1)
      /\ \A k \in 0..52 : TopOf(k) = entry["esp"] - k /\ TopOf(k) \in Word
      /\ Minus(reg["esp"], 4) = TopOf(n + 4)
  BY <1>1, Stack
<1>3. reg \in [Regs -> Word] /\ stack \in [Word -> Word] /\ "esp" \in Regs
  BY DEF Given, StubTypeOK, Regs
<1>4. /\ reg' = [reg EXCEPT !["esp"] = TopOf(n + 4)]
      /\ stack' = [stack EXCEPT ![TopOf(n + 4)] = v]
  BY <1>2 DEF Push
<1>5. reg' \in [Regs -> Word] /\ stack' \in [Word -> Word]
  BY <1>1, <1>2, <1>3, <1>4
<1>6. \A k \in 0..n : stack'[TopOf(k)] = stack[TopOf(k)]
  <2> TAKE k \in 0..n
  <2>1. TopOf(k) # TopOf(n + 4) /\ TopOf(k) \in Word
    BY <1>1, <1>2
  <2> QED BY <2>1, <1>3, <1>4
<1>7. reg'["esp"] = TopOf(n + 4) /\ stack'[TopOf(n + 4)] = v
      /\ \A r \in Regs \ {"esp"} : reg'[r] = reg[r]
  BY <1>1, <1>2, <1>3, <1>4
<1>8. entry' = entry /\ before' = before
  BY DEF given
<1>9. Down(n + 4)'
  BY <1>7, <1>8 DEF Down, TopOf
<1>10. Saved'
  <2> SUFFICES ASSUME NEW r \in Regs PROVE stack'[TopOf(Below[r])] = entry[r]
    BY <1>8 DEF Saved, TopOf
  <2>1. Below[r] \in 0..n
    BY Registers
  <2> QED BY <2>1, <1>1, <1>6 DEF Saved
<1>11. Above'
  <2> SUFFICES ASSUME NEW a \in Word, a >= entry["esp"] PROVE stack'[a] = before[a]
    BY <1>8 DEF Above
  <2>1. a # TopOf(n + 4)
    BY <1>1, <1>2 DEF Word
  <2> QED BY <2>1, <1>1, <1>3, <1>4 DEF Above
<1> QED BY <1>5, <1>6, <1>7, <1>9, <1>10, <1>11 DEF Framed

LEMMA DoAdd ==
  ASSUME Given, UNCHANGED given, UNCHANGED stack, NEW n \in 32..48, NEW c \in 0..16,
         n - c = 32, Framed(n), reg' = [reg EXCEPT !["esp"] = Plus(@, c)]
  PROVE  reg' \in [Regs -> Word] /\ Framed(32)'
<1>1. Down(n) /\ Saved /\ Above /\ n \in 0..52 /\ c \in 0..n
  BY DEF Framed
<1>2. Plus(reg["esp"], c) = TopOf(32) /\ TopOf(32) \in Word
  BY <1>1, Stack
<1>3. reg \in [Regs -> Word] /\ "esp" \in Regs
  BY DEF Given, StubTypeOK, Regs
<1>4. reg' \in [Regs -> Word] /\ reg'["esp"] = TopOf(32)
  BY <1>2, <1>3
<1> QED BY <1>1, <1>4 DEF Framed, Down, Saved, Above, TopOf, given

LEMMA DoLea ==
  ASSUME Given, UNCHANGED given, UNCHANGED stack, Framed(32), NEW q \in {"eax", "ebx"},
         reg' = [reg EXCEPT ![q] = Plus(reg["esp"], 32)]
  PROVE  /\ reg' \in [Regs -> Word] /\ Framed(32)' /\ reg'[q] = TopOf(0)
         /\ \A r \in Regs \ {q} : reg'[r] = reg[r]
<1>1. Down(32) /\ Saved /\ Above
  BY DEF Framed
<1>2. Plus(reg["esp"], 32) = TopOf(0) /\ TopOf(0) \in Word
  BY <1>1, Stack
<1>3. reg \in [Regs -> Word] /\ "esp" \in Regs /\ q \in Regs /\ q # "esp"
  BY DEF Given, StubTypeOK, Regs
<1>4. /\ reg' \in [Regs -> Word] /\ reg'[q] = TopOf(0)
      /\ \A r \in Regs \ {q} : reg'[r] = reg[r]
  BY <1>2, <1>3
<1>5. reg'["esp"] = reg["esp"]
  BY <1>3, <1>4
<1> QED BY <1>1, <1>4, <1>5 DEF Framed, Down, Saved, Above, TopOf, given

LEMMA DoPushad ==
  ASSUME Given, UNCHANGED given, AtStart, NEW i, Pushad(i)
  PROVE  /\ reg' \in [Regs -> Word] /\ stack' \in [Word -> Word]
         /\ Framed(32)' /\ Kept({"eax", "ebp", "esi"})'
<1>1. reg = entry /\ stack = before /\ reg \in [Regs -> Word] /\ stack \in [Word -> Word]
      /\ "esp" \in Regs
  BY DEF AtStart, Given, StubTypeOK, Regs
<1>2. Down(0)
  BY <1>1, Slot DEF Down, TopOf, Word
<1>3. /\ Modulus \in Nat /\ entry["esp"] \in 52..(Modulus - 1)
      /\ \A k \in 0..52 : TopOf(k) = entry["esp"] - k /\ TopOf(k) \in Word
  BY <1>2, Stack
<1>4. \A k \in 0..52 : Minus(reg["esp"], k) = TopOf(k)
  BY <1>1, <1>3 DEF Minus
<1>5. reg' = [reg EXCEPT !["esp"] = TopOf(32)]
  <2>1. Minus(reg["esp"], 32) = TopOf(32)
    BY <1>4
  <2>2. reg' = [reg EXCEPT !["esp"] = Minus(@, 32)]
    BY DEF Pushad
  <2> QED BY <2>1, <2>2
<1>6. stack' = [a \in Word |->
        IF \E r \in Regs : a = TopOf(Below[r])
          THEN reg[CHOOSE r \in Regs : a = TopOf(Below[r])] ELSE stack[a]]
  <2>1. \A r \in Regs : Minus(reg["esp"], Below[r]) = TopOf(Below[r])
    BY <1>4, Registers
  <2>2. \A a : (\E r \in Regs : a = Minus(reg["esp"], Below[r]))
                 <=> (\E r \in Regs : a = TopOf(Below[r]))
    BY <2>1
  <2>3. \A a : (CHOOSE r \in Regs : a = Minus(reg["esp"], Below[r]))
                 = (CHOOSE r \in Regs : a = TopOf(Below[r]))
    BY <2>1
  <2> QED BY <2>2, <2>3 DEF Pushad
<1>7. ASSUME NEW r \in Regs PROVE stack'[TopOf(Below[r])] = entry[r]
  <2>1. TopOf(Below[r]) \in Word /\ \A q \in Regs : TopOf(Below[r]) = TopOf(Below[q]) => q = r
    BY <1>3, Registers
  <2>2. (CHOOSE q \in Regs : TopOf(Below[r]) = TopOf(Below[q])) = r
    BY <2>1
  <2> QED BY <1>1, <1>6, <2>1, <2>2
<1>8. ASSUME NEW a \in Word, a >= entry["esp"] PROVE stack'[a] = before[a]
  <2>1. \A r \in Regs : a # TopOf(Below[r])
    BY <1>3, <1>8, Registers DEF Word
  <2> QED BY <1>1, <1>6, <2>1
<1>9. stack' \in [Word -> Word]
  <2>1. ASSUME NEW a \in Word, NEW r \in Regs, a = TopOf(Below[r]) PROVE stack'[a] \in Word
    BY <1>1, <1>7, <2>1
  <2>2. ASSUME NEW a \in Word, ~\E r \in Regs : a = TopOf(Below[r]) PROVE stack'[a] \in Word
    BY <1>1, <1>6, <2>2
  <2>3. \A a \in Word : stack'[a] \in Word
    BY <2>1, <2>2
  <2> QED BY <1>6, <2>3
<1>10. reg' \in [Regs -> Word] /\ reg'["esp"] = TopOf(32)
       /\ \A r \in {"eax", "ebp", "esi"} : reg'[r] = entry[r]
  BY <1>1, <1>3, <1>5 DEF Regs
<1> QED BY <1>7, <1>8, <1>9, <1>10 DEF Framed, Down, Saved, Above, Kept, TopOf, given

LEMMA DoPopad ==
  ASSUME Given, UNCHANGED given, Framed(32), NEW i, Popad(i)
  PROVE  reg' \in [Regs -> Word] /\ AtEnd'
<1>1. Down(32) /\ Saved /\ Above
  BY DEF Framed
<1>2. /\ \A k \in 0..32 : Plus(reg["esp"], k) = TopOf(32 - k)
      /\ TopOf(0) = entry["esp"]
  BY <1>1, Stack, Slot DEF TopOf
<1>3. entry \in [Regs -> Word]
  BY DEF Given, StubTypeOK
<1>4. ASSUME NEW r \in Regs PROVE stack[Plus(reg["esp"], 32 - Below[r])] = entry[r]
  <2>1. 32 - Below[r] \in 0..32 /\ 32 - (32 - Below[r]) = Below[r]
    BY Registers
  <2> QED BY <1>1, <1>2, <2>1 DEF Saved
<1>5. Plus(reg["esp"], 32) = entry["esp"]
  BY <1>2
<1>6. reg' = [r \in Regs |-> entry[r]]
  BY <1>4, <1>5 DEF Popad
<1>7. reg' = entry
  BY <1>3, <1>6
<1> QED BY <1>1, <1>3, <1>7 DEF AtEnd, Above, Popad, given

LEMMA DoPreHook ==
  ASSUME Given, UNCHANGED given, NEW len \in {3, 4}, Takes(len),
         NEW n \in {48, 52}, n = 36 + 4 * len,
         NEW off \in 0..31, Framed(n), Returns(n, off), PreHook
  PROVE  /\ reg' \in [Regs -> Word] /\ stack' \in [Word -> Word]
         /\ Framed(n - 4)' /\ eip' = hook + off
<1>1. Down(n) /\ Saved /\ Above /\ n \in 0..52
  BY DEF Framed
<1>2. /\ Modulus \in Nat /\ entry["esp"] \in 52..(Modulus - 1)
      /\ \A k \in 0..52 : TopOf(k) = entry["esp"] - k /\ TopOf(k) \in Word
      /\ reg["esp"] = TopOf(n)
      /\ \A k \in 0..n : Plus(reg["esp"], k) = TopOf(n - k)
  BY <1>1, Stack
<1>3. reg \in [Regs -> Word] /\ stack \in [Word -> Word] /\ Values \subseteq Word
  BY StubAssumption DEF Given, StubTypeOK
<1>4. Plus(reg["esp"], 4) = TopOf(n - 4) /\ TopOf(n - 4) \in Word
  <2>1. 4 \in 0..n /\ n - 4 \in 0..52
    OBVIOUS
  <2> QED BY <1>2, <2>1
<1>5. PICK v \in Values :
        /\ reg' = [r \in Regs |->
             CASE r \in {"eax", "ecx", "edx"} -> v
               [] r = "esp" -> TopOf(n - 4)
               [] OTHER -> reg[r]]
        /\ stack' = [a \in Word |->
             IF a < reg["esp"] + 4 + 4 * Len(Parameters(kind)) THEN v ELSE stack[a]]
  BY <1>4 DEF PreHook
<1>13. TopOf(32) = entry["esp"] - 32 /\ TopOf(32) \in Word
  BY <1>2
<1>6. reg["esp"] + 4 + 4 * Len(Parameters(kind)) = TopOf(32)
  <2>1. 4 + 4 * len = n - 32 /\ Len(Parameters(kind)) = len
    BY DEF Takes
  <2>2. reg["esp"] = entry["esp"] - n /\ TopOf(32) = entry["esp"] - 32 /\ entry["esp"] \in Int
    BY <1>2 DEF TopOf
  <2> QED BY <2>1, <2>2
<1>7. \A a \in Word : a >= TopOf(32) => stack'[a] = stack[a]
  <2> TAKE a \in Word
  <2> HAVE a >= TopOf(32)
  <2>1. ~(a < TopOf(32))
    BY <1>2, <1>13 DEF Word
  <2> QED BY <1>5, <1>6, <2>1
<1>8. reg' \in [Regs -> Word] /\ reg'["esp"] = TopOf(n - 4)
  BY <1>3, <1>4, <1>5 DEF Regs
<1>9. stack' \in [Word -> Word]
  BY <1>3, <1>5
<1>10. Saved'
  <2> SUFFICES ASSUME NEW r \in Regs PROVE stack'[TopOf(Below[r])] = entry[r]
    BY DEF Saved, TopOf, given
  <2>1. TopOf(Below[r]) \in Word /\ TopOf(Below[r]) >= TopOf(32)
    <3>1. Below[r] \in 4..32
      BY Registers
    <3>2. TopOf(Below[r]) \in Word /\ TopOf(Below[r]) = entry["esp"] - Below[r]
      BY <1>2, <3>1
    <3> QED BY <1>2, <1>13, <3>1, <3>2
  <2> QED BY <1>1, <1>7, <2>1 DEF Saved
<1>11. Above'
  <2> SUFFICES ASSUME NEW a \in Word, a >= entry["esp"] PROVE stack'[a] = before[a]
    BY DEF Above, given
  <2>1. a >= TopOf(32)
    BY <1>2, <1>13 DEF Word
  <2> QED BY <1>1, <1>7, <2>1 DEF Above
<1>12. eip' = hook + off
  BY <1>2 DEF PreHook, Returns
<1> QED BY <1>8, <1>9, <1>10, <1>11, <1>12 DEF Framed, Down, TopOf, given

-----------------------------------------------------------------------------
(* Which instruction it is. *)

LEMMA Operations ==
  ASSUME NEW i
  PROVE  /\ Pushad(i) => At(i, "pushad")
         /\ Lea(i) => At(i, "lea")
         /\ PushReg(i) => At(i, "push")
         /\ Call(i) => At(i, "call")
         /\ Add(i) => At(i, "add")
         /\ Popad(i) => At(i, "popad")
         /\ Jmp(i) => At(i, "jmp")
  BY DEF Pushad, Lea, PushReg, Call, Add, Popad, Jmp

LEMMA Located ==
  ASSUME Given, NEW at \in 0..26, NEW size \in 1..5, NEW op, NEW r, NEW imm, NEW o,
         At(Ins(at, size, op, r, imm), o)
  PROVE  /\ eip = hook + at /\ o = op /\ UNCHANGED given
         /\ NextIns(Ins(at, size, op, r, imm)) = hook + at + size
<1>1. at \in 0..31 /\ at + size \in 0..31
  OBVIOUS
<1>2. Plus(hook, at) = hook + at /\ Plus(hook, at + size) = hook + (at + size)
  BY <1>1, InSlot
<1>3. hook \in Nat
  BY Slot
<1> QED BY <1>2, <1>3 DEF At, Ins, NextIns

SpecificStep ==
  \/ Pushad(Ins(0, 1, "pushad", "esp", 0))
  \/ Lea(Ins(1, 4, "lea", "eax", 32))
  \/ PushReg(Ins(5, 1, "push", "esi", 0))
  \/ PushReg(Ins(6, 1, "push", "ebp", 0))
  \/ PushReg(Ins(7, 1, "push", "eax", 0))
  \/ Call(Ins(8, 5, "call", "esp", Displacement(pre, Plus(hook, 9))))
  \/ Add(Ins(13, 3, "add", "esp", 12))
  \/ Popad(Ins(16, 1, "popad", "esp", 0))
  \/ Jmp(Ins(17, 5, "jmp", "esp", Displacement(orig, Plus(hook, 18))))

GenericStep ==
  \/ Pushad(Ins(0, 1, "pushad", "esp", 0))
  \/ Lea(Ins(1, 4, "lea", "ebx", 32))
  \/ PushReg(Ins(5, 1, "push", "esi", 0))
  \/ PushReg(Ins(6, 1, "push", "ebp", 0))
  \/ PushReg(Ins(7, 1, "push", "ebx", 0))
  \/ PushReg(Ins(8, 1, "push", "eax", 0))
  \/ Call(Ins(9, 5, "call", "esp", Displacement(pre, Plus(hook, 10))))
  \/ Add(Ins(14, 3, "add", "esp", 16))
  \/ Popad(Ins(17, 1, "popad", "esp", 0))
  \/ Jmp(Ins(18, 5, "jmp", "esp", Displacement(orig, Plus(hook, 19))))

LEMMA OneOperation ==
  ASSUME Given, NEW at \in 0..26, NEW size \in 1..5, NEW op, NEW r, NEW imm, NEW i,
         i = Ins(at, size, op, r, imm),
         Pushad(i) \/ Lea(i) \/ PushReg(i) \/ Call(i) \/ Add(i) \/ Popad(i) \/ Jmp(i)
  PROVE  /\ op = "pushad" => Pushad(i)
         /\ op = "lea" => Lea(i)
         /\ op = "push" => PushReg(i)
         /\ op = "call" => Call(i)
         /\ op = "add" => Add(i)
         /\ op = "popad" => Popad(i)
         /\ op = "jmp" => Jmp(i)
<1>1. \A o : At(i, o) => o = op
  BY Located
<1> QED BY <1>1, Operations

LEMMA SpecificFetch ==
  ASSUME Given, kind = "specific", Execute
  PROVE  SpecificStep
<1> DEFINE call == Displacement(pre, Plus(hook, 9))
           jump == Displacement(orig, Plus(hook, 18))
<1>1. code = SpecificCode(32, call, jump)
  BY DEF Given, _vb6_set_pre_hook
<1>2. /\ DOMAIN code = 1..9
      /\ code[1] = Ins(0, 1, "pushad", "esp", 0) /\ code[2] = Ins(1, 4, "lea", "eax", 32)
      /\ code[3] = Ins(5, 1, "push", "esi", 0)   /\ code[4] = Ins(6, 1, "push", "ebp", 0)
      /\ code[5] = Ins(7, 1, "push", "eax", 0)   /\ code[6] = Ins(8, 5, "call", "esp", call)
      /\ code[7] = Ins(13, 3, "add", "esp", 12)  /\ code[8] = Ins(16, 1, "popad", "esp", 0)
      /\ code[9] = Ins(17, 5, "jmp", "esp", jump)
  BY <1>1 DEF SpecificCode
<1>3. PICK k \in 1..9 : \/ Pushad(code[k]) \/ Lea(code[k]) \/ PushReg(code[k]) \/ Call(code[k])
                        \/ Add(code[k]) \/ Popad(code[k]) \/ Jmp(code[k])
  BY <1>2 DEF Execute
<1>4. CASE k = 1
  BY <1>2, <1>3, <1>4, OneOperation DEF SpecificStep
<1>5. CASE k = 2
  BY <1>2, <1>3, <1>5, OneOperation DEF SpecificStep
<1>6. CASE k = 3
  BY <1>2, <1>3, <1>6, OneOperation DEF SpecificStep
<1>7. CASE k = 4
  BY <1>2, <1>3, <1>7, OneOperation DEF SpecificStep
<1>8. CASE k = 5
  BY <1>2, <1>3, <1>8, OneOperation DEF SpecificStep
<1>9. CASE k = 6
  BY <1>2, <1>3, <1>9, OneOperation DEF SpecificStep
<1>10. CASE k = 7
  BY <1>2, <1>3, <1>10, OneOperation DEF SpecificStep
<1>11. CASE k = 8
  BY <1>2, <1>3, <1>11, OneOperation DEF SpecificStep
<1>12. CASE k = 9
  BY <1>2, <1>3, <1>12, OneOperation DEF SpecificStep
<1> QED BY <1>4, <1>5, <1>6, <1>7, <1>8, <1>9, <1>10, <1>11, <1>12

LEMMA GenericFetch ==
  ASSUME Given, kind = "generic", Execute
  PROVE  GenericStep
<1> DEFINE call == Displacement(pre, Plus(hook, 10))
           jump == Displacement(orig, Plus(hook, 19))
<1>1. code = GenericCode(16, call, jump)
  BY DEF Given, _vb6_set_generic_pre_hook
<1>2. /\ DOMAIN code = 1..10
      /\ code[1] = Ins(0, 1, "pushad", "esp", 0) /\ code[2] = Ins(1, 4, "lea", "ebx", 32)
      /\ code[3] = Ins(5, 1, "push", "esi", 0)   /\ code[4] = Ins(6, 1, "push", "ebp", 0)
      /\ code[5] = Ins(7, 1, "push", "ebx", 0)   /\ code[6] = Ins(8, 1, "push", "eax", 0)
      /\ code[7] = Ins(9, 5, "call", "esp", call) /\ code[8] = Ins(14, 3, "add", "esp", 16)
      /\ code[9] = Ins(17, 1, "popad", "esp", 0) /\ code[10] = Ins(18, 5, "jmp", "esp", jump)
  BY <1>1 DEF GenericCode
<1>3. PICK k \in 1..10 : \/ Pushad(code[k]) \/ Lea(code[k]) \/ PushReg(code[k]) \/ Call(code[k])
                        \/ Add(code[k]) \/ Popad(code[k]) \/ Jmp(code[k])
  BY <1>2 DEF Execute
<1>4. CASE k = 1
  BY <1>2, <1>3, <1>4, OneOperation DEF GenericStep
<1>5. CASE k = 2
  BY <1>2, <1>3, <1>5, OneOperation DEF GenericStep
<1>6. CASE k = 3
  BY <1>2, <1>3, <1>6, OneOperation DEF GenericStep
<1>7. CASE k = 4
  BY <1>2, <1>3, <1>7, OneOperation DEF GenericStep
<1>8. CASE k = 5
  BY <1>2, <1>3, <1>8, OneOperation DEF GenericStep
<1>9. CASE k = 6
  BY <1>2, <1>3, <1>9, OneOperation DEF GenericStep
<1>10. CASE k = 7
  BY <1>2, <1>3, <1>10, OneOperation DEF GenericStep
<1>11. CASE k = 8
  BY <1>2, <1>3, <1>11, OneOperation DEF GenericStep
<1>12. CASE k = 9
  BY <1>2, <1>3, <1>12, OneOperation DEF GenericStep
<1>13. CASE k = 10
  BY <1>2, <1>3, <1>13, OneOperation DEF GenericStep
<1> QED BY <1>4, <1>5, <1>6, <1>7, <1>8, <1>9, <1>10, <1>11, <1>12, <1>13

-----------------------------------------------------------------------------
(* The instructions at their places. *)

\* What was pushed down to the word n stays where it is.
Undisturbed(n) ==
  \A k \in 0..n, r \in Regs : Pushed(k, r) => Pushed(k, r)'

LEMMA PushKeeps ==
  ASSUME Given, UNCHANGED given, NEW n \in 32..48,
         \A k \in 0..n : stack'[TopOf(k)] = stack[TopOf(k)]
  PROVE  Undisturbed(n)
  BY DEF Undisturbed, Pushed, TopOf, given

LEMMA SlotWords ==
  ASSUME Given
  PROVE  \A off \in 0..31 : hook + off \in Word
  BY Slot DEF Word

LEMMA AtPushad ==
  ASSUME Given, AtStart, Pushad(Ins(0, 1, "pushad", "esp", 0))
  PROVE  Given' /\ AfterPushad'
<1> DEFINE i == Ins(0, 1, "pushad", "esp", 0)
<1>1. At(i, "pushad") /\ eip' = NextIns(i)
  BY DEF Pushad
<1>2. UNCHANGED given /\ NextIns(i) = hook + 0 + 1
  BY <1>1, Located
<1>3. /\ reg' \in [Regs -> Word] /\ stack' \in [Word -> Word]
      /\ Framed(32)' /\ Kept({"eax", "ebp", "esi"})'
  BY <1>2, DoPushad
<1>4. eip' = hook + 1 /\ hook' = hook
  BY <1>1, <1>2, Slot DEF given
<1>5. Given'
  BY <1>2, <1>3, <1>4, SlotWords, GivenNext
<1> QED BY <1>3, <1>4, <1>5 DEF AfterPushad

LEMMA AtLea ==
  ASSUME Given, AfterPushad, NEW q \in {"eax", "ebx"}, Lea(Ins(1, 4, "lea", q, 32))
  PROVE  /\ Given' /\ eip' = hook' + 5 /\ Framed(32)' /\ reg'[q] = TopOf(0)'
         /\ Kept({"eax", "ebp", "esi"} \ {q})'
<1> DEFINE i == Ins(1, 4, "lea", q, 32)
<1>1. /\ At(i, "lea") /\ eip' = NextIns(i) /\ UNCHANGED stack
      /\ reg' = [reg EXCEPT ![q] = Plus(reg["esp"], 32)]
  BY DEF Lea, Ins
<1>2. UNCHANGED given /\ NextIns(i) = hook + 1 + 4
  BY <1>1, Located
<1>3. Framed(32) /\ Kept({"eax", "ebp", "esi"})
  BY DEF AfterPushad
<1>4. /\ reg' \in [Regs -> Word] /\ Framed(32)' /\ reg'[q] = TopOf(0)
      /\ \A r \in Regs \ {q} : reg'[r] = reg[r]
  BY <1>1, <1>2, <1>3, DoLea
<1>5. eip' = hook + 5 /\ hook' = hook
  BY <1>1, <1>2, Slot DEF given
<1>6. stack' \in [Word -> Word] /\ eip' \in Word
  BY <1>1, <1>5, SlotWords DEF Given, StubTypeOK
<1>7. Given' /\ TopOf(0)' = TopOf(0)
  BY <1>2, <1>4, <1>6, GivenNext
<1>8. Kept({"eax", "ebp", "esi"} \ {q})'
  BY <1>2, <1>3, <1>4 DEF Kept, given, Regs
<1> QED BY <1>4, <1>5, <1>7, <1>8

LEMMA AtPush ==
  ASSUME Given, NEW at \in 5..8, NEW r \in Regs, NEW n \in {32, 36, 40, 44}, Framed(n),
         PushReg(Ins(at, 1, "push", r, 0))
  PROVE  /\ Given' /\ eip' = hook' + at + 1 /\ Framed(n + 4)' /\ Undisturbed(n)
         /\ stack'[TopOf(n + 4)'] = reg[r]
         /\ hook' = hook /\ entry' = entry /\ \A k : TopOf(k)' = TopOf(k)
         /\ \A q \in Regs \ {"esp"} : reg'[q] = reg[q]
<1> DEFINE i == Ins(at, 1, "push", r, 0)
<1>1. At(i, "push") /\ eip' = NextIns(i) /\ Push(reg[r])
  BY DEF PushReg, Ins
<1>2. UNCHANGED given /\ NextIns(i) = hook + at + 1
  BY <1>1, Located
<1>3. n \in 32..48 /\ reg[r] \in Word
  BY DEF Given, StubTypeOK
<1>4. /\ reg' \in [Regs -> Word] /\ stack' \in [Word -> Word]
      /\ Framed(n + 4)' /\ stack'[TopOf(n + 4)] = reg[r]
      /\ \A k \in 0..n : stack'[TopOf(k)] = stack[TopOf(k)]
      /\ \A q \in Regs \ {"esp"} : reg'[q] = reg[q]
  BY <1>1, <1>2, <1>3, DoPush
<1>5. eip' = hook + at + 1 /\ hook' = hook /\ entry' = entry
  BY <1>1, <1>2 DEF given
<1>6. eip' \in Word
  <2>1. at + 1 \in 0..31 /\ hook + at + 1 = hook + (at + 1)
    BY Slot
  <2> QED BY <1>5, <2>1, SlotWords
<1>7. Given' /\ \A k : TopOf(k)' = TopOf(k)
  BY <1>2, <1>4, <1>6, GivenNext
<1>8. Undisturbed(n)
  BY <1>2, <1>3, <1>4, PushKeeps
<1> QED BY <1>4, <1>5, <1>7, <1>8

LEMMA AtCall ==
  ASSUME Given, NEW at \in 8..9, NEW n \in {44, 48}, Framed(n),
         Call(Ins(at, 5, "call", "esp", Displacement(pre, Plus(hook, at + 1))))
  PROVE  /\ Given' /\ eip' = pre' /\ Framed(n + 4)' /\ Returns(n + 4, at + 5)'
         /\ Undisturbed(n)
<1> DEFINE i == Ins(at, 5, "call", "esp", Displacement(pre, Plus(hook, at + 1)))
<1>1. /\ At(i, "call") /\ Push(NextIns(i))
      /\ eip' = Plus(NextIns(i), Displacement(pre, Plus(hook, at + 1)))
  BY DEF Call, Ins
<1>2. UNCHANGED given /\ NextIns(i) = hook + at + 5
  BY <1>1, Located
<1>3. NextIns(i) = Plus(hook, at + 1 + 4) /\ NextIns(i) = hook + (at + 5) /\ NextIns(i) \in Word
  <2>1. at + 1 + 4 \in 0..31 /\ at + 1 + 4 = at + 5
    OBVIOUS
  <2>2. hook + at + 5 = hook + (at + 5)
    BY Slot
  <2> QED BY <1>2, <2>1, <2>2, InSlot, SlotWords
<1>4. eip' = pre
  <2>1. at + 1 \in 0..27 /\ pre \in Word
    BY Slot
  <2> QED BY <1>1, <1>3, <2>1, Reaches
<1>5. /\ reg' \in [Regs -> Word] /\ stack' \in [Word -> Word]
      /\ Framed(n + 4)' /\ stack'[TopOf(n + 4)] = NextIns(i)
      /\ \A k \in 0..n : stack'[TopOf(k)] = stack[TopOf(k)]
  <2>1. n \in 32..48
    OBVIOUS
  <2> QED BY <1>1, <1>2, <1>3, <2>1, DoPush
<1>6. Given' /\ TopOf(n + 4)' = TopOf(n + 4)
  BY <1>2, <1>4, <1>5, Slot, GivenNext
<1>7. Returns(n + 4, at + 5)'
  BY <1>2, <1>3, <1>5, <1>6 DEF Returns, given
<1>8. Undisturbed(n)
  <2>1. n \in 32..48
    OBVIOUS
  <2> QED BY <1>2, <1>5, <2>1, PushKeeps
<1> QED BY <1>2, <1>4, <1>5, <1>6, <1>7, <1>8 DEF given

LEMMA AtAdd ==
  ASSUME Given, NEW at \in 13..14, NEW n \in {44, 48}, NEW c \in {12, 16}, n - c = 32,
         Framed(n), Add(Ins(at, 3, "add", "esp", c))
  PROVE  Given' /\ hook' = hook /\ eip' = hook' + at + 3 /\ Framed(32)'
<1> DEFINE i == Ins(at, 3, "add", "esp", c)
<1>1. /\ At(i, "add") /\ eip' = NextIns(i) /\ UNCHANGED stack
      /\ reg' = [reg EXCEPT !["esp"] = Plus(@, c)]
  BY DEF Add, Ins
<1>2. UNCHANGED given /\ NextIns(i) = hook + at + 3
  BY <1>1, Located
<1>3. n \in 32..48 /\ c \in 0..16
  OBVIOUS
<1>4. reg' \in [Regs -> Word] /\ Framed(32)'
  BY <1>1, <1>2, <1>3, DoAdd
<1>5. eip' = hook + at + 3 /\ hook' = hook
  BY <1>1, <1>2 DEF given
<1>6. eip' \in Word /\ stack' \in [Word -> Word]
  <2>1. at + 3 \in 0..31 /\ hook + at + 3 = hook + (at + 3)
    BY Slot
  <2> QED BY <1>1, <1>5, <2>1, SlotWords DEF Given, StubTypeOK
<1>7. Given'
  BY <1>2, <1>4, <1>6, GivenNext
<1> QED BY <1>4, <1>5, <1>7

LEMMA AtPopad ==
  ASSUME Given, NEW at \in 16..17, Framed(32), Popad(Ins(at, 1, "popad", "esp", 0))
  PROVE  Given' /\ hook' = hook /\ eip' = hook' + at + 1 /\ AtEnd'
<1> DEFINE i == Ins(at, 1, "popad", "esp", 0)
<1>1. At(i, "popad") /\ eip' = NextIns(i) /\ UNCHANGED stack
  BY DEF Popad
<1>2. UNCHANGED given /\ NextIns(i) = hook + at + 1
  BY <1>1, Located
<1>3. reg' \in [Regs -> Word] /\ AtEnd'
  BY <1>2, DoPopad
<1>4. eip' = hook + at + 1 /\ hook' = hook
  BY <1>1, <1>2 DEF given
<1>5. eip' \in Word /\ stack' \in [Word -> Word]
  <2>1. at + 1 \in 0..31 /\ hook + at + 1 = hook + (at + 1)
    BY Slot
  <2> QED BY <1>1, <1>4, <2>1, SlotWords DEF Given, StubTypeOK
<1>6. Given'
  BY <1>2, <1>3, <1>5, GivenNext
<1> QED BY <1>3, <1>4, <1>6

LEMMA AtJump ==
  ASSUME Given, NEW at \in 17..18, AtEnd,
         Jmp(Ins(at, 5, "jmp", "esp", Displacement(orig, Plus(hook, at + 1))))
  PROVE  Given' /\ eip' = orig' /\ AtEnd'
<1> DEFINE i == Ins(at, 5, "jmp", "esp", Displacement(orig, Plus(hook, at + 1)))
<1>1. /\ At(i, "jmp") /\ UNCHANGED <<reg, stack>>
      /\ eip' = Plus(NextIns(i), Displacement(orig, Plus(hook, at + 1)))
  BY DEF Jmp, Ins
<1>2. UNCHANGED given /\ NextIns(i) = hook + at + 5
  BY <1>1, Located
<1>3. NextIns(i) = Plus(hook, at + 1 + 4)
  <2>1. at + 1 + 4 \in 0..31 /\ hook + at + 5 = hook + (at + 1 + 4)
    BY Slot
  <2> QED BY <1>2, <2>1, InSlot
<1>4. eip' = orig
  <2>1. at + 1 \in 0..27 /\ orig \in Word
    BY Slot
  <2> QED BY <1>1, <1>3, <2>1, Reaches
<1>5. Given'
  <2>1. reg' \in [Regs -> Word] /\ stack' \in [Word -> Word] /\ eip' \in Word
    BY <1>1, <1>4, Slot DEF Given, StubTypeOK
  <2> QED BY <1>2, <2>1, GivenNext
<1> QED BY <1>1, <1>2, <1>4, <1>5 DEF AtEnd, Above, given

LEMMA AtPreHook ==
  ASSUME Given, NEW len \in {3, 4}, Takes(len), NEW n \in {48, 52}, n = 36 + 4 * len,
         NEW off \in {13, 14}, Framed(n), Returns(n, off), PreHook
  PROVE  Given' /\ eip' = hook' + off /\ Framed(n - 4)'
<1>1. UNCHANGED given /\ off \in 0..31
  BY DEF PreHook
<1>2. /\ reg' \in [Regs -> Word] /\ stack' \in [Word -> Word]
      /\ Framed(n - 4)' /\ eip' = hook + off
  BY <1>1, DoPreHook
<1>3. Given'
  BY <1>1, <1>2, SlotWords, GivenNext
<1> QED BY <1>1, <1>2, <1>3 DEF given

-----------------------------------------------------------------------------
(* One step of either stub: the invariant says where it is, the lemma of   *)
(* its instruction where that leaves it.                                   *)

LEMMA SpecificExecute ==
  ASSUME Given, kind = "specific", InSpecific, Execute
  PROVE  Given' /\ InSpecific'
<1>1. SpecificStep
  BY SpecificFetch
<1>2. /\ Modulus \in Nat /\ hook \in Nat
      /\ \A t \in {pre, orig} : t < hook \/ t >= hook + 32
      /\ "esi" \in Regs /\ "ebp" \in Regs /\ "eax" \in Regs /\ "ebx" \in Regs
  BY Slot DEF Regs
<1>3. CASE Pushad(Ins(0, 1, "pushad", "esp", 0))
  <2>1. eip = hook + 0
    BY <1>3, Operations, Located
  <2>2. AtStart
    BY <1>2, <2>1 DEF InSpecific, AtStart, AfterPushad
  <2> QED BY <1>3, <2>2, AtPushad DEF InSpecific
<1>4. CASE Lea(Ins(1, 4, "lea", "eax", 32))
  <2>1. eip = hook + 1
    BY <1>4, Operations, Located
  <2>2. AfterPushad
    BY <1>2, <2>1 DEF InSpecific, AtStart, AfterPushad
  <2>3. /\ Given' /\ eip' = hook' + 5 /\ Framed(32)' /\ reg'["eax"] = TopOf(0)'
        /\ Kept({"eax", "ebp", "esi"} \ {"eax"})'
    BY <1>4, <2>2, AtLea
  <2> QED BY <2>3 DEF InSpecific, Kept
<1>5. CASE PushReg(Ins(5, 1, "push", "esi", 0))
  <2>1. eip = hook + 5
    BY <1>5, Operations, Located
  <2>2. Framed(32) /\ Kept({"ebp", "esi"}) /\ reg["eax"] = TopOf(0)
    BY <1>2, <2>1 DEF InSpecific, AtStart, AfterPushad
  <2>3. /\ Given' /\ hook' = hook /\ eip' = hook' + 5 + 1 /\ Framed(32 + 4)' /\ Undisturbed(32)
        /\ stack'[TopOf(32 + 4)'] = reg["esi"] /\ entry' = entry
        /\ \A k : TopOf(k)' = TopOf(k)
        /\ \A q \in Regs \ {"esp"} : reg'[q] = reg[q]
    BY <1>5, <1>2, <2>2, AtPush
  <2>4. OneArg'
    <3>1. reg["esi"] = entry["esi"]
      BY <2>2 DEF Kept, TopOf
    <3>2. Pushed(36, "esi")'
      BY <2>3, <3>1 DEF Pushed
    <3> QED BY <1>2, <2>2, <2>3, <3>2 DEF Undisturbed, OneArg, Regs
  <2>5. eip' = hook' + 6 /\ Framed(36)'
    BY <1>2, <2>3, Slot
  <2> QED BY <1>2, <2>2, <2>3, <2>4, <2>5 DEF InSpecific, Kept, Regs
<1>6. CASE PushReg(Ins(6, 1, "push", "ebp", 0))
  <2>1. eip = hook + 6
    BY <1>6, Operations, Located
  <2>2. Framed(36) /\ Kept({"ebp"}) /\ reg["eax"] = TopOf(0) /\ OneArg
    BY <1>2, <2>1 DEF InSpecific, AtStart, AfterPushad
  <2>3. /\ Given' /\ hook' = hook /\ eip' = hook' + 6 + 1 /\ Framed(36 + 4)' /\ Undisturbed(36)
        /\ stack'[TopOf(36 + 4)'] = reg["ebp"] /\ entry' = entry
        /\ \A k : TopOf(k)' = TopOf(k)
        /\ \A q \in Regs \ {"esp"} : reg'[q] = reg[q]
    BY <1>6, <1>2, <2>2, AtPush
  <2>4. TwoArgs'
    <3>1. reg["ebp"] = entry["ebp"]
      BY <2>2 DEF Kept, TopOf
    <3>2. Pushed(40, "ebp")'
      BY <2>3, <3>1 DEF Pushed
    <3> QED BY <1>2, <2>2, <2>3, <3>2 DEF Undisturbed, OneArg, TwoArgs, Regs
  <2>5. eip' = hook' + 7 /\ Framed(40)'
    BY <1>2, <2>3, Slot
  <2> QED BY <1>2, <2>2, <2>3, <2>4, <2>5 DEF InSpecific, Kept, Regs
<1>7. CASE PushReg(Ins(7, 1, "push", "eax", 0))
  <2>1. eip = hook + 7
    BY <1>7, Operations, Located
  <2>2. Framed(40) /\ reg["eax"] = TopOf(0) /\ TwoArgs
    BY <1>2, <2>1 DEF InSpecific, AtStart, AfterPushad
  <2>3. /\ Given' /\ hook' = hook /\ eip' = hook' + 7 + 1 /\ Framed(40 + 4)' /\ Undisturbed(40)
        /\ stack'[TopOf(40 + 4)'] = reg["eax"] /\ entry' = entry
        /\ \A k : TopOf(k)' = TopOf(k)
        /\ \A q \in Regs \ {"esp"} : reg'[q] = reg[q]
    BY <1>7, <1>2, <2>2, AtPush
  <2>4. ThreeArgs'
    <3>1. reg["eax"] = entry["esp"]
      BY <2>2 DEF Kept, TopOf, Given, StubTypeOK, Regs, Word
    <3>2. Pushed(44, "esp")'
      BY <2>3, <3>1 DEF Pushed
    <3> QED BY <1>2, <2>2, <2>3, <3>2 DEF Undisturbed, OneArg, TwoArgs, ThreeArgs, Regs
  <2>5. eip' = hook' + 8 /\ Framed(44)'
    BY <1>2, <2>3, Slot
  <2> QED BY <1>2, <2>2, <2>3, <2>4, <2>5 DEF InSpecific, Kept, Regs
<1>8. CASE Call(Ins(8, 5, "call", "esp", Displacement(pre, Plus(hook, 9))))
  <2>1. eip = hook + 8
    BY <1>8, Operations, Located
  <2>2. Framed(44) /\ ThreeArgs
    BY <1>2, <2>1 DEF InSpecific, AtStart, AfterPushad
  <2>3. /\ Given' /\ eip' = pre' /\ Framed(44 + 4)' /\ Returns(44 + 4, 8 + 5)'
        /\ Undisturbed(44)
    BY <1>8, <2>2, AtCall
  <2>4. ThreeArgs'
    BY <1>2, <2>2, <2>3 DEF Undisturbed, OneArg, TwoArgs, ThreeArgs, Regs
  <2> QED BY <2>3, <2>4 DEF InSpecific
<1>9. CASE Add(Ins(13, 3, "add", "esp", 12))
  <2>1. eip = hook + 13
    BY <1>9, Operations, Located
  <2>2. Framed(44)
    BY <1>2, <2>1 DEF InSpecific, AtStart, AfterPushad
  <2>3. Given' /\ hook' = hook /\ eip' = hook' + 13 + 3 /\ Framed(32)'
    BY <1>9, <2>2, AtAdd
  <2>4. eip' = hook' + 16
    BY <2>3, Slot
  <2> QED BY <2>3, <2>4 DEF InSpecific
<1>10. CASE Popad(Ins(16, 1, "popad", "esp", 0))
  <2>1. eip = hook + 16
    BY <1>10, Operations, Located
  <2>2. Framed(32)
    BY <1>2, <2>1 DEF InSpecific, AtStart, AfterPushad
  <2>3. Given' /\ hook' = hook /\ eip' = hook' + 16 + 1 /\ AtEnd'
    BY <1>10, <2>2, AtPopad
  <2>4. eip' = hook' + 17
    BY <2>3, Slot
  <2> QED BY <2>3, <2>4 DEF InSpecific
<1>11. CASE Jmp(Ins(17, 5, "jmp", "esp", Displacement(orig, Plus(hook, 18))))
  <2>1. eip = hook + 17
    BY <1>11, Operations, Located
  <2>2. AtEnd
    BY <1>2, <2>1 DEF InSpecific, AtStart, AfterPushad
  <2> QED BY <1>11, <2>2, AtJump DEF InSpecific
<1> QED BY <1>1, <1>3, <1>4, <1>5, <1>6, <1>7, <1>8, <1>9, <1>10, <1>11 DEF SpecificStep

LEMMA GenericExecute ==
  ASSUME Given, kind = "generic", InGeneric, Execute
  PROVE  Given' /\ InGeneric'
<1>1. GenericStep
  BY GenericFetch
<1>2. /\ Modulus \in Nat /\ hook \in Nat
      /\ \A t \in {pre, orig} : t < hook \/ t >= hook + 32
      /\ "esi" \in Regs /\ "ebp" \in Regs /\ "eax" \in Regs /\ "ebx" \in Regs
  BY Slot DEF Regs
<1>3. CASE Pushad(Ins(0, 1, "pushad", "esp", 0))
  <2>1. eip = hook + 0
    BY <1>3, Operations, Located
  <2>2. AtStart
    BY <1>2, <2>1 DEF InGeneric, AtStart, AfterPushad
  <2> QED BY <1>3, <2>2, AtPushad DEF InGeneric
<1>4. CASE Lea(Ins(1, 4, "lea", "ebx", 32))
  <2>1. eip = hook + 1
    BY <1>4, Operations, Located
  <2>2. AfterPushad
    BY <1>2, <2>1 DEF InGeneric, AtStart, AfterPushad
  <2>3. /\ Given' /\ eip' = hook' + 5 /\ Framed(32)' /\ reg'["ebx"] = TopOf(0)'
        /\ Kept({"eax", "ebp", "esi"} \ {"ebx"})'
    BY <1>4, <2>2, AtLea
  <2> QED BY <2>3 DEF InGeneric, Kept
<1>5. CASE PushReg(Ins(5, 1, "push", "esi", 0))
  <2>1. eip = hook + 5
    BY <1>5, Operations, Located
  <2>2. Framed(32) /\ Kept({"eax", "ebp", "esi"}) /\ reg["ebx"] = TopOf(0)
    BY <1>2, <2>1 DEF InGeneric, AtStart, AfterPushad
  <2>3. /\ Given' /\ hook' = hook /\ eip' = hook' + 5 + 1 /\ Framed(32 + 4)' /\ Undisturbed(32)
        /\ stack'[TopOf(32 + 4)'] = reg["esi"] /\ entry' = entry
        /\ \A k : TopOf(k)' = TopOf(k)
        /\ \A q \in Regs \ {"esp"} : reg'[q] = reg[q]
    BY <1>5, <1>2, <2>2, AtPush
  <2>4. OneArg'
    <3>1. reg["esi"] = entry["esi"]
      BY <2>2 DEF Kept, TopOf
    <3>2. Pushed(36, "esi")'
      BY <2>3, <3>1 DEF Pushed
    <3> QED BY <1>2, <2>2, <2>3, <3>2 DEF Undisturbed, OneArg, Regs
  <2>5. eip' = hook' + 6 /\ Framed(36)'
    BY <1>2, <2>3, Slot
  <2> QED BY <1>2, <2>2, <2>3, <2>4, <2>5 DEF InGeneric, Kept, Regs
<1>6. CASE PushReg(Ins(6, 1, "push", "ebp", 0))
  <2>1. eip = hook + 6
    BY <1>6, Operations, Located
  <2>2. Framed(36) /\ Kept({"eax", "ebp"}) /\ reg["ebx"] = TopOf(0) /\ OneArg
    BY <1>2, <2>1 DEF InGeneric, AtStart, AfterPushad
  <2>3. /\ Given' /\ hook' = hook /\ eip' = hook' + 6 + 1 /\ Framed(36 + 4)' /\ Undisturbed(36)
        /\ stack'[TopOf(36 + 4)'] = reg["ebp"] /\ entry' = entry
        /\ \A k : TopOf(k)' = TopOf(k)
        /\ \A q \in Regs \ {"esp"} : reg'[q] = reg[q]
    BY <1>6, <1>2, <2>2, AtPush
  <2>4. TwoArgs'
    <3>1. reg["ebp"] = entry["ebp"]
      BY <2>2 DEF Kept, TopOf
    <3>2. Pushed(40, "ebp")'
      BY <2>3, <3>1 DEF Pushed
    <3> QED BY <1>2, <2>2, <2>3, <3>2 DEF Undisturbed, OneArg, TwoArgs, Regs
  <2>5. eip' = hook' + 7 /\ Framed(40)'
    BY <1>2, <2>3, Slot
  <2> QED BY <1>2, <2>2, <2>3, <2>4, <2>5 DEF InGeneric, Kept, Regs
<1>7. CASE PushReg(Ins(7, 1, "push", "ebx", 0))
  <2>1. eip = hook + 7
    BY <1>7, Operations, Located
  <2>2. Framed(40) /\ Kept({"eax"}) /\ reg["ebx"] = TopOf(0) /\ TwoArgs
    BY <1>2, <2>1 DEF InGeneric, AtStart, AfterPushad
  <2>3. /\ Given' /\ hook' = hook /\ eip' = hook' + 7 + 1 /\ Framed(40 + 4)' /\ Undisturbed(40)
        /\ stack'[TopOf(40 + 4)'] = reg["ebx"] /\ entry' = entry
        /\ \A k : TopOf(k)' = TopOf(k)
        /\ \A q \in Regs \ {"esp"} : reg'[q] = reg[q]
    BY <1>7, <1>2, <2>2, AtPush
  <2>4. ThreeArgs'
    <3>1. reg["ebx"] = entry["esp"]
      BY <2>2 DEF Kept, TopOf, Given, StubTypeOK, Regs, Word
    <3>2. Pushed(44, "esp")'
      BY <2>3, <3>1 DEF Pushed
    <3> QED BY <1>2, <2>2, <2>3, <3>2 DEF Undisturbed, OneArg, TwoArgs, ThreeArgs, Regs
  <2>5. eip' = hook' + 8 /\ Framed(44)'
    BY <1>2, <2>3, Slot
  <2> QED BY <1>2, <2>2, <2>3, <2>4, <2>5 DEF InGeneric, Kept, Regs
<1>8. CASE PushReg(Ins(8, 1, "push", "eax", 0))
  <2>1. eip = hook + 8
    BY <1>8, Operations, Located
  <2>2. Framed(44) /\ Kept({"eax"}) /\ ThreeArgs
    BY <1>2, <2>1 DEF InGeneric, AtStart, AfterPushad
  <2>3. /\ Given' /\ hook' = hook /\ eip' = hook' + 8 + 1 /\ Framed(44 + 4)' /\ Undisturbed(44)
        /\ stack'[TopOf(44 + 4)'] = reg["eax"] /\ entry' = entry
        /\ \A k : TopOf(k)' = TopOf(k)
        /\ \A q \in Regs \ {"esp"} : reg'[q] = reg[q]
    BY <1>8, <1>2, <2>2, AtPush
  <2>4. FourArgs'
    <3>1. reg["eax"] = entry["eax"]
      BY <2>2 DEF Kept, TopOf
    <3>2. Pushed(48, "eax")'
      BY <2>3, <3>1 DEF Pushed
    <3> QED BY <1>2, <2>2, <2>3, <3>2 DEF Undisturbed, OneArg, TwoArgs, ThreeArgs, FourArgs, Regs
  <2>5. eip' = hook' + 9 /\ Framed(48)'
    BY <1>2, <2>3, Slot
  <2> QED BY <1>2, <2>2, <2>3, <2>4, <2>5 DEF InGeneric, Kept, Regs
<1>9. CASE Call(Ins(9, 5, "call", "esp", Displacement(pre, Plus(hook, 10))))
  <2>1. eip = hook + 9
    BY <1>9, Operations, Located
  <2>2. Framed(48) /\ FourArgs
    BY <1>2, <2>1 DEF InGeneric, AtStart, AfterPushad
  <2>3. /\ Given' /\ eip' = pre' /\ Framed(48 + 4)' /\ Returns(48 + 4, 9 + 5)'
        /\ Undisturbed(48)
    BY <1>9, <2>2, AtCall
  <2>4. FourArgs'
    BY <1>2, <2>2, <2>3 DEF Undisturbed, OneArg, TwoArgs, ThreeArgs, FourArgs, Regs
  <2> QED BY <2>3, <2>4 DEF InGeneric
<1>10. CASE Add(Ins(14, 3, "add", "esp", 16))
  <2>1. eip = hook + 14
    BY <1>10, Operations, Located
  <2>2. Framed(48)
    BY <1>2, <2>1 DEF InGeneric, AtStart, AfterPushad
  <2>3. Given' /\ hook' = hook /\ eip' = hook' + 14 + 3 /\ Framed(32)'
    BY <1>10, <2>2, AtAdd
  <2>4. eip' = hook' + 17
    BY <2>3, Slot
  <2> QED BY <2>3, <2>4 DEF InGeneric
<1>11. CASE Popad(Ins(17, 1, "popad", "esp", 0))
  <2>1. eip = hook + 17
    BY <1>11, Operations, Located
  <2>2. Framed(32)
    BY <1>2, <2>1 DEF InGeneric, AtStart, AfterPushad
  <2>3. Given' /\ hook' = hook /\ eip' = hook' + 17 + 1 /\ AtEnd'
    BY <1>11, <2>2, AtPopad
  <2>4. eip' = hook' + 18
    BY <2>3, Slot
  <2> QED BY <2>3, <2>4 DEF InGeneric
<1>12. CASE Jmp(Ins(18, 5, "jmp", "esp", Displacement(orig, Plus(hook, 19))))
  <2>1. eip = hook + 18
    BY <1>12, Operations, Located
  <2>2. AtEnd
    BY <1>2, <2>1 DEF InGeneric, AtStart, AfterPushad
  <2> QED BY <1>12, <2>2, AtJump DEF InGeneric
<1> QED BY <1>1, <1>3, <1>4, <1>5, <1>6, <1>7, <1>8, <1>9, <1>10, <1>11, <1>12 DEF GenericStep

LEMMA PreHookReturns ==
  ASSUME StubInv, PreHook
  PROVE  StubInv'
<1>1. Given /\ \A off \in 0..31 : hook + off # pre
  BY Slot DEF StubInv
<1>2. pre # orig /\ eip = pre /\ kind' = kind
  BY <1>1, Slot DEF PreHook, given, StubInv
<1>3. CASE kind = "specific"
  <2>1. Framed(48) /\ Returns(48, 13)
    BY <1>1, <1>2, <1>3, Slot DEF StubInv, InSpecific, AtStart, AfterPushad
  <2>2. Takes(3)
    BY <1>3 DEF Takes, Parameters
  <2>3. Given' /\ eip' = hook' + 13 /\ Framed(48 - 4)'
    BY <1>1, <2>1, <2>2, AtPreHook
  <2>4. Framed(44)'
    BY <2>3
  <2> QED BY <1>2, <1>3, <2>3, <2>4 DEF StubInv, InSpecific
<1>4. CASE kind = "generic"
  <2>1. Framed(52) /\ Returns(52, 14)
    BY <1>1, <1>2, <1>4, Slot DEF StubInv, InGeneric, AtStart, AfterPushad
  <2>2. Takes(4)
    BY <1>4 DEF Takes, Parameters
  <2>3. Given' /\ eip' = hook' + 14 /\ Framed(52 - 4)'
    BY <1>1, <2>1, <2>2, AtPreHook
  <2>4. Framed(48)'
    BY <2>3
  <2> QED BY <1>2, <1>4, <2>3, <2>4 DEF StubInv, InGeneric
<1> QED BY <1>1, <1>3, <1>4 DEF Given, StubTypeOK

LEMMA StubInvInit ==
  ASSUME Init
  PROVE  StubInv
<1>1. /\ entry = reg /\ before = stack /\ eip = hook /\ reg \in RegFiles
      /\ \E v \in Values : stack = [a \in Word |-> v]
      /\ kind \in {"specific", "generic"} /\ hook \in Bases /\ pre \in Targets
      /\ orig \in Targets \ {pre}
  BY DEF Init
<1>2. /\ reg \in [Regs -> Word] /\ reg["esp"] \in StackNeed..(Modulus - 1)
      /\ Bases \subseteq Word /\ Values \subseteq Word /\ Modulus \in Nat
  BY <1>1, StubAssumption
<1>3. stack \in [Word -> Word]
  BY <1>1, <1>2
<1>4. StubTypeOK
  BY <1>1, <1>2, <1>3 DEF StubTypeOK
<1>5. TopOf(0) \in StackNeed..(Modulus - 1)
  <2>1. reg["esp"] \in Int /\ reg["esp"] - 0 = reg["esp"]
    BY <1>2 DEF StackNeed
  <2> QED BY <1>1, <1>2, <2>1 DEF TopOf
<1>6. Given
  BY <1>4, <1>5 DEF Given, Init
<1> QED BY <1>1, <1>6 DEF StubInv, InSpecific, InGeneric, AtStart

LEMMA StubInvNext ==
  ASSUME StubInv, [Next]_vars
  PROVE  StubInv'
<1>1. CASE UNCHANGED vars
  BY <1>1 DEF StubInv, Given, StubTypeOK, InSpecific, InGeneric, AtStart, AfterPushad, AtEnd,
       Framed, Down, Saved, Above, Kept, Pushed, Returns, OneArg, TwoArgs, ThreeArgs, FourArgs,
       TopOf, vars, given
<1>2. CASE PreHook
  BY <1>2, PreHookReturns
<1>3. CASE Execute
  <2>1. kind' = kind
    BY <1>3 DEF Execute, At, Pushad, Lea, PushReg, Call, Add, Popad, Jmp, given
  <2>2. kind = "specific" => Given' /\ InSpecific'
    BY <1>3, SpecificExecute DEF StubInv
  <2>3. kind = "generic" => Given' /\ InGeneric'
    BY <1>3, GenericExecute DEF StubInv
  <2> QED BY <2>1, <2>2, <2>3 DEF StubInv, Given, StubTypeOK
<1> QED BY <1>1, <1>2, <1>3 DEF Next

(* At every instruction of a stub the registers and the stack hold what    *)
(* the code up to there has made of those of the machine (hook.c:104-131,  *)
(* 164-193).                                                               *)
THEOREM StubInvHolds == Spec => []StubInv
<1>1. Init => StubInv
  BY StubInvInit
<1>2. StubInv /\ [Next]_vars => StubInv'
  BY StubInvNext
<1> QED BY <1>1, <1>2, PTL DEF Spec

(* Every pre-hook finds the registers of the machine as its parameters.    *)
(* The displacement of the call reaches it from any slot (hook.c:115-121). *)
THEOREM ArgumentsHold == Spec => []ArgumentsRight
<1>1. ASSUME StubInv, eip = pre, NEW n \in DOMAIN Parameters(kind)
      PROVE  stack[reg["esp"] + 4 * n] = entry[Parameters(kind)[n]]
  <2>1. Given /\ pre # orig /\ \A off \in 0..31 : pre # hook + off
    BY <1>1, Slot DEF StubInv
  <2>2. CASE kind = "specific"
    <3>1. Framed(48) /\ ThreeArgs
      BY <1>1, <2>1, <2>2, Slot DEF StubInv, InSpecific, AtStart, AfterPushad
    <3>2. reg["esp"] = entry["esp"] - 48 /\ entry["esp"] \in Int
      BY <2>1, <3>1 DEF Framed, Down, TopOf, Given, StubTypeOK, Regs, Word
    <3>3. n \in 1..3 /\ Parameters(kind)[n] = <<"esp", "ebp", "esi">>[n]
      BY <1>1, <2>2 DEF Parameters
    <3> QED BY <3>1, <3>2, <3>3 DEF ThreeArgs, TwoArgs, OneArg, Pushed, TopOf
  <2>3. CASE kind = "generic"
    <3>1. Framed(52) /\ FourArgs
      BY <1>1, <2>1, <2>3, Slot DEF StubInv, InGeneric, AtStart, AfterPushad
    <3>2. reg["esp"] = entry["esp"] - 52 /\ entry["esp"] \in Int
      BY <2>1, <3>1 DEF Framed, Down, TopOf, Given, StubTypeOK, Regs, Word
    <3>3. n \in 1..4 /\ Parameters(kind)[n] = <<"eax", "esp", "ebp", "esi">>[n]
      BY <1>1, <2>3 DEF Parameters
    <3> QED BY <3>1, <3>2, <3>3 DEF FourArgs, ThreeArgs, TwoArgs, OneArg, Pushed, TopOf
  <2> QED BY <2>1, <2>2, <2>3 DEF Given, StubTypeOK
<1>2. StubInv => ArgumentsRight
  BY <1>1 DEF ArgumentsRight
<1> QED BY <1>2, StubInvHolds, PTL

(* Tracing leaves no mark on the machine: the handler starts with every    *)
(* register and every word of the stack as they were at the dispatch       *)
(* (hook.c:123-131).                                                       *)
THEOREM RestoredHolds == Spec => []Restored
<1>1. ASSUME StubInv, eip = orig
      PROVE  AtEnd
  <2>1. Given /\ pre # orig /\ \A off \in 0..31 : orig # hook + off
    BY <1>1, Slot DEF StubInv
  <2>2. InSpecific \/ InGeneric
    BY <1>1 DEF StubInv, Given, StubTypeOK
  <2> QED BY <1>1, <2>1, <2>2, Slot DEF InSpecific, InGeneric, AtStart, AfterPushad
<1>2. StubInv => Restored
  BY <1>1 DEF Restored, AtEnd, Above
<1> QED BY <1>2, StubInvHolds, PTL

(* The processor stays within the bytes the two writers stored, and leaves *)
(* them only for the pre-hook and for the handler: it never meets one of   *)
(* the 0xcc of hook.c:99.                                                  *)
THEOREM OnTrackHolds == Spec => []OnTrack
<1>1. ASSUME StubInv
      PROVE  OnTrack
  <2>1. Given /\ hook \in Nat
    BY <1>1, Slot DEF StubInv
  <2>2. CASE kind = "specific"
    <3>1. /\ InSpecific /\ DOMAIN code = 1..9
          /\ \A k \in 1..9 :
               /\ code[k].at = <<0, 1, 5, 6, 7, 8, 13, 16, 17>>[k]
               /\ code[k].at + code[k].size <= 32
      BY <1>1, <2>1, <2>2 DEF StubInv, Given, _vb6_set_pre_hook, SpecificCode, Ins
    <3>2. \/ eip \in {pre, orig}
          \/ \E k \in 1..9 : eip = hook + <<0, 1, 5, 6, 7, 8, 13, 16, 17>>[k]
      BY <2>1, <3>1 DEF InSpecific, AtStart, AfterPushad
    <3> QED BY <3>1, <3>2 DEF OnTrack, SlotSize
  <2>3. CASE kind = "generic"
    <3>1. /\ InGeneric /\ DOMAIN code = 1..10
          /\ \A k \in 1..10 :
               /\ code[k].at = <<0, 1, 5, 6, 7, 8, 9, 14, 17, 18>>[k]
               /\ code[k].at + code[k].size <= 32
      BY <1>1, <2>1, <2>3 DEF StubInv, Given, _vb6_set_generic_pre_hook, GenericCode, Ins
    <3>2. \/ eip \in {pre, orig}
          \/ \E k \in 1..10 : eip = hook + <<0, 1, 5, 6, 7, 8, 9, 14, 17, 18>>[k]
      BY <2>1, <3>1 DEF InGeneric, AtStart, AfterPushad
    <3> QED BY <3>1, <3>2 DEF OnTrack, SlotSize
  <2> QED BY <2>1, <2>2, <2>3 DEF Given, StubTypeOK
<1> QED BY <1>1, StubInvHolds, PTL
=============================================================================
