----------------------------- MODULE MCHookStub -----------------------------
(***************************************************************************)
(* HookStub with words of seven bits: slots at the bottom, in the middle   *)
(* and at the top of memory, and targets below and above each of them, so  *)
(* that displacements are positive, negative and wrap around.              *)
(***************************************************************************)
EXTENDS HookStub

MCBases == {0, 40, 96}
MCTargets == {32, 36, 72, 91}

(* The words of a register file differ, so that none can stand for another. *)
File(first, esp) ==
  [r \in Regs |->
     IF r = "esp" THEN esp ELSE first + Below[r] \div 4]
MCRegFiles == {File(0, 52), File(0, 96), File(110, 124)}

MCValues == {0, 57}
=============================================================================
