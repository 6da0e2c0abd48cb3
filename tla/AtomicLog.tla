------------------------------ MODULE AtomicLog ------------------------------
(***************************************************************************)
(* What report() promises its callers.  A call looks as if one whole line  *)
(* were appended to the log file, at once and durably, at some moment      *)
(* between the call and its return.  The text is the one the arguments had *)
(* when the call was made; lines of different calls are never mixed, lost  *)
(* or doubled; a process that is killed keeps every line whose call had    *)
(* returned.                                                               *)
(*                                                                         *)
(* The module Report is shown to implement this specification.             *)
(***************************************************************************)
EXTENDS Naturals, Sequences

CONSTANTS
  Threads,     (* threads of the traced process that may log         *)
  Lines,       (* the texts a line of the log may have               *)
  MaxCalls     (* bound on the number of calls of one thread         *)

VARIABLES
  log,         (* the lines that survive a crash, oldest first       *)
  calls,       (* calls[t]: number of calls t has made               *)
  text,        (* text[t]: the text of the latest call of t          *)
  status,      (* status[t]: where t stands in its latest call       *)
  alive        (* FALSE once the process has been killed             *)

vars == <<log, calls, text, status, alive>>

Init ==
  /\ log = <<>>
  /\ calls = [t \in Threads |-> 0]
  /\ text \in [Threads -> Lines \cup {<<>>}]
  /\ status = [t \in Threads |-> "idle"]
  /\ alive = TRUE

Call(t, x) ==
  /\ alive
  /\ status[t] = "idle"
  /\ calls[t] < MaxCalls
  /\ calls' = [calls EXCEPT ![t] = @ + 1]
  /\ text' = [text EXCEPT ![t] = x]
  /\ status' = [status EXCEPT ![t] = "pending"]
  /\ UNCHANGED <<log, alive>>

(* The only step that touches the log: one whole line, at the end of it. *)
Commit(t) ==
  /\ alive
  /\ status[t] = "pending"
  /\ log' = Append(log, [by |-> t, call |-> calls[t], text |-> text[t]])
  /\ status' = [status EXCEPT ![t] = "committed"]
  /\ UNCHANGED <<calls, text, alive>>

Return(t) ==
  /\ alive
  /\ status[t] = "committed"
  /\ status' = [status EXCEPT ![t] = "idle"]
  /\ UNCHANGED <<log, calls, text, alive>>

Kill ==
  /\ alive
  /\ alive' = FALSE
  /\ UNCHANGED <<log, calls, text, status>>

Next ==
  \/ \E t \in Threads :
       \/ \E x \in Lines : Call(t, x)
       \/ Commit(t)
       \/ Return(t)
  \/ Kill

Spec == Init /\ [][Next]_vars
=============================================================================
