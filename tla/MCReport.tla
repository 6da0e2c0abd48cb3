------------------------------ MODULE MCReport ------------------------------
(***************************************************************************)
(* Small instances of Report: the thread of DllMain with one or two        *)
(* threads of the virtual machine; one or two memory cells; an empty text  *)
(* and one that does not fit into the stream buffer with its newline.      *)
(***************************************************************************)
EXTENDS Report

TwoThreads == {"main", "w1"}
ThreeThreads == {"main", "w1", "w2"}
OneCell == {"operand"}
TwoCells == {"literal", "operand"}
Letters == {"a", NewLine}
EmptyAndLong == {<<>>, <<"a">>}
=============================================================================
