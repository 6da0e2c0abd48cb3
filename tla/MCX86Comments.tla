--------------------------- MODULE MCX86Comments ---------------------------
(* What the comment on the segment prefixes says, over pairs of them. *)
EXTENDS X86Properties

Call(bytes, dt, max, features, offset) ==
  [bytes |-> bytes, dt |-> dt, max |-> max, features |-> features, codeOffset |-> offset]
Segments == {46, 54, 100, 101}

SegmentInputs ==
  {{Call(<<p, q>> \o o, dt, 15, {}, 0) :
      p \in Segments, q \in Segments, o \in {<<139, 3>>, <<160, 1, 2, 3, 4, 5, 6, 7, 8>>}, dt \in {16, 32, 64}}}
=============================================================================
