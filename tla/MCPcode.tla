------------------------------ MODULE MCPcode ------------------------------
(* Every opcode of every table, with two values of the byte behind a       *)
(* one-byte opcode: an operand, and one that would be a lead byte.         *)
EXTENDS Pcode

BothModes == {"specific", "generic"}

AllCodes == ((0..250) \X {1, 252}) \cup ((251..255) \X (0..255))
=============================================================================
