------------------------------ MODULE MCNative ------------------------------
(***************************************************************************)
(* Native with two images, the VB6 runtime with exports (page 1) and the   *)
(* program without an export directory (page 4), and heap memory that lies *)
(* in no image (page 7).  The export table of the runtime lists a function *)
(* under two names and its ordinal table is not the identity.              *)
(***************************************************************************)
EXTENDS Native

MCPages == [p \in 0..8 |-> CASE p \in {1, 4} -> "mz"
                             [] p \in {0, 6, 8} -> "gap"
                             [] OTHER -> "mapped"]

(* Addresses: three functions the runtime exports, one of them under a     *)
(* long name, one it does not export, one of the program, one on the heap  *)
(* and one where no memory is.                                             *)
MCPageOf == [a \in {"proc", "meth", "dll", "long", "inner", "own", "heap", "wild"} |->
               CASE a = "proc" -> 2
                 [] a \in {"meth", "dll", "long"} -> 3
                 [] a = "inner" -> 1
                 [] a = "own" -> 5
                 [] a = "heap" -> 7
                 [] a = "wild" -> 8]

MCExports == [p \in {1, 4} |->
  IF p = 4 THEN None
    ELSE [names     |-> <<"DllFunctionCall", "MethCallEngine",
                         "ProcCallEngine", "Alias", "LongName">>,
          ordinals  |-> <<4, 2, 1, 1, 5>>,
          functions |-> <<"proc", "meth", "inner", "dll", "long">>]]

Exported(x) == [image |-> 1, export |-> x]

MCTrueName == [a \in DOMAIN MCPageOf |->
                 CASE a = "proc" -> Exported("ProcCallEngine")
                   [] a = "meth" -> Exported("MethCallEngine")
                   [] a = "dll"  -> Exported("DllFunctionCall")
                   [] a = "long" -> Exported("LongName")
                   [] OTHER -> [image |-> None, export |-> None]]

MCTooLong == {Exported("LongName")}

MCEngine == [k \in Thunks |->
               CASE k = "proc" -> Exported("ProcCallEngine")
                 [] k = "meth" -> Exported("MethCallEngine")
                 [] k = "dyn"  -> Exported("DllFunctionCall")]

I(op, to) == [op |-> op, to |-> to]
Plain(op) == I(op, "own")

(* Sound: f1, an import; f2, f3, f10, thunks; f4, a thunk of another       *)
(* engine; f5, a thunk that does not lead to a ff 25; f6, plain code; f7,  *)
(* code that does not decode; f11, data between a jump and its target.     *)
(* Not sound: f8, f9 and f12 name what lies in no image with exports; f13  *)
(* and f14 follow pointers to nowhere; f15 has no strings; f16 and f17 end *)
(* in the middle; f18 calls a function with a long name.                   *)
Table ==
  [f1  |-> <<"import", TRUE,  "meth", TRUE, <<I("jmpimport", "meth")>>>>,
   f2  |-> <<"proc",   TRUE,  "proc", TRUE, <<Plain("other"), Plain("jmpreg")>>>>,
   f3  |-> <<"meth",   TRUE,  "meth", TRUE, <<Plain("other"), Plain("ret")>>>>,
   f4  |-> <<"dyn",    TRUE,  "proc", TRUE, <<I("movcall", "proc"), Plain("jmpreg")>>>>,
   f5  |-> <<"proc",   FALSE, "proc", TRUE, <<Plain("jmpreg")>>>>,
   f6  |-> <<"other",  FALSE, "own",  TRUE, <<I("call", "inner"), I("call", "meth"),
                                              I("jmpimport", "proc")>>>>,
   f7  |-> <<"other",  FALSE, "own",  TRUE, <<I("call", "proc"), Plain("bad")>>>>,
   f8  |-> <<"other",  FALSE, "own",  TRUE, <<I("call", "own"), Plain("ret")>>>>,
   f9  |-> <<"import", TRUE,  "heap", TRUE, <<I("jmpimport", "heap")>>>>,
   f10 |-> <<"dyn",    TRUE,  "dll",  TRUE, <<I("movcall", "dll"), Plain("jmpreg")>>>>,
   f11 |-> <<"other",  FALSE, "own",  TRUE, <<Plain("jump"), Plain("db"), Plain("ret")>>>>,
   f12 |-> <<"other",  FALSE, "own",  TRUE, <<I("call", "wild"), Plain("ret")>>>>,
   f13 |-> <<"proc",   TRUE,  Nowhere, TRUE, <<Plain("jmpreg")>>>>,
   f14 |-> <<"other",  FALSE, "own",  TRUE, <<Plain("other"), I("jmpimport", Nowhere)>>>>,
   f15 |-> <<"dyn",    TRUE,  "dll",  FALSE, <<Plain("jmpreg")>>>>,
   f16 |-> <<"other",  FALSE, "own",  TRUE, <<Plain("db"), Plain("jump")>>>>,
   f17 |-> <<"torn",   FALSE, "own",  TRUE, <<>>>>,
   f18 |-> <<"other",  FALSE, "own",  TRUE, <<I("call", "long"), Plain("ret")>>>>]

MCFunctions == DOMAIN Table
MCShape == [f \in DOMAIN Table |-> Table[f][1]]
MCVia == [f \in DOMAIN Table |-> Table[f][2]]
MCTarget == [f \in DOMAIN Table |-> Table[f][3]]
MCStrings == [f \in DOMAIN Table |-> Table[f][4]]
MCCode == [f \in DOMAIN Table |-> Table[f][5]]
=============================================================================
