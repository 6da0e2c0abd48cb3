---------------------------- MODULE ReportProofs -----------------------------
(***************************************************************************)
(* Proofs about Report, for any number of threads, cells, texts and calls. *)
(*                                                                         *)
(* None of the properties of Report is inductive by itself.  ReportInv is: *)
(* it adds why the lazy initialisation of the critical section is safe     *)
(* (InitOnce), what the C library may be holding (Buffered) and the types  *)
(* of the lines (IType).  It needs the rule MayCall and holds for RacySpec *)
(* already.  TextInv adds what a line says: that both passes of report()   *)
(* saw the same text (Buffers), for which the rule Stable is needed.       *)
(***************************************************************************)
EXTENDS Report, TLAPS

LineRecs == [by : Threads, call : Nat, text : Seq(Chars \cup {Junk})]

IType == TypeOK /\ disk \in Seq(LineRecs)

(* A thread that is in report() has called it.                             *)
InCall == \A t \in Threads : rpc[t] # "idle" => calls[t] >= 1

(* Until init is 1 only the thread of DllMain is in report(), so it is the *)
(* only one that can read init = 0; whoever is past the initialisation     *)
(* finds init = 1 and the section ready.                                   *)
InitOnce ==
  /\ cs_init = 1 => cs = "ready"
  /\ cs_init = 0 => /\ disk = <<>>
                    /\ \A t \in Threads \ {Main} : rpc[t] = "idle"
  /\ \A t \in Threads :
       /\ rpc[t] \in {"enter"} \cup InSection => cs_init = 1
       /\ rpc[t] \in {"initcs", "setinit"} => cs_init = 0
       /\ rpc[t] = "setinit" => cs = "ready"

Filled == {"test", "initcs", "setinit", "enter", "write", "flush"}

(* The buffer has room for the line and no more. *)
Buffers ==
  \A t \in Threads :
    /\ rpc[t] = "fill" => len[t] = Len(Rendered(arg[t]))
    /\ rpc[t] \in Filled => buf[t] \in LineTexts /\ len[t] = Len(buf[t])

(* The C library holds no line, or the line of the thread about to flush.  *)
Buffered ==
  \/ stream = <<>> /\ ~spilled
  \/ \E t \in Threads : rpc[t] = "flush" /\ stream = <<LineOf(t)>>

(* Whatever was written went to an open file.                              *)
LogOpen == disk # <<>> \/ stream # <<>> => g_fp = "open"

ReportInv ==
  /\ IType
  /\ LogOpen
  /\ InitOnce
  /\ SectionSound
  /\ InCall
  /\ Buffered
  /\ DurableOnReturn
  /\ InCallOrder

TextInv == ReportInv /\ Buffers /\ WholeLines

-----------------------------------------------------------------------------
(***************************************************************************)
(* Lines and sequences.                                                    *)
(***************************************************************************)

(* A line is a sequence of bytes, so its length is a number.               *)
LEMMA LineTextsAreSeqs == LineTexts \subseteq Seq(Chars)
BY ReportAssumption DEF LineTexts

(* What report() formats is a line (report.c:175-267).                     *)
LEMMA RenderedIsLine ==
  ASSUME mem \in [Cells -> Texts], NEW c \in Cells
  PROVE  Rendered(c) \in LineTexts
BY DEF Rendered, LineTexts

(* fwrite() of as many bytes as were formatted writes exactly these.       *)
LEMMA FitWhole ==
  ASSUME NEW s \in Seq(Chars)
  PROVE  Fit(s, Len(s)) = s
<1>1. Len(s) \in Nat /\ DOMAIN s = 1..Len(s)
  OBVIOUS
<1>2. Fit(s, Len(s)) = [i \in 1..Len(s) |-> s[i]]
  BY <1>1 DEF Fit
<1>3. s = [i \in 1..Len(s) |-> s[i]]
  BY <1>1
<1> QED BY <1>2, <1>3

(* Whatever is in the buffer, what fwrite() is given are bytes.            *)
LEMMA LineIsRec ==
  ASSUME IType, NEW t \in Threads
  PROVE  LineOf(t) \in LineRecs
<1>1. buf[t] \in Seq(Chars) /\ len[t] \in Nat /\ calls[t] \in Nat
  <2>1. \A x \in LineTexts : x \in Seq(Chars) /\ Len(x) \in Nat
    BY LineTextsAreSeqs
  <2>2. /\ buf[t] = <<>> \/ buf[t] \in LineTexts
        /\ len[t] = 0 \/ \E x \in LineTexts : len[t] = Len(x)
        /\ calls[t] \in 0..MaxCalls
    BY DEF IType, TypeOK
  <2>3. buf[t] \in Seq(Chars)
    <3>1. <<>> \in Seq(Chars)
      OBVIOUS
    <3> QED BY <2>1, <2>2, <3>1
  <2>4. len[t] \in Nat
    BY <2>1, <2>2
  <2> QED BY <2>2, <2>3, <2>4, ReportAssumption
<1>2. \A i \in 1..len[t] :
        (IF i <= Len(buf[t]) THEN buf[t][i] ELSE Junk) \in Chars \cup {Junk}
  BY <1>1
<1>3. Fit(buf[t], len[t]) \in Seq(Chars \cup {Junk})
  BY <1>1, <1>2 DEF Fit
<1> QED BY <1>1, <1>3 DEF LineOf, LineRecs

(* The line a thread is about to write is the text in its buffer.          *)
LEMMA LineIsBuffer ==
  ASSUME Buffers, NEW t \in Threads, rpc[t] \in Filled
  PROVE  LineOf(t) = [by |-> t, call |-> calls[t], text |-> buf[t]]
<1>1. buf[t] \in LineTexts /\ len[t] = Len(buf[t])
  BY DEF Buffers
<1>2. Fit(buf[t], len[t]) = buf[t]
  BY <1>1, FitWhole, LineTextsAreSeqs
<1> QED BY <1>2 DEF LineOf

(* What fflush() hands over are lines.                                     *)
LEMMA StreamIsLines ==
  ASSUME IType, Buffered
  PROVE  stream \in Seq(LineRecs)
<1>1. CASE stream = <<>>
  BY <1>1
<1>2. CASE \E t \in Threads : rpc[t] = "flush" /\ stream = <<LineOf(t)>>
  BY <1>2, LineIsRec
<1> QED BY <1>1, <1>2 DEF Buffered

-----------------------------------------------------------------------------
(***************************************************************************)
(* The initial states.                                                     *)
(***************************************************************************)
LEMMA InvInit == ReportInit => TextInv
<1> SUFFICES ASSUME ReportInit PROVE TextInv
  OBVIOUS
<1> USE ReportAssumption DEF ReportInit
<1>1. IType
  <2>1. arg \in [Threads -> Cells]
    OBVIOUS
  <2>2. len \in [Threads -> {0} \cup {Len(x) : x \in LineTexts}]
    OBVIOUS
  <2>3. /\ rpc \in [Threads -> Steps]
        /\ buf \in [Threads -> {<<>>} \cup LineTexts]
        /\ calls \in [Threads -> 0..MaxCalls]
    BY DEF Steps
  <2>4. spilled \in BOOLEAN /\ alive \in BOOLEAN
    OBVIOUS
  <2>5. disk \in Seq(LineRecs)
    OBVIOUS
  <2> QED BY <2>1, <2>2, <2>3, <2>4, <2>5 DEF IType, TypeOK
<1>2. InitOnce
  BY DEF InitOnce, InSection
<1>3. SectionSound
  BY DEF SectionSound, InSection
<1>4. InCall /\ Buffers /\ WholeLines
  BY DEF InCall, Buffers, Filled, WholeLines
<1>5. Buffered
  BY DEF Buffered
<1>6. DurableOnReturn
  BY DEF DurableOnReturn, CommittedCalls, Committed
<1>7. InCallOrder
  BY DEF InCallOrder
<1>8. LogOpen
  BY DEF LogOpen
<1> QED BY <1>1, <1>2, <1>3, <1>4, <1>5, <1>6, <1>7, <1>8 DEF ReportInv, TextInv

-----------------------------------------------------------------------------
(***************************************************************************)
(* The steps.                                                              *)
(***************************************************************************)
(* The file stays a sequence of lines when the stream is flushed.          *)
LEMMA FlushedAreLines ==
  ASSUME ReportInv, FlushStream
  PROVE  spilled' \in BOOLEAN /\ disk' \in Seq(LineRecs)
<1>1. stream \in Seq(LineRecs)
  BY StreamIsLines DEF ReportInv
<1>2. disk \in Seq(LineRecs)
  BY DEF ReportInv, IType
<1>3. disk \o stream \in Seq(LineRecs)
  BY <1>1, <1>2
<1> QED BY <1>3 DEF FlushStream

(* Every step keeps every variable within its type.                        *)
LEMMA TypeStep ==
  ASSUME ReportInv, [RacyNext]_reportVars
  PROVE  IType'
<1> USE ReportAssumption DEF ReportInv, IType, TypeOK, Steps, LineTexts,
        logVars, lockVars, callVars, Goto
<1>1. CASE OpenLog
  BY <1>1 DEF OpenLog
<1>2. ASSUME NEW t \in Threads, NEW c \in Cells, Call(t, c)
      PROVE  IType'
  BY <1>2 DEF Call
<1>3. ASSUME NEW t \in Threads, SizePass(t)
      PROVE  IType'
  BY <1>3, RenderedIsLine DEF SizePass
<1>4. ASSUME NEW t \in Threads, FillPass(t)
      PROVE  IType'
  BY <1>4, RenderedIsLine DEF FillPass
<1>5. ASSUME NEW t \in Threads,
             TestInit(t) \/ InitSection(t) \/ SetInit(t) \/ Enter(t) \/ Leave(t)
      PROVE  IType'
  BY <1>5 DEF TestInit, InitSection, SetInit, Enter, Leave
<1>6. ASSUME NEW t \in Threads, Write(t)
      PROVE  IType'
  BY <1>6 DEF Write
<1>7. ASSUME NEW t \in Threads, Flush(t)
      PROVE  IType'
  <2>1. spilled' \in BOOLEAN /\ disk' \in Seq(LineRecs)
    BY <1>7, FlushedAreLines DEF Flush
  <2> QED BY <1>7, <2>1 DEF Flush
<1>8. CASE FlushAll
  <2>1. spilled' \in BOOLEAN /\ disk' \in Seq(LineRecs)
    BY <1>8, FlushedAreLines DEF FlushAll
  <2> QED BY <1>8, <2>1 DEF FlushAll
<1>9. CASE Kill
  BY <1>9 DEF Kill
<1>10. ASSUME NEW c \in Cells, NEW x \in Texts, Mutate(c, x)
       PROVE  IType'
  BY <1>10 DEF Mutate
<1>11. CASE UNCHANGED reportVars
  BY <1>11 DEF reportVars
<1> QED
  BY <1>1, <1>2, <1>3, <1>4, <1>5, <1>6, <1>7, <1>8, <1>9, <1>10, <1>11
  DEF RacyNext, ReportNext, ReportStep, Terminating

(* The lazy initialisation happens once, in the thread of DllMain, before  *)
(* any other thread calls report().                                        *)
LEMMA InitOnceStep ==
  ASSUME ReportInv, [RacyNext]_reportVars
  PROVE  InitOnce'
<1> /\ rpc \in [Threads -> Steps]
    /\ cs_init \in {0, 1}
    /\ cs \in {"raw", "ready", "broken"}
    /\ owner \in Threads \cup {NoThread}
    /\ stream \in Seq(LineRecs)
    /\ disk \in Seq(LineRecs)
  BY StreamIsLines DEF ReportInv, IType, TypeOK
<1> InitOnce /\ SectionSound /\ Buffered
  BY DEF ReportInv
<1> USE ReportAssumption DEF InitOnce, InSection, logVars, lockVars, Goto
<1>1. CASE OpenLog
  BY <1>1 DEF OpenLog
<1>2. ASSUME NEW t \in Threads, NEW c \in Cells, MayCall(t), Call(t, c)
      PROVE  InitOnce'
  BY <1>2 DEF Call, MayCall
<1>3. ASSUME NEW t \in Threads, SizePass(t) \/ FillPass(t)
      PROVE  InitOnce'
  BY <1>3 DEF SizePass, FillPass
<1>4. ASSUME NEW t \in Threads, TestInit(t)
      PROVE  InitOnce'
  BY <1>4 DEF TestInit
<1>5. ASSUME NEW t \in Threads, InitSection(t)
      PROVE  InitOnce'
  BY <1>5 DEF InitSection
<1>6. ASSUME NEW t \in Threads, SetInit(t)
      PROVE  InitOnce'
  BY <1>6 DEF SetInit
<1>7. ASSUME NEW t \in Threads, Enter(t)
      PROVE  InitOnce'
  BY <1>7 DEF Enter
<1>8. ASSUME NEW t \in Threads, Write(t)
      PROVE  InitOnce'
  BY <1>8 DEF Write
<1>9. cs_init = 0 => disk \o stream = <<>>
  BY DEF Buffered
<1>10. ASSUME NEW t \in Threads, Flush(t)
       PROVE  InitOnce'
  BY <1>9, <1>10 DEF Flush, FlushStream
<1>11. CASE FlushAll
  BY <1>9, <1>11 DEF FlushAll, FlushStream
<1>12. ASSUME NEW t \in Threads, Leave(t)
       PROVE  InitOnce'
  BY <1>12 DEF Leave, SectionSound
<1>13. CASE Kill
  BY <1>13 DEF Kill
<1>14. ASSUME NEW c \in Cells, NEW x \in Texts, Mutate(c, x)
       PROVE  InitOnce'
  BY <1>14 DEF Mutate
<1>15. CASE UNCHANGED reportVars
  BY <1>15 DEF reportVars
<1> QED
  BY <1>1, <1>2, <1>3, <1>4, <1>5, <1>6, <1>7, <1>8, <1>10, <1>11, <1>12,
     <1>13, <1>14, <1>15
  DEF RacyNext, ReportNext, ReportStep, Terminating

(* The file is opened once, and written only when it is open.              *)
LEMMA LogOpenStep ==
  ASSUME ReportInv, [RacyNext]_reportVars
  PROVE  LogOpen'
<1> LogOpen /\ stream \in Seq(LineRecs) /\ disk \in Seq(LineRecs)
  BY StreamIsLines DEF ReportInv, IType
<1> USE DEF LogOpen, logVars, Goto
<1>1. CASE OpenLog
  BY <1>1 DEF OpenLog
<1>2. ASSUME NEW t \in Threads, NEW c \in Cells, Call(t, c)
      PROVE  LogOpen'
  BY <1>2 DEF Call
<1>3. ASSUME NEW t \in Threads,
             \/ SizePass(t) \/ FillPass(t) \/ TestInit(t) \/ InitSection(t)
             \/ SetInit(t) \/ Enter(t) \/ Leave(t)
      PROVE  LogOpen'
  BY <1>3 DEF SizePass, FillPass, TestInit, InitSection, SetInit, Enter, Leave
<1>4. ASSUME NEW t \in Threads, Write(t)
      PROVE  LogOpen'
  BY <1>4 DEF Write
<1>5. disk \o stream # <<>> => disk # <<>> \/ stream # <<>>
  OBVIOUS
<1>6. ASSUME NEW t \in Threads, Flush(t)
      PROVE  LogOpen'
  BY <1>5, <1>6 DEF Flush, FlushStream
<1>7. CASE FlushAll
  BY <1>5, <1>7 DEF FlushAll, FlushStream
<1>8. CASE Kill
  BY <1>8 DEF Kill
<1>9. ASSUME NEW c \in Cells, NEW x \in Texts, Mutate(c, x)
      PROVE  LogOpen'
  BY <1>9 DEF Mutate
<1>10. CASE UNCHANGED reportVars
  BY <1>10 DEF reportVars
<1> QED
  BY <1>1, <1>2, <1>3, <1>4, <1>6, <1>7, <1>8, <1>9, <1>10
  DEF RacyNext, ReportNext, ReportStep, Terminating

(* EnterCriticalSection lets one thread in, and only that thread leaves.   *)
LEMMA SectionStep ==
  ASSUME ReportInv, [RacyNext]_reportVars
  PROVE  SectionSound'
<1> /\ rpc \in [Threads -> Steps]
    /\ owner \in Threads \cup {NoThread}
    /\ cs_init \in {0, 1}
    /\ InitOnce
    /\ SectionSound
  BY DEF ReportInv, IType, TypeOK
<1> USE ReportAssumption DEF SectionSound, InSection, logVars, lockVars, Goto
<1>1. ASSUME NEW t \in Threads, NEW c \in Cells, Call(t, c)
      PROVE  SectionSound'
  BY <1>1 DEF Call
<1>2. ASSUME NEW t \in Threads,
             SizePass(t) \/ FillPass(t) \/ TestInit(t) \/ SetInit(t)
      PROVE  SectionSound'
  BY <1>2 DEF SizePass, FillPass, TestInit, SetInit
<1>3. ASSUME NEW t \in Threads, InitSection(t)
      PROVE  SectionSound'
  <2>1. \A u \in Threads : rpc[u] \notin InSection
    BY <1>3 DEF InitSection, InitOnce
  <2> QED BY <1>3, <2>1 DEF InitSection
<1>4. ASSUME NEW t \in Threads, Enter(t)
      PROVE  SectionSound'
  BY <1>4 DEF Enter
<1>5. ASSUME NEW t \in Threads, Write(t) \/ Flush(t)
      PROVE  SectionSound'
  BY <1>5 DEF Write, Flush
<1>6. ASSUME NEW t \in Threads, Leave(t)
      PROVE  SectionSound'
  BY <1>6 DEF Leave
<1>7. CASE OpenLog \/ FlushAll \/ Kill
  BY <1>7 DEF OpenLog, FlushAll, Kill
<1>8. ASSUME NEW c \in Cells, NEW x \in Texts, Mutate(c, x)
      PROVE  SectionSound'
  BY <1>8 DEF Mutate
<1>9. CASE UNCHANGED reportVars
  BY <1>9 DEF reportVars
<1> QED
  BY <1>1, <1>2, <1>3, <1>4, <1>5, <1>6, <1>7, <1>8, <1>9
  DEF RacyNext, ReportNext, ReportStep, Terminating

(* A call that is going on has been counted.                               *)
LEMMA InCallStep ==
  ASSUME ReportInv, [RacyNext]_reportVars
  PROVE  InCall'
<1> /\ rpc \in [Threads -> Steps]
    /\ calls \in [Threads -> 0..MaxCalls]
    /\ InCall
  BY DEF ReportInv, IType, TypeOK
<1> USE ReportAssumption DEF InCall, logVars, lockVars, callVars, Goto
<1>1. ASSUME NEW t \in Threads, NEW c \in Cells, Call(t, c)
      PROVE  InCall'
  BY <1>1 DEF Call
<1>2. ASSUME NEW t \in Threads,
             \/ SizePass(t) \/ FillPass(t) \/ TestInit(t) \/ InitSection(t)
             \/ SetInit(t) \/ Enter(t) \/ Write(t) \/ Flush(t) \/ Leave(t)
      PROVE  InCall'
  BY <1>2 DEF SizePass, FillPass, TestInit, InitSection, SetInit, Enter, Write,
              Flush, Leave
<1>3. CASE OpenLog \/ FlushAll \/ Kill
  BY <1>3 DEF OpenLog, FlushAll, Kill
<1>4. ASSUME NEW c \in Cells, NEW x \in Texts, Mutate(c, x)
      PROVE  InCall'
  BY <1>4 DEF Mutate
<1>5. CASE UNCHANGED reportVars
  BY <1>5 DEF reportVars
<1> QED
  BY <1>1, <1>2, <1>3, <1>4, <1>5
  DEF RacyNext, ReportNext, ReportStep, Terminating

(* Both passes of report() see the same text, because the memory behind an *)
(* argument is left alone between them.                                    *)
LEMMA BuffersStep ==
  ASSUME TextInv, [ReportNext]_reportVars
  PROVE  Buffers'
<1> /\ rpc \in [Threads -> Steps]
    /\ arg \in [Threads -> Cells]
    /\ len \in [Threads -> {0} \cup {Len(x) : x \in LineTexts}]
    /\ buf \in [Threads -> {<<>>} \cup LineTexts]
    /\ calls \in [Threads -> 0..MaxCalls]
    /\ mem \in [Cells -> Texts]
    /\ Buffers
  BY DEF TextInv, ReportInv, IType, TypeOK
<1> USE ReportAssumption DEF Buffers, Filled, logVars, lockVars, callVars, Goto
<1>1. ASSUME NEW t \in Threads, NEW c \in Cells, Call(t, c)
      PROVE  Buffers'
  BY <1>1 DEF Call, Rendered
<1>2. ASSUME NEW t \in Threads, SizePass(t)
      PROVE  Buffers'
  BY <1>2 DEF SizePass, Rendered
<1>3. ASSUME NEW t \in Threads, FillPass(t)
      PROVE  Buffers'
  <2>1. Rendered(arg[t]) \in LineTexts
    BY RenderedIsLine
  <2>2. UNCHANGED <<arg, len, calls, mem>> /\ buf' = [buf EXCEPT ![t] = Rendered(arg[t])]
    BY <1>3 DEF FillPass
  <2>3. rpc[t] = "fill" /\ rpc' = [rpc EXCEPT ![t] = "test"]
    BY <1>3 DEF FillPass
  <2> QED BY <2>1, <2>2, <2>3 DEF Rendered
<1>4. ASSUME NEW t \in Threads,
             \/ TestInit(t) \/ InitSection(t) \/ SetInit(t)
             \/ Enter(t) \/ Write(t) \/ Flush(t) \/ Leave(t)
      PROVE  Buffers'
  BY <1>4 DEF TestInit, InitSection, SetInit, Enter, Write, Flush, Leave,
              Rendered
<1>5. CASE OpenLog \/ FlushAll \/ Kill
  BY <1>5 DEF OpenLog, FlushAll, Kill, Rendered
<1>6. ASSUME NEW c \in Cells, NEW x \in Texts, Stable(c), Mutate(c, x)
      PROVE  Buffers'
  BY <1>6 DEF Mutate, Stable, Rendered
<1>7. CASE UNCHANGED reportVars
  BY <1>7 DEF reportVars, Rendered
<1> QED
  BY <1>1, <1>2, <1>3, <1>4, <1>5, <1>6, <1>7
  DEF ReportNext, ReportStep, Terminating

(* The line of a thread depends on its call, buffer and length only.       *)
LEMMA LineStays ==
  ASSUME NEW t \in Threads, calls'[t] = calls[t], buf'[t] = buf[t],
         len'[t] = len[t]
  PROVE  LineOf(t)' = LineOf(t)
BY DEF LineOf, Fit

(* A thread that is about to flush is the only one: it owns the section.   *)
LEMMA OneFlusher ==
  ASSUME SectionSound, NEW t \in Threads, NEW u \in Threads,
         rpc[t] \in InSection, rpc[u] \in InSection
  PROVE  t = u
BY DEF SectionSound

(* fwrite() finds the stream empty.                                        *)
LEMMA EmptyBeforeWrite ==
  ASSUME SectionSound, Buffered, NEW t \in Threads, rpc[t] = "write"
  PROVE  stream = <<>> /\ ~spilled
BY OneFlusher DEF Buffered, InSection

(* The stream never holds a line whose thread has left the section.        *)
LEMMA BufferedStep ==
  ASSUME ReportInv, [RacyNext]_reportVars
  PROVE  Buffered'
<1> /\ rpc \in [Threads -> Steps]
    /\ len \in [Threads -> {0} \cup {Len(x) : x \in LineTexts}]
    /\ buf \in [Threads -> {<<>>} \cup LineTexts]
    /\ calls \in [Threads -> 0..MaxCalls]
    /\ spilled \in BOOLEAN
    /\ SectionSound
    /\ Buffered
  BY DEF ReportInv, IType, TypeOK
<1> USE ReportAssumption DEF logVars, lockVars, callVars, Goto
<1>1. ASSUME UNCHANGED <<stream, spilled>>,
             \A t \in Threads : rpc[t] = "flush" =>
               /\ rpc'[t] = "flush"
               /\ calls'[t] = calls[t]
               /\ buf'[t] = buf[t]
               /\ len'[t] = len[t]
      PROVE  Buffered'
  <2>1. CASE stream = <<>> /\ ~spilled
    BY <1>1, <2>1 DEF Buffered
  <2>2. ASSUME NEW t \in Threads, rpc[t] = "flush", stream = <<LineOf(t)>>
        PROVE  Buffered'
    <3>1. LineOf(t)' = LineOf(t) /\ rpc'[t] = "flush"
      BY <1>1, <2>2, LineStays
    <3> QED BY <1>1, <2>2, <3>1 DEF Buffered
  <2> QED BY <2>1, <2>2 DEF Buffered
<1>2. ASSUME NEW t \in Threads, NEW c \in Cells, Call(t, c)
      PROVE  Buffered'
  BY <1>1, <1>2 DEF Call
<1>3. ASSUME NEW t \in Threads,
             \/ SizePass(t) \/ FillPass(t) \/ TestInit(t) \/ InitSection(t)
             \/ SetInit(t) \/ Enter(t) \/ Leave(t)
      PROVE  Buffered'
  BY <1>1, <1>3
  DEF SizePass, FillPass, TestInit, InitSection, SetInit, Enter, Leave
<1>4. ASSUME NEW t \in Threads, Write(t)
      PROVE  Buffered'
  <2>1. stream = <<>> /\ ~spilled
    BY <1>4, EmptyBeforeWrite DEF Write
  <2>2. CASE g_fp = "open"
    <3>1. stream' = <<LineOf(t)>> /\ rpc'[t] = "flush"
      BY <1>4, <2>1, <2>2 DEF Write
    <3>2. LineOf(t)' = LineOf(t)
      BY <1>4, LineStays DEF Write
    <3> QED BY <3>1, <3>2 DEF Buffered
  <2>3. CASE g_fp # "open"
    BY <1>4, <2>1, <2>3 DEF Write, Buffered
  <2> QED BY <2>2, <2>3
<1>5. ASSUME FlushStream
      PROVE  Buffered'
  BY <1>5 DEF FlushStream, Buffered
<1>6. ASSUME NEW t \in Threads, Flush(t)
      PROVE  Buffered'
  BY <1>5, <1>6 DEF Flush
<1>7. CASE FlushAll
  BY <1>5, <1>7 DEF FlushAll
<1>8. CASE OpenLog \/ Kill
  BY <1>1, <1>8 DEF OpenLog, Kill
<1>9. ASSUME NEW c \in Cells, NEW x \in Texts, Mutate(c, x)
      PROVE  Buffered'
  BY <1>1, <1>9 DEF Mutate
<1>10. CASE UNCHANGED reportVars
  BY <1>1, <1>10 DEF reportVars
<1> QED
  BY <1>2, <1>3, <1>4, <1>6, <1>7, <1>8, <1>9, <1>10
  DEF RacyNext, ReportNext, ReportStep, Terminating

-----------------------------------------------------------------------------
(***************************************************************************)
(* What a step does to the log.  It either commits the line of one call,   *)
(* or leaves alone both the file and what is committed.                    *)
(***************************************************************************)
History == DurableOnReturn /\ InCallOrder

CommitsLineOf(t) ==
  /\ rpc[t] = "flush"
  /\ ~Committed(t)
  /\ disk' = Append(disk, LineOf(t))
  /\ calls' = calls
  /\ Committed(t)'
  /\ \A u \in Threads \ {t} : Committed(u)' = Committed(u)

CommitsNothing ==
  /\ disk' = disk
  /\ \A t \in Threads : CommittedCalls(t)' = CommittedCalls(t)

(* What the file holds, line by line.                                      *)
LEMMA LinesOfFile ==
  ASSUME IType, NEW i \in DOMAIN disk
  PROVE  disk[i].by \in Threads
<1>1. disk[i] \in LineRecs
  BY DEF IType
<1> QED BY <1>1 DEF LineRecs

(* A committed line is the only one added, so the order and the presence   *)
(* of the lines that were there are kept.                                  *)
LEMMA CommitKeepsHistory ==
  ASSUME IType, InCall, History, NEW t \in Threads, CommitsLineOf(t)
  PROVE  History'
<1> DEFINE n == Len(disk)
<1>1. /\ disk \in Seq(LineRecs)
      /\ n \in Nat
      /\ calls \in [Threads -> 0..MaxCalls]
      /\ calls[t] \in Nat
      /\ calls[t] >= 1
  BY ReportAssumption DEF IType, TypeOK, InCall, CommitsLineOf
<1>2. LineOf(t).by = t /\ LineOf(t).call = calls[t]
  BY DEF LineOf
<1>3. /\ DOMAIN disk = 1..n
      /\ DOMAIN disk' = 1..(n + 1)
      /\ \A i \in 1..n : disk'[i] = disk[i]
      /\ disk'[n + 1] = LineOf(t)
  BY <1>1 DEF CommitsLineOf
<1>4. /\ CommittedCalls(t) = calls[t] - 1
      /\ CommittedCalls(t)' = calls[t]
      /\ \A u \in Threads \ {t} : CommittedCalls(u)' = CommittedCalls(u)
  BY DEF CommittedCalls, CommitsLineOf
<1>5. \A i \in 1..n :
        disk[i].by \in Threads /\ disk[i].call \in 1..CommittedCalls(disk[i].by)
  <2>1. \A i \in 1..n : disk[i].by \in Threads
    BY <1>3, LinesOfFile
  <2>2. \A i \in 1..n : disk[i].call \in 1..CommittedCalls(disk[i].by)
    BY <1>3 DEF History, InCallOrder
  <2> QED BY <2>1, <2>2
<1>6. DurableOnReturn'
  <2> SUFFICES ASSUME NEW u \in Threads, NEW k \in 1..CommittedCalls(u)'
               PROVE  \E i \in DOMAIN disk' : disk'[i].by = u /\ disk'[i].call = k
    BY DEF DurableOnReturn
  <2>1. CASE u = t /\ k = calls[t]
    BY <2>1, <1>1, <1>2, <1>3
  <2>2. CASE ~(u = t /\ k = calls[t])
    <3>1. k \in 1..CommittedCalls(u)
      BY <2>2, <1>1, <1>4
    <3>2. PICK i \in DOMAIN disk : disk[i].by = u /\ disk[i].call = k
      BY <3>1 DEF History, DurableOnReturn
    <3> QED BY <3>2, <1>1, <1>3
  <2> QED BY <2>1, <2>2
<1>7. ASSUME NEW i \in DOMAIN disk', NEW j \in DOMAIN disk',
             i < j, disk'[i].by = disk'[j].by
      PROVE  disk'[i].call < disk'[j].call
  <2>1. CASE j \in 1..n
    BY <2>1, <1>1, <1>3, <1>7 DEF History, InCallOrder
  <2>2. CASE j = n + 1
    <3>1. i \in 1..n /\ disk[i].by = t
      BY <2>2, <1>1, <1>2, <1>3, <1>7
    <3>2. disk[i].call \in 1..(calls[t] - 1)
      BY <3>1, <1>4, <1>5
    <3> QED BY <2>2, <3>1, <3>2, <1>1, <1>2, <1>3
  <2> QED BY <2>1, <2>2, <1>1, <1>3
<1>8. ASSUME NEW i \in DOMAIN disk', NEW u \in Threads, disk'[i].by = u
      PROVE  disk'[i].call \in 1..CommittedCalls(u)'
  <2>1. CASE i = n + 1
    BY <2>1, <1>1, <1>2, <1>3, <1>4, <1>8
  <2>2. CASE i \in 1..n
    <3>1. disk[i].call \in 1..CommittedCalls(u)
      BY <2>2, <1>3, <1>5, <1>8
    <3> QED BY <2>2, <3>1, <1>1, <1>3, <1>4
  <2> QED BY <2>1, <2>2, <1>1, <1>3
<1>9. \A i \in DOMAIN disk' : disk'[i].by \in Threads
  BY <1>1, <1>2, <1>3, <1>5
<1>10. InCallOrder'
  BY <1>7, <1>8, <1>9 DEF InCallOrder, CommittedCalls, Committed
<1> QED BY <1>6, <1>10 DEF History

(* fflush() commits the line in the stream, if there is one.               *)
LEMMA FlushCommits ==
  ASSUME ReportInv, FlushStream, UNCHANGED calls,
         \/ UNCHANGED rpc
         \/ \E t \in Threads :
              rpc[t] = "flush" /\ rpc' = [rpc EXCEPT ![t] = "leave"]
  PROVE  CommitsNothing \/ \E t \in Threads : CommitsLineOf(t)
<1>1. /\ rpc \in [Threads -> Steps]
      /\ disk \in Seq(LineRecs)
      /\ SectionSound
  BY DEF ReportInv, IType, TypeOK
<1>2. CASE stream = <<>>
  <2>1. disk' = disk /\ stream' = stream
    BY <1>1, <1>2 DEF FlushStream
  <2>2. \A t \in Threads : Committed(t)' = Committed(t)
    BY <1>1, <1>2, <2>1 DEF Committed
  <2> QED BY <2>1, <2>2 DEF CommitsNothing, CommittedCalls
<1>3. ASSUME NEW t \in Threads, rpc[t] = "flush", stream = <<LineOf(t)>>
      PROVE  CommitsLineOf(t)
  <2>1. disk' = Append(disk, LineOf(t)) /\ stream' = <<>> /\ stream # <<>>
    BY <1>1, <1>3 DEF FlushStream
  <2>2. \A u \in Threads \ {t} : rpc[u] # "flush"
    BY <1>1, <1>3, OneFlusher DEF InSection
  <2>3. \A u \in Threads \ {t} : rpc'[u] = rpc[u]
    BY <1>1, <1>3, <2>2
  <2>4. rpc'[t] \in {"flush", "leave"}
    BY <1>1, <1>3, <2>2
  <2>5. Committed(t)' /\ ~Committed(t)
    BY <1>3, <2>1, <2>4 DEF Committed
  <2>6. \A u \in Threads \ {t} : Committed(u)' = Committed(u)
    BY <2>2, <2>3 DEF Committed
  <2> QED BY <1>3, <2>1, <2>5, <2>6 DEF CommitsLineOf
<1> QED BY <1>2, <1>3 DEF ReportInv, Buffered

(* Every step commits one line or none.                                    *)
LEMMA StepCommits ==
  ASSUME ReportInv, [RacyNext]_reportVars
  PROVE  CommitsNothing \/ \E t \in Threads : CommitsLineOf(t)
<1> /\ rpc \in [Threads -> Steps]
    /\ calls \in [Threads -> 0..MaxCalls]
    /\ SectionSound
    /\ Buffered
  BY DEF ReportInv, IType, TypeOK
<1> USE ReportAssumption DEF logVars, lockVars, callVars, Goto
<1>1. ASSUME UNCHANGED <<disk, stream, calls>>,
             \/ UNCHANGED rpc
             \/ \E t \in Threads, from, to \in Steps \ {"idle", "flush", "leave"} :
                  rpc[t] = from /\ rpc' = [rpc EXCEPT ![t] = to]
      PROVE  CommitsNothing
  BY <1>1 DEF CommitsNothing, CommittedCalls, Committed
<1>2. ASSUME NEW t \in Threads, NEW c \in Cells, Call(t, c)
      PROVE  CommitsNothing
  <2>1. UNCHANGED <<disk, stream>> /\ rpc[t] = "idle"
        /\ rpc' = [rpc EXCEPT ![t] = "size"] /\ calls' = [calls EXCEPT ![t] = @ + 1]
    BY <1>2 DEF Call
  <2>2. CommittedCalls(t)' = CommittedCalls(t)
    BY <2>1 DEF CommittedCalls, Committed
  <2>3. \A u \in Threads \ {t} : CommittedCalls(u)' = CommittedCalls(u)
    BY <2>1 DEF CommittedCalls, Committed
  <2> QED BY <2>1, <2>2, <2>3 DEF CommitsNothing
<1>3. ASSUME NEW t \in Threads,
             \/ SizePass(t) \/ FillPass(t) \/ TestInit(t) \/ InitSection(t)
             \/ SetInit(t) \/ Enter(t)
      PROVE  CommitsNothing
  BY <1>1, <1>3
  DEF SizePass, FillPass, TestInit, InitSection, SetInit, Enter, Steps
<1>4. ASSUME NEW t \in Threads, Write(t)
      PROVE  CommitsNothing
  <2>1. \A u \in Threads \ {t} : rpc[u] # "flush"
    BY <1>4, OneFlusher DEF Write, InSection
  <2>2. UNCHANGED <<disk, calls>>
    BY <1>4 DEF Write
  <2>3. /\ rpc[t] = "write"
        /\ \A u \in Threads \ {t} : rpc'[u] = rpc[u]
        /\ \/ rpc'[t] = "fault"
           \/ rpc'[t] = "flush" /\ stream' # <<>>
    <3>1. stream = <<>>
      BY <1>4, EmptyBeforeWrite DEF Write
    <3>2. CASE g_fp = "open"
      <4>1. stream' = <<LineOf(t)>>
        BY <1>4, <3>1, <3>2 DEF Write
      <4> QED BY <1>4, <3>2, <4>1 DEF Write
    <3>3. CASE g_fp # "open"
      BY <1>4, <3>3 DEF Write
    <3> QED BY <3>2, <3>3
  <2>4. \A u \in Threads : Committed(u)' = Committed(u)
    BY <2>1, <2>3 DEF Committed
  <2> QED BY <2>2, <2>4 DEF CommitsNothing, CommittedCalls
<1>5. ASSUME NEW t \in Threads, Flush(t)
      PROVE  CommitsNothing \/ \E u \in Threads : CommitsLineOf(u)
  BY <1>5, FlushCommits DEF Flush
<1>6. CASE FlushAll
  BY <1>6, FlushCommits DEF FlushAll
<1>7. ASSUME NEW t \in Threads, Leave(t)
      PROVE  CommitsNothing
  BY <1>7 DEF Leave, CommitsNothing, CommittedCalls, Committed
<1>8. CASE OpenLog \/ Kill
  BY <1>1, <1>8 DEF OpenLog, Kill
<1>9. ASSUME NEW c \in Cells, NEW x \in Texts, Mutate(c, x)
      PROVE  CommitsNothing
  BY <1>1, <1>9 DEF Mutate
<1>10. CASE UNCHANGED reportVars
  BY <1>1, <1>10 DEF reportVars
<1> QED
  BY <1>2, <1>3, <1>4, <1>5, <1>6, <1>7, <1>8, <1>9, <1>10
  DEF RacyNext, ReportNext, ReportStep, Terminating

(* So every step keeps what the file says of the calls.                    *)
LEMMA HistoryStep ==
  ASSUME ReportInv, [RacyNext]_reportVars
  PROVE  History'
<1>1. CASE CommitsNothing
  <2>1. disk' = disk /\ \A t \in Threads : CommittedCalls(t)' = CommittedCalls(t)
    BY <1>1 DEF CommitsNothing
  <2>2. \A i \in DOMAIN disk : disk[i].by \in Threads
    BY LinesOfFile DEF ReportInv
  <2>3. DurableOnReturn'
    BY <2>1 DEF ReportInv, DurableOnReturn
  <2>4. \A i \in DOMAIN disk' : \A u \in Threads :
          disk'[i].by = u => disk'[i].call \in 1..CommittedCalls(u)'
    BY <2>1 DEF ReportInv, InCallOrder
  <2>5. InCallOrder'
    BY <2>1, <2>2, <2>4 DEF ReportInv, InCallOrder, CommittedCalls, Committed
  <2> QED BY <2>3, <2>5 DEF History
<1>2. ASSUME NEW t \in Threads, CommitsLineOf(t)
      PROVE  History'
  BY <1>2, CommitKeepsHistory DEF ReportInv, History
<1> QED BY <1>1, <1>2, StepCommits

(* The line a step commits is whole: its buffer was.                       *)
LEMMA WholeStep ==
  ASSUME TextInv, [ReportNext]_reportVars
  PROVE  WholeLines'
<1> ReportInv /\ [RacyNext]_reportVars
  BY DEF TextInv, RacyNext
<1>1. CASE CommitsNothing
  BY <1>1 DEF CommitsNothing, TextInv, WholeLines
<1>2. ASSUME NEW t \in Threads, CommitsLineOf(t)
      PROVE  WholeLines'
  <2>1. disk' = Append(disk, LineOf(t)) /\ rpc[t] = "flush"
    BY <1>2 DEF CommitsLineOf
  <2>2. LineOf(t).text \in LineTexts
    <3>1. buf[t] \in LineTexts /\ LineOf(t).text = buf[t]
      BY <2>1, LineIsBuffer DEF TextInv, Buffers, Filled
    <3> QED BY <3>1
  <2>3. disk \in Seq(LineRecs)
    BY DEF ReportInv, IType
  <2> DEFINE line == LineOf(t)
  <2> HIDE DEF line
  <2>4. disk' = Append(disk, line) /\ line.text \in LineTexts
    BY <2>1, <2>2 DEF line
  <2> QED BY <2>3, <2>4 DEF TextInv, WholeLines
<1> QED BY <1>1, <1>2, StepCommits

-----------------------------------------------------------------------------
(***************************************************************************)
(* The theorems.                                                           *)
(***************************************************************************)

(* Every step keeps the invariant, the racy ones too ...                   *)
LEMMA InvStep ==
  ASSUME ReportInv, [RacyNext]_reportVars
  PROVE  ReportInv'
BY TypeStep, LogOpenStep, InitOnceStep, SectionStep, InCallStep, BufferedStep,
   HistoryStep
DEF ReportInv, History

(* ... and the others keep what it says of the texts.                      *)
LEMMA TextStep ==
  ASSUME TextInv, [ReportNext]_reportVars
  PROVE  TextInv'
<1>1. ReportInv'
  BY InvStep DEF TextInv, RacyNext
<1> QED BY <1>1, BuffersStep, WholeStep DEF TextInv

(* ReportInv is an inductive invariant of report(), whatever happens to    *)
(* the memory behind its arguments.                                        *)
THEOREM InvHolds == RacySpec => []ReportInv
<1>1. ReportInit => ReportInv
  BY InvInit DEF TextInv
<1>2. ReportInv /\ [RacyNext]_reportVars => ReportInv'
  BY InvStep
<1> QED BY <1>1, <1>2, PTL DEF RacySpec

(* TextInv is one if that memory is left alone between the passes.         *)
THEOREM TextInvHolds == ReportSpec => []TextInv
<1>1. ReportInit => TextInv
  BY InvInit
<1>2. TextInv /\ [ReportNext]_reportVars => TextInv'
  BY TextStep
<1> QED BY <1>1, <1>2, PTL DEF ReportSpec

(* Who keeps both rules keeps the first.                                   *)
LEMMA RulesKept == ReportSpec => RacySpec
<1>1. [ReportNext]_reportVars => [RacyNext]_reportVars
  BY DEF RacyNext
<1> QED BY <1>1, PTL DEF ReportSpec, RacySpec

(* Every variable of report.c keeps within its type.                       *)
THEOREM TypeCorrect == RacySpec => []TypeOK
<1>1. ReportInv => TypeOK
  BY DEF ReportInv, IType
<1> QED BY <1>1, InvHolds, PTL

(* EnterCriticalSection and LeaveCriticalSection pair up, and the section  *)
(* is never initialised while it is in use (report.c:298-306).             *)
THEOREM SectionHolds == RacySpec => []SectionSound
<1>1. ReportInv => SectionSound
  BY DEF ReportInv
<1> QED BY <1>1, InvHolds, PTL

(* At most one thread is between Enter- and LeaveCriticalSection.          *)
THEOREM MutualExclusionHolds == RacySpec => []MutualExclusion
<1>1. ReportInv => MutualExclusion
  BY OneFlusher DEF ReportInv, MutualExclusion
<1> QED BY <1>1, InvHolds, PTL

(* A line whose report() call returned survives the end of the process.    *)
THEOREM DurableHolds == RacySpec => []DurableOnReturn
<1>1. ReportInv => DurableOnReturn
  BY DEF ReportInv
<1> QED BY <1>1, InvHolds, PTL

(* Lines of one thread are in the order of its calls, each at most once.   *)
THEOREM InCallOrderHolds == RacySpec => []InCallOrder
<1>1. ReportInv => InCallOrder
  BY DEF ReportInv
<1> QED BY <1>1, InvHolds, PTL

(* The file holds whole lines only, if the memory behind an argument is    *)
(* left alone between the passes that measure and format it.               *)
THEOREM WholeLinesHold == ReportSpec => []WholeLines
<1>1. TextInv => WholeLines
  BY DEF TextInv
<1> QED BY <1>1, TextInvHolds, PTL

(* Only the last line of the file can be incomplete.                       *)
THEOREM TornTailHolds == RacySpec => []TornTailOnly
<1>1. ReportInv => TornTailOnly
  BY DEF ReportInv, Buffered, SectionSound, InSection, TornTailOnly
<1> QED BY <1>1, InvHolds, PTL

-----------------------------------------------------------------------------
(***************************************************************************)
(* report() implements the atomic log.                                     *)
(***************************************************************************)

(* The initial states of report.c are initial states of the atomic log.    *)
LEMMA AbsInit == ReportInit => Abs!Init
<1> SUFFICES ASSUME ReportInit PROVE Abs!Init
  OBVIOUS
<1>1. \A t \in Threads : rpc[t] = "idle" /\ buf[t] = <<>>
  BY DEF ReportInit
<1>2. \A t \in Threads : AbsStatus(t) = "idle" /\ AbsText(t) = <<>>
  BY <1>1 DEF AbsStatus, AbsText
<1>3. [t \in Threads |-> AbsStatus(t)] = [t \in Threads |-> "idle"]
  BY <1>2
<1>4. [t \in Threads |-> AbsText(t)] \in [Threads -> LineTexts \cup {<<>>}]
  BY <1>2
<1> QED BY <1>3, <1>4 DEF Abs!Init, ReportInit

(* How AbsStatus follows from the place in report() and the commit.        *)
LEMMA AbsStatusCases ==
  ASSUME NEW t \in Threads
  PROVE  /\ rpc[t] = "idle" => AbsStatus(t) = "idle"
         /\ rpc[t] # "idle" /\ Committed(t) => AbsStatus(t) = "committed"
         /\ rpc[t] # "idle" /\ ~Committed(t) => AbsStatus(t) = "pending"
BY DEF AbsStatus

(* The same in the next state.                                             *)
LEMMA AbsStatusCasesPrime ==
  ASSUME NEW t \in Threads
  PROVE  /\ rpc'[t] = "idle" => AbsStatus(t)' = "idle"
         /\ rpc'[t] # "idle" /\ Committed(t)' => AbsStatus(t)' = "committed"
         /\ rpc'[t] # "idle" /\ ~Committed(t)' => AbsStatus(t)' = "pending"
BY DEF AbsStatus

(* A step that shows nothing of itself is a stutter of the atomic log.     *)
LEMMA AbsStutters ==
  ASSUME disk' = disk, calls' = calls, alive' = alive,
         \A t \in Threads :
           /\ rpc'[t] = "idle" <=> rpc[t] = "idle"
           /\ Committed(t)' = Committed(t)
           /\ AbsText(t)' = AbsText(t)
  PROVE  UNCHANGED Abs!vars
<1>1. \A t \in Threads : AbsStatus(t)' = AbsStatus(t)
  BY AbsStatusCases, AbsStatusCasesPrime
<1>2. [t \in Threads |-> AbsStatus(t)]' = [t \in Threads |-> AbsStatus(t)]
  BY <1>1
<1>3. [t \in Threads |-> AbsText(t)]' = [t \in Threads |-> AbsText(t)]
  OBVIOUS
<1> QED BY <1>2, <1>3 DEF Abs!vars

(* A call of report() is a call of the atomic log.                         *)
LEMMA AbsCall ==
  ASSUME ReportInv, NEW t \in Threads, NEW c \in Cells, Call(t, c)
  PROVE  Abs!Call(t, Rendered(c))
<1> /\ rpc \in [Threads -> Steps]
    /\ arg \in [Threads -> Cells]
    /\ mem \in [Cells -> Texts]
  BY DEF ReportInv, IType, TypeOK
<1>1. /\ alive /\ rpc[t] = "idle" /\ rpc' = [rpc EXCEPT ![t] = "size"]
      /\ calls[t] < MaxCalls /\ calls' = [calls EXCEPT ![t] = @ + 1]
      /\ arg' = [arg EXCEPT ![t] = c]
      /\ UNCHANGED <<disk, stream, buf, mem, alive>>
  BY DEF Call, Goto, logVars
<1>2. AbsStatus(t) = "idle" /\ AbsStatus(t)' = "pending"
  BY <1>1, AbsStatusCases, AbsStatusCasesPrime DEF Committed
<1>3. \A u \in Threads \ {t} : AbsStatus(u)' = AbsStatus(u)
  BY <1>1, AbsStatusCases, AbsStatusCasesPrime DEF Committed
<1>4. AbsText(t)' = Rendered(c)
  BY <1>1 DEF AbsText, Rendered
<1>5. \A u \in Threads \ {t} : AbsText(u)' = AbsText(u)
  BY <1>1 DEF AbsText, Rendered
<1>6. [u \in Threads |-> AbsStatus(u)]'
        = [[u \in Threads |-> AbsStatus(u)] EXCEPT ![t] = "pending"]
  BY <1>2, <1>3
<1>7. [u \in Threads |-> AbsText(u)]'
        = [[u \in Threads |-> AbsText(u)] EXCEPT ![t] = Rendered(c)]
  BY <1>4, <1>5
<1> QED BY <1>1, <1>2, <1>6, <1>7 DEF Abs!Call

(* A flush that commits a line is the Commit of its thread.                *)
LEMMA AbsCommit ==
  ASSUME TextInv, NEW t \in Threads, CommitsLineOf(t), alive,
         UNCHANGED <<alive, buf, arg, mem>>,
         rpc'[t] \in {"flush", "leave"},
         \A u \in Threads \ {t} : rpc'[u] = rpc[u]
  PROVE  Abs!Commit(t)
<1>1. rpc[t] = "flush" /\ ~Committed(t) /\ Committed(t)'
  BY DEF CommitsLineOf
<1>2. AbsStatus(t) = "pending" /\ AbsStatus(t)' = "committed"
  BY <1>1, AbsStatusCases, AbsStatusCasesPrime
<1>3. \A u \in Threads \ {t} : AbsStatus(u)' = AbsStatus(u)
  BY AbsStatusCases, AbsStatusCasesPrime DEF CommitsLineOf
<1>4. \A u \in Threads : AbsText(u)' = AbsText(u)
  BY <1>1 DEF AbsText, Rendered
<1>5. AbsText(t) = buf[t]
  BY <1>1 DEF AbsText
<1>6. LineOf(t) = [by |-> t, call |-> calls[t], text |-> AbsText(t)]
  BY <1>1, <1>5, LineIsBuffer DEF TextInv, Filled
<1>7. [u \in Threads |-> AbsStatus(u)]'
        = [[u \in Threads |-> AbsStatus(u)] EXCEPT ![t] = "committed"]
  BY <1>2, <1>3
<1>8. [u \in Threads |-> AbsText(u)]' = [u \in Threads |-> AbsText(u)]
  BY <1>4
<1>9. disk' = Append(disk, LineOf(t)) /\ calls' = calls
  BY DEF CommitsLineOf
<1> QED BY <1>2, <1>6, <1>7, <1>8, <1>9 DEF Abs!Commit

(* LeaveCriticalSection is the Return.                                     *)
LEMMA AbsReturn ==
  ASSUME ReportInv, NEW t \in Threads, Leave(t)
  PROVE  Abs!Return(t)
<1> rpc \in [Threads -> Steps]
  BY DEF ReportInv, IType, TypeOK
<1>1. /\ alive /\ rpc[t] = "leave" /\ rpc' = [rpc EXCEPT ![t] = "idle"]
      /\ UNCHANGED <<disk, stream, calls, buf, arg, mem, alive>>
  BY DEF Leave, Goto, logVars, callVars
<1>2. AbsStatus(t) = "committed" /\ AbsStatus(t)' = "idle"
  BY <1>1, AbsStatusCases, AbsStatusCasesPrime DEF Committed
<1>3. \A u \in Threads \ {t} : AbsStatus(u)' = AbsStatus(u)
  BY <1>1, AbsStatusCases, AbsStatusCasesPrime DEF Committed
<1>4. \A u \in Threads : AbsText(u)' = AbsText(u)
  BY <1>1 DEF AbsText, Rendered
<1>5. [u \in Threads |-> AbsStatus(u)]'
        = [[u \in Threads |-> AbsStatus(u)] EXCEPT ![t] = "idle"]
  BY <1>2, <1>3
<1>6. [u \in Threads |-> AbsText(u)]' = [u \in Threads |-> AbsText(u)]
  BY <1>4
<1> QED BY <1>1, <1>2, <1>5, <1>6 DEF Abs!Return

(* The steps of report() before fflush() are invisible.                    *)
LEMMA AbsSilent ==
  ASSUME ReportInv, NEW t \in Threads,
         \/ SizePass(t) \/ FillPass(t) \/ TestInit(t) \/ InitSection(t)
         \/ SetInit(t) \/ Enter(t) \/ Write(t)
  PROVE  UNCHANGED Abs!vars
<1> /\ rpc \in [Threads -> Steps]
    /\ buf \in [Threads -> {<<>>} \cup LineTexts]
    /\ SectionSound
    /\ Buffered
  BY DEF ReportInv, IType, TypeOK
<1> USE DEF Goto, logVars, lockVars, callVars
<1>1. CASE SizePass(t)
  <2>1. \A u \in Threads :
          /\ rpc'[u] = "idle" <=> rpc[u] = "idle"
          /\ Committed(u)' = Committed(u)
          /\ AbsText(u)' = AbsText(u)
    BY <1>1 DEF SizePass, Committed, AbsText, Rendered
  <2> QED BY <1>1, <2>1, AbsStutters DEF SizePass
<1>2. CASE FillPass(t)
  <2>1. \A u \in Threads :
          /\ rpc'[u] = "idle" <=> rpc[u] = "idle"
          /\ Committed(u)' = Committed(u)
    BY <1>2 DEF FillPass, Committed
  <2>2. AbsText(t)' = AbsText(t)
    BY <1>2 DEF FillPass, AbsText, Rendered
  <2>3. \A u \in Threads \ {t} : AbsText(u)' = AbsText(u)
    BY <1>2 DEF FillPass, AbsText, Rendered
  <2> QED BY <1>2, <2>1, <2>2, <2>3, AbsStutters DEF FillPass
<1>3. CASE TestInit(t) \/ InitSection(t) \/ SetInit(t) \/ Enter(t)
  <2>1. \A u \in Threads :
          /\ rpc'[u] = "idle" <=> rpc[u] = "idle"
          /\ Committed(u)' = Committed(u)
          /\ AbsText(u)' = AbsText(u)
    BY <1>3
    DEF TestInit, InitSection, SetInit, Enter, Committed, AbsText, Rendered
  <2>2. disk' = disk /\ calls' = calls /\ alive' = alive
    BY <1>3 DEF TestInit, InitSection, SetInit, Enter
  <2> QED BY <2>1, <2>2, AbsStutters
<1>4. CASE Write(t)
  <2>1. \A u \in Threads \ {t} : rpc[u] # "flush"
    BY <1>4, OneFlusher DEF Write, InSection
  <2>2. stream = <<>>
    BY <1>4, EmptyBeforeWrite DEF Write
  <2>3. /\ rpc[t] = "write"
        /\ \A u \in Threads \ {t} : rpc'[u] = rpc[u]
        /\ rpc'[t] \in {"flush", "fault"}
    BY <1>4 DEF Write
  <2>4. rpc'[t] = "flush" => stream' # <<>>
    <3>1. CASE g_fp = "open"
      <4>1. stream' = <<LineOf(t)>>
        BY <1>4, <2>2, <3>1 DEF Write
      <4> QED BY <4>1
    <3>2. CASE g_fp # "open"
      BY <1>4, <3>2 DEF Write
    <3> QED BY <3>1, <3>2
  <2>5. \A u \in Threads : Committed(u)' = Committed(u)
    BY <2>1, <2>3, <2>4 DEF Committed
  <2>6. \A u \in Threads : AbsText(u)' = AbsText(u)
    BY <1>4, <2>3 DEF Write, AbsText, Rendered
  <2> QED BY <1>4, <2>3, <2>5, <2>6, AbsStutters DEF Write
<1> QED BY <1>1, <1>2, <1>3, <1>4

(* fflush() commits the line of one thread, or there was nothing to flush. *)
LEMMA AbsFlush ==
  ASSUME TextInv, alive, FlushStream, UNCHANGED <<callVars, mem, alive>>,
         \/ UNCHANGED rpc
         \/ \E t \in Threads :
              rpc[t] = "flush" /\ rpc' = [rpc EXCEPT ![t] = "leave"]
  PROVE  UNCHANGED Abs!vars \/ \E t \in Threads : Abs!Commit(t)
<1> /\ rpc \in [Threads -> Steps]
    /\ disk \in Seq(LineRecs)
    /\ SectionSound
  BY DEF TextInv, ReportInv, IType, TypeOK
<1>1. CASE stream = <<>>
  <2>1. disk' = disk /\ stream' = stream
    BY <1>1 DEF FlushStream
  <2>2. \A u \in Threads :
          /\ rpc'[u] = "idle" <=> rpc[u] = "idle"
          /\ Committed(u)' = Committed(u)
    BY <1>1, <2>1 DEF Committed
  <2>3. \A u \in Threads : AbsText(u)' = AbsText(u)
    BY DEF AbsText, Rendered, callVars
  <2> QED BY <2>1, <2>2, <2>3, AbsStutters DEF callVars
<1>2. ASSUME NEW t \in Threads, rpc[t] = "flush", stream = <<LineOf(t)>>
      PROVE  Abs!Commit(t)
  <2>1. \A u \in Threads \ {t} : rpc[u] # "flush"
    BY <1>2, OneFlusher DEF InSection
  <2>2. /\ \A u \in Threads \ {t} : rpc'[u] = rpc[u]
        /\ rpc'[t] \in {"flush", "leave"}
    BY <1>2, <2>1
  <2>3. CommitsLineOf(t)
    <3>1. disk' = Append(disk, LineOf(t)) /\ stream' = <<>> /\ stream # <<>>
      BY <1>2 DEF FlushStream
    <3>2. Committed(t)' /\ ~Committed(t)
      BY <1>2, <2>2, <3>1 DEF Committed
    <3>3. \A u \in Threads \ {t} : Committed(u)' = Committed(u)
      BY <2>1, <2>2 DEF Committed
    <3> QED BY <1>2, <3>1, <3>2, <3>3 DEF CommitsLineOf, callVars
  <2> QED BY <2>2, <2>3, AbsCommit DEF callVars
<1> QED BY <1>1, <1>2 DEF TextInv, ReportInv, Buffered

(* Every step of report() is a step of the atomic log, or a stutter.       *)
LEMMA AbsStep ==
  ASSUME TextInv, [ReportNext]_reportVars
  PROVE  [Abs!Next]_Abs!vars
<1> /\ rpc \in [Threads -> Steps]
    /\ arg \in [Threads -> Cells]
    /\ mem \in [Cells -> Texts]
  BY DEF TextInv, ReportInv, IType, TypeOK
<1>1. ASSUME NEW t \in Threads, NEW c \in Cells, Call(t, c)
      PROVE  Abs!Next
  <2>1. Rendered(c) \in LineTexts
    BY RenderedIsLine
  <2> QED BY <1>1, <2>1, AbsCall DEF Abs!Next, TextInv
<1>2. ASSUME NEW t \in Threads,
             \/ SizePass(t) \/ FillPass(t) \/ TestInit(t) \/ InitSection(t)
             \/ SetInit(t) \/ Enter(t) \/ Write(t)
      PROVE  UNCHANGED Abs!vars
  BY <1>2, AbsSilent DEF TextInv
<1>3. ASSUME NEW t \in Threads, Flush(t)
      PROVE  [Abs!Next]_Abs!vars
  <2>1. UNCHANGED Abs!vars \/ \E u \in Threads : Abs!Commit(u)
    BY <1>3, AbsFlush DEF Flush, Goto
  <2> QED BY <2>1 DEF Abs!Next
<1>4. CASE FlushAll
  <2>1. UNCHANGED Abs!vars \/ \E u \in Threads : Abs!Commit(u)
    BY <1>4, AbsFlush DEF FlushAll
  <2> QED BY <2>1 DEF Abs!Next
<1>5. ASSUME NEW t \in Threads, Leave(t)
      PROVE  Abs!Next
  BY <1>5, AbsReturn DEF Abs!Next, TextInv
<1>6. ASSUME UNCHANGED <<disk, stream, rpc, callVars>>,
             \A u \in Threads :
               rpc[u] \in {"size", "fill"} => mem'[arg[u]] = mem[arg[u]]
      PROVE  /\ UNCHANGED <<disk, calls>>
             /\ \A u \in Threads :
                  /\ rpc'[u] = "idle" <=> rpc[u] = "idle"
                  /\ Committed(u)' = Committed(u)
                  /\ AbsText(u)' = AbsText(u)
  BY <1>6 DEF callVars, Committed, AbsText, Rendered
<1>7. CASE OpenLog
  BY <1>6, <1>7, AbsStutters DEF OpenLog
<1>8. CASE Kill
  <2>1. \A u \in Threads : AbsStatus(u)' = AbsStatus(u) /\ AbsText(u)' = AbsText(u)
    BY <1>6, <1>8, AbsStatusCases, AbsStatusCasesPrime DEF Kill, logVars
  <2>2. [u \in Threads |-> AbsStatus(u)]' = [u \in Threads |-> AbsStatus(u)]
    BY <2>1
  <2>3. [u \in Threads |-> AbsText(u)]' = [u \in Threads |-> AbsText(u)]
    BY <2>1
  <2> QED BY <1>8, <2>2, <2>3 DEF Kill, logVars, callVars, Abs!Next, Abs!Kill
<1>9. ASSUME NEW c \in Cells, NEW x \in Texts, Stable(c), Mutate(c, x)
      PROVE  UNCHANGED Abs!vars
  <2>1. \A u \in Threads :
          rpc[u] \in {"size", "fill"} => mem'[arg[u]] = mem[arg[u]]
    BY <1>9 DEF Mutate, Stable
  <2> QED BY <1>6, <1>9, <2>1, AbsStutters DEF Mutate, logVars
<1>10. CASE UNCHANGED reportVars
  BY <1>6, <1>10, AbsStutters DEF reportVars, logVars
<1> QED
  BY <1>1, <1>2, <1>3, <1>4, <1>5, <1>7, <1>8, <1>9, <1>10
  DEF ReportNext, ReportStep, Terminating

(* A program that calls report() may think of it as one atomic, durable    *)
(* append to the log (report.c:287-308), if the memory behind its          *)
(* arguments is left alone between the two passes.                         *)
THEOREM RefinesAtomicLog == ReportSpec => ImplementsAtomicLog
<1>1. ReportInit => Abs!Init
  BY AbsInit
<1>2. TextInv /\ [ReportNext]_reportVars => [Abs!Next]_Abs!vars
  BY AbsStep
<1> QED BY <1>1, <1>2, TextInvHolds, PTL DEF ReportSpec, ImplementsAtomicLog, Abs!Spec
=============================================================================
