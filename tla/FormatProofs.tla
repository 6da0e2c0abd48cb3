---------------------------- MODULE FormatProofs -----------------------------
(***************************************************************************)
(* Proofs about the text conversion of report() and about hexdump(), for   *)
(* any texts, any numbers of any widths, any memory and any lengths.       *)
(*                                                                         *)
(* What a line or a row holds is computed by folds and by functions that   *)
(* are defined in terms of themselves.  For each of them there is a lemma  *)
(* that a function with that definition exists (ReaderExists, FoldExists,  *)
(* TurnsExist), without which CHOOSE would say nothing, and an induction   *)
(* over numbers (NatInd) or sequences (SeqInd), with a set for what is to  *)
(* be shown.                                                               *)
(*                                                                         *)
(* TextInv says how far a pass over a line has come, what it has counted   *)
(* and what it has stored; that a line can be read back is then a matter   *)
(* of utf8_encode() and of the reader (CharBack, ReadBack).  HexInv says   *)
(* that length, offset and pointer agree with the number of rows, and that *)
(* each row reads as its bytes (RowReads).                                 *)
(***************************************************************************)
EXTENDS Hexdump, FiniteSetTheorems, SequenceTheorems, WellFoundedInduction, TLAPS

-----------------------------------------------------------------------------
(***************************************************************************)
(* Induction, with a set for what is to be shown.                          *)
(***************************************************************************)
(* Induction over the natural numbers.                                     *)
LEMMA NatInd ==
  ASSUME NEW T, 0 \in T, \A n \in Nat : n \in T => n + 1 \in T
  PROVE  Nat \subseteq T
<1> SUFFICES ASSUME Nat \ T # {} PROVE FALSE
  OBVIOUS
<1>1. PICK x \in Nat \ T : \A y \in Nat \ T : ~(<<y, x>> \in OpToRel(<, Nat))
  BY NatLessThanWellFounded, WFMin
<1>2. x # 0 /\ x - 1 \in Nat /\ x - 1 < x
  OBVIOUS
<1>3. <<x - 1, x>> \in OpToRel(<, Nat)
  BY <1>2 DEF OpToRel
<1>4. x - 1 \in T
  BY <1>1, <1>2, <1>3
<1> QED BY <1>2, <1>4

(* Induction over sequences, by their last element.                        *)
LEMMA SeqInd ==
  ASSUME NEW S, NEW T, <<>> \in T,
         \A s \in Seq(S), e \in S : s \in T => Append(s, e) \in T
  PROVE  Seq(S) \subseteq T
<1> DEFINE N == {n \in Nat : \A s \in Seq(S) : Len(s) = n => s \in T}
<1>1. 0 \in N
  BY EmptySeq
<1>2. ASSUME NEW n \in Nat, n \in N PROVE n + 1 \in N
  <2> SUFFICES ASSUME NEW s \in Seq(S), Len(s) = n + 1 PROVE s \in T
    OBVIOUS
  <2>1. s # <<>>
    BY <1>2, EmptySeq
  <2>2. PICK r \in Seq(S), e \in S : s = Append(r, e)
    BY <2>1, SequenceEmptyOrAppend
  <2>3. Len(r) = n
    BY <2>2
  <2> QED BY <1>2, <2>2, <2>3
<1>3. Nat \subseteq N
  <2> HIDE DEF N
  <2> QED BY <1>1, <1>2, NatInd
<1> QED BY <1>3

-----------------------------------------------------------------------------
(***************************************************************************)
(* Sequences of sequences, flattened.                                      *)
(***************************************************************************)
(* A function on 1..n is a sequence of length n.                           *)
LEMMA FunctionIsSeq ==
  ASSUME NEW Q, NEW n \in Nat, NEW f \in [1..n -> Q]
  PROVE  f \in Seq(Q) /\ Len(f) = n
<1>1. f \in Seq(Q)
  BY SeqDef
<1>2. Len(f) \in Nat /\ DOMAIN f = 1..Len(f)
  BY <1>1, LenProperties
<1> QED BY <1>1, <1>2

(* f says what has been put together of s after each of its parts.         *)
IsFlat(f, s) ==
  f = [i \in 1..Len(s) |-> IF i = 1 THEN s[i] ELSE f[i - 1] \o s[i]]

(* The function that FlattenSeq is defined with exists.                    *)
LEMMA FlatExists ==
  ASSUME NEW s, Len(s) \in Nat
  PROVE  \E f : IsFlat(f, s)
<1> DEFINE G(f, n) ==
      f = [i \in 1..n |-> IF i = 1 THEN s[i] ELSE f[i - 1] \o s[i]]
<1> DEFINE N == {n \in Nat : \E f : G(f, n)}
<1>1. 0 \in N
  <2>1. G([i \in {} |-> i], 0)
    OBVIOUS
  <2> QED BY <2>1
<1>2. ASSUME NEW n \in Nat, n \in N PROVE n + 1 \in N
  <2>1. PICK f : G(f, n)
    BY <1>2
  <2> DEFINE g == [i \in 1..(n + 1) |->
                     IF i = 1 THEN s[i]
                     ELSE IF i = n + 1 THEN f[n] \o s[i] ELSE f[i]]
  <2>2. ASSUME NEW i \in 1..(n + 1)
        PROVE  g[i] = IF i = 1 THEN s[i] ELSE g[i - 1] \o s[i]
    <3>1. CASE i = 1
      BY <3>1
    <3>2. CASE i # 1
      <4>1. i - 1 \in 1..n /\ i - 1 \in 1..(n + 1) /\ i - 1 # n + 1
        BY <3>2
      <4>2. g[i - 1] = f[i - 1]
        BY <2>1, <4>1
      <4>3. CASE i = n + 1
        <5>1. i - 1 = n
          BY <4>3
        <5>2. g[i] = f[n] \o s[i]
          BY <3>2, <4>3, Zenon
        <5> HIDE DEF g
        <5> QED BY <3>2, <4>2, <5>1, <5>2
      <4>4. CASE i # n + 1
        <5>1. i \in 1..n
          BY <4>4
        <5>2. f[i] = f[i - 1] \o s[i]
          BY <2>1, <3>2, <5>1
        <5> QED BY <3>2, <4>2, <4>4, <5>2
      <4> QED BY <4>3, <4>4
    <3> QED BY <3>1, <3>2
  <2>3. G(g, n + 1)
    <3>1. g = [i \in 1..(n + 1) |-> g[i]]
      OBVIOUS
    <3> HIDE DEF g
    <3> QED BY <2>2, <3>1
  <2> HIDE DEF g, G
  <2>4. \E h : G(h, n + 1)
    BY <2>3
  <2> QED BY <2>4
<1>3. Nat \subseteq N
  <2> HIDE DEF N
  <2> QED BY <1>1, <1>2, NatInd
<1> QED BY <1>3 DEF IsFlat

(* FlattenSeq is the last value of that function.                          *)
LEMMA FlatLast ==
  ASSUME NEW s, Len(s) \in Nat \ {0}
  PROVE  \E f : IsFlat(f, s) /\ FlattenSeq(s) = f[Len(s)]
<1>1. \E f : IsFlat(f, s)
  BY FlatExists
<1> DEFINE f == CHOOSE g : g = [i \in 1..Len(s) |->
                   IF i = 1 THEN s[i] ELSE g[i - 1] \o s[i]]
<1>2. IsFlat(f, s)
  BY <1>1 DEF IsFlat
<1>3. FlattenSeq(s) = f[Len(s)]
  BY DEF FlattenSeq
<1> HIDE DEF f
<1> QED BY <1>2, <1>3

(* Nothing is what is left of no parts.                                    *)
LEMMA FlattenNothing == FlattenSeq(<<>>) = <<>>
BY EmptySeq DEF FlattenSeq

(* FlattenSeq puts its parts behind one another.                           *)
LEMMA FlattenAppend ==
  ASSUME NEW S, NEW s \in Seq(Seq(S)), NEW x \in Seq(S)
  PROVE  FlattenSeq(Append(s, x)) = FlattenSeq(s) \o x
<1> DEFINE r == Append(s, x)
<1>1. /\ r \in Seq(Seq(S)) /\ Len(s) \in Nat /\ Len(r) = Len(s) + 1
      /\ r[Len(r)] = x /\ \A i \in 1..Len(s) : r[i] = s[i]
  BY AppendProperties
<1> HIDE DEF r
<1>2. PICK g : IsFlat(g, r) /\ FlattenSeq(r) = g[Len(r)]
  <2>1. Len(r) \in Nat \ {0}
    BY <1>1
  <2> QED BY <2>1, FlatLast
<1>3. CASE s = <<>>
  <2>1. Len(r) = 1 /\ g[1] = r[1]
    BY <1>1, <1>2, <1>3, EmptySeq DEF IsFlat
  <2>2. <<>> \o x = x
    BY ConcatEmptySeq
  <2> QED BY <1>1, <1>2, <1>3, <2>1, <2>2, FlattenNothing DEF r
<1>4. CASE s # <<>>
  <2>1. Len(s) \in Nat \ {0}
    BY <1>4, EmptySeq
  <2>2. PICK f : IsFlat(f, s) /\ FlattenSeq(s) = f[Len(s)]
    BY <2>1, FlatLast
  <2>3. ASSUME NEW i \in 1..Len(s)
        PROVE  /\ f[i] = IF i = 1 THEN s[i] ELSE f[i - 1] \o s[i]
               /\ g[i] = IF i = 1 THEN s[i] ELSE g[i - 1] \o s[i]
    <3>1. i \in 1..Len(r) /\ r[i] = s[i]
      BY <1>1
    <3>2. f[i] = IF i = 1 THEN s[i] ELSE f[i - 1] \o s[i]
      BY <2>2 DEF IsFlat
    <3>3. g[i] = IF i = 1 THEN r[i] ELSE g[i - 1] \o r[i]
      BY <1>2, <3>1 DEF IsFlat
    <3> QED BY <3>1, <3>2, <3>3
  <2> DEFINE N == {n \in Nat : n \in 1..Len(s) => f[n] = g[n]}
  <2>4. ASSUME NEW n \in Nat, n \in N PROVE n + 1 \in N
    <3> SUFFICES ASSUME n + 1 \in 1..Len(s) PROVE f[n + 1] = g[n + 1]
      OBVIOUS
    <3>1. CASE n = 0
      BY <2>3, <3>1
    <3>2. CASE n # 0
      <4>1. n \in 1..Len(s) /\ f[n] = g[n]
        BY <2>1, <2>4, <3>2
      <4>2. n + 1 # 1 /\ (n + 1) - 1 = n
        BY <3>2
      <4> QED BY <2>3, <4>1, <4>2
    <3> QED BY <3>1, <3>2
  <2>5. Nat \subseteq N
    <3>1. 0 \in N
      BY <2>1
    <3> HIDE DEF N
    <3> QED BY <2>4, <3>1, NatInd
  <2>6. f[Len(s)] = g[Len(s)]
    BY <2>1, <2>5
  <2>7. g[Len(r)] = g[Len(s)] \o x
    <3>1. Len(r) \in 1..Len(r) /\ Len(r) # 1 /\ Len(r) - 1 = Len(s)
      BY <1>1, <2>1
    <3> QED BY <1>1, <1>2, <3>1 DEF IsFlat
  <2> QED BY <1>2, <2>2, <2>6, <2>7 DEF r
<1> QED BY <1>3, <1>4

(* What is flattened is a sequence of the elements of the parts.           *)
LEMMA FlattenType ==
  ASSUME NEW S, NEW s \in Seq(Seq(S))
  PROVE  FlattenSeq(s) \in Seq(S)
<1> DEFINE T == {q \in Seq(Seq(S)) : FlattenSeq(q) \in Seq(S)}
<1>1. <<>> \in T
  BY FlattenNothing, EmptySeq, Zenon
<1>2. ASSUME NEW q \in Seq(Seq(S)), NEW x \in Seq(S), q \in T
      PROVE  Append(q, x) \in T
  <2>1. FlattenSeq(q) \o x \in Seq(S)
    BY <1>2, ConcatProperties
  <2>2. Append(q, x) \in Seq(Seq(S))
    BY AppendProperties
  <2> QED BY <2>1, <2>2, FlattenAppend, Zenon
<1>3. Seq(Seq(S)) \subseteq T
  <2> HIDE DEF T
  <2> QED BY <1>1, <1>2, SeqInd
<1> QED BY <1>3

(* What F makes of the elements of s, flattened.                           *)
FlatMap(F, s) == FlattenSeq([i \in DOMAIN s |-> F[s[i]]])

(* One more element, one more part.                                        *)
LEMMA FlatMapAppend ==
  ASSUME NEW S, NEW R, NEW F \in [S -> Seq(R)]
  PROVE  /\ FlatMap(F, <<>>) = <<>>
         /\ \A s \in Seq(S) :
              /\ FlatMap(F, s) \in Seq(R)
              /\ \A e \in S :
                   FlatMap(F, Append(s, e)) = FlatMap(F, s) \o F[e]
<1> DEFINE M(s) == [i \in DOMAIN s |-> F[s[i]]]
<1>1. ASSUME NEW s \in Seq(S)
      PROVE  /\ M(s) \in Seq(Seq(R)) /\ Len(M(s)) = Len(s)
             /\ \A i \in 1..Len(s) : M(s)[i] = F[s[i]]
  <2>1. Len(s) \in Nat /\ DOMAIN s = 1..Len(s)
    OBVIOUS
  <2>2. \A i \in 1..Len(s) : F[s[i]] \in Seq(R)
    BY ElementOfSeq
  <2> DEFINE Q == Seq(R)
  <2>3. M(s) \in [1..Len(s) -> Q]
    BY <2>1, <2>2
  <2> HIDE DEF Q
  <2>4. M(s) \in Seq(Q) /\ Len(M(s)) = Len(s)
    <3> HIDE DEF M
    <3> QED BY <2>1, <2>3, FunctionIsSeq
  <2> QED BY <2>1, <2>4 DEF Q
<1>2. ASSUME NEW s \in Seq(S), NEW e \in S
      PROVE  M(Append(s, e)) = Append(M(s), F[e])
  <2> DEFINE Q == Seq(R)
  <2>1. /\ Append(s, e) \in Seq(S) /\ Len(Append(s, e)) = Len(s) + 1
        /\ Append(s, e)[Len(s) + 1] = e
        /\ \A i \in 1..Len(s) : Append(s, e)[i] = s[i]
    BY AppendProperties
  <2>2. /\ M(s) \in Seq(Q) /\ Len(M(s)) = Len(s) /\ F[e] \in Q
        /\ M(Append(s, e)) \in Seq(Q) /\ Len(M(Append(s, e))) = Len(s) + 1
    BY <1>1, <2>1
  <2>3. /\ \A i \in 1..Len(s) : M(s)[i] = F[s[i]]
        /\ \A i \in 1..(Len(s) + 1) : M(Append(s, e))[i] = F[Append(s, e)[i]]
    BY <1>1, <2>1
  <2> HIDE DEF M, Q
  <2>4. /\ Append(M(s), F[e]) \in Seq(Q)
        /\ Len(Append(M(s), F[e])) = Len(s) + 1
        /\ Append(M(s), F[e])[Len(s) + 1] = F[e]
        /\ \A i \in 1..Len(s) : Append(M(s), F[e])[i] = M(s)[i]
    BY <2>2, AppendProperties
  <2>5. \A i \in 1..(Len(s) + 1) : M(Append(s, e))[i] = Append(M(s), F[e])[i]
    BY <2>1, <2>3, <2>4
  <2> QED BY <2>2, <2>4, <2>5, SeqEqual
<1>3. FlatMap(F, <<>>) = <<>>
  <2>1. M(<<>>) = <<>>
    OBVIOUS
  <2> QED BY <2>1, FlattenNothing DEF FlatMap
<1>4. ASSUME NEW s \in Seq(S)
      PROVE  /\ FlatMap(F, s) \in Seq(R)
             /\ \A e \in S : FlatMap(F, Append(s, e)) = FlatMap(F, s) \o F[e]
  <2>1. M(s) \in Seq(Seq(R))
    BY <1>1
  <2>2. FlatMap(F, s) = FlattenSeq(M(s)) /\ FlattenSeq(M(s)) \in Seq(R)
    BY <2>1, FlattenType DEF FlatMap
  <2>3. ASSUME NEW e \in S
        PROVE  FlatMap(F, Append(s, e)) = FlatMap(F, s) \o F[e]
    <3>1. FlatMap(F, Append(s, e)) = FlattenSeq(Append(M(s), F[e]))
      BY <1>2 DEF FlatMap
    <3>2. F[e] \in Seq(R)
      OBVIOUS
    <3> HIDE DEF M
    <3> QED BY <2>1, <2>2, <3>1, <3>2, FlattenAppend
  <2> QED BY <2>2, <2>3
<1> QED BY <1>3, <1>4

-----------------------------------------------------------------------------
(***************************************************************************)
(* The encoding of a sequence of characters.                               *)
(***************************************************************************)
Bytes == 0..255

(* The bytes of the characters of s, one behind the other.                 *)
Encoded(s) == FlattenSeq([i \in DOMAIN s |-> utf8_encode(s[i])])

(* A character takes one, two or three bytes; the first byte says which is *)
(* a byte from 128 on if there are more, and the last byte of more than    *)
(* one is between 128 and 191 (report.c:26-43).                            *)
LEMMA EncodeShape ==
  ASSUME NEW c \in Units
  PROVE  /\ utf8_encode(c) \in Seq(Bytes)
         /\ c < 128 => utf8_encode(c) = <<c>> /\ Len(utf8_encode(c)) = 1
         /\ 128 <= c /\ c < 2048 =>
              /\ Len(utf8_encode(c)) = 2
              /\ utf8_encode(c)[1] \in 192..255
              /\ utf8_encode(c)[2] \in 128..191
         /\ c >= 2048 =>
              /\ Len(utf8_encode(c)) = 3
              /\ utf8_encode(c)[1] \in 224..255
              /\ utf8_encode(c)[2] \in 128..255
              /\ utf8_encode(c)[3] \in 128..191
<1> c \in Nat /\ c <= 65535
  BY DEF Units
<1>1. CASE c < 128
  BY <1>1 DEF utf8_encode, Bytes
<1>2. CASE 128 <= c /\ c < 2048
  <2> DEFINE a == 192 + 4 * (c \div 256) + c \div 64
             b == 128 + (c % 64)
  <2>1. utf8_encode(c) = <<a, b>>
    BY <1>2 DEF utf8_encode, TwoBytes
  <2>2. c \div 256 \in 0..7 /\ c \div 64 \in 0..31 /\ c % 64 \in 0..63
    BY <1>2
  <2>3. a \in 192..255 /\ b \in 128..191
    BY <2>2
  <2> HIDE DEF a, b
  <2> QED BY <1>2, <2>1, <2>3 DEF Bytes
<1>3. CASE c >= 2048
  <2> DEFINE a == 224 + c \div 4096
             d == 128 + 4 * ((c \div 256) % 32) + ((c \div 64) % 4)
             b == 128 + (c % 64)
  <2>1. utf8_encode(c) = <<a, d, b>>
    BY <1>3 DEF utf8_encode, ThreeBytes
  <2>2. /\ c \div 4096 \in 0..15 /\ (c \div 256) % 32 \in 0..31
        /\ (c \div 64) % 4 \in 0..3 /\ c % 64 \in 0..63
    OBVIOUS
  <2>3. a \in 224..255 /\ d \in 128..255 /\ b \in 128..191
    BY <2>2
  <2> HIDE DEF a, b, d
  <2>4. a \in Bytes /\ d \in Bytes /\ b \in Bytes
    BY <2>3 DEF Bytes
  <2>5. /\ <<a, d, b>> \in Seq(Bytes) /\ Len(<<a, d, b>>) = 3
        /\ <<a, d, b>>[1] = a /\ <<a, d, b>>[2] = d /\ <<a, d, b>>[3] = b
    BY <2>4
  <2>6. ~(c < 128) /\ ~(c < 2048)
    BY <1>3
  <2> QED BY <2>1, <2>3, <2>5, <2>6
<1> QED BY <1>1, <1>2, <1>3

(* From 128 on, no byte of a character is an ASCII one (report.c:26-43).   *)
LEMMA EncodeHigh ==
  ASSUME NEW c \in Units, c >= 128
  PROVE  /\ Len(utf8_encode(c)) \in {2, 3}
         /\ \A i \in 1..Len(utf8_encode(c)) :
              utf8_encode(c)[i] \in Nat /\ utf8_encode(c)[i] >= 128
<1>1. c \in Nat
  BY DEF Units
<1>2. CASE 128 <= c /\ c < 2048
  <2>1. /\ Len(utf8_encode(c)) = 2
        /\ utf8_encode(c)[1] \in 192..255
        /\ utf8_encode(c)[2] \in 128..191
    BY <1>2, EncodeShape
  <2> DEFINE u == utf8_encode(c)
  <2> HIDE DEF u
  <2>2. Len(u) = 2 /\ u[1] \in 192..255 /\ u[2] \in 128..191
    BY <2>1 DEF u
  <2>3. \A i \in 1..2 : u[i] \in Nat /\ u[i] >= 128
    BY <2>2
  <2> QED BY <2>2, <2>3 DEF u
<1>3. CASE c >= 2048
  <2>1. /\ Len(utf8_encode(c)) = 3
        /\ utf8_encode(c)[1] \in 224..255
        /\ utf8_encode(c)[2] \in 128..255
        /\ utf8_encode(c)[3] \in 128..191
    BY <1>3, EncodeShape
  <2> DEFINE u == utf8_encode(c)
  <2> HIDE DEF u
  <2>2. /\ Len(u) = 3 /\ u[1] \in 224..255 /\ u[2] \in 128..255
        /\ u[3] \in 128..191
    BY <2>1 DEF u
  <2>3. \A i \in 1..3 : u[i] \in Nat /\ u[i] >= 128
    BY <2>2
  <2> QED BY <2>2, <2>3 DEF u
<1> QED BY <1>1, <1>2, <1>3

(* One more character adds its own bytes.                                  *)
LEMMA EncodedAppend ==
  /\ Encoded(<<>>) = <<>>
  /\ \A s \in Seq(Units) :
       /\ Encoded(s) \in Seq(Bytes)
       /\ \A c \in Units : Encoded(Append(s, c)) = Encoded(s) \o utf8_encode(c)
<1> DEFINE F == [c \in Units |-> utf8_encode(c)]
<1>1. F \in [Units -> Seq(Bytes)] /\ \A c \in Units : F[c] = utf8_encode(c)
  BY EncodeShape
<1>2. ASSUME NEW s \in Seq(Units) PROVE Encoded(s) = FlatMap(F, s)
  <2>1. \A i \in DOMAIN s : F[s[i]] = utf8_encode(s[i])
    BY <1>1, ElementOfSeq, LenProperties
  <2>2. [i \in DOMAIN s |-> F[s[i]]] = [i \in DOMAIN s |-> utf8_encode(s[i])]
    BY <2>1, Zenon
  <2> QED BY <2>2 DEF Encoded, FlatMap
<1> HIDE DEF F
<1>3. /\ FlatMap(F, <<>>) = <<>>
      /\ \A s \in Seq(Units) :
           /\ FlatMap(F, s) \in Seq(Bytes)
           /\ \A e \in Units :
                FlatMap(F, Append(s, e)) = FlatMap(F, s) \o F[e]
  BY <1>1, FlatMapAppend
<1>4. <<>> \in Seq(Units) /\ \A s \in Seq(Units), c \in Units :
                               Append(s, c) \in Seq(Units)
  BY EmptySeq, AppendProperties
<1> QED BY <1>1, <1>2, <1>3, <1>4

(* The encoding of two texts is that of one behind that of the other.      *)
LEMMA EncodedConcat ==
  ASSUME NEW s \in Seq(Units), NEW t \in Seq(Units)
  PROVE  Encoded(s \o t) = Encoded(s) \o Encoded(t)
<1> DEFINE T == {q \in Seq(Units) :
                   Encoded(s \o q) = Encoded(s) \o Encoded(q)}
<1>1. <<>> \in T
  <2>1. s \o <<>> = s /\ Encoded(s) \o <<>> = Encoded(s) /\ <<>> \in Seq(Units)
    BY EncodedAppend, ConcatEmptySeq, EmptySeq
  <2> QED BY <2>1, EncodedAppend
<1>2. ASSUME NEW q \in Seq(Units), NEW c \in Units, q \in T
      PROVE  Append(q, c) \in T
  <2>1. /\ s \o q \in Seq(Units) /\ Append(q, c) \in Seq(Units)
        /\ s \o Append(q, c) = Append(s \o q, c)
    OBVIOUS
  <2>2. /\ Encoded(s) \in Seq(Bytes) /\ Encoded(q) \in Seq(Bytes)
        /\ utf8_encode(c) \in Seq(Bytes)
    BY EncodedAppend, EncodeShape
  <2>3. Encoded(s \o Append(q, c)) = Encoded(s \o q) \o utf8_encode(c)
    BY <2>1, EncodedAppend
  <2>4. Encoded(s \o q) = Encoded(s) \o Encoded(q)
    BY <1>2
  <2>5. (Encoded(s) \o Encoded(q)) \o utf8_encode(c)
          = Encoded(s) \o (Encoded(q) \o utf8_encode(c))
    BY <2>2, ConcatAssociative
  <2>6. Encoded(Append(q, c)) = Encoded(q) \o utf8_encode(c)
    BY EncodedAppend
  <2> QED BY <2>1, <2>3, <2>4, <2>5, <2>6
<1>3. Seq(Units) \subseteq T
  <2> HIDE DEF T
  <2> QED BY <1>1, <1>2, SeqInd
<1> QED BY <1>3

-----------------------------------------------------------------------------
(***************************************************************************)
(* Decimal digits.                                                         *)
(***************************************************************************)
(* What Decimal says of i when f says what it is of smaller numbers.       *)
DigitsFrom(f, i) ==
  IF i < 10 THEN <<48 + i>> ELSE Append(f[i \div 10], 48 + (i % 10))

(* f is Decimal up to n. *)
DigitsUpTo(f, n) == \A i \in 0..n : f[i] = DigitsFrom(f, i)

(* Such a function exists for every n.                                     *)
LEMMA DigitsExist ==
  ASSUME NEW n \in Nat
  PROVE  \E f : DigitsUpTo(f, n)
<1> DEFINE N == {m \in Nat : \E f : DigitsUpTo(f, m)}
<1>1. 0 \in N
  <2> DEFINE f == [i \in Nat |-> <<48 + i>>]
  <2>1. DigitsUpTo(f, 0)
    BY DEF DigitsUpTo, DigitsFrom
  <2> QED BY <2>1
<1>2. ASSUME NEW m \in Nat, m \in N PROVE m + 1 \in N
  <2>1. PICK f : DigitsUpTo(f, m)
    BY <1>2
  <2> DEFINE g == [i \in Nat |-> IF i = m + 1 THEN DigitsFrom(f, m + 1) ELSE f[i]]
  <2>2. \A i \in Nat : i # m + 1 => g[i] = f[i]
    OBVIOUS
  <2>3. g[m + 1] = DigitsFrom(f, m + 1)
    OBVIOUS
  <2> HIDE DEF g
  <2>4. ASSUME NEW i \in 0..(m + 1) PROVE g[i] = DigitsFrom(g, i)
    <3>1. CASE i < 10
      <4>1. DigitsFrom(g, i) = DigitsFrom(f, i)
        BY <3>1 DEF DigitsFrom
      <4>2. i \in 0..m \/ i = m + 1
        OBVIOUS
      <4> QED BY <2>1, <2>2, <2>3, <4>1, <4>2 DEF DigitsUpTo
    <3>2. CASE i >= 10
      <4>1. i \div 10 \in 0..m /\ i \div 10 # m + 1
        BY <3>2
      <4>2. g[i \div 10] = f[i \div 10]
        BY <2>2, <4>1
      <4>3. DigitsFrom(g, i) = DigitsFrom(f, i)
        BY <4>2 DEF DigitsFrom
      <4> QED BY <2>1, <2>2, <2>3, <4>3 DEF DigitsUpTo
    <3> QED BY <3>1, <3>2
  <2> QED BY <2>4 DEF DigitsUpTo
<1>3. Nat \subseteq N
  <2> HIDE DEF N
  <2> QED BY <1>1, <1>2, NatInd
<1> QED BY <1>3

(* Any two of them agree where both are defined.                           *)
LEMMA DigitsAgree ==
  ASSUME NEW f, NEW g, NEW n \in Nat, NEW m \in Nat,
         DigitsUpTo(f, n), DigitsUpTo(g, m),
         NEW i \in Nat, i <= n, i <= m
  PROVE  f[i] = g[i]
<1> DEFINE N == {k \in Nat : \A j \in 0..k : j <= n /\ j <= m => f[j] = g[j]}
<1>1. ASSUME NEW j \in 0..n, j <= m, j >= 10 => f[j \div 10] = g[j \div 10]
      PROVE  f[j] = g[j]
  <2>1. f[j] = DigitsFrom(f, j) /\ g[j] = DigitsFrom(g, j)
    BY <1>1 DEF DigitsUpTo
  <2> QED BY <1>1, <2>1 DEF DigitsFrom
<1>2. 0 \in N
  BY <1>1
<1>3. ASSUME NEW k \in Nat, k \in N PROVE k + 1 \in N
  <2> SUFFICES ASSUME NEW j \in 0..(k + 1), j <= n, j <= m PROVE f[j] = g[j]
    OBVIOUS
  <2>1. j >= 10 => j \div 10 \in 0..k /\ j \div 10 <= n /\ j \div 10 <= m
    OBVIOUS
  <2>2. j >= 10 => f[j \div 10] = g[j \div 10]
    BY <1>3, <2>1
  <2> QED BY <1>1, <2>2
<1>4. Nat \subseteq N
  <2> HIDE DEF N
  <2> QED BY <1>2, <1>3, NatInd
<1> QED BY <1>4

(* Decimal is what its definition says (sprintf("%u"), report.c:129-160).  *)
LEMMA DecimalDigits ==
  ASSUME NEW n \in Nat
  PROVE  Decimal[n] = DigitsFrom(Decimal, n)
<1> DEFINE F(m) == CHOOSE f : DigitsUpTo(f, m)
           h == [m \in Nat |-> F(m)[m]]
           D == CHOOSE g : g = [m \in Nat |->
                  IF m < 10 THEN <<48 + m>>
                  ELSE Append(g[m \div 10], 48 + (m % 10))]
<1>1. \A m \in Nat : DigitsUpTo(F(m), m)
  BY DigitsExist
<1>2. ASSUME NEW m \in Nat PROVE h[m] = DigitsFrom(h, m)
  <2>1. F(m)[m] = DigitsFrom(F(m), m)
    BY <1>1 DEF DigitsUpTo
  <2>2. m >= 10 => h[m \div 10] = F(m)[m \div 10]
    <3> SUFFICES ASSUME m >= 10 PROVE h[m \div 10] = F(m)[m \div 10]
      OBVIOUS
    <3>1. m \div 10 \in Nat /\ m \div 10 <= m
      OBVIOUS
    <3>2. F(m \div 10)[m \div 10] = F(m)[m \div 10]
      <4>1. DigitsUpTo(F(m \div 10), m \div 10) /\ DigitsUpTo(F(m), m)
        BY <1>1, <3>1
      <4> HIDE DEF F
      <4> QED BY <3>1, <4>1, DigitsAgree
    <3> HIDE DEF F
    <3> QED BY <3>1, <3>2
  <2>3. h[m] = F(m)[m]
    OBVIOUS
  <2> HIDE DEF h, F
  <2> QED BY <2>1, <2>2, <2>3 DEF DigitsFrom
<1>3. h = [m \in Nat |-> IF m < 10 THEN <<48 + m>>
                         ELSE Append(h[m \div 10], 48 + (m % 10))]
  <2>1. h = [m \in Nat |-> h[m]]
    OBVIOUS
  <2> HIDE DEF h
  <2> QED BY <1>2, <2>1, Zenon DEF DigitsFrom
<1>4. D = [m \in Nat |-> IF m < 10 THEN <<48 + m>>
                         ELSE Append(D[m \div 10], 48 + (m % 10))]
  <2> HIDE DEF h
  <2> QED BY <1>3, Zenon
<1>5. Decimal = D
  BY DEF Decimal
<1> HIDE DEF D
<1> QED BY <1>4, <1>5, Zenon DEF DigitsFrom

(* A number is printed with digits.                                        *)
LEMMA DecimalType ==
  ASSUME NEW n \in Nat
  PROVE  Decimal[n] \in Seq(48..57)
<1> DEFINE N == {k \in Nat : \A j \in 0..k : Decimal[j] \in Seq(48..57)}
<1>1. ASSUME NEW j \in Nat, j >= 10 => Decimal[j \div 10] \in Seq(48..57)
      PROVE  Decimal[j] \in Seq(48..57)
  <2>1. CASE j < 10
    <3>1. Decimal[j] = <<48 + j>>
      <4>1. Decimal[j] = DigitsFrom(Decimal, j)
        BY DecimalDigits
      <4> QED BY <2>1, <4>1 DEF DigitsFrom
    <3>2. 48 + j \in 48..57
      BY <2>1
    <3> QED BY <3>1, <3>2
  <2>2. CASE j >= 10
    <3>1. Decimal[j] = Append(Decimal[j \div 10], 48 + (j % 10))
      <4>1. Decimal[j] = DigitsFrom(Decimal, j) /\ ~(j < 10)
        BY <2>2, DecimalDigits
      <4> QED BY <4>1 DEF DigitsFrom
    <3>2. 48 + (j % 10) \in 48..57
      OBVIOUS
    <3> QED BY <1>1, <2>2, <3>1, <3>2, AppendProperties
  <2> QED BY <2>1, <2>2
<1>2. 0 \in N
  BY <1>1
<1>3. ASSUME NEW k \in Nat, k \in N PROVE k + 1 \in N
  <2> SUFFICES ASSUME NEW j \in 0..(k + 1) PROVE Decimal[j] \in Seq(48..57)
    OBVIOUS
  <2>1. j >= 10 => j \div 10 \in 0..k
    OBVIOUS
  <2> QED BY <1>1, <1>3, <2>1
<1>4. Nat \subseteq N
  <2> HIDE DEF N
  <2> QED BY <1>2, <1>3, NatInd
<1>5. n \in N /\ n \in 0..n
  BY <1>4
<1> QED BY <1>5

-----------------------------------------------------------------------------
(***************************************************************************)
(* The line that is to be printed.                                         *)
(***************************************************************************)
(* A set of natural numbers that is not empty has a least element.         *)
LEMMA Least ==
  ASSUME NEW T, T \subseteq Nat, T # {}
  PROVE  \E x \in T : \A y \in T : x <= y
<1>1. PICK x \in T : \A y \in T : ~(<<y, x>> \in OpToRel(<, Nat))
  BY NatLessThanWellFounded, WFMin
<1>2. ASSUME NEW y \in T PROVE x <= y
  <2>1. x \in Nat /\ y \in Nat
    OBVIOUS
  <2>2. y < x => <<y, x>> \in OpToRel(<, Nat)
    BY <2>1 DEF OpToRel
  <2>3. ~(y < x)
    BY <1>1, <2>2
  <2> QED BY <2>1, <2>3
<1> QED BY <1>2

(* The part of a text in front of its first zero.                          *)
LEMMA ToZeroType ==
  ASSUME NEW S, NEW s \in Seq(S)
  PROVE  ToZero(s) \in Seq(S)
<1>1. CASE \E i \in DOMAIN s : s[i] = 0
  <2> DEFINE Z == {i \in DOMAIN s : s[i] = 0}
             k == CHOOSE i \in DOMAIN s : s[i] = 0 /\ \A j \in 1..(i - 1) : s[j] # 0
  <2>1. Len(s) \in Nat /\ DOMAIN s = 1..Len(s)
    OBVIOUS
  <2>2. PICK x \in Z : \A y \in Z : x <= y
    <3>1. Z \subseteq Nat /\ Z # {}
      BY <1>1, <2>1
    <3> HIDE DEF Z
    <3> QED BY <3>1, Least
  <2>3. x \in DOMAIN s /\ s[x] = 0 /\ \A j \in 1..(x - 1) : s[j] # 0
    BY <2>1, <2>2
  <2>4. k \in DOMAIN s
    BY <2>3
  <2>5. ToZero(s) = SubSeq(s, 1, k - 1)
    BY <1>1 DEF ToZero
  <2> HIDE DEF k
  <2>6. SubSeq(s, 1, k - 1) \in Seq(S)
    <3>1. 1 \in Int /\ k - 1 \in Int /\ \A i \in 1..(k - 1) : s[i] \in S
      BY <2>1, <2>4
    <3> QED BY <3>1, SubSeqProperties
  <2> QED BY <2>5, <2>6
<1>2. CASE ~\E i \in DOMAIN s : s[i] = 0
  BY <1>2 DEF ToZero
<1> QED BY <1>1, <1>2

(* A char becomes a character.                                             *)
LEMMA SignExtendType == \A c \in Bytes : SignExtend(c) \in Units
<1> SUFFICES ASSUME NEW c \in Bytes PROVE SignExtend(c) \in Units
  OBVIOUS
<1>1. c \in Int /\ 0 <= c /\ c <= 255
  BY DEF Bytes
<1>2. SignExtend(c) = c \/ SignExtend(c) = 65280 + c
  BY DEF SignExtend
<1> QED BY <1>1, <1>2 DEF Units

(* A small character is a byte.                                            *)
LEMMA UnitByte == \A c \in Units : c < 256 <=> c \in Bytes
BY DEF Bytes, Units

(* A text of small characters is one of bytes.                             *)
LEMMA BytesOfText ==
  ASSUME NEW s \in Seq(Units), \A i \in DOMAIN s : s[i] < 256
  PROVE  s \in Seq(Bytes)
<1>1. Len(s) \in Nat /\ DOMAIN s = 1..Len(s) /\ s \in [1..Len(s) -> Units]
  BY LenProperties
<1>2. ASSUME NEW i \in 1..Len(s) PROVE s[i] \in Bytes
  <2>1. s[i] \in Units /\ s[i] < 256
    BY <1>1
  <2> QED BY <2>1, UnitByte
<1>3. s \in [1..Len(s) -> Bytes]
  BY <1>1, <1>2
<1> QED BY <1>1, <1>3, FunctionIsSeq

(* The characters of a text, each in its place (report.c:92-94).           *)
LEMMA CharsType ==
  ASSUME NEW s \in Seq(Bytes)
  PROVE  /\ Chars(s) \in Seq(Units) /\ Len(Chars(s)) = Len(s)
         /\ \A i \in 1..Len(s) : Chars(s)[i] = SignExtend(s[i])
<1>1. Len(s) \in Nat /\ DOMAIN s = 1..Len(s) /\ \A i \in 1..Len(s) : s[i] \in Bytes
  BY ElementOfSeq
<1>2. \A b \in Bytes : SignExtend(b) \in Units
  BY SignExtendType
<1>3. Chars(s) \in [1..Len(s) -> Units]
  BY <1>1, <1>2 DEF Chars
<1>4. \A i \in 1..Len(s) : Chars(s)[i] = SignExtend(s[i])
  BY <1>1 DEF Chars
<1> QED BY <1>1, <1>3, <1>4, FunctionIsSeq

(* What stands between the quotes. *)
Escaped(s) == FlattenSeq([i \in DOMAIN s |-> Escape(s[i])])

(* One more character adds its own escape.                                 *)
LEMMA EscapedAppend ==
  /\ Escaped(<<>>) = <<>>
  /\ \A s \in Seq(Units) :
       /\ Escaped(s) \in Seq(Units)
       /\ \A c \in Units : Escaped(Append(s, c)) = Escaped(s) \o Escape(c)
<1> DEFINE F == [c \in Units |-> Escape(c)]
<1>1. F \in [Units -> Seq(Units)] /\ \A c \in Units : F[c] = Escape(c)
  <2>1. ASSUME NEW c \in Units PROVE Escape(c) \in Seq(Units)
    <3> HIDE DEF F
    <3>1. /\ Backslash \in Units /\ Quote \in Units
          /\ 116 \in Units /\ 114 \in Units /\ 110 \in Units
      BY DEF Units, Backslash, Quote
    <3> QED BY <3>1 DEF Escape
  <2> QED BY <2>1
<1>2. ASSUME NEW s \in Seq(Units) PROVE Escaped(s) = FlatMap(F, s)
  <2>1. \A i \in DOMAIN s : F[s[i]] = Escape(s[i])
    BY <1>1, ElementOfSeq, LenProperties
  <2>2. [i \in DOMAIN s |-> F[s[i]]] = [i \in DOMAIN s |-> Escape(s[i])]
    BY <2>1, Zenon
  <2> QED BY <2>2 DEF Escaped, FlatMap
<1> HIDE DEF F
<1>3. /\ FlatMap(F, <<>>) = <<>>
      /\ \A s \in Seq(Units) :
           /\ FlatMap(F, s) \in Seq(Units)
           /\ \A e \in Units :
                FlatMap(F, Append(s, e)) = FlatMap(F, s) \o F[e]
  BY <1>1, FlatMapAppend
<1>4. <<>> \in Seq(Units) /\ \A s \in Seq(Units), c \in Units :
                               Append(s, c) \in Seq(Units)
  BY EmptySeq, AppendProperties
<1> QED BY <1>1, <1>2, <1>3, <1>4

(* What is put in quotes or left without is a text.                        *)
LEMMA PrintedType ==
  ASSUME NEW s \in Seq(Units), NEW q \in BOOLEAN
  PROVE  Printed(s, q) \in Seq(Units)
<1>1. EmptyText \in Seq(Units)
  BY DEF EmptyText, Units
<1>2. Escaped(s) \in Seq(Units) /\ <<Quote>> \in Seq(Units)
  BY EscapedAppend DEF Quote, Units
<1>3. (<<Quote>> \o Escaped(s)) \o <<Quote>> \in Seq(Units)
  BY <1>2, ConcatProperties
<1> QED BY <1>1, <1>3 DEF Printed, Quoted, Escaped

(* So is what is printed of a pointer, NULL or not.                        *)
LEMMA WideType ==
  ASSUME NEW p, NEW s, NEW q \in BOOLEAN, p # Null => s \in Seq(Units)
  PROVE  Wide(p, s, q) \in Seq(Units)
<1>1. NullText \in Seq(Units)
  BY DEF NullText, Units
<1> QED BY <1>1, PrintedType DEF Wide

(* The texts behind a pointer, of characters and of bytes.                 *)
LEMMA PointerType ==
  /\ \A p \in Pointers(Texts) : p # Null =>
       p.text \in Seq(Units) /\ ToZero(p.text) \in Seq(Units)
  /\ \A p \in Pointers(AnsiTexts) : p # Null =>
       /\ p.text \in Seq(Bytes) /\ ToZero(p.text) \in Seq(Bytes)
       /\ Chars(p.text) \in Seq(Units) /\ Chars(ToZero(p.text)) \in Seq(Units)
<1>1. ASSUME NEW T, NEW p \in Pointers(T), p # Null PROVE p.text \in T
  BY <1>1 DEF Pointers
<1>2. \A s \in Texts : s \in Seq(Units) /\ ToZero(s) \in Seq(Units)
  BY FormatAssumption, ToZeroType
<1>3. ASSUME NEW s \in AnsiTexts
      PROVE  /\ s \in Seq(Bytes) /\ ToZero(s) \in Seq(Bytes)
             /\ Chars(s) \in Seq(Units) /\ Chars(ToZero(s)) \in Seq(Units)
  <2>1. s \in Seq(Units) /\ \A i \in DOMAIN s : s[i] < 256
    BY <1>2 DEF AnsiTexts
  <2>2. s \in Seq(Bytes)
    BY <2>1, BytesOfText
  <2> QED BY <2>2, ToZeroType, CharsType
<1> QED BY <1>1, <1>2, <1>3

(* Digits are characters.                                                  *)
LEMMA HexDigit ==
  \A x \in 0..15 : /\ HexChar(x) \in 48..57 \cup 97..102
                   /\ Digit(HexChar(x)) = x
BY DEF HexChar, Digit

LEMMA NumberType ==
  ASSUME NEW n \in Nat
  PROVE  Decimal[n] \in Seq(Units) /\ Hexadecimal(n) \in Seq(Units)
<1>1. Decimal[n] \in Seq(Units)
  <2>1. 48..57 \subseteq Units
    BY DEF Units
  <2> QED BY <2>1, DecimalType, SeqMonotonic
<1>2. ASSUME NEW i \in 1..8 PROVE HexChar((n \div Places[i]) % 16) \in Units
  <2>1. Places[i] \in Nat \ {0}
    BY DEF Places
  <2>2. (n \div Places[i]) % 16 \in 0..15
    BY <2>1
  <2> QED BY <2>2, HexDigit DEF Units
<1>3. Hexadecimal(n) \in [1..8 -> Units]
  BY <1>2 DEF Hexadecimal
<1> QED BY <1>1, <1>3, FunctionIsSeq

(* What a variant is that is not one of a variant.                         *)
LEMMA ScalarType ==
  ASSUME NEW t \in Scalars
  PROVE  /\ t.vt \in Numeric \cup {"NULL", "BOOL", "LPSTR", "LPWSTR", "BSTR", "other"}
         /\ t.vt # "VARIANT"
         /\ t.vt \in Numeric => t.bits \in Nat /\ t.bits < Width(t.vt)
         /\ t.vt = "other" => t.bits \in Nat
         /\ t.vt = "LPSTR" => t.to \in Pointers(AnsiTexts)
         /\ t.vt \in {"LPWSTR", "BSTR"} => t.to \in Pointers(Texts)
<1> USE DEF Numeric, Bytewise, Wordwise, Longwise, Quadwise
<1>1. CASE t \in {v \in [is : {"variant"}, vt : Numeric, bits : Nat] :
                    v.bits < Width(v.vt)}
  BY <1>1
<1>2. CASE t \in [is : {"variant"}, vt : {"NULL"}]
  BY <1>2
<1>3. CASE t \in [is : {"variant"}, vt : {"BOOL"}, bits : 0..(Width16 - 1)]
  BY <1>3
<1>4. CASE t \in [is : {"variant"}, vt : {"LPSTR"}, to : Pointers(AnsiTexts)]
  BY <1>4
<1>5. CASE t \in [is : {"variant"}, vt : {"LPWSTR", "BSTR"}, to : Pointers(Texts)]
  BY <1>5
<1>6. CASE t \in [is : {"variant"}, vt : {"other"},
                    bits : (0..(Width16 - 1)) \ Listed]
  <2>1. t.vt = "other" /\ t.bits \in 0..(Width16 - 1)
    BY <1>6
  <2>2. t.bits \in Nat
    BY <2>1, FormatAssumption
  <2> QED BY <2>1, <2>2
<1> QED BY <1>1, <1>2, <1>3, <1>4, <1>5, <1>6, Zenon DEF Scalars

LEMMA TargetType == \A v \in Variants : Target(v) \in Scalars
<1> SUFFICES ASSUME NEW v \in Variants PROVE Target(v) \in Scalars
  OBVIOUS
<1>1. CASE v \in Scalars
  BY <1>1, ScalarType DEF Target
<1>2. CASE v \in [is : {"variant"}, vt : {"VARIANT"}, to : Scalars]
  BY <1>2 DEF Target
<1> QED BY <1>1, <1>2 DEF Variants

(* The number printed of a variant: never negative, and the value of the   *)
(* variant, or for a negative short more by a multiple of its width.       *)
LEMMA UnsignedType ==
  ASSUME NEW t \in Scalars, t.vt \in Numeric
  PROVE  /\ Unsigned(t.vt, t.bits) \in Nat
         /\ Width(t.vt) \in Nat \ {0} /\ t.bits \in 0..(Width(t.vt) - 1)
         /\ Unsigned(t.vt, t.bits) # t.bits =>
              /\ t.vt \in Wordwise /\ 2 * t.bits >= Width16
              /\ Width(t.vt) = Width16
              /\ Unsigned(t.vt, t.bits) = Width32 - Width16 + t.bits
<1>1. /\ Width8 \in Nat /\ Width16 \in Nat /\ Width32 \in Nat /\ Width64 \in Nat
      /\ 1 < Width8 /\ Width8 < Width16 /\ Width16 < Width32 /\ 1 < Width64
  BY FormatAssumption
<1>2. t.bits \in Nat /\ t.bits < Width(t.vt)
  BY ScalarType
<1>3. /\ Width(t.vt) \in Nat \ {0}
      /\ t.vt \in Wordwise => Width(t.vt) = Width16
  BY <1>1 DEF Width, Numeric, Bytewise, Wordwise, Longwise, Quadwise
<1>4. t.bits \in 0..(Width(t.vt) - 1)
  BY <1>2, <1>3
<1> QED BY <1>1, <1>2, <1>3, <1>4 DEF Unsigned

(* Whatever a directive is given, it prints characters.                    *)
LEMMA VariantPrints ==
  ASSUME NEW v \in Variants
  PROVE  _report_variant(v) \in Seq(Units)
<1> DEFINE t == Target(v)
<1>1. t \in Scalars
  BY TargetType
<1>2. NullText \in Seq(Units) /\ TrueText \in Seq(Units) /\ FalseText \in Seq(Units)
  BY DEF NullText, TrueText, FalseText, Units
<1> USE DEF Numeric, Bytewise, Wordwise, Longwise, Quadwise
<1>3. CASE t.vt \in {"NULL", "BOOL"}
  BY <1>2, <1>3 DEF _report_variant
<1>4. CASE t.vt \in Numeric
  <2> DEFINE n == Unsigned(t.vt, t.bits)
  <2>1. n \in Nat
    BY <1>1, <1>4, UnsignedType
  <2>2. _report_variant(v) = Decimal[n]
    BY <1>4 DEF _report_variant
  <2> HIDE DEF n
  <2>3. Decimal[n] \in Seq(Units)
    BY <2>1, NumberType
  <2> QED BY <2>2, <2>3
<1>5. CASE t.vt = "LPSTR"
  <2>1. Narrow(t.to, ToZero(t.to.text), TRUE) \in Seq(Units)
    BY <1>1, <1>5, ScalarType, PointerType, WideType DEF Narrow
  <2> QED BY <1>5, <2>1 DEF _report_variant
<1>6. CASE t.vt = "LPWSTR"
  <2>1. Wide(t.to, ToZero(t.to.text), TRUE) \in Seq(Units)
    BY <1>1, <1>6, ScalarType, PointerType, WideType
  <2> QED BY <1>6, <2>1 DEF _report_variant
<1>7. CASE t.vt = "BSTR"
  <2>1. Wide(t.to, t.to.text, TRUE) \in Seq(Units)
    BY <1>1, <1>7, ScalarType, PointerType, WideType
  <2> QED BY <1>7, <2>1 DEF _report_variant
<1>8. CASE t.vt = "other"
  <2>1. t.bits \in Nat
    BY <1>1, <1>8, ScalarType
  <2>2. /\ <<60, 86, 84, 95>> \in Seq(Units) /\ <<62>> \in Seq(Units)
        /\ Decimal[t.bits] \in Seq(Units)
    BY <2>1, NumberType DEF Units
  <2>3. OtherText(t.bits) \in Seq(Units)
    BY <2>2, ConcatProperties DEF OtherText
  <2> QED BY <1>8, <2>3 DEF _report_variant
<1> QED BY <1>1, <1>3, <1>4, <1>5, <1>6, <1>7, <1>8, ScalarType

LEMMA DirectivePrints ==
  ASSUME NEW d \in Directives, NEW a \in Arguments(d)
  PROVE  Directive(d, a) \in Seq(Units)
<1>1. CASE d = "z"
  <2>1. a \in Pointers(AnsiTexts)
    BY <1>1 DEF Arguments
  <2>2. Narrow(a, ToZero(a.text), FALSE) \in Seq(Units)
    BY <2>1, PointerType, WideType DEF Narrow
  <2> QED BY <1>1, <2>2 DEF Directive
<1>2. CASE d = "s"
  <2>1. a \in Pointers(AnsiTexts)
    BY <1>2 DEF Arguments
  <2>2. Narrow(a, a.text, TRUE) \in Seq(Units)
    BY <2>1, PointerType, WideType DEF Narrow
  <2> QED BY <1>2, <2>2 DEF Directive
<1>3. CASE d \in {"Z", "S", "b"}
  <2>1. a \in Pointers(Texts)
    BY <1>3 DEF Arguments
  <2>2. /\ Wide(a, ToZero(a.text), FALSE) \in Seq(Units)
        /\ Wide(a, a.text, TRUE) \in Seq(Units)
    BY <2>1, PointerType, WideType
  <2> QED BY <1>3, <2>2 DEF Directive
<1>4. CASE d \in {"d", "u", "x"}
  <2>1. a.bits \in Nat /\ a.bits < Width32 /\ Width32 \in Nat
    BY <1>4, FormatAssumption DEF Arguments
  <2>2. /\ Decimal[a.bits] \in Seq(Units) /\ Hexadecimal(a.bits) \in Seq(Units)
        /\ Decimal[Width32 - a.bits] \in Seq(Units)
    <3>1. Width32 - a.bits \in Nat
      BY <2>1
    <3>2. \A n \in Nat : Decimal[n] \in Seq(Units) /\ Hexadecimal(n) \in Seq(Units)
      BY NumberType, Zenon
    <3> QED BY <2>1, <3>1, <3>2, Zenon
  <2>3. <<Minus>> \in Seq(Units)
    BY DEF Minus, Units
  <2>4. Signed(a.bits) \in Seq(Units)
    BY <2>2, <2>3, ConcatProperties DEF Signed
  <2> QED BY <1>4, <2>2, <2>4 DEF Directive
<1>5. CASE d = "v"
  <2>1. a = Null \/ a \in Variants
    BY <1>5 DEF Arguments
  <2>2. NullText \in Seq(Units)
    BY DEF NullText, Units
  <2>3. (IF a = Null THEN NullText ELSE _report_variant(a)) \in Seq(Units)
    BY <2>1, <2>2, VariantPrints
  <2> QED BY <1>5, <2>3 DEF Directive
<1> QED BY <1>1, <1>2, <1>3, <1>4, <1>5 DEF Directives

(* The arguments the first k + 1 pieces take are those of the first k and  *)
(* that of piece k + 1, if it takes one.                                   *)
LEMMA TakenNext ==
  ASSUME NEW fmt, NEW k \in Nat
  PROVE  /\ Taken(fmt, 0) = 0
         /\ Taken(fmt, k + 1)
              = IF Takes(fmt[k + 1]) THEN Taken(fmt, k) + 1 ELSE Taken(fmt, k)
<1> DEFINE T(n) == {j \in 1..n : Takes(fmt[j])}
<1>1. T(0) = {}
  OBVIOUS
<1>2. T(k + 1) = IF Takes(fmt[k + 1]) THEN T(k) \cup {k + 1} ELSE T(k)
  <2>1. 1..(k + 1) = (1..k) \cup {k + 1}
    OBVIOUS
  <2> QED BY <2>1
<1>3. IsFiniteSet(T(k)) /\ k + 1 \notin T(k)
  <2>1. IsFiniteSet(1..k) /\ T(k) \subseteq 1..k
    BY FS_Interval
  <2> QED BY <2>1, FS_Subset
<1>4. Taken(fmt, 0) = Cardinality(T(0)) /\ Taken(fmt, k) = Cardinality(T(k))
      /\ Taken(fmt, k + 1) = Cardinality(T(k + 1))
  BY DEF Taken
<1> HIDE DEF T
<1>5. Cardinality(T(k) \cup {k + 1}) = Cardinality(T(k)) + 1
  BY <1>3, FS_AddElement
<1>6. Cardinality({}) = 0
  BY FS_EmptySet
<1> QED BY <1>1, <1>2, <1>4, <1>5, <1>6

(* The pieces of the format of a call print characters, and those that are *)
(* directives what is meant for their arguments.                           *)
LEMMA PieceType ==
  ASSUME NEW c \in Calls, NEW k \in Nat, 1 <= k
  PROVE  /\ c.fmt \in Seq(Pieces) /\ Len(c.fmt) \in Nat
         /\ Characters(c, k, Taken(c.fmt, k)) \in Seq(Units)
         /\ k \in DOMAIN c.fmt /\ Takes(c.fmt[k]) =>
              /\ c.fmt[k].letter \in Directives
              /\ c.args[Taken(c.fmt, k)] \in Arguments(c.fmt[k].letter)
              /\ Characters(c, k, Taken(c.fmt, k))
                   = Directive(c.fmt[k].letter, c.args[Taken(c.fmt, k)])
<1>1. WellFormed(c) /\ c.fmt \in Seq(Pieces) /\ Len(c.fmt) \in Nat
      /\ DOMAIN c.fmt = 1..Len(c.fmt)
  BY FormatAssumption DEF WellFormed
<1>2. CASE k > Len(c.fmt)
  <2>1. <<NewLine>> \in Seq(Units)
    BY DEF NewLine, Units
  <2> QED BY <1>1, <1>2, <2>1 DEF Characters
<1>3. CASE k <= Len(c.fmt)
  <2> DEFINE p == c.fmt[k]
             n == Taken(c.fmt, k)
  <2>1. k \in DOMAIN c.fmt /\ ~(k > Len(c.fmt))
    BY <1>1, <1>3
  <2>2. p \in Pieces /\ (Takes(p) => c.args[n] \in Arguments(p.letter))
    BY <1>1, <2>1 DEF WellFormed
  <2>3. Characters(c, k, n) = CASE p.is = "literal" -> <<SignExtend(p.char)>>
                                [] Takes(p) -> Directive(p.letter, c.args[n])
                                [] OTHER    -> <<>>
    BY <2>1 DEF Characters
  <2> HIDE DEF p, n
  <2>4. CASE p.is = "literal"
    <3>1. p.char \in Bytes /\ ~Takes(p)
      BY <2>2, <2>4 DEF Pieces, Bytes, Takes
    <3>2. <<SignExtend(p.char)>> \in Seq(Units)
      BY <3>1, SignExtendType
    <3> QED BY <1>1, <2>3, <2>4, <3>1, <3>2 DEF p, n
  <2>5. CASE Takes(p)
    <3>1. p.is # "literal" /\ p.letter \in Directives
      BY <2>5 DEF Takes
    <3>2. Characters(c, k, n) = Directive(p.letter, c.args[n])
      BY <2>3, <2>5, <3>1
    <3>3. Directive(p.letter, c.args[n]) \in Seq(Units)
      BY <2>2, <2>5, <3>1, DirectivePrints
    <3> QED BY <1>1, <2>2, <2>5, <3>1, <3>2, <3>3 DEF p, n
  <2>6. CASE p.is # "literal" /\ ~Takes(p)
    <3>1. Characters(c, k, n) = <<>>
      BY <2>3, <2>6
    <3> QED BY <1>1, <2>6, <3>1, EmptySeq DEF p, n
  <2> QED BY <2>4, <2>5, <2>6
<1> QED BY <1>1, <1>2, <1>3

(* The line grows by one piece after the other.                            *)
LEMMA LineGrows ==
  ASSUME call \in Calls, NEW n \in Nat
  PROVE  /\ LineTo(0) = <<>>
         /\ LineTo(n) \in Seq(Units) /\ Piece(n + 1) \in Seq(Units)
         /\ LineTo(n + 1) = LineTo(n) \o Piece(n + 1)
<1>1. ASSUME NEW k \in Nat, 1 <= k PROVE Piece(k) \in Seq(Units)
  BY <1>1, PieceType DEF Piece
<1> DEFINE s(m) == [k \in 1..m |-> Piece(k)]
<1>2. ASSUME NEW m \in Nat PROVE s(m) \in Seq(Seq(Units)) /\ Len(s(m)) = m
  <2>1. s(m) \in [1..m -> Seq(Units)]
    BY <1>1
  <2> HIDE DEF s
  <2> QED BY <2>1, FunctionIsSeq
<1>3. Piece(n + 1) \in Seq(Units)
  BY <1>1
<1>4. s(n + 1) = Append(s(n), Piece(n + 1))
  <2>1. n + 1 \in Nat /\ DOMAIN s(n) = 1..n
    OBVIOUS
  <2>2. \A k \in 1..(n + 1) :
          Append(s(n), Piece(n + 1))[k] = s(n + 1)[k]
    <3>1. \A k \in 1..n : s(n)[k] = Piece(k)
      OBVIOUS
    <3>2. \A k \in 1..(n + 1) : s(n + 1)[k] = Piece(k)
      OBVIOUS
    <3>3. /\ Append(s(n), Piece(n + 1))[n + 1] = Piece(n + 1)
          /\ \A k \in 1..n : Append(s(n), Piece(n + 1))[k] = s(n)[k]
      <4> HIDE DEF s
      <4> QED BY <1>2, <1>3, AppendProperties
    <3> HIDE DEF s
    <3>4. \A k \in 1..(n + 1) : k \in 1..n \/ k = n + 1
      OBVIOUS
    <3> QED BY <3>1, <3>2, <3>3, <3>4, Zenon
  <2>3. /\ Append(s(n), Piece(n + 1)) \in Seq(Seq(Units))
        /\ Len(Append(s(n), Piece(n + 1))) = n + 1
    <3> DEFINE Q == Seq(Units)
    <3>1. s(n) \in Seq(Q) /\ Len(s(n)) = n /\ Piece(n + 1) \in Q
      BY <1>2, <1>3
    <3> HIDE DEF s, Q
    <3>2. /\ Append(s(n), Piece(n + 1)) \in Seq(Q)
          /\ Len(Append(s(n), Piece(n + 1))) = n + 1
      BY <3>1, AppendProperties
    <3> QED BY <3>2 DEF Q
  <2>4. s(n + 1) \in Seq(Seq(Units)) /\ Len(s(n + 1)) = n + 1
    BY <1>2, <2>1
  <2> HIDE DEF s
  <2> QED BY <2>2, <2>3, <2>4, SeqEqual
<1>5. LineTo(n) \in Seq(Units)
  <2>1. s(n) \in Seq(Seq(Units))
    BY <1>2
  <2> HIDE DEF s
  <2>2. FlattenSeq(s(n)) \in Seq(Units)
    BY <2>1, FlattenType
  <2> QED BY <2>2 DEF LineTo, s
<1>6. LineTo(0) = <<>>
  <2>1. s(0) \in Seq(Seq(Units)) /\ Len(s(0)) = 0
    BY <1>2
  <2>2. s(0) = <<>>
    <3> HIDE DEF s
    <3> QED BY <2>1, EmptySeq
  <2>3. LineTo(0) = FlattenSeq(s(0))
    BY DEF LineTo
  <2> HIDE DEF s
  <2> QED BY <2>2, <2>3, FlattenNothing
<1>7. LineTo(n + 1) = LineTo(n) \o Piece(n + 1)
  <2>1. s(n) \in Seq(Seq(Units))
    BY <1>2
  <2>2. LineTo(n + 1) = FlattenSeq(s(n + 1)) /\ LineTo(n) = FlattenSeq(s(n))
    BY DEF LineTo
  <2> HIDE DEF s
  <2>3. FlattenSeq(Append(s(n), Piece(n + 1))) = FlattenSeq(s(n)) \o Piece(n + 1)
    BY <1>3, <2>1, FlattenAppend
  <2> QED BY <1>4, <2>2, <2>3
<1> QED BY <1>3, <1>5, <1>6, <1>7

(* What is stored behind the last piece is stored behind them all.         *)
LEMMA FlattenLast ==
  ASSUME NEW S, NEW s \in Seq(Seq(S)), NEW x \in Seq(S), s # <<>>
  PROVE  LET r == [s EXCEPT ![Len(s)] = @ \o x] IN
         /\ r \in Seq(Seq(S)) /\ Len(r) = Len(s)
         /\ r[Len(s)] = s[Len(s)] \o x
         /\ \A j \in 1..Len(s) : j # Len(s) => r[j] = s[j]
         /\ FlattenSeq(r) = FlattenSeq(s) \o x
<1> DEFINE n == Len(s)
           r == [s EXCEPT ![n] = @ \o x]
<1>1. PICK q \in Seq(Seq(S)), e \in Seq(S) : s = Append(q, e)
  BY SequenceEmptyOrAppend
<1>2. /\ n \in Nat /\ n = Len(q) + 1 /\ s[n] = e /\ DOMAIN s = 1..n /\ n \in 1..n
      /\ \A j \in 1..n : s[j] \in Seq(S)
  BY <1>1
<1>3. e \o x \in Seq(S)
  BY ConcatProperties
<1>4. r \in [1..n -> Seq(S)]
  BY <1>2, <1>3
<1>5. r \in Seq(Seq(S)) /\ Len(r) = n
  <2> HIDE DEF r, n
  <2> QED BY <1>2, <1>4, FunctionIsSeq
<1>6. r[n] = e \o x /\ \A j \in 1..n : j # n => r[j] = s[j]
  BY <1>2
<1>7. r = Append(q, e \o x)
  <2>1. /\ Append(q, e \o x) \in Seq(Seq(S)) /\ Len(Append(q, e \o x)) = n
        /\ Append(q, e \o x)[n] = e \o x
        /\ \A j \in 1..Len(q) : Append(q, e \o x)[j] = q[j]
    BY <1>2, <1>3, AppendProperties
  <2>2. \A j \in 1..n : j # n => j \in 1..Len(q) /\ s[j] = q[j]
    BY <1>1, <1>2
  <2> HIDE DEF r, n
  <2>3. \A j \in 1..n : r[j] = Append(q, e \o x)[j]
    BY <1>6, <2>1, <2>2
  <2> QED BY <1>5, <2>1, <2>3, SeqEqual
<1>8. FlattenSeq(r) = FlattenSeq(q) \o (e \o x)
  BY <1>3, <1>7, FlattenAppend
<1>9. FlattenSeq(s) = FlattenSeq(q) \o e /\ FlattenSeq(q) \in Seq(S)
  BY <1>1, FlattenAppend, FlattenType
<1>10. (FlattenSeq(q) \o e) \o x = FlattenSeq(q) \o (e \o x)
  <2>1. ASSUME NEW f \in Seq(S), NEW g \in Seq(S), NEW h \in Seq(S)
        PROVE  (f \o g) \o h = f \o (g \o h)
    BY ConcatAssociative, SMTT(60)
  <2>2. e \in Seq(S) /\ x \in Seq(S)
    OBVIOUS
  <2> QED BY <1>9, <2>1, <2>2, Zenon
<1> HIDE DEF r
<1> QED BY <1>2, <1>5, <1>6, <1>8, <1>9, <1>10 DEF r

-----------------------------------------------------------------------------
(***************************************************************************)
(* The two passes.                                                         *)
(***************************************************************************)
(* The pieces begun are what has been printed in this pass and what is     *)
(* still to be; the count is that of the bytes of the former.              *)
Counted ==
  \E k \in Seq(Units) :
    /\ LineTo(at) = k \o todo
    /\ ret = Len(Encoded(k))
    /\ pass # "size" => Buffer = Encoded(k)

(* Of the pieces before the last one begun all is stored, of that one what *)
(* has been printed.                                                       *)
Stored ==
  /\ out \in Seq(Seq(Bytes)) /\ Len(out) = at
  /\ \A j \in 1..at : j < at => out[j] = Encoded(Piece(j))
  /\ at > 0 => \E p \in Seq(Units) : /\ Piece(at) = p \o todo
                                     /\ out[at] = Encoded(p)

PassRules ==
  /\ call \in Calls
  /\ pass \in {"size", "fill", "done"}
  /\ at \in Nat /\ at <= Len(call.fmt) + 1
  /\ at <= Len(call.fmt) => next = Taken(call.fmt, at) + 1
  /\ todo \in Seq(Units)
  /\ at = 0 => todo = <<>>
  /\ Counted
  /\ pass = "size" => out = <<>>
  /\ pass # "size" => Stored /\ len = Len(Encoded(Line))
  /\ pass = "done" => PassEnds

(* hexdump() is called, or report() is.                                    *)
TextInv == (pass = "idle" /\ todo = <<>>) \/ PassRules

(* The first pass begins with nothing printed.                             *)
LEMMA TextInvInit == TextInit => TextInv
<1> SUFFICES ASSUME Init PROVE PassRules
  BY DEF TextInit, FormatIdle, TextInv
<1>1. /\ call \in Calls /\ pass = "size" /\ at = 0 /\ next = 1 /\ todo = <<>>
      /\ ret = 0 /\ out = <<>>
  BY DEF Init
<1>2. LineTo(0) = <<>> /\ Taken(call.fmt, 0) = 0 /\ Len(call.fmt) \in Nat
  <2>1. 0 \in Nat /\ 1 \in Nat
    OBVIOUS
  <2> QED BY <1>1, <2>1, LineGrows, TakenNext, PieceType
<1>3. <<>> \in Seq(Units) /\ <<>> \o <<>> = <<>> /\ Len(Encoded(<<>>)) = 0
  BY EncodedAppend, EmptySeq, ConcatEmptySeq
<1>4. Counted
  BY <1>1, <1>2, <1>3, Zenon DEF Counted
<1> QED BY <1>1, <1>2, <1>3, <1>4 DEF PassRules

(* Going on to the next piece: it takes the argument that is its own.      *)
LEMMA NextPieceKeeps == PassRules /\ NextPiece => PassRules'
<1> SUFFICES ASSUME PassRules, NextPiece PROVE PassRules'
  OBVIOUS
<1> DEFINE n == at + 1
<1>1. /\ call \in Calls /\ at \in Nat /\ at <= Len(call.fmt)
      /\ next = Taken(call.fmt, at) + 1
      /\ pass \in {"size", "fill"} /\ todo = <<>>
      /\ call' = call /\ pass' = pass /\ ret' = ret /\ len' = len
      /\ at' = n /\ todo' = Characters(call, n, next)
      /\ next' = (IF at < Len(call.fmt) /\ Takes(call.fmt[n])
                    THEN next + 1 ELSE next)
      /\ out' = (IF pass = "fill" THEN Append(out, <<>>) ELSE out)
  BY DEF PassRules, NextPiece
<1>2. /\ n \in Nat /\ 1 <= n /\ n <= Len(call.fmt) + 1 /\ n # 0
      /\ Len(call.fmt) \in Nat /\ (at < Len(call.fmt) <=> n <= Len(call.fmt))
  BY <1>1, PieceType
<1>3. /\ Taken(call.fmt, n) = IF Takes(call.fmt[n]) THEN next ELSE next - 1
      /\ Taken(call.fmt, at) = next - 1 /\ next - 1 + 1 = next
  <2>1. Taken(call.fmt, n) = IF Takes(call.fmt[n]) THEN Taken(call.fmt, at) + 1
                             ELSE Taken(call.fmt, at)
    BY <1>1, TakenNext
  <2>2. Taken(call.fmt, at) \in Int
    <3>1. IsFiniteSet({j \in 1..at : Takes(call.fmt[j])})
      <4>1. IsFiniteSet(1..at) /\ {j \in 1..at : Takes(call.fmt[j])} \subseteq 1..at
        BY <1>1, FS_Interval
      <4> QED BY <4>1, FS_Subset
    <3> QED BY <3>1, FS_CardinalityType DEF Taken
  <2> QED BY <1>1, <2>1, <2>2
<1> HIDE DEF n
<1>4. n <= Len(call.fmt) => next' = Taken(call.fmt, n) + 1
  BY <1>1, <1>2, <1>3
<1>5. Characters(call, n, next) = Piece(n)
  <2>1. CASE n > Len(call.fmt)
    BY <2>1 DEF Characters, Piece
  <2>2. CASE ~(n > Len(call.fmt)) /\ Takes(call.fmt[n])
    BY <1>3, <2>2 DEF Piece
  <2>3. CASE ~(n > Len(call.fmt)) /\ ~Takes(call.fmt[n])
    BY <2>3 DEF Characters, Piece
  <2> QED BY <2>1, <2>2, <2>3
<1>6. /\ LineTo(n) = LineTo(at) \o Piece(n) /\ Piece(n) \in Seq(Units)
      /\ LineTo(at) \in Seq(Units)
  BY <1>1, LineGrows DEF n
<1>7. PICK k \in Seq(Units) :
        /\ LineTo(at) = k \o <<>> /\ ret = Len(Encoded(k))
        /\ pass # "size" => Buffer = Encoded(k)
  BY <1>1 DEF PassRules, Counted
<1>8. LineTo(n) = k \o todo'
  <2>1. k \o <<>> = k
    BY ConcatEmptySeq
  <2> QED BY <1>1, <1>5, <1>6, <1>7, <2>1
<1>9. UNCHANGED call => (\A m : LineTo(m)' = LineTo(m) /\ Piece(m)' = Piece(m))
                        /\ Line' = Line
  BY DEF LineTo, Piece, Line
<1>10. ASSUME pass = "fill"
       PROVE  /\ Buffer' = Buffer /\ out' \in Seq(Seq(Bytes)) /\ Len(out') = n
              /\ \A j \in 1..n : j < n => out'[j] = Encoded(Piece(j))
              /\ Piece(n) = <<>> \o todo' /\ out'[n] = Encoded(<<>>)
  <2>1. Stored /\ out' = Append(out, <<>>)
    BY <1>1, <1>10 DEF PassRules
  <2>2. /\ out \in Seq(Seq(Bytes)) /\ <<>> \in Seq(Bytes) /\ Len(out) = at
        /\ \A j \in 1..at : j < at => out[j] = Encoded(Piece(j))
    BY <2>1, EmptySeq DEF Stored
  <2>3. /\ Append(out, <<>>) \in Seq(Seq(Bytes)) /\ Len(Append(out, <<>>)) = n
        /\ Append(out, <<>>)[n] = <<>>
        /\ \A j \in 1..at : Append(out, <<>>)[j] = out[j]
    BY <2>2, AppendProperties DEF n
  <2>4. FlattenSeq(Append(out, <<>>)) = FlattenSeq(out)
    <3>1. FlattenSeq(out) \o <<>> = FlattenSeq(out)
      BY <2>2, FlattenType, ConcatEmptySeq
    <3> QED BY <2>2, <3>1, FlattenAppend
  <2>5. at > 0 => out[at] = Encoded(Piece(at))
    <3> SUFFICES ASSUME at > 0 PROVE out[at] = Encoded(Piece(at))
      OBVIOUS
    <3>1. PICK p \in Seq(Units) : Piece(at) = p \o <<>> /\ out[at] = Encoded(p)
      BY <1>1, <2>1 DEF Stored
    <3> QED BY <3>1, ConcatEmptySeq
  <2>6. ASSUME NEW j \in 1..n, j < n PROVE out'[j] = Encoded(Piece(j))
    <3>1. j \in 1..at /\ (j < at \/ (j = at /\ at > 0))
      BY <1>1, <2>6 DEF n
    <3> QED BY <2>1, <2>2, <2>3, <2>5, <3>1
  <2>7. Piece(n) = <<>> \o todo' /\ out'[n] = Encoded(<<>>)
    BY <1>1, <1>5, <1>6, <2>1, <2>3, EncodedAppend, ConcatEmptySeq
  <2> QED BY <2>1, <2>3, <2>4, <2>6, <2>7 DEF Buffer
<1>11. Counted'
  <2>1. pass = "size" \/ Buffer' = Buffer
    BY <1>1, <1>10
  <2> QED BY <1>1, <1>7, <1>8, <1>9, <2>1 DEF Counted
<1>12. pass # "size" => Stored'
  <2> SUFFICES ASSUME pass = "fill" PROVE Stored'
    BY <1>1
  <2>1. <<>> \in Seq(Units)
    BY EmptySeq
  <2> QED BY <1>1, <1>9, <1>10, <2>1 DEF Stored
<1> QED BY <1>1, <1>2, <1>4, <1>5, <1>6, <1>9, <1>11, <1>12 DEF PassRules

(* The first element behind the hyphen moves in front of it.               *)
LEMMA MoveHead ==
  ASSUME NEW S, NEW k \in Seq(S), NEW t \in Seq(S), t # <<>>
  PROVE  /\ Append(k, Head(t)) \in Seq(S)
         /\ Append(k, Head(t)) \o Tail(t) = k \o t
<1> DEFINE e == Head(t)
           r == Tail(t)
<1>1. e \in S /\ r \in Seq(S) /\ t = <<e>> \o r /\ <<e>> \in Seq(S)
  OBVIOUS
<1> HIDE DEF e, r
<1>2. Append(k, e) = k \o <<e>> /\ Append(k, e) \in Seq(S)
  BY <1>1
<1>3. (k \o <<e>>) \o r = k \o (<<e>> \o r)
  BY <1>1, ConcatAssociative
<1> QED BY <1>1, <1>2, <1>3 DEF e, r

(* Each character adds its bytes, in the second pass behind those of its   *)
(* piece.                                                                  *)
LEMMA Utf8xKeeps == PassRules /\ _report_utf8x => PassRules'
<1> SUFFICES ASSUME PassRules, _report_utf8x PROVE PassRules'
  OBVIOUS
<1> DEFINE c == Head(todo)
           u == utf8_encode(c)
<1>1. /\ call \in Calls /\ at \in Nat /\ at # 0 /\ todo \in Seq(Units) /\ todo # <<>>
      /\ pass \in {"size", "fill"}
      /\ call' = call /\ pass' = pass /\ at' = at /\ next' = next /\ len' = len
      /\ todo' = Tail(todo) /\ ret' = ret + Len(u)
      /\ out' = IF pass = "fill" THEN [out EXCEPT ![at] = @ \o u] ELSE out
  BY DEF PassRules, PassEnds, _report_utf8x
<1>2. c \in Units /\ Tail(todo) \in Seq(Units) /\ u \in Seq(Bytes)
  BY <1>1, EncodeShape
<1>3. ASSUME NEW k \in Seq(Units)
      PROVE  /\ Append(k, c) \in Seq(Units)
             /\ Append(k, c) \o Tail(todo) = k \o todo
             /\ Encoded(Append(k, c)) = Encoded(k) \o u
             /\ Len(Encoded(Append(k, c))) = Len(Encoded(k)) + Len(u)
  <2>1. Append(k, c) \in Seq(Units) /\ Append(k, c) \o Tail(todo) = k \o todo
    BY <1>1, MoveHead
  <2>2. Encoded(Append(k, c)) = Encoded(k) \o u /\ Encoded(k) \in Seq(Bytes)
    BY <1>2, EncodedAppend
  <2> HIDE DEF u, c
  <2> QED BY <1>2, <2>1, <2>2
<1> HIDE DEF c, u
<1>4. PICK k \in Seq(Units) :
        /\ LineTo(at) = k \o todo /\ ret = Len(Encoded(k))
        /\ pass # "size" => Buffer = Encoded(k)
  BY DEF PassRules, Counted
<1>5. (\A m : LineTo(m)' = LineTo(m) /\ Piece(m)' = Piece(m)) /\ Line' = Line
  BY <1>1 DEF LineTo, Piece, Line
<1>6. ASSUME pass = "fill" PROVE Buffer' = Buffer \o u /\ Stored'
  <2>1. Stored /\ out' = [out EXCEPT ![at] = @ \o u]
    BY <1>1, <1>6 DEF PassRules
  <2>2. /\ out \in Seq(Seq(Bytes)) /\ Len(out) = at /\ out # <<>>
        /\ \A j \in 1..at : j < at => out[j] = Encoded(Piece(j))
    BY <1>1, <2>1, EmptySeq DEF Stored
  <2>3. PICK p \in Seq(Units) : Piece(at) = p \o todo /\ out[at] = Encoded(p)
    <3>1. at > 0
      BY <1>1
    <3> QED BY <2>1, <3>1 DEF Stored
  <2>4. /\ out' \in Seq(Seq(Bytes)) /\ Len(out') = at
        /\ out'[at] = out[at] \o u
        /\ \A j \in 1..at : j # at => out'[j] = out[j]
        /\ FlattenSeq(out') = FlattenSeq(out) \o u
    <3>1. LET r == [out EXCEPT ![Len(out)] = @ \o u] IN
          /\ r \in Seq(Seq(Bytes)) /\ Len(r) = Len(out)
          /\ r[Len(out)] = out[Len(out)] \o u
          /\ \A j \in 1..Len(out) : j # Len(out) => r[j] = out[j]
          /\ FlattenSeq(r) = FlattenSeq(out) \o u
      BY <1>2, <2>2, FlattenLast, Zenon
    <3>2. out' = [out EXCEPT ![Len(out)] = @ \o u] /\ Len(out) = at
      BY <2>1, <2>2
    <3> QED BY <3>1, <3>2
  <2>5. /\ Append(p, c) \in Seq(Units) /\ Piece(at) = Append(p, c) \o todo'
        /\ out'[at] = Encoded(Append(p, c))
    BY <1>1, <1>3, <2>3, <2>4
  <2>6. \A j \in 1..at : j < at => out'[j] = Encoded(Piece(j))
    BY <1>1, <2>2, <2>4
  <2>7. Stored'
    BY <1>1, <1>5, <2>4, <2>5, <2>6 DEF Stored
  <2> QED BY <2>4, <2>7 DEF Buffer
<1>7. Counted'
  <2>1. /\ Append(k, c) \in Seq(Units) /\ LineTo(at) = Append(k, c) \o todo'
        /\ ret' = Len(Encoded(Append(k, c)))
        /\ pass # "size" => Buffer' = Encoded(Append(k, c))
    BY <1>1, <1>3, <1>4, <1>6
  <2> QED BY <1>1, <1>5, <2>1 DEF Counted
<1> QED BY <1>1, <1>2, <1>5, <1>6, <1>7 DEF PassRules

(* The second pass starts afresh, at the first piece and the first         *)
(* argument.                                                               *)
LEMMA SecondPassKeeps == PassRules /\ SecondPass => PassRules'
<1> SUFFICES ASSUME PassRules, SecondPass PROVE PassRules'
  OBVIOUS
<1>1. /\ call \in Calls /\ at = Len(call.fmt) + 1 /\ todo = <<>> /\ out = <<>>
      /\ call' = call /\ todo' = todo /\ out' = out /\ at' = 0 /\ next' = 1
      /\ len' = ret /\ ret' = 0 /\ pass' = "fill"
  BY DEF PassRules, SecondPass, PassEnds
<1>2. PICK k \in Seq(Units) : LineTo(at) = k \o <<>> /\ ret = Len(Encoded(k))
  BY <1>1 DEF PassRules, Counted
<1>3. ret = Len(Encoded(Line))
  BY <1>1, <1>2, ConcatEmptySeq DEF Line
<1>4. (\A m : LineTo(m)' = LineTo(m) /\ Piece(m)' = Piece(m)) /\ Line' = Line
  BY <1>1 DEF LineTo, Piece, Line
<1>5. /\ LineTo(0) = <<>> /\ Taken(call.fmt, 0) = 0 /\ Len(call.fmt) \in Nat
  <2>1. LineTo(0) = <<>>
    BY <1>1, LineGrows
  <2>2. Taken(call.fmt, 0) = 0
    BY TakenNext
  <2>3. Len(call.fmt) \in Nat
    BY <1>1, PieceType
  <2> QED BY <2>1, <2>2, <2>3
<1>6. /\ <<>> \in Seq(Units) /\ <<>> \o <<>> = <<>> /\ Len(Encoded(<<>>)) = 0
      /\ Encoded(<<>>) = <<>> /\ FlattenSeq(<<>>) = <<>>
      /\ <<>> \in Seq(Seq(Bytes)) /\ Len(<<>>) = 0
  BY EncodedAppend, EmptySeq, ConcatEmptySeq, FlattenNothing
<1>7. Counted'
  BY <1>1, <1>4, <1>5, <1>6 DEF Counted, Buffer
<1>8. Stored'
  BY <1>1, <1>6 DEF Stored
<1> QED BY <1>1, <1>3, <1>4, <1>5, <1>6, <1>7, <1>8 DEF PassRules

LEMMA TextInvStep == TextInv /\ [Next]_vars => TextInv'
<1> SUFFICES ASSUME TextInv, [Next]_vars PROVE TextInv'
  OBVIOUS
<1>1. CASE UNCHANGED vars
  BY <1>1 DEF vars, TextInv, PassRules, Counted, Stored, PassEnds, Line, LineTo,
              Piece, Buffer
<1>2. CASE Next
  <2>1. PassRules
    BY <1>2 DEF TextInv, Next, NextPiece, _report_utf8x, SecondPass, Written
  <2>2. CASE Written
    BY <2>1, <2>2 DEF Written, TextInv, PassRules, Counted, Stored, PassEnds,
                      Line, LineTo, Piece, Buffer
  <2> QED BY <1>2, <2>1, <2>2, NextPieceKeeps, Utf8xKeeps, SecondPassKeeps
          DEF Next, TextInv
<1> QED BY <1>1, <1>2

(* The two passes see the same characters and count the same bytes, and    *)
(* what they leave is the encoding of the line, piece by piece             *)
(* (report.c:45-60,177-267,286-305).                                       *)
THEOREM TextInvHolds == TextSpec => []TextInv
<1>1. TextInit => TextInv
  BY TextInvInit
<1>2. TextInv /\ [TextNext]_<<vars, hexVars>> => TextInv'
  BY TextInvStep DEF TextNext
<1> QED BY <1>1, <1>2, PTL DEF TextSpec

(* What the invariant says of a finished line.                             *)
LEMMA LinePrinted ==
  TextInv /\ pass = "done" =>
    /\ call \in Calls
    /\ Line \in Seq(Units) /\ Buffer = Encoded(Line) /\ len = Len(Encoded(Line))
<1> SUFFICES ASSUME PassRules, pass = "done"
             PROVE  /\ call \in Calls
                    /\ Line \in Seq(Units) /\ Buffer = Encoded(Line)
                    /\ len = Len(Encoded(Line))
  BY DEF TextInv
<1>1. call \in Calls /\ PassEnds /\ at \in Nat
  BY DEF PassRules
<1>2. PICK k \in Seq(Units) : LineTo(at) = k \o <<>> /\ Buffer = Encoded(k)
  BY <1>1 DEF PassRules, Counted, PassEnds
<1>3. Line = k
  BY <1>1, <1>2, ConcatEmptySeq DEF PassEnds, Line
<1> QED BY <1>1, <1>2, <1>3 DEF PassRules

(* And of its directives.                                                  *)
LEMMA PiecePrinted ==
  ASSUME TextInv, pass = "done", NEW k \in DOMAIN call.fmt, Takes(call.fmt[k])
  PROVE  /\ call.fmt[k].letter \in Directives
         /\ Arg(k) \in Arguments(call.fmt[k].letter)
         /\ Directive(call.fmt[k].letter, Arg(k)) \in Seq(Units)
         /\ out[k] = Encoded(Directive(call.fmt[k].letter, Arg(k)))
<1>1. /\ call \in Calls /\ at = Len(call.fmt) + 1 /\ Stored
  BY DEF TextInv, PassRules, PassEnds
<1>2. Len(call.fmt) \in Nat /\ DOMAIN call.fmt = 1..Len(call.fmt)
  <2>1. 1 \in Nat
    OBVIOUS
  <2>2. call.fmt \in Seq(Pieces)
    BY <1>1, <2>1, PieceType
  <2> QED BY <2>2
<1>3. k \in Nat /\ 1 <= k /\ k \in 1..at /\ k < at
  BY <1>1, <1>2
<1>4. out[k] = Encoded(Piece(k))
  BY <1>1, <1>3 DEF Stored
<1> QED BY <1>1, <1>3, <1>4, PieceType, DirectivePrints DEF Piece, Arg

(* What has been printed is never more than the line.                      *)
LEMMA LinePrefix ==
  ASSUME call \in Calls, NEW n \in Nat, n <= Len(call.fmt) + 1
  PROVE  Len(Encoded(LineTo(n))) <= Len(Encoded(Line))
<1> DEFINE L == Len(call.fmt) + 1
           T == {j \in Nat : j <= L => Len(Encoded(LineTo(L - j)))
                                         <= Len(Encoded(LineTo(L)))}
<1>1. L \in Nat
  <2>1. 1 \in Nat
    OBVIOUS
  <2>2. Len(call.fmt) \in Nat
    BY <2>1, PieceType
  <2> QED BY <2>2
<1> HIDE DEF L
<1>2. \A m \in Nat : /\ LineTo(m) \in Seq(Units) /\ Piece(m + 1) \in Seq(Units)
                     /\ LineTo(m + 1) = LineTo(m) \o Piece(m + 1)
  BY LineGrows
<1>3. ASSUME NEW m \in Nat
      PROVE  /\ Len(Encoded(LineTo(m))) \in Nat
             /\ Len(Encoded(LineTo(m))) <= Len(Encoded(LineTo(m + 1)))
  <2>1. Encoded(LineTo(m + 1)) = Encoded(LineTo(m)) \o Encoded(Piece(m + 1))
    BY <1>2, EncodedConcat
  <2>2. Encoded(LineTo(m)) \in Seq(Bytes) /\ Encoded(Piece(m + 1)) \in Seq(Bytes)
    BY <1>2, EncodedAppend
  <2> QED BY <2>1, <2>2
<1>4. 0 \in T
  BY <1>1, <1>3
<1>5. ASSUME NEW j \in Nat, j \in T PROVE j + 1 \in T
  <2> SUFFICES ASSUME j + 1 <= L
               PROVE  Len(Encoded(LineTo(L - (j + 1)))) <= Len(Encoded(LineTo(L)))
    OBVIOUS
  <2>1. j <= L /\ L - (j + 1) \in Nat /\ L - (j + 1) + 1 = L - j /\ L - j \in Nat
    BY <1>1
  <2>2. Len(Encoded(LineTo(L - (j + 1)))) <= Len(Encoded(LineTo(L - j)))
    BY <1>3, <2>1
  <2>3. Len(Encoded(LineTo(L - j))) <= Len(Encoded(LineTo(L)))
    BY <1>5, <2>1
  <2> QED BY <1>1, <1>3, <2>1, <2>2, <2>3
<1>6. Nat \subseteq T
  <2> HIDE DEF T
  <2> QED BY <1>4, <1>5, NatInd
<1>7. L - n \in Nat /\ L - n <= L /\ L - (L - n) = n
  BY <1>1 DEF L
<1>8. Len(Encoded(LineTo(n))) <= Len(Encoded(LineTo(L)))
  BY <1>6, <1>7
<1> QED BY <1>8 DEF Line, L

(* The buffer that report() makes from the count of the first pass is      *)
(* filled by the second one, never overrun, whatever is printed.           *)
THEOREM FillFitsHolds == TextSpec => []FillFits
<1>1. TextInv => FillFits
  <2> SUFFICES ASSUME PassRules PROVE FillFits
    BY DEF TextInv, FillFits
  <2>1. CASE pass = "fill"
    <3>1. PICK k \in Seq(Units) :
            /\ LineTo(at) = k \o todo /\ ret = Len(Encoded(k))
            /\ Buffer = Encoded(k)
      BY <2>1 DEF PassRules, Counted
    <3>2. /\ todo \in Seq(Units) /\ call \in Calls /\ at \in Nat
          /\ at <= Len(call.fmt) + 1 /\ len = Len(Encoded(Line))
      BY <2>1 DEF PassRules
    <3>3. /\ Encoded(LineTo(at)) = Encoded(k) \o Encoded(todo)
          /\ Encoded(k) \in Seq(Bytes) /\ Encoded(todo) \in Seq(Bytes)
      BY <3>1, <3>2, EncodedConcat, EncodedAppend
    <3>4. Len(Encoded(k)) <= Len(Encoded(LineTo(at)))
      BY <3>3
    <3>5. Len(Encoded(LineTo(at))) <= len
      BY <3>2, LinePrefix
    <3>6. LineTo(at) \in Seq(Units) /\ LineTo(Len(call.fmt) + 1) \in Seq(Units)
      <4>1. Len(call.fmt) + 1 \in Nat
        BY <3>2, PieceType
      <4> QED BY <3>2, <4>1, LineGrows
    <3>7. /\ Len(Encoded(k)) \in Nat /\ Len(Encoded(LineTo(at))) \in Nat /\ len \in Nat
      BY <3>2, <3>3, <3>6, EncodedAppend DEF Line
    <3>8. ret <= len
      BY <3>1, <3>4, <3>5, <3>7
    <3> QED BY <2>1, <3>1, <3>8 DEF FillFits
  <2>2. CASE pass = "done"
    BY <2>2, LinePrinted DEF TextInv, FillFits
  <2> QED BY <2>1, <2>2 DEF FillFits
<1> QED BY <1>1, TextInvHolds, PTL

-----------------------------------------------------------------------------
(***************************************************************************)
(* A quoted text.                                                          *)
(***************************************************************************)
(* Characters below 128 are printed as they are.                           *)
LEMMA EncodedAscii ==
  ASSUME NEW s \in Seq(0..127)
  PROVE  Encoded(s) = s /\ s \in Seq(Units)
<1> DEFINE T == {q \in Seq(0..127) : Encoded(q) = q /\ q \in Seq(Units)}
           A == 0..127
<1>1. <<>> \in T
  BY EncodedAppend, EmptySeq
<1>2. ASSUME NEW q \in Seq(A), NEW c \in A, q \in T
      PROVE  Append(q, c) \in T
  <2>1. c \in Units /\ c < 128
    BY DEF Units
  <2> HIDE DEF A
  <2>2. Encoded(Append(q, c)) = q \o <<c>>
    BY <1>2, <2>1, EncodedAppend, EncodeShape
  <2>3. q \o <<c>> = Append(q, c)
    BY AppendIsConcat
  <2>4. Append(q, c) \in Seq(A) /\ Append(q, c) \in Seq(Units)
    BY <1>2, <2>1, AppendProperties
  <2> QED BY <2>2, <2>3, <2>4 DEF A
<1>3. Seq(A) \subseteq T
  <2> HIDE DEF T, A
  <2> QED BY <1>1, <1>2, SeqInd
<1> QED BY <1>3

(* n backslashes stand directly before place i of b, and no more.          *)
Run(b, i, n) ==
  /\ \A j \in (i - n)..(i - 1) : b[j] = Backslash
  /\ i - n > 1 => b[i - n - 1] # Backslash

(* There is one such number.                                               *)
LEMMA RunExists ==
  ASSUME NEW b, NEW i \in Nat \ {0}
  PROVE  \E n \in 0..(i - 1) : Run(b, i, n)
<1> DEFINE T == {m \in 1..i : \A j \in m..(i - 1) : b[j] = Backslash}
<1>1. T \subseteq Nat /\ i \in T
  OBVIOUS
<1>2. PICK x \in T : \A y \in T : x <= y
  <2> HIDE DEF T
  <2> QED BY <1>1, Least
<1>3. x \in 1..i /\ \A j \in x..(i - 1) : b[j] = Backslash
  BY <1>2
<1>4. x > 1 => b[x - 1] # Backslash
  <2> SUFFICES ASSUME x > 1, b[x - 1] = Backslash PROVE FALSE
    OBVIOUS
  <2>1. x - 1 \in 1..i /\ \A j \in (x - 1)..(i - 1) : j = x - 1 \/ j \in x..(i - 1)
    BY <1>3
  <2>2. x - 1 \in T
    BY <1>3, <2>1
  <2>3. ~(x <= x - 1)
    BY <1>3
  <2> QED BY <1>2, <2>2, <2>3
<1>5. i - x \in 0..(i - 1) /\ i - (i - x) = x
  BY <1>3
<1> QED BY <1>3, <1>4, <1>5 DEF Run

LEMMA RunUnique ==
  ASSUME NEW b, NEW i \in Nat \ {0}, NEW n \in 0..(i - 1), NEW m \in 0..(i - 1),
         Run(b, i, n), Run(b, i, m)
  PROVE  n = m
<1>1. ASSUME NEW k \in 0..(i - 1), NEW l \in 0..(i - 1),
             Run(b, i, k), Run(b, i, l), k < l
      PROVE  FALSE
  <2>1. i - k - 1 \in (i - l)..(i - 1) /\ i - k > 1
    BY <1>1
  <2> QED BY <1>1, <2>1 DEF Run
<1>2. n < m \/ m < n \/ n = m
  OBVIOUS
<1> QED BY <1>1, <1>2

(* It is the one whose parity OddBefore asks for.                          *)
LEMMA OddRun ==
  ASSUME NEW b, NEW i \in Nat \ {0}, NEW n \in 0..(i - 1), Run(b, i, n)
  PROVE  OddBefore(b, i) <=> n % 2 = 1
<1>1. ASSUME OddBefore(b, i) PROVE n % 2 = 1
  <2>1. PICK m \in 1..(i - 1) : m % 2 = 1 /\ Run(b, i, m)
    BY <1>1 DEF OddBefore, Run
  <2>2. m \in 0..(i - 1)
    OBVIOUS
  <2> QED BY <2>1, <2>2, RunUnique
<1>2. ASSUME n % 2 = 1 PROVE OddBefore(b, i)
  <2>1. n \in 1..(i - 1)
    BY <1>2
  <2> QED BY <1>2, <2>1 DEF OddBefore, Run
<1> QED BY <1>1, <1>2

(* One place on, a backslash turns the parity, anything else ends the run. *)
LEMMA OddNext ==
  ASSUME NEW b, NEW i \in Nat \ {0}
  PROVE  /\ OddBefore(b, i + 1) <=> b[i] = Backslash /\ ~OddBefore(b, i)
         /\ ~OddBefore(b, 1)
<1>1. PICK n \in 0..(i - 1) : Run(b, i, n)
  BY RunExists
<1>2. OddBefore(b, i) <=> n % 2 = 1
  BY <1>1, OddRun
<1>3. CASE b[i] # Backslash
  <2>1. 0 \in 0..((i + 1) - 1) /\ i + 1 \in Nat \ {0} /\ 0 % 2 # 1
    OBVIOUS
  <2>2. Run(b, i + 1, 0)
    BY <1>3 DEF Run
  <2> QED BY <1>3, <2>1, <2>2, OddRun DEF OddBefore
<1>4. CASE b[i] = Backslash
  <2>1. /\ n + 1 \in 0..((i + 1) - 1) /\ i + 1 \in Nat \ {0}
        /\ (n + 1) % 2 = 1 <=> n % 2 # 1
    OBVIOUS
  <2>2. Run(b, i + 1, n + 1)
    <3>1. (i + 1) - (n + 1) = i - n
      OBVIOUS
    <3>2. \A j \in (i - n)..((i + 1) - 1) : j = i \/ j \in (i - n)..(i - 1)
      OBVIOUS
    <3> QED BY <1>1, <1>4, <3>1, <3>2 DEF Run
  <2>3. OddBefore(b, i + 1) <=> (n + 1) % 2 = 1
    BY <2>1, <2>2, OddRun
  <2> QED BY <1>2, <1>4, <2>1, <2>3 DEF OddBefore
<1> QED BY <1>3, <1>4

(* What stands from place i on does not matter.                            *)
LEMMA OddPrefix ==
  ASSUME NEW a, NEW b, NEW i \in Nat, \A j \in 1..(i - 1) : a[j] = b[j]
  PROVE  OddBefore(a, i) <=> OddBefore(b, i)
<1>1. ASSUME NEW n \in 1..(i - 1)
      PROVE  /\ \A j \in (i - n)..(i - 1) : a[j] = b[j]
             /\ i - n > 1 => a[i - n - 1] = b[i - n - 1]
  <2>1. \A j \in (i - n)..(i - 1) : j \in 1..(i - 1)
    OBVIOUS
  <2>2. i - n > 1 => i - n - 1 \in 1..(i - 1)
    OBVIOUS
  <2> QED BY <2>1, <2>2
<1> QED BY <1>1 DEF OddBefore

(* Every quote behind the first place is escaped.                          *)
Hidden(b) == \A i \in 2..Len(b) : b[i] = Quote => OddBefore(b, i)

(* No quote follows an odd number of backslashes.                          *)
Clear(s) == \A i \in 1..Len(s) : s[i] = Quote => ~OddBefore(s, i)

AtEnd(b) == OddBefore(b, Len(b) + 1)

(* No byte ends a line or begins a column.                                 *)
OneLine(b) == \A i \in 1..Len(b) : b[i] \notin {Tab, NewLine, Return}

(* One more place.                                                         *)
LEMMA OnePlace ==
  ASSUME NEW S, NEW b \in Seq(S), NEW x \in S
  PROVE  LET r == Append(b, x) IN
         /\ r \in Seq(S) /\ Len(r) = Len(b) + 1 /\ Len(b) \in Nat
         /\ \A i \in 1..Len(b) : r[i] = b[i]
         /\ r[Len(b) + 1] = x
         /\ \A i \in 1..(Len(b) + 1) : OddBefore(r, i) <=> OddBefore(b, i)
         /\ AtEnd(r) <=> x = Backslash /\ ~AtEnd(b)
         /\ Clear(r) <=> Clear(b) /\ (x = Quote => ~AtEnd(b))
         /\ Len(b) > 0 => (Hidden(r) <=> Hidden(b) /\ (x = Quote => AtEnd(b)))
         /\ OneLine(r) <=> OneLine(b) /\ x \notin {Tab, NewLine, Return}
<1> DEFINE r == Append(b, x)
           n == Len(b)
<1>1. /\ r \in Seq(S) /\ Len(r) = n + 1 /\ n \in Nat
      /\ \A i \in 1..n : r[i] = b[i]
      /\ r[n + 1] = x
  BY AppendProperties
<1> HIDE DEF r, n
<1>2. ASSUME NEW i \in 1..(n + 1) PROVE OddBefore(r, i) <=> OddBefore(b, i)
  <2>1. i \in Nat /\ \A j \in 1..(i - 1) : r[j] = b[j]
    BY <1>1
  <2> QED BY <2>1, OddPrefix
<1>3. OddBefore(r, (n + 1) + 1) <=> x = Backslash /\ ~OddBefore(b, n + 1)
  <2>1. n + 1 \in Nat \ {0} /\ n + 1 \in 1..(n + 1)
    BY <1>1
  <2> QED BY <1>1, <1>2, <2>1, OddNext
<1>4. (\A i \in 1..(n + 1) : i \in 1..n \/ i = n + 1) /\ n + 1 \in 1..(n + 1)
      /\ 1..n \subseteq 1..(n + 1)
  BY <1>1
<1>5. Clear(r) <=> Clear(b) /\ (x = Quote => ~OddBefore(b, n + 1))
  <2>1. Clear(r) <=> \A i \in 1..(n + 1) : r[i] = Quote => ~OddBefore(b, i)
    BY <1>1, <1>2 DEF Clear
  <2>2. Clear(b) <=> \A i \in 1..n : r[i] = Quote => ~OddBefore(b, i)
    BY <1>1 DEF Clear, n
  <2> QED BY <1>1, <1>4, <2>1, <2>2
<1>6. ASSUME n > 0
      PROVE  Hidden(r) <=> Hidden(b) /\ (x = Quote => OddBefore(b, n + 1))
  <2>1. /\ \A i \in 2..(n + 1) : i \in 2..n \/ i = n + 1
        /\ n + 1 \in 2..(n + 1) /\ 2..n \subseteq 2..(n + 1)
        /\ 2..(n + 1) \subseteq 1..(n + 1) /\ 2..n \subseteq 1..n
    BY <1>1, <1>6
  <2>2. Hidden(r) <=> \A i \in 2..(n + 1) : r[i] = Quote => OddBefore(b, i)
    BY <1>1, <1>2, <2>1 DEF Hidden
  <2>3. Hidden(b) <=> \A i \in 2..n : r[i] = Quote => OddBefore(b, i)
    BY <1>1, <2>1 DEF Hidden, n
  <2> QED BY <1>1, <2>1, <2>2, <2>3
<1>7. OneLine(r) <=> OneLine(b) /\ x \notin {Tab, NewLine, Return}
  <2>1. OneLine(b) <=> \A i \in 1..n : r[i] \notin {Tab, NewLine, Return}
    BY <1>1 DEF OneLine, n
  <2> QED BY <1>1, <1>4, <2>1 DEF OneLine
<1> QED BY <1>1, <1>2, <1>3, <1>5, <1>6, <1>7 DEF AtEnd, r, n

(* The bytes of s, and the state of the quotes behind them.                *)
LEMMA ThreePlaces ==
  ASSUME NEW S, NEW b \in Seq(S), NEW x \in S, NEW y \in S, NEW z \in S
  PROVE  /\ b \o <<x>> = Append(b, x)
         /\ b \o <<x, y>> = Append(Append(b, x), y)
         /\ b \o <<x, y, z>> = Append(Append(Append(b, x), y), z)
OBVIOUS

(* What has been printed of a quoted text q.                               *)
SoFar(q) == <<Quote>> \o Encoded(Escaped(q))

(* It hides what q has of quotes exactly when q is clear, and its end is   *)
(* where q's is (report.c:56-78).                                          *)
QuotedSoFar(q) ==
  /\ SoFar(q) \in Seq(Bytes) /\ Len(SoFar(q)) > 0 /\ SoFar(q)[1] = Quote
  /\ OneLine(SoFar(q))
  /\ AtEnd(SoFar(q)) <=> AtEnd(q)
  /\ Hidden(SoFar(q)) <=> Clear(q)

LEMMA EscapeCases ==
  ASSUME NEW c \in Units
  PROVE  /\ Escape(c) \in Seq(Units) /\ Encoded(Escape(c)) \in Seq(Bytes)
         /\ c = Quote => Encoded(Escape(c)) = <<Backslash, Quote>>
         /\ c \in {Tab, NewLine, Return} =>
              \E x \in {110, 114, 116} : Encoded(Escape(c)) = <<Backslash, x>>
         /\ c \notin {Quote, Tab, NewLine, Return} =>
              Encoded(Escape(c)) = utf8_encode(c)
<1> USE DEF Tab, NewLine, Return, Quote, Backslash
<1>1. ASSUME NEW x \in 0..127, Escape(c) = <<92, x>>
      PROVE  /\ Escape(c) \in Seq(Units) /\ Encoded(Escape(c)) = <<92, x>>
             /\ Encoded(Escape(c)) \in Seq(Bytes)
  <2>1. <<92, x>> \in Seq(0..127) /\ <<92, x>> \in Seq(Bytes)
    BY DEF Bytes
  <2> QED BY <1>1, <2>1, EncodedAscii
<1>2. CASE c \in {9, 13, 10, 34}
  <2> DEFINE x == IF c = 9 THEN 116 ELSE IF c = 13 THEN 114
                  ELSE IF c = 10 THEN 110 ELSE 34
  <2>1. x \in 0..127 /\ (c = 34 => x = 34) /\ (c # 34 => x \in {110, 114, 116})
    BY <1>2
  <2>2. Escape(c) = <<92, x>>
    BY <1>2 DEF Escape
  <2> HIDE DEF x
  <2>3. /\ Escape(c) \in Seq(Units) /\ Encoded(Escape(c)) = <<92, x>>
        /\ Encoded(Escape(c)) \in Seq(Bytes)
    BY <1>1, <2>1, <2>2
  <2>4. c \in {Tab, NewLine, Return} => c # 34
    OBVIOUS
  <2> HIDE DEF Tab, NewLine, Return, Quote
  <2>5. c \in {Quote, Tab, NewLine, Return}
    BY <1>2 DEF Tab, NewLine, Return, Quote
  <2>6. c = Quote => x = Quote
    BY <2>1 DEF Quote
  <2> QED BY <2>1, <2>3, <2>4, <2>5, <2>6
<1>3. CASE c \notin {9, 13, 10, 34}
  <2>1. Escape(c) = <<c>>
    BY <1>3 DEF Escape
  <2>2. /\ <<>> \in Seq(Units) /\ Append(<<>>, c) = <<c>> /\ <<c>> \in Seq(Units)
        /\ utf8_encode(c) \in Seq(Bytes) /\ <<>> \o utf8_encode(c) = utf8_encode(c)
    BY EmptySeq, EncodeShape, ConcatEmptySeq
  <2>3. Encoded(<<c>>) = utf8_encode(c)
    BY <2>2, EncodedAppend
  <2> QED BY <1>3, <2>1, <2>2, <2>3
<1> QED BY <1>2, <1>3

LEMMA QuotedStep ==
  ASSUME NEW q \in Seq(Units), NEW c \in Units, QuotedSoFar(q)
  PROVE  QuotedSoFar(Append(q, c))
<1> DEFINE b == SoFar(q)
           e == Encoded(Escape(c))
           p == Append(q, c)
<1>1. /\ b \in Seq(Bytes) /\ Len(b) > 0 /\ b[1] = Quote /\ OneLine(b)
      /\ AtEnd(b) <=> AtEnd(q)
      /\ Hidden(b) <=> Clear(q)
  BY DEF QuotedSoFar
<1>2. SoFar(p) = b \o e /\ e \in Seq(Bytes)
  <2>1. Escaped(p) = Escaped(q) \o Escape(c) /\ Escaped(q) \in Seq(Units)
        /\ Escape(c) \in Seq(Units) /\ e \in Seq(Bytes)
    BY EscapedAppend, EscapeCases
  <2>2. Encoded(Escaped(p)) = Encoded(Escaped(q)) \o e
    BY <2>1, EncodedConcat
  <2>3. Encoded(Escaped(q)) \in Seq(Bytes) /\ <<Quote>> \in Seq(Bytes)
    BY <2>1, EncodedAppend DEF Quote, Bytes
  <2> HIDE DEF e, p
  <2>4. (<<Quote>> \o Encoded(Escaped(q))) \o e
          = <<Quote>> \o (Encoded(Escaped(q)) \o e)
    BY <2>1, <2>3, ConcatAssociative
  <2> QED BY <2>1, <2>2, <2>4 DEF SoFar
<1>3. /\ AtEnd(p) <=> c = Backslash /\ ~AtEnd(q)
      /\ Clear(p) <=> Clear(q) /\ (c = Quote => ~AtEnd(q))
  BY OnePlace
<1> HIDE DEF b, e, p
<1> SUFFICES QuotedSoFar(p)
  BY DEF p
<1>4. Len(b) \in Nat
  BY <1>1, LenProperties
<1>5. Backslash \in Bytes /\ Quote \in Bytes /\ {110, 114, 116} \subseteq Bytes
      /\ Backslash # Quote /\ Backslash \notin {Tab, NewLine, Return}
      /\ Quote \notin {Tab, NewLine, Return}
      /\ \A x \in {110, 114, 116} : x \notin {Tab, NewLine, Return, Backslash, Quote}
  BY DEF Backslash, Quote, Tab, NewLine, Return, Bytes
<1>6. ASSUME NEW r \in Seq(Bytes), SoFar(p) = r, Len(r) > 0, r[1] = Quote,
             OneLine(r), AtEnd(r) <=> AtEnd(p), Hidden(r) <=> Clear(p)
      PROVE  QuotedSoFar(p)
  BY <1>6 DEF QuotedSoFar
<1>7. ASSUME NEW x \in Bytes
      PROVE  LET r == Append(b, x) IN
             /\ r \in Seq(Bytes) /\ Len(r) > 0 /\ r[1] = Quote
             /\ AtEnd(r) <=> x = Backslash /\ ~AtEnd(b)
             /\ Hidden(r) <=> Hidden(b) /\ (x = Quote => AtEnd(b))
             /\ OneLine(r) <=> x \notin {Tab, NewLine, Return}
  <2>1. 1 \in 1..Len(b)
    BY <1>1, <1>4
  <2> QED BY <1>1, <1>4, <2>1, OnePlace
<1>8. ASSUME NEW x \in Bytes, NEW y \in Bytes
      PROVE  LET r == Append(Append(b, x), y) IN
             /\ r \in Seq(Bytes) /\ Len(r) > 0 /\ r[1] = Quote
             /\ AtEnd(r) <=> y = Backslash /\ ~(x = Backslash /\ ~AtEnd(b))
             /\ Hidden(r) <=> /\ Hidden(b)
                              /\ x = Quote => AtEnd(b)
                              /\ y = Quote => x = Backslash /\ ~AtEnd(b)
             /\ OneLine(r) <=> /\ x \notin {Tab, NewLine, Return}
                               /\ y \notin {Tab, NewLine, Return}
  <2> DEFINE a == Append(b, x)
  <2>1. /\ a \in Seq(Bytes) /\ Len(a) > 0 /\ a[1] = Quote
        /\ AtEnd(a) <=> x = Backslash /\ ~AtEnd(b)
        /\ Hidden(a) <=> Hidden(b) /\ (x = Quote => AtEnd(b))
        /\ OneLine(a) <=> x \notin {Tab, NewLine, Return}
    BY <1>7
  <2> HIDE DEF a
  <2>2. Len(a) \in Nat /\ 1 \in 1..Len(a)
    BY <2>1, LenProperties
  <2>3. LET r == Append(a, y) IN
        /\ r \in Seq(Bytes) /\ Len(r) > 0 /\ r[1] = Quote
        /\ AtEnd(r) <=> y = Backslash /\ ~AtEnd(a)
        /\ Hidden(r) <=> Hidden(a) /\ (y = Quote => AtEnd(a))
        /\ OneLine(r) <=> OneLine(a) /\ y \notin {Tab, NewLine, Return}
    BY <2>1, <2>2, OnePlace
  <2> QED BY <2>1, <2>3 DEF a
<1>9. CASE c = Quote
  <2>1. e = <<Backslash, Quote>>
    BY <1>9, EscapeCases DEF e
  <2>2. SoFar(p) = Append(Append(b, Backslash), Quote)
    BY <1>1, <1>2, <1>5, <2>1, ThreePlaces
  <2> DEFINE r == Append(Append(b, Backslash), Quote)
  <2>3. /\ r \in Seq(Bytes) /\ Len(r) > 0 /\ r[1] = Quote /\ OneLine(r)
        /\ ~AtEnd(r)
        /\ Hidden(r) <=> Hidden(b) /\ ~AtEnd(b)
    BY <1>5, <1>8
  <2>4. ~AtEnd(p) /\ (Clear(p) <=> Clear(q) /\ ~AtEnd(q))
    BY <1>3, <1>5, <1>9
  <2> HIDE DEF r
  <2> QED BY <1>1, <1>6, <2>2, <2>3, <2>4 DEF r
<1>10. CASE c \in {Tab, NewLine, Return}
  <2>1. PICK x \in {110, 114, 116} : e = <<Backslash, x>>
    BY <1>10, EscapeCases DEF e
  <2>2. SoFar(p) = Append(Append(b, Backslash), x)
    BY <1>1, <1>2, <1>5, <2>1, ThreePlaces
  <2>3. c # Backslash /\ c # Quote
    BY <1>5, <1>10
  <2>4. x \in Bytes /\ x \notin {Tab, NewLine, Return, Backslash, Quote}
    BY <1>5
  <2> DEFINE r == Append(Append(b, Backslash), x)
  <2>5. /\ r \in Seq(Bytes) /\ Len(r) > 0 /\ r[1] = Quote /\ OneLine(r)
        /\ ~AtEnd(r)
        /\ Hidden(r) <=> Hidden(b)
    BY <1>5, <1>8, <2>4
  <2>6. ~AtEnd(p) /\ (Clear(p) <=> Clear(q))
    BY <1>3, <2>3
  <2> HIDE DEF r
  <2> QED BY <1>1, <1>6, <2>2, <2>5, <2>6 DEF r
<1>11. CASE c \notin {Quote, Tab, NewLine, Return} /\ c < 128
  <2>1. e = <<c>> /\ c \in Bytes
    BY <1>11, EscapeCases, EncodeShape DEF e, Units, Bytes
  <2>2. SoFar(p) = Append(b, c)
    BY <1>1, <1>2, <2>1, ThreePlaces
  <2> DEFINE r == Append(b, c)
  <2>3. /\ r \in Seq(Bytes) /\ Len(r) > 0 /\ r[1] = Quote /\ OneLine(r)
        /\ AtEnd(r) <=> c = Backslash /\ ~AtEnd(b)
        /\ Hidden(r) <=> Hidden(b)
    BY <1>7, <1>11, <2>1
  <2>4. Clear(p) <=> Clear(q)
    BY <1>3, <1>11
  <2> HIDE DEF r
  <2> QED BY <1>1, <1>3, <1>6, <2>2, <2>3, <2>4 DEF r
<1>12. CASE c \notin {Quote, Tab, NewLine, Return} /\ ~(c < 128)
  <2> DEFINE u == utf8_encode(c)
             Odd(x) == x \in Bytes /\ x \notin {Tab, NewLine, Return, Backslash, Quote}
  <2>1. e = u /\ u \in Seq(Bytes)
    BY <1>12, EscapeCases, EncodeShape DEF e
  <2>2. /\ Len(u) \in {2, 3}
        /\ \A i \in 1..Len(u) : u[i] \in Nat /\ u[i] >= 128
    <3>1. c >= 128
      BY <1>12 DEF Units
    <3> QED BY <3>1, EncodeHigh
  <2> HIDE DEF u
  <2>3. \A i \in 1..Len(u) : Odd(u[i])
    <3> SUFFICES ASSUME NEW i \in 1..Len(u) PROVE Odd(u[i])
      OBVIOUS
    <3>1. u[i] \in Nat /\ u[i] >= 128 /\ u[i] \in Bytes
      BY <2>1, <2>2
    <3> QED BY <3>1 DEF Tab, NewLine, Return, Backslash, Quote
  <2>4. c # Backslash /\ c # Quote
    BY <1>12 DEF Backslash
  <2>5. CASE Len(u) = 2
    <3>1. u = <<u[1], u[2]>> /\ Odd(u[1]) /\ Odd(u[2])
      BY <2>1, <2>3, <2>5
    <3> DEFINE r == Append(Append(b, u[1]), u[2])
    <3>2. SoFar(p) = r
      <4>1. b \o <<u[1], u[2]>> = r
        BY <1>1, <3>1, ThreePlaces
      <4> QED BY <1>2, <2>1, <3>1, <4>1
    <3>3. /\ r \in Seq(Bytes) /\ Len(r) > 0 /\ r[1] = Quote /\ OneLine(r)
          /\ ~AtEnd(r)
          /\ Hidden(r) <=> Hidden(b)
      BY <1>8, <3>1
    <3>4. ~AtEnd(p) /\ (Clear(p) <=> Clear(q))
      BY <1>3, <2>4
    <3> HIDE DEF r
    <3> QED BY <1>1, <1>6, <3>2, <3>3, <3>4
  <2>6. CASE Len(u) = 3
    <3>1. u = <<u[1], u[2], u[3]>> /\ Odd(u[1]) /\ Odd(u[2]) /\ Odd(u[3])
      BY <2>1, <2>3, <2>6
    <3> DEFINE a == Append(Append(b, u[1]), u[2])
    <3>2. SoFar(p) = Append(a, u[3])
      <4>1. b \o <<u[1], u[2], u[3]>> = Append(a, u[3])
        BY <1>1, <3>1, ThreePlaces
      <4> QED BY <1>2, <2>1, <3>1, <4>1
    <3>3. /\ a \in Seq(Bytes) /\ Len(a) > 0 /\ a[1] = Quote /\ OneLine(a)
          /\ ~AtEnd(a)
          /\ Hidden(a) <=> Hidden(b)
      BY <1>8, <3>1
    <3> HIDE DEF a
    <3>4. Len(a) \in Nat /\ 1 \in 1..Len(a)
      BY <3>3, LenProperties
    <3>5. LET r == Append(a, u[3]) IN
          /\ r \in Seq(Bytes) /\ Len(r) > 0 /\ r[1] = Quote
          /\ AtEnd(r) <=> u[3] = Backslash /\ ~AtEnd(a)
          /\ Hidden(r) <=> Hidden(a) /\ (u[3] = Quote => AtEnd(a))
          /\ OneLine(r) <=> OneLine(a) /\ u[3] \notin {Tab, NewLine, Return}
      BY <3>1, <3>3, <3>4, OnePlace
    <3> DEFINE r == Append(a, u[3])
    <3>6. /\ r \in Seq(Bytes) /\ Len(r) > 0 /\ r[1] = Quote /\ OneLine(r)
          /\ ~AtEnd(r)
          /\ Hidden(r) <=> Hidden(b)
      BY <3>1, <3>3, <3>5
    <3>7. ~AtEnd(p) /\ (Clear(p) <=> Clear(q))
      BY <1>3, <2>4
    <3> HIDE DEF r
    <3> QED BY <1>1, <1>6, <3>2, <3>6, <3>7 DEF r
  <2> QED BY <2>2, <2>5, <2>6
<1>13. \/ c = Quote \/ c \in {Tab, NewLine, Return}
       \/ c \notin {Quote, Tab, NewLine, Return}
  OBVIOUS
<1> QED BY <1>9, <1>10, <1>11, <1>12, <1>13, Zenon

LEMMA QuotedAll == \A q \in Seq(Units) : QuotedSoFar(q)
<1> DEFINE T == {q \in Seq(Units) : QuotedSoFar(q)}
<1>1. <<>> \in T
  <2>1. Encoded(Escaped(<<>>)) = <<>> /\ <<>> \in Seq(Units) /\ Len(<<>>) = 0
    BY EncodedAppend, EscapedAppend, EmptySeq
  <2>2. SoFar(<<>>) = <<Quote>> /\ <<Quote>> \in Seq(Bytes)
        /\ Len(<<Quote>>) = 1 /\ <<Quote>>[1] = Quote
    <3>1. <<Quote>> \in Seq(Bytes) /\ Len(<<Quote>>) = 1 /\ <<Quote>>[1] = Quote
      BY DEF Quote, Bytes
    <3>2. <<Quote>> \o <<>> = <<Quote>>
      BY <3>1, ConcatEmptySeq
    <3> QED BY <2>1, <3>1, <3>2 DEF SoFar
  <2>3. ~AtEnd(<<Quote>>) /\ ~AtEnd(<<>>)
    <3>1. /\ OddBefore(<<Quote>>, 1 + 1)
               <=> <<Quote>>[1] = Backslash /\ ~OddBefore(<<Quote>>, 1)
          /\ ~OddBefore(<<>>, 1)
      BY OddNext
    <3> QED BY <2>1, <2>2, <3>1 DEF AtEnd, Quote, Backslash
  <2>4. OneLine(<<Quote>>)
    BY <2>2 DEF OneLine, Quote, Tab, NewLine, Return
  <2>5. Hidden(<<Quote>>) /\ Clear(<<>>)
    BY <2>1, <2>2 DEF Hidden, Clear
  <2>6. Len(SoFar(<<>>)) > 0 /\ SoFar(<<>>)[1] = Quote
    BY <2>2
  <2>7. QuotedSoFar(<<>>)
    BY <2>2, <2>3, <2>4, <2>5, <2>6, Zenon DEF QuotedSoFar
  <2> QED BY <2>1, <2>7
<1>2. ASSUME NEW q \in Seq(Units), NEW c \in Units, q \in T
      PROVE  Append(q, c) \in T
  BY <1>2, QuotedStep, AppendProperties
<1>3. Seq(Units) \subseteq T
  <2> HIDE DEF T
  <2> QED BY <1>1, <1>2, SeqInd
<1> QED BY <1>3

(* A text that is to be printed in quotes is.                              *)
LEMMA QuotedPrinted ==
  ASSUME NEW d \in Directives, NEW a \in Arguments(d),
         NEW s \in QuotedTexts(d, a) \ {<<>>}
  PROVE  s \in Seq(Units) /\ Directive(d, a) = Quoted(s)
<1>1. a # Null
  BY DEF QuotedTexts
<1>2. \A t : t # <<>> => Wide(a, t, TRUE) = Quoted(t)
  BY <1>1 DEF Wide, Printed
<1>3. CASE d = "s"
  <2>1. a \in Pointers(AnsiTexts) /\ s = Chars(a.text)
    BY <1>1, <1>3 DEF Arguments, QuotedTexts
  <2> QED BY <1>1, <1>2, <1>3, <2>1, PointerType DEF Directive, Narrow
<1>4. CASE d \in {"S", "b"}
  <2>1. a \in Pointers(Texts) /\ s = a.text
    BY <1>1, <1>4 DEF Arguments, QuotedTexts
  <2> QED BY <1>1, <1>2, <1>4, <2>1, PointerType DEF Directive
<1>5. CASE d = "v"
  <2> DEFINE t == Target(a)
             chars == CASE t.vt = "LPSTR"  -> Chars(ToZero(t.to.text))
                        [] t.vt = "LPWSTR" -> ToZero(t.to.text)
                        [] t.vt = "BSTR"   -> t.to.text
  <2>1. t \in Scalars
    BY <1>1, <1>5, TargetType DEF Arguments
  <2>2. t.vt \in {"LPSTR", "LPWSTR", "BSTR"} /\ t.to # Null /\ s = chars
    BY <1>1, <1>5 DEF QuotedTexts
  <2>3. Directive(d, a) = _report_variant(a)
    BY <1>1, <1>5 DEF Directive
  <2>4. chars \in Seq(Units)
    BY <2>1, <2>2, ScalarType, PointerType
  <2>5. \A x : x # <<>> => Wide(t.to, x, TRUE) = Quoted(x)
    BY <2>2 DEF Wide, Printed
  <2> HIDE DEF t
  <2>6. _report_variant(a) = Wide(t.to, chars, TRUE)
    <3>1. CASE t.vt = "LPSTR"
      BY <3>1 DEF _report_variant, t, Narrow, Numeric, Bytewise, Wordwise,
                  Longwise, Quadwise
    <3>2. CASE t.vt = "LPWSTR"
      BY <3>2 DEF _report_variant, t, Numeric, Bytewise, Wordwise, Longwise, Quadwise
    <3>3. CASE t.vt = "BSTR"
      BY <3>3 DEF _report_variant, t, Numeric, Bytewise, Wordwise, Longwise, Quadwise
    <3> QED BY <2>2, <3>1, <3>2, <3>3
  <2> QED BY <2>2, <2>3, <2>4, <2>5, <2>6
<1>6. d \in {"s", "S", "b", "v"}
  BY <1>1 DEF QuotedTexts
<1> QED BY <1>3, <1>4, <1>5, <1>6

(* The bytes of a quoted text are those so far and the closing quote.      *)
LEMMA QuotedBytes ==
  ASSUME NEW s \in Seq(Units)
  PROVE  Encoded(Quoted(s)) = Append(SoFar(s), Quote)
<1>1. /\ <<Quote>> \in Seq(0..127) /\ Quote \in Units /\ <<Quote>> \in Seq(Units)
      /\ Escaped(s) \in Seq(Units)
  BY EscapedAppend DEF Quote, Units
<1>2. Encoded(<<Quote>>) = <<Quote>>
  BY <1>1, EncodedAscii
<1>3. <<Quote>> \o Escaped(s) \in Seq(Units)
  BY <1>1, ConcatProperties
<1>4. Encoded(<<Quote>> \o Escaped(s)) = SoFar(s)
  BY <1>1, <1>2, EncodedConcat DEF SoFar
<1>5. Encoded((<<Quote>> \o Escaped(s)) \o <<Quote>>) = SoFar(s) \o <<Quote>>
  BY <1>1, <1>2, <1>3, <1>4, EncodedConcat
<1>6. SoFar(s) \in Seq(Bytes) /\ Quote \in Bytes
  BY QuotedAll DEF QuotedSoFar, Quote, Bytes
<1> QED BY <1>5, <1>6, AppendIsConcat DEF Quoted, Escaped

(* A quoted text stays on its line, and its ends are the two quotes that   *)
(* are not escaped exactly when no quote of it, nor its end, follows an    *)
(* odd number of backslashes (report.c:56-78,85-125).                      *)
THEOREM QuotedTextClosedHolds == TextSpec => []QuotedTextClosed
<1>1. TextInv => QuotedTextClosed
  <2> SUFFICES ASSUME TextInv, pass = "done",
                      NEW k \in DOMAIN call.fmt, Takes(call.fmt[k]),
                      NEW s \in QuotedTexts(call.fmt[k].letter, Arg(k)) \ {<<>>}
               PROVE  /\ \A i \in DOMAIN out[k] :
                           out[k][i] \notin {Tab, NewLine, Return}
                      /\ OpenQuotes(out[k]) = {1, Len(out[k])}
                           <=> \A i \in 1..(Len(s) + 1) :
                                 Append(s, Quote)[i] = Quote => ~OddBefore(s, i)
    BY DEF QuotedTextClosed
  <2> DEFINE b == SoFar(s)
             r == out[k]
             n == Len(b)
  <2>1. s \in Seq(Units) /\ r = Encoded(Quoted(s))
    BY PiecePrinted, QuotedPrinted
  <2>2. r = Append(b, Quote)
    BY <2>1, QuotedBytes
  <2>3. /\ b \in Seq(Bytes) /\ n > 0 /\ b[1] = Quote /\ OneLine(b)
        /\ AtEnd(b) <=> AtEnd(s)
        /\ Hidden(b) <=> Clear(s)
    BY <2>1, QuotedAll DEF QuotedSoFar
  <2>4. /\ r \in Seq(Bytes) /\ Len(r) = n + 1 /\ n \in Nat
        /\ \A i \in 1..n : r[i] = b[i]
        /\ r[n + 1] = Quote
        /\ \A i \in 1..(n + 1) : OddBefore(r, i) <=> OddBefore(b, i)
        /\ OneLine(r)
    <3>1. Quote \in Bytes /\ Quote \notin {Tab, NewLine, Return}
      BY DEF Quote, Bytes, Tab, NewLine, Return
    <3> HIDE DEF b, r
    <3> QED BY <2>2, <2>3, <3>1, OnePlace
  <2>5. (\A i \in 1..(Len(s) + 1) : Append(s, Quote)[i] = Quote => ~OddBefore(s, i))
          <=> Clear(s) /\ ~AtEnd(s)
    <3>1. Quote \in Units
      BY DEF Quote, Units
    <3>2. /\ Append(s, Quote)[Len(s) + 1] = Quote /\ Len(s) \in Nat
          /\ \A i \in 1..Len(s) : Append(s, Quote)[i] = s[i]
      BY <2>1, <3>1, AppendProperties
    <3>3. (\A i \in 1..(Len(s) + 1) : i \in 1..Len(s) \/ i = Len(s) + 1)
          /\ Len(s) + 1 \in 1..(Len(s) + 1) /\ 1..Len(s) \subseteq 1..(Len(s) + 1)
      BY <3>2
    <3> QED BY <3>2, <3>3 DEF Clear, AtEnd
  <2>6. DOMAIN r = 1..(n + 1)
    BY <2>4, LenProperties
  <2>7. ~OddBefore(b, 1)
    <3>1. 1 \in Nat \ {0}
      OBVIOUS
    <3> QED BY <3>1, OddNext
  <2>8. AtEnd(b) <=> OddBefore(b, n + 1)
    BY DEF AtEnd
  <2>9. Hidden(b) <=> \A i \in 2..n : b[i] = Quote => OddBefore(b, i)
    BY DEF Hidden
  <2> HIDE DEF b, r, n
  <2>10. \A i : i \in OpenQuotes(r)
           <=> i \in 1..(n + 1) /\ r[i] = Quote /\ ~OddBefore(b, i)
    BY <2>4, <2>6 DEF OpenQuotes
  <2>11. \A i \in 1..(n + 1) : i = 1 \/ i = n + 1 \/ i \in 2..n
    BY <2>4
  <2>12. /\ 1 \in 1..(n + 1) /\ n + 1 \in 1..(n + 1) /\ 2..n \subseteq 1..(n + 1)
         /\ 2..n \subseteq 1..n /\ 1 \in 1..n /\ n + 1 \notin 2..n /\ 1 \notin 2..n
         /\ n + 1 # 1
    BY <2>3, <2>4
  <2>13. 1 \in OpenQuotes(r) /\ (n + 1 \in OpenQuotes(r) <=> ~OddBefore(b, n + 1))
         /\ \A i \in 2..n : i \in OpenQuotes(r)
                              <=> b[i] = Quote /\ ~OddBefore(b, i)
    BY <2>3, <2>4, <2>7, <2>10, <2>12
  <2>14. OpenQuotes(r) = {1, n + 1} <=> Hidden(b) /\ ~OddBefore(b, n + 1)
    <3>1. ASSUME OpenQuotes(r) = {1, n + 1} PROVE Hidden(b) /\ ~OddBefore(b, n + 1)
      BY <2>9, <2>12, <2>13, <3>1
    <3>2. ASSUME Hidden(b), ~OddBefore(b, n + 1) PROVE OpenQuotes(r) = {1, n + 1}
      BY <2>9, <2>10, <2>11, <2>13, <3>2
    <3> QED BY <3>1, <3>2
  <2>15. \A i \in 1..(n + 1) : r[i] \notin {Tab, NewLine, Return}
    BY <2>4 DEF OneLine
  <2> QED BY <2>3, <2>4, <2>5, <2>6, <2>8, <2>14, <2>15 DEF r
<1> QED BY <1>1, TextInvHolds, PTL

-----------------------------------------------------------------------------
(***************************************************************************)
(* Reading a line back.                                                    *)
(***************************************************************************)
(* Where the spread bits do not show, the code is UTF-8 (report.c:26-43).  *)
LEMMA SafeEncode ==
  ASSUME NEW c \in Units, Safe(c)
  PROVE  utf8_encode(c) = Utf8(c)
<1>1. c \in Nat /\ c <= 65535
  BY DEF Units
<1>2. CASE c < 128
  BY <1>2 DEF utf8_encode, Utf8
<1>3. CASE 128 <= c /\ c < 256
  <2>1. c \div 256 = 0 /\ c < 2048 /\ ~(c < 128)
    BY <1>1, <1>3
  <2>2. 192 + 4 * (c \div 256) + c \div 64 = 192 + c \div 64
    BY <1>1, <2>1
  <2> QED BY <2>1, <2>2 DEF utf8_encode, Utf8, TwoBytes
<1>4. CASE 2048 <= c /\ (c \div 4096) % 2 = 0
  <2>1. (c \div 256) % 32 = (c \div 256) % 16
    BY <1>1, <1>4
  <2>2. (c \div 64) % 64 = 4 * ((c \div 256) % 16) + ((c \div 64) % 4)
    <3> DEFINE d == c \div 64
    <3>1. d \in Nat /\ c \div 256 = d \div 4
      BY <1>1
    <3> HIDE DEF d
    <3>2. d % 64 = 4 * ((d \div 4) % 16) + (d % 4)
      <4> DEFINE q == d \div 64
                 r == d % 64
      <4>1. q \in Nat /\ r \in 0..63 /\ d = 64 * q + r
        BY <3>1
      <4> HIDE DEF q, r
      <4>2. /\ d \div 4 = 16 * q + r \div 4 /\ d % 4 = r % 4
            /\ r \div 4 \in 0..15
        BY <4>1
      <4>3. (d \div 4) % 16 = r \div 4
        BY <4>1, <4>2
      <4>4. r = 4 * (r \div 4) + (r % 4)
        BY <4>1
      <4> QED BY <4>2, <4>3, <4>4 DEF r
    <3> QED BY <3>1, <3>2 DEF d
  <2>3. 128 + 4 * ((c \div 256) % 32) + ((c \div 64) % 4)
          = 128 + ((c \div 64) % 64)
    BY <1>1, <2>1, <2>2
  <2>4. ~(c < 2048) /\ ~(c < 128)
    BY <1>1, <1>4
  <2> QED BY <2>3, <2>4 DEF utf8_encode, Utf8, ThreeBytes
<1> QED BY <1>1, <1>2, <1>3, <1>4 DEF Safe

(* So a line of such characters is UTF-8.                                  *)
LEMMA SafeLines == TextInv => SafeLinesAreUtf8
<1> DEFINE L == Line
<1> SUFFICES ASSUME TextInv, pass = "done", \A i \in DOMAIN L : Safe(L[i])
             PROVE  Buffer = Utf8Line(L)
  BY DEF SafeLinesAreUtf8
<1>1. L \in Seq(Units) /\ Buffer = Encoded(L)
  BY LinePrinted
<1>2. \A i \in DOMAIN L : utf8_encode(L[i]) = Utf8(L[i])
  <2> HIDE DEF L
  <2>1. \A i \in DOMAIN L : L[i] \in Units
    BY <1>1, ElementOfSeq, LenProperties
  <2> QED BY <2>1, SafeEncode
<1> HIDE DEF L
<1>3. [i \in DOMAIN L |-> utf8_encode(L[i])] = [i \in DOMAIN L |-> Utf8(L[i])]
  BY <1>2, Zenon
<1> QED BY <1>1, <1>3 DEF Encoded, Utf8Line

(* The bytes of a text are those of its first character and those of the   *)
(* others.                                                                 *)
LEMMA EncodedHead ==
  ASSUME NEW t \in Seq(Units), t # <<>>
  PROVE  /\ Head(t) \in Units /\ Tail(t) \in Seq(Units)
         /\ Encoded(t) = utf8_encode(Head(t)) \o Encoded(Tail(t))
<1>1. /\ Head(t) \in Units /\ Tail(t) \in Seq(Units)
      /\ t = <<Head(t)>> \o Tail(t) /\ <<Head(t)>> \in Seq(Units)
  OBVIOUS
<1>2. Encoded(<<Head(t)>>) = utf8_encode(Head(t))
  <2>1. /\ <<>> \in Seq(Units) /\ <<Head(t)>> = Append(<<>>, Head(t))
        /\ utf8_encode(Head(t)) \in Seq(Bytes)
    BY <1>1, EncodeShape, EmptySeq
  <2>2. Encoded(Append(<<>>, Head(t))) = Encoded(<<>>) \o utf8_encode(Head(t))
    BY <1>1, <2>1, EncodedAppend
  <2>3. Encoded(<<>>) \o utf8_encode(Head(t)) = utf8_encode(Head(t))
    BY <2>1, EncodedAppend, ConcatEmptySeq
  <2> QED BY <2>1, <2>2, <2>3
<1> QED BY <1>1, <1>2, EncodedConcat

(* No character begins with a byte that only goes on with one.             *)
LEMMA EncodeStart ==
  ASSUME NEW c \in Units
  PROVE  /\ Len(utf8_encode(c)) \in 1..3
         /\ utf8_encode(c)[1] < 128 \/ utf8_encode(c)[1] >= 192
<1> c \in Nat
  BY DEF Units
<1> DEFINE u == utf8_encode(c)
<1>1. CASE c < 128
  <2>1. u = <<c>>
    BY <1>1, EncodeShape
  <2> HIDE DEF u
  <2>2. Len(u) = 1 /\ u[1] = c
    BY <2>1
  <2> QED BY <1>1, <2>2 DEF u
<1>2. CASE 128 <= c /\ c < 2048
  <2>1. Len(u) = 2 /\ u[1] \in 192..255
    BY <1>2, EncodeShape
  <2> HIDE DEF u
  <2>2. u[1] >= 192
    BY <2>1
  <2> QED BY <2>1, <2>2 DEF u
<1>3. CASE c >= 2048
  <2>1. Len(u) = 3 /\ u[1] \in 224..255
    BY <1>3, EncodeShape
  <2> HIDE DEF u
  <2>2. u[1] >= 192
    BY <2>1
  <2> QED BY <2>1, <2>2 DEF u
<1> QED BY <1>1, <1>2, <1>3

(* Nor does a text.                                                        *)
LEMMA EncodedFirst ==
  ASSUME NEW t \in Seq(Units), t # <<>>
  PROVE  Encoded(t)[1] < 128 \/ Encoded(t)[1] >= 192
<1> DEFINE u == utf8_encode(Head(t))
           r == Encoded(Tail(t))
<1>1. /\ Encoded(t) = u \o r /\ u \in Seq(Bytes) /\ r \in Seq(Bytes)
      /\ Head(t) \in Units
  BY EncodedHead, EncodedAppend, EncodeShape
<1>2. Len(u) \in 1..3 /\ (u[1] < 128 \/ u[1] >= 192)
  BY <1>1, EncodeStart
<1> HIDE DEF u, r
<1>3. 1 \in 1..Len(u) /\ Len(u) \in Nat
  BY <1>2
<1>4. (u \o r)[1] = u[1]
  BY <1>1, <1>3, ConcatProperties
<1> QED BY <1>1, <1>2, <1>4

(* The bits of a character, as utf8_encode() spreads them over two bytes.  *)
LEMMA TwoBack ==
  ASSUME NEW c \in Nat, 128 <= c, c < 2048
  PROVE  LET x == 192 + 4 * (c \div 256) + c \div 64
             y == 128 + (c % 64)
         IN  256 * ((x - 192) \div 8) + 64 * ((x - 192) % 8) + y - 128 = c
<1> DEFINE x == 192 + 4 * (c \div 256) + c \div 64
           y == 128 + (c % 64)
<1> DEFINE h == c \div 256
           r == (c \div 64) % 4
           e == c % 64
<1>1. /\ h \in 0..7 /\ r \in 0..3 /\ e \in 0..63
      /\ c \div 64 = 4 * h + r /\ c = 64 * (c \div 64) + e
  OBVIOUS
<1> HIDE DEF h, r, e
<1>2. x - 192 = 8 * h + r /\ y - 128 = e
  BY <1>1 DEF h, e
<1>3. (x - 192) \div 8 = h /\ (x - 192) % 8 = r
  BY <1>1, <1>2
<1> QED BY <1>1, <1>2, <1>3

(* What CharAt makes of three bytes.                                       *)
OfThree(x, z, y) ==
  4096 * (x - 224) + 256 * (((z - 128) \div 4) % 16)
    + 64 * ((z - 128) % 4) + y - 128

(* The bits of a character, as utf8_encode() spreads them over three.      *)
LEMMA ThreeBack ==
  ASSUME NEW c \in Nat, 2048 <= c, c < 65536
  PROVE  OfThree(224 + c \div 4096,
                 128 + 4 * ((c \div 256) % 32) + ((c \div 64) % 4),
                 128 + (c % 64)) = c
<1> DEFINE k == c \div 4096
           g == (c \div 256) % 32
           h == (c \div 256) % 16
           r == (c \div 64) % 4
           e == c % 64
<1>1. /\ k \in 0..15 /\ g \in 0..31 /\ h \in 0..15
      /\ r \in 0..3 /\ e \in 0..63 /\ g % 16 = h
      /\ c \div 256 = 16 * k + h /\ c \div 64 = 4 * (c \div 256) + r
      /\ c = 64 * (c \div 64) + e
  OBVIOUS
<1>2. c \div 256 \in Int /\ c \div 64 \in Int
  OBVIOUS
<1>3. OfThree(224 + k, 128 + 4 * g + r, 128 + e)
        = 4096 * k + 256 * (g % 16) + 64 * r + e
  <2> HIDE DEF k, g, h, r, e
  <2>1. k \in 0..15 /\ g \in 0..31 /\ r \in 0..3 /\ e \in 0..63
    BY <1>1
  <2>2. (128 + 4 * g + r) - 128 = 4 * g + r /\ (224 + k) - 224 = k
    BY <2>1
  <2>3. (4 * g + r) \div 4 = g /\ (4 * g + r) % 4 = r
    BY <2>1
  <2> QED BY <2>1, <2>2, <2>3 DEF OfThree
<1>4. 4096 * k + 256 * (g % 16) + 64 * r + e = c
  <2> HIDE DEF k, g, h, r, e
  <2> QED BY <1>1, <1>2
<1> QED BY <1>3, <1>4

(* The bytes of u stand in b from p on, and what comes behind them is not  *)
(* a byte that only goes on with a character.                              *)
StandsAt(b, p, u) ==
  /\ \A j \in 1..Len(u) : p + (j - 1) <= Len(b) /\ b[p + (j - 1)] = u[j]
  /\ p + Len(u) <= Len(b) => b[p + Len(u)] < 128 \/ b[p + Len(u)] >= 192

(* Where the bytes of a character stand in b and what comes behind them    *)
(* begins another one, the reader finds their number and the character.    *)
LEMMA CharBack ==
  ASSUME NEW b \in Seq(Bytes), NEW p \in Nat, NEW c \in Units,
         StandsAt(b, p, utf8_encode(c))
  PROVE  /\ SizeAt(b, p) = Len(utf8_encode(c))
         /\ CharAt(b, p) = c
<1>1. c \in Nat /\ c < 65536 /\ Len(b) \in Nat
  BY DEF Units
<1>3. CASE c < 128
  <2>1. Len(<<c>>) = 1 /\ <<c>>[1] = c /\ utf8_encode(c) = <<c>>
    BY <1>3, EncodeShape
  <2>2. b[p] = c
    <3>1. 1 \in 1..1 /\ p + (1 - 1) = p
      OBVIOUS
    <3> QED BY <2>1, <3>1 DEF StandsAt
  <2>3. SizeAt(b, p) = 1
    BY <1>3, <2>2 DEF SizeAt
  <2> QED BY <2>1, <2>2, <2>3 DEF CharAt
<1>4. CASE 128 <= c /\ c < 2048
  <2> DEFINE x == 192 + 4 * (c \div 256) + c \div 64
             y == 128 + (c % 64)
  <2>1. utf8_encode(c) = <<x, y>>
    BY <1>1, <1>4 DEF utf8_encode, TwoBytes
  <2>2. x >= 192 /\ y \in 128..191 /\ x \in Nat
    BY <1>1, <1>4
  <2>3. 256 * ((x - 192) \div 8) + 64 * ((x - 192) % 8) + y - 128 = c
    <3>1. c \in Nat /\ 128 <= c /\ c < 2048
      BY <1>1, <1>4
    <3> QED BY <3>1, TwoBack, ZenonT(60)
  <2> HIDE DEF x, y
  <2>4. Len(<<x, y>>) = 2 /\ <<x, y>>[1] = x /\ <<x, y>>[2] = y
    OBVIOUS
  <2>5. b[p] = x /\ b[p + 1] = y
    <3>1. /\ 1 \in 1..2 /\ 2 \in 1..2
          /\ p + (1 - 1) = p /\ p + (2 - 1) = p + 1
      OBVIOUS
    <3> QED BY <2>1, <2>4, <3>1 DEF StandsAt
  <2>6. p + 2 <= Len(b) => b[p + 2] < 128 \/ b[p + 2] >= 192
    BY <2>1, <2>4 DEF StandsAt
  <2>7. ~(b[p] < 128) /\ ~(b[p + 1] >= 192)
    BY <2>2, <2>5
  <2>8. p + 2 <= Len(b) => b[p + 2] \notin 128..191
    <3> SUFFICES ASSUME p + 2 <= Len(b) PROVE b[p + 2] \notin 128..191
      OBVIOUS
    <3>1. b[p + 2] < 128 \/ b[p + 2] >= 192
      BY <2>6
    <3>2. p + 2 \in 1..Len(b)
      BY <1>1
    <3>3. b[p + 2] \in Bytes
      BY <3>2, ElementOfSeq
    <3>4. \A v \in Bytes : v < 128 \/ v >= 192 => v \notin 128..191
      BY DEF Bytes
    <3> QED BY <3>1, <3>3, <3>4
  <2>9. SizeAt(b, p) = 2
    BY <2>7, <2>8 DEF SizeAt
  <2> QED BY <2>1, <2>3, <2>4, <2>5, <2>9 DEF CharAt
<1>5. CASE c >= 2048
  <2> DEFINE x == 224 + c \div 4096
             z == 128 + 4 * ((c \div 256) % 32) + ((c \div 64) % 4)
             y == 128 + (c % 64)
  <2>1. utf8_encode(c) = <<x, z, y>>
    BY <1>1, <1>5 DEF utf8_encode, ThreeBytes
  <2>2. x >= 224 /\ y \in 128..191 /\ x \in Nat
    BY <1>1, <1>5
  <2>3. OfThree(x, z, y) = c
    BY <1>1, <1>5, ThreeBack, SMTT(60)
  <2> HIDE DEF x, z, y
  <2>4. /\ Len(<<x, z, y>>) = 3 /\ <<x, z, y>>[1] = x
        /\ <<x, z, y>>[2] = z /\ <<x, z, y>>[3] = y
    OBVIOUS
  <2>5. p + 2 <= Len(b) /\ b[p] = x /\ b[p + 1] = z /\ b[p + 2] = y
    <3>1. /\ 1 \in 1..3 /\ 2 \in 1..3 /\ 3 \in 1..3
          /\ p + (1 - 1) = p /\ p + (2 - 1) = p + 1 /\ p + (3 - 1) = p + 2
      OBVIOUS
    <3> QED BY <2>1, <2>4, <3>1 DEF StandsAt
  <2>6. ~(b[p] < 128)
    BY <2>2, <2>5
  <2>7. SizeAt(b, p) = 3
    BY <2>2, <2>5, <2>6 DEF SizeAt
  <2> QED BY <2>1, <2>3, <2>4, <2>5, <2>7 DEF CharAt, OfThree
<1> QED BY <1>1, <1>3, <1>4, <1>5

(* What a reader makes of b from i on when f says what it makes of it      *)
(* from later bytes on.                                                    *)
ReadFrom(b, f, i) ==
  IF i > Len(b) THEN <<>> ELSE <<CharAt(b, i)>> \o f[i + SizeAt(b, i)]

(* The function that Decoded is defined with exists.                       *)
LEMMA ReaderExists ==
  ASSUME NEW b, Len(b) \in Nat
  PROVE  \E f : f = [i \in 1..(Len(b) + 3) |->
                       IF i > Len(b) THEN <<>>
                         ELSE <<CharAt(b, i)>> \o f[i + SizeAt(b, i)]]
<1> DEFINE n == Len(b)
           D == 1..(n + 3)
           G(f, m) == \A i \in (n + 3 - m)..(n + 3) : f[i] = ReadFrom(b, f, i)
           T == {m \in Nat : m < n + 3 => \E f : G(f, m)}
<1>1. \A i \in D : SizeAt(b, i) \in 1..3
  BY DEF SizeAt
<1>2. 0 \in T
  <2> DEFINE f == [i \in D |-> <<>>]
  <2>1. \A i \in (n + 3 - 0)..(n + 3) : f[i] = <<>> /\ i > Len(b)
    OBVIOUS
  <2> HIDE DEF f
  <2>2. G(f, 0)
    BY <2>1 DEF ReadFrom
  <2> HIDE DEF G
  <2> QED BY <2>2
<1>3. ASSUME NEW m \in Nat, m \in T PROVE m + 1 \in T
  <2> SUFFICES ASSUME m + 1 < n + 3 PROVE \E f : G(f, m + 1)
    OBVIOUS
  <2>1. PICK f : G(f, m)
    BY <1>3
  <2> DEFINE k == n + 3 - (m + 1)
             g == [i \in D |-> IF i = k THEN ReadFrom(b, f, k) ELSE f[i]]
  <2>2. k \in D /\ k \in Nat /\ k + 1 = n + 3 - m
    OBVIOUS
  <2>3. g[k] = ReadFrom(b, f, k) /\ \A i \in D : i # k => g[i] = f[i]
    BY <2>2
  <2>4. ASSUME NEW i \in k..(n + 3) PROVE g[i] = ReadFrom(b, g, i)
    <3>1. i \in D /\ i \in Nat
      BY <2>2
    <3>2. ReadFrom(b, g, i) = ReadFrom(b, f, i)
      <4>1. CASE i > Len(b)
        BY <4>1 DEF ReadFrom
      <4>2. CASE ~(i > Len(b))
        <5>1. SizeAt(b, i) \in 1..3
          BY <1>1, <3>1
        <5>2. i + SizeAt(b, i) \in D /\ i + SizeAt(b, i) # k
          BY <2>2, <3>1, <4>2, <5>1
        <5>3. g[i + SizeAt(b, i)] = f[i + SizeAt(b, i)]
          BY <2>3, <5>2
        <5> HIDE DEF g, k
        <5> QED BY <4>2, <5>3 DEF ReadFrom
      <4> QED BY <4>1, <4>2
    <3>3. CASE i = k
      <4> HIDE DEF g, k
      <4> QED BY <2>3, <3>2, <3>3
    <3>4. CASE i # k
      <4>1. i \in (n + 3 - m)..(n + 3)
        BY <2>2, <3>1, <3>4
      <4>2. f[i] = ReadFrom(b, f, i)
        BY <2>1, <4>1
      <4>3. g[i] = f[i]
        BY <2>3, <3>1, <3>4
      <4> HIDE DEF g, k
      <4> QED BY <3>2, <4>2, <4>3
    <3> QED BY <3>3, <3>4
  <2> HIDE DEF g
  <2>5. G(g, m + 1)
    BY <2>4
  <2> HIDE DEF G
  <2> QED BY <2>5
<1>4. Nat \subseteq T
  <2> HIDE DEF T
  <2> QED BY <1>2, <1>3, NatInd
<1>5. PICK f : G(f, n + 2)
  <2>1. n + 2 \in Nat /\ n + 2 < n + 3
    OBVIOUS
  <2> HIDE DEF G, n
  <2>2. n + 2 \in T
    BY <1>4, <2>1
  <2> QED BY <2>1, <2>2
<1> DEFINE h == [i \in D |-> f[i]]
<1>6. ASSUME NEW i \in D PROVE h[i] = ReadFrom(b, h, i)
  <2>1. f[i] = ReadFrom(b, f, i)
    BY <1>5
  <2>2. i <= Len(b) => h[i + SizeAt(b, i)] = f[i + SizeAt(b, i)]
    <3> SUFFICES ASSUME i <= Len(b) PROVE i + SizeAt(b, i) \in D
      OBVIOUS
    <3>1. SizeAt(b, i) \in 1..3
      BY <1>1
    <3> QED BY <3>1
  <2>3. h[i] = f[i]
    OBVIOUS
  <2> HIDE DEF h
  <2> QED BY <2>1, <2>2, <2>3 DEF ReadFrom
<1>7. h = [i \in D |-> h[i]]
  OBVIOUS
<1> HIDE DEF h
<1>8. h = [i \in D |-> ReadFrom(b, h, i)]
  BY <1>6, <1>7
<1> QED BY <1>8, Zenon DEF ReadFrom

(* Decoded(b) is what that function says of the first byte.                *)
LEMMA DecodedFirst ==
  ASSUME NEW b, Len(b) \in Nat
  PROVE  \E f : /\ Decoded(b) = f[1]
                /\ \A i \in 1..(Len(b) + 3) : f[i] = ReadFrom(b, f, i)
<1> DEFINE f == CHOOSE g : g = [i \in 1..(Len(b) + 3) |->
                       IF i > Len(b) THEN <<>>
                         ELSE <<CharAt(b, i)>> \o g[i + SizeAt(b, i)]]
<1>1. f = [i \in 1..(Len(b) + 3) |->
             IF i > Len(b) THEN <<>>
               ELSE <<CharAt(b, i)>> \o f[i + SizeAt(b, i)]]
  BY ReaderExists, Zenon
<1>2. Decoded(b) = f[1]
  BY DEF Decoded
<1> HIDE DEF f
<1>3. \A i \in 1..(Len(b) + 3) : f[i] = ReadFrom(b, f, i)
  BY <1>1, Zenon DEF ReadFrom
<1> QED BY <1>2, <1>3

(* Every character that is printed can be read back.                       *)
LEMMA ReadBack ==
  ASSUME NEW L \in Seq(Units)
  PROVE  Decoded(Encoded(L)) = L
<1> DEFINE b == Encoded(L)
<1>1. b \in Seq(Bytes) /\ Len(b) \in Nat
  BY EncodedAppend, LenProperties
<1>2. PICK f : /\ Decoded(b) = f[1]
               /\ \A i \in 1..(Len(b) + 3) : f[i] = ReadFrom(b, f, i)
  <2> HIDE DEF b
  <2> QED BY <1>1, DecodedFirst
<1> DEFINE Goal(k, t) == f[Len(Encoded(k)) + 1] = t
           T == {m \in Nat : \A k, t \in Seq(Units) :
                               L = k \o t /\ Len(t) = m => Goal(k, t)}
<1>3. 0 \in T
  <2> SUFFICES ASSUME NEW k \in Seq(Units), NEW t \in Seq(Units),
                      L = k \o t, Len(t) = 0
               PROVE  Goal(k, t)
    BY Zenon
  <2>1. t = <<>> /\ k = L
    BY EmptySeq, ConcatEmptySeq
  <2>2. Len(b) + 1 \in 1..(Len(b) + 3) /\ Len(b) + 1 > Len(b)
    BY <1>1
  <2>3. f[Len(b) + 1] = <<>>
    BY <1>2, <2>2 DEF ReadFrom
  <2> QED BY <2>1, <2>3
<1>4. ASSUME NEW m \in Nat, m \in T PROVE m + 1 \in T
  <2>0. m + 1 \in Nat
    BY <1>4
  <2> SUFFICES ASSUME NEW k \in Seq(Units), NEW t \in Seq(Units),
                      L = k \o t, Len(t) = m + 1
               PROVE  Goal(k, t)
    BY <2>0, Zenon
  <2> DEFINE c == Head(t)
             r == Tail(t)
             a == Encoded(k)
             u == utf8_encode(c)
             z == Encoded(r)
             p == Len(a) + 1
  <2>1. /\ c \in Units /\ r \in Seq(Units) /\ Len(r) = m
        /\ Append(k, c) \in Seq(Units) /\ L = Append(k, c) \o r
        /\ t = <<c>> \o r /\ t # <<>>
    <3>1. t # <<>>
      BY <1>4, EmptySeq
    <3>2. /\ c \in Units /\ r \in Seq(Units) /\ Len(r) = m
          /\ t = <<c>> \o r
      BY <1>4, <3>1
    <3> HIDE DEF c, r
    <3>3. /\ Append(k, c) \in Seq(Units) /\ <<c>> \in Seq(Units)
          /\ Append(k, c) = k \o <<c>>
      BY <3>2
    <3>4. (k \o <<c>>) \o r = k \o (<<c>> \o r)
      BY <3>2, <3>3, ConcatAssociative
    <3> QED BY <3>1, <3>2, <3>3, <3>4
  <2>2. /\ a \in Seq(Bytes) /\ u \in Seq(Bytes) /\ z \in Seq(Bytes)
        /\ Encoded(Append(k, c)) = a \o u
        /\ Encoded(t) = u \o z
    BY <2>1, EncodedAppend, EncodeShape, EncodedHead
  <2>3. b = a \o (u \o z)
    BY <2>2, EncodedConcat
  <2>4. f[Len(a \o u) + 1] = r
    BY <1>4, <2>1, <2>2
  <2>5. Len(u) \in 1..3
    BY <2>1, EncodeStart
  <2>6. r # <<>> => z[1] < 128 \/ z[1] >= 192
    BY <2>1, EncodedFirst
  <2>7. r = <<>> => Len(z) = 0
    BY EncodedAppend, EmptySeq
  <2> HIDE DEF b, a, u, z, r, c
  <2>8. /\ Len(a) \in Nat /\ Len(u) \in Nat /\ Len(z) \in Nat
        /\ Len(a \o u) = Len(a) + Len(u)
        /\ Len(u \o z) = Len(u) + Len(z)
        /\ Len(b) = Len(a) + (Len(u) + Len(z))
    BY <2>2, <2>3, ConcatProperties, LenProperties
  <2>9. StandsAt(b, p, u)
    <3>1. ASSUME NEW j \in 1..Len(u)
          PROVE  p + (j - 1) <= Len(b) /\ b[p + (j - 1)] = u[j]
      <4>1. /\ p + (j - 1) = Len(a) + j /\ p + (j - 1) \in 1..Len(b)
            /\ ~(p + (j - 1) <= Len(a)) /\ (p + (j - 1)) - Len(a) = j
            /\ j \in 1..(Len(u) + Len(z)) /\ j <= Len(u)
        BY <2>8
      <4>2. b[p + (j - 1)] = (u \o z)[j]
        BY <2>2, <2>3, <2>8, <4>1, ConcatProperties, SMTT(60)
      <4>3. (u \o z)[j] = u[j]
        BY <2>2, <2>8, <4>1, ConcatProperties
      <4> QED BY <4>1, <4>2, <4>3
    <3>2. ASSUME p + Len(u) <= Len(b)
          PROVE  b[p + Len(u)] < 128 \/ b[p + Len(u)] >= 192
      <4> DEFINE q == p + Len(u)
                 v == Len(u) + 1
      <4>1. /\ q \in 1..Len(b) /\ ~(q <= Len(a)) /\ q - Len(a) = v
            /\ v \in 1..(Len(u) + Len(z)) /\ ~(v <= Len(u)) /\ v - Len(u) = 1
            /\ Len(z) # 0
        BY <2>8, <3>2
      <4>2. b[q] = (u \o z)[v]
        <5> HIDE DEF q, v, p
        <5> QED BY <2>2, <2>3, <2>8, <4>1, ConcatProperties, SMTT(60)
      <4>3. (u \o z)[v] = z[1]
        <5> HIDE DEF q, v, p
        <5> QED BY <2>2, <2>8, <4>1, ConcatProperties
      <4>4. z[1] < 128 \/ z[1] >= 192
        BY <2>6, <2>7, <4>1
      <4> QED BY <4>2, <4>3, <4>4
    <3> QED BY <3>1, <3>2 DEF StandsAt
  <2>10. SizeAt(b, p) = Len(u) /\ CharAt(b, p) = c
    <3>1. p \in Nat
      BY <2>8
    <3> HIDE DEF p
    <3> QED BY <1>1, <2>1, <2>9, <3>1, CharBack DEF u
  <2>11. f[p] = <<CharAt(b, p)>> \o f[p + SizeAt(b, p)]
    <3>1. p \in 1..(Len(b) + 3) /\ ~(p > Len(b))
      <4> DEFINE i == Len(a)
                 j == Len(u)
                 n == Len(z)
      <4>1. i \in Nat /\ j \in 1..3 /\ n \in Nat /\ Len(b) = i + (j + n)
        BY <2>5, <2>8
      <4> HIDE DEF i, j, n
      <4>2. i + 1 \in 1..(Len(b) + 3) /\ ~(i + 1 > Len(b))
        BY <4>1
      <4> QED BY <4>2 DEF i
    <3> QED BY <1>2, <3>1 DEF ReadFrom
  <2>12. p + SizeAt(b, p) = Len(a \o u) + 1
    <3>1. p + Len(u) = Len(a \o u) + 1
      BY <2>8
    <3> QED BY <2>10, <3>1
  <2>13. f[p] = <<c>> \o r
    BY <2>4, <2>10, <2>11, <2>12
  <2> QED BY <2>1, <2>13 DEF a
<1>5. Nat \subseteq T
  <2> HIDE DEF T
  <2> QED BY <1>3, <1>4, NatInd
<1>6. f[1] = L
  <2>1. /\ <<>> \in Seq(Units) /\ L = <<>> \o L /\ Len(L) \in Nat
        /\ Len(Encoded(<<>>)) + 1 = 1
    BY EncodedAppend, EmptySeq, ConcatEmptySeq, LenProperties
  <2>2. Goal(<<>>, L)
    <3> HIDE DEF Goal
    <3> QED BY <1>5, <2>1
  <2> QED BY <2>1, <2>2
<1> QED BY <1>2, <1>6

(* No character of a line is lost (report.c:26-43).                        *)
LEMMA LineNotLost == TextInv => NothingLost
BY LinePrinted, ReadBack DEF NothingLost

(* A byte is what is left of the character it has become.                  *)
LEMMA LowestByte ==
  ASSUME NEW v \in Bytes
  PROVE  SignExtend(v) % 256 = v
<1>1. v \in Nat /\ v < 256
  BY DEF Bytes
<1>2. (65280 + v) % 256 = v /\ v % 256 = v
  BY <1>1
<1> QED BY <1>2 DEF SignExtend

(* The bytes of an ANSI text can be read back (report.c:92-94).            *)
LEMMA LineBytesKept == TextInv => BytesKept
<1> SUFFICES ASSUME TextInv, pass = "done", NEW k \in DOMAIN call.fmt,
                    Prints(k, {"z"}), Arg(k) # Null, ToZero(Arg(k).text) # <<>>
             PROVE  [i \in DOMAIN Decoded(out[k]) |-> Decoded(out[k])[i] % 256]
                      = ToZero(Arg(k).text)
  BY DEF BytesKept
<1> DEFINE z == ToZero(Arg(k).text)
           D == Decoded(out[k])
           n == Len(z)
<1>1. z \in Seq(Bytes)
  <2>1. Arg(k) \in Arguments("z")
    BY PiecePrinted DEF Prints
  <2>2. Arg(k) \in Pointers(AnsiTexts)
    BY <2>1 DEF Arguments
  <2> QED BY <2>2, PointerType
<1>2. D = Chars(z)
  <2>1. Chars(z) # <<>> /\ Chars(z) \in Seq(Units)
    BY <1>1, CharsType, EmptySeq
  <2>2. Directive("z", Arg(k)) = Chars(z)
    BY <2>1 DEF Directive, Narrow, Wide, Printed
  <2>3. out[k] = Encoded(Chars(z))
    BY <2>2, PiecePrinted DEF Prints
  <2> QED BY <2>1, <2>3, ReadBack
<1> HIDE DEF z, D
<1>3. /\ n \in Nat /\ Len(Chars(z)) = n /\ Chars(z) \in Seq(Units)
      /\ \A i \in 1..n : Chars(z)[i] = SignExtend(z[i]) /\ z[i] \in Bytes
  BY <1>1, CharsType, ElementOfSeq, LenProperties
<1>4. DOMAIN D = 1..n
  BY <1>2, <1>3, LenProperties
<1>5. \A i \in 1..n : D[i] % 256 = z[i]
  BY <1>2, <1>3, LowestByte
<1>6. z = [i \in 1..n |-> z[i]]
  BY <1>1, LenProperties
<1> HIDE DEF n
<1>7. [i \in 1..n |-> D[i] % 256] = z
  BY <1>5, <1>6
<1> QED BY <1>4, <1>7 DEF z, D

-----------------------------------------------------------------------------
(***************************************************************************)
(* The value of digits.                                                    *)
(***************************************************************************)
(* What the fold of Value says of the places s when f says what it is of   *)
(* fewer places.                                                           *)
FoldStep(a, d, f, s) ==
  IF s = {} THEN 0 ELSE a * f[s \ {Max(s)}] + Digit(d[Max(s)])

(* f is that fold of the places up to n.                                   *)
FoldUpTo(a, d, f, n) == \A s \in SUBSET (1..n) : f[s] = FoldStep(a, d, f, s)

(* The greatest of some numbers up to n + 1 that n + 1 is one of.          *)
LEMMA MaxLast ==
  ASSUME NEW n \in Nat, NEW s \in SUBSET (1..(n + 1)), n + 1 \in s
  PROVE  Max(s) = n + 1 /\ s # {} /\ s \ {n + 1} \in SUBSET (1..n)
<1>1. \A y \in s : n + 1 >= y
  OBVIOUS
<1>2. \A x \in s : (\A y \in s : x >= y) => x = n + 1
  OBVIOUS
<1>3. Max(s) \in s /\ \A y \in s : Max(s) >= y
  BY <1>1 DEF Max
<1>4. Max(s) = n + 1
  BY <1>2, <1>3
<1>5. s # {} /\ s \ {n + 1} \in SUBSET (1..n)
  OBVIOUS
<1> QED BY <1>4, <1>5

(* The function that the fold is defined with exists.                      *)
LEMMA FoldExists ==
  ASSUME NEW a, NEW d, NEW n \in Nat
  PROVE  \E f : f = [s \in SUBSET (1..n) |-> FoldStep(a, d, f, s)]
<1> DEFINE D == SUBSET (1..n)
           T == {m \in Nat : m <= n => \E f : FoldUpTo(a, d, f, m)}
<1>1. 0 \in T
  <2> DEFINE f == [s \in {{}} |-> 0]
  <2>1. FoldUpTo(a, d, f, 0)
    BY DEF FoldUpTo, FoldStep
  <2> QED BY <2>1
<1>2. ASSUME NEW m \in Nat, m \in T PROVE m + 1 \in T
  <2> SUFFICES ASSUME m + 1 <= n PROVE \E f : FoldUpTo(a, d, f, m + 1)
    OBVIOUS
  <2>1. PICK f : FoldUpTo(a, d, f, m)
    BY <1>2
  <2> DEFINE E == SUBSET (1..(m + 1))
             g == [s \in E |-> IF m + 1 \in s
                                 THEN a * f[s \ {m + 1}] + Digit(d[m + 1])
                                 ELSE f[s]]
  <2>2. ASSUME NEW s \in E PROVE g[s] = FoldStep(a, d, g, s)
    <3>1. CASE m + 1 \in s
      <4>1. Max(s) = m + 1 /\ s # {} /\ s \ {m + 1} \in SUBSET (1..m)
        BY <3>1, MaxLast
      <4>2. s \ {m + 1} \in E /\ m + 1 \notin s \ {m + 1}
        BY <4>1
      <4>3. g[s \ {m + 1}] = f[s \ {m + 1}]
        BY <4>2, Zenon
      <4>4. g[s] = a * f[s \ {m + 1}] + Digit(d[m + 1])
        BY <3>1, Zenon
      <4> HIDE DEF g
      <4> QED BY <4>1, <4>3, <4>4 DEF FoldStep
    <3>2. CASE m + 1 \notin s
      <4>1. s \in SUBSET (1..m)
        BY <3>2
      <4>2. f[s] = FoldStep(a, d, f, s)
        BY <2>1, <4>1 DEF FoldUpTo
      <4>3. g[s] = f[s]
        BY <3>2
      <4>4. g[s \ {Max(s)}] = f[s \ {Max(s)}]
        <5>1. s \ {Max(s)} \in E /\ m + 1 \notin s \ {Max(s)}
          BY <3>2
        <5> QED BY <5>1
      <4> HIDE DEF g
      <4> QED BY <4>2, <4>3, <4>4 DEF FoldStep
    <3> QED BY <3>1, <3>2
  <2> HIDE DEF g
  <2>3. FoldUpTo(a, d, g, m + 1)
    BY <2>2 DEF FoldUpTo
  <2> QED BY <2>3
<1>3. Nat \subseteq T
  <2> HIDE DEF T
  <2> QED BY <1>1, <1>2, NatInd
<1>4. PICK f : FoldUpTo(a, d, f, n)
  BY <1>3
<1> DEFINE h == [s \in D |-> f[s]]
<1>5. ASSUME NEW s \in D PROVE h[s] = FoldStep(a, d, h, s)
  <2>1. f[s] = FoldStep(a, d, f, s) /\ h[s] = f[s]
    BY <1>4 DEF FoldUpTo
  <2>2. s \ {Max(s)} \in D
    OBVIOUS
  <2>3. h[s \ {Max(s)}] = f[s \ {Max(s)}]
    BY <2>2
  <2> HIDE DEF h
  <2> QED BY <2>1, <2>3 DEF FoldStep
<1>6. h = [s \in D |-> h[s]]
  OBVIOUS
<1> HIDE DEF h
<1>7. h = [s \in D |-> FoldStep(a, d, h, s)]
  BY <1>5, <1>6
<1> QED BY <1>7, Zenon

(* Value(a, d) is the fold of all places.                                     *)
LEMMA ValueFold ==
  ASSUME NEW a, NEW d, NEW n \in Nat, DOMAIN d = 1..n
  PROVE  \E f : Value(a, d) = f[1..n] /\ FoldUpTo(a, d, f, n)
<1> DEFINE f == CHOOSE g : g = [s \in SUBSET (1..n) |->
                  IF s = {} THEN 0
                  ELSE a * g[s \ {Max(s)}] + Digit(d[Max(s)])]
<1>1. f = [s \in SUBSET (1..n) |->
             IF s = {} THEN 0 ELSE a * f[s \ {Max(s)}] + Digit(d[Max(s)])]
  <2>1. \E g : g = [s \in SUBSET (1..n) |->
             IF s = {} THEN 0 ELSE a * g[s \ {Max(s)}] + Digit(d[Max(s)])]
    <3>1. PICK g : g = [s \in SUBSET (1..n) |-> FoldStep(a, d, g, s)]
      BY FoldExists
    <3>2. g = [s \in SUBSET (1..n) |->
             IF s = {} THEN 0 ELSE a * g[s \ {Max(s)}] + Digit(d[Max(s)])]
      BY <3>1, Zenon DEF FoldStep
    <3> QED BY <3>2
  <2> QED BY <2>1, Zenon
<1>2. Value(a, d) = f[1..n]
  BY Zenon DEF Value, FoldLeft, MapThenFoldSet
<1> HIDE DEF f
<1>3. FoldUpTo(a, d, f, n)
  BY <1>1, Zenon DEF FoldUpTo, FoldStep
<1> QED BY <1>2, <1>3

(* One more place multiplies the value of the others by the base.          *)
LEMMA FoldNext ==
  ASSUME NEW a, NEW d, NEW f, NEW n \in Nat, FoldUpTo(a, d, f, n)
  PROVE  /\ f[1..0] = 0
         /\ \A k \in Nat : k < n => f[1..(k + 1)] = a * f[1..k] + Digit(d[k + 1])
<1>1. f[1..0] = 0
  <2>1. 1..0 = {} /\ 1..0 \in SUBSET (1..n)
    OBVIOUS
  <2> QED BY <2>1 DEF FoldUpTo, FoldStep
<1>2. ASSUME NEW k \in Nat, k < n
      PROVE  f[1..(k + 1)] = a * f[1..k] + Digit(d[k + 1])
  <2> DEFINE s == 1..(k + 1)
  <2>1. s \in SUBSET (1..n) /\ s \ {k + 1} = 1..k /\ s # {}
    BY <1>2
  <2>2. Max(s) = k + 1
    <3>1. s \in SUBSET (1..(k + 1)) /\ k + 1 \in s
      OBVIOUS
    <3> HIDE DEF s
    <3> QED BY <3>1, MaxLast
  <2> HIDE DEF s
  <2>3. f[s] = a * f[s \ {k + 1}] + Digit(d[k + 1])
    BY <2>1, <2>2 DEF FoldUpTo, FoldStep
  <2> QED BY <2>1, <2>3 DEF s
<1> QED BY <1>1, <1>2

(* A further digit multiplies the value by the base and adds its own.      *)
LEMMA ValueAppend ==
  ASSUME NEW a
  PROVE  /\ Value(a, <<>>) = 0
         /\ \A d \in Seq(48..57), x \in 48..57 :
              Value(a, Append(d, x)) = a * Value(a, d) + Digit(x)
<1>1. Value(a, <<>>) = 0
  <2>1. DOMAIN <<>> = 1..0
    OBVIOUS
  <2>2. PICK f : Value(a, <<>>) = f[1..0] /\ FoldUpTo(a, <<>>, f, 0)
    BY <2>1, ValueFold
  <2> QED BY <2>2, FoldNext
<1>2. ASSUME NEW d \in Seq(48..57), NEW x \in 48..57
      PROVE  Value(a, Append(d, x)) = a * Value(a, d) + Digit(x)
  <2> DEFINE n == Len(d)
             e == Append(d, x)
  <2>1. /\ n \in Nat /\ DOMAIN d = 1..n /\ DOMAIN e = 1..(n + 1)
        /\ e[n + 1] = x /\ \A i \in 1..n : e[i] = d[i]
    OBVIOUS
  <2> HIDE DEF n, e
  <2>2. PICK f : Value(a, d) = f[1..n] /\ FoldUpTo(a, d, f, n)
    BY <2>1, ValueFold
  <2>3. PICK g : Value(a, e) = g[1..(n + 1)] /\ FoldUpTo(a, e, g, n + 1)
    <3>1. n + 1 \in Nat
      BY <2>1
    <3> QED BY <2>1, <3>1, ValueFold
  <2>4. /\ f[1..0] = 0
        /\ \A k \in Nat : k < n => f[1..(k + 1)] = a * f[1..k] + Digit(d[k + 1])
    <3>1. n \in Nat
      BY <2>1
    <3> QED BY <2>2, <3>1, FoldNext
  <2>5. /\ g[1..0] = 0
        /\ \A k \in Nat :
             k < n + 1 => g[1..(k + 1)] = a * g[1..k] + Digit(e[k + 1])
    <3>1. n + 1 \in Nat
      BY <2>1
    <3> QED BY <2>3, <3>1, FoldNext
  <2> DEFINE T == {k \in Nat : k <= n => f[1..k] = g[1..k]}
  <2>6. 0 \in T
    BY <2>4, <2>5
  <2>7. ASSUME NEW k \in Nat, k \in T PROVE k + 1 \in T
    <3> SUFFICES ASSUME k + 1 <= n PROVE f[1..(k + 1)] = g[1..(k + 1)]
      OBVIOUS
    <3>1. k < n /\ k < n + 1 /\ k + 1 \in 1..n /\ k <= n
      BY <2>1
    <3>2. f[1..k] = g[1..k] /\ e[k + 1] = d[k + 1]
      BY <2>1, <2>7, <3>1
    <3>3. f[1..(k + 1)] = a * f[1..k] + Digit(d[k + 1])
      BY <2>4, <3>1
    <3>4. g[1..(k + 1)] = a * g[1..k] + Digit(e[k + 1])
      BY <2>5, <3>1
    <3> QED BY <3>2, <3>3, <3>4
  <2>8. Nat \subseteq T
    <3> HIDE DEF T
    <3> QED BY <2>6, <2>7, NatInd
  <2>9. g[1..n] = f[1..n]
    BY <2>1, <2>8
  <2>10. g[1..(n + 1)] = a * g[1..n] + Digit(e[n + 1])
    <3>1. n < n + 1
      BY <2>1
    <3> QED BY <2>1, <2>5, <3>1
  <2> QED BY <2>1, <2>2, <2>3, <2>9, <2>10 DEF e
<1> QED BY <1>1, <1>2

(* The number that is printed is the value of its digits.                  *)
LEMMA DecimalValue ==
  ASSUME NEW n \in Nat
  PROVE  Value(10, Decimal[n]) = n
<1> DEFINE N == {k \in Nat : \A j \in 0..k : Value(10, Decimal[j]) = j}
<1>1. ASSUME NEW j \in Nat, j >= 10 => Value(10, Decimal[j \div 10]) = j \div 10
      PROVE  Value(10, Decimal[j]) = j
  <2>1. CASE j < 10
    <3>1. Decimal[j] = <<48 + j>>
      <4>1. Decimal[j] = DigitsFrom(Decimal, j)
        BY DecimalDigits
      <4> QED BY <2>1, <4>1 DEF DigitsFrom
    <3>2. 48 + j \in 48..57
      BY <2>1
    <3>3. <<48 + j>> = Append(<<>>, 48 + j) /\ <<>> \in Seq(48..57)
      BY EmptySeq
    <3>4. Value(10, Append(<<>>, 48 + j)) = 10 * Value(10, <<>>) + Digit(48 + j)
      BY <3>2, <3>3, ValueAppend
    <3>5. 10 * 0 + Digit(48 + j) = j
      BY <3>2 DEF Digit
    <3> QED BY <3>1, <3>3, <3>4, <3>5, ValueAppend
  <2>2. CASE j >= 10
    <3> DEFINE q == j \div 10
               x == 48 + (j % 10)
    <3>1. Decimal[j] = Append(Decimal[q], x)
      <4>1. Decimal[j] = DigitsFrom(Decimal, j) /\ ~(j < 10)
        BY <2>2, DecimalDigits
      <4> QED BY <4>1 DEF DigitsFrom
    <3>2. x \in 48..57 /\ q \in Nat /\ 10 * q + Digit(x) = j
      BY DEF Digit
    <3>3. Value(10, Decimal[q]) = q
      BY <1>1, <2>2
    <3> HIDE DEF q, x
    <3>4. Decimal[q] \in Seq(48..57)
      BY <3>2, DecimalType
    <3>5. Value(10, Append(Decimal[q], x)) = 10 * Value(10, Decimal[q]) + Digit(x)
      BY <3>2, <3>4, ValueAppend
    <3> QED BY <3>1, <3>2, <3>3, <3>5
  <2> QED BY <2>1, <2>2
<1>2. 0 \in N
  BY <1>1
<1>3. ASSUME NEW k \in Nat, k \in N PROVE k + 1 \in N
  <2> SUFFICES ASSUME NEW j \in 0..(k + 1) PROVE Value(10, Decimal[j]) = j
    OBVIOUS
  <2>1. j >= 10 => j \div 10 \in 0..k
    OBVIOUS
  <2> QED BY <1>1, <1>3, <2>1
<1>4. Nat \subseteq N
  <2> HIDE DEF N
  <2> QED BY <1>2, <1>3, NatInd
<1>5. n \in N /\ n \in 0..n
  BY <1>4
<1> QED BY <1>5

(* Multiples of the width of a word do not show in it.                     *)
LEMMA ModMultiple ==
  ASSUME NEW w \in Nat \ {0}, NEW q \in Nat, NEW r \in 0..(w - 1)
  PROVE  (w * q + r) % w = r
OBVIOUS

(* What "%u" prints of a signed word of w values on a machine whose int    *)
(* has v values.                                                           *)
LEMMA ModPromoted ==
  ASSUME NEW w \in Nat \ {0}, NEW v \in Nat, w < v, v % w = 0,
         NEW r \in 0..(w - 1)
  PROVE  (v - w + r) % w = r
<1> DEFINE q == v \div w
<1>1. v = w * q + (v % w) /\ q \in Nat
  OBVIOUS
<1> HIDE DEF q
<1>2. v = w * q /\ q # 0
  BY <1>1
<1>3. q - 1 \in Nat /\ w * (q - 1) = w * q - w
  BY <1>1, <1>2
<1>4. v - w + r = w * (q - 1) + r
  BY <1>2, <1>3
<1>5. (w * (q - 1) + r) % w = r
  BY <1>3, ModMultiple
<1> QED BY <1>4, <1>5

(* A further hexadecimal digit.                                            *)
LEMMA NextPlace ==
  ASSUME NEW n \in Nat, NEW i \in 1..7
  PROVE  n \div Places[i + 1] = 16 * (n \div Places[i]) + ((n \div Places[i + 1]) % 16)
<1>1. /\ Places[1 + 1] = 256 * 65536 /\ Places[2 + 1] = 16 * 65536
      /\ Places[3 + 1] = 65536 /\ Places[4 + 1] = 4096 /\ Places[5 + 1] = 256
      /\ Places[6 + 1] = 16 /\ Places[7 + 1] = 1
      /\ Places[1] = 4096 * 65536 /\ Places[2] = 256 * 65536
      /\ Places[3] = 16 * 65536 /\ Places[4] = 65536 /\ Places[5] = 4096
      /\ Places[6] = 256 /\ Places[7] = 16
  BY SMT DEF Places
<1>2. CASE i = 1
  BY <1>1, <1>2, SMT
<1>3. CASE i = 2
  BY <1>1, <1>3, SMT
<1>4. CASE i = 3
  BY <1>1, <1>4, SMT
<1>5. CASE i = 4
  BY <1>1, <1>5, SMT
<1>6. CASE i = 5
  BY <1>1, <1>6, SMT
<1>7. CASE i = 6
  BY <1>1, <1>7, SMT
<1>8. CASE i = 7
  BY <1>1, <1>8, SMT
<1> QED BY <1>2, <1>3, <1>4, <1>5, <1>6, <1>7, <1>8, SMT

(* Every place is a positive number, and the last one is 1.                *)
LEMMA PlacesType ==
  /\ \A i \in 1..8 : Places[i] \in Nat \ {0}
  /\ Places[1] = 4096 * 65536
  /\ Places[8] = 1
<1>1. ASSUME NEW i \in 1..8 PROVE Places[i] \in Nat \ {0}
  BY SMT DEF Places
<1>2. Places[1] = 4096 * 65536 /\ Places[8] = 1
  BY SMT DEF Places
<1> QED BY <1>1, <1>2, SMT

(* Eight hexadecimal digits are enough for a number and give it back.      *)
LEMMA HexadecimalValue ==
  ASSUME NEW n \in Nat, n \div (4096 * 65536) < 16
  PROVE  Value(16, Hexadecimal(n)) = n
<1> DEFINE h == Hexadecimal(n)
           q(i) == n \div Places[i]
<1>1. DOMAIN h = 1..8
  BY DEF Hexadecimal
<1>2. ASSUME NEW i \in 1..8 PROVE Digit(h[i]) = q(i) % 16
  <2>1. h[i] = HexChar(q(i) % 16)
    BY DEF Hexadecimal
  <2>2. Places[i] \in Nat \ {0}
    BY PlacesType, SMT
  <2>3. q(i) % 16 \in 0..15
    BY <2>2, SMT
  <2> HIDE DEF q, h
  <2> QED BY <2>1, <2>3, HexDigit
<1>3. /\ q(1) \in Nat /\ q(1) % 16 = q(1) /\ q(8) = n
      /\ \A i \in 1..7 : q(i + 1) = 16 * q(i) + (q(i + 1) % 16)
  <2>1. Places[1] = 4096 * 65536 /\ Places[8] = 1
    BY PlacesType, SMT
  <2>2. q(1) \in Nat /\ q(1) < 16 /\ q(8) = n
    BY <2>1, SMT
  <2>3. q(1) % 16 = q(1)
    <3> HIDE DEF q
    <3> QED BY <2>2
  <2>4. \A i \in 1..7 : q(i + 1) = 16 * q(i) + (q(i + 1) % 16)
    BY NextPlace, SMT
  <2> QED BY <2>2, <2>3, <2>4, SMT
<1> DEFINE s == [i \in 0..8 |-> IF i = 0 THEN 0 ELSE q(i)]
<1>4. s[0] = 0 /\ s[8] = n /\ \A i \in 0..7 : s[i + 1] = 16 * s[i] + Digit(h[i + 1])
  <2> HIDE DEF q, h
  <2>1. ASSUME NEW i \in 0..7 PROVE s[i + 1] = 16 * s[i] + Digit(h[i + 1])
    <3>1. i + 1 \in 1..8 /\ i + 1 \in 0..8 /\ i + 1 # 0 /\ i \in 0..8
      OBVIOUS
    <3>2. s[i + 1] = q(i + 1) /\ Digit(h[i + 1]) = q(i + 1) % 16
      BY <1>2, <3>1
    <3>3. CASE i = 0
      <4>1. s[i] = 0 /\ q(i + 1) = q(1)
        BY <3>3
      <4> HIDE DEF s
      <4> QED BY <1>3, <3>2, <4>1
    <3>4. CASE i # 0
      <4>1. s[i] = q(i) /\ i \in 1..7
        BY <3>4
      <4> HIDE DEF s
      <4> QED BY <1>3, <3>2, <4>1
    <3> QED BY <3>3, <3>4
  <2>2. s[0] = 0 /\ s[8] = n
    BY <1>3
  <2> QED BY <2>1, <2>2
<1> HIDE DEF h, q, s
<1>5. PICK f : Value(16, h) = f[1..8] /\ FoldUpTo(16, h, f, 8)
  <2> DEFINE m == 8
  <2>1. m \in Nat /\ DOMAIN h = 1..m
    BY <1>1
  <2> HIDE DEF m
  <2>2. \E f : Value(16, h) = f[1..m] /\ FoldUpTo(16, h, f, m)
    BY <2>1, ValueFold
  <2> QED BY <2>2 DEF m
<1>6. /\ f[1..0] = 0
      /\ \A k \in Nat : k < 8 => f[1..(k + 1)] = 16 * f[1..k] + Digit(h[k + 1])
  BY <1>5, FoldNext
<1> DEFINE T == {k \in Nat : k <= 8 => f[1..k] = s[k]}
<1>7. 0 \in T
  BY <1>4, <1>6
<1>8. ASSUME NEW k \in Nat, k \in T PROVE k + 1 \in T
  <2> SUFFICES ASSUME k + 1 <= 8 PROVE f[1..(k + 1)] = s[k + 1]
    OBVIOUS
  <2>1. k < 8 /\ k \in 0..7 /\ f[1..k] = s[k]
    BY <1>8
  <2>2. f[1..(k + 1)] = 16 * f[1..k] + Digit(h[k + 1])
    BY <1>6, <2>1
  <2>3. s[k + 1] = 16 * s[k] + Digit(h[k + 1])
    BY <1>4, <2>1
  <2> QED BY <2>1, <2>2, <2>3
<1>9. Nat \subseteq T
  <2> HIDE DEF T
  <2> QED BY <1>7, <1>8, NatInd
<1>10. f[1..8] = n
  <2>1. 8 \in T
    <3> HIDE DEF T
    <3> QED BY <1>9
  <2> QED BY <1>4, <2>1
<1> QED BY <1>5, <1>10 DEF h

(* Digits are printed as they are, and there is one at least.              *)
LEMMA DigitsPrinted ==
  ASSUME NEW n \in Nat
  PROVE  /\ Encoded(Decimal[n]) = Decimal[n] /\ Decimal[n] \in Seq(0..127)
         /\ Decimal[n][1] \in 48..57
         /\ Hexadecimal(n) \in Seq(0..127) /\ Encoded(Hexadecimal(n)) = Hexadecimal(n)
<1>1. Decimal[n] \in Seq(48..57) /\ 48..57 \subseteq 0..127
  BY DecimalType
<1>2. Decimal[n] \in Seq(0..127)
  BY <1>1, SeqMonotonic
<1>3. Decimal[n] # <<>>
  <2>1. Decimal[n] = DigitsFrom(Decimal, n)
    BY DecimalDigits
  <2>2. CASE n < 10
    BY <2>1, <2>2 DEF DigitsFrom
  <2>3. CASE ~(n < 10)
    <3>1. n \div 10 \in Nat /\ 48 + (n % 10) \in 48..57
      OBVIOUS
    <3>2. Decimal[n \div 10] \in Seq(48..57)
      BY <3>1, DecimalType
    <3>3. Decimal[n] = Append(Decimal[n \div 10], 48 + (n % 10))
      BY <2>1, <2>3 DEF DigitsFrom
    <3> QED BY <3>1, <3>2, <3>3
  <2> QED BY <2>2, <2>3
<1>4. Decimal[n][1] \in 48..57
  <2> DEFINE d == Decimal[n]
  <2> HIDE DEF d
  <2>1. d \in Seq(48..57) /\ d # <<>>
    BY <1>1, <1>3 DEF d
  <2>2. d[1] \in 48..57
    BY <2>1
  <2> QED BY <2>2 DEF d
<1>5. Hexadecimal(n) \in Seq(0..127)
  <2> DEFINE X(i) == HexChar((n \div Places[i]) % 16)
  <2>1. ASSUME NEW i \in 1..8 PROVE X(i) \in 0..127
    <3>1. Places[i] \in Nat \ {0}
      BY PlacesType, SMT
    <3>2. (n \div Places[i]) % 16 \in 0..15
      BY <3>1, SMT
    <3>3. HexChar((n \div Places[i]) % 16) \in 48..57 \cup 97..102
      BY <3>2, HexDigit
    <3> QED BY <3>3
  <2>2. Hexadecimal(n) = [i \in 1..8 |-> X(i)]
    BY Zenon DEF Hexadecimal
  <2> DEFINE B == 0..127
  <2> HIDE DEF X, B
  <2>3. Hexadecimal(n) \in [1..8 -> B]
    BY <2>1, <2>2, Zenon DEF B
  <2>4. Hexadecimal(n) \in Seq(B)
    BY <2>3, FunctionIsSeq
  <2> QED BY <2>4 DEF B
<1> QED BY <1>2, <1>4, <1>5, EncodedAscii

(* A negative int gives its value back, and so does any other.             *)
LEMMA SignedValue ==
  ASSUME NEW bits \in 0..(Width32 - 1)
  PROVE  LET o == Encoded(Signed(bits)) IN
         bits = IF o[1] = Minus THEN Width32 - Value(10, Tail(o)) ELSE Value(10, o)
<1>1. Width32 \in Nat /\ bits \in Nat /\ Width32 - bits \in Nat
  BY FormatAssumption
<1>2. CASE 2 * bits < Width32
  <2>1. Signed(bits) = Decimal[bits]
    BY <1>2 DEF Signed
  <2>2. Encoded(Decimal[bits]) = Decimal[bits] /\ Decimal[bits][1] \in 48..57
    BY <1>1, DigitsPrinted
  <2>3. Decimal[bits][1] # Minus
    BY <2>2 DEF Minus
  <2> QED BY <1>1, <2>1, <2>2, <2>3, DecimalValue
<1>3. CASE ~(2 * bits < Width32)
  <2> DEFINE d == Decimal[Width32 - bits]
             o == <<Minus>> \o d
  <2>1. Signed(bits) = o
    BY <1>3 DEF Signed
  <2>2. d \in Seq(0..127) /\ Value(10, d) = Width32 - bits
    BY <1>1, DigitsPrinted, DecimalValue
  <2> HIDE DEF d
  <2>3. <<Minus>> \in Seq(0..127)
    BY DEF Minus
  <2>4. o \in Seq(0..127)
    BY <2>2, <2>3, ConcatProperties
  <2>5. Encoded(o) = o
    BY <2>4, EncodedAscii
  <2>6. o[1] = Minus /\ Tail(o) = d
    BY <2>2 DEF Minus
  <2>7. Width32 - (Width32 - bits) = bits
    BY <1>1
  <2> HIDE DEF o
  <2> QED BY <2>1, <2>2, <2>5, <2>6, <2>7
<1> QED BY <1>2, <1>3

(* A number that is printed gives its value back                           *)
(* (report.c:138-150,227-240).                                             *)
LEMMA LineNumbers == TextInv => NumbersRecoverable
<1> SUFFICES ASSUME TextInv, pass = "done", NEW k \in DOMAIN call.fmt,
                    Takes(call.fmt[k])
             PROVE  LET d == call.fmt[k].letter
                        a == Arg(k)
                        t == Target(a)
                        n == Value(10, out[k])
                    IN  /\ d = "u" => n = a.bits
                        /\ d = "x" => Value(16, out[k]) = a.bits
                        /\ d = "d" => a.bits = IF out[k][1] = Minus
                                          THEN Width32 - Value(10, Tail(out[k]))
                                          ELSE n
                        /\ d = "v" /\ a # Null /\ t.vt \in Numeric =>
                             /\ n % Width(t.vt) = t.bits
                             /\ n # t.bits => /\ t.vt \in Wordwise
                                              /\ 2 * t.bits >= Width16
  BY DEF NumbersRecoverable, Prints
<1> DEFINE d == call.fmt[k].letter
           a == Arg(k)
           t == Target(a)
<1>1. a \in Arguments(d) /\ out[k] = Encoded(Directive(d, a))
  BY PiecePrinted
<1> HIDE DEF a, d
<1>2. Width32 \in Nat /\ (Width32 - 1) \div (4096 * 65536) < 16
  BY FormatAssumption, SMT
<1>3. ASSUME d \in {"d", "u", "x"} PROVE a.bits \in 0..(Width32 - 1) /\ a.bits \in Nat
  <2>1. a.bits \in 0..(Width32 - 1)
    BY <1>1, <1>3 DEF Arguments
  <2> QED BY <1>2, <2>1
<1>4. CASE d = "u"
  <2>1. Directive(d, a) = Decimal[a.bits]
    BY <1>4 DEF Directive
  <2> QED BY <1>1, <1>3, <1>4, <2>1, DigitsPrinted, DecimalValue DEF a, d
<1>5. CASE d = "x"
  <2>1. Directive(d, a) = Hexadecimal(a.bits)
    BY <1>5 DEF Directive
  <2>2. a.bits \div (4096 * 65536) < 16
    BY <1>2, <1>3, <1>5, SMT
  <2> QED BY <1>1, <1>3, <1>5, <2>1, <2>2, DigitsPrinted, HexadecimalValue DEF a, d
<1>6. CASE d = "d"
  <2>1. Directive(d, a) = Signed(a.bits)
    BY <1>6 DEF Directive
  <2> QED BY <1>1, <1>3, <1>6, <2>1, SignedValue DEF a, d
<1>7. CASE d = "v" /\ a # Null /\ t.vt \in Numeric
  <2> DEFINE n == Unsigned(t.vt, t.bits)
             w == Width(t.vt)
             r == t.bits
  <2>1. a \in Variants
    BY <1>1, <1>7 DEF Arguments
  <2>2. t \in Scalars
    BY <2>1, TargetType
  <2>3. /\ n \in Nat /\ w \in Nat \ {0} /\ r \in 0..(w - 1)
        /\ n # r => /\ t.vt \in Wordwise /\ 2 * r >= Width16
                    /\ w = Width16 /\ n = Width32 - Width16 + r
    BY <1>7, <2>2, UnsignedType
  <2>4. Directive(d, a) = Decimal[n]
    <3>1. Directive(d, a) = _report_variant(a)
      BY <1>7 DEF Directive
    <3> HIDE DEF t
    <3>2. _report_variant(a) = Decimal[Unsigned(t.vt, t.bits)]
      BY <1>7 DEF _report_variant, t, Numeric, Bytewise, Wordwise, Longwise, Quadwise
    <3> QED BY <3>1, <3>2
  <2>5. out[k] = Decimal[n] /\ Value(10, out[k]) = n
    BY <1>1, <2>3, <2>4, DigitsPrinted, DecimalValue
  <2>6. n % w = r
    <3> HIDE DEF n, w, r
    <3>1. CASE n = r
      <4>1. r % w = r
        BY <2>3
      <4> QED BY <3>1, <4>1
    <3>2. CASE n # r
      <4>1. /\ Width16 \in Nat /\ Width32 \in Nat /\ Width16 < Width32
            /\ Width32 % Width16 = 0
        BY FormatAssumption
      <4>2. w = Width16 /\ n = Width32 - w + r
        BY <2>3, <3>2
      <4>3. (Width32 - w + r) % w = r
        BY <2>3, <4>1, <4>2, ModPromoted
      <4> QED BY <4>2, <4>3
    <3> QED BY <3>1, <3>2
  <2> QED BY <1>7, <2>3, <2>5, <2>6 DEF a, d
<1>8. \/ d = "u" \/ d = "x" \/ d = "d"
      \/ d = "v" /\ a # Null /\ t.vt \in Numeric
      \/ ~(d \in {"u", "x", "d"}) /\ ~(d = "v" /\ a # Null /\ t.vt \in Numeric)
  OBVIOUS
<1>9. CASE ~(d \in {"u", "x", "d"}) /\ ~(d = "v" /\ a # Null /\ t.vt \in Numeric)
  BY <1>9 DEF a, d
<1> QED BY <1>4, <1>5, <1>6, <1>7, <1>8, <1>9

(* A line can be read back: characters, the bytes of ANSI text and the     *)
(* values of variants (report.c:26-43,92-94,129-170).                      *)
THEOREM LineReadBackHolds == TextSpec => []LineReadBack
<1>1. TextInv => LineReadBack
  BY SafeLines, LineNotLost, LineBytesKept, LineNumbers DEF LineReadBack
<1> QED BY <1>1, TextInvHolds, PTL

-----------------------------------------------------------------------------
(***************************************************************************)
(* A row of a hexdump.                                                     *)
(***************************************************************************)
Columns == 0..127

(* What the text column shows of a byte. *)
Shown(b) == IF Visible(b) THEN b ELSE Dot

(* The columns of the bytes do not meet, but for the one behind a byte,    *)
(* where the next one begins (report.c:322-324).                           *)
LEMMA ColumnsApart ==
  ASSUME NEW i \in 0..15
  PROVE  /\ HexAt(i) \in 6..52 /\ BlankAt(i) = HexAt(i) + 3
         /\ AsciiAt(i) = 57 + i
         /\ HexAt(i) \notin {30, 55, 56} /\ HexAt(i) + 1 \notin {30, 55, 56}
         /\ HexAt(0) = 6
         /\ \A j \in 0..15 : j < i => HexAt(j) + 2 < HexAt(i)
         /\ \A j \in 0..15 : j > i => HexAt(i) + 3 <= HexAt(j)
BY DEF HexAt, BlankAt, AsciiAt

(* r is buf with byte b in the columns of byte i.                          *)
ByteStored(r, buf, i, b) ==
  /\ DOMAIN r = Columns
  /\ r[HexAt(i)] = HexChar(b \div 16)
  /\ r[HexAt(i) + 1] = HexChar(b % 16)
  /\ r[HexAt(i) + 2] = Blank
  /\ r[HexAt(i) + 3] = Blank
  /\ r[57 + i] = Shown(b)
  /\ \A k \in Columns :
       k \notin HexAt(i)..(HexAt(i) + 3) /\ k # 57 + i => r[k] = buf[k]

(* What one turn of the inner loop stores, and that it stores nothing      *)
(* else: the NUL of sprintf() is covered (report.c:322-324).               *)
LEMMA PutByteStores ==
  ASSUME NEW buf, DOMAIN buf = Columns, NEW i \in 0..15, NEW b
  PROVE  ByteStored(PutByte(buf, i, b), buf, i, b)
<1> DEFINE p == HexAt(i)
           s == Sprintf(buf, p, ByteText(b))
           r == PutByte(buf, i, b)
<1>1. p \in 6..52 /\ BlankAt(i) = p + 3 /\ AsciiAt(i) = 57 + i
  BY ColumnsApart
<1>2. r = [s EXCEPT ![BlankAt(i)] = Blank, ![AsciiAt(i)] = Shown(b)]
  BY DEF PutByte, Shown
<1> HIDE DEF r
<1>3. /\ Len(ByteText(b)) = 3 /\ ByteText(b)[1] = HexChar(b \div 16)
      /\ ByteText(b)[2] = HexChar(b % 16) /\ ByteText(b)[3] = Blank
  BY DEF ByteText
<1> HIDE DEF p
<1>4. s = [k \in Columns |->
             IF k \in p..(p + 2) THEN ByteText(b)[k - p + 1]
             ELSE IF k = p + 3 THEN NUL ELSE buf[k]]
  <2>1. p + Len(ByteText(b)) - 1 = p + 2 /\ p + Len(ByteText(b)) = p + 3
    BY <1>1, <1>3
  <2> QED BY <2>1 DEF Sprintf
<1> HIDE DEF s
<1>5. DOMAIN s = Columns
  BY <1>4
<1>6. r = [k \in Columns |-> IF k = 57 + i THEN Shown(b)
                             ELSE IF k = p + 3 THEN Blank ELSE s[k]]
  BY <1>1, <1>2, <1>5
<1>7. /\ p \in Columns /\ p + 1 \in Columns /\ p + 2 \in Columns
      /\ p + 3 \in Columns /\ 57 + i \in Columns
      /\ 57 + i \notin p..(p + 3)
  BY <1>1 DEF Columns
<1>8. s[p] = HexChar(b \div 16) /\ s[p + 1] = HexChar(b % 16) /\ s[p + 2] = Blank
  <2>1. /\ p - p + 1 = 1 /\ (p + 1) - p + 1 = 2 /\ (p + 2) - p + 1 = 3
        /\ p \in p..(p + 2) /\ p + 1 \in p..(p + 2) /\ p + 2 \in p..(p + 2)
    BY <1>1
  <2> QED BY <1>3, <1>4, <1>7, <2>1
<1>9. ASSUME NEW k \in Columns, k \notin p..(p + 3), k # 57 + i
      PROVE  r[k] = buf[k]
  <2>1. k \notin p..(p + 2) /\ k # p + 3
    BY <1>1, <1>9 DEF Columns
  <2> QED BY <1>4, <1>6, <1>9, <2>1
<1>10. /\ DOMAIN r = Columns /\ r[p] = s[p] /\ r[p + 1] = s[p + 1]
       /\ r[p + 2] = s[p + 2] /\ r[p + 3] = Blank /\ r[57 + i] = Shown(b)
  <2>1. /\ p # 57 + i /\ p + 1 # 57 + i /\ p + 2 # 57 + i /\ p + 3 # 57 + i
        /\ p # p + 3 /\ p + 1 # p + 3 /\ p + 2 # p + 3
    BY <1>1
  <2> QED BY <1>6, <1>7, <2>1
<1> QED BY <1>8, <1>9, <1>10 DEF p, r, ByteStored

(* A digit is printed as itself, and so is a character of the text column. *)
LEMMA PrintedChars ==
  /\ \A x \in 0..15 : HexChar(x) \in 32..126 /\ Digit(HexChar(x)) = x
  /\ \A b \in Bytes : Shown(b) \in 32..126 /\ Shown(b) \in {b, Dot}
  /\ Blank \in 32..126
BY DEF HexChar, Digit, Bytes, Shown, Visible, Dot, Blank

(* The first m bytes of f are in the buffer of the row at offset o, and    *)
(* the columns of the others are blank.  Before the first byte, the NUL    *)
(* behind the offset is in the first column.                               *)
Holds(buf, o, f, m) ==
  /\ DOMAIN buf = Columns
  /\ \A k \in 1..4 : buf[k - 1] = OffsetText(o)[k]
  /\ \A j \in 0..15 : j < m =>
       /\ buf[HexAt(j)] = HexChar(f[j + 1] \div 16)
       /\ buf[HexAt(j) + 1] = HexChar(f[j + 1] % 16)
       /\ buf[57 + j] = Shown(f[j + 1])
  /\ \A j \in 0..15 : j >= m =>
       /\ buf[HexAt(j)] = Blank \/ (m = 0 /\ j = 0)
       /\ buf[HexAt(j) + 1] = Blank
  /\ \A k \in 0..70 : buf[k] \in 32..126 \/ (m = 0 /\ k = 6)

(* The digits of an offset.                                                *)
LEMMA OffsetDigits ==
  ASSUME NEW o \in Nat
  PROVE  /\ Len(OffsetText(o)) = 6
         /\ \A k \in 1..6 : OffsetText(o)[k] \in 32..126
         /\ o < 65536 => 4096 * Digit(OffsetText(o)[1])
                         + 256 * Digit(OffsetText(o)[2])
                         + 16 * Digit(OffsetText(o)[3])
                         + Digit(OffsetText(o)[4]) = o
<1> DEFINE a == (o \div 4096) % 16
           b == (o \div 256) % 16
           c == (o \div 16) % 16
           d == o % 16
           t == OffsetText(o)
<1>1. /\ a \in 0..15 /\ b \in 0..15 /\ c \in 0..15 /\ d \in 0..15
      /\ o < 65536 => 4096 * a + 256 * b + 16 * c + d = o
  OBVIOUS
<1>2. t = <<HexChar(a), HexChar(b), HexChar(c), HexChar(d), Blank, Blank>>
  BY DEF OffsetText
<1> HIDE DEF a, b, c, d, t
<1>3. /\ Len(t) = 6 /\ t[1] = HexChar(a) /\ t[2] = HexChar(b)
      /\ t[3] = HexChar(c) /\ t[4] = HexChar(d) /\ t[5] = Blank /\ t[6] = Blank
  BY <1>2
<1>4. /\ HexChar(a) \in 32..126 /\ HexChar(b) \in 32..126
      /\ HexChar(c) \in 32..126 /\ HexChar(d) \in 32..126
      /\ Digit(HexChar(a)) = a /\ Digit(HexChar(b)) = b
      /\ Digit(HexChar(c)) = c /\ Digit(HexChar(d)) = d
  BY <1>1, PrintedChars
<1>5. \A k \in 1..6 : t[k] \in 32..126
  BY <1>3, <1>4, PrintedChars
<1> QED BY <1>1, <1>3, <1>4, <1>5 DEF t

(* The buffer before the first byte (report.c:319-320).                    *)
LEMMA HoldsFirst ==
  ASSUME NEW o \in Nat, NEW f
  PROVE  Holds(Sprintf([k \in Columns |-> Blank], 0, OffsetText(o)), o, f, 0)
<1> DEFINE t == OffsetText(o)
           r == Sprintf([k \in Columns |-> Blank], 0, t)
<1>1. Len(t) = 6 /\ \A k \in 1..6 : t[k] \in 32..126
  BY OffsetDigits
<1> HIDE DEF t
<1>2. r = [k \in Columns |-> IF k \in 0..5 THEN t[k + 1]
                             ELSE IF k = 6 THEN NUL ELSE Blank]
  <2>1. /\ 0 + Len(t) - 1 = 5 /\ 0 + Len(t) = 6
        /\ \A k \in Columns : k - 0 + 1 = k + 1
    BY <1>1 DEF Columns
  <2> QED BY <2>1 DEF Sprintf
<1> HIDE DEF r
<1>3. \A k \in 1..4 : r[k - 1] = t[k]
  <2> SUFFICES ASSUME NEW k \in 1..4 PROVE r[k - 1] = t[k]
    OBVIOUS
  <2>1. k - 1 \in Columns /\ k - 1 \in 0..5 /\ (k - 1) + 1 = k
    BY DEF Columns
  <2> QED BY <1>2, <2>1
<1>4. \A j \in 0..15 : /\ r[HexAt(j)] = Blank \/ j = 0
                       /\ r[HexAt(j) + 1] = Blank
  <2> SUFFICES ASSUME NEW j \in 0..15
               PROVE  (r[HexAt(j)] = Blank \/ j = 0) /\ r[HexAt(j) + 1] = Blank
    OBVIOUS
  <2>1. HexAt(j) \in 6..52 /\ (j > 0 => HexAt(j) > 6)
    BY DEF HexAt
  <2>2. /\ HexAt(j) \in Columns /\ HexAt(j) + 1 \in Columns
        /\ HexAt(j) \notin 0..5 /\ HexAt(j) + 1 \notin 0..6
        /\ j # 0 => HexAt(j) # 6
    BY <2>1 DEF Columns
  <2> QED BY <1>2, <2>2
<1>5. ASSUME NEW k \in 0..70, k # 6 PROVE r[k] \in 32..126
  <2>1. k \in Columns
    BY DEF Columns
  <2>2. CASE k \in 0..5
    <3>1. r[k] = t[k + 1] /\ k + 1 \in 1..6
      BY <1>2, <2>1, <2>2
    <3> QED BY <1>1, <3>1
  <2>3. CASE k \notin 0..5
    <3>1. r[k] = Blank
      BY <1>2, <1>5, <2>1, <2>3
    <3> QED BY <3>1, PrintedChars
  <2> QED BY <2>2, <2>3
<1>6. DOMAIN r = Columns
  BY <1>2
<1>7. Holds(r, o, f, 0)
  BY <1>3, <1>4, <1>5, <1>6 DEF Holds, t
<1> QED BY <1>7 DEF r, t

(* Each turn adds its byte and spoils no other column (report.c:321-325).  *)
LEMMA HoldsNext ==
  ASSUME NEW buf, NEW o, NEW f, NEW m \in 0..15, f[m + 1] \in Bytes,
         Holds(buf, o, f, m)
  PROVE  Holds(PutByte(buf, m, f[m + 1]), o, f, m + 1)
<1> DEFINE b == f[m + 1]
           r == PutByte(buf, m, b)
           p == HexAt(m)
<1>1. DOMAIN buf = Columns
  BY DEF Holds
<1>2. /\ DOMAIN r = Columns
      /\ r[p] = HexChar(b \div 16) /\ r[p + 1] = HexChar(b % 16)
      /\ r[p + 2] = Blank /\ r[p + 3] = Blank
      /\ r[57 + m] = Shown(b)
      /\ \A k \in Columns : k \notin p..(p + 3) /\ k # 57 + m => r[k] = buf[k]
  <2>1. ByteStored(r, buf, m, b)
    BY <1>1, PutByteStores
  <2> QED BY <2>1 DEF ByteStored
<1>3. p \in 6..52
  BY ColumnsApart
<1>4. b \div 16 \in 0..15 /\ b % 16 \in 0..15
  BY DEF Bytes
<1> HIDE DEF r
<1>5. \A k \in 1..4 : r[k - 1] = OffsetText(o)[k]
  <2> SUFFICES ASSUME NEW k \in 1..4 PROVE r[k - 1] = OffsetText(o)[k]
    OBVIOUS
  <2>1. k - 1 \in Columns /\ k - 1 \notin p..(p + 3) /\ k - 1 # 57 + m
    BY <1>3 DEF Columns
  <2>2. buf[k - 1] = OffsetText(o)[k]
    BY DEF Holds
  <2> QED BY <1>2, <2>1, <2>2
<1>6. ASSUME NEW j \in 0..15, j < m + 1
      PROVE  /\ r[HexAt(j)] = HexChar(f[j + 1] \div 16)
             /\ r[HexAt(j) + 1] = HexChar(f[j + 1] % 16)
             /\ r[57 + j] = Shown(f[j + 1])
  <2>1. CASE j = m
    BY <1>2, <2>1
  <2>2. CASE j # m
    <3>1. j < m
      BY <1>6, <2>2
    <3>2. HexAt(j) \in 6..52 /\ HexAt(j) + 2 < p
      BY <3>1, ColumnsApart
    <3>3. /\ HexAt(j) \in Columns /\ HexAt(j) + 1 \in Columns /\ 57 + j \in Columns
          /\ HexAt(j) \notin p..(p + 3) /\ HexAt(j) + 1 \notin p..(p + 3)
          /\ 57 + j \notin p..(p + 3) /\ 57 + j # 57 + m
          /\ HexAt(j) # 57 + m /\ HexAt(j) + 1 # 57 + m
      BY <1>3, <3>1, <3>2 DEF Columns
    <3>4. /\ buf[HexAt(j)] = HexChar(f[j + 1] \div 16)
          /\ buf[HexAt(j) + 1] = HexChar(f[j + 1] % 16)
          /\ buf[57 + j] = Shown(f[j + 1])
      BY <3>1 DEF Holds
    <3> QED BY <1>2, <3>3, <3>4
  <2> QED BY <2>1, <2>2
<1>7. ASSUME NEW j \in 0..15, j >= m + 1
      PROVE  r[HexAt(j)] = Blank /\ r[HexAt(j) + 1] = Blank
  <2>1. j > m /\ j # 0
    BY <1>7
  <2>2. HexAt(j) \in 6..52 /\ p + 3 <= HexAt(j)
    BY <2>1, ColumnsApart
  <2>3. buf[HexAt(j)] = Blank /\ buf[HexAt(j) + 1] = Blank
    <3>1. j >= m
      BY <2>1
    <3> QED BY <2>1, <3>1 DEF Holds
  <2>4. /\ HexAt(j) \in Columns /\ HexAt(j) + 1 \in Columns
        /\ HexAt(j) = p + 3 \/ HexAt(j) \notin p..(p + 3)
        /\ HexAt(j) + 1 \notin p..(p + 3)
        /\ HexAt(j) # 57 + m /\ HexAt(j) + 1 # 57 + m
    BY <1>3, <2>2 DEF Columns
  <2> QED BY <1>2, <2>3, <2>4
<1>8. ASSUME NEW k \in 0..70 PROVE r[k] \in 32..126
  <2>1. k \in Columns
    BY DEF Columns
  <2>2. CASE k \in p..(p + 3)
    <3>1. k = p \/ k = p + 1 \/ k = p + 2 \/ k = p + 3
      BY <1>3, <2>2
    <3>2. /\ HexChar(b \div 16) \in 32..126 /\ HexChar(b % 16) \in 32..126
          /\ Blank \in 32..126
      BY <1>4, PrintedChars
    <3> QED BY <1>2, <3>1, <3>2
  <2>3. CASE k = 57 + m
    <3>1. Shown(b) \in 32..126
      BY PrintedChars
    <3> QED BY <1>2, <2>3, <3>1
  <2>4. CASE k \notin p..(p + 3) /\ k # 57 + m
    <3>1. r[k] = buf[k]
      BY <1>2, <2>1, <2>4
    <3>2. buf[k] \in 32..126 \/ k = 6
      BY DEF Holds
    <3>3. k = 6 => m # 0
      <4>1. HexAt(0) = 6
        BY DEF HexAt
      <4>2. p = 6 => 6 \in p..(p + 3)
        OBVIOUS
      <4> QED BY <2>4, <4>1, <4>2
    <3>4. buf[k] \in 32..126
      BY <3>2, <3>3 DEF Holds
    <3> QED BY <3>1, <3>4
  <2> QED BY <2>2, <2>3, <2>4
<1>9. Holds(r, o, f, m + 1)
  BY <1>2, <1>5, <1>6, <1>7, <1>8 DEF Holds
<1> QED BY <1>9 DEF r

(* The buffer of a row before and after each of its bytes.                 *)
Turn(g, o, f, i) ==
  IF i = 0 THEN Sprintf([k \in 0..127 |-> Blank], 0, OffsetText(o))
  ELSE PutByte(g[i - 1], i - 1, f[i])

Turns(g, o, f, n) == g = [i \in 0..n |-> Turn(g, o, f, i)]

(* The function that RowBuffer is defined with exists.                     *)
LEMMA TurnsExist ==
  ASSUME NEW o, NEW f, NEW n \in Nat
  PROVE  \E g : Turns(g, o, f, n)
<1> DEFINE G(g, m) == \A i \in 0..m : g[i] = Turn(g, o, f, i)
           T == {m \in Nat : \E g : G(g, m)}
<1>1. 0 \in T
  <2> DEFINE g == [i \in {0} |-> Turn([j \in {} |-> 0], o, f, 0)]
  <2>1. g[0] = Turn(g, o, f, 0)
    BY DEF Turn
  <2> HIDE DEF g
  <2>2. G(g, 0)
    BY <2>1
  <2> QED BY <2>2
<1>2. ASSUME NEW m \in Nat, m \in T PROVE m + 1 \in T
  <2>1. PICK g : G(g, m)
    BY <1>2
  <2> DEFINE h == [i \in 0..(m + 1) |-> IF i = m + 1 THEN Turn(g, o, f, i)
                                        ELSE g[i]]
  <2>2. ASSUME NEW i \in 0..(m + 1) PROVE h[i] = Turn(h, o, f, i)
    <3>1. i # 0 => h[i - 1] = g[i - 1]
      <4> SUFFICES ASSUME i # 0 PROVE h[i - 1] = g[i - 1]
        OBVIOUS
      <4>1. i - 1 \in 0..(m + 1) /\ i - 1 # m + 1
        OBVIOUS
      <4> QED BY <4>1
    <3>2. h[i] = Turn(g, o, f, i)
      <4>1. i # m + 1 => i \in 0..m
        OBVIOUS
      <4> QED BY <2>1, <4>1
    <3> HIDE DEF h
    <3> QED BY <3>1, <3>2 DEF Turn
  <2> HIDE DEF h
  <2>3. G(h, m + 1)
    BY <2>2
  <2> HIDE DEF G
  <2> QED BY <2>3
<1>3. Nat \subseteq T
  <2> HIDE DEF T
  <2> QED BY <1>1, <1>2, NatInd
<1>4. PICK g : G(g, n)
  BY <1>3
<1> DEFINE h == [i \in 0..n |-> g[i]]
<1>5. ASSUME NEW i \in 0..n PROVE h[i] = Turn(h, o, f, i)
  <2>1. i # 0 => h[i - 1] = g[i - 1]
    <3> SUFFICES ASSUME i # 0 PROVE i - 1 \in 0..n
      OBVIOUS
    <3> QED OBVIOUS
  <2>2. h[i] = g[i] /\ g[i] = Turn(g, o, f, i)
    BY <1>4
  <2> HIDE DEF h
  <2> QED BY <2>1, <2>2 DEF Turn
<1>6. h = [i \in 0..n |-> h[i]]
  OBVIOUS
<1> HIDE DEF h
<1>7. h = [i \in 0..n |-> Turn(h, o, f, i)]
  BY <1>5, <1>6
<1> QED BY <1>7, Zenon DEF Turns

(* The last four stores of a row (report.c:326-327).                       *)
Ended(buf) ==
  [buf EXCEPT ![8 * 3 + 6] = Blank, ![16 * 3 + 7] = Blank,
              ![16 * 3 + 8] = Blank, ![EndOfRow] = NUL]

(* The bytes of a row are all in its buffer when it is ended.              *)
LEMMA RowHolds ==
  ASSUME NEW o \in Nat, NEW n \in 1..16, NEW f \in [1..n -> Bytes], Len(f) = n
  PROVE  \E buf : Holds(buf, o, f, n) /\ RowBuffer(o, f) = Ended(buf)
<1> DEFINE filled == CHOOSE g : g = [i \in 0..Len(f) |->
                 IF i = 0 THEN Sprintf([k \in 0..127 |-> Blank], 0, OffsetText(o))
                 ELSE PutByte(g[i - 1], i - 1, f[i])]
<1>1. RowBuffer(o, f) = Ended(filled[n])
  BY Zenon DEF RowBuffer, Ended
<1>2. filled = [i \in 0..Len(f) |->
                 IF i = 0 THEN Sprintf([k \in 0..127 |-> Blank], 0, OffsetText(o))
                 ELSE PutByte(filled[i - 1], i - 1, f[i])]
  <2>1. \E g : g = [i \in 0..Len(f) |->
                 IF i = 0 THEN Sprintf([k \in 0..127 |-> Blank], 0, OffsetText(o))
                 ELSE PutByte(g[i - 1], i - 1, f[i])]
    <3>1. Len(f) \in Nat
      OBVIOUS
    <3>2. \E g : Turns(g, o, f, Len(f))
      BY <3>1, TurnsExist
    <3> QED BY <3>2, Zenon DEF Turn, Turns
  <2> QED BY <2>1, Zenon
<1> HIDE DEF filled
<1>3. \A i \in 0..n : filled[i] = Turn(filled, o, f, i)
  BY <1>2, Zenon DEF Turn
<1> DEFINE T == {m \in Nat : m <= n => Holds(filled[m], o, f, m)}
<1>4. 0 \in T
  <2>1. 0 \in 0..n
    OBVIOUS
  <2>2. filled[0] = Sprintf([k \in Columns |-> Blank], 0, OffsetText(o))
    BY <1>3, <2>1, Zenon DEF Turn, Columns
  <2> QED BY <2>2, HoldsFirst
<1>5. ASSUME NEW m \in Nat, m \in T PROVE m + 1 \in T
  <2> SUFFICES ASSUME m + 1 <= n PROVE Holds(filled[m + 1], o, f, m + 1)
    OBVIOUS
  <2>1. m \in 0..15 /\ m + 1 \in 0..n /\ m + 1 # 0 /\ (m + 1) - 1 = m
        /\ m + 1 \in 1..n /\ m <= n
    OBVIOUS
  <2>2. filled[m + 1] = PutByte(filled[m], m, f[m + 1])
    BY <1>3, <2>1 DEF Turn
  <2>3. Holds(filled[m], o, f, m) /\ f[m + 1] \in Bytes
    BY <1>5, <2>1
  <2> QED BY <2>1, <2>2, <2>3, HoldsNext
<1>6. Nat \subseteq T
  <2> HIDE DEF T
  <2> QED BY <1>4, <1>5, NatInd
<1>7. Holds(filled[n], o, f, n)
  BY <1>6
<1> QED BY <1>1, <1>7

(* The text in front of its first zero (strlen, report.c:92).              *)
LEMMA FirstZero ==
  ASSUME NEW t, DOMAIN t = 1..128, NEW z \in 1..128, t[z] = 0,
         \A j \in 1..(z - 1) : t[j] # 0
  PROVE  ToZero(t) = SubSeq(t, 1, z - 1)
<1> DEFINE First(i) == t[i] = 0 /\ \A j \in 1..(i - 1) : t[j] # 0
           c == CHOOSE i \in 1..128 : First(i)
<1>1. First(z)
  OBVIOUS
<1>2. c \in 1..128 /\ First(c)
  <2> HIDE DEF First
  <2> QED BY <1>1
<1>3. c = z
  <2> HIDE DEF c
  <2>1. c < z => t[c] # 0
    BY <1>2
  <2>2. z < c => t[z] # 0
    BY <1>2
  <2> QED BY <1>2, <2>1, <2>2
<1>4. ToZero(t) = SubSeq(t, 1, c - 1)
  BY Zenon DEF ToZero
<1> HIDE DEF c
<1> QED BY <1>3, <1>4

(* A character of a line of the dump. *)
Plain(x) == x \in Int /\ 32 <= x /\ x <= 126

(* Plain as a range. *)
LEMMA PlainRange == \A x : Plain(x) <=> x \in 32..126
BY DEF Plain

(* The line that is printed of an ended row (report.c:326-329).            *)
LEMMA RowLine ==
  ASSUME NEW e, e[71] = NUL,
         \A k \in Int : 0 <= k /\ k <= 70 => Plain(e[k])
  PROVE  RowText(e) = [k \in 1..71 |-> e[k - 1]]
<1> DEFINE t == [k \in 1..128 |-> e[k - 1]]
           s == SubSeq(t, 1, 71)
<1>1. RowText(e) = Printed(Chars(ToZero(t)), FALSE)
  BY DEF RowText, Directive, Narrow, Wide, Null
<1>2. DOMAIN t = 1..128
  OBVIOUS
<1>3. \A j \in Int : 1 <= j /\ j <= 128 => t[j] = e[j - 1]
  OBVIOUS
<1>4. s = [k \in 1..71 |-> t[k]]
  BY DEF s
<1> HIDE DEF t, s
<1>5. ASSUME NEW j \in Int, 1 <= j, j <= 71
      PROVE  t[j] = e[j - 1] /\ Plain(e[j - 1])
  <2>1. j - 1 \in Int /\ 0 <= j - 1 /\ j - 1 <= 70 /\ j <= 128
    BY <1>5
  <2> QED BY <1>3, <1>5, <2>1
<1>6. ToZero(t) = s
  <2>1. 72 \in 1..128 /\ 72 - 1 = 71
    OBVIOUS
  <2>2. t[72] = 0
    BY <1>3 DEF NUL
  <2>3. ASSUME NEW j \in 1..71 PROVE t[j] # 0
    <3>1. j \in Int /\ 1 <= j /\ j <= 71
      OBVIOUS
    <3> QED BY <1>5, <3>1 DEF Plain
  <2> HIDE <1>3, <1>5
  <2>4. \A j \in 1..(72 - 1) : t[j] # 0
    BY <2>1, <2>3, Zenon
  <2>5. ToZero(t) = SubSeq(t, 1, 72 - 1)
    BY <1>2, <2>1, <2>2, <2>4, FirstZero, ZenonT(60)
  <2> QED BY <2>1, <2>5, Zenon DEF s
<1>7. ASSUME NEW k \in 1..71 PROVE SignExtend(s[k]) = e[k - 1]
  <2>1. s[k] = t[k]
    BY <1>4
  <2>2. k \in Int /\ 1 <= k /\ k <= 71
    OBVIOUS
  <2>3. t[k] = e[k - 1] /\ Plain(e[k - 1])
    BY <1>5, <2>2
  <2> QED BY <2>1, <2>3 DEF Plain, SignExtend
<1>8. Chars(s) = [k \in 1..71 |-> e[k - 1]]
  <2>1. DOMAIN s = 1..71
    BY <1>4, Zenon
  <2> QED BY <1>7, <2>1, Zenon DEF Chars
<1>9. Chars(s) # <<>>
  <2>1. DOMAIN Chars(s) = 1..71
    BY <1>8, Zenon
  <2>2. 1 \in 1..71 /\ 1 \notin DOMAIN <<>>
    OBVIOUS
  <2> QED BY <2>1, <2>2, Zenon
<1> QED BY <1>1, <1>6, <1>8, <1>9, Zenon DEF Printed

(* An offset of four digits, and the one that a line shows. *)
FourDigits(o) == o \in Nat /\ o < 65536

OffsetOf(a, b, c, d) == 4096 * Digit(a) + 256 * Digit(b) + 16 * Digit(c) + Digit(d)

(* The digits of an offset are those of its text (report.c:319).           *)
LEMMA OffsetReads ==
  ASSUME NEW o, FourDigits(o)
  PROVE  OffsetOf(OffsetText(o)[1], OffsetText(o)[2], OffsetText(o)[3],
                  OffsetText(o)[4]) = o
BY OffsetDigits DEF FourDigits, OffsetOf

(* The two digits of a byte. *)
LEMMA ByteHalves ==
  ASSUME NEW b \in Bytes
  PROVE  b \div 16 \in 0..15 /\ b % 16 \in 0..15
         /\ 16 * (b \div 16) + (b % 16) = b
<1>1. b \in Nat /\ b < 256
  BY DEF Bytes
<1> QED BY <1>1

(* The sum of what is printed, where the rows stand: the arithmetic of the *)
(* length, the offset and the pointer (report.c:313,318,330).              *)
LEMMA RowCount ==
  ASSUME NEW w \in Nat, NEW m \in Nat, 16 * m < w
  PROVE  /\ Smaller(w - 16 * m, 16) \in 1..16
         /\ 16 * m + Smaller(w - 16 * m, 16) = Smaller(16 * (m + 1), w)
         /\ Smaller(16 * m, w) = 16 * m
BY DEF Smaller

(* A row is printed while there are bytes left (report.c:318).             *)
LEMMA BytesLeft ==
  ASSUME NEW w \in Nat, NEW m \in Nat, NEW c \in Int, c > 0 => w = c,
         c - 16 * m > 0
  PROVE  16 * m < w /\ c - 16 * m = w - 16 * m
OBVIOUS

(* A line of 71 characters. *)
LEMMA LineOf71 ==
  /\ \A R \in [1..71 -> Int] : R \in Seq(Int) /\ Len(R) = 71
  /\ \A R \in Seq(Int) : Len(R) = 71 =>
       \A k \in DOMAIN R : k \in Int /\ 1 <= k /\ k <= 71
<1>1. ASSUME NEW n \in Nat, NEW R \in [1..n -> Int]
      PROVE  R \in Seq(Int) /\ Len(R) = n
  OBVIOUS
<1>2. ASSUME NEW n \in Nat, NEW R \in Seq(Int), Len(R) = n, NEW k \in DOMAIN R
      PROVE  k \in Int /\ 1 <= k /\ k <= n
  BY <1>2
<1>3. 71 \in Nat
  OBVIOUS
<1> QED BY <1>1, <1>2, <1>3, Zenon

(* What can be read from the line R of a row of the n bytes f at offset o. *)
RowRight(R, o, f, n) ==
  /\ R \in Seq(Int) /\ Len(R) = 71
  /\ OffsetOf(R[1], R[2], R[3], R[4]) = o
  /\ \A k \in Int : 1 <= k /\ k <= 71 => Plain(R[k])
  /\ \A i \in 0..15 : i < n =>
       16 * Digit(R[HexAt(i) + 1]) + Digit(R[HexAt(i) + 2]) = f[i + 1]
  /\ \A i \in 0..13 : i < n => R[58 + i] \in {f[i + 1], Dot}
  /\ \A i \in 0..15 : i >= n =>
       R[HexAt(i) + 1] = Blank /\ R[HexAt(i) + 2] = Blank

(* What the last stores leave of a row: they end the line at column 71 and *)
(* touch no digit and no character of the text column that is printed.     *)
LEMMA EndedKeeps ==
  ASSUME NEW buf, NEW o, NEW f, NEW n \in 1..16, Holds(buf, o, f, n)
  PROVE  /\ Ended(buf)[71] = NUL
         /\ \A k \in Int : 0 <= k /\ k <= 70 =>
              /\ Plain(Ended(buf)[k])
              /\ k # 30 /\ k # 55 /\ k # 56 => Ended(buf)[k] = buf[k]
<1> DEFINE e == Ended(buf)
<1>1. DOMAIN buf = Columns
  BY DEF Holds
<1>2. \A k \in Int : 0 <= k /\ k <= 71 => k \in Columns
  BY DEF Columns
<1>3. e = [k \in Columns |-> IF k = 71 THEN NUL
                             ELSE IF k = 30 \/ k = 55 \/ k = 56 THEN Blank
                             ELSE buf[k]]
  <2>1. e = [buf EXCEPT ![30] = Blank, ![55] = Blank, ![56] = Blank, ![71] = NUL]
    BY DEF Ended, EndOfRow
  <2> HIDE DEF e
  <2> QED BY <1>1, <1>2, <2>1
<1> HIDE DEF e
<1>4. ASSUME NEW k \in Int, 0 <= k, k <= 70 PROVE Plain(buf[k])
  <2>1. k \in 0..70
    BY <1>4
  <2>2. \A j \in 0..70 : buf[j] \in 32..126
    <3>1. n # 0
      OBVIOUS
    <3> QED BY <3>1, Zenon DEF Holds
  <2>3. buf[k] \in 32..126
    BY <2>1, <2>2, Zenon
  <2> QED BY <2>3, PlainRange, Zenon
<1>5. ASSUME NEW k \in Int, 0 <= k, k <= 70
      PROVE  Plain(e[k]) /\ (k # 30 /\ k # 55 /\ k # 56 => e[k] = buf[k])
  <2>1. k \in Columns /\ k # 71
    BY <1>2, <1>5
  <2> QED BY <1>3, <1>4, <1>5, <2>1 DEF Plain, Blank
<1>6. e[71] = NUL
  BY <1>2, <1>3
<1> QED BY <1>5, <1>6 DEF e

(* A row reads as its bytes, whatever they are (report.c:317-330).         *)
LEMMA RowReads ==
  ASSUME NEW o, FourDigits(o), NEW n \in 1..16, NEW f \in [1..n -> Bytes]
  PROVE  RowRight(RowText(RowBuffer(o, f)), o, f, n)
<1> DEFINE e == RowBuffer(o, f)
           R == RowText(e)
<1>0. Len(f) = n /\ o \in Nat
  <2>1. o \in Nat
    BY DEF FourDigits
  <2> QED BY <2>1
<1>1. PICK buf : Holds(buf, o, f, n) /\ e = Ended(buf)
  BY <1>0, RowHolds
<1>2. e[71] = NUL
  BY <1>1, EndedKeeps
<1>3. ASSUME NEW k \in Int, 0 <= k, k <= 70
      PROVE  Plain(e[k]) /\ (k # 30 /\ k # 55 /\ k # 56 => e[k] = buf[k])
  BY <1>1, <1>3, EndedKeeps
<1> HIDE DEF e
<1>4. R = [k \in 1..71 |-> e[k - 1]]
  BY <1>2, <1>3, RowLine
<1> HIDE DEF R
<1>5. ASSUME NEW k \in Int, 1 <= k, k <= 71 PROVE R[k] = e[k - 1]
  <2>1. k \in 1..71
    BY <1>5
  <2> QED BY <1>4, <2>1, Zenon
<1>6. ASSUME NEW k \in Int, 1 <= k, k <= 71 PROVE Plain(R[k])
  <2>1. k - 1 \in Int /\ 0 <= k - 1 /\ k - 1 <= 70
    BY <1>6
  <2>2. Plain(e[k - 1]) /\ R[k] = e[k - 1]
    BY <1>3, <1>5, <1>6, <2>1
  <2> QED BY <2>2
<1>7. ASSUME NEW k \in Int, 0 <= k, k <= 70, k # 30, k # 55, k # 56
      PROVE  R[k + 1] = buf[k]
  <2>1. k + 1 \in Int /\ 1 <= k + 1 /\ k + 1 <= 71 /\ (k + 1) - 1 = k
    BY <1>7
  <2>2. R[k + 1] = e[k] /\ e[k] = buf[k]
    BY <1>3, <1>5, <1>7, <2>1
  <2> QED BY <2>2
<1>8. OffsetOf(R[1], R[2], R[3], R[4]) = o
  <2>1. \A k \in 1..4 : buf[k - 1] = OffsetText(o)[k]
    BY <1>1, Zenon DEF Holds
  <2>2. R[1] = buf[0] /\ R[2] = buf[1] /\ R[3] = buf[2] /\ R[4] = buf[3]
    BY <1>7
  <2>3. /\ R[1] = OffsetText(o)[1] /\ R[2] = OffsetText(o)[2]
        /\ R[3] = OffsetText(o)[3] /\ R[4] = OffsetText(o)[4]
    BY <2>1, <2>2
  <2> QED BY <2>3, OffsetReads
<1>9. ASSUME NEW i \in 0..15
      PROVE  R[HexAt(i) + 1] = buf[HexAt(i)] /\ R[HexAt(i) + 2] = buf[HexAt(i) + 1]
  <2> DEFINE p == HexAt(i)
  <2>1. p \in 6..52 /\ p \notin {30, 55, 56} /\ p + 1 \notin {30, 55, 56}
    BY ColumnsApart
  <2> HIDE DEF p
  <2>2. /\ p \in Int /\ 0 <= p /\ p <= 70 /\ p # 30 /\ p # 55 /\ p # 56
        /\ p + 1 \in Int /\ 0 <= p + 1 /\ p + 1 <= 70
        /\ p + 1 # 30 /\ p + 1 # 55 /\ p + 1 # 56 /\ (p + 1) + 1 = p + 2
    BY <2>1
  <2>3. R[p + 1] = buf[p] /\ R[(p + 1) + 1] = buf[p + 1]
    BY <1>7, <2>2
  <2> QED BY <2>2, <2>3 DEF p
<1>10. ASSUME NEW i \in 0..15, i < n
       PROVE  16 * Digit(R[HexAt(i) + 1]) + Digit(R[HexAt(i) + 2]) = f[i + 1]
  <2>1. f[i + 1] \in Bytes
    <3>1. i + 1 \in 1..n
      BY <1>10
    <3> QED BY <3>1
  <2> DEFINE x == f[i + 1] \div 16
             y == f[i + 1] % 16
  <2>2. x \in 0..15 /\ y \in 0..15 /\ 16 * x + y = f[i + 1]
    BY <2>1, ByteHalves, Zenon
  <2>3. buf[HexAt(i)] = HexChar(x) /\ buf[HexAt(i) + 1] = HexChar(y)
    BY <1>1, <1>10, Zenon DEF Holds
  <2>4. R[HexAt(i) + 1] = HexChar(x) /\ R[HexAt(i) + 2] = HexChar(y)
    BY <1>9, <2>3, Zenon
  <2> HIDE DEF x, y
  <2>5. Digit(HexChar(x)) = x /\ Digit(HexChar(y)) = y
    BY <2>2, PrintedChars, Zenon
  <2> QED BY <2>2, <2>4, <2>5
<1>11. ASSUME NEW i \in 0..13, i < n PROVE R[58 + i] \in {f[i + 1], Dot}
  <2>1. f[i + 1] \in Bytes
    <3>1. i + 1 \in 1..n
      BY <1>11
    <3> QED BY <3>1
  <2>2. i \in 0..15
    OBVIOUS
  <2>3. buf[57 + i] = Shown(f[i + 1])
    BY <1>1, <1>11, <2>2, Zenon DEF Holds
  <2>4. /\ 57 + i \in Int /\ 0 <= 57 + i /\ 57 + i <= 70
        /\ 57 + i # 30 /\ 57 + i # 55 /\ 57 + i # 56 /\ (57 + i) + 1 = 58 + i
    OBVIOUS
  <2>5. R[58 + i] = buf[57 + i]
    BY <1>7, <2>4
  <2>6. Shown(f[i + 1]) \in {f[i + 1], Dot}
    BY <2>1, PrintedChars, Zenon
  <2> QED BY <2>3, <2>5, <2>6
<1>12. ASSUME NEW i \in 0..15, i >= n
       PROVE  R[HexAt(i) + 1] = Blank /\ R[HexAt(i) + 2] = Blank
  <2>1. buf[HexAt(i)] = Blank /\ buf[HexAt(i) + 1] = Blank
    <3>1. n # 0
      OBVIOUS
    <3> QED BY <1>1, <1>12, <3>1, Zenon DEF Holds
  <2> QED BY <1>9, <2>1, Zenon
<1>13. R \in Seq(Int) /\ Len(R) = 71
  <2>1. ASSUME NEW k \in 1..71 PROVE e[k - 1] \in Int
    <3>1. k - 1 \in Int /\ 0 <= k - 1 /\ k - 1 <= 70
      OBVIOUS
    <3> QED BY <1>3, <3>1 DEF Plain
  <2>2. R \in [1..71 -> Int]
    BY <1>4, <2>1, Zenon
  <2> QED BY <2>2, LineOf71, Zenon
<1>14. RowRight(R, o, f, n)
  BY <1>6, <1>8, <1>10, <1>11, <1>12, <1>13, Zenon DEF RowRight
<1> QED BY <1>14 DEF R, e

(* The bytes of the row r of a dump. *)
RowBytes(r) == [i \in 1..InRow(r) |-> mem[16 * (r - 1) + i - 1]]

(* The length the rows are printed for, which a negative one leaves below  *)
(* zero.                                                                   *)
CutLength == Smaller(asked, Cap)

(* How far a dump is with m rows printed. *)
Progress(m) ==
  /\ length = CutLength - 16 * m
  /\ offset = 16 * m
  /\ ptr = Smaller(16 * m, Wanted)
  /\ m = 0 \/ 16 * (m - 1) < Wanted

(* What a call of hexdump() keeps true: the length, the offset and the     *)
(* pointer agree with the number of rows, and each row reads as its bytes. *)
HexInv ==
  /\ hpc \in {"idle", "call", "rows", "done"}
  /\ rows \in Seq(Seq(Int))
  /\ hpc = "idle" => rows = <<>>
  /\ hpc # "idle" => mem \in Memories /\ asked \in Int
  /\ hpc = "call" => rows = <<>> /\ length = asked /\ offset = 0 /\ ptr = 0
  /\ hpc \in {"rows", "done"} => header = <<0, asked>> /\ Progress(Len(rows))
  /\ hpc = "done" => length <= 0
  /\ \A r \in 1..Len(rows) :
       RowRight(rows[r], 16 * (r - 1), RowBytes(r), InRow(r))

(* The numbers of a row that is printed are in range: it is not empty, its *)
(* offset has four digits and its bytes are in the memory (report.c:318).  *)
LEMMA RowInRange ==
  ASSUME mem \in Memories, asked \in Int, NEW m \in Nat, 16 * m < Wanted
  PROVE  /\ FourDigits(16 * m) /\ InRow(m + 1) \in 1..16
         /\ InRow(m + 1) = Smaller(Wanted - 16 * m, 16)
         /\ RowBytes(m + 1) \in [1..InRow(m + 1) -> Bytes]
<1> DEFINE n == InRow(m + 1)
<1>0. \A a \in 0..(Cap - 1) : mem[a] \in Bytes
  BY HexdumpAssumption DEF Bytes
<1>1. Wanted \in Nat /\ Wanted <= Cap /\ Cap <= 65536 /\ Cap \in Nat
  BY HexdumpAssumption DEF Wanted, Smaller
<1>2. FourDigits(16 * m)
  BY <1>1 DEF FourDigits
<1>3. n = Smaller(Wanted - 16 * m, 16)
  BY DEF InRow
<1>4. n \in 1..16 /\ 16 * m + n <= Wanted
  BY <1>1, <1>3 DEF Smaller
<1> HIDE DEF n
<1>5. ASSUME NEW i \in 1..n PROVE mem[16 * ((m + 1) - 1) + i - 1] \in Bytes
  <2>1. 16 * ((m + 1) - 1) + i - 1 \in 0..(Cap - 1)
    BY <1>1, <1>4
  <2> QED BY <1>0, <2>1, Zenon
<1>6. RowBytes(m + 1) \in [1..n -> Bytes]
  BY <1>5 DEF RowBytes, n
<1> QED BY <1>2, <1>3, <1>4, <1>6 DEF n

(* A row adds itself to the dump and moves the length, the offset and the  *)
(* pointer on (report.c:317-330).                                          *)
LEMMA RowKeeps == HexInv /\ Row => HexInv'
<1> SUFFICES ASSUME HexInv, Row PROVE HexInv'
  OBVIOUS
<1>0. PICK m : m = Len(rows)
  OBVIOUS
<1> DEFINE n == InRow(m + 1)
           f == RowBytes(m + 1)
           R == RowText(RowBuffer(16 * m, f))
<1>1. /\ hpc = "rows" /\ length > 0 /\ hpc' = hpc /\ mem' = mem
      /\ asked' = asked /\ header' = header
      /\ rows \in Seq(Seq(Int)) /\ mem \in Memories /\ asked \in Int
      /\ header = <<0, asked>> /\ Progress(m)
  BY <1>0 DEF HexInv, Row
<1>2. m \in Nat
  BY <1>0, <1>1
<1>3. /\ CutLength \in Int /\ Wanted \in Nat
      /\ (CutLength > 0 => Wanted = CutLength)
  BY <1>1, HexdumpAssumption DEF CutLength, Wanted, Smaller
<1>4. 16 * m < Wanted /\ ptr = 16 * m /\ offset = 16 * m /\ length = Wanted - 16 * m
  <2>1. length = CutLength - 16 * m /\ offset = 16 * m /\ ptr = Smaller(16 * m, Wanted)
    BY <1>1, Zenon DEF Progress
  <2>2. 16 * m < Wanted /\ CutLength - 16 * m = Wanted - 16 * m
    BY <1>1, <1>2, <1>3, <2>1, BytesLeft
  <2> QED BY <1>2, <1>3, <2>1, <2>2, RowCount, Zenon
<1>5. FourDigits(16 * m) /\ n \in 1..16 /\ f \in [1..n -> Bytes] /\ n = Count(length)
  <2>1. n = Smaller(Wanted - 16 * m, 16) /\ FourDigits(16 * m) /\ n \in 1..16
        /\ f \in [1..n -> Bytes]
    BY <1>1, <1>2, <1>4, RowInRange
  <2> QED BY <1>4, <2>1 DEF Count
<1>6. f = [i \in 1..Count(length) |-> mem[ptr + i - 1]]
  <2>1. (m + 1) - 1 = m
    BY <1>2
  <2> QED BY <1>4, <1>5, <2>1, Zenon DEF RowBytes
<1>7. rows' = Append(rows, R)
  BY <1>4, <1>6 DEF Row
<1>8. RowRight(R, 16 * m, f, n)
  <2> HIDE DEF R, f, n
  <2>1. RowRight(RowText(RowBuffer(16 * m, f)), 16 * m, f, n)
    BY <1>5, RowReads
  <2> QED BY <2>1 DEF R
<1> HIDE DEF R
<1>9. R \in Seq(Int)
  BY <1>8 DEF RowRight
<1>10. /\ rows' \in Seq(Seq(Int)) /\ Len(rows') = m + 1 /\ rows'[m + 1] = R
       /\ \A r \in 1..m : rows'[r] = rows[r]
  BY <1>0, <1>1, <1>7, <1>9, AppendProperties
<1>11. Wanted' = Wanted /\ CutLength' = CutLength
  BY <1>1 DEF Wanted, CutLength
<1>12. \A r : InRow(r)' = InRow(r) /\ RowBytes(r)' = RowBytes(r)
  BY <1>1, <1>11 DEF InRow, RowBytes
<1>13. Progress(m + 1)'
  <2>1. /\ ptr' = ptr + Count(length) /\ offset' = offset + 16
        /\ length' = length - 16
    BY DEF Row
  <2>2. ptr' = Smaller(16 * (m + 1), Wanted)
    <3> QED BY <1>2, <1>3, <1>4, <2>1, RowCount, Zenon DEF Count
  <2>3. offset' = 16 * (m + 1) /\ 16 * ((m + 1) - 1) < Wanted
    <3> QED BY <1>2, <1>4, <2>1
  <2>4. length' = CutLength - 16 * (m + 1)
    <3>1. length = CutLength - 16 * m
      BY <1>1, Zenon DEF Progress
    <3>2. \A c \in Int : (c - 16 * m) - 16 = c - 16 * (m + 1)
      BY <1>2
    <3> QED BY <1>3, <2>1, <3>1, <3>2, Zenon
  <2> QED BY <1>11, <2>2, <2>3, <2>4 DEF Progress
<1>14. ASSUME NEW r \in 1..(m + 1)
       PROVE  RowRight(rows'[r], 16 * (r - 1), RowBytes(r), InRow(r))
  <2>1. CASE r = m + 1
    <3>1. 16 * (r - 1) = 16 * m
      BY <1>2, <2>1
    <3> QED BY <1>8, <1>10, <2>1, <3>1
  <2>2. CASE r # m + 1
    <3>1. r \in 1..m
      BY <1>2, <2>2
    <3>2. RowRight(rows[r], 16 * (r - 1), RowBytes(r), InRow(r))
      BY <1>0, <3>1 DEF HexInv
    <3> QED BY <1>10, <3>1, <3>2
  <2> QED BY <2>1, <2>2
<1>15. /\ hpc' \in {"idle", "call", "rows", "done"} /\ hpc' = "rows"
       /\ mem' \in Memories /\ asked' \in Int /\ header' = <<0, asked'>>
  BY <1>1
<1>16. Progress(Len(rows))'
  BY <1>10, <1>13
<1>17. \A r \in 1..Len(rows') :
         RowRight(rows'[r], 16 * (r - 1), RowBytes(r)', InRow(r)')
  BY <1>10, <1>12, <1>14
<1> QED BY <1>10, <1>15, <1>16, <1>17 DEF HexInv

(* Every step of a dump keeps HexInv, and so does every step of report().  *)
LEMMA HexInvKept == HexInv /\ [TextNext]_<<vars, hexVars>> => HexInv'
<1>1. ASSUME HexInv, UNCHANGED hexVars PROVE HexInv'
  <2>1. /\ hpc' = hpc /\ mem' = mem /\ asked' = asked /\ length' = length
        /\ offset' = offset /\ ptr' = ptr /\ header' = header /\ rows' = rows
    BY <1>1 DEF hexVars
  <2>2. Wanted' = Wanted /\ CutLength' = CutLength
    BY <2>1 DEF Wanted, CutLength
  <2>3. \A r : InRow(r)' = InRow(r) /\ RowBytes(r)' = RowBytes(r)
    BY <2>1, <2>2 DEF InRow, RowBytes
  <2>4. Progress(Len(rows))' <=> Progress(Len(rows))
    BY <2>1, <2>2 DEF Progress
  <2> QED BY <1>1, <2>1, <2>3, <2>4 DEF HexInv
<1>2. ASSUME HexInv, Start PROVE HexInv'
  <2>1. /\ hpc = "call" /\ rows = <<>> /\ length = asked /\ offset = 0 /\ ptr = 0
        /\ mem \in Memories /\ asked \in Int
    BY <1>2 DEF HexInv, Start
  <2>2. /\ hpc' = "rows" /\ mem' = mem /\ asked' = asked /\ rows' = <<>>
        /\ offset' = 0 /\ ptr' = 0 /\ header' = <<0, asked'>>
        /\ length' = CutLength'
    BY <1>2, <2>1 DEF Start, CutLength
  <2>3. CutLength' \in Int /\ Wanted' \in Nat
    BY <2>1, <2>2, HexdumpAssumption DEF CutLength, Wanted, Smaller
  <2>4. Len(rows') = 0
    BY <2>2
  <2>5. Progress(Len(rows))'
    <3>1. ASSUME NEW c \in Int, NEW w \in Nat
          PROVE  c = c - 16 * 0 /\ 0 = 16 * 0 /\ 0 = Smaller(16 * 0, w)
      BY DEF Smaller
    <3> QED BY <2>2, <2>3, <2>4, <3>1, Zenon DEF Progress
  <2>6. rows' \in Seq(Seq(Int))
    BY <2>2
  <2> QED BY <2>1, <2>2, <2>4, <2>5, <2>6 DEF HexInv
<1>3. ASSUME HexInv, HexReturn PROVE HexInv'
  <2>1. /\ hpc = "rows" /\ hpc' = "done" /\ length <= 0
        /\ mem' = mem /\ asked' = asked /\ length' = length
        /\ offset' = offset /\ ptr' = ptr /\ header' = header /\ rows' = rows
    BY <1>3 DEF HexReturn
  <2>2. Wanted' = Wanted /\ CutLength' = CutLength
    BY <2>1 DEF Wanted, CutLength
  <2>3. \A r : InRow(r)' = InRow(r) /\ RowBytes(r)' = RowBytes(r)
    BY <2>1, <2>2 DEF InRow, RowBytes
  <2>4. Progress(Len(rows))' <=> Progress(Len(rows))
    BY <2>1, <2>2 DEF Progress
  <2> QED BY <1>3, <2>1, <2>3, <2>4 DEF HexInv
<1> QED BY <1>1, <1>2, <1>3, RowKeeps DEF TextNext, HexNext, vars

(* A dump starts with no row. *)
LEMMA HexInvFirst == TextInit => HexInv
<1>1. HexIdle => HexInv
  BY DEF HexIdle, HexInv
<1>2. HexInit => HexInv
  BY HexdumpAssumption DEF HexInit, HexInv
<1> QED BY <1>1, <1>2 DEF TextInit

(* What a row of the dump is made of, in the numbers of the property.      *)
LEMMA RowShown ==
  ASSUME HexInv, NEW r \in DOMAIN rows
  PROVE  /\ hpc \in {"rows", "done"} /\ InRow(r) \in 1..16
         /\ RowRight(rows[r], 16 * (r - 1), RowBytes(r), InRow(r))
         /\ \A i \in 0..(InRow(r) - 1) :
              RowBytes(r)[i + 1] = mem[16 * (r - 1) + i]
<1>1. r \in 1..Len(rows) /\ Len(rows) \in Nat /\ rows # <<>>
  BY DEF HexInv
<1>2. hpc \in {"rows", "done"} /\ Progress(Len(rows)) /\ mem \in Memories /\ asked \in Int
  BY <1>1 DEF HexInv
<1>3. Wanted \in Nat
  BY <1>2, HexdumpAssumption DEF Wanted, Smaller
<1>4. 16 * (r - 1) < Wanted
  BY <1>1, <1>2, <1>3 DEF Progress
<1>5. InRow(r) \in 1..16
  <2>1. r - 1 \in Nat
    BY <1>1
  <2> QED BY <1>3, <1>4, <2>1, RowCount, Zenon DEF InRow
<1>6. ASSUME NEW i \in 0..(InRow(r) - 1)
      PROVE  RowBytes(r)[i + 1] = mem[16 * (r - 1) + i]
  <2>1. i + 1 \in 1..InRow(r) /\ 16 * (r - 1) + (i + 1) - 1 = 16 * (r - 1) + i
    BY <1>1, <1>5
  <2> QED BY <2>1 DEF RowBytes
<1> QED BY <1>1, <1>2, <1>5, <1>6 DEF HexInv

(* What HexInv says of the rows is what can be read from them.             *)
LEMMA HexInvReads == HexInv => HexdumpReadable
<1> SUFFICES ASSUME HexInv PROVE HexdumpReadable
  OBVIOUS
<1>1. RowsComplete
  <2> SUFFICES ASSUME NEW r \in DOMAIN rows PROVE Len(rows[r]) = EndOfRow
    BY DEF RowsComplete
  <2>1. RowRight(rows[r], 16 * (r - 1), RowBytes(r), InRow(r))
    BY RowShown
  <2> QED BY <2>1 DEF RowRight, EndOfRow
<1>2. DigitsReadBack
  <2> SUFFICES ASSUME NEW r \in DOMAIN rows
               PROVE  /\ OffsetOf(rows[r][1], rows[r][2], rows[r][3], rows[r][4])
                           = 16 * (r - 1)
                      /\ \A i \in 0..InRow(r) - 1 :
                           16 * Digit(rows[r][HexAt(i) + 1])
                             + Digit(rows[r][HexAt(i) + 2])
                             = mem[16 * (r - 1) + i]
    BY DEF DigitsReadBack, OffsetOf
  <2>1. /\ RowRight(rows[r], 16 * (r - 1), RowBytes(r), InRow(r))
        /\ InRow(r) \in 1..16
        /\ \A i \in 0..(InRow(r) - 1) :
             RowBytes(r)[i + 1] = mem[16 * (r - 1) + i]
    BY RowShown
  <2>2. ASSUME NEW i \in 0..InRow(r) - 1
        PROVE  16 * Digit(rows[r][HexAt(i) + 1]) + Digit(rows[r][HexAt(i) + 2])
                 = mem[16 * (r - 1) + i]
    <3>1. i \in 0..15 /\ i < InRow(r)
      BY <2>1
    <3>2. 16 * Digit(rows[r][HexAt(i) + 1]) + Digit(rows[r][HexAt(i) + 2])
            = RowBytes(r)[i + 1]
      BY <2>1, <3>1, Zenon DEF RowRight
    <3> QED BY <2>1, <3>2, Zenon
  <2>3. OffsetOf(rows[r][1], rows[r][2], rows[r][3], rows[r][4]) = 16 * (r - 1)
    BY <2>1, Zenon DEF RowRight
  <2> QED BY <2>2, <2>3
<1>3. TextAgrees
  <2> SUFFICES ASSUME NEW r \in DOMAIN rows
               PROVE  /\ \A k \in DOMAIN rows[r] : rows[r][k] \in 32..126
                      /\ \A i \in 0..Smaller(InRow(r), 14) - 1 :
                           rows[r][AsciiAt(i) + 1]
                             \in {mem[16 * (r - 1) + i], Dot}
    BY DEF TextAgrees
  <2>1. /\ RowRight(rows[r], 16 * (r - 1), RowBytes(r), InRow(r))
        /\ InRow(r) \in 1..16
        /\ \A i \in 0..(InRow(r) - 1) :
             RowBytes(r)[i + 1] = mem[16 * (r - 1) + i]
    BY RowShown
  <2>2. ASSUME NEW k \in DOMAIN rows[r] PROVE rows[r][k] \in 32..126
    <3>1. rows[r] \in Seq(Int) /\ Len(rows[r]) = 71
      BY <2>1 DEF RowRight
    <3>2. k \in Int /\ 1 <= k /\ k <= 71
      BY <3>1, LineOf71, Zenon
    <3>3. Plain(rows[r][k])
      BY <2>1, <3>2, Zenon DEF RowRight
    <3> QED BY <3>3, PlainRange, Zenon
  <2>3. ASSUME NEW i \in 0..Smaller(InRow(r), 14) - 1
        PROVE  rows[r][AsciiAt(i) + 1] \in {mem[16 * (r - 1) + i], Dot}
    <3>1. /\ i \in 0..13 /\ i < InRow(r) /\ i \in 0..(InRow(r) - 1)
          /\ AsciiAt(i) + 1 = 58 + i
      BY <2>1 DEF Smaller, AsciiAt
    <3>2. rows[r][58 + i] \in {RowBytes(r)[i + 1], Dot}
      BY <2>1, <3>1, Zenon DEF RowRight
    <3> QED BY <2>1, <3>1, <3>2, Zenon
  <2> QED BY <2>2, <2>3
<1>4. ASSUME hpc = "done"
      PROVE  /\ Len(rows) = (Wanted + 15) \div 16 /\ ptr = Wanted
             /\ Wanted > 0 => header[1] <= 0 /\ ptr <= header[2]
  <2>1. /\ Len(rows) \in Nat /\ Progress(Len(rows)) /\ length <= 0
        /\ asked \in Int /\ header = <<0, asked>>
    BY <1>4 DEF HexInv
  <2>2. PICK m : m = Len(rows)
    OBVIOUS
  <2>3. /\ Wanted \in Nat /\ CutLength \in Int
        /\ Wanted = CutLength \/ (Wanted = 0 /\ CutLength < 0)
        /\ Wanted > 0 => Wanted <= asked
    BY <2>1, HexdumpAssumption DEF CutLength, Wanted, Smaller
  <2>4. /\ m \in Nat /\ CutLength - 16 * m <= 0 /\ ptr = Smaller(16 * m, Wanted)
        /\ m = 0 \/ 16 * (m - 1) < Wanted
    BY <2>1, <2>2 DEF Progress
  <2>5. Wanted <= 16 * m /\ 16 * m < Wanted + 16
    BY <2>3, <2>4
  <2>6. m = (Wanted + 15) \div 16
    BY <2>3, <2>4, <2>5
  <2>7. ptr = Wanted
    BY <2>3, <2>4, <2>5 DEF Smaller
  <2> QED BY <2>1, <2>2, <2>3, <2>6, <2>7
<1>5. ASSUME NEW r \in DOMAIN rows, NEW i \in InRow(r)..15
      PROVE  rows[r][HexAt(i) + 1] = Blank /\ rows[r][HexAt(i) + 2] = Blank
  <2>1. /\ RowRight(rows[r], 16 * (r - 1), RowBytes(r), InRow(r))
        /\ InRow(r) \in 1..16
    BY RowShown
  <2>2. i \in 0..15 /\ i >= InRow(r)
    BY <2>1
  <2> QED BY <2>1, <2>2, Zenon DEF RowRight
<1>6. DumpComplete
  BY <1>4, <1>5 DEF DumpComplete
<1> QED BY <1>1, <1>2, <1>3, <1>6 DEF HexdumpReadable

(* Whatever the memory and the length are, length, offset and pointer go   *)
(* with the rows, and each row reads as its bytes (report.c:310-331).      *)
THEOREM HexInvHolds == TextSpec => []HexInv
BY HexInvFirst, HexInvKept, PTL DEF TextSpec

(* A dump is whole and can be read, whatever the length and the bytes are: *)
(* no row is cut short by a NUL of sprintf(), the digits and the offsets   *)
(* are those of the memory, the text column agrees with them and nothing   *)
(* unprintable reaches the log (report.c:310-331).                         *)
THEOREM HexdumpReadableHolds == TextSpec => []HexdumpReadable
BY HexInvHolds, HexInvReads, PTL
=============================================================================
