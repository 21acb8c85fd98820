----------------------------- MODULE SessionProofs -----------------------------
(***************************************************************************)
(* What one session forwards, for any messages of both peers and any size  *)
(* of their parts.  A stream is a concatenation, so that the first lemmas  *)
(* are about FlattenSeq; the induction they need is on a set of numbers,   *)
(* by the least number outside of it.                                      *)
(***************************************************************************)
EXTENDS Session, SequenceTheorems, WellFoundedInduction, TLAPS

-----------------------------------------------------------------------------
(* Induction and concatenation *)

\* A set that contains zero, and with each number the next one, contains every number.
LEMMA SetInduction ==
  ASSUME NEW T, 0 \in T, \A n \in Nat : n \in T => n + 1 \in T
  PROVE  \A n \in Nat : n \in T
<1> SUFFICES ASSUME NEW m \in Nat, m \notin T PROVE FALSE
  OBVIOUS
<1> DEFINE Out == {n \in Nat : n \notin T}
<1>1. Out # {} /\ Out \subseteq Nat
  OBVIOUS
<1>2. PICK x \in Out : \A y \in Out : ~(<<y, x>> \in OpToRel(<, Nat))
  BY <1>1, NatLessThanWellFounded, WFMin, Zenon
<1>3. x # 0 /\ x - 1 \in Nat
  OBVIOUS
<1>4. x - 1 \notin T
  BY <1>3
<1>5. <<x - 1, x>> \in OpToRel(<, Nat)
  BY <1>3 DEF OpToRel
<1> QED
  BY <1>2, <1>3, <1>4, <1>5

\* Concatenation, unfolded only where its meaning is needed
Join(a, b) == a \o b

\* The concatenations of the first sequences of ss, one after the other
Flattens(f, ss) ==
  /\ f = [i \in 1 .. Len(ss) |-> f[i]]
  /\ \A i \in 1 .. Len(ss) : f[i] = IF i = 1 THEN ss[i] ELSE Join(f[i - 1], ss[i])
First(ss, n) == [i \in 1 .. n |-> ss[i]]

\* The first sequences of some are sequences too.
LEMMA FirstSeq ==
  ASSUME NEW S, NEW ss \in Seq(S), NEW n \in Nat, n <= Len(ss)
  PROVE  /\ First(ss, n) \in Seq(S) /\ Len(First(ss, n)) = n
         /\ \A i \in 1 .. n : First(ss, n)[i] = ss[i]
<1>1. \A i \in 1 .. n : ss[i] \in S
  BY ElementOfSeq, LenProperties
<1>2. First(ss, n) \in [1 .. n -> S]
  BY <1>1 DEF First
<1>3. First(ss, n) \in Seq(S)
  BY <1>2
<1>4. DOMAIN First(ss, n) = 1 .. n
  BY DEF First
<1> QED
  BY <1>3, <1>4, LenProperties DEF First

\* The concatenations exist for every number of sequences.
LEMMA FlattensExists ==
  ASSUME NEW S, NEW ss \in Seq(S)
  PROVE  \E f : Flattens(f, ss)
<1> DEFINE T == {n \in Nat : n <= Len(ss) => \E f : Flattens(f, First(ss, n))}
<1>1. 0 \in T
  <2>1. Len(First(ss, 0)) = 0
    BY FirstSeq, LenProperties
  <2> DEFINE f == [i \in 1 .. 0 |-> i]
  <2>2. f = [i \in 1 .. 0 |-> f[i]]
    OBVIOUS
  <2> HIDE DEF f
  <2>3. Flattens(f, First(ss, 0))
    <3>1. 1 .. Len(First(ss, 0)) = 1 .. 0
      BY <2>1
    <3>2. \A i \in 1 .. 0 : FALSE
      OBVIOUS
    <3> QED
      BY ONLY <2>2, <3>1, <3>2 DEF Flattens
  <2> QED
    BY <2>3
<1>2. ASSUME NEW n \in Nat, n \in T PROVE n + 1 \in T
  <2> SUFFICES ASSUME n + 1 <= Len(ss) PROVE \E f : Flattens(f, First(ss, n + 1))
    OBVIOUS
  <2>1. Len(ss) \in Nat /\ n <= Len(ss)
    BY LenProperties
  <2>2. PICK f : Flattens(f, First(ss, n))
    BY <1>2, <2>1
  <2>3. /\ Len(First(ss, n)) = n /\ Len(First(ss, n + 1)) = n + 1
        /\ \A i \in 1 .. n : First(ss, n)[i] = ss[i]
        /\ \A i \in 1 .. n + 1 : First(ss, n + 1)[i] = ss[i]
    BY <2>1, FirstSeq
  <2> DEFINE g == [i \in 1 .. n + 1 |-> IF i <= n THEN f[i]
                                       ELSE IF i = 1 THEN ss[i] ELSE Join(f[i - 1], ss[i])]
  <2>4. \A i \in 1 .. n + 1 :
          g[i] = IF i = 1 THEN First(ss, n + 1)[i] ELSE Join(g[i - 1], First(ss, n + 1)[i])
    <3>1. \A i \in 1 .. n : f[i] = IF i = 1 THEN ss[i] ELSE Join(f[i - 1], ss[i])
      BY <2>2, <2>3 DEF Flattens
    <3> TAKE i \in 1 .. n + 1
    <3>2. CASE i = 1
      BY <2>3, <3>1, <3>2
    <3>3. CASE i # 1
      <4>1. i - 1 \in 1 .. n /\ i - 1 <= n /\ i - 1 \in 1 .. n + 1 /\ g[i - 1] = f[i - 1]
        BY <3>3
      <4>2. CASE i <= n
        <5>1. i \in 1 .. n
          BY <4>2
        <5> QED
          BY <2>3, <3>1, <3>3, <4>1, <5>1
      <4>3. CASE ~(i <= n)
        BY <2>3, <3>3, <4>1, <4>3
      <4> QED
        BY <4>2, <4>3
    <3> QED
      BY <3>2, <3>3
  <2>5. g = [i \in 1 .. n + 1 |-> g[i]]
    OBVIOUS
  <2> HIDE DEF g
  <2>6. Flattens(g, First(ss, n + 1))
    BY <2>3, <2>4, <2>5 DEF Flattens
  <2> QED
    BY <2>6
<1> HIDE DEF T
<1>3. \A n \in Nat : n \in T
  BY <1>1, <1>2, SetInduction
<1>4. Len(ss) \in Nat
  BY LenProperties
<1>5. PICK n \in Nat : n = Len(ss)
  BY <1>4
<1>6. PICK f : Flattens(f, First(ss, n))
  BY <1>3, <1>5 DEF T
<1>7. n <= Len(ss)
  BY <1>5
<1>8. Len(First(ss, n)) = n /\ \A i \in 1 .. n : First(ss, n)[i] = ss[i]
  BY <1>7, FirstSeq
<1>9. Flattens(f, ss)
  <2>1. f = [i \in 1 .. n |-> f[i]]
    BY ONLY <1>6, <1>8 DEF Flattens
  <2>2. \A i \in 1 .. n : f[i] = IF i = 1 THEN First(ss, n)[i] ELSE Join(f[i - 1], First(ss, n)[i])
    BY ONLY <1>6, <1>8 DEF Flattens
  <2>3. \A i \in 1 .. n : f[i] = IF i = 1 THEN ss[i] ELSE Join(f[i - 1], ss[i])
    BY ONLY <1>8, <2>2
  <2> QED
    BY ONLY <1>5, <2>1, <2>3 DEF Flattens
<1> QED
  BY <1>9

\* FlattenSeq is the last of the concatenations.
LEMMA FlattenIsLast ==
  ASSUME NEW S, NEW ss \in Seq(S), Len(ss) # 0
  PROVE  \E f : Flattens(f, ss) /\ FlattenSeq(ss) = f[Len(ss)]
<1> DEFINE h == CHOOSE f : f = [i \in 1 .. Len(ss) |->
                                  IF i = 1 THEN ss[i] ELSE Join(f[i - 1], ss[i])]
<1>1. Flattens(h, ss)
  <2>1. PICK f : Flattens(f, ss)
    BY FlattensExists
  <2>2. f = [i \in 1 .. Len(ss) |-> IF i = 1 THEN ss[i] ELSE Join(f[i - 1], ss[i])]
    BY <2>1 DEF Flattens
  <2>3. h = [i \in 1 .. Len(ss) |-> IF i = 1 THEN ss[i] ELSE Join(h[i - 1], ss[i])]
    BY <2>2
  <2> HIDE DEF h
  <2> QED
    BY <2>3 DEF Flattens
<1>2. FlattenSeq(ss) = h[Len(ss)]
  BY DEF FlattenSeq, Join
<1> HIDE DEF h
<1> QED
  BY <1>1, <1>2

\* Two sequences joined are a sequence.
LEMMA JoinSeq ==
  ASSUME NEW S, NEW a \in Seq(S), NEW b \in Seq(S)
  PROVE  Join(a, b) \in Seq(S)
BY ConcatProperties DEF Join

\* The concatenations of sequences are sequences, and those of fewer sequences are the first.
LEMMA FlattensFirst ==
  ASSUME NEW S, NEW ss \in Seq(Seq(S)), NEW f, Flattens(f, ss),
         NEW n \in Nat, n <= Len(ss), NEW g, Flattens(g, First(ss, n))
  PROVE  \A i \in 1 .. n : f[i] = g[i] /\ f[i] \in Seq(S)
<1> DEFINE T == {k \in Nat : k \in 1 .. n => f[k] = g[k] /\ f[k] \in Seq(S)}
<1>0. /\ Len(ss) \in Nat /\ Len(First(ss, n)) = n
      /\ \A i \in 1 .. n : First(ss, n)[i] = ss[i] /\ ss[i] \in Seq(S) /\ i \in 1 .. Len(ss)
  <2>1. Len(ss) \in Nat
    BY LenProperties
  <2>2. \A i \in 1 .. Len(ss) : ss[i] \in Seq(S)
    BY ElementOfSeq
  <2>3. Len(First(ss, n)) = n /\ \A i \in 1 .. n : First(ss, n)[i] = ss[i]
    BY FirstSeq
  <2> QED
    BY <2>1, <2>2, <2>3
<1>1. 0 \in T
  OBVIOUS
<1>2. ASSUME NEW k \in Nat, k \in T PROVE k + 1 \in T
  <2> SUFFICES ASSUME k + 1 \in 1 .. n PROVE f[k + 1] = g[k + 1] /\ f[k + 1] \in Seq(S)
    OBVIOUS
  <2>1. /\ f[k + 1] = IF k + 1 = 1 THEN ss[k + 1] ELSE Join(f[k + 1 - 1], ss[k + 1])
        /\ g[k + 1] = IF k + 1 = 1 THEN ss[k + 1] ELSE Join(g[k + 1 - 1], ss[k + 1])
        /\ ss[k + 1] \in Seq(S)
    <3>1. k + 1 \in 1 .. Len(ss) /\ k + 1 \in 1 .. Len(First(ss, n)) /\ ss[k + 1] \in Seq(S)
          /\ First(ss, n)[k + 1] = ss[k + 1]
      BY <1>0
    <3>2. \A i \in 1 .. Len(ss) : f[i] = IF i = 1 THEN ss[i] ELSE Join(f[i - 1], ss[i])
      BY ONLY Flattens(f, ss) DEF Flattens
    <3>3. \A i \in 1 .. Len(First(ss, n)) :
            g[i] = IF i = 1 THEN First(ss, n)[i] ELSE Join(g[i - 1], First(ss, n)[i])
      BY ONLY Flattens(g, First(ss, n)) DEF Flattens
    <3>4. f[k + 1] = IF k + 1 = 1 THEN ss[k + 1] ELSE Join(f[k + 1 - 1], ss[k + 1])
      BY ONLY <3>1, <3>2
    <3>5. g[k + 1] = IF k + 1 = 1 THEN ss[k + 1] ELSE Join(g[k + 1 - 1], ss[k + 1])
      BY ONLY <3>1, <3>3
    <3> QED
      BY ONLY <3>1, <3>4, <3>5
  <2>2. CASE k = 0
    BY <2>1, <2>2
  <2>3. CASE k # 0
    <3>1. f[k] = g[k] /\ f[k] \in Seq(S) /\ k + 1 # 1 /\ k + 1 - 1 = k
      BY <1>2, <2>3
    <3>2. f[k + 1] = Join(f[k], ss[k + 1]) /\ g[k + 1] = Join(f[k], ss[k + 1])
      BY ONLY <2>1, <3>1
    <3>3. Join(f[k], ss[k + 1]) \in Seq(S)
      BY ONLY <2>1, <3>1, JoinSeq
    <3> QED
      BY ONLY <3>2, <3>3
  <2> QED
    BY <2>2, <2>3
<1> HIDE DEF T
<1>3. \A k \in Nat : k \in T
  BY <1>1, <1>2, SetInduction
<1> QED
  BY <1>3 DEF T

\* One sequence more: it comes behind the others.
LEMMA FlattenStep ==
  ASSUME NEW S, NEW ss \in Seq(Seq(S)), NEW n \in Nat, n < Len(ss)
  PROVE  /\ FlattenSeq(First(ss, n)) \in Seq(S)
         /\ FlattenSeq(First(ss, n + 1)) = FlattenSeq(First(ss, n)) \o ss[n + 1]
<1>1. /\ Len(ss) \in Nat /\ n <= Len(ss) /\ n + 1 <= Len(ss) /\ n + 1 \in Nat
      /\ n + 1 \in 1 .. Len(ss) /\ ss[n + 1] \in Seq(S)
  BY LenProperties, ElementOfSeq
<1>2. /\ First(ss, n) \in Seq(Seq(S)) /\ Len(First(ss, n)) = n
      /\ First(ss, n + 1) \in Seq(Seq(S)) /\ Len(First(ss, n + 1)) = n + 1
      /\ \A i \in 1 .. n + 1 : First(ss, n + 1)[i] = ss[i]
  BY <1>1, FirstSeq
<1>3. PICK h : Flattens(h, ss)
  BY FlattensExists
<1>4. PICK f : /\ Flattens(f, First(ss, n + 1))
               /\ FlattenSeq(First(ss, n + 1)) = f[n + 1]
  <2>1. Len(First(ss, n + 1)) # 0
    BY ONLY <1>2, n \in Nat
  <2>2. \E f : /\ Flattens(f, First(ss, n + 1))
              /\ FlattenSeq(First(ss, n + 1)) = f[Len(First(ss, n + 1))]
    BY ONLY <1>2, <2>1, FlattenIsLast
  <2> QED
    BY ONLY <1>2, <2>2
<1>5. \A i \in 1 .. n + 1 : h[i] = f[i] /\ h[i] \in Seq(S)
  BY ONLY ss \in Seq(Seq(S)), <1>1, <1>3, <1>4, FlattensFirst
<1>6. f[n + 1] = IF n + 1 = 1 THEN ss[n + 1] ELSE Join(f[n + 1 - 1], ss[n + 1])
  <2>1. \A i \in 1 .. Len(First(ss, n + 1)) :
          f[i] = IF i = 1 THEN First(ss, n + 1)[i] ELSE Join(f[i - 1], First(ss, n + 1)[i])
    BY ONLY <1>4 DEF Flattens
  <2>2. n + 1 \in 1 .. n + 1
    BY ONLY n \in Nat
  <2> QED
    BY ONLY <1>2, <2>1, <2>2
<1>7. CASE n = 0
  <2>1. FlattenSeq(First(ss, n)) = First(ss, n)
    BY <1>2, <1>7 DEF FlattenSeq
  <2>2. First(ss, n) = <<>>
    BY <1>2, <1>7
  <2>3. f[n + 1] = ss[n + 1]
    BY ONLY <1>6, <1>7
  <2>4. <<>> \in Seq(S) /\ <<>> \o ss[n + 1] = ss[n + 1]
    BY ONLY <1>1, ConcatEmptySeq
  <2> QED
    BY ONLY <1>4, <2>1, <2>2, <2>3, <2>4
<1>8. CASE n # 0
  <2>1. PICK g : Flattens(g, First(ss, n)) /\ FlattenSeq(First(ss, n)) = g[n]
    <3>1. \E g : Flattens(g, First(ss, n)) /\ FlattenSeq(First(ss, n)) = g[Len(First(ss, n))]
      BY ONLY <1>2, <1>8, FlattenIsLast
    <3> QED
      BY ONLY <1>2, <3>1
  <2>2. \A i \in 1 .. n : h[i] = g[i] /\ h[i] \in Seq(S)
    BY ONLY ss \in Seq(Seq(S)), n \in Nat, <1>1, <1>3, <2>1, FlattensFirst
  <2>3. n \in 1 .. n /\ n \in 1 .. n + 1 /\ n + 1 # 1 /\ n + 1 - 1 = n
    BY ONLY <1>8, n \in Nat
  <2>4. h[n] = g[n] /\ h[n] \in Seq(S) /\ f[n] = h[n]
    BY ONLY <1>5, <2>2, <2>3
  <2>5. f[n + 1] = g[n] \o ss[n + 1]
    BY ONLY <1>6, <2>3, <2>4 DEF Join
  <2> QED
    BY ONLY <1>4, <2>1, <2>4, <2>5
<1> QED
  BY ONLY <1>7, <1>8

-----------------------------------------------------------------------------
(* Where the messages are in a stream *)

\* Where a message starts, and how long its parts are
Offset(f, m) == Len(Whole(f, m))
Messages(f) == Len(Script[f])
TagLen(f, m) == IF Tagged(f, m) THEN 1 ELSE 0
HeadLen(f, m) == TagLen(f, m) + SizeCells

Cells == [msg : Nat, kind : {"tag", "size", "data"}, pos : Nat]
Parts(f) == [i \in DOMAIN Script[f] |-> MessageCells(f, i)]

\* A message's length is a number, and so is that of its head.
LEMMA Numbers ==
  ASSUME NEW f \in Sides
  PROVE  /\ Messages(f) \in Nat /\ DOMAIN Script[f] = 1 .. Messages(f)
         /\ \A m \in 1 .. Messages(f) : Script[f][m].len \in Nat
         /\ \A m \in Nat : TagLen(f, m) \in 0 .. 1 /\ HeadLen(f, m) \in Nat
         /\ SizeCells \in Nat /\ SizeCells > 0
<1>1. SizeCells \in Nat /\ SizeCells > 0
  BY SizeAssumption DEF SizeAssumption
<1>2. Script[f] \in Seq([type : Types, len : Nat])
  BY ScriptAssumption DEF ScriptAssumption
<1>3. \A m \in 1 .. Len(Script[f]) : Script[f][m] \in [type : Types, len : Nat]
  BY <1>2, ElementOfSeq
<1>4. Len(Script[f]) \in Nat /\ DOMAIN Script[f] = 1 .. Len(Script[f])
  BY <1>2, LenProperties
<1>5. \A m \in Nat : TagLen(f, m) \in 0 .. 1
  BY DEF TagLen
<1> QED
  BY <1>1, <1>3, <1>4, <1>5 DEF Messages, HeadLen

\* The parts of a message, one after the other.
LEMMA MessageShape ==
  ASSUME NEW f \in Sides, NEW m \in 1 .. Messages(f)
  PROVE  /\ MessageCells(f, m) \in Seq(Cells)
         /\ Len(MessageCells(f, m)) = HeadLen(f, m) + Script[f][m].len
         /\ Tagged(f, m) => MessageCells(f, m)[1] = Cell(m, "tag", 1)
         /\ \A k \in 1 .. SizeCells :
              MessageCells(f, m)[TagLen(f, m) + k] = Cell(m, "size", k)
         /\ \A k \in 1 .. Script[f][m].len :
              MessageCells(f, m)[HeadLen(f, m) + k] = Cell(m, "data", k)
<1> DEFINE tag == IF Tagged(f, m) THEN <<Cell(m, "tag", 1)>> ELSE <<>>
           size == [k \in 1 .. SizeCells |-> Cell(m, "size", k)]
           data == [k \in 1 .. Script[f][m].len |-> Cell(m, "data", k)]
<1>1. /\ m \in Nat /\ Script[f][m].len \in Nat /\ SizeCells \in Nat
      /\ TagLen(f, m) \in 0 .. 1 /\ HeadLen(f, m) = TagLen(f, m) + SizeCells
  <2>1. m \in Nat
    BY Numbers
  <2> QED
    BY <2>1, Numbers DEF HeadLen
<1>2. \A k \in Nat : /\ Cell(m, "tag", k) \in Cells
                     /\ Cell(m, "size", k) \in Cells /\ Cell(m, "data", k) \in Cells
  BY <1>1 DEF Cell, Cells
<1>3. size \in Seq(Cells) /\ Len(size) = SizeCells
  <2>1. size \in [1 .. SizeCells -> Cells]
    BY <1>1, <1>2
  <2> QED
    BY <1>1, <2>1, LenProperties
<1>4. data \in Seq(Cells) /\ Len(data) = Script[f][m].len
  <2>1. data \in [1 .. Script[f][m].len -> Cells]
    BY <1>1, <1>2
  <2> QED
    BY <1>1, <2>1, LenProperties
<1>5. tag \in Seq(Cells) /\ Len(tag) = TagLen(f, m)
  BY <1>2 DEF TagLen
<1>6. Tagged(f, m) => tag[1] = Cell(m, "tag", 1) /\ TagLen(f, m) = 1
  BY DEF TagLen
<1>7. \A k \in 1 .. SizeCells : size[k] = Cell(m, "size", k)
  OBVIOUS
<1>8. \A k \in 1 .. Script[f][m].len : data[k] = Cell(m, "data", k)
  OBVIOUS
<1>9. MessageCells(f, m) = (tag \o size) \o data
  BY DEF MessageCells
<1> HIDE DEF tag, size, data
<1> DEFINE head == tag \o size
<1>10. /\ head \in Seq(Cells) /\ Len(head) = HeadLen(f, m)
       /\ \A i \in 1 .. Len(head) : head[i] = IF i <= Len(tag) THEN tag[i] ELSE size[i - Len(tag)]
  BY <1>1, <1>3, <1>5, ConcatProperties
<1> HIDE DEF head
<1>11. /\ MessageCells(f, m) \in Seq(Cells)
       /\ Len(MessageCells(f, m)) = HeadLen(f, m) + Script[f][m].len
       /\ \A i \in 1 .. HeadLen(f, m) + Script[f][m].len :
            MessageCells(f, m)[i] = IF i <= HeadLen(f, m) THEN head[i]
                                                          ELSE data[i - HeadLen(f, m)]
  <2>1. MessageCells(f, m) = head \o data
    BY <1>9 DEF head
  <2>2. /\ head \o data \in Seq(Cells)
        /\ Len(head \o data) = Len(head) + Len(data)
        /\ \A i \in 1 .. Len(head) + Len(data) :
             (head \o data)[i] = IF i <= Len(head) THEN head[i] ELSE data[i - Len(head)]
    BY ONLY <1>4, <1>10, ConcatProperties
  <2> QED
    BY ONLY <1>4, <1>10, <2>1, <2>2
<1>12. Tagged(f, m) => MessageCells(f, m)[1] = Cell(m, "tag", 1)
  <2> HAVE Tagged(f, m)
  <2>1. 1 \in 1 .. HeadLen(f, m) /\ 1 \in 1 .. HeadLen(f, m) + Script[f][m].len
        /\ 1 <= HeadLen(f, m) /\ 1 <= Len(tag)
    BY ONLY <1>1, <1>5, <1>6, Tagged(f, m)
  <2> QED
    BY ONLY <1>6, <1>10, <1>11, <2>1, Tagged(f, m)
<1>13. ASSUME NEW k \in 1 .. SizeCells
       PROVE  MessageCells(f, m)[TagLen(f, m) + k] = Cell(m, "size", k)
  <2>1. /\ TagLen(f, m) + k \in 1 .. HeadLen(f, m)
        /\ TagLen(f, m) + k \in 1 .. HeadLen(f, m) + Script[f][m].len
        /\ TagLen(f, m) + k <= HeadLen(f, m)
        /\ ~(TagLen(f, m) + k <= TagLen(f, m)) /\ TagLen(f, m) + k - TagLen(f, m) = k
    BY ONLY <1>1, k \in 1 .. SizeCells
  <2>2. MessageCells(f, m)[TagLen(f, m) + k] = head[TagLen(f, m) + k]
    BY ONLY <1>11, <2>1
  <2>3. head[TagLen(f, m) + k] = size[k]
    BY ONLY <1>5, <1>10, <2>1
  <2> QED
    BY ONLY <1>7, <2>2, <2>3, k \in 1 .. SizeCells
<1>14. ASSUME NEW k \in 1 .. Script[f][m].len
       PROVE  MessageCells(f, m)[HeadLen(f, m) + k] = Cell(m, "data", k)
  <2>1. /\ HeadLen(f, m) + k \in 1 .. HeadLen(f, m) + Script[f][m].len
        /\ ~(HeadLen(f, m) + k <= HeadLen(f, m)) /\ HeadLen(f, m) + k - HeadLen(f, m) = k
    BY ONLY <1>1, k \in 1 .. Script[f][m].len
  <2> DEFINE i == HeadLen(f, m) + k
  <2>2. MessageCells(f, m)[i] = IF i <= HeadLen(f, m) THEN head[i] ELSE data[i - HeadLen(f, m)]
    BY ONLY <1>11, <2>1
  <2>3. ~(i <= HeadLen(f, m)) /\ i - HeadLen(f, m) = k
    BY ONLY <1>1, k \in 1 .. Script[f][m].len
  <2>4. MessageCells(f, m)[i] = data[k]
    <3> HIDE DEF i
    <3> QED
      BY ONLY <2>2, <2>3
  <2> QED
    BY ONLY <1>8, <2>4, k \in 1 .. Script[f][m].len
<1> QED
  BY ONLY <1>11, <1>12, <1>13, <1>14

\* A stream is its messages, one after the other.
LEMMA WholeStep ==
  ASSUME NEW f \in Sides
  PROVE  /\ Whole(f, 0) = <<>> /\ Whole(f, Messages(f)) = Stream[f]
         /\ \A m \in 0 .. Messages(f) : Whole(f, m) \in Seq(Cells)
         /\ \A m \in 1 .. Messages(f) : Whole(f, m) = Whole(f, m - 1) \o MessageCells(f, m)
<1>1. Messages(f) \in Nat /\ DOMAIN Script[f] = 1 .. Messages(f)
  BY Numbers
<1>2. /\ Parts(f) \in Seq(Seq(Cells)) /\ Len(Parts(f)) = Messages(f)
      /\ \A i \in 1 .. Messages(f) : Parts(f)[i] = MessageCells(f, i)
  <2>1. Parts(f) \in [1 .. Messages(f) -> Seq(Cells)]
    BY <1>1, MessageShape DEF Parts
  <2>2. Parts(f) \in Seq(Seq(Cells))
    BY <1>1, <2>1
  <2> QED
    BY <1>1, <2>1, <2>2, LenProperties DEF Parts
<1>3. ASSUME NEW m \in 0 .. Messages(f)
      PROVE  First(Parts(f), m) = [k \in 1 .. m |-> MessageCells(f, k)]
  BY <1>1, <1>2 DEF First
<1>4. \A m \in 0 .. Messages(f) : Whole(f, m) = FlattenSeq(First(Parts(f), m))
  BY <1>3 DEF Whole
<1>5. Whole(f, 0) = <<>>
  <2>1. [k \in 1 .. 0 |-> MessageCells(f, k)] = <<>>
    OBVIOUS
  <2>2. Whole(f, 0) = FlattenSeq(<<>>)
    BY <2>1 DEF Whole
  <2>3. FlattenSeq(<<>>) = <<>>
    BY DEF FlattenSeq
  <2> QED
    BY <2>2, <2>3
<1>6. Whole(f, Messages(f)) = Stream[f]
  <2>1. Stream[f] = FlattenSeq([i \in DOMAIN Script[f] |-> MessageCells(f, i)])
    BY DEF Stream
  <2> QED
    BY <1>1, <2>1 DEF Whole
<1>7. ASSUME NEW m \in 1 .. Messages(f)
      PROVE  /\ Whole(f, m - 1) \in Seq(Cells)
             /\ Whole(f, m) = Whole(f, m - 1) \o MessageCells(f, m)
  <2>1. /\ m - 1 \in Nat /\ m - 1 < Len(Parts(f)) /\ m - 1 + 1 = m
        /\ m - 1 \in 0 .. Messages(f) /\ m \in 0 .. Messages(f)
    BY ONLY <1>1, <1>2, m \in 1 .. Messages(f)
  <2>2. /\ FlattenSeq(First(Parts(f), m - 1)) \in Seq(Cells)
        /\ FlattenSeq(First(Parts(f), m - 1 + 1))
             = FlattenSeq(First(Parts(f), m - 1)) \o Parts(f)[m - 1 + 1]
    BY ONLY <1>2, <2>1, FlattenStep
  <2> QED
    BY ONLY <1>2, <1>4, <2>1, <2>2, m \in 1 .. Messages(f)
<1>8. \A m \in 0 .. Messages(f) : Whole(f, m) \in Seq(Cells)
  <2> TAKE m \in 0 .. Messages(f)
  <2>1. CASE m = 0
    BY ONLY <1>5, <2>1, EmptySeq
  <2>2. CASE m # 0
    <3>1. m \in 1 .. Messages(f)
      BY <1>1, <2>2
    <3> QED
      BY <1>7, <3>1, MessageShape, ConcatProperties
  <2> QED
    BY <2>1, <2>2
<1> QED
  BY <1>5, <1>6, <1>7, <1>8

\* The messages before the m-th and the m-th end within the stream.
LEMMA WholeIsFirst ==
  ASSUME NEW f \in Sides
  PROVE  \A m \in 0 .. Messages(f) :
           /\ Offset(f, m) \in 0 .. Len(Stream[f])
           /\ \A k \in 1 .. Offset(f, m) : Stream[f][k] = Whole(f, m)[k]
<1> DEFINE P(m) == /\ Offset(f, m) \in 0 .. Len(Stream[f])
                   /\ \A k \in 1 .. Offset(f, m) : Stream[f][k] = Whole(f, m)[k]
           T == {j \in Nat : j <= Messages(f) => P(Messages(f) - j)}
<1>1. Messages(f) \in Nat
  BY Numbers
<1>2. 0 \in T
  <2>1. Messages(f) - 0 = Messages(f) /\ Messages(f) \in 0 .. Messages(f)
    BY <1>1
  <2>2. Offset(f, Messages(f)) = Len(Stream[f]) /\ Len(Stream[f]) \in Nat
    BY <2>1, WholeStep, LenProperties DEF Offset
  <2> QED
    BY <2>1, <2>2, WholeStep
<1>3. ASSUME NEW j \in Nat, j \in T PROVE j + 1 \in T
  <2> SUFFICES ASSUME j + 1 <= Messages(f) PROVE P(Messages(f) - (j + 1))
    OBVIOUS
  <2> DEFINE m == Messages(f) - j
  <2>1. /\ m \in 1 .. Messages(f) /\ Messages(f) - (j + 1) = m - 1
        /\ m - 1 \in 0 .. Messages(f) /\ m \in 0 .. Messages(f)
    BY <1>1
  <2>2. P(m)
    <3>1. j <= Messages(f)
      BY <1>1
    <3> QED
      BY <1>3, <3>1
  <2> HIDE DEF m
  <2>3. /\ Whole(f, m - 1) \in Seq(Cells) /\ MessageCells(f, m) \in Seq(Cells)
        /\ Whole(f, m) = Whole(f, m - 1) \o MessageCells(f, m) /\ Whole(f, m) \in Seq(Cells)
    BY <2>1, WholeStep, MessageShape
  <2>4. /\ Len(Whole(f, m - 1)) \in Nat /\ Len(MessageCells(f, m)) \in Nat
        /\ Len(Whole(f, m)) = Len(Whole(f, m - 1)) + Len(MessageCells(f, m))
        /\ \A i \in 1 .. Len(Whole(f, m - 1)) : Whole(f, m)[i] = Whole(f, m - 1)[i]
    BY ONLY <2>3, ConcatProperties, LenProperties
  <2>5. Len(Stream[f]) \in Nat
    BY <1>1, WholeStep, LenProperties
  <2>6. P(m - 1)
    BY ONLY <2>2, <2>4, <2>5 DEF Offset
  <2> QED
    BY <2>1, <2>6
<1>4. \A j \in Nat : j \in T
  <2> HIDE DEF T
  <2> QED
    BY <1>2, <1>3, SetInduction
<1> HIDE DEF P
<1> TAKE m \in 0 .. Messages(f)
<1>5. Messages(f) - m \in Nat /\ Messages(f) - m <= Messages(f) /\ Messages(f) - (Messages(f) - m) = m
  BY <1>1
<1>6. P(m)
  BY <1>4, <1>5
<1> QED
  BY <1>6 DEF P

\* What is at which place of a stream.
LEMMA Layout ==
  ASSUME NEW f \in Sides, NEW m \in 1 .. Messages(f)
  PROVE  /\ m \in Nat /\ Script[f][m].len \in Nat
         /\ Offset(f, m - 1) \in Nat
         /\ Offset(f, m) = Offset(f, m - 1) + HeadLen(f, m) + Script[f][m].len
         /\ Offset(f, m) <= Len(Stream[f])
         /\ Tagged(f, m) => Stream[f][Offset(f, m - 1) + 1] = Cell(m, "tag", 1)
         /\ \A k \in 1 .. SizeCells :
              Stream[f][Offset(f, m - 1) + TagLen(f, m) + k] = Cell(m, "size", k)
         /\ \A k \in 1 .. Script[f][m].len :
              Stream[f][Offset(f, m - 1) + HeadLen(f, m) + k] = Cell(m, "data", k)
<1>0. /\ m \in Nat /\ Script[f][m].len \in Nat /\ SizeCells \in Nat /\ SizeCells > 0
      /\ m \in 0 .. Messages(f) /\ m - 1 \in 0 .. Messages(f)
      /\ TagLen(f, m) \in 0 .. 1 /\ HeadLen(f, m) = TagLen(f, m) + SizeCells
      /\ Tagged(f, m) => TagLen(f, m) = 1
  BY Numbers DEF HeadLen, TagLen
<1>1. /\ Whole(f, m - 1) \in Seq(Cells) /\ MessageCells(f, m) \in Seq(Cells)
      /\ Whole(f, m) = Whole(f, m - 1) \o MessageCells(f, m)
  BY <1>0, WholeStep, MessageShape
<1>2. Len(MessageCells(f, m)) = HeadLen(f, m) + Script[f][m].len
  BY MessageShape
<1>3. /\ Offset(f, m - 1) \in Nat
      /\ Offset(f, m) = Offset(f, m - 1) + (HeadLen(f, m) + Script[f][m].len)
      /\ \A i \in 1 .. Offset(f, m) :
           Whole(f, m)[i] = IF i <= Offset(f, m - 1) THEN Whole(f, m - 1)[i]
                                                     ELSE MessageCells(f, m)[i - Offset(f, m - 1)]
  BY ONLY <1>1, <1>2, ConcatProperties, LenProperties DEF Offset
<1>4. /\ Offset(f, m) \in 0 .. Len(Stream[f])
      /\ \A i \in 1 .. Offset(f, m) : Stream[f][i] = Whole(f, m)[i]
  BY <1>0, WholeIsFirst
<1>5. \A i \in 1 .. HeadLen(f, m) + Script[f][m].len :
        Stream[f][Offset(f, m - 1) + i] = MessageCells(f, m)[i]
  <2> TAKE i \in 1 .. HeadLen(f, m) + Script[f][m].len
  <2>1. /\ Offset(f, m - 1) + i \in 1 .. Offset(f, m)
        /\ ~(Offset(f, m - 1) + i <= Offset(f, m - 1))
        /\ Offset(f, m - 1) + i - Offset(f, m - 1) = i
    BY ONLY <1>0, <1>3, i \in 1 .. HeadLen(f, m) + Script[f][m].len
  <2> QED
    BY ONLY <1>3, <1>4, <2>1
<1>6. Tagged(f, m) => Stream[f][Offset(f, m - 1) + 1] = Cell(m, "tag", 1)
  <2> HAVE Tagged(f, m)
  <2>1. 1 \in 1 .. HeadLen(f, m) + Script[f][m].len
    BY ONLY <1>0, Tagged(f, m)
  <2> QED
    BY ONLY <1>5, <2>1, MessageShape, f \in Sides, m \in 1 .. Messages(f), Tagged(f, m)
<1>7. ASSUME NEW k \in 1 .. SizeCells
      PROVE  Stream[f][Offset(f, m - 1) + TagLen(f, m) + k] = Cell(m, "size", k)
  <2>1. /\ TagLen(f, m) + k \in 1 .. HeadLen(f, m) + Script[f][m].len
        /\ Offset(f, m - 1) + TagLen(f, m) + k = Offset(f, m - 1) + (TagLen(f, m) + k)
    BY ONLY <1>0, <1>3, k \in 1 .. SizeCells
  <2>2. MessageCells(f, m)[TagLen(f, m) + k] = Cell(m, "size", k)
    BY MessageShape
  <2> QED
    BY ONLY <1>5, <2>1, <2>2
<1>8. ASSUME NEW k \in 1 .. Script[f][m].len
      PROVE  Stream[f][Offset(f, m - 1) + HeadLen(f, m) + k] = Cell(m, "data", k)
  <2>1. /\ HeadLen(f, m) + k \in 1 .. HeadLen(f, m) + Script[f][m].len
        /\ Offset(f, m - 1) + HeadLen(f, m) + k = Offset(f, m - 1) + (HeadLen(f, m) + k)
    BY ONLY <1>0, <1>3, k \in 1 .. Script[f][m].len
  <2>2. MessageCells(f, m)[HeadLen(f, m) + k] = Cell(m, "data", k)
    BY MessageShape
  <2> QED
    BY ONLY <1>5, <2>1, <2>2
<1>9. /\ Offset(f, m) = Offset(f, m - 1) + HeadLen(f, m) + Script[f][m].len
      /\ Offset(f, m) <= Len(Stream[f])
  <2>1. Len(Stream[f]) \in Nat
    <3>1. Messages(f) \in 0 .. Messages(f)
      BY Numbers
    <3> QED
      BY <3>1, WholeStep, LenProperties
  <2> QED
    BY ONLY <1>0, <1>3, <1>4, <2>1
<1> QED
  BY ONLY <1>0, <1>3, <1>6, <1>7, <1>8, <1>9

\* The ends of a stream, and of whole messages in it.
LEMMA StreamEnds ==
  ASSUME NEW f \in Sides
  PROVE  /\ Stream[f] \in Seq(Cells) /\ Len(Stream[f]) \in Nat
         /\ Offset(f, 0) = 0 /\ Offset(f, Messages(f)) = Len(Stream[f])
         /\ \A m \in 0 .. Messages(f) :
              /\ Offset(f, m) \in 0 .. Len(Stream[f])
              /\ Whole(f, m) = SubSeq(Stream[f], 1, Offset(f, m))
<1>1. Messages(f) \in 0 .. Messages(f)
  BY Numbers
<1>2. Stream[f] \in Seq(Cells) /\ Len(Stream[f]) \in Nat
  BY <1>1, WholeStep, LenProperties
<1>3. Offset(f, 0) = 0 /\ Offset(f, Messages(f)) = Len(Stream[f])
  BY WholeStep DEF Offset
<1>4. ASSUME NEW m \in 0 .. Messages(f)
      PROVE  /\ Offset(f, m) \in 0 .. Len(Stream[f])
             /\ Whole(f, m) = SubSeq(Stream[f], 1, Offset(f, m))
  <2>1. /\ Offset(f, m) \in 0 .. Len(Stream[f])
        /\ \A k \in 1 .. Offset(f, m) : Stream[f][k] = Whole(f, m)[k]
    BY WholeIsFirst
  <2>2. Whole(f, m) \in Seq(Cells) /\ Len(Whole(f, m)) = Offset(f, m)
    BY WholeStep DEF Offset
  <2>3. /\ SubSeq(Stream[f], 1, Offset(f, m)) \in Seq(Cells)
        /\ Len(SubSeq(Stream[f], 1, Offset(f, m))) = Offset(f, m)
        /\ \A k \in 1 .. Offset(f, m) : SubSeq(Stream[f], 1, Offset(f, m))[k] = Stream[f][k]
    BY ONLY <1>2, <2>1, SubSeqProperties
  <2>4. Whole(f, m) = SubSeq(Stream[f], 1, Offset(f, m))
    BY ONLY <2>1, <2>2, <2>3, SeqEqual
  <2> QED
    BY <2>1, <2>4
<1> QED
  BY <1>2, <1>3, <1>4

-----------------------------------------------------------------------------
(* The invariant *)

\* What was read from one side and sent to the other
Upto(f, k) == SubSeq(Stream[f], 1, k)
Forwarded(f, k) == sent[Peer(f)] = Upto(f, k)

TypesInv ==
  /\ TypeOK
  /\ arrived \in [Sides -> Nat] /\ read \in [Sides -> Nat]
  /\ sent \in [Sides -> Seq(Cells)] /\ req_buf \in Seq(Cells)

\* What is sent is a part of the stream, whatever becomes of the session
Begun(f) == \E k \in 0 .. Len(Stream[f]) : Forwarded(f, k)
PrefixInv == \A f \in Sides : Begun(f) \/ (f = "client" /\ garbage)

\* A direction that is not under way has forwarded whole messages
Resting(f) == f # from \/ pc \in {"idle", "wait", "tag"}
RestsAt(f, m) == /\ read[f] = Offset(f, m) /\ Forwarded(f, Offset(f, m))
                 /\ f = "client" => m = requests
Rested(f) == \E m \in 0 .. Messages(f) : RestsAt(f, m)
RestInv ==
  open /\ pc # "close" =>
    \A f \in Sides : Resting(f) /\ ~(f = "client" /\ garbage) => Rested(f)

\* The first request has no tag; nothing of the payload is read with the head
HeadInv == /\ pc = "tag" /\ from = "client" => requests >= 1
           /\ pc \in {"tag", "size"} => got = 0

\* The end of a connection that was not noticed yet
Hopeless(f) == Available(f) = 0 /\ conn[f] = "dead"

\* The tag was read, if there is one, or its loss goes unnoticed
AtSize(m) ==
  /\ read[from] = Offset(from, m - 1) + TagLen(from, m)
  /\ Forwarded(from, Offset(from, m - 1))
  /\ Tagged(from, m) => m <= Messages(from)
  /\ from = "client" => m = requests
SizeInv ==
  pc = "size" => \/ Hopeless(from) /\ (from = "client" => requests > 1)
                 \/ \E m \in 1 .. Messages(from) + 1 : AtSize(m)

\* How much of the message was sent
SentLen(m) ==
  CASE pc = "sendSize" -> TagLen(from, m)
    [] pc = "sendData" -> HeadLen(from, m)
    [] OTHER -> 0

\* Its payload is in the buffer, as far as it was read
InMessage(m) ==
  /\ read[from] = Offset(from, m - 1) + HeadLen(from, m) + got
  /\ got <= Script[from][m].len
  /\ pc # "payload" => got = Script[from][m].len
  /\ \A k \in 1 .. got : req_buf[k] = Cell(m, "data", k)
  /\ Forwarded(from, Offset(from, m - 1) + SentLen(m))
  /\ pc = "sendTag" => Tagged(from, m)
  /\ from = "client" => m = requests
MessageInv ==
  pc \in {"payload", "log", "sendTag", "sendSize", "sendData"} /\ ~Garbled =>
    \E m \in 1 .. Messages(from) : InMessage(m)

\* After a header that was never received the client is gone
GarbageInv ==
  garbage => /\ conn["client"] = "dead" /\ arrived["client"] = 0 /\ requests = 1
             /\ from = "client" => pc \notin {"size", "payload", "sendTag"}

\* A session is closed between two calls
OpenInv == ~open => pc = "idle"

SessionInv ==
  /\ TypesInv /\ PrefixInv /\ RestInv /\ HeadInv /\ SizeInv /\ MessageInv /\ GarbageInv
  /\ OpenInv

-----------------------------------------------------------------------------
(* What the steps need *)

\* Two sides, each the other's peer.
LEMMA Peers ==
  /\ \A f \in Sides : Peer(f) \in Sides /\ Peer(f) # f /\ Peer(Peer(f)) = f
  /\ \A f, g \in Sides : f # g => Peer(f) # Peer(g)
BY DEF Sides, Peer

\* Parts of a stream, joined.
LEMMA UptoExtends ==
  ASSUME NEW f \in Sides, NEW j \in 0 .. Len(Stream[f]), NEW k \in j .. Len(Stream[f])
  PROVE  /\ Upto(f, j) \in Seq(Cells) /\ Len(Upto(f, j)) = j
         /\ SubSeq(Stream[f], j + 1, k) \in Seq(Cells)
         /\ Len(SubSeq(Stream[f], j + 1, k)) = k - j
         /\ \A i \in 1 .. k - j : SubSeq(Stream[f], j + 1, k)[i] = Stream[f][j + i]
         /\ Upto(f, j) \o SubSeq(Stream[f], j + 1, k) = Upto(f, k)
<1>1. /\ Stream[f] \in Seq(Cells) /\ Len(Stream[f]) \in Nat
      /\ \A i \in 1 .. Len(Stream[f]) : Stream[f][i] \in Cells
  <2>1. Stream[f] \in Seq(Cells) /\ Len(Stream[f]) \in Nat
    BY StreamEnds
  <2> QED
    BY <2>1, ElementOfSeq
<1>2. /\ j \in Nat /\ k \in Nat /\ j <= k /\ j <= Len(Stream[f]) /\ k <= Len(Stream[f])
      /\ 1 .. j \subseteq 1 .. Len(Stream[f]) /\ j + 1 .. k \subseteq 1 .. Len(Stream[f])
  BY <1>1
<1>3. /\ SubSeq(Stream[f], 1, j) \in Seq(Cells)
      /\ Len(SubSeq(Stream[f], 1, j)) = IF 1 <= j THEN j - 1 + 1 ELSE 0
  <2>1. \A i \in 1 .. j : Stream[f][i] \in Cells
    BY ONLY <1>1, <1>2
  <2>2. 1 \in Int /\ j \in Int
    BY <1>2
  <2> QED
    BY ONLY <2>1, <2>2, SubSeqProperties
<1>4. /\ SubSeq(Stream[f], j + 1, k) \in Seq(Cells)
      /\ Len(SubSeq(Stream[f], j + 1, k)) = IF j + 1 <= k THEN k - (j + 1) + 1 ELSE 0
      /\ \A i \in 1 .. k - (j + 1) + 1 :
           SubSeq(Stream[f], j + 1, k)[i] = Stream[f][j + 1 + i - 1]
  <2>1. \A i \in j + 1 .. k : Stream[f][i] \in Cells
    BY ONLY <1>1, <1>2
  <2>2. j + 1 \in Int /\ k \in Int
    BY <1>2
  <2> QED
    BY ONLY <2>1, <2>2, SubSeqProperties
<1>5. Upto(f, j) \o SubSeq(Stream[f], j + 1, k) = Upto(f, k)
  <2>1. 1 \in 1 .. Len(Stream[f]) + 1 /\ j \in 1 - 1 .. Len(Stream[f])
    BY <1>1, <1>2
  <2>2. SubSeq(Stream[f], 1, j) \o SubSeq(Stream[f], j + 1, k) = SubSeq(Stream[f], 1, k)
    BY ONLY <1>1, <2>1, k \in j .. Len(Stream[f]), ConcatAdjacentSubSeq
  <2> QED
    BY <2>2 DEF Upto
<1>6. /\ \A i \in 1 .. k - j : i \in 1 .. k - (j + 1) + 1 /\ j + 1 + i - 1 = j + i
      /\ k - j = IF j + 1 <= k THEN k - (j + 1) + 1 ELSE 0
      /\ j = IF 1 <= j THEN j - 1 + 1 ELSE 0
  BY <1>2
<1>7. \A i \in 1 .. k - j : SubSeq(Stream[f], j + 1, k)[i] = Stream[f][j + i]
  <2> TAKE i \in 1 .. k - j
  <2>1. i \in 1 .. k - (j + 1) + 1 /\ j + 1 + i - 1 = j + i
    BY ONLY <1>6
  <2> QED
    BY ONLY <1>4, <2>1
<1> QED
  BY ONLY <1>3, <1>4, <1>5, <1>6, <1>7 DEF Upto

\* A part of a stream
LEMMA Segment ==
  ASSUME NEW f \in Sides, NEW j \in Nat, NEW n \in Nat, j + n <= Len(Stream[f])
  PROVE  /\ SubSeq(Stream[f], j + 1, j + n) \in Seq(Cells)
         /\ Len(SubSeq(Stream[f], j + 1, j + n)) = n
         /\ \A i \in 1 .. n : SubSeq(Stream[f], j + 1, j + n)[i] = Stream[f][j + i]
         /\ Upto(f, j) \o SubSeq(Stream[f], j + 1, j + n) = Upto(f, j + n)
<1>1. Len(Stream[f]) \in Nat
  BY StreamEnds
<1>2. PICK k : k = j + n
  OBVIOUS
<1>3. j \in 0 .. Len(Stream[f]) /\ k \in j .. Len(Stream[f]) /\ k - j = n
  BY <1>1, <1>2
<1>4. /\ SubSeq(Stream[f], j + 1, k) \in Seq(Cells)
      /\ Len(SubSeq(Stream[f], j + 1, k)) = k - j
      /\ \A i \in 1 .. k - j : SubSeq(Stream[f], j + 1, k)[i] = Stream[f][j + i]
      /\ Upto(f, j) \o SubSeq(Stream[f], j + 1, k) = Upto(f, k)
  BY ONLY <1>3, f \in Sides, UptoExtends
<1> QED
  BY ONLY <1>2, <1>3, <1>4

\* The cells of a message are of that message.
LEMMA CellsOfMessage ==
  ASSUME NEW f \in Sides, NEW m \in 1 .. Messages(f),
         NEW p \in Offset(f, m - 1) + 1 .. Offset(f, m)
  PROVE  Stream[f][p].msg = m
<1>1. /\ Offset(f, m - 1) \in Nat /\ Script[f][m].len \in Nat /\ m \in Nat
      /\ Offset(f, m) = Offset(f, m - 1) + HeadLen(f, m) + Script[f][m].len
      /\ SizeCells \in Nat /\ HeadLen(f, m) = TagLen(f, m) + SizeCells
      /\ TagLen(f, m) = IF Tagged(f, m) THEN 1 ELSE 0
  BY Numbers, Layout DEF HeadLen, TagLen
<1> DEFINE k == p - Offset(f, m - 1)
<1>2. /\ k \in 1 .. HeadLen(f, m) + Script[f][m].len
      /\ p = Offset(f, m - 1) + k
  BY <1>1
<1> HIDE DEF k
<1>3. \/ k = 1 /\ Tagged(f, m)
      \/ k - TagLen(f, m) \in 1 .. SizeCells
      \/ k - HeadLen(f, m) \in 1 .. Script[f][m].len
  BY <1>1, <1>2
<1>7. /\ Tagged(f, m) => Stream[f][Offset(f, m - 1) + 1] = Cell(m, "tag", 1)
      /\ \A i \in 1 .. SizeCells :
           Stream[f][Offset(f, m - 1) + TagLen(f, m) + i] = Cell(m, "size", i)
      /\ \A i \in 1 .. Script[f][m].len :
           Stream[f][Offset(f, m - 1) + HeadLen(f, m) + i] = Cell(m, "data", i)
  BY Layout
<1>8. \A i : Cell(m, "tag", i).msg = m /\ Cell(m, "size", i).msg = m /\ Cell(m, "data", i).msg = m
  BY DEF Cell
<1>4. CASE k = 1 /\ Tagged(f, m)
  BY ONLY <1>2, <1>4, <1>7, <1>8
<1>5. CASE k - TagLen(f, m) \in 1 .. SizeCells
  <2>1. p = Offset(f, m - 1) + TagLen(f, m) + (k - TagLen(f, m))
    BY <1>1, <1>2
  <2> QED
    BY ONLY <1>5, <1>7, <1>8, <2>1
<1>6. CASE k - HeadLen(f, m) \in 1 .. Script[f][m].len
  <2>1. p = Offset(f, m - 1) + HeadLen(f, m) + (k - HeadLen(f, m))
    BY <1>1, <1>2
  <2> QED
    BY ONLY <1>6, <1>7, <1>8, <2>1
<1> QED
  BY <1>3, <1>4, <1>5, <1>6

\* A side that rests keeps resting while nothing is read from it or sent for it.
LEMMA KeepsResting ==
  ASSUME NEW f \in Sides, Rested(f), read'[f] = read[f], sent'[Peer(f)] = sent[Peer(f)],
         f = "client" => requests' = requests
  PROVE  Rested(f)'
BY DEF Rested, RestsAt, Forwarded

-----------------------------------------------------------------------------
(* The steps *)

\* At first nothing was read or sent.
LEMMA InitSession == Init => SessionInv
<1> SUFFICES ASSUME Init PROVE SessionInv
  OBVIOUS
<1> USE DEF Init
<1>1. \A f \in Sides : Offset(f, 0) = 0 /\ Len(Stream[f]) \in Nat /\ Upto(f, 0) = <<>>
  <2> TAKE f \in Sides
  <2>1. Offset(f, 0) = 0 /\ Len(Stream[f]) \in Nat
    BY StreamEnds
  <2>2. 0 \in 0 .. Len(Stream[f]) /\ 0 \in 0 .. Len(Stream[f])
    BY <2>1
  <2>3. Upto(f, 0) \in Seq(Cells) /\ Len(Upto(f, 0)) = 0
    BY <2>2, UptoExtends
  <2> QED
    BY <2>1, <2>3, EmptySeq
<1>2. \A f \in Sides : read[f] = 0 /\ arrived[f] = 0 /\ sent[f] = <<>> /\ Messages(f) \in Nat
  BY Numbers
<1>3. TypesInv
  <2>1. TypeOK
    <3>1. Len(req_buf) = 0 /\ Len(Script["client"]) \in Nat
      BY <1>2, EmptySeq DEF Messages, Sides
    <3>2. \A f \in Sides : read[f] \in 0 .. arrived[f] /\ arrived[f] \in 0 .. Len(Stream[f])
      BY <1>1, <1>2
    <3>3. requests \in 0 .. Len(Script["client"]) + 1 /\ got \in 0 .. Len(req_buf)
      BY <3>1
    <3> HIDE DEF Init
    <3>4. /\ conn \in [Sides -> {"up", "fin", "reset", "gone", "dead"}]
          /\ split \in BOOLEAN /\ open \in BOOLEAN /\ garbage \in BOOLEAN /\ killed \in BOOLEAN
          /\ from \in Sides /\ pc = "idle"
      BY DEF Init, Sides
    <3> QED
      BY <3>2, <3>3, <3>4 DEF TypeOK
  <2> QED
    BY <1>2, <2>1, EmptySeq DEF TypesInv
<1>4. \A f \in Sides : Forwarded(f, 0)
  BY <1>1, <1>2, Peers DEF Forwarded
<1>5. PrefixInv
  BY <1>1, <1>4 DEF PrefixInv, Begun
<1>6. RestInv
  BY <1>1, <1>2, <1>4 DEF RestInv, Rested, RestsAt
<1> QED
  BY <1>3, <1>5, <1>6 DEF SessionInv, HeadInv, SizeInv, MessageInv, GarbageInv, OpenInv

\* The end of the other direction's turn, or the beginning of the next one
LEMMA StartStep == SessionInv /\ (Start \/ NothingToRead) => SessionInv'
<1> SUFFICES ASSUME SessionInv, Start \/ NothingToRead PROVE SessionInv'
  OBVIOUS
<1>1. /\ pc' \in {"idle", "wait"} /\ from' \in Sides /\ pc \in {"idle", "wait"}
      /\ pc' = "idle" => from' = "client"
      /\ UNCHANGED <<streamVars, read, sent, open, requests, req_buf, log, got, garbage, killed>>
      /\ pc = "idle" => open
  BY DEF Start, NothingToRead, NextDirection, Sides
<1>2. UNCHANGED <<arrived, conn, split, read, sent, open, requests, req_buf, got, garbage, killed>>
  BY <1>1 DEF streamVars
<1>3. TypesInv'
  BY <1>1, <1>2 DEF SessionInv, TypesInv, TypeOK
<1>4. PrefixInv'
  BY <1>2 DEF SessionInv, PrefixInv, Begun, Forwarded
<1>5. RestInv'
  <2> SUFFICES ASSUME open', NEW f \in Sides, ~(f = "client" /\ garbage') PROVE Rested(f)'
    BY DEF RestInv
  <2>1. Rested(f)
    BY <1>1, <1>2 DEF SessionInv, RestInv, Resting
  <2> QED
    BY <1>2, <2>1, KeepsResting
<1>6. HeadInv' /\ SizeInv' /\ MessageInv'
  BY <1>1 DEF HeadInv, SizeInv, MessageInv
<1>7. GarbageInv'
  BY <1>1, <1>2 DEF SessionInv, GarbageInv
<1>8. OpenInv'
  BY <1>1, <1>2 DEF SessionInv, OpenInv
<1> QED
  BY <1>3, <1>4, <1>5, <1>6, <1>7, <1>8 DEF SessionInv

\* A message begins: the direction it belongs to was resting.
LEMMA BeginStep == SessionInv /\ BeginMessage => SessionInv'
<1> SUFFICES ASSUME SessionInv, BeginMessage PROVE SessionInv'
  OBVIOUS
<1>1. /\ pc = "wait" /\ got' = 0 /\ pc' \in {"tag", "size"}
      /\ UNCHANGED <<arrived, conn, split, read, sent, open, req_buf, from, garbage, killed>>
      /\ pc' = "size" => from = "client" /\ requests = 0 /\ requests' = 1
      /\ pc' = "tag" => ~(from = "client" /\ requests = 0) /\ requests' = requests
  BY DEF BeginMessage, streamVars
<1>2. /\ TypesInv /\ RestInv /\ GarbageInv /\ OpenInv /\ from \in Sides /\ requests \in Nat
      /\ Messages("client") \in Nat
  BY Numbers DEF SessionInv, TypesInv, TypeOK, Sides
<1>3. TypesInv'
  BY <1>1, <1>2 DEF TypesInv, TypeOK, Messages
<1>4. PrefixInv'
  BY <1>1 DEF SessionInv, PrefixInv, Begun, Forwarded
<1>5. \A f \in Sides : ~(f = "client" /\ garbage) => Rested(f)
  BY <1>1, <1>2 DEF RestInv, Resting, OpenInv
<1>6. RestInv'
  <2> SUFFICES ASSUME NEW f \in Sides, Resting(f)', ~(f = "client" /\ garbage') PROVE Rested(f)'
    BY DEF RestInv
  <2>1. f = "client" => requests' = requests
    BY <1>1 DEF Resting
  <2> QED
    BY <1>1, <1>5, <2>1, KeepsResting
<1>7. HeadInv'
  BY <1>1, <1>2 DEF HeadInv
<1>8. SizeInv'
  <2> SUFFICES ASSUME pc' = "size" PROVE AtSize(1)' /\ 1 \in 1 .. Messages(from) + 1
    BY <1>1 DEF SizeInv
  <2>1. ~garbage /\ from = "client" /\ requests = 0
    BY <1>1, <1>2 DEF GarbageInv
  <2>2. PICK m \in 0 .. Messages("client") : RestsAt("client", m)
    BY <1>5, <2>1 DEF Rested, Sides
  <2>3. m = 0 /\ ~Tagged("client", 1)
    BY <2>1, <2>2 DEF RestsAt, Tagged
  <2>4. Offset("client", 0) = 0
    BY StreamEnds DEF Sides
  <2>5. /\ read'["client"] = Offset("client", 1 - 1) + TagLen("client", 1)
        /\ sent'[Peer("client")] = Upto("client", Offset("client", 1 - 1))
    BY <1>1, <2>2, <2>3, <2>4 DEF RestsAt, TagLen, Forwarded
  <2>6. from' = "client" /\ requests' = 1
    BY <1>1, <2>1
  <2> QED
    BY <1>2, <2>1, <2>3, <2>5, <2>6 DEF AtSize, Forwarded
<1>9. MessageInv'
  BY <1>1 DEF MessageInv
<1>10. GarbageInv' /\ OpenInv'
  BY <1>1, <1>2 DEF GarbageInv, OpenInv
<1> QED
  BY <1>3, <1>4, <1>6, <1>7, <1>8, <1>9, <1>10 DEF SessionInv

\* Both sockets are closed.
LEMMA CloseStep == SessionInv /\ CloseBoth => SessionInv'
<1> SUFFICES ASSUME SessionInv, CloseBoth PROVE SessionInv'
  OBVIOUS
<1>1. /\ pc' = "idle" /\ from' = "client" /\ open' = FALSE
      /\ UNCHANGED <<arrived, conn, split, read, sent, requests, req_buf, got, garbage, killed>>
  BY DEF CloseBoth, streamVars
<1>2. TypesInv'
  BY <1>1 DEF SessionInv, TypesInv, TypeOK, Sides
<1>3. PrefixInv'
  BY <1>1 DEF SessionInv, PrefixInv, Begun, Forwarded
<1>4. RestInv' /\ HeadInv' /\ SizeInv' /\ MessageInv' /\ OpenInv'
  BY <1>1 DEF RestInv, HeadInv, SizeInv, MessageInv, OpenInv
<1>5. GarbageInv'
  BY <1>1 DEF SessionInv, GarbageInv
<1> QED
  BY <1>2, <1>3, <1>4, <1>5 DEF SessionInv

\* More arrives, or a peer leaves: neither touches what was read, sent or lost.
LEMMA PeerStep ==
  ASSUME NEW side \in Sides
  PROVE  SessionInv /\ (Arrive(side) \/ Leave(side)) => SessionInv'
<1> SUFFICES ASSUME SessionInv, Arrive(side) \/ Leave(side) PROVE SessionInv'
  OBVIOUS
<1>1. /\ conn[side] = "up" /\ split' \in BOOLEAN
      /\ UNCHANGED <<read, sent, open, requests, req_buf, pc, from, got, garbage, killed>>
      /\ \/ /\ conn' = conn
            /\ \E n \in arrived[side] + 1 .. Len(Stream[side]) :
                 arrived' = [arrived EXCEPT ![side] = n]
         \/ /\ arrived' = arrived
            /\ \E s \in {"fin", "reset"} : conn' = [conn EXCEPT ![side] = s]
  <2>1. CASE Arrive(side)
    BY <2>1 DEF Arrive
  <2>2. CASE Leave(side)
    BY <2>2 DEF Leave, SessionInv, TypesInv, TypeOK
  <2> QED
    BY <2>1, <2>2
<1>2. /\ TypesInv /\ GarbageInv /\ SizeInv
      /\ conn \in [Sides -> {"up", "fin", "reset", "gone", "dead"}]
      /\ arrived \in [Sides -> Nat] /\ read \in [Sides -> Nat] /\ from \in Sides
      /\ \A f \in Sides : read[f] <= arrived[f] /\ arrived[f] <= Len(Stream[f])
                          /\ Len(Stream[f]) \in Nat
      /\ side \in Sides
  BY StreamEnds DEF SessionInv, TypesInv, TypeOK
<1>3. /\ arrived' \in [Sides -> Nat] /\ conn' \in [Sides -> {"up", "fin", "reset", "gone", "dead"}]
      /\ \A f \in Sides : read[f] <= arrived'[f] /\ arrived'[f] <= Len(Stream[f])
      /\ \A f \in Sides : conn[f] = "dead" => conn'[f] = "dead" /\ arrived'[f] = arrived[f]
  <2>1. CASE /\ conn' = conn
             /\ \E n \in arrived[side] + 1 .. Len(Stream[side]) :
                  arrived' = [arrived EXCEPT ![side] = n]
    <3>1. PICK n \in arrived[side] + 1 .. Len(Stream[side]) :
            arrived' = [arrived EXCEPT ![side] = n]
      BY <2>1
    <3>2. /\ n \in Nat /\ arrived[side] <= n /\ n <= Len(Stream[side])
          /\ read[side] <= n /\ side \in Sides
      BY ONLY <1>2, <3>1
    <3>3. \A f \in Sides : arrived'[f] = IF f = side THEN n ELSE arrived[f]
      BY ONLY <1>2, <3>1
    <3>4. arrived' \in [Sides -> Nat]
      BY ONLY <1>2, <3>1, <3>2
    <3> QED
      BY ONLY <1>1, <1>2, <2>1, <3>2, <3>3, <3>4
  <2>2. CASE /\ arrived' = arrived
             /\ \E s \in {"fin", "reset"} : conn' = [conn EXCEPT ![side] = s]
    BY ONLY <1>1, <1>2, <2>2
  <2> QED
    BY ONLY <1>1, <2>1, <2>2
<1>4. TypesInv'
  <2>1. \A f \in Sides : read'[f] \in 0 .. arrived'[f] /\ arrived'[f] \in 0 .. Len(Stream[f])
    BY ONLY <1>1, <1>2, <1>3
  <2>2. TypeOK'
    BY <1>1, <1>2, <1>3, <2>1 DEF TypesInv, TypeOK
  <2> QED
    BY <1>1, <1>2, <1>3, <2>2 DEF TypesInv
<1>5. PrefixInv'
  BY <1>1 DEF SessionInv, PrefixInv, Begun, Forwarded
<1>6. RestInv'
  BY <1>1 DEF SessionInv, RestInv, Resting, Rested, RestsAt, Forwarded
<1>7. HeadInv' /\ OpenInv'
  BY <1>1 DEF SessionInv, HeadInv, OpenInv
<1>8. SizeInv'
  <2>1. Hopeless(from) => Hopeless(from)'
    BY <1>1, <1>2, <1>3 DEF Hopeless, Available
  <2>2. \A m : AtSize(m) => AtSize(m)'
    BY <1>1 DEF AtSize, Forwarded
  <2> QED
    BY <1>1, <1>2, <2>1, <2>2 DEF SizeInv
<1>9. MessageInv'
  BY <1>1 DEF SessionInv, MessageInv, InMessage, Garbled, SentLen, Forwarded
<1>10. GarbageInv'
  BY <1>1, <1>2, <1>3 DEF GarbageInv, Sides
<1> QED
  BY <1>4, <1>5, <1>6, <1>7, <1>8, <1>9, <1>10 DEF SessionInv

\* process() gives up, whether or not it lost the connection it read from or sent to.
LEMMA GivesUp ==
  ASSUME SessionInv, pc' = "close", pc # "idle",
         conn' \in [Sides -> {"up", "fin", "reset", "gone", "dead"}],
         conn["client"] = "dead" => conn'["client"] = "dead",
         killed' \in BOOLEAN, requests' = requests,
         UNCHANGED <<arrived, split, sent, open, from, garbage>>,
         read' \in [Sides -> Nat], \A f \in Sides : read'[f] <= arrived[f],
         req_buf' = req_buf, got' = got
  PROVE  SessionInv'
<1>1. TypesInv'
  <2>1. \A f \in Sides : read'[f] \in 0 .. arrived'[f] /\ arrived'[f] \in 0 .. Len(Stream[f])
    BY DEF SessionInv, TypesInv, TypeOK
  <2>2. TypeOK'
    BY <2>1 DEF SessionInv, TypesInv, TypeOK
  <2> QED
    BY <2>2 DEF SessionInv, TypesInv
<1>2. PrefixInv'
  BY DEF SessionInv, PrefixInv, Begun, Forwarded
<1>3. RestInv' /\ HeadInv' /\ SizeInv' /\ MessageInv'
  BY DEF RestInv, HeadInv, SizeInv, MessageInv
<1>4. GarbageInv'
  BY DEF SessionInv, GarbageInv
<1>5. OpenInv'
  BY DEF SessionInv, OpenInv
<1> QED
  BY <1>1, <1>2, <1>3, <1>4, <1>5 DEF SessionInv

\* What the types say of the side that is read
LEMMA ReadSide ==
  ASSUME TypesInv
  PROVE  /\ from \in Sides
         /\ \A f \in Sides : /\ read[f] \in Nat /\ arrived[f] \in Nat /\ Len(Stream[f]) \in Nat
                             /\ read[f] <= arrived[f] /\ arrived[f] <= Len(Stream[f])
                             /\ Messages(f) \in Nat
         /\ conn \in [Sides -> {"up", "fin", "reset", "gone", "dead"}]
         /\ read \in [Sides -> Nat] /\ requests \in Nat
<1>1. Len(Script["client"]) \in Nat
  BY Numbers DEF Messages, Sides
<1>2. requests \in Nat
  BY <1>1 DEF TypesInv, TypeOK
<1>3. \A f \in Sides : Len(Stream[f]) \in Nat /\ Messages(f) \in Nat
  BY StreamEnds, Numbers
<1>4. \A f \in Sides : read[f] \in Nat /\ arrived[f] \in Nat
  BY DEF TypesInv
<1>5. \A f \in Sides : read[f] <= arrived[f] /\ arrived[f] <= Len(Stream[f])
  <2>1. \A f \in Sides : read[f] \in 0 .. arrived[f] /\ arrived[f] \in 0 .. Len(Stream[f])
    BY DEF TypesInv, TypeOK
  <2> QED
    BY <1>3, <1>4, <2>1
<1>6. /\ from \in Sides /\ read \in [Sides -> Nat]
      /\ conn \in [Sides -> {"up", "fin", "reset", "gone", "dead"}]
  BY DEF TypesInv, TypeOK
<1> QED
  BY ONLY <1>2, <1>3, <1>4, <1>5, <1>6

\* What a read that returns something does
LEMMA TakeFacts ==
  ASSUME TypesInv, NEW max \in Nat, NEW n, Take(from, max, n)
  PROVE  /\ n \in Nat /\ n > 0 /\ n <= max /\ read[from] + n <= arrived[from]
         /\ read' = [read EXCEPT ![from] = @ + n]
         /\ read'[from] = read[from] + n /\ \A f \in Sides : f # from => read'[f] = read[f]
         /\ read' \in [Sides -> Nat] /\ \A f \in Sides : read'[f] <= arrived[f]
         /\ arrived[from] # 0 /\ ~Hopeless(from)
<1>1. /\ from \in Sides /\ read \in [Sides -> Nat]
      /\ \A f \in Sides : read[f] \in Nat /\ arrived[f] \in Nat /\ read[f] <= arrived[f]
  BY ReadSide
<1>2. /\ n \in Nat /\ n > 0 /\ n <= max /\ read[from] + n <= arrived[from]
      /\ read' = [read EXCEPT ![from] = @ + n]
  BY <1>1 DEF Take, Available
<1>3. ~Hopeless(from)
  BY <1>1, <1>2 DEF Hopeless, Available
<1> QED
  BY <1>1, <1>2, <1>3

\* The tag is read from a side that was resting: its next message begins.
LEMMA TagStep == SessionInv /\ ReadTag => SessionInv'
<1> SUFFICES ASSUME SessionInv, ReadTag PROVE SessionInv'
  OBVIOUS
<1>1. /\ pc = "tag" /\ UNCHANGED <<arrived, split, sent, open, req_buf, from, got, garbage, killed>>
      /\ TypesInv /\ PrefixInv /\ RestInv /\ HeadInv /\ GarbageInv /\ OpenInv /\ open
      /\ killed \in BOOLEAN
  BY DEF ReadTag, SessionInv, OpenInv, TypesInv, TypeOK
<1>2. /\ from \in Sides
      /\ \A f \in Sides : /\ read[f] \in Nat /\ arrived[f] \in Nat /\ Len(Stream[f]) \in Nat
                          /\ read[f] <= arrived[f] /\ arrived[f] <= Len(Stream[f])
                          /\ Messages(f) \in Nat
      /\ conn \in [Sides -> {"up", "fin", "reset", "gone", "dead"}]
      /\ read \in [Sides -> Nat] /\ requests \in Nat
  BY <1>1, ReadSide
<1> DEFINE Count == IF from = "client" THEN requests + 1 ELSE requests
<1>3. ~(from = "client" /\ garbage) => Rested(from)
  BY <1>1, <1>2 DEF RestInv, Resting
<1>4. ASSUME pc' = "size", requests' = Count, ~(from = "client" /\ garbage),
             conn' \in [Sides -> {"up", "fin", "reset", "gone", "dead"}],
             conn["client"] = "dead" => conn'["client"] = "dead",
             read' \in [Sides -> Nat], \A f \in Sides : read'[f] <= arrived[f],
             \A f \in Sides : f # from => read'[f] = read[f],
             SizeInv'
      PROVE  SessionInv'
  <2>1. requests' \in 0 .. Len(Script["client"]) + 1
    <3>1. CASE from = "client"
      <4>1. PICK m \in 0 .. Messages(from) : RestsAt(from, m)
        BY <1>3, <1>4 DEF Rested
      <4>2. requests = m /\ requests' = m + 1
        BY <1>4, <3>1, <4>1 DEF RestsAt
      <4> QED
        BY <1>2, <3>1, <4>2 DEF Messages
    <3>2. CASE from # "client"
      BY <1>1, <1>4, <3>2 DEF TypesInv, TypeOK
    <3> QED
      BY <3>1, <3>2
  <2>2. TypesInv'
    <3>1. \A f \in Sides : read'[f] \in 0 .. arrived'[f] /\ arrived'[f] \in 0 .. Len(Stream[f])
      BY <1>1, <1>2, <1>4
    <3>2. TypeOK'
      BY <1>1, <1>4, <2>1, <3>1 DEF TypesInv, TypeOK
    <3> QED
      BY <1>1, <1>4, <3>2 DEF TypesInv
  <2>3. PrefixInv'
    BY <1>1 DEF PrefixInv, Begun, Forwarded
  <2>4. RestInv'
    <3> SUFFICES ASSUME NEW f \in Sides, Resting(f)', ~(f = "client" /\ garbage') PROVE Rested(f)'
      BY DEF RestInv
    <3>1. f # from
      BY <1>1, <1>4 DEF Resting
    <3>2. Rested(f)
      BY <1>1, <3>1 DEF RestInv, Resting
    <3>3. f = "client" => requests' = requests
      BY <1>4, <3>1
    <3> QED
      BY <1>1, <1>4, <3>1, <3>2, <3>3, KeepsResting
  <2>5. HeadInv' /\ MessageInv' /\ OpenInv'
    BY <1>1, <1>4 DEF HeadInv, MessageInv, OpenInv
  <2>6. GarbageInv'
    BY <1>1, <1>4 DEF GarbageInv
  <2> QED
    BY <1>4, <2>2, <2>3, <2>4, <2>5, <2>6 DEF SessionInv
<1>5. CASE Take(from, 1, 1) /\ requests' = Count /\ pc' = "size" /\ UNCHANGED conn
  <2>1. /\ read'[from] = read[from] + 1 /\ read[from] + 1 <= arrived[from]
        /\ \A f \in Sides : f # from => read'[f] = read[f]
        /\ read' \in [Sides -> Nat] /\ \A f \in Sides : read'[f] <= arrived[f]
        /\ arrived[from] # 0
    BY <1>1, <1>5, TakeFacts
  <2>2. ~(from = "client" /\ garbage)
    BY <1>1, <2>1 DEF GarbageInv
  <2>3. PICK m \in 0 .. Messages(from) : RestsAt(from, m)
    BY <1>3, <2>2 DEF Rested
  <2>4. m # Messages(from)
    <3>1. Offset(from, Messages(from)) = Len(Stream[from])
      BY <1>2, StreamEnds
    <3>2. read[from] = Offset(from, m)
      BY <2>3 DEF RestsAt
    <3> QED
      BY <1>2, <2>1, <3>1, <3>2
  <2>5. /\ m + 1 \in 1 .. Messages(from) /\ m + 1 \in 1 .. Messages(from) + 1
        /\ m + 1 - 1 = m /\ m + 1 <= Messages(from) /\ m \in Nat
    BY <1>2, <2>4
  <2>6. Tagged(from, m + 1)
    <3>1. from = "client" => m >= 1
      BY <1>1, <2>3 DEF HeadInv, RestsAt
    <3> QED
      BY <1>2, <2>5, <3>1 DEF Tagged, Sides
  <2>7. AtSize(m + 1)'
    <3>1. read'[from] = Offset(from, m + 1 - 1) + TagLen(from, m + 1)
      BY <2>1, <2>3, <2>5, <2>6 DEF RestsAt, TagLen
    <3>2. sent'[Peer(from)] = Upto(from, Offset(from, m + 1 - 1))
      BY <1>1, <2>3, <2>5 DEF RestsAt, Forwarded
    <3>3. from = "client" => m + 1 = requests'
      BY <1>5, <2>3 DEF RestsAt
    <3> QED
      BY <1>1, <2>5, <3>1, <3>2, <3>3 DEF AtSize, Forwarded
  <2>8. SizeInv'
    BY <1>1, <2>5, <2>7 DEF SizeInv
  <2> QED
    BY <1>2, <1>4, <1>5, <2>1, <2>2, <2>8
<1>6. CASE EndOfStream(from) /\ pc' = "close" /\ UNCHANGED <<conn, read, requests>>
  BY <1>1, <1>2, <1>6, GivesUp
<1>7. CASE /\ ReceiveFails(from) /\ UNCHANGED read
           /\ \/ pc' = "close" /\ UNCHANGED requests
              \/ pc' = "size" /\ requests' = Count
  <2>1. /\ conn' \in [Sides -> {"up", "fin", "reset", "gone", "dead"}]
        /\ conn["client"] = "dead" => conn'["client"] = "dead"
        /\ conn[from] = "reset" /\ conn'[from] = "dead" /\ Available(from) = 0
    BY <1>2, <1>7 DEF ReceiveFails
  <2>2. CASE pc' = "close" /\ UNCHANGED requests
    BY <1>1, <1>2, <1>7, <2>1, <2>2, GivesUp
  <2>3. CASE pc' = "size" /\ requests' = Count
    <3>1. ~(from = "client" /\ garbage)
      BY <1>1, <2>1 DEF GarbageInv
    <3>2. Hopeless(from)'
      BY <1>1, <1>7, <2>1 DEF Hopeless, Available
    <3>3. from = "client" => requests' > 1
      BY <1>1, <1>2, <2>3 DEF HeadInv
    <3>4. SizeInv'
      BY <1>1, <3>2, <3>3 DEF SizeInv
    <3> QED
      BY <1>2, <1>4, <1>7, <2>1, <2>3, <3>1, <3>4
  <2> QED
    BY <1>7, <2>2, <2>3
<1> QED
  BY <1>5, <1>6, <1>7 DEF ReadTag

\* The size is read after the tag: the message has begun, or its connection is lost.
LEMMA SizeStep == SessionInv /\ ReadSize => SessionInv'
<1> SUFFICES ASSUME SessionInv, ReadSize PROVE SessionInv'
  OBVIOUS
<1>1. /\ pc = "size" /\ UNCHANGED <<arrived, split, sent, open, requests, req_buf, from, got, killed>>
      /\ TypesInv /\ PrefixInv /\ RestInv /\ HeadInv /\ SizeInv /\ GarbageInv /\ OpenInv /\ open
      /\ killed \in BOOLEAN /\ got = 0 /\ got \in Nat
  BY DEF ReadSize, SessionInv, OpenInv, TypesInv, TypeOK, HeadInv
<1>2. /\ from \in Sides
      /\ \A f \in Sides : /\ read[f] \in Nat /\ arrived[f] \in Nat /\ Len(Stream[f]) \in Nat
                          /\ read[f] <= arrived[f] /\ arrived[f] <= Len(Stream[f])
                          /\ Messages(f) \in Nat
      /\ conn \in [Sides -> {"up", "fin", "reset", "gone", "dead"}]
      /\ read \in [Sides -> Nat] /\ requests \in Nat
  BY <1>1, ReadSide
<1>3. ~(from = "client" /\ garbage)
  BY <1>1 DEF GarbageInv
<1>4. ASSUME pc' \in {"payload", "log"}, garbage' \in BOOLEAN,
             conn' \in [Sides -> {"up", "fin", "reset", "gone", "dead"}],
             read' \in [Sides -> Nat], \A f \in Sides : read'[f] <= arrived[f],
             \A f \in Sides : f # from => read'[f] = read[f],
             garbage => garbage', MessageInv', GarbageInv'
      PROVE  SessionInv'
  <2>1. TypesInv'
    <3>1. \A f \in Sides : read'[f] \in 0 .. arrived'[f] /\ arrived'[f] \in 0 .. Len(Stream[f])
      BY <1>1, <1>2, <1>4
    <3>2. TypeOK'
      BY <1>1, <1>4, <3>1 DEF TypesInv, TypeOK
    <3> QED
      BY <1>1, <1>4, <3>2 DEF TypesInv
  <2>2. PrefixInv'
    BY <1>1, <1>4 DEF PrefixInv, Begun, Forwarded
  <2>3. RestInv'
    <3> SUFFICES ASSUME NEW f \in Sides, Resting(f)', ~(f = "client" /\ garbage') PROVE Rested(f)'
      BY DEF RestInv
    <3>1. f # from
      BY <1>1, <1>4 DEF Resting
    <3>2. Rested(f)
      BY <1>1, <1>4, <3>1 DEF RestInv, Resting
    <3> QED
      BY <1>1, <1>4, <3>1, <3>2, KeepsResting
  <2>4. HeadInv' /\ SizeInv' /\ OpenInv'
    BY <1>1, <1>4 DEF HeadInv, SizeInv, OpenInv
  <2> QED
    BY <1>4, <2>1, <2>2, <2>3, <2>4 DEF SessionInv
<1>5. ASSUME NEW n \in 1 .. SizeCells, Take(from, SizeCells, n),
             pc' = (IF n < SizeCells THEN "close" ELSE "payload"), UNCHANGED <<conn, garbage>>
      PROVE  SessionInv'
  <2>1. /\ read'[from] = read[from] + n /\ read[from] + n <= arrived[from]
        /\ \A f \in Sides : f # from => read'[f] = read[f]
        /\ read' \in [Sides -> Nat] /\ \A f \in Sides : read'[f] <= arrived[f]
        /\ ~Hopeless(from) /\ SizeCells \in Nat
    BY <1>1, <1>2, <1>5, Numbers, TakeFacts
  <2>2. CASE n < SizeCells
    BY <1>1, <1>2, <1>5, <2>1, <2>2, GivesUp
  <2>3. CASE ~(n < SizeCells)
    <3>1. n = SizeCells /\ pc' = "payload" /\ n \in Nat /\ n > 0
      BY <1>5, <2>1, <2>3
    <3>2. PICK m \in 1 .. Messages(from) + 1 : AtSize(m)
      BY <1>1, <2>1 DEF SizeInv
    <3>3. TagLen(from, m) \in 0 .. 1 /\ HeadLen(from, m) = TagLen(from, m) + SizeCells
      BY <1>2, Numbers DEF HeadLen
    <3>4. /\ read[from] = Offset(from, m - 1) + TagLen(from, m)
          /\ m - 1 \in 0 .. Messages(from) /\ Offset(from, m - 1) \in 0 .. Len(Stream[from])
      BY <1>2, <3>2, StreamEnds DEF AtSize
    <3>5. m \in 1 .. Messages(from)
      <4>1. m - 1 # Messages(from)
        <5>1. Offset(from, Messages(from)) = Len(Stream[from])
          BY <1>2, StreamEnds
        <5> QED
          BY <1>2, <2>1, <3>1, <3>3, <3>4, <5>1
      <4> QED
        BY SMTT(30), <1>2, <3>2, <4>1
    <3>6. Script[from][m].len \in Nat
      BY <1>2, <3>5, Numbers
    <3>7. read'[from] = Offset(from, m - 1) + HeadLen(from, m) + got
      BY <1>1, <1>2, <2>1, <3>1, <3>3, <3>4
    <3>8. sent'[Peer(from)] = Upto(from, Offset(from, m - 1) + 0)
      BY <1>1, <1>2, <3>2, <3>4 DEF AtSize, Forwarded
    <3>9. SentLen(m)' = 0
      BY <3>1 DEF SentLen
    <3>10. InMessage(m)'
      <4>1. /\ read'[from'] = Offset(from', m - 1) + HeadLen(from', m) + got'
            /\ got' = 0 /\ got' <= Script[from'][m].len
            /\ sent'[Peer(from')] = Upto(from', Offset(from', m - 1) + SentLen(m)')
            /\ from' = "client" => m = requests'
        BY <1>1, <3>2, <3>6, <3>7, <3>8, <3>9 DEF AtSize
      <4>2. \A k \in 1 .. got' : FALSE
        BY <4>1
      <4> QED
        BY <3>1, <4>1, <4>2 DEF InMessage, Forwarded
    <3>11. MessageInv'
      BY <1>1, <3>5, <3>10 DEF MessageInv
    <3>12. GarbageInv'
      BY <1>1, <1>3, <1>5 DEF GarbageInv
    <3>13. garbage' \in BOOLEAN
      BY <1>1, <1>5 DEF TypesInv, TypeOK
    <3> QED
      BY <1>2, <1>4, <1>5, <2>1, <3>1, <3>11, <3>12, <3>13
  <2> QED
    BY <2>2, <2>3
<1>6. CASE EndOfStream(from) /\ pc' = "close" /\ UNCHANGED <<conn, read, garbage>>
  BY <1>1, <1>2, <1>6, GivesUp
<1>7. CASE /\ ReceiveFails(from) /\ UNCHANGED read
           /\ \/ pc' = "close" /\ UNCHANGED garbage
              \/ from = "client" /\ requests = 1 /\ pc' = "log" /\ garbage' = TRUE
  <2>1. /\ conn' \in [Sides -> {"up", "fin", "reset", "gone", "dead"}]
        /\ conn["client"] = "dead" => conn'["client"] = "dead"
        /\ conn[from] = "reset" /\ conn'[from] = "dead" /\ Available(from) = 0
    BY <1>2, <1>7 DEF ReceiveFails
  <2>2. CASE pc' = "close" /\ UNCHANGED garbage
    BY <1>1, <1>2, <1>7, <2>1, <2>2, GivesUp
  <2>3. CASE from = "client" /\ requests = 1 /\ pc' = "log" /\ garbage' = TRUE
    <3>1. PICK m \in 1 .. Messages(from) + 1 : AtSize(m)
      BY <1>1, <2>3 DEF SizeInv
    <3>2. m = 1 /\ read["client"] = Offset("client", 1 - 1) + TagLen("client", 1)
      BY <2>3, <3>1 DEF AtSize
    <3>3. read["client"] = 0
      <4>1. Offset("client", 0) = 0 /\ TagLen("client", 1) = 0
        BY StreamEnds DEF TagLen, Tagged, Sides
      <4> QED
        BY <3>2, <4>1
    <3>4. arrived["client"] = 0
      BY <1>2, <2>1, <2>3, <3>3 DEF Available
    <3>5. GarbageInv'
      BY <1>1, <2>1, <2>3, <3>4 DEF GarbageInv
    <3>6. MessageInv'
      BY <1>1, <2>3 DEF MessageInv, Garbled
    <3> QED
      BY <1>2, <1>4, <1>7, <2>1, <2>3, <3>5, <3>6
  <2> QED
    BY <1>7, <2>2, <2>3
<1> QED
  BY <1>5, <1>6, <1>7 DEF ReadSize

\* What the message that is under way says of the model's helpers
LEMMA UnderWay ==
  ASSUME TypesInv, ~Garbled, NEW m \in 1 .. Messages(from), InMessage(m)
  PROVE  /\ Current = m /\ Size = Script[from][m].len
         /\ m \in Nat /\ Script[from][m].len \in Nat /\ got \in Nat
         /\ Offset(from, m - 1) \in Nat /\ HeadLen(from, m) \in Nat
         /\ Offset(from, m) = Offset(from, m - 1) + HeadLen(from, m) + Script[from][m].len
         /\ Offset(from, m) <= Len(Stream[from])
<1>1. from \in Sides
  BY ReadSide
<1>2. /\ m \in Nat /\ Script[from][m].len \in Nat /\ Offset(from, m - 1) \in Nat
      /\ Offset(from, m) = Offset(from, m - 1) + HeadLen(from, m) + Script[from][m].len
      /\ Offset(from, m) <= Len(Stream[from])
  BY <1>1, Layout
<1>3. TagLen(from, m) \in 0 .. 1 /\ SizeCells \in Nat /\ SizeCells > 0
      /\ HeadLen(from, m) = TagLen(from, m) + SizeCells
  BY <1>1, <1>2, Numbers DEF HeadLen
<1>4. got \in Nat
  BY DEF TypesInv, TypeOK
<1>5. /\ read[from] = Offset(from, m - 1) + HeadLen(from, m) + got
      /\ got <= Script[from][m].len
  BY DEF InMessage
<1>6. read[from] \in Offset(from, m - 1) + 1 .. Offset(from, m)
  BY ONLY <1>2, <1>3, <1>4, <1>5
<1>7. Current = m
  BY <1>1, <1>6, CellsOfMessage DEF Current
<1>8. Size = Script[from][m].len
  BY <1>7 DEF Size
<1> QED
  BY <1>2, <1>3, <1>4, <1>7, <1>8

\* Put overwrites a part of the buffer and keeps what is before it.
LEMMA PutKeeps ==
  ASSUME NEW buf \in Seq(Cells), NEW cells \in Seq(Cells), NEW k \in 0 .. Len(buf)
  PROVE  /\ Put(buf, k, cells) \in Seq(Cells) /\ k + Len(cells) <= Len(Put(buf, k, cells))
         /\ Len(Put(buf, k, cells)) \in Nat
         /\ \A i \in 1 .. k : Put(buf, k, cells)[i] = buf[i]
         /\ \A i \in 1 .. Len(cells) : Put(buf, k, cells)[k + i] = cells[i]
<1>1. /\ Len(buf) \in Nat /\ Len(cells) \in Nat /\ k \in Nat /\ k <= Len(buf)
      /\ \A i \in 1 .. Len(buf) : buf[i] \in Cells
      /\ \A i \in 1 .. Len(cells) : cells[i] \in Cells
  BY LenProperties, ElementOfSeq
<1> DEFINE n == IF k + Len(cells) > Len(buf) THEN k + Len(cells) ELSE Len(buf)
           At(i) == IF i \in k + 1 .. k + Len(cells) THEN cells[i - k] ELSE buf[i]
<1>2. n \in Nat /\ k + Len(cells) <= n /\ Len(buf) <= n /\ k <= n
      /\ \A i \in 1 .. n : i \in k + 1 .. k + Len(cells) \/ i \in 1 .. Len(buf)
  BY ONLY <1>1
<1>3. Put(buf, k, cells) = [i \in 1 .. n |-> At(i)]
  BY DEF Put
<1>4. \A i \in 1 .. n : At(i) \in Cells
  <2> TAKE i \in 1 .. n
  <2>1. CASE i \in k + 1 .. k + Len(cells)
    <3>1. i - k \in 1 .. Len(cells)
      BY ONLY <1>1, <2>1
    <3> QED
      BY ONLY <1>1, <2>1, <3>1
  <2>2. CASE ~(i \in k + 1 .. k + Len(cells))
    <3>1. i \in 1 .. Len(buf)
      BY ONLY <1>2, <2>2, i \in 1 .. n
    <3> QED
      BY ONLY <1>1, <2>2, <3>1
  <2> QED
    BY ONLY <2>1, <2>2
<1>5. \A i \in 1 .. k : At(i) = buf[i] /\ i \in 1 .. n
  BY ONLY <1>1, <1>2
<1>6. \A i \in 1 .. Len(cells) : At(k + i) = cells[i] /\ k + i \in 1 .. n
  <2> TAKE i \in 1 .. Len(cells)
  <2>1. k + i \in k + 1 .. k + Len(cells) /\ k + i - k = i
    BY ONLY <1>1, i \in 1 .. Len(cells)
  <2>2. At(k + i) = cells[i]
    BY ONLY <2>1
  <2>3. k + i \in 1 .. n
    BY ONLY <1>1, <1>2, i \in 1 .. Len(cells)
  <2> QED
    BY ONLY <2>2, <2>3
<1> HIDE DEF n, At
<1>7. Put(buf, k, cells) \in Seq(Cells) /\ Len(Put(buf, k, cells)) = n
  <2>1. Put(buf, k, cells) \in [1 .. n -> Cells]
    BY ONLY <1>3, <1>4
  <2> QED
    BY <1>2, <2>1, LenProperties
<1>8. \A i \in 1 .. n : Put(buf, k, cells)[i] = At(i)
  BY ONLY <1>3
<1>9. \A i \in 1 .. k : Put(buf, k, cells)[i] = buf[i]
  BY ONLY <1>5, <1>8
<1>10. \A i \in 1 .. Len(cells) : Put(buf, k, cells)[k + i] = cells[i]
  BY ONLY <1>6, <1>8
<1> QED
  BY ONLY <1>2, <1>7, <1>9, <1>10

\* A part of the payload goes to the buffer, behind the parts that are there.
LEMMA PayloadStep == SessionInv /\ ReadPayload => SessionInv'
<1> SUFFICES ASSUME SessionInv, ReadPayload PROVE SessionInv'
  OBVIOUS
<1>1. /\ pc = "payload"
      /\ UNCHANGED <<arrived, split, sent, open, requests, from, garbage, killed>>
      /\ TypesInv /\ PrefixInv /\ RestInv /\ MessageInv /\ GarbageInv /\ OpenInv /\ open
      /\ killed \in BOOLEAN /\ got \in Nat /\ got \in 0 .. Len(req_buf) /\ req_buf \in Seq(Cells)
  BY DEF ReadPayload, SessionInv, OpenInv, TypesInv, TypeOK
<1>2. /\ from \in Sides
      /\ \A f \in Sides : /\ read[f] \in Nat /\ arrived[f] \in Nat /\ Len(Stream[f]) \in Nat
                          /\ read[f] <= arrived[f] /\ arrived[f] <= Len(Stream[f])
                          /\ Messages(f) \in Nat
      /\ conn \in [Sides -> {"up", "fin", "reset", "gone", "dead"}]
      /\ read \in [Sides -> Nat] /\ requests \in Nat
  BY <1>1, ReadSide
<1>3. ~Garbled
  BY <1>1 DEF GarbageInv, Garbled
<1>4. PICK m \in 1 .. Messages(from) : InMessage(m)
  BY <1>1, <1>3 DEF MessageInv
<1>5. /\ Size = Script[from][m].len
      /\ m \in Nat /\ Script[from][m].len \in Nat
      /\ Offset(from, m - 1) \in Nat /\ HeadLen(from, m) \in Nat
      /\ Offset(from, m) = Offset(from, m - 1) + HeadLen(from, m) + Script[from][m].len
      /\ Offset(from, m) <= Len(Stream[from])
      /\ read[from] = Offset(from, m - 1) + HeadLen(from, m) + got
      /\ got <= Script[from][m].len
  BY <1>1, <1>3, <1>4, UnderWay DEF InMessage
<1>6. ASSUME pc' \in {"payload", "log"}, UNCHANGED conn,
             read' \in [Sides -> Nat], \A f \in Sides : read'[f] <= arrived[f],
             \A f \in Sides : f # from => read'[f] = read[f],
             read'[from] = Offset(from, m - 1) + HeadLen(from, m) + got',
             req_buf' \in Seq(Cells), got' \in 0 .. Len(req_buf'),
             got' <= Script[from][m].len, pc' # "payload" => got' = Script[from][m].len,
             \A k \in 1 .. got' : req_buf'[k] = Cell(m, "data", k)
      PROVE  SessionInv'
  <2>1. TypesInv'
    <3>1. \A f \in Sides : read'[f] \in 0 .. arrived'[f] /\ arrived'[f] \in 0 .. Len(Stream[f])
      BY <1>1, <1>2, <1>6
    <3>2. TypeOK'
      BY <1>1, <1>6, <3>1 DEF TypesInv, TypeOK
    <3> QED
      BY <1>1, <1>6, <3>2 DEF TypesInv
  <2>2. PrefixInv'
    BY <1>1, <1>6 DEF PrefixInv, Begun, Forwarded
  <2>3. RestInv'
    <3> SUFFICES ASSUME NEW f \in Sides, Resting(f)', ~(f = "client" /\ garbage') PROVE Rested(f)'
      BY DEF RestInv
    <3>1. f # from
      BY <1>1, <1>6 DEF Resting
    <3>2. Rested(f)
      BY <1>1, <1>6, <3>1 DEF RestInv, Resting
    <3> QED
      BY <1>1, <1>6, <3>1, <3>2, KeepsResting
  <2>4. HeadInv' /\ SizeInv' /\ OpenInv'
    BY <1>1, <1>6 DEF HeadInv, SizeInv, OpenInv
  <2>5. InMessage(m)'
    <3>1. SentLen(m)' = 0 /\ SentLen(m) = 0
      BY <1>1, <1>6 DEF SentLen
    <3> QED
      BY <1>1, <1>4, <1>6, <3>1 DEF InMessage, Forwarded
  <2>6. MessageInv'
    BY <1>1, <2>5 DEF MessageInv
  <2>7. GarbageInv'
    BY <1>1, <1>6 DEF GarbageInv
  <2> QED
    BY <2>1, <2>2, <2>3, <2>4, <2>6, <2>7 DEF SessionInv
<1>7. CASE got = Size /\ pc' = "log" /\ UNCHANGED <<conn, read, req_buf, got>>
  <2>1. \A k \in 1 .. got : req_buf[k] = Cell(m, "data", k)
    BY <1>4 DEF InMessage
  <2> QED
    BY <1>1, <1>2, <1>5, <1>6, <1>7, <2>1
<1>8. ASSUME NEW n \in 1 .. Size - got, Take(from, Size - got, n),
             req_buf' = Put(req_buf, got, SubSeq(Stream[from], read[from] + 1, read[from] + n)),
             got' = got + n, UNCHANGED <<conn, pc>>
      PROVE  SessionInv'
  <2>1. Size - got \in Nat /\ n \in Nat /\ got + n <= Script[from][m].len
    <3>1. n \in 1 .. Script[from][m].len - got /\ Size \in Nat
      BY ONLY <1>5, n \in 1 .. Size - got
    <3>2. got \in Nat /\ Script[from][m].len \in Nat /\ got <= Script[from][m].len
      BY <1>1, <1>5
    <3>3. Script[from][m].len - got \in Nat /\ n \in Nat /\ got + n <= Script[from][m].len
      BY ONLY <3>1, <3>2
    <3> QED
      BY ONLY <1>5, <3>3
  <2>2. /\ read'[from] = read[from] + n /\ read[from] + n <= arrived[from]
        /\ \A f \in Sides : f # from => read'[f] = read[f]
        /\ read' \in [Sides -> Nat] /\ \A f \in Sides : read'[f] <= arrived[f]
    BY <1>1, <1>8, <2>1, TakeFacts
  <2> DEFINE cells == SubSeq(Stream[from], read[from] + 1, read[from] + n)
  <2>3. /\ cells \in Seq(Cells) /\ Len(cells) = n
        /\ \A i \in 1 .. n : cells[i] = Stream[from][read[from] + i]
    <3>1. read[from] \in Nat /\ n \in Nat /\ read[from] + n <= Len(Stream[from])
      BY ONLY <1>2, <2>1, <2>2
    <3> QED
      BY ONLY <1>2, <3>1, Segment
  <2>4. req_buf' = Put(req_buf, got, cells)
    BY <1>8
  <2> HIDE DEF cells
  <2>5. /\ req_buf' \in Seq(Cells) /\ got + n <= Len(req_buf') /\ Len(req_buf') \in Nat
        /\ \A i \in 1 .. got : req_buf'[i] = req_buf[i]
        /\ \A i \in 1 .. n : req_buf'[got + i] = cells[i]
    BY ONLY <1>1, <2>3, <2>4, PutKeeps
  <2>6. \A k \in 1 .. got' : req_buf'[k] = Cell(m, "data", k)
    <3> TAKE k \in 1 .. got'
    <3>1. CASE k \in 1 .. got
      BY <1>4, <2>5, <3>1 DEF InMessage
    <3>2. CASE ~(k \in 1 .. got)
      <4>0. k \in Nat /\ got \in Nat /\ got < k /\ k <= got + n /\ k > 0
        BY ONLY <1>1, <1>8, <2>1, <3>2, k \in 1 .. got'
      <4>1. /\ k - got \in 1 .. n /\ got + (k - got) = k /\ k \in 1 .. Script[from][m].len
            /\ read[from] + (k - got) = Offset(from, m - 1) + HeadLen(from, m) + k
        <5>1. k - got \in 1 .. n /\ got + (k - got) = k
          BY ONLY <2>1, <4>0
        <5>2. k \in 1 .. Script[from][m].len
          BY ONLY SMTT(30), <1>5, <2>1, <4>0
        <5>3. read[from] + (k - got) = Offset(from, m - 1) + HeadLen(from, m) + k
          BY ONLY <1>5, <4>0
        <5> QED
          BY <1>1, <5>1, <5>2, <5>3
      <4>2. req_buf'[k] = Stream[from][Offset(from, m - 1) + HeadLen(from, m) + k]
        BY ONLY <2>3, <2>5, <4>1
      <4>3. Stream[from][Offset(from, m - 1) + HeadLen(from, m) + k] = Cell(m, "data", k)
        BY <1>2, <4>1, Layout
      <4> QED
        BY ONLY <4>2, <4>3
    <3> QED
      BY <3>1, <3>2
  <2>7. got' \in 0 .. Len(req_buf') /\ got' <= Script[from][m].len
    BY ONLY <1>1, <1>8, <2>1, <2>5
  <2>8. read'[from] = Offset(from, m - 1) + HeadLen(from, m) + got'
    BY ONLY <1>1, <1>2, <1>5, <1>8, <2>1, <2>2
  <2> QED
    BY <1>1, <1>6, <1>8, <2>2, <2>5, <2>6, <2>7, <2>8
<1>9. CASE /\ (EndOfStream(from) /\ UNCHANGED conn) \/ ReceiveFails(from)
           /\ pc' = "close" /\ UNCHANGED <<read, req_buf, got>>
  <2>1. /\ conn' \in [Sides -> {"up", "fin", "reset", "gone", "dead"}]
        /\ conn["client"] = "dead" => conn'["client"] = "dead"
    <3>1. CASE EndOfStream(from) /\ UNCHANGED conn
      BY <1>2, <3>1
    <3>2. CASE ReceiveFails(from)
      BY <1>2, <3>2 DEF ReceiveFails
    <3> QED
      BY <1>9, <3>1, <3>2
  <2> QED
    BY <1>1, <1>2, <1>9, <2>1, GivesUp
<1> QED
  BY <1>7, <1>8, <1>9 DEF ReadPayload

\* The request is logged, and the message is complete in the buffer.
LEMMA LogStep == SessionInv /\ LogRequest => SessionInv'
<1> SUFFICES ASSUME SessionInv, LogRequest PROVE SessionInv'
  OBVIOUS
<1>1. /\ pc = "log" /\ pc' \in {"sendTag", "sendSize"}
      /\ pc' = IF from = "server" \/ requests > 1 THEN "sendTag" ELSE "sendSize"
      /\ UNCHANGED <<arrived, conn, split, read, sent, open, requests, req_buf, from, got,
                     garbage, killed>>
      /\ TypesInv /\ RestInv /\ MessageInv /\ GarbageInv /\ OpenInv /\ open
  BY DEF LogRequest, SessionInv, OpenInv, streamVars
<1>2. from \in Sides
  BY <1>1, ReadSide
<1>3. TypesInv'
  BY <1>1 DEF TypesInv, TypeOK
<1>4. PrefixInv'
  BY <1>1 DEF SessionInv, PrefixInv, Begun, Forwarded
<1>5. RestInv'
  <2> SUFFICES ASSUME NEW f \in Sides, Resting(f)', ~(f = "client" /\ garbage') PROVE Rested(f)'
    BY DEF RestInv
  <2>1. Resting(f)
    BY <1>1 DEF Resting
  <2>2. Rested(f)
    BY <1>1, <2>1 DEF RestInv
  <2> QED
    BY <1>1, <2>2, KeepsResting
<1>6. HeadInv' /\ SizeInv' /\ OpenInv'
  BY <1>1 DEF HeadInv, SizeInv, OpenInv
<1>7. MessageInv'
  <2> SUFFICES ASSUME ~Garbled' PROVE \E m \in 1 .. Messages(from) : InMessage(m)'
    BY <1>1 DEF MessageInv
  <2>1. ~Garbled
    BY <1>1 DEF Garbled
  <2>2. PICK m \in 1 .. Messages(from) : InMessage(m)
    BY <1>1, <2>1 DEF MessageInv
  <2>3. m \in Nat /\ m >= 1
    BY <1>2, Layout
  <2>4. pc' = "sendTag" => Tagged(from, m)
    BY <1>1, <1>2, <2>2, <2>3 DEF InMessage, Tagged, Sides
  <2>5. pc' = "sendSize" => TagLen(from, m) = 0
    <3> SUFFICES ASSUME pc' = "sendSize" PROVE ~Tagged(from, m)
      BY DEF TagLen
    <3>1. from = "client" /\ ~(requests > 1) /\ m = requests
      BY <1>1, <1>2, <2>2 DEF InMessage, Sides
    <3> QED
      BY <2>3, <3>1 DEF Tagged
  <2>6. SentLen(m) = 0 /\ SentLen(m)' = 0
    BY <1>1, <2>5 DEF SentLen
  <2>7. InMessage(m)'
    BY <1>1, <2>2, <2>4, <2>6 DEF InMessage, Forwarded
  <2> QED
    BY <2>7
<1>8. GarbageInv'
  BY <1>1 DEF GarbageInv
<1> QED
  BY <1>3, <1>4, <1>5, <1>6, <1>7, <1>8 DEF SessionInv

\* What a send leaves alone, whether or not it succeeds
LEMMA SendFacts ==
  ASSUME TypesInv, NEW at \in {"sendTag", "sendSize", "sendData"}, NEW cells \in Seq(Cells),
         NEW next, SendPart(at, cells, next)
  PROVE  /\ pc = at /\ conn' \in [Sides -> {"up", "fin", "reset", "gone", "dead"}]
         /\ conn["client"] = "dead" => conn'["client"] = "dead"
         /\ killed' \in BOOLEAN
         /\ UNCHANGED <<arrived, split, read, open, requests, req_buf, got, garbage>>
         /\ \/ pc' = "close" /\ UNCHANGED <<sent, from>>
            \/ /\ next
               /\ sent' \in [Sides -> Seq(Cells)]
               /\ sent'[Peer(from)] = sent[Peer(from)] \o cells
               /\ \A f \in Sides : f # from => sent'[Peer(f)] = sent[Peer(f)]
<1> DEFINE to == Peer(from)
<1>1. /\ from \in Sides /\ to \in Sides
      /\ conn \in [Sides -> {"up", "fin", "reset", "gone", "dead"}]
      /\ sent \in [Sides -> Seq(Cells)] /\ killed \in BOOLEAN
      /\ \A f \in Sides : Peer(f) \in Sides /\ (f # from => Peer(f) # to)
  BY Peers DEF TypesInv, TypeOK
<1>2. /\ pc = at
      /\ UNCHANGED <<arrived, split, read, open, requests, req_buf, got, garbage>>
      /\ \/ SendSucceeds(to, cells) /\ next
         \/ SendFails(to) /\ pc' = "close" /\ UNCHANGED <<sent, from>>
  BY DEF SendPart
<1> HIDE DEF to
<1>3. CASE SendSucceeds(to, cells) /\ next
  <2>1. /\ sent' = [sent EXCEPT ![to] = @ \o cells] /\ UNCHANGED killed
        /\ \/ conn[to] = "up" /\ UNCHANGED conn
           \/ conn[to] = "fin" /\ \E s \in {"fin", "gone"} : conn' = [conn EXCEPT ![to] = s]
    BY <1>3 DEF SendSucceeds
  <2>2. sent[to] \o cells \in Seq(Cells)
    BY <1>1, ConcatProperties
  <2> DEFINE all == sent[to] \o cells
  <2>3. sent' = [sent EXCEPT ![to] = all]
    BY <2>1
  <2> HIDE DEF all
  <2>4. /\ sent' \in [Sides -> Seq(Cells)] /\ sent'[to] = all
        /\ \A f \in Sides : f # from => sent'[Peer(f)] = sent[Peer(f)]
    BY <1>1, <2>2, <2>3 DEF all
  <2>5. /\ conn' \in [Sides -> {"up", "fin", "reset", "gone", "dead"}]
        /\ conn["client"] = "dead" => conn'["client"] = "dead"
    <3>1. CASE conn[to] = "up" /\ UNCHANGED conn
      BY ONLY <1>1, <3>1
    <3>2. CASE conn[to] = "fin" /\ \E s \in {"fin", "gone"} : conn' = [conn EXCEPT ![to] = s]
      <4>1. PICK s \in {"fin", "gone"} : conn' = [conn EXCEPT ![to] = s]
        BY <3>2
      <4> QED
        BY <1>1, <3>2, <4>1 DEF Sides
    <3> QED
      BY ONLY <2>1, <3>1, <3>2
  <2>6. killed' \in BOOLEAN
    BY <1>1, <2>1
  <2> QED
    BY ONLY <1>2, <1>3, <2>4, <2>5, <2>6 DEF to, all
<1>4. CASE SendFails(to) /\ pc' = "close" /\ UNCHANGED <<sent, from>>
  <2>1. \/ conn[to] = "reset" /\ conn' = [conn EXCEPT ![to] = "dead"] /\ UNCHANGED killed
        \/ killed' = TRUE /\ UNCHANGED conn
    BY <1>4 DEF SendFails
  <2>2. /\ conn' \in [Sides -> {"up", "fin", "reset", "gone", "dead"}]
        /\ conn["client"] = "dead" => conn'["client"] = "dead"
    <3>1. CASE conn[to] = "reset" /\ conn' = [conn EXCEPT ![to] = "dead"]
      BY <1>1, <3>1 DEF Sides
    <3>2. CASE UNCHANGED conn
      BY ONLY <1>1, <3>2
    <3> QED
      BY ONLY <2>1, <3>1, <3>2
  <2>3. killed' \in BOOLEAN
    BY <1>1, <2>1
  <2> QED
    BY ONLY <1>2, <1>4, <2>2, <2>3
<1> QED
  BY <1>2, <1>3, <1>4

\* A part of the message goes to the other side, behind the parts that were sent.
LEMMA SentPart ==
  ASSUME SessionInv, NEW side, side = from, pc \in {"sendTag", "sendSize", "sendData"},
         pc' \in {"sendSize", "sendData", "wait", "idle"},
         conn' \in [Sides -> {"up", "fin", "reset", "gone", "dead"}],
         conn["client"] = "dead" => conn'["client"] = "dead", killed' \in BOOLEAN,
         UNCHANGED <<arrived, split, read, open, requests, req_buf, got, garbage>>,
         from' \in Sides, pc' \in {"sendSize", "sendData"} => from' = from,
         sent' \in [Sides -> Seq(Cells)],
         \A f \in Sides : f # from => sent'[Peer(f)] = sent[Peer(f)],
         ~Garbled => Begun(side)',
         pc' \in {"wait", "idle"} /\ ~Garbled => Rested(side)',
         MessageInv'
  PROVE  SessionInv'
<1>1. /\ TypesInv /\ PrefixInv /\ RestInv /\ GarbageInv /\ OpenInv /\ open
  BY DEF SessionInv, OpenInv
<1>2. from \in Sides
  BY <1>1, ReadSide
<1>3. TypesInv'
  <2>1. TypeOK'
    BY <1>1 DEF TypesInv, TypeOK
  <2> QED
    BY <1>1, <2>1 DEF TypesInv
<1>4. PrefixInv'
  <2> SUFFICES ASSUME NEW f \in Sides, ~(f = "client" /\ garbage') PROVE Begun(f)'
    BY DEF PrefixInv
  <2>1. CASE f = from
    BY <2>1 DEF Garbled, Begun, Forwarded
  <2>2. CASE f # from
    BY <1>1, <2>2 DEF PrefixInv, Begun, Forwarded
  <2> QED
    BY <2>1, <2>2
<1>5. RestInv'
  <2> SUFFICES ASSUME NEW f \in Sides, Resting(f)', ~(f = "client" /\ garbage') PROVE Rested(f)'
    BY DEF RestInv
  <2>1. CASE f = from
    BY <2>1 DEF Garbled, Resting
  <2>2. CASE f # from
    <3>1. Rested(f)
      BY <1>1, <2>2 DEF RestInv, Resting
    <3> QED
      BY <2>2, <3>1, KeepsResting
  <2> QED
    BY <2>1, <2>2
<1>6. HeadInv' /\ SizeInv' /\ OpenInv'
  BY <1>1 DEF HeadInv, SizeInv, OpenInv
<1>7. GarbageInv'
  BY <1>1 DEF GarbageInv
<1> QED
  BY <1>3, <1>4, <1>5, <1>6, <1>7 DEF SessionInv

\* The tag goes out first.
LEMMA SendTagStep == SessionInv /\ SendTag => SessionInv'
<1> SUFFICES ASSUME SessionInv, SendTag PROVE SessionInv'
  OBVIOUS
<1>1. /\ pc = "sendTag" /\ TypesInv /\ MessageInv /\ GarbageInv
      /\ from \in Sides /\ \A f \in Sides : read[f] <= arrived[f]
      /\ read \in [Sides -> Nat]
  BY ReadSide DEF SendTag, SendPart, SessionInv
<1>2. ~Garbled
  BY <1>1 DEF GarbageInv, Garbled
<1>3. PICK m \in 1 .. Messages(from) : InMessage(m)
  BY <1>1, <1>2 DEF MessageInv
<1>4. /\ Current = m /\ m \in Nat /\ Script[from][m].len \in Nat
      /\ Offset(from, m - 1) \in Nat /\ HeadLen(from, m) \in Nat
      /\ Offset(from, m) = Offset(from, m - 1) + HeadLen(from, m) + Script[from][m].len
      /\ Offset(from, m) <= Len(Stream[from])
  BY <1>1, <1>2, <1>3, UnderWay
<1> DEFINE cells == <<Cell(m, "tag", 1)>>
<1>5. cells \in Seq(Cells)
  BY <1>4 DEF Cell, Cells
<1>6. SendPart("sendTag", cells, pc' = "sendSize" /\ UNCHANGED from)
  BY <1>4 DEF SendTag
<1>7. /\ Tagged(from, m) /\ TagLen(from, m) = 1 /\ HeadLen(from, m) >= 1
      /\ sent[Peer(from)] = Upto(from, Offset(from, m - 1))
  <2>1. Tagged(from, m)
    BY <1>1, <1>3 DEF InMessage
  <2>2. SentLen(m) = 0
    BY <1>1 DEF SentLen
  <2>3. sent[Peer(from)] = Upto(from, Offset(from, m - 1))
    BY <1>3, <1>4, <2>2 DEF InMessage, Forwarded
  <2>4. TagLen(from, m) = 1 /\ HeadLen(from, m) >= 1
    BY <1>1, <2>1, Numbers DEF TagLen, HeadLen
  <2> QED
    BY <2>1, <2>3, <2>4
<1>8. Upto(from, Offset(from, m - 1)) \o cells = Upto(from, Offset(from, m - 1) + 1)
  <2>1. Offset(from, m - 1) + 1 <= Len(Stream[from]) /\ Len(Stream[from]) \in Nat
    <3>1. from \in Sides
      BY <1>1
    <3>2. Len(Stream[from]) \in Nat
      BY ONLY <3>1, StreamEnds
    <3> QED
      BY ONLY <1>4, <1>7, <3>2
  <2> DEFINE seg == SubSeq(Stream[from], Offset(from, m - 1) + 1, Offset(from, m - 1) + 1)
  <2>2. /\ seg \in Seq(Cells) /\ Len(seg) = 1
        /\ \A i \in 1 .. 1 : seg[i] = Stream[from][Offset(from, m - 1) + i]
        /\ Upto(from, Offset(from, m - 1)) \o seg = Upto(from, Offset(from, m - 1) + 1)
    <3>1. from \in Sides /\ Offset(from, m - 1) \in Nat /\ 1 \in Nat
      BY <1>1, <1>4
    <3> QED
      BY ONLY <2>1, <3>1, Segment
  <2>3. Stream[from][Offset(from, m - 1) + 1] = Cell(m, "tag", 1)
    BY <1>1, <1>7, Layout
  <2> HIDE DEF seg
  <2>4. seg = cells
    <3>1. Len(cells) = 1 /\ cells[1] = Cell(m, "tag", 1)
      OBVIOUS
    <3>2. \A i \in 1 .. Len(seg) : seg[i] = cells[i]
      BY <2>2, <2>3, <3>1
    <3> HIDE DEF cells
    <3> QED
      BY ONLY <1>5, <2>2, <3>1, <3>2, SeqEqual
  <2> QED
    BY ONLY <2>2, <2>4
<1> HIDE DEF cells
<1>9. /\ conn' \in [Sides -> {"up", "fin", "reset", "gone", "dead"}]
      /\ conn["client"] = "dead" => conn'["client"] = "dead"
      /\ killed' \in BOOLEAN
      /\ UNCHANGED <<arrived, split, read, open, requests, req_buf, got, garbage>>
      /\ \/ pc' = "close" /\ UNCHANGED <<sent, from>>
         \/ /\ pc' = "sendSize" /\ UNCHANGED from
            /\ sent' \in [Sides -> Seq(Cells)]
            /\ sent'[Peer(from)] = sent[Peer(from)] \o cells
            /\ \A f \in Sides : f # from => sent'[Peer(f)] = sent[Peer(f)]
  BY <1>1, <1>5, <1>6, SendFacts
<1>10. CASE pc' = "close" /\ UNCHANGED <<sent, from>>
  BY <1>1, <1>9, <1>10, GivesUp
<1>11. CASE /\ pc' = "sendSize" /\ UNCHANGED from
            /\ sent' \in [Sides -> Seq(Cells)]
            /\ sent'[Peer(from)] = sent[Peer(from)] \o cells
            /\ \A f \in Sides : f # from => sent'[Peer(f)] = sent[Peer(f)]
  <2>1. sent'[Peer(from)] = Upto(from, Offset(from, m - 1) + 1)
    BY ONLY <1>7, <1>8, <1>11
  <2>2. SentLen(m)' = 1
    BY <1>7, <1>11 DEF SentLen
  <2>3. InMessage(m)'
    BY <1>1, <1>3, <1>9, <1>11, <2>1, <2>2 DEF InMessage, Forwarded
  <2>4. MessageInv'
    BY <1>11, <2>3 DEF MessageInv
  <2> DEFINE side == from
  <2>5. \E k \in 0 .. Len(Stream[side]) : sent'[Peer(side)] = Upto(side, k)
    <3>1. Len(Stream[from]) \in Nat
      BY <1>1, StreamEnds
    <3>2. Offset(from, m - 1) + 1 \in 0 .. Len(Stream[from])
      BY ONLY SMTT(30), <1>4, <1>7, <3>1
    <3> QED
      BY <2>1, <3>2
  <2> QED
    BY <1>1, <1>9, <1>11, <2>4, <2>5, SentPart DEF Begun, Forwarded
<1> QED
  BY <1>9, <1>10, <1>11

\* The size goes out behind the tag, if there is one.
LEMMA SendSizeStep == SessionInv /\ SendSize => SessionInv'
<1> SUFFICES ASSUME SessionInv, SendSize PROVE SessionInv'
  OBVIOUS
<1>1. /\ pc = "sendSize" /\ TypesInv /\ MessageInv
      /\ from \in Sides /\ \A f \in Sides : read[f] <= arrived[f]
      /\ read \in [Sides -> Nat]
  BY ReadSide DEF SendSize, SendPart, SessionInv
<1>2. SizeCells \in Nat /\ SizeCells > 0
  BY <1>1, Numbers
<1> DEFINE msg == IF Garbled THEN 0 ELSE Current
           cells == [k \in 1 .. SizeCells |-> Cell(msg, "size", k)]
<1>3. SendPart("sendSize", cells, pc' = "sendData" /\ UNCHANGED from)
  BY DEF SendSize
<1>4. ASSUME msg \in Nat
      PROVE  /\ cells \in Seq(Cells) /\ Len(cells) = SizeCells
             /\ conn' \in [Sides -> {"up", "fin", "reset", "gone", "dead"}]
             /\ conn["client"] = "dead" => conn'["client"] = "dead"
             /\ killed' \in BOOLEAN
             /\ UNCHANGED <<arrived, split, read, open, requests, req_buf, got, garbage>>
             /\ \/ pc' = "close" /\ UNCHANGED <<sent, from>>
                \/ /\ pc' = "sendData" /\ UNCHANGED from
                   /\ sent' \in [Sides -> Seq(Cells)]
                   /\ sent'[Peer(from)] = sent[Peer(from)] \o cells
                   /\ \A f \in Sides : f # from => sent'[Peer(f)] = sent[Peer(f)]
  <2>1. \A k \in 1 .. SizeCells : Cell(msg, "size", k) \in Cells
    BY <1>2, <1>4 DEF Cell, Cells
  <2>2. cells \in [1 .. SizeCells -> Cells]
    BY <2>1
  <2>3. cells \in Seq(Cells) /\ Len(cells) = SizeCells
    BY <1>2, <2>2, LenProperties
  <2> HIDE DEF cells
  <2> QED
    BY <1>1, <1>3, <2>3, SendFacts
<1>5. CASE Garbled
  <2>1. msg \in Nat
    BY <1>5
  <2> HIDE DEF msg, cells
  <2>2. CASE pc' = "close" /\ UNCHANGED <<sent, from>>
    BY <1>1, <1>4, <2>1, <2>2, GivesUp
  <2>3. CASE /\ pc' = "sendData" /\ UNCHANGED from
             /\ sent' \in [Sides -> Seq(Cells)]
             /\ \A f \in Sides : f # from => sent'[Peer(f)] = sent[Peer(f)]
    <3>1. MessageInv'
      BY <1>4, <1>5, <2>1, <2>3 DEF MessageInv, Garbled
    <3> QED
      BY <1>1, <1>4, <1>5, <2>1, <2>3, <3>1, SentPart
  <2> QED
    BY <1>4, <2>1, <2>2, <2>3
<1>6. CASE ~Garbled
  <2>1. PICK m \in 1 .. Messages(from) : InMessage(m)
    BY <1>1, <1>6 DEF MessageInv
  <2>2. /\ Current = m /\ m \in Nat /\ Script[from][m].len \in Nat
        /\ Offset(from, m - 1) \in Nat /\ HeadLen(from, m) \in Nat
        /\ Offset(from, m) = Offset(from, m - 1) + HeadLen(from, m) + Script[from][m].len
        /\ Offset(from, m) <= Len(Stream[from])
    BY <1>1, <1>6, <2>1, UnderWay
  <2>3. msg = m /\ cells = [k \in 1 .. SizeCells |-> Cell(m, "size", k)]
    BY <1>6, <2>2
  <2>4. /\ Len(cells) = SizeCells /\ cells \in Seq(Cells)
        /\ \A k \in 1 .. SizeCells : cells[k] = Cell(m, "size", k)
    BY <1>4, <2>2, <2>3
  <2> HIDE DEF msg, cells
  <2> DEFINE j == Offset(from, m - 1) + TagLen(from, m)
  <2>5. /\ j \in Nat /\ j + SizeCells = Offset(from, m - 1) + HeadLen(from, m)
        /\ j + SizeCells <= Len(Stream[from]) /\ Len(Stream[from]) \in Nat
    <3>1. TagLen(from, m) \in 0 .. 1 /\ HeadLen(from, m) = TagLen(from, m) + SizeCells
          /\ Len(Stream[from]) \in Nat
      BY <1>1, <2>2, Numbers, StreamEnds DEF HeadLen
    <3> QED
      BY ONLY <1>2, <2>2, <3>1
  <2>6. sent[Peer(from)] = Upto(from, j)
    BY <1>1, <2>1 DEF InMessage, Forwarded, SentLen
  <2>7. \A k \in 1 .. SizeCells : Stream[from][j + k] = Cell(m, "size", k)
    BY <1>1, Layout
  <2> HIDE DEF j
  <2>8. Upto(from, j) \o cells = Upto(from, j + SizeCells)
    <3> DEFINE seg == SubSeq(Stream[from], j + 1, j + SizeCells)
    <3>1. /\ seg \in Seq(Cells) /\ Len(seg) = SizeCells
          /\ \A i \in 1 .. SizeCells : seg[i] = Stream[from][j + i]
          /\ Upto(from, j) \o seg = Upto(from, j + SizeCells)
      BY ONLY <1>1, <1>2, <2>5, Segment
    <3> HIDE DEF seg
    <3>2. \A i \in 1 .. Len(seg) : seg[i] = cells[i]
      BY ONLY <2>4, <2>7, <3>1
    <3>3. seg = cells
      BY ONLY <2>4, <3>1, <3>2, SeqEqual
    <3> QED
      BY ONLY <3>1, <3>3
  <2>9. CASE pc' = "close" /\ UNCHANGED <<sent, from>>
    BY <1>1, <1>4, <2>2, <2>3, <2>9, GivesUp
  <2>10. CASE /\ pc' = "sendData" /\ UNCHANGED from
              /\ sent' \in [Sides -> Seq(Cells)]
              /\ sent'[Peer(from)] = sent[Peer(from)] \o cells
              /\ \A f \in Sides : f # from => sent'[Peer(f)] = sent[Peer(f)]
    <3>1. sent'[Peer(from)] = Upto(from, j + SizeCells)
      BY ONLY <2>6, <2>8, <2>10
    <3>2. SentLen(m)' = HeadLen(from, m)
      BY <2>10 DEF SentLen
    <3>3. InMessage(m)'
      BY <1>1, <1>4, <2>1, <2>2, <2>3, <2>5, <2>10, <3>1, <3>2 DEF InMessage, Forwarded
    <3>4. MessageInv'
      BY <2>10, <3>3 DEF MessageInv
    <3> DEFINE side == from
    <3>5. \E k \in 0 .. Len(Stream[side]) : sent'[Peer(side)] = Upto(side, k)
      <4>1. j + SizeCells \in 0 .. Len(Stream[from])
        BY ONLY <1>2, <2>5
      <4> QED
        BY <3>1, <4>1
    <3> QED
      BY <1>1, <1>4, <2>2, <2>3, <2>10, <3>4, <3>5, SentPart DEF Begun, Forwarded
  <2> QED
    BY <1>4, <2>2, <2>3, <2>9, <2>10
<1> QED
  BY <1>5, <1>6

\* The payload completes the message: its direction rests again.
LEMMA SendDataStep == SessionInv /\ SendData => SessionInv'
<1> SUFFICES ASSUME SessionInv, SendData PROVE SessionInv'
  OBVIOUS
<1>1. /\ pc = "sendData" /\ TypesInv /\ MessageInv
      /\ from \in Sides /\ \A f \in Sides : read[f] <= arrived[f]
      /\ read \in [Sides -> Nat]
      /\ req_buf \in Seq(Cells) /\ got \in 0 .. Len(req_buf) /\ Len(req_buf) \in Nat
  BY ReadSide, LenProperties DEF SendData, SendPart, SessionInv, TypesInv, TypeOK
<1> DEFINE cells == SubSeq(req_buf, 1, Size)
<1>2. SendPart("sendData", cells, NextDirection)
  BY DEF SendData
<1>3. ASSUME Size \in 0 .. Len(req_buf)
      PROVE  /\ cells \in Seq(Cells) /\ Len(cells) = Size
             /\ \A k \in 1 .. Size : cells[k] = req_buf[k]
  <2>1. \A i \in 1 .. Size : req_buf[i] \in Cells
    BY <1>1, <1>3, ElementOfSeq
  <2>2. 1 \in Int /\ Size \in Int
    BY <1>1, <1>3
  <2>3. /\ cells \in Seq(Cells)
        /\ Len(cells) = IF 1 <= Size THEN Size - 1 + 1 ELSE 0
        /\ \A i \in 1 .. Size - 1 + 1 : cells[i] = req_buf[1 + i - 1]
    BY ONLY <2>1, <2>2, SubSeqProperties
  <2> HIDE DEF cells
  <2> QED
    BY ONLY <1>1, <1>3, <2>3
<1>4. ASSUME Size \in 0 .. Len(req_buf)
      PROVE  /\ conn' \in [Sides -> {"up", "fin", "reset", "gone", "dead"}]
             /\ conn["client"] = "dead" => conn'["client"] = "dead"
             /\ killed' \in BOOLEAN
             /\ UNCHANGED <<arrived, split, read, open, requests, req_buf, got, garbage>>
             /\ \/ pc' = "close" /\ UNCHANGED <<sent, from>>
                \/ /\ pc' \in {"wait", "idle"} /\ from' \in Sides
                   /\ sent' \in [Sides -> Seq(Cells)]
                   /\ sent'[Peer(from)] = sent[Peer(from)] \o cells
                   /\ \A f \in Sides : f # from => sent'[Peer(f)] = sent[Peer(f)]
  <2>1. cells \in Seq(Cells)
    BY <1>3, <1>4
  <2>2. NextDirection => pc' \in {"wait", "idle"} /\ from' \in Sides
    BY DEF NextDirection, Sides
  <2> HIDE DEF cells
  <2> QED
    BY <1>1, <1>2, <2>1, <2>2, SendFacts
<1>5. CASE Garbled
  <2>1. Size \in 0 .. Len(req_buf)
    BY <1>1, <1>5 DEF Size
  <2> HIDE DEF cells
  <2>2. CASE pc' = "close" /\ UNCHANGED <<sent, from>>
    BY <1>1, <1>4, <2>1, <2>2, GivesUp
  <2>3. CASE /\ pc' \in {"wait", "idle"} /\ from' \in Sides
             /\ sent' \in [Sides -> Seq(Cells)]
             /\ \A f \in Sides : f # from => sent'[Peer(f)] = sent[Peer(f)]
    <3>1. MessageInv'
      BY <2>3 DEF MessageInv
    <3> QED
      BY <1>1, <1>4, <1>5, <2>1, <2>3, <3>1, SentPart
  <2> QED
    BY <1>4, <2>1, <2>2, <2>3
<1>6. CASE ~Garbled
  <2>1. PICK m \in 1 .. Messages(from) : InMessage(m)
    BY <1>1, <1>6 DEF MessageInv
  <2> DEFINE j == Offset(from, m - 1) + HeadLen(from, m)
             n == Script[from][m].len
  <2>2. /\ Size = n /\ m \in Nat /\ n \in Nat /\ got \in Nat
        /\ Offset(from, m - 1) \in Nat /\ HeadLen(from, m) \in Nat
        /\ Offset(from, m) = j + n /\ j + n <= Len(Stream[from])
    BY <1>1, <1>6, <2>1, UnderWay
  <2>3. /\ got = n /\ read[from] = j + got
        /\ \A k \in 1 .. got : req_buf[k] = Cell(m, "data", k)
        /\ sent[Peer(from)] = Upto(from, j)
        /\ from = "client" => m = requests
    BY <1>1, <2>1 DEF InMessage, Forwarded, SentLen
  <2>4. Size \in 0 .. Len(req_buf)
    BY ONLY <1>1, <2>2, <2>3
  <2>5. /\ cells \in Seq(Cells) /\ Len(cells) = n
        /\ \A k \in 1 .. n : cells[k] = Cell(m, "data", k)
    BY <1>3, <2>2, <2>3, <2>4
  <2>6. \A k \in 1 .. n : Stream[from][j + k] = Cell(m, "data", k)
    BY <1>1, Layout
  <2>7. j \in Nat /\ Len(Stream[from]) \in Nat
    BY SMTT(30), <1>1, <2>2, StreamEnds
  <2> HIDE DEF cells, j, n
  <2>8. Upto(from, j) \o cells = Upto(from, j + n)
    <3> DEFINE seg == SubSeq(Stream[from], j + 1, j + n)
    <3>1. /\ seg \in Seq(Cells) /\ Len(seg) = n
          /\ \A i \in 1 .. n : seg[i] = Stream[from][j + i]
          /\ Upto(from, j) \o seg = Upto(from, j + n)
      BY ONLY <1>1, <2>2, <2>7, Segment
    <3> HIDE DEF seg
    <3>2. \A i \in 1 .. Len(seg) : seg[i] = cells[i]
      BY ONLY <2>5, <2>6, <3>1
    <3>3. seg = cells
      BY ONLY <2>5, <3>1, <3>2, SeqEqual
    <3> QED
      BY ONLY <3>1, <3>3
  <2>9. CASE pc' = "close" /\ UNCHANGED <<sent, from>>
    BY <1>1, <1>4, <2>4, <2>9, GivesUp
  <2>10. CASE /\ pc' \in {"wait", "idle"} /\ from' \in Sides
              /\ sent' \in [Sides -> Seq(Cells)]
              /\ sent'[Peer(from)] = sent[Peer(from)] \o cells
              /\ \A f \in Sides : f # from => sent'[Peer(f)] = sent[Peer(f)]
    <3>1. sent'[Peer(from)] = Upto(from, Offset(from, m))
      <4>1. sent'[Peer(from)] = Upto(from, j + n)
        BY ONLY <2>3, <2>8, <2>10
      <4>2. Offset(from, m) = j + n
        BY <2>2
      <4> QED
        BY ONLY <4>1, <4>2, Zenon
    <3>2. read[from] = Offset(from, m)
      BY ONLY <2>2, <2>3
    <3>3. UNCHANGED <<read, requests>>
      BY <1>4, <2>4
    <3>4. MessageInv'
      BY <2>10 DEF MessageInv
    <3>5. m \in 0 .. Messages(from) /\ Offset(from, m) \in 0 .. Len(Stream[from])
      BY <1>1, <2>1, <2>2, StreamEnds, Numbers
    <3> DEFINE side == from
    <3>6. \E k \in 0 .. Len(Stream[side]) : sent'[Peer(side)] = Upto(side, k)
      BY <3>1, <3>5
    <3>7. \E i \in 0 .. Messages(side) :
            /\ read'[side] = Offset(side, i) /\ sent'[Peer(side)] = Upto(side, Offset(side, i))
            /\ side = "client" => i = requests'
      <4>1. /\ read'[side] = Offset(side, m) /\ sent'[Peer(side)] = Upto(side, Offset(side, m))
            /\ side = "client" => m = requests'
        <5>1. read' = read /\ requests' = requests
          BY ONLY <3>3
        <5> QED
          BY ONLY <2>3, <3>1, <3>2, <5>1
      <4> HIDE DEF side
      <4>2. m \in 0 .. Messages(side)
        BY <3>5 DEF side
      <4> QED
        BY <4>1, <4>2
    <3> QED
      BY <1>1, <1>4, <2>4, <2>10, <3>4, <3>6, <3>7, SentPart
         DEF Begun, Rested, RestsAt, Forwarded
  <2> QED
    BY <1>4, <2>4, <2>9, <2>10
<1> QED
  BY <1>5, <1>6

-----------------------------------------------------------------------------
(* The theorems *)

\* Whatever the peers send, in whatever segments, and whenever they leave, the session is
\* either between messages or in the middle of one whose cells are in the buffer
\* (Session::process, handle_client_request, handle_server_response).
THEOREM SessionInvariant == Spec => []SessionInv
<1>1. SessionInv /\ [Next]_vars => SessionInv'
  <2> SUFFICES ASSUME SessionInv, [Next]_vars PROVE SessionInv'
    OBVIOUS
  <2>1. CASE Process
    BY <2>1, StartStep, BeginStep, TagStep, SizeStep, PayloadStep, LogStep, SendTagStep,
       SendSizeStep, SendDataStep, CloseStep DEF Process
  <2>2. CASE \E side \in Sides : Arrive(side) \/ Leave(side)
    BY <2>2, PeerStep
  <2>3. CASE UNCHANGED vars
    <3>1. UNCHANGED <<arrived, conn, split, read, sent, open, requests, req_buf, pc, from, got,
                      garbage, killed>>
      BY <2>3 DEF vars
    <3>2. TypesInv'
      BY <3>1 DEF SessionInv, TypesInv, TypeOK
    <3>3. PrefixInv' /\ RestInv' /\ HeadInv' /\ OpenInv' /\ GarbageInv'
      BY <3>1 DEF SessionInv, PrefixInv, Begun, Forwarded, RestInv, Resting, Rested, RestsAt,
                  HeadInv, OpenInv, GarbageInv
    <3>4. SizeInv'
      BY <3>1 DEF SessionInv, SizeInv, AtSize, Hopeless, Available, Forwarded
    <3>5. MessageInv'
      BY <3>1 DEF SessionInv, MessageInv, InMessage, Garbled, SentLen, Forwarded
    <3> QED
      BY <3>2, <3>3, <3>4, <3>5 DEF SessionInv
  <2> QED
    BY <2>1, <2>2, <2>3 DEF Next
<1> QED
  BY InitSession, <1>1, PTL DEF Spec

\* Each peer gets the cells of the other one, in order and unaltered, and between two calls
\* of process() an open session has forwarded whole messages only, as many requests as it
\* has counted (Session::process and its handlers).
THEOREM ForwardingIsFaithful == Spec => []ForwardsFaithfully
<1>1. SessionInv => ForwardsFaithfully
  <2> SUFFICES ASSUME SessionInv PROVE ForwardsFaithfully
    OBVIOUS
  <2>1. TypeOK /\ PrefixInv /\ RestInv
    BY DEF SessionInv, TypesInv
  <2>2. ASSUME NEW f \in Sides, NEW k \in 0 .. Len(Stream[f])
        PROVE  Len(Upto(f, k)) = k /\ IsPrefix(Upto(f, k), Stream[f])
    <3>1. Len(Stream[f]) \in Nat
      BY StreamEnds
    <3>2. Len(Upto(f, k)) = k /\ Upto(f, k) \in Seq(Cells)
      <4>1. k \in k .. Len(Stream[f])
        BY <3>1
      <4> QED
        BY <4>1, UptoExtends
    <3>3. SubSeq(Upto(f, k), 1, k) = Upto(f, k)
      BY ONLY <3>2, SubSeqFull
    <3> QED
      BY <3>1, <3>2, <3>3 DEF IsPrefix, Upto
  <2>3. ASSUME NEW side \in Sides
        PROVE  IsPrefix(sent[side], Stream[Peer(side)]) \/ (side = "server" /\ garbage)
    <3>1. Peer(side) \in Sides /\ Peer(Peer(side)) = side
      BY Peers
    <3>2. Peer(side) = "client" => side = "server"
      BY DEF Peer, Sides
    <3>3. Begun(Peer(side)) \/ (side = "server" /\ garbage)
      BY <2>1, <3>1, <3>2 DEF PrefixInv
    <3>4. ASSUME Begun(Peer(side)) PROVE IsPrefix(sent[side], Stream[Peer(side)])
      BY <2>2, <3>1, <3>4 DEF Begun, Forwarded
    <3> QED
      BY <3>3, <3>4
  <2>4. ASSUME pc = "idle", open, ~garbage
        PROVE  /\ sent["server"] = Whole("client", requests)
               /\ \A side \in Sides : Len(sent[Peer(side)]) = read[side]
    <3>1. \A f \in Sides : Rested(f)
      BY <2>1, <2>4 DEF RestInv, Resting
    <3>2. PICK m \in 0 .. Messages("client") : RestsAt("client", m)
      BY <3>1 DEF Rested, Sides
    <3>3. sent["server"] = Upto("client", Offset("client", m)) /\ m = requests
      BY <3>2 DEF RestsAt, Forwarded, Peer
    <3>4. Whole("client", m) = Upto("client", Offset("client", m))
      BY StreamEnds DEF Upto, Sides
    <3>5. ASSUME NEW side \in Sides PROVE Len(sent[Peer(side)]) = read[side]
      <4>1. PICK i \in 0 .. Messages(side) : RestsAt(side, i)
        BY <3>1 DEF Rested
      <4>2. Offset(side, i) \in 0 .. Len(Stream[side])
        BY StreamEnds
      <4> QED
        BY <2>2, <4>1, <4>2 DEF RestsAt, Forwarded
    <3> QED
      BY <3>3, <3>4, <3>5
  <2> QED
    BY <2>1, <2>3, <2>4 DEF ForwardsFaithfully
<1> QED
  BY SessionInvariant, <1>1, PTL

-----------------------------------------------------------------------------
(* The log *)

\* The current request is not in the log, and nothing of it was sent
Unlogged == /\ requests > 0
            /\ log = Logged(requests - 1)
            /\ Forwarded("client", Offset("client", requests - 1))

\* A request that could be a query is being read
Reading == from = "client" /\ pc \in {"size", "payload", "log"} /\ requests > 1

LogInv ==
  /\ Reading => Unlogged
  /\ ~Reading => \/ log = Logged(requests)
                 \/ Unlogged /\ (pc = "close" \/ ~open)

\* What is logged of some requests: what is logged of those before, and of the last.
LEMMA LoggedStep ==
  /\ Logged(0) = <<>>
  /\ \A n \in 1 .. Messages("client") + 1 :
       /\ Logged(n - 1) \in Seq(Seq(Cells))
       /\ Logged(n) = IF IsQuery(n) THEN Append(Logged(n - 1), Text(n)) ELSE Logged(n - 1)
<1> DEFINE M == Messages("client")
           Piece(i) == IF IsQuery(i) THEN <<Text(i)>> ELSE <<>>
           ss == [i \in 1 .. M + 1 |-> Piece(i)]
<1>1. M \in Nat
  BY Numbers DEF Sides
<1>2. \A i \in 1 .. M + 1 : IsQuery(i) => Text(i) \in Seq(Cells)
  <2> SUFFICES ASSUME NEW i \in 1 .. M + 1, IsQuery(i) PROVE Text(i) \in Seq(Cells)
    OBVIOUS
  <2>1. i \in 1 .. Messages("client") /\ i \in Nat
    BY <1>1 DEF IsQuery, Messages
  <2>2. Script["client"][i].len \in Nat
    BY <2>1, Numbers DEF Sides
  <2>3. \A k \in 1 .. Script["client"][i].len : Cell(i, "data", k) \in Cells
    BY <2>1, <2>2 DEF Cell, Cells
  <2>4. Text(i) \in [1 .. Script["client"][i].len -> Cells]
    BY <2>3 DEF Text
  <2> QED
    BY <2>2, <2>4
<1>3. \A i \in 1 .. M + 1 : Piece(i) \in Seq(Seq(Cells))
  BY <1>2, EmptySeq
<1> HIDE DEF M, Piece
<1>4. /\ ss \in Seq(Seq(Seq(Cells))) /\ Len(ss) = M + 1
      /\ \A i \in 1 .. M + 1 : ss[i] = Piece(i)
  <2>1. ss \in [1 .. M + 1 -> Seq(Seq(Cells))]
    BY <1>3
  <2>2. ss \in Seq(Seq(Seq(Cells)))
    BY <1>1, <2>1
  <2> QED
    BY <1>1, <2>1, <2>2, LenProperties
<1>5. \A n \in 0 .. M + 1 : Logged(n) = FlattenSeq(First(ss, n))
  <2> TAKE n \in 0 .. M + 1
  <2>1. \A i \in 1 .. n : i \in 1 .. M + 1
    BY <1>1
  <2>2. First(ss, n) = [i \in 1 .. n |-> Piece(i)]
    BY <1>4, <2>1 DEF First
  <2>3. Logged(n) = FlattenSeq([i \in 1 .. n |-> Piece(i)])
    BY DEF Logged, Piece
  <2> QED
    BY <2>2, <2>3
<1> HIDE DEF ss
<1>6. Logged(0) = <<>>
  <2>1. [i \in 1 .. 0 |-> Piece(i)] = <<>>
    OBVIOUS
  <2>2. Logged(0) = FlattenSeq([i \in 1 .. 0 |-> Piece(i)])
    BY DEF Logged, Piece
  <2>3. FlattenSeq(<<>>) = <<>>
    BY DEF FlattenSeq
  <2> QED
    BY <2>1, <2>2, <2>3
<1>7. ASSUME NEW n \in 1 .. M + 1
      PROVE  /\ Logged(n - 1) \in Seq(Seq(Cells))
             /\ Logged(n) = IF IsQuery(n) THEN Append(Logged(n - 1), Text(n)) ELSE Logged(n - 1)
  <2>1. /\ n - 1 \in Nat /\ n - 1 < Len(ss) /\ n - 1 + 1 = n
        /\ n - 1 \in 0 .. M + 1 /\ n \in 0 .. M + 1
    BY ONLY <1>1, <1>4, n \in 1 .. M + 1
  <2>2. /\ FlattenSeq(First(ss, n - 1)) \in Seq(Seq(Cells))
        /\ FlattenSeq(First(ss, n - 1 + 1)) = FlattenSeq(First(ss, n - 1)) \o ss[n - 1 + 1]
    BY ONLY <1>4, <2>1, FlattenStep
  <2>3. Logged(n - 1) \in Seq(Seq(Cells)) /\ Logged(n) = Logged(n - 1) \o Piece(n)
    BY ONLY <1>4, <1>5, <2>1, <2>2, n \in 1 .. M + 1
  <2>4. CASE IsQuery(n)
    <3>1. Piece(n) = <<Text(n)>> /\ Text(n) \in Seq(Cells)
      BY <1>2, <2>4 DEF Piece, M
    <3>2. Append(Logged(n - 1), Text(n)) = Logged(n - 1) \o <<Text(n)>>
      BY ONLY <2>3, <3>1, AppendIsConcat
    <3> QED
      BY ONLY <2>3, <2>4, <3>1, <3>2
  <2>5. CASE ~IsQuery(n)
    <3>1. Piece(n) = <<>>
      BY <2>5 DEF Piece
    <3>2. Logged(n - 1) \o <<>> = Logged(n - 1)
      BY ONLY <2>3, ConcatEmptySeq
    <3> QED
      BY ONLY <2>3, <2>5, <3>1, <3>2
  <2> QED
    BY ONLY <2>4, <2>5
<1> QED
  BY <1>6, <1>7 DEF M

\* No cell of the first messages is of a later one.
LEMMA CellsBefore ==
  ASSUME NEW f \in Sides
  PROVE  \A n \in 0 .. Messages(f) : \A p \in 1 .. Offset(f, n) : Stream[f][p].msg \in 0 .. n
<1> DEFINE P(n) == \A p \in 1 .. Offset(f, n) : Stream[f][p].msg \in 0 .. n
           T == {n \in Nat : n <= Messages(f) => P(n)}
<1>1. Messages(f) \in Nat
  BY Numbers
<1>2. 0 \in T
  BY <1>1, StreamEnds
<1>3. ASSUME NEW n \in Nat, n \in T PROVE n + 1 \in T
  <2> SUFFICES ASSUME n + 1 <= Messages(f), NEW p \in 1 .. Offset(f, n + 1)
               PROVE  Stream[f][p].msg \in 0 .. n + 1
    OBVIOUS
  <2>1. n + 1 \in 1 .. Messages(f) /\ n \in 0 .. Messages(f) /\ n <= Messages(f) /\ n + 1 - 1 = n
    BY <1>1
  <2>2. Offset(f, n) \in Nat /\ Offset(f, n + 1) \in Nat
    BY <1>1, <2>1, StreamEnds
  <2>3. CASE p <= Offset(f, n)
    <3>1. Stream[f][p].msg \in 0 .. n
      BY <1>3, <2>1, <2>2, <2>3
    <3> QED
      BY <3>1
  <2>4. CASE ~(p <= Offset(f, n))
    <3>1. p \in Offset(f, n + 1 - 1) + 1 .. Offset(f, n + 1)
      BY <2>1, <2>2, <2>4
    <3>2. Stream[f][p].msg = n + 1
      BY ONLY <2>1, <3>1, f \in Sides, CellsOfMessage
    <3> QED
      BY <3>2
  <2> QED
    BY <2>3, <2>4
<1> HIDE DEF P
<1>4. \A n \in Nat : n \in T
  <2> HIDE DEF T
  <2> QED
    BY <1>2, <1>3, SetInduction
<1>5. \A n \in 0 .. Messages(f) : P(n)
  BY <1>1, <1>4
<1> QED
  BY <1>5 DEF P

\* A query joins the log with the first part of it that is sent.
LEMMA LogSteps ==
  ASSUME SessionInv, LogInv, Next
  PROVE  LogInv'
<1>1. /\ TypesInv /\ RestInv /\ MessageInv /\ HeadInv /\ GarbageInv /\ OpenInv
      /\ from \in Sides /\ requests \in Nat /\ requests \in 0 .. Messages("client") + 1
      /\ Messages("client") \in Nat
  <2>1. TypesInv /\ requests \in 0 .. Messages("client") + 1
    BY DEF SessionInv, TypesInv, TypeOK, Messages
  <2> QED
    BY <2>1, ReadSide, Numbers DEF SessionInv, Sides
<1>2. UNCHANGED <<log, requests, sent>> /\ Unlogged => Unlogged'
  BY DEF Unlogged, Forwarded
<1>3. CASE Start \/ NothingToRead
  <2>1. pc \in {"idle", "wait"} /\ pc' \in {"idle", "wait"} /\ UNCHANGED <<log, requests, sent, open>>
    BY <1>3 DEF Start, NothingToRead, NextDirection
  <2> QED
    BY <1>2, <2>1 DEF LogInv, Reading
<1>4. CASE BeginMessage
  <2>1. pc = "wait" /\ UNCHANGED <<log, sent, open>> /\ open
        /\ \/ requests = 0 /\ requests' = 1
           \/ pc' = "tag" /\ requests' = requests
    BY <1>1, <1>4 DEF BeginMessage, OpenInv
  <2>2. log = Logged(requests)
    BY <2>1 DEF LogInv, Reading
  <2>3. Logged(1) = Logged(0)
    <3>1. 1 \in 1 .. Messages("client") + 1 /\ 1 - 1 = 0
      BY <1>1
    <3>2. ~IsQuery(1)
      BY DEF IsQuery
    <3> QED
      BY <3>1, <3>2, LoggedStep
  <2>4. log' = Logged(requests') /\ ~Reading'
    BY <1>1, <2>1, <2>2, <2>3 DEF Reading
  <2> QED
    BY <2>4 DEF LogInv
<1>5. CASE ReadTag
  <2>1. /\ pc = "tag" /\ open /\ UNCHANGED <<log, sent, open, from>>
        /\ requests' \in Nat
        /\ \/ pc' = "close" /\ requests' = requests
           \/ /\ pc' = "size"
              /\ requests' = IF from = "client" THEN requests + 1 ELSE requests
    BY <1>1, <1>5 DEF ReadTag, OpenInv
  <2>2. log = Logged(requests)
    BY <2>1 DEF LogInv, Reading
  <2>3. CASE requests' = requests
    <3>1. ~Reading'
      BY <1>1, <2>1, <2>3 DEF Reading
    <3> QED
      BY <2>1, <2>2, <2>3, <3>1 DEF LogInv
  <2>4. CASE requests' # requests
    <3>1. from = "client" /\ pc' = "size" /\ requests' = requests + 1 /\ requests >= 1
      BY <1>1, <2>1, <2>4 DEF HeadInv
    <3>2. ~garbage
      <4> SUFFICES ASSUME garbage PROVE FALSE
        OBVIOUS
      <4>1. conn["client"] = "dead" /\ arrived["client"] = 0 /\ read["client"] \in 0 .. 0
        BY <1>1 DEF GarbageInv, TypesInv, TypeOK, Sides
      <4>2. CASE Take(from, 1, 1)
        BY <1>1, <3>1, <4>1, <4>2 DEF Take, Available
      <4>3. CASE ReceiveFails(from)
        BY <3>1, <4>1, <4>3 DEF ReceiveFails
      <4>4. CASE EndOfStream(from) /\ UNCHANGED requests
        BY <2>4, <4>4
      <4> QED
        BY <1>5, <4>2, <4>3, <4>4 DEF ReadTag
    <3>3. Rested("client")
      BY <1>1, <2>1, <3>2 DEF RestInv, Resting, Sides
    <3>4. Forwarded("client", Offset("client", requests))
      BY <3>3 DEF Rested, RestsAt
    <3>5. Unlogged'
      <4>1. requests' > 0 /\ requests' - 1 = requests
        BY <1>1, <3>1
      <4>2. sent'[Peer("client")] = Upto("client", Offset("client", requests' - 1))
        BY <2>1, <3>4, <4>1 DEF Forwarded
      <4> QED
        BY <2>1, <2>2, <4>1, <4>2 DEF Unlogged, Forwarded
    <3>6. Reading'
      BY <1>1, <2>1, <3>1 DEF Reading
    <3> QED
      BY <3>5, <3>6 DEF LogInv
  <2> QED
    BY <2>3, <2>4
<1>6. CASE ReadSize \/ ReadPayload
  <2>1. /\ pc \in {"size", "payload"} /\ pc' \in {"close", "size", "payload", "log"} /\ open
        /\ UNCHANGED <<log, requests, sent, open, from>>
    <3>1. CASE ReadSize
      BY <1>1, <3>1 DEF ReadSize, OpenInv
    <3>2. CASE ReadPayload
      BY <1>1, <3>2 DEF ReadPayload, OpenInv
    <3> QED
      BY <1>6, <3>1, <3>2
  <2> QED
    BY <1>2, <2>1 DEF LogInv, Reading
<1>7. CASE LogRequest
  <2>1. /\ pc = "log" /\ pc' \in {"sendTag", "sendSize"} /\ UNCHANGED <<requests, from, sent, open>>
        /\ open
        /\ log' = IF from = "client" /\ ~garbage /\ requests > 1
                                     /\ Script[from][Current].type = Query
                    THEN Append(log, SubSeq(req_buf, 1, Size)) ELSE log
    BY <1>1, <1>7 DEF LogRequest, OpenInv
  <2>2. ~Reading'
    BY <2>1 DEF Reading
  <2>3. CASE ~Reading
    BY <1>1, <2>1, <2>2, <2>3 DEF LogInv, Reading
  <2>4. CASE Reading
    <3>1. from = "client" /\ requests > 1 /\ ~garbage /\ ~Garbled
      BY <1>1, <2>4 DEF Reading, GarbageInv, Garbled
    <3>2. PICK m \in 1 .. Messages(from) : InMessage(m)
      BY <1>1, <2>1, <3>1 DEF MessageInv
    <3>3. /\ m = requests /\ Current = m /\ Size = Script["client"][m].len
          /\ got = Size /\ Size \in Nat
          /\ \A k \in 1 .. Size : req_buf[k] = Cell(m, "data", k)
      BY <1>1, <2>1, <3>1, <3>2, UnderWay DEF InMessage
    <3>4. m \in 2 .. Len(Script["client"]) /\ m \in 1 .. Messages("client") + 1
      BY <1>1, <3>1, <3>2, <3>3 DEF Messages
    <3>5. log = Logged(m - 1)
      BY <2>4, <3>3 DEF LogInv, Unlogged
    <3>6. SubSeq(req_buf, 1, Size) = Text(m)
      <4>1. /\ req_buf \in Seq(Cells) /\ Size \in 0 .. Len(req_buf) /\ Len(req_buf) \in Nat
        BY <1>1, <3>3, LenProperties DEF TypesInv, TypeOK
      <4>2. \A i \in 1 .. Size : req_buf[i] \in Cells
        BY <4>1, ElementOfSeq
      <4>3. 1 \in Int /\ Size \in Int
        BY <3>3
      <4> DEFINE seg == SubSeq(req_buf, 1, Size)
      <4>4. /\ seg \in Seq(Cells)
            /\ Len(seg) = IF 1 <= Size THEN Size - 1 + 1 ELSE 0
            /\ \A i \in 1 .. Size - 1 + 1 : seg[i] = req_buf[1 + i - 1]
        BY ONLY <4>2, <4>3, SubSeqProperties
      <4> HIDE DEF seg
      <4>5. Len(seg) = Size /\ \A i \in 1 .. Size : seg[i] = Cell(m, "data", i)
        <5>1. Size \in Nat
          BY <3>3
        <5>2. Len(seg) = Size /\ \A i \in 1 .. Size : seg[i] = req_buf[i]
          BY ONLY <4>4, <5>1
        <5> QED
          BY ONLY <3>3, <5>2
      <4>6. Text(m) = [k \in 1 .. Size |-> Cell(m, "data", k)]
        BY <3>3 DEF Text
      <4>7. Text(m) \in [1 .. Size -> Cells] /\ \A i \in 1 .. Size : Text(m)[i] = seg[i]
        BY ONLY <3>3, <4>2, <4>5, <4>6
      <4>8. Text(m) \in Seq(Cells) /\ Len(Text(m)) = Size
        BY <3>3, <4>7, LenProperties
      <4>9. seg = Text(m)
        BY ONLY <4>4, <4>5, <4>7, <4>8, SeqEqual
      <4> QED
        BY <4>9 DEF seg
    <3>7. log' = IF IsQuery(m) THEN Append(log, Text(m)) ELSE log
      BY <2>1, <3>1, <3>3, <3>4, <3>6 DEF IsQuery
    <3>8. log' = Logged(requests')
      BY <2>1, <3>3, <3>4, <3>5, <3>7, LoggedStep
    <3> QED
      BY <2>2, <3>8 DEF LogInv
  <2> QED
    BY <2>3, <2>4
<1>8. CASE SendTag \/ SendSize \/ SendData
  <2>1. /\ pc \in {"sendTag", "sendSize", "sendData"} /\ open
        /\ pc' \in {"close", "sendSize", "sendData", "wait", "idle"} /\ UNCHANGED <<log, requests>>
    <3>1. CASE SendTag
      BY <1>1, <3>1 DEF SendTag, SendPart, OpenInv
    <3>2. CASE SendSize
      BY <1>1, <3>2 DEF SendSize, SendPart, OpenInv
    <3>3. CASE SendData
      BY <1>1, <3>3 DEF SendData, SendPart, NextDirection, OpenInv
    <3> QED
      BY <1>8, <3>1, <3>2, <3>3
  <2>2. log = Logged(requests)
    BY <2>1 DEF LogInv, Reading
  <2> QED
    BY <2>1, <2>2 DEF LogInv, Reading
<1>9. CASE CloseBoth
  <2>1. pc = "close" /\ pc' = "idle" /\ ~open' /\ UNCHANGED <<log, requests, sent>>
    BY <1>9 DEF CloseBoth
  <2> QED
    BY <1>2, <2>1 DEF LogInv, Reading
<1>10. CASE \E side \in Sides : Arrive(side) \/ Leave(side)
  <2>1. UNCHANGED <<log, requests, sent, open, pc, from>>
    BY <1>10 DEF Arrive, Leave
  <2> QED
    BY <1>2, <2>1 DEF LogInv, Reading
<1> QED
  BY <1>3, <1>4, <1>5, <1>6, <1>7, <1>8, <1>9, <1>10 DEF Next, Process

\* What is in the log, all along
LEMMA LogInvariant == Spec => []LogInv
<1>1. Init => LogInv
  BY LoggedStep DEF Init, LogInv, Reading
<1>2. SessionInv /\ LogInv /\ [Next]_vars => LogInv'
  <2> SUFFICES ASSUME SessionInv, LogInv, [Next]_vars PROVE LogInv'
    OBVIOUS
  <2>1. CASE UNCHANGED vars
    <3>1. UNCHANGED <<log, requests, sent, open, pc, from>>
      BY <2>1 DEF vars
    <3> QED
      BY <3>1 DEF LogInv, Reading, Unlogged, Forwarded
  <2> QED
    BY <2>1, LogSteps
<1> QED
  BY SessionInvariant, <1>1, <1>2, PTL DEF Spec

\* The log holds the exact texts of the queries among the counted requests, in order, but
\* perhaps the current one, and that one too as soon as a cell of it is sent
\* (Session::handle_client_request logs a simple query before it forwards it).
THEOREM QueriesAreLoggedFirst == Spec => []LoggedFirst
<1>1. SessionInv /\ LogInv => LoggedFirst
  <2> SUFFICES ASSUME SessionInv, LogInv PROVE LoggedFirst
    OBVIOUS
  <2>1. CASE log = Logged(requests)
    BY <2>1 DEF LoggedFirst
  <2>2. CASE log # Logged(requests)
    <3>1. Unlogged
      BY <2>2 DEF LogInv
    <3>2. requests > 0 /\ log = Logged(requests - 1)
          /\ sent["server"] = Upto("client", Offset("client", requests - 1))
      BY <3>1 DEF Unlogged, Forwarded, Peer
    <3>3. sent["server"] # <<>> => Last(sent["server"]).msg # requests
      <4> DEFINE k == Offset("client", requests - 1)
                 whole == Upto("client", k)
      <4>1. requests - 1 \in 0 .. Messages("client") /\ requests \in Nat
        <5>1. requests \in 0 .. Messages("client") + 1 /\ Messages("client") \in Nat
          BY Numbers DEF SessionInv, TypesInv, TypeOK, Messages, Sides
        <5> QED
          BY <3>2, <5>1
      <4>2. k \in 0 .. Len(Stream["client"]) /\ Len(Stream["client"]) \in Nat /\ "client" \in Sides
        BY <4>1, StreamEnds DEF Sides
      <4>3. \A p \in 1 .. k : Stream["client"][p].msg \in 0 .. requests - 1
        BY <4>1, <4>2, CellsBefore
      <4> HIDE DEF k
      <4>4. whole \in Seq(Cells) /\ Len(whole) = k
        <5>1. k \in k .. Len(Stream["client"])
          BY <4>2
        <5> QED
          BY <4>2, <5>1, UptoExtends
      <4>5. SUFFICES ASSUME whole # <<>> PROVE Last(whole).msg # requests
        BY <3>2 DEF k
      <4>6. k \in 1 .. k
        <5>1. k # 0
          BY ONLY <4>4, <4>5, EmptySeq, SeqEqual
        <5> QED
          BY <4>2, <5>1
      <4>7. whole[k] = Stream["client"][k]
        BY <4>2, <4>6 DEF Upto
      <4>8. Last(whole) = Stream["client"][k]
        BY <4>4, <4>7 DEF Last
      <4> QED
        BY <4>1, <4>3, <4>6, <4>8
    <3> QED
      BY <3>2, <3>3 DEF LoggedFirst
  <2> QED
    BY <2>1, <2>2
<1> QED
  BY SessionInvariant, LogInvariant, <1>1, PTL
=============================================================================
