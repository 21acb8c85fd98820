---------------------- MODULE ConcurrentContainerProofs ----------------------
(***************************************************************************)
(* Proofs about ConcurrentContainer, for every finite set of threads and   *)
(* every set of values.  ContainerInv is inductive: one lemma for each     *)
(* action, with one step for each part of the invariant.                   *)
(***************************************************************************)
EXTENDS ConcurrentContainer, FiniteSetTheorems, TLAPS

ReadersIn == {t \in Threads : pc[t] \in Counted}

USE ThreadsAssumption

\* Get preserves the invariant.
LEMMA GetInv ==
  ASSUME ContainerInv, NEW t \in Threads, Get(t)
  PROVE  ContainerInv'
<1> USE DEF Get, Goto, Counted, Holding, Writing
<1>0. TypeOK
  BY DEF ContainerInv
<1>1. TypeOK'
  BY <1>0 DEF TypeOK, Whole
<1>2. FlagsAccurate'
  <2>1. ReadersIn' = ReadersIn
    BY <1>0 DEF TypeOK, ReadersIn
  <2>2. readers_' = Cardinality(ReadersIn')
    BY <1>0, <2>1 DEF ContainerInv, TypeOK, FlagsAccurate, ReadersIn
  <2>3. write_flag_' <=> \E u \in Threads : pc'[u] \in Holding
    BY <1>0 DEF ContainerInv, TypeOK, FlagsAccurate
  <2>4. \A u, w \in Threads : pc'[u] \in Holding /\ pc'[w] \in Holding => u = w
    BY <1>0 DEF ContainerInv, TypeOK, FlagsAccurate
  <2> QED
    BY <2>2, <2>3, <2>4 DEF FlagsAccurate, ReadersIn
<1>3. WritesWhole'
  BY <1>0 DEF ContainerInv, TypeOK, FlagsAccurate, WritesWhole, GivenInv, IsWhole, Whole
<1>4. LateInv'
  BY <1>0 DEF ContainerInv, TypeOK, FlagsAccurate, LateInv
<1>5. CopyInv'
  BY <1>0 DEF ContainerInv, TypeOK, CopyInv, LateInv
<1>6. GivenInv'
  BY <1>0 DEF ContainerInv, TypeOK, FlagsAccurate, GivenInv, IsWhole, Whole
<1> QED
  BY <1>1, <1>2, <1>3, <1>4, <1>5, <1>6 DEF ContainerInv

\* TestFlag preserves the invariant.
LEMMA TestFlagInv ==
  ASSUME ContainerInv, NEW t \in Threads, TestFlag(t)
  PROVE  ContainerInv'
<1> USE DEF TestFlag, Goto, Counted, Holding, Writing
<1>0. TypeOK
  BY DEF ContainerInv
<1>1. TypeOK'
  BY <1>0 DEF TypeOK, Whole
<1>2. FlagsAccurate'
  <2>1. ReadersIn' = ReadersIn
    BY <1>0 DEF TypeOK, ReadersIn
  <2>2. readers_' = Cardinality(ReadersIn')
    BY <1>0, <2>1 DEF ContainerInv, TypeOK, FlagsAccurate, ReadersIn
  <2>3. write_flag_' <=> \E u \in Threads : pc'[u] \in Holding
    BY <1>0 DEF ContainerInv, TypeOK, FlagsAccurate
  <2>4. \A u, w \in Threads : pc'[u] \in Holding /\ pc'[w] \in Holding => u = w
    BY <1>0 DEF ContainerInv, TypeOK, FlagsAccurate
  <2> QED
    BY <2>2, <2>3, <2>4 DEF FlagsAccurate, ReadersIn
<1>3. WritesWhole'
  BY <1>0 DEF ContainerInv, TypeOK, FlagsAccurate, WritesWhole, GivenInv, IsWhole, Whole
<1>4. LateInv'
  BY <1>0 DEF ContainerInv, TypeOK, FlagsAccurate, LateInv
<1>5. CopyInv'
  BY <1>0 DEF ContainerInv, TypeOK, CopyInv, LateInv
<1>6. GivenInv'
  BY <1>0 DEF ContainerInv, TypeOK, FlagsAccurate, GivenInv, IsWhole, Whole
<1> QED
  BY <1>1, <1>2, <1>3, <1>4, <1>5, <1>6 DEF ContainerInv

\* CountReader preserves the invariant.
LEMMA CountReaderInv ==
  ASSUME ContainerInv, NEW t \in Threads, CountReader(t)
  PROVE  ContainerInv'
<1> USE DEF CountReader, Goto, Counted, Holding, Writing
<1>0. TypeOK
  BY DEF ContainerInv
<1>1. TypeOK'
  BY <1>0 DEF TypeOK, Whole
<1>2. FlagsAccurate'
  <2>1. ReadersIn' = ReadersIn \cup {t} /\ t \notin ReadersIn
    BY <1>0 DEF TypeOK, ReadersIn
  <2>2. IsFiniteSet(ReadersIn)
    BY FS_Subset DEF ReadersIn
  <2>3. Cardinality(ReadersIn') = Cardinality(ReadersIn) + 1
    BY <2>1, <2>2, FS_AddElement
  <2>4. readers_' = Cardinality(ReadersIn')
    BY <1>0, <2>3 DEF ContainerInv, TypeOK, FlagsAccurate, ReadersIn
  <2>5. write_flag_' <=> \E u \in Threads : pc'[u] \in Holding
    BY <1>0 DEF ContainerInv, TypeOK, FlagsAccurate
  <2>6. \A u, w \in Threads : pc'[u] \in Holding /\ pc'[w] \in Holding => u = w
    BY <1>0 DEF ContainerInv, TypeOK, FlagsAccurate
  <2> QED
    BY <2>4, <2>5, <2>6 DEF FlagsAccurate, ReadersIn
<1>3. WritesWhole'
  BY <1>0 DEF ContainerInv, TypeOK, FlagsAccurate, WritesWhole, GivenInv, IsWhole, Whole
<1>4. LateInv'
  BY <1>0 DEF ContainerInv, TypeOK, FlagsAccurate, LateInv
<1>5. CopyInv'
  BY <1>0 DEF ContainerInv, TypeOK, CopyInv, LateInv
<1>6. GivenInv'
  BY <1>0 DEF ContainerInv, TypeOK, FlagsAccurate, GivenInv, IsWhole, Whole
<1> QED
  BY <1>1, <1>2, <1>3, <1>4, <1>5, <1>6 DEF ContainerInv

\* Copy preserves the invariant.
LEMMA CopyStepInv ==
  ASSUME ContainerInv, NEW t \in Threads, Copy(t)
  PROVE  ContainerInv'
<1> USE DEF Copy, Goto, Counted, Holding, Writing
<1>0. TypeOK
  BY DEF ContainerInv
<1>1. TypeOK'
  BY <1>0 DEF TypeOK, Whole
<1>2. FlagsAccurate'
  <2>1. ReadersIn' = ReadersIn
    BY <1>0 DEF TypeOK, ReadersIn
  <2>2. readers_' = Cardinality(ReadersIn')
    BY <1>0, <2>1 DEF ContainerInv, TypeOK, FlagsAccurate, ReadersIn
  <2>3. write_flag_' <=> \E u \in Threads : pc'[u] \in Holding
    BY <1>0 DEF ContainerInv, TypeOK, FlagsAccurate
  <2>4. \A u, w \in Threads : pc'[u] \in Holding /\ pc'[w] \in Holding => u = w
    BY <1>0 DEF ContainerInv, TypeOK, FlagsAccurate
  <2> QED
    BY <2>2, <2>3, <2>4 DEF FlagsAccurate, ReadersIn
<1>3. WritesWhole'
  BY <1>0 DEF ContainerInv, TypeOK, FlagsAccurate, WritesWhole, GivenInv, IsWhole, Whole
<1>4. LateInv'
  BY <1>0 DEF ContainerInv, TypeOK, FlagsAccurate, LateInv
<1>5. CopyInv'
  BY <1>0 DEF ContainerInv, TypeOK, CopyInv, LateInv
<1>6. GivenInv'
  BY <1>0 DEF ContainerInv, TypeOK, FlagsAccurate, GivenInv, IsWhole, Whole
<1> QED
  BY <1>1, <1>2, <1>3, <1>4, <1>5, <1>6 DEF ContainerInv

\* CopyRest preserves the invariant.
LEMMA CopyRestInv ==
  ASSUME ContainerInv, NEW t \in Threads, CopyRest(t)
  PROVE  ContainerInv'
<1> USE DEF CopyRest, Goto, Counted, Holding, Writing
<1>0. TypeOK
  BY DEF ContainerInv
<1>1. TypeOK'
  BY <1>0 DEF TypeOK, Whole
<1>2. FlagsAccurate'
  <2>1. ReadersIn' = ReadersIn
    BY <1>0 DEF TypeOK, ReadersIn
  <2>2. readers_' = Cardinality(ReadersIn')
    BY <1>0, <2>1 DEF ContainerInv, TypeOK, FlagsAccurate, ReadersIn
  <2>3. write_flag_' <=> \E u \in Threads : pc'[u] \in Holding
    BY <1>0 DEF ContainerInv, TypeOK, FlagsAccurate
  <2>4. \A u, w \in Threads : pc'[u] \in Holding /\ pc'[w] \in Holding => u = w
    BY <1>0 DEF ContainerInv, TypeOK, FlagsAccurate
  <2> QED
    BY <2>2, <2>3, <2>4 DEF FlagsAccurate, ReadersIn
<1>3. WritesWhole'
  BY <1>0 DEF ContainerInv, TypeOK, FlagsAccurate, WritesWhole, GivenInv, IsWhole, Whole
<1>4. LateInv'
  BY <1>0 DEF ContainerInv, TypeOK, FlagsAccurate, LateInv
<1>5. CopyInv'
  BY <1>0 DEF ContainerInv, TypeOK, CopyInv, LateInv
<1>6. GivenInv'
  BY <1>0 DEF ContainerInv, TypeOK, FlagsAccurate, GivenInv, IsWhole, Whole
<1> QED
  BY <1>1, <1>2, <1>3, <1>4, <1>5, <1>6 DEF ContainerInv

\* ReleaseRead preserves the invariant.
LEMMA ReleaseReadInv ==
  ASSUME ContainerInv, NEW t \in Threads, ReleaseRead(t)
  PROVE  ContainerInv'
<1> USE DEF ReleaseRead, Goto, Counted, Holding, Writing
<1>0. TypeOK
  BY DEF ContainerInv
<1>a. Cardinality(ReadersIn \ {t}) = readers_ - 1 /\ readers_ - 1 \in Nat
  <2>1. IsFiniteSet(ReadersIn) /\ t \in ReadersIn
    BY FS_Subset DEF ReadersIn
  <2>2. IsFiniteSet(ReadersIn \ {t}) /\ Cardinality(ReadersIn \ {t}) = Cardinality(ReadersIn) - 1
    BY <2>1, FS_RemoveElement
  <2>3. Cardinality(ReadersIn \ {t}) \in Nat
    BY <2>2, FS_CardinalityType
  <2>4. Cardinality(ReadersIn) = readers_
    BY DEF ContainerInv, FlagsAccurate, ReadersIn
  <2> QED
    BY <2>2, <2>3, <2>4
<1>1. TypeOK'
  BY <1>0, <1>a DEF TypeOK
<1>2. FlagsAccurate'
  <2>1. ReadersIn' = ReadersIn \ {t}
    BY <1>0 DEF TypeOK, ReadersIn
  <2> QED
    BY ZenonT(30), <1>0, <1>a, <2>1 DEF ContainerInv, TypeOK, FlagsAccurate, ReadersIn
<1>3. WritesWhole'
  BY <1>0 DEF ContainerInv, TypeOK, FlagsAccurate, WritesWhole, GivenInv, IsWhole, Whole
<1>4. LateInv'
  BY <1>0 DEF ContainerInv, TypeOK, FlagsAccurate, LateInv
<1>5. CopyInv'
  BY <1>0 DEF ContainerInv, TypeOK, CopyInv, LateInv
<1>6. GivenInv'
  BY <1>0 DEF ContainerInv, TypeOK, FlagsAccurate, GivenInv, IsWhole, Whole
<1> QED
  BY <1>1, <1>2, <1>3, <1>4, <1>5, <1>6 DEF ContainerInv

\* SwapFlag preserves the invariant.
LEMMA SwapFlagInv ==
  ASSUME ContainerInv, NEW t \in Threads, SwapFlag(t)
  PROVE  ContainerInv'
<1> USE DEF SwapFlag, Goto, Counted, Holding, Writing
<1>0. TypeOK
  BY DEF ContainerInv
<1>1. TypeOK'
  BY <1>0 DEF TypeOK, Whole
<1>2. FlagsAccurate'
  <2>1. ReadersIn' = ReadersIn
    BY <1>0 DEF TypeOK, ReadersIn
  <2>2. readers_' = Cardinality(ReadersIn')
    BY <1>0, <2>1 DEF ContainerInv, TypeOK, FlagsAccurate, ReadersIn
  <2>3. write_flag_' <=> \E u \in Threads : pc'[u] \in Holding
    BY <1>0 DEF ContainerInv, TypeOK, FlagsAccurate
  <2>4. \A u, w \in Threads : pc'[u] \in Holding /\ pc'[w] \in Holding => u = w
    BY <1>0 DEF ContainerInv, TypeOK, FlagsAccurate
  <2> QED
    BY <2>2, <2>3, <2>4 DEF FlagsAccurate, ReadersIn
<1>3. WritesWhole'
  BY <1>0 DEF ContainerInv, TypeOK, FlagsAccurate, WritesWhole, GivenInv, IsWhole, Whole
<1>4. LateInv'
  BY <1>0 DEF ContainerInv, TypeOK, FlagsAccurate, LateInv
<1>5. CopyInv'
  BY <1>0 DEF ContainerInv, TypeOK, CopyInv, LateInv
<1>6. GivenInv'
  BY <1>0 DEF ContainerInv, TypeOK, FlagsAccurate, GivenInv, IsWhole, Whole
<1> QED
  BY <1>1, <1>2, <1>3, <1>4, <1>5, <1>6 DEF ContainerInv

\* DrainReaders preserves the invariant.
LEMMA DrainReadersInv ==
  ASSUME ContainerInv, NEW t \in Threads, DrainReaders(t)
  PROVE  ContainerInv'
<1> USE DEF DrainReaders, Goto, Counted, Holding, Writing
<1>0. TypeOK
  BY DEF ContainerInv
<1>a. \A r \in Threads : pc[r] \notin Counted
  <2>1. IsFiniteSet(ReadersIn) /\ Cardinality(ReadersIn) = 0
    BY FS_Subset DEF ReadersIn, ContainerInv, FlagsAccurate
  <2> QED
    BY <2>1, FS_EmptySet DEF ReadersIn
<1>1. TypeOK'
  BY <1>0 DEF TypeOK, Whole
<1>2. FlagsAccurate'
  <2>1. ReadersIn' = ReadersIn
    BY <1>0 DEF TypeOK, ReadersIn
  <2>2. readers_' = Cardinality(ReadersIn')
    BY <1>0, <2>1 DEF ContainerInv, TypeOK, FlagsAccurate, ReadersIn
  <2>3. write_flag_' <=> \E u \in Threads : pc'[u] \in Holding
    BY <1>0 DEF ContainerInv, TypeOK, FlagsAccurate
  <2>4. \A u, w \in Threads : pc'[u] \in Holding /\ pc'[w] \in Holding => u = w
    BY <1>0 DEF ContainerInv, TypeOK, FlagsAccurate
  <2> QED
    BY <2>2, <2>3, <2>4 DEF FlagsAccurate, ReadersIn
<1>3. WritesWhole'
  BY <1>0 DEF ContainerInv, TypeOK, FlagsAccurate, WritesWhole, GivenInv, IsWhole, Whole
<1>4. LateInv'
  BY <1>0, <1>a DEF ContainerInv, TypeOK, FlagsAccurate, LateInv
<1>5. CopyInv'
  BY <1>0 DEF ContainerInv, TypeOK, CopyInv, LateInv
<1>6. GivenInv'
  BY <1>0 DEF ContainerInv, TypeOK, FlagsAccurate, GivenInv, IsWhole, Whole
<1> QED
  BY <1>1, <1>2, <1>3, <1>4, <1>5, <1>6 DEF ContainerInv

\* Write preserves the invariant.
LEMMA WriteInv ==
  ASSUME ContainerInv, NEW t \in Threads, Write(t)
  PROVE  ContainerInv'
<1> USE DEF Write, Goto, Counted, Holding, Writing
<1>0. TypeOK
  BY DEF ContainerInv
<1>1. TypeOK'
  BY <1>0 DEF TypeOK, Whole
<1>2. FlagsAccurate'
  <2>1. ReadersIn' = ReadersIn
    BY <1>0 DEF TypeOK, ReadersIn
  <2>2. readers_' = Cardinality(ReadersIn')
    BY <1>0, <2>1 DEF ContainerInv, TypeOK, FlagsAccurate, ReadersIn
  <2>3. write_flag_' <=> \E u \in Threads : pc'[u] \in Holding
    BY <1>0 DEF ContainerInv, TypeOK, FlagsAccurate
  <2>4. \A u, w \in Threads : pc'[u] \in Holding /\ pc'[w] \in Holding => u = w
    BY <1>0 DEF ContainerInv, TypeOK, FlagsAccurate
  <2> QED
    BY <2>2, <2>3, <2>4 DEF FlagsAccurate, ReadersIn
<1>3. WritesWhole'
  BY <1>0 DEF ContainerInv, TypeOK, FlagsAccurate, WritesWhole, GivenInv, IsWhole, Whole
<1>4. LateInv'
  BY <1>0 DEF ContainerInv, TypeOK, FlagsAccurate, LateInv
<1>5. CopyInv'
  BY <1>0 DEF ContainerInv, TypeOK, CopyInv, LateInv
<1>6. GivenInv'
  BY <1>0 DEF ContainerInv, TypeOK, FlagsAccurate, GivenInv, IsWhole, Whole
<1> QED
  BY <1>1, <1>2, <1>3, <1>4, <1>5, <1>6 DEF ContainerInv

\* WriteRest preserves the invariant.
LEMMA WriteRestInv ==
  ASSUME ContainerInv, NEW t \in Threads, WriteRest(t)
  PROVE  ContainerInv'
<1> USE DEF WriteRest, Goto, Counted, Holding, Writing
<1>0. TypeOK
  BY DEF ContainerInv
<1>1. TypeOK'
  BY <1>0 DEF TypeOK, Whole
<1>2. FlagsAccurate'
  <2>1. ReadersIn' = ReadersIn
    BY <1>0 DEF TypeOK, ReadersIn
  <2>2. readers_' = Cardinality(ReadersIn')
    BY <1>0, <2>1 DEF ContainerInv, TypeOK, FlagsAccurate, ReadersIn
  <2>3. write_flag_' <=> \E u \in Threads : pc'[u] \in Holding
    BY <1>0 DEF ContainerInv, TypeOK, FlagsAccurate
  <2>4. \A u, w \in Threads : pc'[u] \in Holding /\ pc'[w] \in Holding => u = w
    BY <1>0 DEF ContainerInv, TypeOK, FlagsAccurate
  <2> QED
    BY <2>2, <2>3, <2>4 DEF FlagsAccurate, ReadersIn
<1>3. WritesWhole'
  BY <1>0 DEF ContainerInv, TypeOK, FlagsAccurate, WritesWhole, GivenInv, IsWhole, Whole
<1>4. LateInv'
  BY <1>0 DEF ContainerInv, TypeOK, FlagsAccurate, LateInv
<1>5. CopyInv'
  BY <1>0 DEF ContainerInv, TypeOK, CopyInv, LateInv
<1>6. GivenInv'
  BY <1>0 DEF ContainerInv, TypeOK, FlagsAccurate, GivenInv, IsWhole, Whole
<1> QED
  BY <1>1, <1>2, <1>3, <1>4, <1>5, <1>6 DEF ContainerInv

\* ReleaseWrite preserves the invariant.
LEMMA ReleaseWriteInv ==
  ASSUME ContainerInv, NEW t \in Threads, ReleaseWrite(t)
  PROVE  ContainerInv'
<1> USE DEF ReleaseWrite, Goto, Counted, Holding, Writing
<1>0. TypeOK
  BY DEF ContainerInv
<1>1. TypeOK'
  BY <1>0 DEF TypeOK, Whole
<1>2. FlagsAccurate'
  <2>1. ReadersIn' = ReadersIn
    BY <1>0 DEF TypeOK, ReadersIn
  <2>2. readers_' = Cardinality(ReadersIn')
    BY <1>0, <2>1 DEF ContainerInv, TypeOK, FlagsAccurate, ReadersIn
  <2>3. write_flag_' <=> \E u \in Threads : pc'[u] \in Holding
    BY <1>0 DEF ContainerInv, TypeOK, FlagsAccurate
  <2>4. \A u, w \in Threads : pc'[u] \in Holding /\ pc'[w] \in Holding => u = w
    BY <1>0 DEF ContainerInv, TypeOK, FlagsAccurate
  <2> QED
    BY <2>2, <2>3, <2>4 DEF FlagsAccurate, ReadersIn
<1>3. WritesWhole'
  BY <1>0 DEF ContainerInv, TypeOK, FlagsAccurate, WritesWhole, GivenInv, IsWhole, Whole
<1>4. LateInv'
  BY <1>0 DEF ContainerInv, TypeOK, FlagsAccurate, LateInv
<1>5. CopyInv'
  BY <1>0 DEF ContainerInv, TypeOK, CopyInv, LateInv
<1>6. GivenInv'
  BY <1>0 DEF ContainerInv, TypeOK, FlagsAccurate, GivenInv, IsWhole, Whole
<1> QED
  BY <1>1, <1>2, <1>3, <1>4, <1>5, <1>6 DEF ContainerInv

\* Set preserves the invariant.
LEMMA SetInv ==
  ASSUME ContainerInv, NEW t \in Threads, NEW v \in Values, Set(t, v)
  PROVE  ContainerInv'
<1> USE DEF Set, Goto, Counted, Holding, Writing
<1>0. TypeOK
  BY DEF ContainerInv
<1>1. TypeOK'
  BY <1>0 DEF TypeOK, Whole
<1>2. FlagsAccurate'
  <2>1. ReadersIn' = ReadersIn
    BY <1>0 DEF TypeOK, ReadersIn
  <2>2. readers_' = Cardinality(ReadersIn')
    BY <1>0, <2>1 DEF ContainerInv, TypeOK, FlagsAccurate, ReadersIn
  <2>3. write_flag_' <=> \E u \in Threads : pc'[u] \in Holding
    BY <1>0 DEF ContainerInv, TypeOK, FlagsAccurate
  <2>4. \A u, w \in Threads : pc'[u] \in Holding /\ pc'[w] \in Holding => u = w
    BY <1>0 DEF ContainerInv, TypeOK, FlagsAccurate
  <2> QED
    BY <2>2, <2>3, <2>4 DEF FlagsAccurate, ReadersIn
<1>3. WritesWhole'
  BY <1>0 DEF ContainerInv, TypeOK, FlagsAccurate, WritesWhole, GivenInv, IsWhole, Whole
<1>4. LateInv'
  BY <1>0 DEF ContainerInv, TypeOK, FlagsAccurate, LateInv
<1>5. CopyInv'
  BY <1>0 DEF ContainerInv, TypeOK, CopyInv, LateInv
<1>6. GivenInv'
  BY <1>0 DEF ContainerInv, TypeOK, FlagsAccurate, GivenInv, IsWhole, Whole
<1> QED
  BY <1>1, <1>2, <1>3, <1>4, <1>5, <1>6 DEF ContainerInv

\* The invariant holds initially.
LEMMA InitInv == Init => ContainerInv
<1> SUFFICES ASSUME Init PROVE ContainerInv
  OBVIOUS
<1> USE DEF Init, Counted, Holding, Writing
<1>1. TypeOK /\ WritesWhole
  <2>1. PICK v \in Values : data_ = Whole(v) /\ copy = [t \in Threads |-> Whole(v)]
    OBVIOUS
  <2>2. data_ \in Values \X Values /\ copy \in [Threads -> Values \X Values]
    BY <2>1 DEF Whole
  <2>3. IsWhole(data_)
    BY <2>1 DEF Whole, IsWhole
  <2> QED
    BY <2>2, <2>3 DEF TypeOK, WritesWhole
<1>2. FlagsAccurate
  <2>1. {t \in Threads : pc[t] \in Counted} = {}
    OBVIOUS
  <2> QED
    BY <2>1, FS_EmptySet DEF FlagsAccurate
<1>3. LateInv /\ CopyInv /\ GivenInv
  BY DEF LateInv, CopyInv, GivenInv
<1> QED
  BY <1>1, <1>2, <1>3 DEF ContainerInv

\* Every step preserves the invariant.
LEMMA NextInv == ContainerInv /\ [Next]_vars => ContainerInv'
<1> SUFFICES ASSUME ContainerInv, [Next]_vars PROVE ContainerInv'
  OBVIOUS
<1>1. ASSUME NEW t \in Threads, Proceed(t) PROVE ContainerInv'
  BY <1>1, TestFlagInv, CountReaderInv, CopyStepInv, CopyRestInv, ReleaseReadInv, SwapFlagInv,
     DrainReadersInv, WriteInv, WriteRestInv, ReleaseWriteInv DEF Proceed
<1>2. ASSUME NEW t \in Threads, Call(t) PROVE ContainerInv'
  BY <1>2, GetInv, SetInv DEF Call
<1>3. CASE UNCHANGED vars
  BY <1>3 DEF vars, ContainerInv, TypeOK, FlagsAccurate, WritesWhole, LateInv, CopyInv, GivenInv,
              IsWhole, Counted, Holding, Writing
<1> QED
  BY <1>1, <1>2, <1>3 DEF Next

\* So it holds in every reachable state.
THEOREM Invariance == Spec => []ContainerInv
  BY InitInv, NextInv, PTL DEF Spec

\* The counter of readers and the writer's flag are exact in every reachable state, and the
\* flag has one owner, however many threads call get() and set().
THEOREM LocksAccurate == Spec => []FlagsAccurate
  BY Invariance, PTL DEF ContainerInv

\* Writers never mix their values.
THEOREM ValuesWhole == Spec => []WritesWhole
  BY Invariance, PTL DEF ContainerInv

\* A write overlaps only the reads that slip between the test of the flag and the count.
THEOREM OverlapBounded == Spec => []OverlapOnlyLate
<1>1. ContainerInv => OverlapOnlyLate
  BY DEF ContainerInv, LateInv, OverlapOnlyLate
<1> QED
  BY <1>1, Invariance, PTL

\* All other reads return a whole value, the one the container holds when they return.
THEOREM OtherReadsCurrent == Spec => []ReadsCurrent
<1>1. ASSUME ContainerInv, NEW r \in Threads, pc[r] = "release", r \notin late
      PROVE  copy[r] = data_ /\ IsWhole(copy[r])
  <2>1. \A w \in Threads : pc[w] # "writeRest"
    BY <1>1 DEF ContainerInv, LateInv, Counted, Writing
  <2> QED
    BY <1>1, <2>1 DEF ContainerInv, CopyInv, WritesWhole
<1>2. ContainerInv => ReadsCurrent
  BY <1>1 DEF ReadsCurrent
<1> QED
  BY <1>2, Invariance, PTL
=============================================================================
