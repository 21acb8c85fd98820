---------------------------- MODULE ProgramsProofs ----------------------------
(***************************************************************************)
(* The safety of the system-wide locks, for any number of processes,       *)
(* semaphores and deaths; of the dialog of a Subprocess with its child,    *)
(* for any sizes of the buffer, the pipe and the texts; of the settings of *)
(* the serial dump, for any options; of the samples of src/ipc, for any    *)
(* processes, starts, rounds and sizes; and of what objects give back:     *)
(* ScopeExit and TcpSocket implement Ownership, and a Subprocess keeps its *)
(* descriptors, for every set of objects and every number of descriptors.  *)
(***************************************************************************)
EXTENDS MCPrograms, FiniteSetTheorems, SequenceTheorems, WellFoundedInduction, TLAPS

-----------------------------------------------------------------------------
(* The semaphore lock *)

\* Semaphores are numbered as they are created
RangeInv ==
  /\ name <= created /\ died \subseteq 1 .. created
  /\ \A p \in Procs : sem_[p] <= created /\ name_[p] <= created

\* Where the object of a process is tells what it has
ObjectInv ==
  \A p \in Procs :
    /\ locked_[p] => sem_[p] # 0
    /\ place[p] \in {"outside", "unlink"} => sem_[p] = 0 /\ ~locked_[p]
    /\ place[p] = "wait" => sem_[p] # 0 /\ ~locked_[p]
    /\ place[p] = "outside" => name_[p] = 0
    /\ place[p] = "unlink" => name_[p] # 0

\* One process at most has the name to unlink
NameInv ==
  \A p \in Procs : name_[p] # 0 => /\ name = name_[p]
                                  /\ \A q \in Procs : name_[q] # 0 => p = q

\* The token of a semaphore is in one place
TokenInv ==
  /\ \A p \in Procs : locked_[p] => value[sem_[p]] = 0 /\ sem_[p] \notin died
  /\ \A p, q \in Procs : locked_[p] /\ locked_[q] /\ sem_[p] = sem_[q] => p = q
  /\ \A s \in died : value[s] = 0
  /\ \A s \in 1 .. created : value[s] = 0 /\ s \notin died =>
       \E p \in Procs : locked_[p] /\ sem_[p] = s

SemInv == Locks!Semaphore!TypeOK /\ RangeInv /\ ObjectInv /\ NameInv /\ TokenInv

SemStep(p) == Locks!Semaphore!Call(p) \/ Locks!Semaphore!Crash(p)

\* What was created is within the bound.
LEMMA CreatedSems ==
  ASSUME Locks!Semaphore!TypeOK
  PROVE  /\ created \in Nat /\ MaxSems \in Nat
         /\ \A s \in 1 .. created : s \in Locks!Semaphore!Sems
         /\ \A p \in Procs : sem_[p] \in Nat /\ name_[p] \in Nat
  BY ProgramsAssumption
  DEF ProgramsAssumption, Locks!LocksAssumption, Locks!Semaphore!TypeOK, Locks!Semaphore!Sems

\* A process that opens finds the semaphore of the name, or creates one with its token in it.
LEMMA ConstructInv ==
  ASSUME SemInv, NEW p \in Procs, Locks!Semaphore!Construct(p)
  PROVE  SemInv'
<1> USE DEF SemInv
<1>1. /\ place[p] = "outside" /\ place' = [place EXCEPT ![p] = "object"]
      /\ UNCHANGED <<locked_, died>>
      /\ sem_[p] = 0 /\ ~locked_[p] /\ name_[p] = 0
  BY DEF Locks!Semaphore!Construct, ObjectInv
<1>2. CASE Locks!Semaphore!OpenExisting(p)
  <2>1. /\ name # 0 /\ sem_' = [sem_ EXCEPT ![p] = name]
        /\ UNCHANGED <<name, created, value, name_>>
    BY <1>2 DEF Locks!Semaphore!OpenExisting
  <2>2. Locks!Semaphore!TypeOK' /\ RangeInv'
    BY <1>1, <2>1 DEF Locks!Semaphore!TypeOK, RangeInv
  <2>3. ObjectInv' /\ NameInv' /\ TokenInv'
    BY <1>1, <2>1 DEF Locks!Semaphore!TypeOK, ObjectInv, NameInv, TokenInv
  <2> QED
    BY <2>2, <2>3
<1>3. CASE Locks!Semaphore!OpenNew(p)
  <2>1. /\ name = 0 /\ created < MaxSems
        /\ created' = created + 1 /\ name' = created + 1
        /\ value' = [value EXCEPT ![created + 1] = 1]
        /\ sem_' = [sem_ EXCEPT ![p] = created + 1]
        /\ name_' = [name_ EXCEPT ![p] = created + 1]
    BY <1>3 DEF Locks!Semaphore!OpenNew
  <2>2. /\ created \in Nat /\ created + 1 \in Locks!Semaphore!Sems /\ created + 1 # 0
        /\ created + 1 \in 0 .. MaxSems
    BY <2>1, ProgramsAssumption
    DEF ProgramsAssumption, Locks!LocksAssumption, Locks!Semaphore!TypeOK,
        Locks!Semaphore!Sems
  <2>3. Locks!Semaphore!TypeOK'
    BY <1>1, <2>1, <2>2 DEF Locks!Semaphore!TypeOK
  <2>4. \A q \in Procs : sem_[q] \in Nat /\ name_[q] \in Nat
    BY DEF Locks!Semaphore!TypeOK, Locks!Semaphore!Sems
  <2>5. RangeInv'
    BY <1>1, <2>1, <2>2, <2>4 DEF Locks!Semaphore!TypeOK, RangeInv
  <2>6. ObjectInv'
    BY <1>1, <2>1, <2>2 DEF Locks!Semaphore!TypeOK, ObjectInv
  <2>7. NameInv'
    BY <1>1, <2>1, <2>2 DEF Locks!Semaphore!TypeOK, NameInv
  <2>8. TokenInv'
    <3>1. \A q \in Procs \ {p} : sem_'[q] = sem_[q] /\ sem_[q] # created + 1
      BY <2>1, <2>2, <2>4 DEF Locks!Semaphore!TypeOK, RangeInv
    <3>2. \A s \in 1 .. created : value'[s] = value[s]
      BY <2>1, <2>2 DEF Locks!Semaphore!TypeOK
    <3>3. value'[created + 1] = 1
      BY <2>1, <2>2 DEF Locks!Semaphore!TypeOK
    <3>4. \A s \in 1 .. created' : s = created + 1 \/ s \in 1 .. created
      BY <2>1, <2>2
    <3>5. \A q \in Procs : locked_[q] => sem_[q] \in 1 .. created /\ q # p
      BY <1>1, <2>2, <2>4 DEF RangeInv, ObjectInv
    <3>6. \A q \in Procs : locked_'[q] => q # p /\ locked_[q] /\ sem_'[q] = sem_[q]
      BY <1>1, <3>1
    <3>7. /\ \A q \in Procs : locked_'[q] => value'[sem_'[q]] = 0 /\ sem_'[q] \notin died'
          /\ \A q, r \in Procs : locked_'[q] /\ locked_'[r] /\ sem_'[q] = sem_'[r] => q = r
      BY <1>1, <3>2, <3>5, <3>6 DEF TokenInv
    <3>8. \A s \in died' : value'[s] = 0
      BY <1>1, <3>2 DEF TokenInv, RangeInv
    <3>9. ASSUME NEW s \in 1 .. created', value'[s] = 0, s \notin died'
          PROVE  \E q \in Procs : locked_'[q] /\ sem_'[q] = s
      <4>1. s \in 1 .. created /\ value[s] = 0 /\ s \notin died
        BY <1>1, <3>2, <3>3, <3>4, <3>9
      <4>2. PICK q \in Procs : locked_[q] /\ sem_[q] = s
        BY <4>1 DEF TokenInv
      <4> QED
        BY <1>1, <3>1, <3>5, <4>2
    <3> QED
      BY <3>7, <3>8, <3>9 DEF TokenInv
  <2> QED
    BY <2>3, <2>5, <2>6, <2>7, <2>8
<1>4. CASE Locks!Semaphore!OpenFails
  <2>1. UNCHANGED <<name, created, value, sem_, name_>>
    BY <1>4 DEF Locks!Semaphore!OpenFails
  <2>2. Locks!Semaphore!TypeOK' /\ RangeInv'
    BY <1>1, <2>1 DEF Locks!Semaphore!TypeOK, RangeInv
  <2>3. ObjectInv' /\ NameInv' /\ TokenInv'
    BY <1>1, <2>1 DEF Locks!Semaphore!TypeOK, ObjectInv, NameInv, TokenInv
  <2> QED
    BY <2>2, <2>3
<1> QED
  BY <1>2, <1>3, <1>4 DEF Locks!Semaphore!Construct

\* The one who takes the token is the only one to hold it.
LEMMA TakeInv ==
  ASSUME SemInv, NEW p \in Procs, sem_[p] # 0, place[p] \in {"object", "wait"}, ~locked_[p],
         Locks!Semaphore!Decrement(p),
         place' = [place EXCEPT ![p] = "object"],
         UNCHANGED <<name, created, sem_, name_, died>>
  PROVE  SemInv'
<1> USE DEF SemInv
<1>1. /\ sem_[p] \in Locks!Semaphore!Sems /\ sem_[p] \in 1 .. created
      /\ value[sem_[p]] = 1
      /\ value' = [value EXCEPT ![sem_[p]] = 0]
      /\ locked_' = [locked_ EXCEPT ![p] = TRUE]
  <2>1. sem_[p] \in Locks!Semaphore!Sems /\ sem_[p] \in 1 .. created
    BY DEF Locks!Semaphore!TypeOK, Locks!Semaphore!Sems, RangeInv
  <2>2. value[sem_[p]] = 1
    BY <2>1 DEF Locks!Semaphore!TypeOK, Locks!Semaphore!Decrement
  <2>3. /\ value' = [value EXCEPT ![sem_[p]] = value[sem_[p]] - 1]
        /\ locked_' = [locked_ EXCEPT ![p] = TRUE]
    BY DEF Locks!Semaphore!Decrement
  <2> QED
    BY <2>1, <2>2, <2>3
<1>2. Locks!Semaphore!TypeOK' /\ RangeInv'
  BY <1>1 DEF Locks!Semaphore!TypeOK, RangeInv
<1>3. ObjectInv' /\ NameInv'
  BY <1>1 DEF ObjectInv, NameInv, Locks!Semaphore!TypeOK
<1>4. TokenInv'
  <2>1. \A s \in Locks!Semaphore!Sems \ {sem_[p]} : value'[s] = value[s]
    BY <1>1 DEF Locks!Semaphore!TypeOK
  <2>2. value'[sem_[p]] = 0 /\ locked_'[p] /\ sem_[p] \notin died
    BY <1>1 DEF Locks!Semaphore!TypeOK, TokenInv
  <2>3. \A q \in Procs \ {p} : locked_'[q] = locked_[q]
    BY <1>1 DEF Locks!Semaphore!TypeOK
  <2>4. \A q \in Procs \ {p} : locked_[q] => /\ sem_[q] # sem_[p]
                                             /\ sem_[q] \in Locks!Semaphore!Sems
    BY <1>1 DEF TokenInv, ObjectInv, Locks!Semaphore!TypeOK
  <2>5. \A s \in 1 .. created : s \in Locks!Semaphore!Sems
    BY CreatedSems
  <2> QED
    BY <1>1, <2>1, <2>2, <2>3, <2>4, <2>5 DEF TokenInv, RangeInv
<1> QED
  BY <1>2, <1>3, <1>4

\* The token that a locked object gives back is the one it has.
LEMMA GiveInv ==
  ASSUME SemInv, NEW p \in Procs, locked_[p],
         locked_' = [locked_ EXCEPT ![p] = FALSE],
         value' = [value EXCEPT ![sem_[p]] = @ + 1],
         UNCHANGED <<name, created, name_, died>>,
         \/ UNCHANGED <<sem_, place>>
         \/ /\ sem_' = [sem_ EXCEPT ![p] = 0]
            /\ place' = [place EXCEPT ![p] = IF name_[p] # 0 THEN "unlink" ELSE "outside"]
  PROVE  SemInv'
<1> USE DEF SemInv
<1>1. /\ sem_[p] \in Locks!Semaphore!Sems /\ sem_[p] \in 1 .. created
      /\ sem_[p] \notin died
      /\ place[p] = "object"
      /\ value' = [value EXCEPT ![sem_[p]] = 1]
  <2>1. sem_[p] \in Locks!Semaphore!Sems /\ sem_[p] \in 1 .. created
    BY DEF Locks!Semaphore!TypeOK, Locks!Semaphore!Sems, RangeInv, ObjectInv
  <2>2. value[sem_[p]] = 0 /\ sem_[p] \notin died
    BY DEF TokenInv
  <2>3. place[p] = "object"
    BY DEF ObjectInv, Locks!Semaphore!TypeOK
  <2> QED
    BY <2>1, <2>2, <2>3
<1>2. \A q \in Procs \ {p} : /\ sem_'[q] = sem_[q] /\ place'[q] = place[q]
                             /\ locked_'[q] = locked_[q]
  BY DEF Locks!Semaphore!TypeOK
<1>3. /\ ~locked_'[p]
      /\ \/ sem_'[p] = sem_[p] /\ place'[p] = "object"
         \/ sem_'[p] = 0 /\ place'[p] = IF name_[p] # 0 THEN "unlink" ELSE "outside"
  BY <1>1 DEF Locks!Semaphore!TypeOK
<1>4. Locks!Semaphore!TypeOK'
  BY <1>1 DEF Locks!Semaphore!TypeOK
<1>5. RangeInv'
  BY <1>1, <1>2, <1>3 DEF RangeInv, Locks!Semaphore!TypeOK
<1>6. ObjectInv' /\ NameInv'
  BY <1>2, <1>3 DEF ObjectInv, NameInv
<1>7. TokenInv'
  <2>1. value'[sem_[p]] = 1 /\ \A s \in Locks!Semaphore!Sems \ {sem_[p]} : value'[s] = value[s]
    BY <1>1 DEF Locks!Semaphore!TypeOK
  <2>2. \A q \in Procs : locked_'[q] => /\ q # p /\ locked_[q] /\ sem_'[q] = sem_[q]
                                        /\ sem_[q] # sem_[p]
                                        /\ sem_[q] \in Locks!Semaphore!Sems
    BY <1>2, <1>3 DEF TokenInv, ObjectInv, Locks!Semaphore!TypeOK
  <2>3. \A s \in 1 .. created : s \in Locks!Semaphore!Sems
    BY CreatedSems
  <2>4. ASSUME NEW s \in 1 .. created, value'[s] = 0, s \notin died
        PROVE  \E q \in Procs : locked_'[q] /\ sem_'[q] = s
    <3>1. s # sem_[p] /\ value[s] = 0
      BY <2>1, <2>3, <2>4
    <3>2. PICK q \in Procs : locked_[q] /\ sem_[q] = s
      BY <2>4, <3>1 DEF TokenInv
    <3>3. q # p
      BY <3>1, <3>2
    <3> QED
      BY <1>2, <3>2, <3>3
  <2> QED
    BY <1>1, <2>1, <2>2, <2>3, <2>4 DEF TokenInv, RangeInv
<1> QED
  BY <1>4, <1>5, <1>6, <1>7

\* An object that is not locked, or whose process dies, goes without a word to the others.
LEMMA LeaveInv ==
  ASSUME SemInv, NEW p \in Procs, place[p] # "outside",
         UNCHANGED <<created, value>>,
         locked_' = [locked_ EXCEPT ![p] = FALSE],
         sem_' = [sem_ EXCEPT ![p] = 0],
         died' = IF locked_[p] THEN died \cup {sem_[p]} ELSE died,
         \/ /\ place' = [place EXCEPT ![p] = "outside"]
            /\ name_' = [name_ EXCEPT ![p] = 0]
            /\ name' = name \/ (name' = 0 /\ name_[p] # 0)
         \/ /\ place' = [place EXCEPT ![p] = IF name_[p] # 0 THEN "unlink" ELSE "outside"]
            /\ UNCHANGED <<name, name_>>
  PROVE  SemInv'
<1> USE DEF SemInv
<1>1. \A q \in Procs \ {p} : /\ sem_'[q] = sem_[q] /\ place'[q] = place[q]
                             /\ locked_'[q] = locked_[q] /\ name_'[q] = name_[q]
  BY DEF Locks!Semaphore!TypeOK
<1>2. /\ ~locked_'[p] /\ sem_'[p] = 0
      /\ \/ place'[p] = "outside" /\ name_'[p] = 0
         \/ /\ place'[p] = IF name_[p] # 0 THEN "unlink" ELSE "outside"
            /\ name_'[p] = name_[p]
  BY DEF Locks!Semaphore!TypeOK
<1>3. locked_[p] => /\ sem_[p] \in Locks!Semaphore!Sems /\ sem_[p] \in 1 .. created
                    /\ value[sem_[p]] = 0
  BY DEF Locks!Semaphore!TypeOK, Locks!Semaphore!Sems, RangeInv, ObjectInv, TokenInv
<1>4. Locks!Semaphore!TypeOK'
  BY <1>3 DEF Locks!Semaphore!TypeOK
<1>5. RangeInv'
  <2>1. name' \in {name, 0} /\ \A q \in Procs : /\ sem_'[q] \in {sem_[q], 0}
                                               /\ name_'[q] \in {name_[q], 0}
    BY <1>1, <1>2
  <2>2. died' \subseteq 1 .. created
    BY <1>3 DEF RangeInv
  <2> QED
    BY <2>1, <2>2, CreatedSems DEF RangeInv
<1>6. ObjectInv'
  BY <1>1, <1>2 DEF ObjectInv
<1>7. NameInv'
  <2>1. CASE UNCHANGED <<name, name_>>
    BY <2>1 DEF NameInv
  <2>2. CASE /\ name_' = [name_ EXCEPT ![p] = 0]
             /\ name' = name \/ (name' = 0 /\ name_[p] # 0)
    <3>1. name_'[p] = 0
      BY <2>2 DEF Locks!Semaphore!TypeOK
    <3> QED
      BY <1>1, <2>2, <3>1 DEF NameInv
  <2> QED
    BY <2>1, <2>2
<1>8. TokenInv'
  <2>1. \A q \in Procs : locked_'[q] => /\ q # p /\ locked_[q] /\ sem_'[q] = sem_[q]
                                        /\ sem_[q] \notin died'
    BY <1>1, <1>2 DEF TokenInv
  <2>2. \A s \in died' : value[s] = 0
    BY <1>3 DEF TokenInv
  <2>3. ASSUME NEW s \in 1 .. created, value[s] = 0, s \notin died'
        PROVE  \E q \in Procs : locked_'[q] /\ sem_'[q] = s
    <3>1. PICK q \in Procs : locked_[q] /\ sem_[q] = s
      BY <2>3 DEF TokenInv
    <3>2. q # p
      BY <2>3, <3>1
    <3> QED
      BY <1>1, <3>1, <3>2
  <2> QED
    BY <2>1, <2>2, <2>3 DEF TokenInv
<1> QED
  BY <1>4, <1>5, <1>6, <1>7, <1>8

\* Every call of a process keeps the invariant, and so does its death.
LEMMA SemStepInv == ASSUME SemInv, NEW p \in Procs, SemStep(p) PROVE SemInv'
<1>1. ASSUME NEW to, place[p] \in {"object", "wait"}, sem_[p] # 0, ~locked_[p],
             to \in {"object", "wait"}, place' = [place EXCEPT ![p] = to],
             UNCHANGED <<name, created, value, sem_, locked_, name_, died>>
      PROVE  SemInv'
  <2>1. Locks!Semaphore!TypeOK' /\ RangeInv'
    BY <1>1 DEF SemInv, Locks!Semaphore!TypeOK, RangeInv
  <2>2. ObjectInv' /\ NameInv' /\ TokenInv'
    BY <1>1 DEF SemInv, Locks!Semaphore!TypeOK, ObjectInv, NameInv, TokenInv
  <2> QED
    BY <2>1, <2>2 DEF SemInv
<1>2. CASE Locks!Semaphore!Wait(p)
  BY <1>1, <1>2 DEF Locks!Semaphore!Wait
<1>3. CASE Locks!Semaphore!WaitOver(p)
  <2>1. /\ place[p] = "wait" /\ sem_[p] # 0 /\ ~locked_[p]
        /\ place' = [place EXCEPT ![p] = "object"]
        /\ UNCHANGED <<name, created, sem_, name_, died>>
    BY <1>3 DEF Locks!Semaphore!WaitOver, SemInv, ObjectInv
  <2>2. CASE Locks!Semaphore!Decrement(p)
    BY <2>1, <2>2, TakeInv
  <2>3. CASE UNCHANGED <<value, locked_>>
    BY <1>1, <2>1, <2>3
  <2> QED
    BY <1>3, <2>2, <2>3 DEF Locks!Semaphore!WaitOver
<1>4. CASE Locks!Semaphore!TryLock(p)
  <2>1. /\ place[p] = "object" /\ sem_[p] # 0 /\ ~locked_[p]
        /\ Locks!Semaphore!Decrement(p)
        /\ UNCHANGED <<name, created, sem_, name_, place, died>>
    BY <1>4 DEF Locks!Semaphore!TryLock
  <2>2. place' = [place EXCEPT ![p] = "object"]
    BY <2>1 DEF SemInv, Locks!Semaphore!TypeOK
  <2> QED
    BY <2>1, <2>2, TakeInv
<1>5. CASE Locks!Semaphore!Unlock(p)
  BY <1>5, GiveInv DEF Locks!Semaphore!Unlock
<1>6. CASE Locks!Semaphore!Destroy(p)
  <2>1. /\ place[p] = "object"
        /\ locked_' = [locked_ EXCEPT ![p] = FALSE]
        /\ value' = IF locked_[p] THEN [value EXCEPT ![sem_[p]] = @ + 1] ELSE value
        /\ sem_' = [sem_ EXCEPT ![p] = 0]
        /\ place' = [place EXCEPT ![p] = IF name_[p] # 0 THEN "unlink" ELSE "outside"]
        /\ UNCHANGED <<name, created, name_, died>>
    BY <1>6 DEF Locks!Semaphore!Destroy, Locks!Semaphore!ReleaseIfLocked
  <2>2. CASE locked_[p]
    BY <2>1, <2>2, GiveInv
  <2>3. CASE ~locked_[p]
    BY <2>1, <2>3, LeaveInv
  <2> QED
    BY <2>2, <2>3
<1>7. CASE Locks!Semaphore!Unlink(p)
  <2>1. /\ place[p] = "unlink" /\ name' = 0
        /\ name_' = [name_ EXCEPT ![p] = 0]
        /\ place' = [place EXCEPT ![p] = "outside"]
        /\ UNCHANGED <<created, value, sem_, locked_, died>>
    BY <1>7 DEF Locks!Semaphore!Unlink
  <2>2. name_[p] # 0 /\ sem_[p] = 0 /\ ~locked_[p]
    BY <2>1 DEF SemInv, ObjectInv
  <2>3. sem_' = [sem_ EXCEPT ![p] = 0] /\ locked_' = [locked_ EXCEPT ![p] = FALSE]
    BY <2>1, <2>2 DEF SemInv, Locks!Semaphore!TypeOK
  <2> QED
    BY <2>1, <2>2, <2>3, LeaveInv
<1>8. CASE Locks!Semaphore!Crash(p)
  BY <1>8, LeaveInv DEF Locks!Semaphore!Crash
<1> QED
  BY <1>2, <1>3, <1>4, <1>5, <1>6, <1>7, <1>8, ConstructInv
  DEF SemStep, Locks!Semaphore!Call

\* There is no semaphore.
LEMMA SemInit == Locks!Semaphore!Init => SemInv
  BY CreatedSems, ProgramsAssumption
  DEF ProgramsAssumption, Locks!LocksAssumption, SemInv, Locks!Semaphore!Init,
      Locks!Semaphore!TypeOK, Locks!Semaphore!Sems, RangeInv, ObjectInv, NameInv, TokenInv

\* The cardinality that SemaphoreLock speaks of is that of a set.
LEMMA SameCardinality == \A S : Locks!Semaphore!Cardinality(S) = Cardinality(S)
  BY DEF Locks!Semaphore!Cardinality, Cardinality

\* One place for each token makes one token.
LEMMA SemExact ==
  SemInv => Locks!Semaphore!TokenConserved /\ Locks!Semaphore!UnlinksOwnName
<1> SUFFICES ASSUME SemInv
             PROVE  Locks!Semaphore!TokenConserved /\ Locks!Semaphore!UnlinksOwnName
  OBVIOUS
<1>1. Locks!Semaphore!UnlinksOwnName
  BY DEF SemInv, NameInv, Locks!Semaphore!UnlinksOwnName
<1>2. ASSUME NEW s \in 1 .. created
      PROVE  value[s] + Cardinality(Locks!Semaphore!Holders(s)) + Cardinality(died \cap {s}) = 1
  <2> DEFINE H == Locks!Semaphore!Holders(s)
  <2>1. s \in Locks!Semaphore!Sems /\ value[s] \in {0, 1}
    BY CreatedSems DEF SemInv, Locks!Semaphore!TypeOK
  <2>2. CASE \E p \in Procs : locked_[p] /\ sem_[p] = s
    <3>1. PICK p \in Procs : locked_[p] /\ sem_[p] = s
      BY <2>2
    <3>2. H = {p}
      BY <3>1 DEF SemInv, TokenInv, Locks!Semaphore!Holders
    <3>3. value[s] = 0 /\ died \cap {s} = {}
      BY <3>1 DEF SemInv, TokenInv
    <3>4. Cardinality(H) = 1 /\ Cardinality(died \cap {s}) = 0
      BY <3>2, <3>3, FS_EmptySet, FS_Singleton
    <3> QED
      BY <3>3, <3>4
  <2>3. CASE ~\E p \in Procs : locked_[p] /\ sem_[p] = s
    <3>1. H = {}
      BY <2>3 DEF Locks!Semaphore!Holders
    <3>2. Cardinality(H) = 0
      BY <3>1, FS_EmptySet
    <3>3. CASE s \in died
      <4>1. value[s] = 0 /\ died \cap {s} = {s}
        BY <3>3 DEF SemInv, TokenInv
      <4>2. Cardinality(died \cap {s}) = 1
        BY <4>1, FS_Singleton
      <4> QED
        BY <3>2, <4>1, <4>2
    <3>4. CASE s \notin died
      <4>1. value[s] = 1 /\ died \cap {s} = {}
        BY <2>1, <2>3, <3>4 DEF SemInv, TokenInv
      <4>2. Cardinality(died \cap {s}) = 0
        BY <4>1, FS_EmptySet
      <4> QED
        BY <3>2, <4>1, <4>2
    <3> QED
      BY <3>3, <3>4
  <2> QED
    BY <2>2, <2>3
<1>3. \A s \in 1 .. created :
        value[s] + Cardinality(Locks!Semaphore!Holders(s)) + Cardinality(died \cap {s}) = 1
  BY ONLY <1>2
<1>4. Locks!Semaphore!TokenConserved
  BY ONLY <1>3, SameCardinality DEF Locks!Semaphore!TokenConserved
<1> QED
  BY <1>1, <1>4

-----------------------------------------------------------------------------
(* The file lock, and both *)

FileInv == Locks!File!TypeOK /\ Locks!File!GrantExact

\* The kernel gives the lock to one process, and takes it back from the one that has it.
LEMMA FileStepInv ==
  ASSUME FileInv, NEW p \in Procs, Locks!File!Call(p) \/ Locks!File!Crash(p)
  PROVE  FileInv'
<1> USE ProgramsAssumption
    DEF ProgramsAssumption, Locks!LocksAssumption, FileInv, Locks!File!TypeOK,
        Locks!File!GrantExact
<1>1. CASE Locks!File!Open(p) \/ Locks!File!Restart(p)
  BY <1>1 DEF Locks!File!Open, Locks!File!Restart
<1>2. CASE Locks!File!Flock(p)
  BY <1>2 DEF Locks!File!Flock
<1>3. CASE Locks!File!Release(p) \/ Locks!File!Crash(p)
  BY <1>3 DEF Locks!File!Release, Locks!File!Crash
<1> QED
  BY <1>1, <1>2, <1>3 DEF Locks!File!Call

LocksInv == SemInv /\ FileInv

\* No lock is there.
LEMMA LocksInit == Locks!Init => LocksInv
  BY SemInit, ProgramsAssumption
  DEF ProgramsAssumption, Locks!LocksAssumption, Locks!Init, Locks!File!Init, LocksInv, FileInv,
      Locks!File!TypeOK, Locks!File!GrantExact

\* Every step of the locks keeps their invariant.
LEMMA LocksStep ==
  ASSUME LocksInv, Locks!Next \/ UNCHANGED lockVars
  PROVE  LocksInv'
<1> USE DEF LocksInv
<1>1. ASSUME UNCHANGED Locks!semVars PROVE SemInv'
  <2>1. UNCHANGED <<name, created, value, sem_, locked_, name_, place, died>>
    BY <1>1 DEF Locks!semVars
  <2>2. Locks!Semaphore!TypeOK' /\ RangeInv'
    BY <2>1 DEF SemInv, Locks!Semaphore!TypeOK, RangeInv
  <2>3. ObjectInv' /\ NameInv' /\ TokenInv'
    BY <2>1 DEF SemInv, ObjectInv, NameInv, TokenInv
  <2> QED
    BY <2>2, <2>3 DEF SemInv
<1>2. ASSUME UNCHANGED Locks!fileVars PROVE FileInv'
  BY <1>2 DEF Locks!fileVars, FileInv, Locks!File!TypeOK, Locks!File!GrantExact
<1>3. ASSUME NEW p \in Procs, Locks!UseSemaphore(p) \/ Locks!UseFile(p) \/ Locks!Crash(p)
      PROVE  LocksInv'
  <2>1. /\ SemStep(p) \/ UNCHANGED Locks!semVars
        /\ Locks!File!Call(p) \/ Locks!File!Crash(p) \/ UNCHANGED Locks!fileVars
    BY <1>3 DEF Locks!UseSemaphore, Locks!UseFile, Locks!Crash, SemStep
  <2> QED
    BY <1>1, <1>2, <2>1, SemStepInv, FileStepInv
<1>4. ASSUME UNCHANGED lockVars PROVE LocksInv'
  BY <1>1, <1>2, <1>4 DEF lockVars, Locks!semVars, Locks!fileVars
<1> QED
  BY <1>3, <1>4 DEF Locks!Next

-----------------------------------------------------------------------------
(* The dialog with a child *)

Cell == Dialog!Texts \X Nat

\* What main() has not used yet of what the child has said
Said == out \o output

\* main() reads in the calls that read; purge() is the fifth
PlaceInv ==
  /\ at = "read" => step \in {1, 3, 5, 7, 9}
  /\ purged => step > 5 \/ (step = 5 /\ at = "read")

DialogInv ==
  /\ Dialog!TypeOK /\ Dialog!InStep
  /\ output \in Seq(Cell) /\ out \in Seq(Cell)
  /\ PlaceInv

\* The states in which InStep says something
Due == at # "done" /\ step <= 7 /\ (step > 5 => purged /\ errors = 0)

\* A text is a sequence of cells, of the length it has.
LEMMA TextCells ==
  ASSUME Dialog!TypeOK, NEW text \in Dialog!Texts
  PROVE  /\ length[text] \in Nat \ {0}
         /\ Dialog!Cells(text) \in Seq(Cell)
         /\ Len(Dialog!Cells(text)) = length[text]
         /\ \A i \in 1 .. length[text] : Dialog!Cells(text)[i] = <<text, i>>
<1>1. length[text] \in Nat \ {0}
  <2>1. TextLengths \subseteq 1 .. Capacity /\ Capacity \in Nat
    BY ProgramsAssumption DEF ProgramsAssumption, Dialog!BufAssumption
  <2>2. length[text] \in TextLengths
    BY DEF Dialog!TypeOK
  <2>3. length[text] \in 1 .. Capacity
    BY <2>1, <2>2
  <2> QED
    BY ONLY <2>1, <2>3
<1>2. \A i \in 1 .. length[text] : <<text, i>> \in Cell
  BY <1>1 DEF Cell
<1>3. Dialog!Cells(text) \in [1 .. length[text] -> Cell]
  BY <1>2 DEF Dialog!Cells
<1>4. /\ DOMAIN Dialog!Cells(text) = 1 .. length[text]
      /\ \A i \in 1 .. length[text] : Dialog!Cells(text)[i] = <<text, i>>
  BY DEF Dialog!Cells
<1>5. Dialog!Cells(text) \in Seq(Cell)
  BY <1>1, <1>3
<1>6. Len(Dialog!Cells(text)) = length[text]
  BY <1>1, <1>4, <1>5, LenProperties
<1> QED
  BY <1>1, <1>4, <1>5, <1>6

\* read() takes a part of the output off its front.
LEMMA ChunkSplits ==
  ASSUME output \in Seq(Cell)
  PROVE  LET rest == SubSeq(output, Len(Dialog!Chunk) + 1, Len(output))
         IN  /\ Dialog!Chunk \in Seq(Cell) /\ rest \in Seq(Cell)
             /\ Dialog!Chunk \o rest = output
             /\ Len(rest) <= Len(output)
             /\ Len(Dialog!Chunk) # BufSize => Dialog!Chunk = output /\ rest = <<>>
<1> DEFINE n == IF Len(output) < BufSize THEN Len(output) ELSE BufSize
<1>1. Len(output) \in Nat /\ BufSize \in Nat
  BY LenProperties, ProgramsAssumption DEF ProgramsAssumption, Dialog!BufAssumption
<1>2. n \in 0 .. Len(output) /\ n \in Nat
  BY <1>1
<1> HIDE DEF n
<1>3. Dialog!Chunk = SubSeq(output, 1, n)
  BY DEF Dialog!Chunk, n
<1>4. \A i \in 1 .. Len(output) : output[i] \in Cell
  BY ElementOfSeq
<1>5. Dialog!Chunk \in Seq(Cell) /\ Len(Dialog!Chunk) = n
  <2>1. 1 \in Int /\ n \in Int /\ \A i \in 1 .. n : output[i] \in Cell
    BY <1>2, <1>4
  <2>2. /\ SubSeq(output, 1, n) \in Seq(Cell)
        /\ Len(SubSeq(output, 1, n)) = IF 1 <= n THEN n - 1 + 1 ELSE 0
    BY <2>1, SubSeqProperties
  <2> QED
    BY <1>2, <1>3, <2>2
<1> DEFINE rest == SubSeq(output, n + 1, Len(output))
<1>6. rest \in Seq(Cell) /\ Len(rest) <= Len(output)
  <2>1. n + 1 \in Int /\ Len(output) \in Int /\ \A i \in n + 1 .. Len(output) : output[i] \in Cell
    BY <1>1, <1>2, <1>4
  <2>2. /\ rest \in Seq(Cell)
        /\ Len(rest) = IF n + 1 <= Len(output) THEN Len(output) - (n + 1) + 1 ELSE 0
    BY <2>1, SubSeqProperties
  <2> QED
    BY <1>1, <1>2, <2>2
<1>7. SubSeq(output, 1, n) \o rest = output
  <2>1. /\ 1 \in 1 .. Len(output) + 1 /\ n \in 1 - 1 .. Len(output)
        /\ Len(output) \in n .. Len(output)
    BY <1>1, <1>2
  <2>2. SubSeq(output, 1, n) \o rest = SubSeq(output, 1, Len(output))
    BY <2>1, ConcatAdjacentSubSeq
  <2> QED
    BY <2>2, SubSeqFull
<1>8. ASSUME n # BufSize PROVE SubSeq(output, 1, n) = output /\ rest = <<>>
  <2>1. n = Len(output)
    BY <1>8 DEF n
  <2>2. n + 1 \in Int /\ Len(output) \in Int /\ Len(output) < n + 1
    BY <1>1, <2>1
  <2> QED
    BY <2>1, <2>2, SubSeqFull, SubSeqEmpty
<1> QED
  BY <1>3, <1>5, <1>6, <1>7, <1>8

\* A string that starts with a text contains it, one of another text only does not.
LEMMA ContainsFacts ==
  ASSUME Dialog!TypeOK, NEW text \in Dialog!Texts, NEW other \in Dialog!Texts
  PROVE  /\ \A s \in Seq(Cell) : Dialog!Contains(Dialog!Cells(text) \o s, text)
         /\ Dialog!Contains(Dialog!Cells(text), text)
         /\ ~Dialog!Contains(<<>>, text)
         /\ text # other => ~Dialog!Contains(Dialog!Cells(other), text)
<1> DEFINE cells == Dialog!Cells(text)
<1> DEFINE n == length[text]
<1>1. /\ n \in Nat \ {0} /\ cells \in Seq(Cell) /\ Len(cells) = n
      /\ \A i \in 1 .. n : cells[i] = <<text, i>>
  BY TextCells
<1> HIDE DEF cells, n
<1>2. ASSUME NEW s \in Seq(Cell) PROVE Dialog!Contains(cells \o s, text)
  <2>1. Len(cells \o s) = n + Len(s) /\ Len(s) \in Nat
    BY <1>1, ConcatProperties, LenProperties
  <2>2. SubSeq(cells \o s, 1, n) = cells
    <3>1. SubSeq(cells \o s, 1, n) = SubSeq(cells, 1, n)
      BY <1>1, SubSeqOfConcat1
    <3> QED
      BY <1>1, <3>1, SubSeqFull
  <2>3. 0 \in 0 .. Len(cells \o s) - n /\ 0 + 1 = 1 /\ 0 + n = n
    BY <1>1, <2>1
  <2> QED
    BY <2>2, <2>3 DEF Dialog!Contains, cells, n
<1>3. Dialog!Contains(cells, text)
  BY <1>1, <1>2, EmptySeq, ConcatEmptySeq
<1>4. ~Dialog!Contains(<<>>, text)
  <2>1. 0 .. 0 - n = {}
    BY <1>1
  <2> QED
    BY <2>1, EmptySeq DEF Dialog!Contains, n
<1>5. ASSUME text # other, Dialog!Contains(Dialog!Cells(other), text) PROVE FALSE
  <2> DEFINE s == Dialog!Cells(other)
  <2>1. /\ s \in Seq(Cell) /\ Len(s) \in Nat
        /\ \A i \in 1 .. Len(s) : s[i] = <<other, i>>
    BY TextCells
  <2> HIDE DEF s
  <2>2. PICK i \in 0 .. Len(s) - n : SubSeq(s, i + 1, i + n) = cells
    BY <1>5 DEF Dialog!Contains, cells, n, s
  <2>3. i + 1 \in 1 .. Len(s) /\ i + n \in i + 1 .. Len(s) /\ i \in Nat
    BY <1>1, <2>1, <2>2
  <2>4. SubSeq(s, i + 1, i + n)[1] = s[i + 1]
    <3>1. \A k \in i + 1 .. i + n : s[k] \in Cell
      BY <1>1, <2>1, <2>3, ElementOfSeq
    <3>2. \A k \in 1 .. (i + n) - (i + 1) + 1 : SubSeq(s, i + 1, i + n)[k] = s[i + 1 + k - 1]
      BY <1>1, <2>3, <3>1, SubSeqProperties
    <3>3. 1 \in 1 .. (i + n) - (i + 1) + 1 /\ i + 1 + 1 - 1 = i + 1
      BY <1>1, <2>3
    <3> QED
      BY <3>2, <3>3
  <2>5. cells[1] = <<text, 1>> /\ s[i + 1] = <<other, i + 1>>
    BY <1>1, <2>1, <2>3
  <2>6. <<text, 1>> = <<other, i + 1>>
    BY <2>2, <2>4, <2>5
  <2> QED
    BY ONLY <1>5, <2>6
<1> QED
  BY <1>2, <1>3, <1>4, <1>5 DEF cells

\* What the stages are, one by one
Stage(s, c, lines, said) ==
  \/ /\ s = 1 /\ lines = <<>>
     /\ \/ c = "usage" /\ said = <<>>
        \/ c = "prompt" /\ said = Dialog!Cells("Usage")
        \/ c = "command" /\ said = Dialog!Cells("Usage") \o Dialog!Cells("Prompt")
  \/ s = 2 /\ lines = <<>> /\ c = "command" /\ said = <<>>
  \/ /\ s = 3
     /\ \/ c = "command" /\ lines = <<"in">> /\ said = <<>>
        \/ c = "in" /\ lines = <<>> /\ said = <<>>
        \/ c = "text" /\ lines = <<>> /\ said = Dialog!Cells("AskText")
  \/ s = 4 /\ lines = <<>> /\ c = "text" /\ said = <<>>
  \/ /\ s = 5
     /\ \/ c = "text" /\ lines = <<"test">> /\ said = <<>>
        \/ c = "prompt" /\ lines = <<>> /\ said = <<>>
        \/ c = "command" /\ lines = <<>> /\ said = Dialog!Cells("Prompt")
  \/ s = 6 /\ lines = <<>> /\ c = "command" /\ said = <<>>
  \/ /\ s = 7
     /\ \/ c = "command" /\ lines = <<"out">> /\ said = <<>>
        \/ c = "out" /\ lines = <<>> /\ said = <<>>
        \/ c = "prompt" /\ lines = <<>> /\ said = Dialog!Cells("Answer")
        \/ c = "command" /\ lines = <<>>
           /\ said = Dialog!Cells("Answer") \o Dialog!Cells("Prompt")

\* InStep, said with the stages.
LEMMA InStepStage ==
  step \in 1 .. 10 => (Dialog!InStep <=> (Due => Stage(step, child, input, Said)))
<1> SUFFICES ASSUME step \in 1 .. 10
             PROVE  Dialog!InStep <=> (Due => Stage(step, child, input, Said))
  OBVIOUS
<1>1. ASSUME step <= 7
      PROVE  <<child, input, Said>> \in Dialog!Stages[step] <=> Stage(step, child, input, Said)
  <2>0. \A a, b, c, d, e, f : <<a, b, c>> = <<d, e, f>> <=> a = d /\ b = e /\ c = f
    OBVIOUS
  <2>1. CASE step = 1
    BY <2>0, <2>1 DEF Dialog!Stages, Stage
  <2>2. CASE step = 2
    BY <2>0, <2>2 DEF Dialog!Stages, Stage
  <2>3. CASE step = 3
    BY <2>0, <2>3 DEF Dialog!Stages, Stage
  <2>4. CASE step = 4
    BY <2>0, <2>4 DEF Dialog!Stages, Stage
  <2>5. CASE step = 5
    BY <2>0, <2>5 DEF Dialog!Stages, Stage
  <2>6. CASE step = 6
    BY <2>0, <2>6 DEF Dialog!Stages, Stage
  <2>7. CASE step = 7
    BY <2>0, <2>7 DEF Dialog!Stages, Stage
  <2> QED
    BY <1>1, <2>1, <2>2, <2>3, <2>4, <2>5, <2>6, <2>7
<1> QED
  BY <1>1 DEF Dialog!InStep, Due, Said

\* The calls of main(), one by one.
LEMMA MainCalls ==
  /\ Len(Dialog!Main) = 10 /\ DOMAIN Dialog!Main = 1 .. 10
  /\ \A i \in 1 .. 10 : i + 1 \in 1 .. 10 \/ i = 10
  BY DEF Dialog!Main

\* What each call does, and what it waits for or sends.
LEMMA CallOps ==
  ASSUME step \in 1 .. 10
  PROVE  /\ Dialog!Call.op = "expect" <=> step \in {1, 3}
         /\ Dialog!Call.op = "purge" <=> step = 5
         /\ Dialog!Call.op = "write" <=> step \in {2, 4, 6, 8}
         /\ Dialog!Call.op = "wait_pid" <=> step = 10
         /\ Dialog!Reading <=> step \in {1, 3, 5, 7, 9}
         /\ step = 1 => Dialog!Call.text = "Prompt"
         /\ step = 3 => Dialog!Call.text = "AskText"
         /\ step = 2 => Dialog!Call.line = "in"
         /\ step = 4 => Dialog!Call.line = "test"
         /\ step = 6 => Dialog!Call.line = "out"
<1>1. CASE step \in {1, 2, 3, 4, 5}
  BY <1>1 DEF Dialog!Call, Dialog!Main, Dialog!Reading
<1>2. CASE step \in {6, 7, 8, 9, 10}
  BY <1>2 DEF Dialog!Call, Dialog!Main, Dialog!Reading
<1> QED
  BY <1>1, <1>2

\* InStep of the next state: the texts stay as they are.
LEMMA NextInStep ==
  ASSUME step' \in 1 .. 10, UNCHANGED length,
         Due' => Stage(step', child', input', Said')
  PROVE  Dialog!InStep'
<1>1. (step \in 1 .. 10 => (Dialog!InStep <=> (Due => Stage(step, child, input, Said))))'
  BY InStepStage, PTL
<1>2. \A text : Dialog!Cells(text)' = Dialog!Cells(text)
  BY DEF Dialog!Cells
<1>3. Stage(step, child, input, Said)' <=> Stage(step', child', input', Said')
  BY <1>2 DEF Stage
<1> QED
  BY <1>1, <1>3

\* The child prints behind what is in the pipe, when it is its turn.
LEMMA PrintsInv == ASSUME DialogInv, Dialog!ChildPrints PROVE DialogInv'
<1> USE DEF DialogInv
<1> DEFINE cells == Dialog!Cells(Dialog!Saying[child])
<1>1. /\ child \in {"usage", "prompt", "in", "out", "quit"}
      /\ child' = Dialog!After[child] /\ Dialog!Saying[child] \in Dialog!Texts
      /\ child' \in Dialog!Commands \cup {"usage", "prompt", "command", "text", "exited"}
  BY DEF Dialog!ChildPrints, Dialog!Saying, Dialog!After, Dialog!Texts, Dialog!Commands
<1>2. cells \in Seq(Cell) /\ Len(cells) = length[Dialog!Saying[child]]
  BY <1>1, TextCells
<1>3. /\ output' = output \o cells /\ Len(output) + Len(cells) <= Capacity
      /\ UNCHANGED <<length, input, step, at, out, bytes, status, purged, errors>>
  BY <1>2 DEF Dialog!ChildPrints, Dialog!parentVars
<1>4. output' \in Seq(Cell) /\ Len(output') = Len(output) + Len(cells)
  BY <1>2, <1>3, ConcatProperties
<1>5. Said' = Said \o cells
  <2>1. (out \o output) \o cells = out \o (output \o cells)
    <3> HIDE DEF cells
    <3>1. out \in Seq(Cell) /\ output \in Seq(Cell) /\ cells \in Seq(Cell)
      BY <1>2
    <3> QED
      BY ONLY <3>1, ConcatAssociative
  <2> QED
    BY <1>3, <2>1 DEF Said
<1>6. Dialog!TypeOK'
  BY <1>1, <1>3, <1>4 DEF Dialog!TypeOK, Dialog!Call
<1>7. step \in 1 .. 10
  BY MainCalls DEF Dialog!TypeOK
<1>8. Due' => Stage(step', child', input', Said')
  <2>1. SUFFICES ASSUME Due PROVE Stage(step, child', input, Said \o cells)
    BY <1>3, <1>5 DEF Due
  <2>2. Stage(step, child, input, Said)
    BY <1>7, <2>1, InStepStage
  <2>3. /\ <<>> \o cells = cells /\ cells = Dialog!Cells(Dialog!Saying[child])
    BY <1>2, ConcatEmptySeq
  <2>4. CASE child = "usage"
    <3>1. cells = Dialog!Cells("Usage") /\ child' = "prompt"
      BY <1>1, <2>4 DEF Dialog!Saying, Dialog!After
    <3> QED
      BY <2>2, <2>3, <2>4, <3>1 DEF Stage
  <2>5. CASE child = "prompt"
    <3>1. cells = Dialog!Cells("Prompt") /\ child' = "command"
      BY <1>1, <2>5 DEF Dialog!Saying, Dialog!After
    <3> QED
      BY <2>2, <2>3, <2>5, <3>1 DEF Stage
  <2>6. CASE child = "in"
    <3>1. cells = Dialog!Cells("AskText") /\ child' = "text"
      BY <1>1, <2>6 DEF Dialog!Saying, Dialog!After
    <3> QED
      BY <2>2, <2>3, <2>6, <3>1 DEF Stage
  <2>7. CASE child = "out"
    <3>1. cells = Dialog!Cells("Answer") /\ child' = "prompt"
      BY <1>1, <2>7 DEF Dialog!Saying, Dialog!After
    <3> QED
      BY <2>2, <2>3, <2>7, <3>1 DEF Stage
  <2>8. CASE child = "quit"
    BY <2>2, <2>8 DEF Stage
  <2> QED
    BY <1>1, <2>4, <2>5, <2>6, <2>7, <2>8
<1>9. Dialog!InStep' /\ PlaceInv'
  BY <1>3, <1>7, <1>8, NextInStep DEF PlaceInv
<1> QED
  BY <1>3, <1>4, <1>6, <1>9

\* The next call of main() starts with an empty string.
LEMMA NextCallTypes ==
  ASSUME Dialog!TypeOK, Dialog!NextCall,
         UNCHANGED length, Len(output') <= Capacity,
         child' \in Dialog!Commands \cup {"usage", "prompt", "command", "text", "exited"},
         status' \in {"Ok", "Timeout", "Failed", "Closed"}, purged' \in BOOLEAN,
         errors' \in 0 .. MaxErrors
  PROVE  /\ Dialog!TypeOK'
         /\ step \in 1 .. 10 /\ step' \in 1 .. 10
         /\ step' = IF step = 10 THEN step ELSE step + 1
         /\ at' = IF step = 10 THEN "done" ELSE "call"
         /\ out' = <<>>
<1>1. /\ step' = IF step = 10 THEN step ELSE step + 1
      /\ at' = IF step = 10 THEN "done" ELSE "call"
      /\ out' = <<>> /\ step \in 1 .. 10
  BY MainCalls DEF Dialog!NextCall, Dialog!TypeOK
<1>2. step' \in DOMAIN Dialog!Main /\ step' \in 1 .. 10
  BY <1>1, MainCalls
<1>3. at' \in {"call", "read", "done"}
  BY <1>1
<1> QED
  BY <1>1, <1>2, <1>3 DEF Dialog!TypeOK

\* What a call of main() ends with is of its type.
LEMMA ReadEndsTypes ==
  ASSUME Dialog!TypeOK, NEW s \in {"Ok", "Timeout", "Failed", "Closed"}, Dialog!ReadEnds(s),
         UNCHANGED length, Len(output') <= Capacity,
         child' \in Dialog!Commands \cup {"usage", "prompt", "command", "text", "exited"},
         purged' \in BOOLEAN, errors' \in 0 .. MaxErrors
  PROVE  /\ Dialog!TypeOK' /\ status' = s
         /\ step \in 1 .. 10 /\ step' \in 1 .. 10
         /\ \/ /\ step \in {1, 3} /\ s # "Ok" /\ at' = "done" /\ UNCHANGED <<step, out>>
            \/ /\ step \in {1, 3} => s = "Ok"
               /\ step' = IF step = 10 THEN step ELSE step + 1
               /\ at' = IF step = 10 THEN "done" ELSE "call"
               /\ out' = <<>>
<1>1. status' = s
  BY DEF Dialog!ReadEnds
<1>2. step \in 1 .. 10
  BY MainCalls DEF Dialog!TypeOK
<1>3. CASE Dialog!Call.op = "expect" /\ s # "Ok"
  <2>1. at' = "done" /\ UNCHANGED <<step, out>>
    BY <1>3 DEF Dialog!ReadEnds
  <2>2. Dialog!TypeOK'
    BY <1>1, <2>1 DEF Dialog!TypeOK
  <2> QED
    BY <1>1, <1>2, <1>3, <2>1, <2>2, CallOps
<1>4. CASE ~(Dialog!Call.op = "expect" /\ s # "Ok")
  <2>1. Dialog!NextCall
    BY <1>4 DEF Dialog!ReadEnds
  <2>2. status' \in {"Ok", "Timeout", "Failed", "Closed"}
    BY <1>1
  <2> QED
    BY <1>1, <1>2, <1>4, <2>1, <2>2, NextCallTypes, CallOps
<1> QED
  BY <1>3, <1>4

\* A read() that goes on has all that it had and the chunk.
LEMMA GoesOnInv ==
  ASSUME DialogInv, Dialog!ReadSome, out' = out \o Dialog!Chunk, step' = step,
         at' \in {"read", "call"}, at' = "read" \/ step \in {1, 3}, status' \in {"Ok", status}
  PROVE  DialogInv'
<1> USE DEF DialogInv
<1>1. /\ at = "read" /\ output' = SubSeq(output, Len(Dialog!Chunk) + 1, Len(output))
      /\ purged' = (purged \/ Dialog!Call.op = "purge")
      /\ UNCHANGED <<length, input, child, errors>>
  BY DEF Dialog!ReadSome
<1>2. /\ Dialog!Chunk \in Seq(Cell) /\ output' \in Seq(Cell) /\ Len(output') <= Len(output)
      /\ Dialog!Chunk \o output' = output
  BY <1>1, ChunkSplits
<1>3. out' \in Seq(Cell) /\ Said' = Said
  <2>1. (out \o Dialog!Chunk) \o output' = out \o (Dialog!Chunk \o output')
    <3>1. out \in Seq(Cell) /\ Dialog!Chunk \in Seq(Cell) /\ output' \in Seq(Cell)
      BY <1>2
    <3> QED
      BY ONLY <3>1, ConcatAssociative
  <2> QED
    BY <1>2, <2>1, ConcatProperties DEF Said
<1>4. step \in 1 .. 10 /\ step \in {1, 3, 5, 7, 9}
  BY <1>1, MainCalls DEF Dialog!TypeOK, PlaceInv
<1>5. purged' <=> purged \/ step = 5
  BY <1>1, <1>4, CallOps
<1>6. Dialog!TypeOK'
  <2>1. Len(output) \in Nat /\ Len(output') \in Nat /\ Capacity \in Nat /\ Len(output) <= Capacity
    BY <1>2, LenProperties, ProgramsAssumption
    DEF ProgramsAssumption, Dialog!BufAssumption, Dialog!TypeOK
  <2>2. Len(output') <= Capacity
    BY <1>2, <2>1
  <2>3. at' = "call" => Dialog!Call.op = "expect"
    BY <1>4, CallOps
  <2>4. Dialog!Call' = Dialog!Call
    BY DEF Dialog!Call
  <2>5. purged' \in BOOLEAN
    BY <1>1
  <2> QED
    BY <1>1, <2>2, <2>3, <2>4, <2>5 DEF Dialog!TypeOK
<1>7. PlaceInv'
  BY <1>4, <1>5 DEF PlaceInv
<1>8. Due' => Due
  BY <1>1, <1>4, <1>5 DEF Due
<1>9. Dialog!InStep'
  BY <1>1, <1>3, <1>4, <1>8, InStepStage, NextInStep
<1> QED
  BY <1>2, <1>3, <1>6, <1>7, <1>9

\* A short read has taken all that there was; an expect() has found its text in it, and the
\* string of read() after the command "out" has the answer.
LEMMA ShortRead ==
  ASSUME DialogInv, Dialog!ReadSome, Len(Dialog!Chunk) # BufSize,
         Dialog!Call.op = "expect" => Dialog!Contains(out \o Dialog!Chunk, Dialog!Call.text)
  PROVE  /\ Said = out \o Dialog!Chunk /\ Said # <<>> /\ output' = <<>>
         /\ Due => /\ step \in {1, 3, 5} => Stage(step + 1, child, input, <<>>)
                   /\ step = 7 => Dialog!Contains(Said, "Answer")
<1> USE DEF DialogInv
<1>1. /\ at = "read" /\ output # <<>>
      /\ output' = SubSeq(output, Len(Dialog!Chunk) + 1, Len(output))
  BY DEF Dialog!ReadSome
<1>2. Dialog!Chunk = output /\ output' = <<>>
  BY <1>1, ChunkSplits
<1>3. Said = out \o Dialog!Chunk /\ Said # <<>>
  BY <1>1, <1>2, ConcatEqualIffEmpty DEF Said
<1>4. step \in 1 .. 10
  BY MainCalls DEF Dialog!TypeOK
<1>5. ASSUME Due PROVE Stage(step, child, input, Said)
  BY <1>4, <1>5, InStepStage
<1>6. {"Usage", "Prompt", "AskText", "Answer"} \subseteq Dialog!Texts
  BY DEF Dialog!Texts
<1>7. ASSUME Due, step = 1 PROVE Stage(2, child, input, <<>>)
  <2>1. Dialog!Contains(Said, "Prompt")
    BY <1>3, <1>4, <1>7, CallOps
  <2>2. Said # Dialog!Cells("Usage")
    BY <1>6, <2>1, ContainsFacts
  <2> QED
    BY <1>3, <1>5, <1>7, <2>2 DEF Stage
<1>8. ASSUME Due, step = 3 PROVE Stage(4, child, input, <<>>)
  BY <1>3, <1>5, <1>8 DEF Stage
<1>9. ASSUME Due, step = 5 PROVE Stage(6, child, input, <<>>)
  BY <1>3, <1>5, <1>9 DEF Stage
<1>10. ASSUME Due, step = 7 PROVE Dialog!Contains(Said, "Answer")
  <2>1. \/ Said = Dialog!Cells("Answer")
        \/ Said = Dialog!Cells("Answer") \o Dialog!Cells("Prompt")
    BY <1>3, <1>5, <1>10 DEF Stage
  <2>2. Dialog!Cells("Prompt") \in Seq(Cell)
    BY <1>6, TextCells
  <2> QED
    BY <1>6, <2>1, <2>2, ContainsFacts
<1> QED
  BY <1>2, <1>3, <1>7, <1>8, <1>9, <1>10

\* read() takes what it reads off the pipe; when it ends, nothing is left unread.
LEMMA ReadSomeInv == ASSUME DialogInv, Dialog!ReadSome PROVE DialogInv'
<1> USE DEF DialogInv
<1>1. /\ at = "read" /\ Dialog!AfterChunk(Dialog!Chunk)
      /\ purged' = (purged \/ Dialog!Call.op = "purge")
      /\ UNCHANGED <<length, input, child, errors>>
  BY DEF Dialog!ReadSome
<1>2. step \in 1 .. 10 /\ step \in {1, 3, 5, 7, 9}
  BY <1>1, MainCalls DEF Dialog!TypeOK, PlaceInv
<1>3. CASE Len(Dialog!Chunk) = BufSize
  <2>1. out' = out \o Dialog!Chunk /\ UNCHANGED <<step, at, status>>
    BY <1>1, <1>3 DEF Dialog!AfterChunk
  <2> QED
    BY <1>1, <2>1, GoesOnInv
<1>4. CASE /\ Len(Dialog!Chunk) # BufSize
           /\ Dialog!Call.op = "expect"
           /\ ~Dialog!Contains(out \o Dialog!Chunk, Dialog!Call.text)
  <2>1. at' = "call" /\ out' = out \o Dialog!Chunk /\ status' = "Ok" /\ UNCHANGED step
    BY <1>1, <1>4 DEF Dialog!AfterChunk
  <2> QED
    BY <1>2, <1>4, <2>1, GoesOnInv, CallOps
<1>5. CASE /\ Len(Dialog!Chunk) # BufSize
           /\ Dialog!Call.op = "expect" =>
                Dialog!Contains(out \o Dialog!Chunk, Dialog!Call.text)
  <2>1. Dialog!ReadEnds("Ok")
    BY <1>1, <1>5 DEF Dialog!AfterChunk
  <2>2. /\ output' = <<>>
        /\ Due => (step \in {1, 3, 5} => Stage(step + 1, child, input, <<>>))
    BY <1>5, ShortRead
  <2>3. Len(output') <= Capacity /\ purged' \in BOOLEAN /\ (purged' <=> purged \/ step = 5)
    <3>1. Capacity \in Nat
      BY ProgramsAssumption DEF ProgramsAssumption, Dialog!BufAssumption
    <3>2. Len(output') = 0
      BY <2>2, EmptySeq
    <3>3. purged' <=> purged \/ step = 5
      BY <1>1, <1>2, CallOps
    <3> QED
      BY <1>1, <3>1, <3>2, <3>3
  <2>4. /\ child' \in Dialog!Commands \cup {"usage", "prompt", "command", "text", "exited"}
        /\ errors' \in 0 .. MaxErrors
    BY <1>1 DEF Dialog!TypeOK
  <2>5. Dialog!TypeOK' /\ step' = step + 1 /\ at' = "call" /\ out' = <<>> /\ step' \in 1 .. 10
    BY <1>1, <1>2, <2>1, <2>3, <2>4, ReadEndsTypes
  <2>6. PlaceInv'
    BY <1>2, <2>3, <2>5 DEF PlaceInv
  <2>7. Said' = <<>> /\ out' \in Seq(Cell) /\ output' \in Seq(Cell)
    BY <2>2, <2>5, EmptySeq, ConcatEmptySeq DEF Said
  <2>8. Due' => Stage(step', child', input', Said')
    BY <1>1, <1>2, <2>2, <2>5, <2>7 DEF Due
  <2>9. Dialog!InStep'
    BY <1>1, <2>5, <2>8, NextInStep
  <2> QED
    BY <2>5, <2>6, <2>7, <2>9
<1> QED
  BY <1>3, <1>4, <1>5

\* Calls that end without having read anything.
LEMMA EndsInv ==
  ASSUME DialogInv, NEW s \in {"Timeout", "Failed", "Closed"}, Dialog!ReadEnds(s),
         step \in {1, 3, 5, 7, 9}, UNCHANGED <<length, output, input, child, purged>>,
         errors' \in 0 .. MaxErrors,
         step = 5 => ~purged' \/ errors' # 0
  PROVE  DialogInv'
<1> USE DEF DialogInv
<1>1. /\ child' \in Dialog!Commands \cup {"usage", "prompt", "command", "text", "exited"}
      /\ purged' \in BOOLEAN /\ Len(output') <= Capacity
  BY DEF Dialog!TypeOK
<1>2. /\ Dialog!TypeOK' /\ step' \in 1 .. 10
      /\ \/ /\ step \in {1, 3} /\ at' = "done" /\ UNCHANGED <<step, out>>
         \/ /\ step \in {5, 7, 9} /\ step' = step + 1
            /\ at' = "call" /\ out' = <<>>
  BY <1>1, ReadEndsTypes
<1>3. out' \in Seq(Cell) /\ output' \in Seq(Cell)
  BY <1>2, EmptySeq
<1>4. PlaceInv'
  BY <1>2 DEF PlaceInv
<1>5. ~Due'
  BY <1>2 DEF Due
<1>6. Dialog!InStep'
  BY <1>2, <1>5, NextInStep
<1> QED
  BY <1>2, <1>3, <1>4, <1>6

\* The child is alive while it is in step with main().
LEMMA AliveInStep == DialogInv /\ Due => child # "exited"
  BY MainCalls, InStepStage DEF DialogInv, Dialog!TypeOK, Stage

\* What comes too late, fails or finds the end of the output.
LEMMA BadEndsInv ==
  ASSUME DialogInv, Dialog!Timeout \/ Dialog!Fails \/ Dialog!ReadNothing
  PROVE  DialogInv'
<1> USE DEF DialogInv
<1>1. UNCHANGED <<length, output, input, child, purged>>
  BY DEF Dialog!Timeout, Dialog!Fails, Dialog!ReadNothing, Dialog!pipeVars
<1>2. step \in 1 .. 10 /\ (at = "read" => step \in {1, 3, 5, 7, 9}) /\ errors \in 0 .. MaxErrors
  BY MainCalls DEF Dialog!TypeOK, PlaceInv
<1>3. CASE Dialog!Timeout
  <2>1. /\ at = "call" /\ Dialog!Reading /\ Dialog!ReadEnds("Timeout") /\ errors' = errors
    BY <1>3 DEF Dialog!Timeout
  <2>2. step \in {1, 3, 5, 7, 9} /\ (step = 5 => ~purged)
    BY <1>2, <2>1, CallOps DEF PlaceInv
  <2> QED
    BY <1>1, <1>2, <2>1, <2>2, EndsInv
<1>4. CASE Dialog!Fails
  <2>1. PICK s \in {"Failed", "Closed"} :
          /\ errors < MaxErrors /\ errors' = errors + 1
          /\ at = "read" \/ Dialog!Reading
          /\ Dialog!ReadEnds(s)
    BY <1>4 DEF Dialog!Fails
  <2>2. step \in {1, 3, 5, 7, 9}
    BY <1>2, <2>1, CallOps
  <2>3. errors' \in 0 .. MaxErrors /\ errors' # 0
    <3>1. MaxErrors \in Nat
      BY ProgramsAssumption DEF ProgramsAssumption, Dialog!BufAssumption
    <3> QED
      BY <1>2, <2>1, <3>1
  <2> QED
    BY <1>1, <2>1, <2>2, <2>3, EndsInv
<1>5. CASE Dialog!ReadNothing
  <2>1. at = "read" /\ child = "exited" /\ Dialog!ReadEnds("Closed") /\ errors' = errors
    BY <1>5 DEF Dialog!ReadNothing
  <2>2. step # 5
    BY <2>1, AliveInStep DEF Due
  <2> QED
    BY <1>1, <1>2, <2>1, <2>2, EndsInv
<1> QED
  BY <1>3, <1>4, <1>5

\* The steps in which nothing is said or read.
LEMMA OtherStepsInv ==
  ASSUME DialogInv,
         \/ Dialog!ChildReads \/ Dialog!ChildKilled \/ Dialog!Select
         \/ Dialog!Write \/ Dialog!WaitPid \/ UNCHANGED dialogVars
  PROVE  DialogInv'
<1> USE DEF DialogInv
<1>1. UNCHANGED <<length, output, status, purged, errors>>
  BY DEF Dialog!ChildReads, Dialog!ChildKilled, Dialog!Select, Dialog!Write, Dialog!WaitPid,
         Dialog!pipeVars, Dialog!parentVars, dialogVars
<1>2. step \in 1 .. 10 /\ (Due => Stage(step, child, input, Said))
  BY MainCalls, InStepStage DEF Dialog!TypeOK
<1>3. CASE Dialog!ChildReads \/ Dialog!ChildKilled
  <2>1. /\ UNCHANGED <<step, at, out>>
        /\ child' \in Dialog!Commands \cup {"usage", "prompt", "command", "text", "exited"}
    BY <1>3 DEF Dialog!ChildReads, Dialog!ChildKilled, Dialog!parentVars, Dialog!Commands
  <2>2. Dialog!TypeOK' /\ PlaceInv'
    BY <1>1, <2>1 DEF Dialog!TypeOK, Dialog!Call, PlaceInv
  <2>3. Due' => Stage(step', child', input', Said')
    <3>1. SUFFICES ASSUME Due PROVE Stage(step, child', input', Said)
      BY <1>1, <2>1 DEF Due, Said
    <3>2. Dialog!ChildReads
      BY <1>3, <3>1 DEF Dialog!ChildKilled, Due
    <3>3. /\ child \in {"command", "text"} /\ input # <<>> /\ input' = Tail(input)
          /\ child' = IF child = "text" THEN "prompt"
                      ELSE IF Head(input) \in {"in", "out", "quit"} THEN Head(input)
                      ELSE "usage"
      BY <3>2 DEF Dialog!ChildReads, Dialog!Commands
    <3>4. \/ step = 3 /\ child = "command" /\ input = <<"in">> /\ Said = <<>>
          \/ step = 5 /\ child = "text" /\ input = <<"test">> /\ Said = <<>>
          \/ step = 7 /\ child = "command" /\ input = <<"out">> /\ Said = <<>>
      BY <1>2, <3>1, <3>3 DEF Stage
    <3>5. input' = <<>>
      <4>1. Tail(<<"in">>) = <<>> /\ Tail(<<"test">>) = <<>> /\ Tail(<<"out">>) = <<>>
        OBVIOUS
      <4> QED
        BY <3>3, <3>4, <4>1
    <3> QED
      BY <3>3, <3>4, <3>5 DEF Stage
  <2>4. Dialog!InStep'
    BY <1>1, <1>2, <2>1, <2>3, NextInStep
  <2> QED
    BY <1>1, <2>1, <2>2, <2>4
<1>4. CASE Dialog!Select
  <2>1. /\ UNCHANGED <<step, out, child, input>> /\ at = "call" /\ at' = "read"
        /\ Dialog!Reading
    BY <1>4 DEF Dialog!Select, Dialog!pipeVars
  <2>2. Dialog!TypeOK' /\ PlaceInv'
    BY <1>1, <1>2, <2>1, CallOps DEF Dialog!TypeOK, PlaceInv
  <2>3. Due' => Stage(step', child', input', Said')
    BY <1>1, <1>2, <2>1 DEF Due, Said
  <2>4. Dialog!InStep'
    BY <1>1, <1>2, <2>1, <2>3, NextInStep
  <2> QED
    BY <1>1, <2>1, <2>2, <2>4
<1>5. CASE Dialog!Write \/ Dialog!WaitPid
  <2>1. /\ Dialog!NextCall /\ at = "call" /\ child' = child
        /\ \/ /\ step \in {2, 4, 6, 8}
              /\ input' = IF child = "exited" THEN input ELSE Append(input, Dialog!Call.line)
           \/ step = 10
    BY <1>2, <1>5, CallOps DEF Dialog!Write, Dialog!WaitPid
  <2>2. /\ child' \in Dialog!Commands \cup {"usage", "prompt", "command", "text", "exited"}
        /\ Len(output') <= Capacity /\ purged' \in BOOLEAN /\ errors' \in 0 .. MaxErrors
        /\ status' \in {"Ok", "Timeout", "Failed", "Closed"}
    BY <1>1, <2>1 DEF Dialog!TypeOK
  <2>3. /\ Dialog!TypeOK' /\ step' \in 1 .. 10 /\ out' = <<>>
        /\ step' = IF step = 10 THEN step ELSE step + 1
        /\ at' = IF step = 10 THEN "done" ELSE "call"
    BY <1>1, <2>1, <2>2, NextCallTypes
  <2>4. PlaceInv'
    BY <1>1, <2>1, <2>3 DEF PlaceInv
  <2>5. Due' => Stage(step', child', input', Said')
    <3>1. SUFFICES ASSUME Due' PROVE Stage(step', child', input', Said')
      OBVIOUS
    <3>2. Due /\ step \in {2, 4, 6} /\ step' = step + 1
      BY <1>1, <2>1, <2>3, <3>1 DEF Due
    <3>3. /\ input = <<>> /\ Said = <<>>
          /\ child = IF step = 4 THEN "text" ELSE "command"
      BY <1>2, <3>2 DEF Stage
    <3>4. out = <<>> /\ Said' = <<>>
      <4>1. output = <<>> /\ out = <<>>
        BY <3>3, ConcatEqualIffEmpty DEF Said
      <4> QED
        BY <1>1, <2>3, <4>1, <3>3 DEF Said
    <3>5. input' = <<Dialog!Call.line>>
      BY <2>1, <3>2, <3>3
    <3>6. \/ step' = 3 /\ input' = <<"in">>
          \/ step' = 5 /\ input' = <<"test">>
          \/ step' = 7 /\ input' = <<"out">>
      BY <1>2, <3>2, <3>5, CallOps
    <3> QED
      BY <2>1, <3>2, <3>3, <3>4, <3>6 DEF Stage
  <2>6. Dialog!InStep'
    BY <1>1, <2>3, <2>5, NextInStep
  <2> QED
    BY <1>1, <2>3, <2>4, <2>6, EmptySeq
<1>6. CASE UNCHANGED dialogVars
  BY <1>6 DEF dialogVars, Dialog!TypeOK, Dialog!InStep, PlaceInv, Dialog!Call,
              Dialog!Stages, Dialog!Cells
<1> QED
  BY <1>3, <1>4, <1>5, <1>6

\* Nothing has been said.
LEMMA DialogInit == ASSUME Init PROVE DialogInv
<1>1. TextLengths \subseteq 1 .. Capacity /\ Capacity \in Nat /\ MaxErrors \in Nat
  BY ProgramsAssumption DEF ProgramsAssumption, Dialog!BufAssumption
<1>2. /\ length \in [Dialog!Texts -> TextLengths]
      /\ output = <<>> /\ input = <<>>
      /\ child = "usage" /\ step = 1 /\ at = "call"
      /\ out = <<>> /\ status = "Ok" /\ purged = FALSE /\ errors = 0
  BY DEF Init, Dialog!Init
<1>3. Dialog!TypeOK
  <2>1. step \in DOMAIN Dialog!Main
    BY <1>2, MainCalls
  <2>2. Len(output) <= Capacity /\ errors \in 0 .. MaxErrors
    BY <1>1, <1>2, EmptySeq
  <2> QED
    BY <1>2, <2>1, <2>2 DEF Dialog!TypeOK
<1>4. output \in Seq(Cell) /\ out \in Seq(Cell) /\ Said = <<>>
  BY <1>2, EmptySeq, ConcatEmptySeq DEF Said
<1>5. Dialog!InStep
  BY <1>2, <1>4, InStepStage DEF Stage
<1> QED
  BY <1>2, <1>3, <1>4, <1>5 DEF DialogInv, PlaceInv

\* The read() after the command "out" gives the answer back.
LEMMA AnswerStep ==
  ASSUME DialogInv, Dialog!Next \/ UNCHANGED dialogVars,
         step = 7, step' = 8, status' = "Ok", purged, errors = 0
  PROVE  Dialog!Contains(out \o Dialog!Chunk, "Answer")
<1> USE DEF DialogInv
<1>1. /\ ~Dialog!Child /\ ~Dialog!Select /\ ~UNCHANGED dialogVars
  BY DEF Dialog!Child, Dialog!ChildPrints, Dialog!ChildReads, Dialog!ChildKilled,
         Dialog!parentVars, Dialog!Select, dialogVars
<1>2. ~Dialog!Timeout /\ ~Dialog!Fails /\ ~Dialog!ReadNothing
  BY DEF Dialog!Timeout, Dialog!Fails, Dialog!ReadNothing, Dialog!ReadEnds
<1>3. ~Dialog!Write /\ ~Dialog!WaitPid
  <2>1. Dialog!Call.op # "write" /\ Dialog!Call.op # "wait_pid"
    BY CallOps
  <2> QED
    BY <2>1 DEF Dialog!Write, Dialog!WaitPid
<1>4. Dialog!ReadSome
  BY <1>1, <1>2, <1>3 DEF Dialog!Next, Dialog!Parent
<1>5. at = "read" /\ Dialog!AfterChunk(Dialog!Chunk) /\ Dialog!Call.op # "expect"
  BY <1>4, CallOps DEF Dialog!ReadSome
<1>6. Len(Dialog!Chunk) # BufSize
  BY <1>5 DEF Dialog!AfterChunk
<1>7. Due
  BY <1>5 DEF Due
<1> QED
  BY <1>4, <1>5, <1>6, <1>7, ShortRead

-----------------------------------------------------------------------------
(* The serial dump *)

\* The settings agree with the options so far, from the first one on
SettingsInv ==
  /\ args \in Seq(Serial!Options) /\ Serial!TypeOK
  /\ Serial!LastNumber("baud", rate) \/ (Serial!Never("baud") /\ rate = DefaultRate)
  /\ 6 \in c_cflag <=> Serial!LastNumber("stop", 2)
  /\ print_time \in BOOLEAN /\ (print_time <=> \E i \in DOMAIN args : args[i].is = "time")
  /\ {4, 5} \subseteq c_cflag /\ {8, 9} \cap c_cflag = {}
  /\ 8 \in c_iflag <=> Serial!SinceNone({"odd", "even"})
  /\ 9 \in c_iflag <=> Serial!SinceNone({"odd"})

\* What one more option does to what is said of all of them.
LEMMA OneMoreOption ==
  ASSUME args \in Seq(Serial!Options), NEW o \in Serial!Options, args' = Append(args, o),
         NEW option, NEW n, NEW options
  PROVE  /\ args' \in Seq(Serial!Options)
         /\ Serial!LastNumber(option, n)' <=>
              IF o.is = option THEN o.num = n ELSE Serial!LastNumber(option, n)
         /\ Serial!Never(option)' <=> Serial!Never(option) /\ o.is # option
         /\ (\E i \in DOMAIN args' : args'[i].is = option) <=>
              (\E i \in DOMAIN args : args[i].is = option) \/ o.is = option
         /\ "none" \notin options =>
              (Serial!SinceNone(options)' <=>
                 o.is \in options \/ (Serial!SinceNone(options) /\ o.is # "none"))
<1>0. PICK k \in Nat : k = Len(args)
  BY LenProperties
<1>1. k \in Nat /\ k = Len(args) /\ DOMAIN args = 1 .. k
  BY <1>0, LenProperties
<1>2. /\ args' \in Seq(Serial!Options) /\ Len(args') = k + 1 /\ DOMAIN args' = 1 .. k + 1
      /\ \A i \in 1 .. k : args'[i] = args[i]
      /\ args'[k + 1] = o
  BY <1>1, AppendProperties, LenProperties
<1>3. \A i \in 1 .. k + 1 : i \in 1 .. k \/ i = k + 1
  BY <1>1
<1>4. ASSUME NEW i \in 1 .. k
      PROVE  Serial!IsLast(i, option)' <=> Serial!IsLast(i, option) /\ o.is # option
  <2>1. \A j : j \in i + 1 .. k + 1 <=> j \in i + 1 .. k \/ j = k + 1
    BY <1>1
  <2>2. i + 1 .. k \subseteq 1 .. k
    BY <1>1
  <2> QED
    BY <1>1, <1>2, <2>1, <2>2 DEF Serial!IsLast
<1>5. Serial!IsLast(k + 1, option)' <=> o.is = option
  <2>1. (k + 1) + 1 .. k + 1 = {}
    BY <1>1
  <2> QED
    BY <1>2, <2>1 DEF Serial!IsLast
<1>6. Serial!LastNumber(option, n)' <=>
        IF o.is = option THEN o.num = n ELSE Serial!LastNumber(option, n)
  BY <1>1, <1>2, <1>3, <1>4, <1>5 DEF Serial!LastNumber
<1>7. Serial!Never(option)' <=> Serial!Never(option) /\ o.is # option
  BY <1>1, <1>2, <1>3 DEF Serial!Never
<1>8. (\E i \in DOMAIN args' : args'[i].is = option) <=>
        (\E i \in DOMAIN args : args[i].is = option) \/ o.is = option
  BY <1>1, <1>2, <1>3
<1>9. ASSUME "none" \notin options
      PROVE  Serial!SinceNone(options)' <=>
               o.is \in options \/ (Serial!SinceNone(options) /\ o.is # "none")
  <2>1. ASSUME NEW i \in 1 .. k
        PROVE  (\A j \in i + 1 .. Len(args') : args'[j].is # "none") <=>
                 (\A j \in i + 1 .. k : args[j].is # "none") /\ o.is # "none"
    <3>1. \A j : j \in i + 1 .. k + 1 <=> j \in i + 1 .. k \/ j = k + 1
      BY <1>1
    <3>2. i + 1 .. k \subseteq 1 .. k
      BY <1>1
    <3> QED
      BY <1>1, <1>2, <3>1, <3>2
  <2>2. (k + 1) + 1 .. Len(args') = {}
    BY <1>1, <1>2
  <2>3. Serial!SinceNone(options) <=>
          \E i \in 1 .. k : args[i].is \in options /\ \A j \in i + 1 .. k : args[j].is # "none"
    BY <1>1 DEF Serial!SinceNone
  <2>4. Serial!SinceNone(options)' <=>
          \E i \in 1 .. k + 1 : args'[i].is \in options
                                 /\ \A j \in i + 1 .. Len(args') : args'[j].is # "none"
    BY <1>2 DEF Serial!SinceNone
  <2> QED
    BY <1>1, <1>2, <1>3, <1>9, <2>1, <2>2, <2>3, <2>4
<1> QED
  BY <1>2, <1>6, <1>7, <1>8, <1>9

\* No option has been read.
LEMMA SerialInit == Serial!Init => SettingsInv
<1> SUFFICES ASSUME Serial!Init PROVE SettingsInv
  OBVIOUS
<1>1. args = <<>> /\ <<>> \in Seq(Serial!Options) /\ DOMAIN <<>> = {}
  BY EmptySeq DEF Serial!Init
<1>2. c_cflag = {7, 11, 4, 5} /\ c_iflag = {} /\ rate = DefaultRate /\ print_time = FALSE
  BY DEF Serial!Init, Serial!CREAD, Serial!CLOCAL, Serial!CS
<1>3. /\ Serial!Never("baud") /\ ~Serial!LastNumber("stop", 2)
      /\ ~\E i \in DOMAIN args : args[i].is = "time"
      /\ ~Serial!SinceNone({"odd", "even"}) /\ ~Serial!SinceNone({"odd"})
  BY <1>1 DEF Serial!LastNumber, Serial!Never, Serial!SinceNone
<1>4. /\ {4, 5} \subseteq c_cflag /\ {8, 9} \cap c_cflag = {} /\ 6 \notin c_cflag
      /\ 8 \notin c_iflag /\ 9 \notin c_iflag
  BY <1>2
<1>5. Serial!TypeOK
  <2>1. Len(args) <= MaxOptions
    BY <1>1, EmptySeq, ProgramsAssumption DEF ProgramsAssumption, Serial!SerialAssumption
  <2>2. stage = "parse"
    BY DEF Serial!Init
  <2>3. c_cflag \subseteq 0 .. 15 /\ c_iflag \subseteq 0 .. 15
    BY <1>2
  <2> QED
    BY <1>2, <2>1, <2>2, <2>3 DEF Serial!TypeOK
<1> QED
  BY <1>1, <1>2, <1>3, <1>4, <1>5 DEF SettingsInv

\* What an option does to the bits.
LEMMA OptionBits ==
  ASSUME NEW o \in Serial!Options
  PROVE  /\ c_cflag \subseteq Serial!ControlFlags(o) \cup {6}
         /\ {8, 9} \cap Serial!ControlFlags(o) \subseteq c_cflag
         /\ 6 \in Serial!ControlFlags(o) <=>
              IF o.is = "stop" THEN o.num = 2 ELSE 6 \in c_cflag
         /\ 8 \in Serial!InputFlags(o) <=>
              o.is \in {"odd", "even"} \/ (8 \in c_iflag /\ o.is # "none")
         /\ 9 \in Serial!InputFlags(o) <=> o.is \in {"odd"} \/ (9 \in c_iflag /\ o.is # "none")
<1> USE DEF Serial!INPCK, Serial!CSTOPB, Serial!PARENB, Serial!PARODD, Serial!ICRNL, Serial!IUCLC
<1>1. CASE o.is \in {"five", "six", "seven", "eight"}
  <2>1. DOMAIN Serial!CS = {"five", "six", "seven", "eight"}
    BY DEF Serial!CS
  <2>2. Serial!CS[o.is] \subseteq {4, 5}
    BY <1>1 DEF Serial!CS
  <2> QED
    BY <1>1, <2>1, <2>2 DEF Serial!ControlFlags, Serial!InputFlags
<1>2. CASE o.is \notin {"five", "six", "seven", "eight"}
  <2>1. DOMAIN Serial!CS = {"five", "six", "seven", "eight"}
    BY DEF Serial!CS
  <2> QED
    BY <1>2, <2>1 DEF Serial!ControlFlags, Serial!InputFlags
<1> QED
  BY <1>1, <1>2

\* One more option.
LEMMA SerialParse ==
  ASSUME SettingsInv, NEW o \in Serial!Options, Serial!Parse(o)
  PROVE  SettingsInv'
<1>1. /\ args \in Seq(Serial!Options) /\ args' = Append(args, o)
      /\ rate' = IF o.is = "baud" THEN o.num ELSE rate
      /\ c_cflag' = Serial!ControlFlags(o) /\ c_iflag' = Serial!InputFlags(o)
      /\ print_time' = (print_time \/ o.is = "time")
  BY DEF SettingsInv, Serial!Parse
<1>2. args' \in Seq(Serial!Options)
  BY <1>1, OneMoreOption
<1>3. (Serial!LastNumber("baud", rate) \/ (Serial!Never("baud") /\ rate = DefaultRate))'
  <2>1. CASE o.is = "baud"
    <3>1. rate' = o.num
      BY <1>1, <2>1
    <3>2. \A n : Serial!LastNumber("baud", n)' <=> o.num = n
      BY <1>1, <2>1, OneMoreOption
    <3>3. \E i \in DOMAIN args' : Serial!IsLast(i, "baud")' /\ args'[i].num = o.num
      BY <3>2 DEF Serial!LastNumber
    <3> QED
      BY <3>1, <3>3 DEF Serial!LastNumber, Serial!IsLast
  <2>2. CASE o.is # "baud"
    <3>1. rate' = rate
      BY <1>1, <2>2
    <3>2. CASE Serial!LastNumber("baud", rate)
      <4>1. PICK n : n = rate
        OBVIOUS
      <4>2. Serial!LastNumber("baud", n)' <=> Serial!LastNumber("baud", n)
        BY <1>1, <2>2, OneMoreOption
      <4>3. Serial!LastNumber("baud", n)
        BY <3>2, <4>1
      <4> QED
        BY <3>1, <4>1, <4>2, <4>3 DEF Serial!LastNumber, Serial!IsLast
    <3>3. Serial!Never("baud") => Serial!Never("baud")'
      BY <1>1, <2>2, OneMoreOption
    <3> QED
      BY <3>1, <3>2, <3>3 DEF SettingsInv
  <2> QED
    BY <2>1, <2>2
<1>4. (6 \in c_cflag <=> Serial!LastNumber("stop", 2))'
  <2>1. Serial!LastNumber("stop", 2)' <=>
          IF o.is = "stop" THEN o.num = 2 ELSE Serial!LastNumber("stop", 2)
    BY <1>1, OneMoreOption
  <2> QED
    BY <1>1, <2>1, OptionBits DEF SettingsInv
<1>5. (print_time \in BOOLEAN /\ (print_time <=> \E i \in DOMAIN args : args[i].is = "time"))'
  BY <1>1, OneMoreOption DEF SettingsInv
<1>6. ({4, 5} \subseteq c_cflag /\ {8, 9} \cap c_cflag = {})'
  BY <1>1, OptionBits DEF SettingsInv
<1>7. (8 \in c_iflag <=> Serial!SinceNone({"odd", "even"}))'
  <2>1. Serial!SinceNone({"odd", "even"})' <=>
          o.is \in {"odd", "even"} \/ (Serial!SinceNone({"odd", "even"}) /\ o.is # "none")
    BY <1>1, OneMoreOption
  <2> QED
    BY <1>1, <2>1, OptionBits DEF SettingsInv
<1>8. (9 \in c_iflag <=> Serial!SinceNone({"odd"}))'
  <2>1. Serial!SinceNone({"odd"})' <=>
          o.is \in {"odd"} \/ (Serial!SinceNone({"odd"}) /\ o.is # "none")
    BY <1>1, OneMoreOption
  <2> QED
    BY <1>1, <2>1, OptionBits DEF SettingsInv
<1>9. Serial!TypeOK'
  <2>1. Serial!TypeOK /\ Len(args) < MaxOptions /\ stage' \in {"parse", "ended"}
    BY DEF SettingsInv, Serial!Parse
  <2>2. Len(args') <= MaxOptions
    <3>1. Len(args) \in Nat /\ Len(args') = Len(args) + 1
      BY <1>1, AppendProperties, LenProperties
    <3> QED
      BY <2>1, <3>1, ProgramsAssumption DEF ProgramsAssumption, Serial!SerialAssumption
  <2>3. o.is = "baud" => o.num \in Rates
    BY DEF Serial!Options, Serial!Plain, Serial!CS, Serial!Numbered, Serial!Wrong
  <2>4. Serial!ControlFlags(o) \subseteq 0 .. 15 /\ Serial!InputFlags(o) \subseteq 0 .. 15
    <3> USE DEF Serial!INPCK, Serial!CSTOPB, Serial!PARENB, Serial!PARODD
    <3>1. \A i \in DOMAIN Serial!CS : Serial!CS[i] \subseteq 0 .. 15
      BY DEF Serial!CS
    <3> QED
      BY <2>1, <3>1 DEF Serial!TypeOK, Serial!ControlFlags, Serial!InputFlags
  <2> QED
    BY <1>1, <1>5, <2>1, <2>2, <2>3, <2>4 DEF Serial!TypeOK
<1> QED
  BY <1>2, <1>3, <1>4, <1>5, <1>6, <1>7, <1>8, <1>9 DEF SettingsInv

\* The loop leaves the settings alone.
LEMMA SerialStep == ASSUME SettingsInv, Serial!Next \/ UNCHANGED serialVars PROVE SettingsInv'
<1>1. ASSUME UNCHANGED Serial!settings,
             stage' \in {"parse", "open", "test", "select", "read", "ended"}
      PROVE  SettingsInv'
  BY <1>1 DEF Serial!settings, SettingsInv, Serial!LastNumber, Serial!IsLast, Serial!Never,
              Serial!SinceNone, Serial!TypeOK
<1>2. stage \in {"parse", "open", "test", "select", "read", "ended"}
  BY DEF SettingsInv, Serial!TypeOK
<1>3. CASE UNCHANGED serialVars
  BY <1>1, <1>2, <1>3 DEF serialVars, Serial!settings
<1>4. CASE Serial!Program
  BY <1>1, <1>4
  DEF Serial!Program, Serial!ParseEnds, Serial!Open, Serial!Test, Serial!Select, Serial!Read
<1>5. CASE Serial!Interrupt \/ Serial!Receive \/ Serial!Unplug
  BY <1>1, <1>2, <1>5 DEF Serial!Interrupt, Serial!Receive, Serial!Unplug
<1> QED
  BY <1>3, <1>4, <1>5, SerialParse DEF Serial!Next

\* What the port is opened with.
LEMMA SerialRightly == SettingsInv => SettingsRight
  BY DEF SettingsInv, SettingsRight, Serial!SettingsRight, Serial!CSTOPB, Serial!CS,
         Serial!PARENB, Serial!PARODD, Serial!ICRNL, Serial!IUCLC

-----------------------------------------------------------------------------
(* The local socket *)

Callers == DOMAIN RequestLengths
Echo(c) == Local!Reply(Local!Start(Local!Request(c), Buffer))

Queued(s, c) == \E i \in DOMAIN backlog[s] : backlog[s][i] = c
Held(s, c) == server[s] \in {"receive", "send"} /\ serving[s] = c

SocketTypes ==
  /\ Local!TypeOK
  /\ backlog \in [Servers -> Seq(Callers)] /\ link \in [Callers -> Servers \cup {"nobody"}]
  /\ DOMAIN msg = Servers
  /\ DOMAIN up = Callers /\ DOMAIN down = Callers /\ DOMAIN got = Callers

\* What a client has sent, been sent and taken agrees with where it is; the other end is
\* closed only after the answer or the end of the server
CallerInv(c) ==
  /\ client[c] = "off" => link[c] = "nobody"
  /\ client[c] \in {"off", "connected"} => up[c] = <<>>
  /\ client[c] # "ended" => got[c] = <<>> /\ result[c] = "none"
  /\ client[c] \in {"connected", "wait"} =>
       link[c] \in Servers /\ (c \in linked \/ down[c] # <<>> \/ server[link[c]] = "ended")
  /\ down[c] \in {<<>>, Echo(c)}
  /\ result[c] = "ok" =>
       \/ got[c] = Local!Start(Echo(c), Buffer)
       \/ got[c] = <<>> /\ link[c] \in Servers /\ server[link[c]] = "ended"

\* A connection is in one place, and nothing of a request has been read before its turn
ConnectionInv(s) ==
  /\ \A i, j \in DOMAIN backlog[s] : backlog[s][i] = backlog[s][j] => i = j
  /\ \A c \in Callers : Queued(s, c) =>
       link[c] = s /\ up[c] \in {<<>>, Local!Request(c)} /\ ~Held(s, c)
  /\ server[s] \in {"receive", "send"} => serving[s] \in Callers /\ link[serving[s]] = s
  /\ server[s] = "receive" => up[serving[s]] \in {<<>>, Local!Request(serving[s])}
  /\ server[s] = "send" =>
       \/ client[serving[s]] = "ended"
       \/ /\ client[serving[s]] = "wait"
          /\ msg[s] = Local!Start(Local!Request(serving[s]), Buffer)

\* The file of a server stays until another one is started
SocketFile(s) ==
  server[s] \in {"bound", "accept", "receive", "send"} =>
    sock_path = s \/ \E t \in Servers \ {s} : server[t] # "off"

LocalInv ==
  /\ SocketTypes
  /\ \A c \in Callers : CallerInv(c)
  /\ \A s \in Servers : ConnectionInv(s) /\ SocketFile(s)

\* No client is called "nobody", and an answer is never empty.
LEMMA LocalFacts ==
  /\ "nobody" \notin Servers \cup Callers
  /\ \A c \in Callers : Echo(c) # <<>>
<1>1. "nobody" \notin Servers \cup Callers /\ Buffer \in Nat \ {0}
      /\ RequestLengths \in [Callers -> Nat \ {0}]
  BY ProgramsAssumption DEF ProgramsAssumption, Local!LocalAssumption, Callers
<1>2. ASSUME NEW c \in Callers PROVE Echo(c) # <<>>
  <2>1. Local!Request(c) \in Seq({c} \X Nat)
    <3>1. RequestLengths[c] \in Nat
      BY <1>1
    <3>2. \A i \in 1 .. RequestLengths[c] : <<c, i>> \in {c} \X Nat
      BY <3>1
    <3> QED
      BY <3>1, <3>2 DEF Local!Request
  <2>2. PICK r \in Seq({c} \X Nat) : r = Local!Request(c)
    BY <2>1
  <2>3. PICK n \in Nat : n = IF Len(r) < Buffer THEN Len(r) ELSE Buffer
    BY <1>1, LenProperties
  <2>4. n <= Len(r)
    BY <2>3, <1>1, LenProperties
  <2>5. SubSeq(r, 1, n) \in Seq({c} \X Nat) /\ Len(SubSeq(r, 1, n)) = n
    BY <2>4, SubSeqProperties, LenProperties
  <2>6. Local!Start(Local!Request(c), Buffer) = SubSeq(r, 1, n)
    BY <2>2, <2>3 DEF Local!Start
  <2>7. PICK a \in Seq(({c} \X Nat) \cup {"+"}) : a = SubSeq(r, 1, n) /\ Len(a) = n
    <3>1. \A S, T, q : q \in Seq(S) => q \in Seq(S \cup T)
      OBVIOUS
    <3> QED
      BY <2>5, <3>1
  <2>8. <<"+", "+">> \in Seq(({c} \X Nat) \cup {"+"}) /\ Len(<<"+", "+">>) = 2
    OBVIOUS
  <2>9. Len(a \o <<"+", "+">>) = n + 2
    BY <2>7, <2>8, ConcatProperties
  <2>10. n + 2 # 0 /\ Len(<<>>) = 0
    BY EmptySeq
  <2> QED
    BY <2>6, <2>7, <2>9, <2>10 DEF Echo, Local!Reply
<1> QED
  BY <1>1, <1>2

\* Nothing is connected.
LEMMA LocalInit == Local!Init => LocalInv
<1> SUFFICES ASSUME Local!Init PROVE LocalInv
  OBVIOUS
<1> USE DEF Callers
<1>1. SocketTypes
  BY DEF Local!Init, SocketTypes, Local!TypeOK
<1>2. ASSUME NEW c \in Callers PROVE CallerInv(c)
  BY DEF Local!Init, CallerInv
<1>3. ASSUME NEW s \in Servers PROVE ConnectionInv(s) /\ SocketFile(s)
  BY DEF Local!Init, ConnectionInv, SocketFile, Queued
<1> QED
  BY <1>1, <1>2, <1>3 DEF LocalInv

\* The first steps of a server, and whatever changes only where it is.
LEMMA StartingInv ==
  ASSUME LocalInv, NEW s \in Servers,
         Local!Create(s) \/ Local!Bind(s) \/ Local!Listen(s)
  PROVE  LocalInv'
<1>1. /\ \A t \in Servers \ {s} : server'[t] = server[t]
      /\ server[s] \notin {"receive", "send", "ended"}
      /\ server'[s] \notin {"receive", "send", "off"}
      /\ server' \in [Servers -> {"off", "created", "bound", "accept", "receive", "send", "ended"}]
      /\ sock_path' \in Servers \cup {"nobody"}
      /\ UNCHANGED <<serving, msg, backlog, Local!endVars, Local!linkVars>>
  BY DEF LocalInv, SocketTypes, Local!TypeOK, Local!Create, Local!Bind, Local!Listen
<1> USE DEF Local!endVars, Local!linkVars
<1>2. SocketTypes'
  BY <1>1 DEF LocalInv, SocketTypes, Local!TypeOK, Callers
<1>3. ASSUME NEW c \in Callers PROVE CallerInv(c)'
  <2>1. CallerInv(c)
    BY DEF LocalInv
  <2> QED
    BY <1>1, <2>1 DEF CallerInv, Echo, Callers
<1>4. ASSUME NEW t \in Servers PROVE ConnectionInv(t)'
  <2>1. ConnectionInv(t)
    BY DEF LocalInv
  <2> QED
    BY <1>1, <2>1 DEF ConnectionInv, Queued, Held
<1>5. ASSUME NEW t \in Servers PROVE SocketFile(t)'
  <2>1. SocketFile(t)
    BY DEF LocalInv
  <2>2. CASE Local!Create(s)
    BY <1>1, <2>1, <2>2 DEF SocketFile, Local!Create, LocalInv, SocketTypes, Local!TypeOK
  <2>3. CASE Local!Bind(s)
    BY <1>1, <2>1, <2>3 DEF SocketFile, Local!Bind, LocalInv, SocketTypes, Local!TypeOK
  <2>4. CASE Local!Listen(s)
    BY <1>1, <2>1, <2>4 DEF SocketFile, Local!Listen, LocalInv, SocketTypes, Local!TypeOK
  <2> QED
    BY <2>2, <2>3, <2>4
<1> QED
  BY <1>2, <1>3, <1>4, <1>5 DEF LocalInv

\* The first connection of the backlog is the next one.
LEMMA AcceptInv == ASSUME LocalInv, NEW s \in Servers, Local!Accept(s) PROVE LocalInv'
<1>1. /\ server[s] = "accept" /\ backlog[s] # <<>>
      /\ serving' = [serving EXCEPT ![s] = Head(backlog[s])]
      /\ backlog' = [backlog EXCEPT ![s] = Tail(@)]
      /\ server' = [server EXCEPT ![s] = "receive"]
      /\ UNCHANGED <<sock_path, msg, client, result, got, link, linked, up, down, reset>>
  BY DEF Local!Accept, Local!endVars, Local!linkVars
<1>2. SocketTypes
  BY DEF LocalInv
<1>3. PICK q \in Seq(Callers) : q = backlog[s]
  BY <1>2 DEF SocketTypes
<1>4. /\ q # <<>> /\ Len(q) \in Nat \ {0} /\ DOMAIN q = 1 .. Len(q)
      /\ Tail(q) \in Seq(Callers) /\ DOMAIN Tail(q) = 1 .. Len(q) - 1
      /\ \A i \in 1 .. Len(q) - 1 : Tail(q)[i] = q[i + 1]
      /\ Head(q) = q[1] /\ Head(q) \in Callers
  <2>1. q # <<>>
    BY <1>1, <1>3
  <2> QED
    BY <2>1, HeadTailProperties, LenProperties, EmptySeq
<1>5. \A i \in 1 .. Len(q) - 1 : i \in DOMAIN q /\ i + 1 \in DOMAIN q /\ i + 1 # 1
  BY <1>4
<1>6. 1 \in DOMAIN q /\ Queued(s, Head(q))
  BY <1>3, <1>4 DEF Queued
<1>7. /\ backlog'[s] = Tail(q) /\ serving'[s] = Head(q) /\ server'[s] = "receive"
      /\ \A t \in Servers \ {s} : /\ backlog'[t] = backlog[t] /\ serving'[t] = serving[t]
                                  /\ server'[t] = server[t]
  BY <1>1, <1>2, <1>3 DEF SocketTypes, Local!TypeOK
<1>8. SocketTypes'
  BY <1>1, <1>2, <1>3, <1>4 DEF SocketTypes, Local!TypeOK, Callers
<1>9. ASSUME NEW c \in Callers PROVE CallerInv(c)'
  <2>1. CallerInv(c)
    BY DEF LocalInv
  <2> QED
    BY <1>1, <1>7, <2>1 DEF CallerInv, Echo
<1>10. ASSUME NEW t \in Servers \ {s} PROVE ConnectionInv(t)'
  <2>1. ConnectionInv(t)
    BY DEF LocalInv
  <2> QED
    BY <1>1, <1>7, <2>1 DEF ConnectionInv, Queued, Held
<1>11. ConnectionInv(s)'
  <2>1. ConnectionInv(s)
    BY DEF LocalInv
  <2>2. \A i, j \in DOMAIN q : q[i] = q[j] => i = j
    BY <1>3, <2>1 DEF ConnectionInv
  <2>3. \A i, j \in DOMAIN backlog'[s] : backlog'[s][i] = backlog'[s][j] => i = j
    BY <1>4, <1>5, <1>7, <2>2
  <2>4. ASSUME NEW c \in Callers, Queued(s, c)' PROVE Queued(s, c) /\ c # Head(q)
    <3>1. PICK i \in 1 .. Len(q) - 1 : q[i + 1] = c
      BY <1>4, <1>7, <2>4 DEF Queued
    <3> QED
      BY <1>3, <1>4, <1>5, <1>6, <2>2, <3>1 DEF Queued
  <2>5. \A c \in Callers : Queued(s, c) =>
          link[c] = s /\ up[c] \in {<<>>, Local!Request(c)}
    BY <2>1 DEF ConnectionInv
  <2> QED
    BY <1>1, <1>4, <1>6, <1>7, <2>3, <2>4, <2>5 DEF ConnectionInv, Held
<1>12. ASSUME NEW t \in Servers PROVE SocketFile(t)'
  <2>1. SocketFile(t)
    BY DEF LocalInv
  <2> QED
    BY <1>1, <1>7, <2>1 DEF SocketFile
<1> QED
  BY <1>8, <1>9, <1>10, <1>11, <1>12 DEF LocalInv

\* The request is read, as far as the buffer holds it.
LEMMA ServerReceivesInv == ASSUME LocalInv, NEW s \in Servers, Local!Receive(s) PROVE LocalInv'
<1>1. PICK c : c = serving[s]
  OBVIOUS
<1>2. SocketTypes
  BY DEF LocalInv
<1>3. /\ server[s] = "receive" /\ (up[c] # <<>> \/ client[c] = "ended")
      /\ msg' = [msg EXCEPT ![s] = Local!Start(up[c], Buffer)]
      /\ DOMAIN up' = DOMAIN up /\ (\A d \in DOMAIN up : d # c => up'[d] = up[d])
      /\ server' = [server EXCEPT ![s] = "send"]
      /\ UNCHANGED <<sock_path, serving, backlog, client, result, got, link, linked, down, reset>>
  BY <1>1 DEF Local!Receive, Local!endVars
<1>4. ConnectionInv(s)
  BY DEF LocalInv
<1>5. c \in Callers /\ link[c] = s /\ up[c] \in {<<>>, Local!Request(c)}
  BY <1>1, <1>3, <1>4 DEF ConnectionInv
<1>6. CallerInv(c)
  BY <1>5 DEF LocalInv
<1>7. client[c] \in {"wait", "ended"}
  BY <1>2, <1>3, <1>5, <1>6 DEF CallerInv, SocketTypes, Local!TypeOK, Callers
<1>8. /\ msg'[s] = Local!Start(up[c], Buffer) /\ server'[s] = "send"
      /\ \A t \in Servers \ {s} : msg'[t] = msg[t] /\ server'[t] = server[t]
  BY <1>2, <1>3 DEF SocketTypes, Local!TypeOK
<1>9. SocketTypes'
  BY <1>2, <1>3 DEF SocketTypes, Local!TypeOK, Callers
<1>10. ASSUME NEW d \in Callers PROVE CallerInv(d)'
  <2>1. CallerInv(d)
    BY DEF LocalInv
  <2>2. d # c => up'[d] = up[d]
    BY <1>2, <1>3 DEF SocketTypes
  <2> QED
    BY <1>3, <1>7, <1>8, <2>1, <2>2 DEF CallerInv, Echo
<1>11. ~Queued(s, c)
  BY <1>1, <1>3, <1>4, <1>5 DEF ConnectionInv, Held
<1>12. ASSUME NEW t \in Servers PROVE ConnectionInv(t)'
  <2>1. ConnectionInv(t)
    BY DEF LocalInv
  <2>2. \A d \in Callers : d # c => up'[d] = up[d]
    BY <1>2, <1>3 DEF SocketTypes
  <2>3. CASE t = s
    <3>1. \/ client'[serving'[s]] = "ended"
          \/ /\ client'[serving'[s]] = "wait"
             /\ msg'[s] = Local!Start(Local!Request(serving'[s]), Buffer)
      <4>1. serving'[s] = c /\ client'[c] = client[c]
        BY <1>1, <1>3
      <4>2. CASE client[c] = "wait"
        <5>1. up[c] = Local!Request(c)
          BY <1>3, <1>5, <4>2
        <5> QED
          BY <1>8, <4>1, <4>2, <5>1
      <4> QED
        BY <1>7, <4>1, <4>2
    <3> QED
      BY <1>3, <1>5, <1>8, <1>11, <2>1, <2>2, <2>3, <3>1 DEF ConnectionInv, Queued, Held
  <2>4. CASE t # s
    <3>1. ~Queued(t, c)
      BY <1>5, <2>1, <2>4 DEF ConnectionInv
    <3>2. server[t] = "receive" => serving[t] # c /\ serving[t] \in Callers
      BY <1>5, <2>1, <2>4 DEF ConnectionInv
    <3> QED
      BY <1>3, <1>8, <2>1, <2>2, <2>4, <3>1, <3>2 DEF ConnectionInv, Queued, Held
  <2> QED
    BY <2>3, <2>4
<1>13. ASSUME NEW t \in Servers PROVE SocketFile(t)'
  <2>1. SocketFile(t)
    BY DEF LocalInv
  <2> QED
    BY <1>3, <1>8, <2>1 DEF SocketFile
<1> QED
  BY <1>9, <1>10, <1>12, <1>13 DEF LocalInv

\* The answer, and the end of the connection.
LEMMA AnswerInv == ASSUME LocalInv, NEW s \in Servers, Local!Answer(s) PROVE LocalInv'
<1>1. PICK c : c = serving[s]
  OBVIOUS
<1>2. SocketTypes
  BY DEF LocalInv
<1>3. /\ server[s] = "send" /\ client[c] # "ended"
      /\ down' = [down EXCEPT ![c] = Local!Reply(msg[s])]
      /\ linked' = linked \ {c} /\ reset' \subseteq reset \cup {c}
      /\ serving' = [serving EXCEPT ![s] = "nobody"]
      /\ server' = [server EXCEPT ![s] = "accept"]
      /\ UNCHANGED <<sock_path, msg, backlog, client, result, got, link, up>>
  BY <1>1 DEF Local!Answer, Local!Closed, Local!endVars
<1>4. ConnectionInv(s)
  BY DEF LocalInv
<1>5. c \in Callers /\ down'[c] = Echo(c)
  BY <1>1, <1>2, <1>3, <1>4 DEF ConnectionInv, Echo, SocketTypes
<1>6. down'[c] # <<>>
  BY <1>5, LocalFacts
<1>7. /\ server'[s] = "accept"
      /\ \A t \in Servers \ {s} : serving'[t] = serving[t] /\ server'[t] = server[t]
  BY <1>2, <1>3 DEF SocketTypes, Local!TypeOK
<1>8. SocketTypes'
  BY <1>2, <1>3, <1>5 DEF SocketTypes, Local!TypeOK, Callers
<1>9. ASSUME NEW d \in Callers PROVE CallerInv(d)'
  <2>1. CallerInv(d)
    BY DEF LocalInv
  <2>2. d # c => down'[d] = down[d]
    BY <1>2, <1>3 DEF SocketTypes
  <2>3. down'[d] \in {<<>>, Echo(d)}
    BY <1>5, <2>1, <2>2 DEF CallerInv
  <2>4. d \in linked' \/ down'[d] # <<>> \/ ~(d \in linked \/ down[d] # <<>>)
    BY <1>3, <1>6, <2>2
  <2>5. \A t \in Servers : server'[t] = "ended" <=> server[t] = "ended"
    BY <1>3, <1>7
  <2> QED
    BY <1>3, <2>1, <2>3, <2>4, <2>5 DEF CallerInv, Echo
<1>10. ASSUME NEW t \in Servers PROVE ConnectionInv(t)' /\ SocketFile(t)'
  <2>1. ConnectionInv(t) /\ SocketFile(t)
    BY DEF LocalInv
  <2> QED
    BY <1>3, <1>7, <2>1 DEF ConnectionInv, SocketFile, Queued, Held
<1> QED
  BY <1>8, <1>9, <1>10 DEF LocalInv

\* The end of a server closes its connections.
LEMMA DieInv ==
  ASSUME LocalInv, NEW s \in Servers, server[s] # "off", Local!Die(s)
  PROVE  LocalInv'
<1>1. SocketTypes
  BY DEF LocalInv
<1>2. /\ server' = [server EXCEPT ![s] = "ended"]
      /\ linked' = linked \ {c \in linked : link[c] = s} /\ reset' \subseteq reset \cup linked
      /\ UNCHANGED <<sock_path, serving, msg, backlog, client, result, got, link, up, down>>
  BY DEF Local!Die, Local!Closed, Local!endVars
<1>3. server'[s] = "ended" /\ \A t \in Servers \ {s} : server'[t] = server[t]
  BY <1>1, <1>2 DEF SocketTypes, Local!TypeOK
<1>4. SocketTypes'
  BY <1>1, <1>2 DEF SocketTypes, Local!TypeOK, Callers
<1>5. ASSUME NEW c \in Callers PROVE CallerInv(c)'
  <2>1. CallerInv(c)
    BY DEF LocalInv
  <2>2. c \in linked /\ c \notin linked' => link[c] = s
    BY <1>2
  <2>3. \A t \in Servers : server[t] = "ended" => server'[t] = "ended"
    BY <1>3
  <2> QED
    BY <1>2, <1>3, <2>1, <2>2, <2>3 DEF CallerInv, Echo
<1>6. ASSUME NEW t \in Servers PROVE ConnectionInv(t)' /\ SocketFile(t)'
  <2>1. ConnectionInv(t) /\ SocketFile(t)
    BY DEF LocalInv
  <2> QED
    BY <1>2, <1>3, <2>1 DEF ConnectionInv, SocketFile, Queued, Held
<1> QED
  BY <1>4, <1>5, <1>6 DEF LocalInv

\* A new connection comes last, and its client was nowhere before.
LEMMA ConnectInv == ASSUME LocalInv, NEW c \in Callers, Local!Connect(c) PROVE LocalInv'
<1>1. PICK s : s = sock_path
  OBVIOUS
<1>2. SocketTypes
  BY DEF LocalInv
<1>3. /\ client[c] = "off" /\ s \in Servers /\ server[s] \in {"accept", "receive", "send"}
      /\ client' = [client EXCEPT ![c] = "connected"]
      /\ link' = [link EXCEPT ![c] = s] /\ linked' = linked \cup {c}
      /\ backlog' = [backlog EXCEPT ![s] = Append(@, c)]
      /\ UNCHANGED <<sock_path, server, serving, msg, result, got, up, down, reset>>
  BY <1>1, <1>2 DEF Local!Connect, Local!Listening, SocketTypes, Local!TypeOK
<1>4. link[c] = "nobody" /\ up[c] = <<>>
  BY <1>3 DEF LocalInv, CallerInv
<1>5. PICK q \in Seq(Callers) : q = backlog[s]
  BY <1>2, <1>3 DEF SocketTypes
<1>6. /\ Len(q) \in Nat /\ DOMAIN q = 1 .. Len(q)
      /\ Append(q, c) \in Seq(Callers) /\ DOMAIN Append(q, c) = 1 .. Len(q) + 1
      /\ \A i \in 1 .. Len(q) : Append(q, c)[i] = q[i]
      /\ Append(q, c)[Len(q) + 1] = c
  BY AppendProperties, LenProperties
<1>7. \A i \in 1 .. Len(q) + 1 : i \in 1 .. Len(q) \/ i = Len(q) + 1
  BY <1>6
<1>8. backlog'[s] = Append(q, c) /\ \A t \in Servers \ {s} : backlog'[t] = backlog[t]
  BY <1>2, <1>3, <1>5 DEF SocketTypes
<1>9. /\ client'[c] = "connected" /\ link'[c] = s /\ c \in linked' /\ linked \subseteq linked'
      /\ \A d \in Callers \ {c} : client'[d] = client[d] /\ link'[d] = link[d]
  BY <1>2, <1>3 DEF SocketTypes, Local!TypeOK, Callers
<1>10. SocketTypes'
  BY <1>2, <1>3, <1>5, <1>6 DEF SocketTypes, Local!TypeOK, Callers
<1>11. ASSUME NEW d \in Callers PROVE CallerInv(d)'
  <2>1. CallerInv(d)
    BY DEF LocalInv
  <2> QED
    BY <1>3, <1>4, <1>9, <2>1 DEF CallerInv, Echo
<1>12. ASSUME NEW t \in Servers PROVE ConnectionInv(t)'
  <2>1. ConnectionInv(t) /\ "nobody" \notin Servers
    BY LocalFacts DEF LocalInv
  <2>2. ~Queued(t, c) /\ (server[t] \in {"receive", "send"} => serving[t] \in Callers \ {c})
    BY <1>4, <2>1 DEF ConnectionInv
  <2>3. \A d \in Callers : Queued(t, d)' => Queued(t, d) \/ (d = c /\ t = s)
    BY <1>5, <1>6, <1>7, <1>8 DEF Queued
  <2>4. \A i, j \in DOMAIN backlog'[t] : backlog'[t][i] = backlog'[t][j] => i = j
    <3>1. \A i, j \in DOMAIN backlog[t] : backlog[t][i] = backlog[t][j] => i = j
      BY <2>1 DEF ConnectionInv
    <3>2. CASE t = s
      <4>1. \A i, j \in 1 .. Len(q) : q[i] = q[j] => i = j
        BY <1>5, <1>6, <3>1, <3>2
      <4>2. \A i \in 1 .. Len(q) : q[i] # c
        BY <1>5, <1>6, <2>2, <3>2 DEF Queued
      <4>3. \A i, j \in DOMAIN Append(q, c) : Append(q, c)[i] = Append(q, c)[j] => i = j
        BY <1>6, <1>7, <4>1, <4>2
      <4> QED
        BY <1>8, <3>2, <4>3
    <3>3. CASE t # s
      BY <1>8, <3>1, <3>3
    <3> QED
      BY <3>2, <3>3
  <2>5. \A d \in Callers : Queued(t, d)' =>
          link'[d] = t /\ up'[d] \in {<<>>, Local!Request(d)} /\ ~Held(t, d)'
    BY <1>3, <1>4, <1>9, <2>1, <2>2, <2>3 DEF ConnectionInv, Held
  <2>6. server[t] \in {"receive", "send"} =>
          /\ client'[serving[t]] = client[serving[t]] /\ link'[serving[t]] = link[serving[t]]
    BY <1>9, <2>2
  <2> QED
    BY <1>3, <2>1, <2>4, <2>5, <2>6 DEF ConnectionInv
<1>13. ASSUME NEW t \in Servers PROVE SocketFile(t)'
  <2>1. SocketFile(t)
    BY DEF LocalInv
  <2> QED
    BY <1>3, <2>1 DEF SocketFile
<1> QED
  BY <1>10, <1>11, <1>12, <1>13 DEF LocalInv

\* The request.
LEMMA ClientSendsInv == ASSUME LocalInv, NEW c \in Callers, Local!Send(c) PROVE LocalInv'
<1>1. SocketTypes
  BY DEF LocalInv
<1>2. /\ client[c] = "connected"
      /\ client' = [client EXCEPT ![c] = "wait"]
      /\ up' = [up EXCEPT ![c] = Local!Request(c)]
      /\ UNCHANGED <<sock_path, server, serving, msg, backlog, result, got, link, linked,
                     down, reset>>
  BY DEF Local!Send, Local!serverVars
<1>3. /\ client'[c] = "wait" /\ up'[c] = Local!Request(c)
      /\ \A d \in Callers \ {c} : client'[d] = client[d] /\ up'[d] = up[d]
  BY <1>1, <1>2 DEF SocketTypes, Local!TypeOK, Callers
<1>4. SocketTypes'
  BY <1>1, <1>2 DEF SocketTypes, Local!TypeOK, Callers
<1>5. ASSUME NEW d \in Callers PROVE CallerInv(d)'
  <2>1. CallerInv(d)
    BY DEF LocalInv
  <2> QED
    BY <1>2, <1>3, <2>1 DEF CallerInv, Echo
<1>6. ASSUME NEW t \in Servers PROVE ConnectionInv(t)' /\ SocketFile(t)'
  <2>1. ConnectionInv(t) /\ SocketFile(t)
    BY DEF LocalInv
  <2>2. server[t] \in {"receive", "send"} => serving[t] \in Callers
    BY <2>1 DEF ConnectionInv
  <2>3. server[t] = "send" => serving[t] # c
    BY <1>2, <2>1 DEF ConnectionInv
  <2>4. \A d \in Callers : up[d] \in {<<>>, Local!Request(d)} =>
                             up'[d] \in {<<>>, Local!Request(d)}
    BY <1>3
  <2>5. ConnectionInv(t)'
    BY <1>2, <1>3, <2>1, <2>2, <2>3, <2>4 DEF ConnectionInv, Queued, Held
  <2> QED
    BY <1>2, <2>1, <2>5 DEF SocketFile
<1> QED
  BY <1>4, <1>5, <1>6 DEF LocalInv

\* Whatever way a client ends.
LEMMA ClientEndsInv ==
  ASSUME LocalInv, NEW c \in Callers, NEW how \in {"ok", "error", "killed"},
         client[c] # "ended", Local!Ended(c, how), DOMAIN got' = Callers,
         \A d \in Callers : d # c => got'[d] = got[d],
         how = "ok" => \/ got'[c] = Local!Start(Echo(c), Buffer)
                       \/ got'[c] = <<>> /\ link[c] \in Servers /\ server[link[c]] = "ended"
  PROVE  LocalInv'
<1>1. SocketTypes
  BY DEF LocalInv
<1>2. /\ client' = [client EXCEPT ![c] = "ended"] /\ result' = [result EXCEPT ![c] = how]
      /\ UNCHANGED <<sock_path, server, serving, msg, backlog, link, linked, up, down, reset>>
  BY DEF Local!Ended, Local!serverVars, Local!linkVars
<1>3. /\ client'[c] = "ended" /\ result'[c] = how
      /\ \A d \in Callers \ {c} : client'[d] = client[d] /\ result'[d] = result[d]
  BY <1>1, <1>2 DEF SocketTypes, Local!TypeOK, Callers
<1>4. SocketTypes'
  BY <1>1, <1>2 DEF SocketTypes, Local!TypeOK, Callers
<1>5. ASSUME NEW d \in Callers PROVE CallerInv(d)'
  <2>1. CallerInv(d)
    BY DEF LocalInv
  <2>2. CASE d = c
    BY <1>2, <1>3, <2>1, <2>2 DEF CallerInv, Echo
  <2>3. CASE d # c
    BY <1>2, <1>3, <2>1, <2>3 DEF CallerInv, Echo
  <2> QED
    BY <2>2, <2>3
<1>6. ASSUME NEW t \in Servers PROVE ConnectionInv(t)' /\ SocketFile(t)'
  <2>1. ConnectionInv(t) /\ SocketFile(t)
    BY DEF LocalInv
  <2>2. server[t] \in {"receive", "send"} => serving[t] \in Callers
    BY <2>1 DEF ConnectionInv
  <2>3. server[t] = "send" =>
          client'[serving[t]] = "ended" \/ client'[serving[t]] = client[serving[t]]
    BY <1>3, <2>2
  <2>4. ConnectionInv(t)'
    BY <1>2, <2>1, <2>3 DEF ConnectionInv, Queued, Held
  <2> QED
    BY <1>2, <2>1, <2>4 DEF SocketFile
<1> QED
  BY <1>4, <1>5, <1>6 DEF LocalInv

\* The ways of a client to end.
LEMMA ClientStepInv ==
  ASSUME LocalInv, NEW c \in Callers,
         \/ Local!ConnectFails(c) \/ Local!ClientSendFails(c) \/ Local!ReceiveAnswer(c)
         \/ Local!ReceiveEnd(c) \/ Local!TimeOut(c) \/ Local!Leave(c)
  PROVE  LocalInv'
<1>1. SocketTypes /\ CallerInv(c)
  BY DEF LocalInv
<1>2. DOMAIN got = Callers
  BY <1>1 DEF SocketTypes
<1>3. ASSUME UNCHANGED got, client[c] # "ended",
             Local!Ended(c, "error") \/ Local!Ended(c, "killed")
      PROVE  LocalInv'
  BY <1>2, <1>3, ClientEndsInv
<1>4. CASE Local!ReceiveAnswer(c)
  <2>1. /\ client[c] = "wait" /\ down[c] # <<>>
        /\ got' = [got EXCEPT ![c] = Local!Start(down[c], Buffer)] /\ Local!Ended(c, "ok")
    BY <1>4 DEF Local!ReceiveAnswer
  <2>2. got'[c] = Local!Start(Echo(c), Buffer)
    BY <1>1, <1>2, <2>1 DEF CallerInv
  <2>3. DOMAIN got' = Callers /\ \A d \in Callers : d # c => got'[d] = got[d]
    BY <1>2, <2>1
  <2> QED
    BY <2>1, <2>2, <2>3, ClientEndsInv
<1>5. CASE Local!ReceiveEnd(c)
  <2>1. /\ client[c] = "wait" /\ down[c] = <<>> /\ c \notin linked /\ got' = got
        /\ Local!Ended(c, "ok") \/ Local!Ended(c, "error")
    BY <1>5 DEF Local!ReceiveEnd
  <2>2. got[c] = <<>> /\ link[c] \in Servers /\ server[link[c]] = "ended"
    BY <1>1, <2>1 DEF CallerInv
  <2> QED
    BY <1>2, <2>1, <2>2, ClientEndsInv
<1>6. CASE \/ Local!ConnectFails(c) \/ Local!ClientSendFails(c) \/ Local!TimeOut(c)
           \/ Local!Leave(c)
  BY <1>3, <1>6 DEF Local!ConnectFails, Local!ClientSendFails, Local!TimeOut, Local!Leave
<1> QED
  BY <1>4, <1>5, <1>6

\* Every step keeps the invariant.
LEMMA LocalStep == ASSUME LocalInv, Local!Next \/ UNCHANGED localVars PROVE LocalInv'
<1>1. CASE UNCHANGED localVars
  BY <1>1
  DEF localVars, LocalInv, SocketTypes, Local!TypeOK, CallerInv, ConnectionInv, SocketFile,
      Echo, Queued, Held, Callers
<1>2. ASSUME NEW s \in Servers,
             \/ Local!Create(s) \/ Local!Bind(s) \/ Local!Listen(s) \/ Local!Serve(s)
             \/ Local!AcceptFails(s) \/ Local!Kill(s)
      PROVE  LocalInv'
  <2>1. CASE Local!SendFails(s) \/ Local!AcceptFails(s) \/ Local!Kill(s)
    BY <2>1, DieInv DEF Local!SendFails, Local!AcceptFails, Local!Kill
  <2> QED
    BY <1>2, <2>1, StartingInv, AcceptInv, ServerReceivesInv, AnswerInv DEF Local!Serve
<1>3. ASSUME NEW c \in Callers,
             \/ Local!Connect(c) \/ Local!ConnectFails(c) \/ Local!Send(c)
             \/ Local!ClientSendFails(c) \/ Local!ReceiveAnswer(c) \/ Local!ReceiveEnd(c)
             \/ Local!TimeOut(c) \/ Local!Leave(c)
      PROVE  LocalInv'
  BY <1>3, ConnectInv, ClientSendsInv, ClientStepInv
<1> QED
  BY <1>1, <1>2, <1>3 DEF Local!Next, Callers

\* What the invariant says of answers and of the file.
LEMMA LocalRightly == LocalInv => Local!Echoes /\ Local!Reachable
  BY DEF LocalInv, CallerInv, SocketFile, Local!Echoes, Local!Reachable, Local!Listening,
         Echo, Callers

-----------------------------------------------------------------------------
(* The FIFO *)

\* A server that runs is what the name leads to, and lines are where they were written
FifoInv ==
  /\ Fifo!FifoSafe
  /\ pipes \in [Daemons -> Seq(Writers)]
  /\ handled \in [Daemons -> Seq(Writers)] /\ wrote \in [Daemons -> Seq(Writers)]

\* Nothing has been written.
LEMMA FifoInit == Fifo!Init => FifoInv
<1> SUFFICES ASSUME Fifo!Init PROVE FifoInv
  OBVIOUS
<1> USE ProgramsAssumption DEF ProgramsAssumption, Fifo!FifoAssumption, Fifo!Init
<1>1. Fifo!TypeOK /\ Fifo!NameRight
  BY DEF Fifo!TypeOK, Fifo!NameRight, Fifo!Live
<1>2. Fifo!LinesInOrder
  BY ConcatEmptySeq, EmptySeq DEF Fifo!LinesInOrder
<1>3. /\ pipes \in [Daemons -> Seq(Writers)]
      /\ handled \in [Daemons -> Seq(Writers)] /\ wrote \in [Daemons -> Seq(Writers)]
  BY EmptySeq
<1> QED
  BY <1>1, <1>2, <1>3 DEF FifoInv, Fifo!FifoSafe

\* Who starts, opens, ends or cleans up leaves the lines alone.
LEMMA FifoNames ==
  ASSUME FifoInv,
         \/ Fifo!Clean
         \/ \E s \in Daemons : \/ Fifo!Mkfifo(s) \/ Fifo!OpenFifo(s) \/ Fifo!Unlink(s)
                               \/ Fifo!KillDaemon(s)
         \/ \E c \in Writers : Fifo!OpenOut(c)
  PROVE  FifoInv'
<1> USE ProgramsAssumption DEF ProgramsAssumption, Fifo!FifoAssumption
<1>1. UNCHANGED <<pipes, handled, wrote>>
  BY DEF Fifo!Clean, Fifo!Mkfifo, Fifo!OpenFifo, Fifo!Unlink, Fifo!KillDaemon, Fifo!OpenOut
<1>2. Fifo!TypeOK' /\ Fifo!NameRight'
  <2> USE DEF FifoInv, Fifo!FifoSafe, Fifo!TypeOK, Fifo!NameRight, Fifo!Live
  <2>1. CASE Fifo!Clean
    BY <2>1 DEF Fifo!Clean
  <2>2. ASSUME NEW s \in Daemons, Fifo!Mkfifo(s) PROVE Fifo!TypeOK' /\ Fifo!NameRight'
    BY <2>2 DEF Fifo!Mkfifo
  <2>3. ASSUME NEW s \in Daemons, Fifo!OpenFifo(s) PROVE Fifo!TypeOK' /\ Fifo!NameRight'
    BY <2>3 DEF Fifo!OpenFifo
  <2>4. ASSUME NEW s \in Daemons, Fifo!Unlink(s) PROVE Fifo!TypeOK' /\ Fifo!NameRight'
    BY <2>4 DEF Fifo!Unlink
  <2>5. ASSUME NEW s \in Daemons, Fifo!KillDaemon(s) PROVE Fifo!TypeOK' /\ Fifo!NameRight'
    BY <2>5 DEF Fifo!KillDaemon
  <2>6. ASSUME NEW c \in Writers, Fifo!OpenOut(c) PROVE Fifo!TypeOK' /\ Fifo!NameRight'
    <3>1. CASE file \in Daemons
      <4>1. file' = file
        BY <2>6, <3>1 DEF Fifo!OpenOut
      <4>2. /\ writer' = [writer EXCEPT ![c] = writer'[c]]
            /\ writer'[c] \in {"opened", "opening"}
        BY <2>6, <3>1 DEF Fifo!OpenOut
      <4>3. /\ daemon' = [daemon EXCEPT ![file] = daemon'[file]]
            /\ daemon'[file] = IF daemon[file] = "opening" THEN "reading" ELSE daemon[file]
        BY <2>6, <3>1 DEF Fifo!OpenOut
      <4> QED
        BY <3>1, <4>1, <4>2, <4>3
    <3>2. CASE file \notin Daemons
      BY <2>6, <3>2 DEF Fifo!OpenOut
    <3> QED
      BY <3>1, <3>2
  <2> QED
    BY <2>1, <2>2, <2>3, <2>4, <2>5, <2>6
<1>3. ASSUME NEW s \in Daemons, daemon[s] \in {"quitting", "ended", "killed"}
      PROVE  daemon'[s] \in {"quitting", "ended", "killed"}
  BY <1>3 DEF Fifo!Clean, Fifo!Mkfifo, Fifo!OpenFifo, Fifo!Unlink, Fifo!KillDaemon, Fifo!OpenOut,
              FifoInv, Fifo!FifoSafe, Fifo!TypeOK
<1>4. Fifo!LinesInOrder'
  BY <1>1, <1>3 DEF FifoInv, Fifo!FifoSafe, Fifo!LinesInOrder
<1> QED
  BY <1>1, <1>2, <1>4 DEF FifoInv, Fifo!FifoSafe

\* A line moves from the head of the FIFO to the end of those that were handled.
LEMMA FifoGetLine ==
  ASSUME FifoInv, NEW s \in Daemons, Fifo!GetLine(s)
  PROVE  FifoInv'
<1> USE DEF FifoInv, Fifo!FifoSafe
<1>1. /\ pipes[s] \in Seq(Writers) /\ pipes[s] # <<>> /\ handled[s] \in Seq(Writers)
      /\ daemon[s] = "reading"
  BY DEF Fifo!GetLine
<1>2. /\ pipes'[s] = Tail(pipes[s]) /\ handled'[s] = Append(handled[s], Head(pipes[s]))
      /\ \A t \in Daemons \ {s} : /\ pipes'[t] = pipes[t] /\ handled'[t] = handled[t]
                                  /\ daemon'[t] = daemon[t]
  BY DEF Fifo!GetLine, Fifo!TypeOK
<1>3. Head(pipes[s]) \in Writers /\ Tail(pipes[s]) \in Seq(Writers)
  BY <1>1, HeadTailProperties
<1>4. Append(handled[s], Head(pipes[s])) \in Seq(Writers)
  BY <1>1, <1>3, AppendProperties
<1>5. Fifo!TypeOK' /\ Fifo!NameRight'
  BY <1>1 DEF Fifo!GetLine, Fifo!TypeOK, Fifo!NameRight, Fifo!Live
<1>6. handled'[s] \o pipes'[s] = handled[s] \o pipes[s]
  <2>1. pipes[s] = <<Head(pipes[s])>> \o Tail(pipes[s])
    BY <1>1
  <2>2. handled'[s] = handled[s] \o <<Head(pipes[s])>>
    BY <1>1, <1>2, <1>3, AppendIsConcat
  <2>3. <<Head(pipes[s])>> \in Seq(Writers)
    BY <1>3
  <2>4. (handled[s] \o <<Head(pipes[s])>>) \o Tail(pipes[s])
          = handled[s] \o (<<Head(pipes[s])>> \o Tail(pipes[s]))
    BY <1>1, <1>3, <2>3, ConcatAssociative
  <2> QED
    BY <1>2, <2>1, <2>2, <2>4
<1>7. ASSUME NEW i \in DOMAIN handled'[s], handled'[s][i] \in Quitters
      PROVE  i = Len(handled'[s]) /\ daemon'[s] \in {"quitting", "ended", "killed"}
  <2>1. Len(handled'[s]) = Len(handled[s]) + 1 /\ Len(handled[s]) \in Nat
        /\ \A j \in 1 .. Len(handled[s]) : handled'[s][j] = handled[s][j]
        /\ handled'[s][Len(handled[s]) + 1] = Head(pipes[s])
    BY <1>1, <1>2, <1>3, AppendProperties, LenProperties
  <2>2. \A j \in 1 .. Len(handled[s]) : handled[s][j] \notin Quitters
    BY <1>1, LenProperties DEF Fifo!LinesInOrder
  <2>3. i \in 1 .. Len(handled[s]) + 1
    BY <1>2, <1>4, <2>1, LenProperties
  <2>4. i = Len(handled[s]) + 1
    BY <1>7, <2>1, <2>2, <2>3
  <2>5. daemon'[s] = "quitting"
    BY <1>7, <2>1, <2>4 DEF Fifo!GetLine, Fifo!TypeOK
  <2> QED
    BY <2>1, <2>4, <2>5
<1>8. Fifo!LinesInOrder'
  BY <1>2, <1>6, <1>7 DEF Fifo!LinesInOrder, Fifo!GetLine
<1>9. pipes' \in [Daemons -> Seq(Writers)] /\ handled' \in [Daemons -> Seq(Writers)]
  BY <1>3, <1>4 DEF Fifo!GetLine
<1> QED
  BY <1>5, <1>8, <1>9 DEF Fifo!GetLine

\* A line is written to the end of the FIFO.
LEMMA FifoWriteLine ==
  ASSUME FifoInv, NEW c \in Writers, Fifo!WriteLine(c)
  PROVE  FifoInv'
<1> USE DEF FifoInv, Fifo!FifoSafe
<1>1. Fifo!TypeOK' /\ Fifo!NameRight'
  BY DEF Fifo!WriteLine, Fifo!TypeOK, Fifo!NameRight, Fifo!Live
<1>2. CASE UNCHANGED <<pipes, wrote>>
  BY <1>1, <1>2 DEF Fifo!WriteLine, Fifo!LinesInOrder
<1>3. CASE ~UNCHANGED <<pipes, wrote>>
  <2> DEFINE s == inode[c]
  <2>1. /\ s \in Daemons /\ UNCHANGED <<file, daemon, inode, handled>>
        /\ pipes' = [pipes EXCEPT ![s] = Append(@, c)]
        /\ wrote' = [wrote EXCEPT ![s] = Append(@, c)]
    BY <1>3 DEF Fifo!WriteLine
  <2> HIDE DEF s
  <2>2. Append(pipes[s], c) \in Seq(Writers) /\ Append(wrote[s], c) \in Seq(Writers)
    BY <2>1, AppendProperties
  <2>3. handled[s] \o Append(pipes[s], c) = Append(handled[s] \o pipes[s], c)
    <3>1. handled[s] \in Seq(Writers) /\ pipes[s] \in Seq(Writers) /\ <<c>> \in Seq(Writers)
      BY <2>1
    <3> QED
      BY SMTT(30), <3>1, AppendIsConcat, ConcatAssociative, ConcatProperties
  <2>4. Fifo!LinesInOrder'
    BY <2>1, <2>3 DEF Fifo!LinesInOrder
  <2> QED
    BY <1>1, <2>1, <2>2, <2>4
<1> QED
  BY <1>2, <1>3

\* Every step keeps the invariant.
LEMMA FifoStep == ASSUME FifoInv, Fifo!Next \/ UNCHANGED fifoVars PROVE FifoInv'
<1>1. CASE UNCHANGED fifoVars
  BY <1>1 DEF fifoVars, FifoInv, Fifo!FifoSafe, Fifo!TypeOK, Fifo!NameRight, Fifo!LinesInOrder
<1>2. CASE Fifo!Next
  BY <1>2, FifoNames, FifoGetLine, FifoWriteLine DEF Fifo!Next, Fifo!DaemonStep
<1> QED
  BY <1>1, <1>2

-----------------------------------------------------------------------------
(* The message queue *)

Messages == [run : Mq!Runs, num : Nat \ {0}]
AllKilled(first, r) == \A j \in first .. r - 1 : parent[j] = "killed"

QueueTypes ==
  /\ Mq!TypeOK
  /\ queue \in [Mq!Runs -> Seq(Messages)] /\ taken \in [Mq!Runs -> Seq(Messages)]
  /\ out_fd \in [Mq!Runs -> Mq!Runs \cup {0}] /\ in_fd \in [Mq!Runs -> Mq!Runs \cup {0}]
  /\ sent \in [Mq!Runs -> Nat] /\ tries \in [Mq!Runs -> Nat] /\ lost \subseteq Messages

\* What the processes of a start can be doing: one parent at a time; a queue is older than
\* who finds its name, and every parent since it was made was killed
StartInv(r) ==
  /\ parent[r] # "off" => \A k \in 1 .. r - 1 : Mq!Over(k)
  /\ parent[r] = "off" => reader[r] = "off"
  /\ parent[r] \in {"off", "open"} => out_fd[r] = 0
  /\ parent[r] = "send" => out_fd[r] # 0
  /\ out_fd[r] = 0 => sent[r] = 0
  /\ out_fd[r] # 0 => out_fd[r] <= r /\ AllKilled(out_fd[r], r)
  /\ reader[r] \in {"off", "open"} => taken[r] = <<>> /\ tries[r] = 0
  /\ reader[r] = "receive" => in_fd[r] # 0 /\ tries[r] < Receives
  /\ in_fd[r] # 0 /\ in_fd[r] <= r => AllKilled(in_fd[r], r)
  /\ mq_name = r => out_fd[r] = r
  /\ mq_name # 0 /\ mq_name <= r => parent[r] # "ended"
  /\ parent[r] = "send" /\ out_fd[r] = r => Len(queue[r]) <= sent[r]

\* A message was sent to queue q
SentTo(m, q) == m.num <= sent[m.run] /\ out_fd[m.run] = q

QueuedInv(q) ==
  /\ \A i \in DOMAIN queue[q] : SentTo(queue[q][i], q)
  /\ \A i, j \in DOMAIN queue[q] : i < j => Mq!Before(queue[q][i], queue[q][j])

\* What was taken is older than what is still there
TakenInv(r) ==
  /\ \A i \in DOMAIN taken[r] : SentTo(taken[r][i], in_fd[r])
  /\ \A i, j \in DOMAIN taken[r] : i < j => Mq!Before(taken[r][i], taken[r][j])
  /\ in_fd[r] # 0 =>
       \A i \in DOMAIN taken[r] : \A j \in DOMAIN queue[in_fd[r]] :
         Mq!Before(taken[r][i], queue[in_fd[r]][j])

TakenOnce ==
  \A r, s \in Mq!Runs : \A i \in DOMAIN taken[r] : \A j \in DOMAIN taken[s] :
    taken[r][i] = taken[s][j] => r = s /\ i = j

LostInv == Sends <= MaxMsg => \A m \in lost : Mq!KilledBefore(m.run)

QueueInv ==
  /\ QueueTypes /\ TakenOnce /\ LostInv
  /\ \A r \in Mq!Runs : StartInv(r) /\ QueuedInv(r) /\ TakenInv(r)

\* The runs are numbers from 1 on.
LEMMA QueueFacts ==
  /\ Mq!NoQueue = 0
  /\ Sends \in Nat /\ MaxMsg \in Nat /\ Receives \in Nat \ {0} /\ Starts \in Nat
  /\ Mq!Runs = 1 .. Starts
  /\ \A r \in Mq!Runs : r \in Nat /\ r # 0 /\ 1 .. r - 1 \subseteq Mq!Runs
  /\ \A r, s \in Mq!Runs : r < s \/ r = s \/ s < r
<1>1. Sends \in Nat /\ MaxMsg \in Nat /\ Receives \in Nat \ {0} /\ Starts \in Nat
  BY ProgramsAssumption DEF ProgramsAssumption, Mq!QueueAssumption
<1> QED
  BY <1>1 DEF Mq!Runs, Mq!NoQueue

\* No run has begun.
LEMMA QueueInit == Mq!Init => QueueInv
<1> SUFFICES ASSUME Mq!Init PROVE QueueInv
  OBVIOUS
<1>1. \A r \in Mq!Runs :
        /\ queue[r] = <<>> /\ taken[r] = <<>> /\ Len(queue[r]) = 0 /\ sent[r] = 0 /\ tries[r] = 0
        /\ DOMAIN queue[r] = {} /\ DOMAIN taken[r] = {} /\ parent[r] = "off" /\ reader[r] = "off"
        /\ out_fd[r] = 0 /\ in_fd[r] = 0 /\ mq_name # r
  BY QueueFacts, EmptySeq DEF Mq!Init
<1>2. QueueTypes
  BY <1>1, QueueFacts DEF Mq!Init, QueueTypes, Mq!TypeOK
<1>3. TakenOnce /\ LostInv
  BY <1>1 DEF TakenOnce, LostInv, Mq!Init
<1>4. ASSUME NEW r \in Mq!Runs PROVE StartInv(r) /\ QueuedInv(r) /\ TakenInv(r)
  BY <1>1, QueueFacts DEF StartInv, QueuedInv, TakenInv, Mq!Init
<1> QED
  BY <1>2, <1>3, <1>4 DEF QueueInv

\* While a parent runs, those before it are over and those after it have not begun.
LEMMA OneParent ==
  ASSUME QueueInv, NEW r \in Mq!Runs, parent[r] \in {"open", "send"}
  PROVE  /\ \A k \in Mq!Runs : k < r => parent[k] \in {"ended", "killed"}
         /\ \A k \in Mq!Runs : k > r => parent[k] = "off" /\ out_fd[k] = 0 /\ sent[k] = 0
         /\ \A m \in Messages, q \in Mq!Runs \cup {0} : SentTo(m, q) => m.run <= r
<1>1. ASSUME NEW k \in Mq!Runs, k < r PROVE parent[k] \in {"ended", "killed"}
  <2>1. k \in 1 .. r - 1
    BY <1>1, QueueFacts
  <2> QED
    BY <2>1 DEF QueueInv, StartInv, Mq!Over
<1>2. ASSUME NEW k \in Mq!Runs, k > r PROVE parent[k] = "off" /\ out_fd[k] = 0 /\ sent[k] = 0
  <2>1. r \in 1 .. k - 1
    BY <1>2, QueueFacts
  <2> QED
    BY <2>1 DEF QueueInv, StartInv, Mq!Over
<1>3. ASSUME NEW m \in Messages, NEW q \in Mq!Runs \cup {0}, SentTo(m, q) PROVE m.run <= r
  <2>1. m.run \in Mq!Runs /\ m.num \in Nat \ {0}
    BY DEF Messages
  <2>2. sent[m.run] # 0
    BY <1>3, <2>1 DEF SentTo
  <2> QED
    BY <1>2, <2>1, <2>2, QueueFacts
<1> QED
  BY <1>1, <1>2, <1>3

\* Whoever finds a name: the parents since the queue was made were killed.
LEMMA NameIsOld ==
  ASSUME QueueInv, NEW r \in Mq!Runs, parent[r] # "off", mq_name # 0, mq_name <= r
  PROVE  AllKilled(mq_name, r)
<1>1. mq_name \in Mq!Runs
  BY QueueFacts DEF QueueInv, QueueTypes, Mq!TypeOK
<1>2. ASSUME NEW j \in mq_name .. r - 1 PROVE parent[j] = "killed"
  <2>1. j \in 1 .. r - 1 /\ j \in Mq!Runs /\ mq_name <= j
    BY <1>1, QueueFacts
  <2> QED
    BY <2>1 DEF QueueInv, StartInv, Mq!Over
<1> QED
  BY <1>2 DEF AllKilled

\* A step that leaves the messages, and who has which queue open, alone.
LEMMA ProcessesInv ==
  ASSUME QueueInv, UNCHANGED <<queue, taken, sent, out_fd, in_fd, lost>>,
         \A k \in Mq!Runs : parent[k] = "killed" => parent'[k] = "killed"
  PROVE  /\ TakenOnce' /\ LostInv'
         /\ \A r \in Mq!Runs : QueuedInv(r)' /\ TakenInv(r)'
         /\ \A r, f \in Mq!Runs : AllKilled(f, r) => AllKilled(f, r)'
<1>1. TakenOnce'
  BY DEF QueueInv, TakenOnce
<1>2. LostInv'
  <2>1. ASSUME NEW r \in Mq!Runs, Mq!KilledBefore(r) PROVE Mq!KilledBefore(r)'
    BY <2>1, QueueFacts DEF Mq!KilledBefore
  <2> QED
    BY <2>1 DEF QueueInv, LostInv, QueueTypes, Messages
<1>3. ASSUME NEW r \in Mq!Runs PROVE QueuedInv(r)' /\ TakenInv(r)'
  <2>1. QueuedInv(r) /\ TakenInv(r)
    BY DEF QueueInv
  <2> QED
    BY <2>1 DEF QueuedInv, TakenInv, SentTo, Mq!Before
<1>4. ASSUME NEW r \in Mq!Runs, NEW f \in Mq!Runs, AllKilled(f, r) PROVE AllKilled(f, r)'
  <2>1. \A j \in f .. r - 1 : j \in Mq!Runs
    BY QueueFacts
  <2> QED
    BY <1>4, <2>1 DEF AllKilled
<1> QED
  BY <1>1, <1>2, <1>3, <1>4

\* The program is started again, when the last parent is over.
LEMMA ForkInv == ASSUME QueueInv, NEW r \in Mq!Runs, Mq!Fork(r) PROVE QueueInv'
<1>1. QueueTypes
  BY DEF QueueInv
<1>2. /\ parent[r] = "off" /\ (r > 1 => Mq!Over(r - 1))
      /\ parent' = [parent EXCEPT ![r] = "open"] /\ reader' = [reader EXCEPT ![r] = "open"]
      /\ UNCHANGED <<mq_name, queue, out_fd, sent, lost, in_fd, tries, taken>>
  BY DEF Mq!Fork
<1>3. /\ parent'[r] = "open" /\ reader'[r] = "open"
      /\ \A k \in Mq!Runs \ {r} : parent'[k] = parent[k] /\ reader'[k] = reader[k]
  BY <1>1, <1>2 DEF QueueTypes, Mq!TypeOK
<1>4. QueueTypes'
  BY <1>1, <1>2 DEF QueueTypes, Mq!TypeOK
<1>5. /\ TakenOnce' /\ LostInv'
      /\ \A k \in Mq!Runs : QueuedInv(k)' /\ TakenInv(k)'
      /\ \A k, f \in Mq!Runs : AllKilled(f, k) => AllKilled(f, k)'
  BY <1>2, <1>3, ProcessesInv
<1>6. ASSUME NEW k \in 1 .. r - 1 PROVE parent[k] \in {"ended", "killed"}
  <2>1. r - 1 \in Mq!Runs /\ r > 1 /\ (k = r - 1 \/ k \in 1 .. (r - 1) - 1)
    BY QueueFacts
  <2> QED
    BY <1>2, <2>1 DEF QueueInv, StartInv, Mq!Over
<1>7. ASSUME NEW k \in Mq!Runs PROVE StartInv(k)'
  <2>1. StartInv(k) /\ (mq_name = 0 \/ mq_name \in Mq!Runs)
    BY <1>1, QueueFacts DEF QueueInv, QueueTypes, Mq!TypeOK
  <2>2. parent'[k] # "off" => \A j \in 1 .. k - 1 : Mq!Over(j)'
    <3>1. \A j \in 1 .. k - 1 : j \in Mq!Runs
      BY QueueFacts
    <3>2. CASE k = r
      <4>1. \A j \in 1 .. k - 1 : j # r
        BY <3>2, QueueFacts
      <4> QED
        BY <1>3, <1>6, <3>1, <3>2, <4>1 DEF Mq!Over
    <3>3. CASE k # r
      BY <1>2, <1>3, <2>1, <3>1, <3>3 DEF StartInv, Mq!Over
    <3> QED
      BY <3>2, <3>3
  <2>3. \A f \in Mq!Runs : AllKilled(f, k) => AllKilled(f, k)'
    BY <1>5
  <2>4. out_fd[k] \in Mq!Runs \cup {0} /\ in_fd[k] \in Mq!Runs \cup {0}
    BY <1>1 DEF QueueTypes
  <2> QED
    BY <1>2, <1>3, <2>1, <2>2, <2>3, <2>4 DEF StartInv
<1> QED
  BY <1>4, <1>5, <1>7 DEF QueueInv

\* A parent that is killed leaves the name.
LEMMA KilledInv == ASSUME QueueInv, NEW r \in Mq!Runs, Mq!Killed(r) PROVE QueueInv'
<1>1. QueueTypes
  BY DEF QueueInv
<1>2. /\ parent[r] \in {"open", "send"} /\ parent' = [parent EXCEPT ![r] = "killed"]
      /\ reader' \in {reader, [reader EXCEPT ![r] = "ended"]}
      /\ UNCHANGED <<mq_name, queue, out_fd, sent, lost, in_fd, tries, taken>>
  BY DEF Mq!Killed
<1>3. /\ parent'[r] = "killed"
      /\ reader'[r] \in {reader[r], "ended"}
      /\ \A k \in Mq!Runs \ {r} : parent'[k] = parent[k] /\ reader'[k] = reader[k]
  BY <1>1, <1>2 DEF QueueTypes, Mq!TypeOK
<1>4. QueueTypes'
  BY <1>1, <1>2 DEF QueueTypes, Mq!TypeOK
<1>5. /\ TakenOnce' /\ LostInv'
      /\ \A k \in Mq!Runs : QueuedInv(k)' /\ TakenInv(k)'
      /\ \A k, f \in Mq!Runs : AllKilled(f, k) => AllKilled(f, k)'
  BY <1>2, <1>3, ProcessesInv
<1>6. ASSUME NEW k \in Mq!Runs PROVE StartInv(k)'
  <2>1. StartInv(k) /\ reader[k] \in {"off", "open", "receive", "ended"}
    BY <1>1 DEF QueueInv, QueueTypes, Mq!TypeOK
  <2>2. parent'[k] # "off" => \A j \in 1 .. k - 1 : Mq!Over(j)'
    <3>1. \A j \in 1 .. k - 1 : j \in Mq!Runs
      BY QueueFacts
    <3> QED
      BY <1>2, <1>3, <2>1, <3>1 DEF StartInv, Mq!Over
  <2>3. \A f \in Mq!Runs : AllKilled(f, k) => AllKilled(f, k)'
    BY <1>5
  <2>4. out_fd[k] \in Mq!Runs \cup {0} /\ in_fd[k] \in Mq!Runs \cup {0}
    BY <1>1 DEF QueueTypes
  <2>5. /\ out_fd[k] # 0 => \A j \in out_fd[k] .. k - 1 : parent'[j] = "killed"
        /\ in_fd[k] # 0 /\ in_fd[k] <= k => \A j \in in_fd[k] .. k - 1 : parent'[j] = "killed"
    BY <2>1, <2>3, <2>4 DEF StartInv, AllKilled
  <2>6. parent'[k] = "off" => reader'[k] = "off"
    BY <1>2, <1>3, <2>1 DEF StartInv
  <2> QED
    BY <1>2, <1>3, <2>1, <2>2, <2>5, <2>6 DEF StartInv, AllKilled
<1> QED
  BY <1>4, <1>5, <1>6 DEF QueueInv

\* A parent that ends takes the name away.
LEMMA ParentEndsInv == ASSUME QueueInv, NEW r \in Mq!Runs, Mq!ParentEnds(r) PROVE QueueInv'
<1>1. QueueTypes
  BY DEF QueueInv
<1>2. /\ parent[r] = "send" /\ parent' = [parent EXCEPT ![r] = "ended"] /\ mq_name' = 0
      /\ UNCHANGED <<queue, out_fd, sent, lost, reader, in_fd, tries, taken>>
  BY QueueFacts DEF Mq!ParentEnds, Mq!readerVars
<1>3. parent'[r] = "ended" /\ \A k \in Mq!Runs \ {r} : parent'[k] = parent[k]
  BY <1>1, <1>2 DEF QueueTypes, Mq!TypeOK
<1>4. QueueTypes'
  BY <1>1, <1>2, QueueFacts DEF QueueTypes, Mq!TypeOK
<1>5. /\ TakenOnce' /\ LostInv'
      /\ \A k \in Mq!Runs : QueuedInv(k)' /\ TakenInv(k)'
      /\ \A k, f \in Mq!Runs : AllKilled(f, k) => AllKilled(f, k)'
  BY <1>2, <1>3, ProcessesInv
<1>6. ASSUME NEW k \in Mq!Runs PROVE StartInv(k)'
  <2>1. StartInv(k) /\ k # 0
    BY QueueFacts DEF QueueInv
  <2>2. parent'[k] # "off" => \A j \in 1 .. k - 1 : Mq!Over(j)'
    <3>1. \A j \in 1 .. k - 1 : j \in Mq!Runs
      BY QueueFacts
    <3> QED
      BY <1>2, <1>3, <2>1, <3>1 DEF StartInv, Mq!Over
  <2>3. \A f \in Mq!Runs : AllKilled(f, k) => AllKilled(f, k)'
    BY <1>5
  <2>4. out_fd[k] \in Mq!Runs \cup {0} /\ in_fd[k] \in Mq!Runs \cup {0}
    BY <1>1 DEF QueueTypes
  <2>5. /\ out_fd[k] # 0 => \A j \in out_fd[k] .. k - 1 : parent'[j] = "killed"
        /\ in_fd[k] # 0 /\ in_fd[k] <= k => \A j \in in_fd[k] .. k - 1 : parent'[j] = "killed"
    BY <2>1, <2>3, <2>4 DEF StartInv, AllKilled
  <2>6. mq_name' # k /\ mq_name' = 0
    BY <1>2, <2>1
  <2> QED
    BY <1>2, <1>3, <2>1, <2>2, <2>5, <2>6 DEF StartInv, AllKilled
<1> QED
  BY <1>4, <1>5, <1>6 DEF QueueInv

\* A parent takes the queue that has the name, or makes one, in which nothing can be.
LEMMA ParentOpensInv == ASSUME QueueInv, NEW r \in Mq!Runs, Mq!ParentOpens(r) PROVE QueueInv'
<1>1. QueueTypes /\ StartInv(r)
  BY DEF QueueInv
<1>2. /\ parent[r] = "open" /\ parent' = [parent EXCEPT ![r] = "send"]
      /\ mq_name' = IF mq_name = 0 THEN r ELSE mq_name
      /\ out_fd' = [out_fd EXCEPT ![r] = mq_name']
      /\ UNCHANGED <<queue, sent, lost, reader, in_fd, tries, taken>>
  BY QueueFacts DEF Mq!ParentOpens, Mq!readerVars
<1>3. mq_name \in Mq!Runs \cup {0} /\ mq_name' \in Mq!Runs
  BY <1>1, <1>2, QueueFacts DEF QueueTypes, Mq!TypeOK
<1>4. /\ parent'[r] = "send" /\ out_fd'[r] = mq_name'
      /\ \A k \in Mq!Runs \ {r} : parent'[k] = parent[k] /\ out_fd'[k] = out_fd[k]
  BY <1>1, <1>2 DEF QueueTypes, Mq!TypeOK
<1>5. out_fd[r] = 0 /\ sent[r] = 0
  BY <1>1, <1>2 DEF StartInv
<1>6. /\ \A k \in Mq!Runs : k < r => parent[k] \in {"ended", "killed"}
      /\ \A k \in Mq!Runs : k > r => parent[k] = "off" /\ out_fd[k] = 0 /\ sent[k] = 0
  BY <1>2, OneParent
<1>7. mq_name # 0 => mq_name < r
  <2>1. mq_name # 0 => out_fd[mq_name] = mq_name
    BY <1>3 DEF QueueInv, StartInv
  <2> QED
    BY <1>3, <1>5, <1>6, <2>1, QueueFacts
<1>8. mq_name' <= r /\ AllKilled(mq_name', r)
  <2>1. CASE mq_name = 0
    <3>1. r .. r - 1 = {}
      BY QueueFacts
    <3> QED
      BY <1>2, <2>1, <3>1, QueueFacts DEF AllKilled
  <2>2. CASE mq_name # 0
    <3>1. mq_name <= r
      BY <1>3, <1>7, <2>2, QueueFacts
    <3> QED
      BY <1>2, <2>2, <3>1, NameIsOld
  <2> QED
    BY <2>1, <2>2
<1>9. ASSUME NEW k \in Mq!Runs, NEW f \in Mq!Runs, AllKilled(f, k)
      PROVE  \A j \in f .. k - 1 : parent'[j] = "killed"
  <2>1. \A j \in f .. k - 1 : j \in Mq!Runs
    BY QueueFacts
  <2>2. \A j \in f .. k - 1 : parent[j] = "killed" /\ j # r
    BY <1>2, <1>9 DEF AllKilled
  <2> QED
    BY <1>4, <2>1, <2>2
<1>10. \A j \in mq_name' .. r - 1 : parent'[j] = "killed"
  BY <1>3, <1>8, <1>9
\* No message has run r
<1>11. ASSUME NEW m \in Messages, NEW q \in Mq!Runs \cup {0}, SentTo(m, q)
       PROVE  m.run # r /\ SentTo(m, q)'
  <2>1. m.run \in Mq!Runs /\ m.num \in Nat \ {0}
    BY DEF Messages
  <2>2. m.run # r
    BY <1>5, <1>11, <2>1 DEF SentTo
  <2> QED
    BY <1>2, <1>4, <1>11, <2>1, <2>2 DEF SentTo
<1>12. QueueTypes'
  BY <1>1, <1>2, <1>3 DEF QueueTypes, Mq!TypeOK
<1>13. TakenOnce'
  BY <1>2 DEF QueueInv, TakenOnce
<1>14. LostInv'
  <2>1. ASSUME NEW k \in Mq!Runs, Mq!KilledBefore(k) PROVE Mq!KilledBefore(k)'
    BY <1>2, <1>4, <2>1, QueueFacts DEF Mq!KilledBefore
  <2> QED
    BY <1>2, <2>1 DEF QueueInv, LostInv, QueueTypes, Messages
<1>15. ASSUME NEW k \in Mq!Runs PROVE QueuedInv(k)' /\ TakenInv(k)'
  <2>1. QueuedInv(k) /\ TakenInv(k)
    BY DEF QueueInv
  <2>2. queue[k] \in Seq(Messages) /\ taken[k] \in Seq(Messages) /\ in_fd[k] \in Mq!Runs \cup {0}
    BY <1>1 DEF QueueTypes
  <2>3. /\ \A i \in DOMAIN queue[k] : queue[k][i] \in Messages
        /\ \A i \in DOMAIN taken[k] : taken[k][i] \in Messages
    BY <2>2, ElementOfSeq, LenProperties
  <2>4. \A i \in DOMAIN queue[k] : SentTo(queue[k][i], k)'
    BY <1>2, <1>11, <2>1, <2>3 DEF QueuedInv
  <2>5. \A i \in DOMAIN taken[k] : SentTo(taken[k][i], in_fd[k])'
    BY <1>2, <1>11, <2>1, <2>2, <2>3 DEF TakenInv
  <2> QED
    BY <1>2, <2>1, <2>4, <2>5 DEF QueuedInv, TakenInv, SentTo
<1>16. mq_name' = r => queue[r] = <<>>
  <2>1. QueuedInv(r) /\ queue[r] \in Seq(Messages)
    BY <1>1 DEF QueueInv, QueueTypes
  <2>2. ASSUME queue[r] # <<>> PROVE FALSE
    <3>1. 1 \in DOMAIN queue[r] /\ queue[r][1] \in Messages
      BY <2>1, <2>2, ElementOfSeq, LenProperties, EmptySeq
    <3>2. PICK m \in Messages : SentTo(m, r)
      BY <2>1, <3>1 DEF QueuedInv
    <3>3. m.run \in Mq!Runs /\ m.run # r /\ sent[m.run] # 0 /\ out_fd[m.run] = r /\ m.num # 0
      BY <1>11, <3>2 DEF Messages, SentTo
    <3>4. m.run > r
      BY <3>3, QueueFacts DEF QueueInv, StartInv
    <3> QED
      BY <1>6, <3>3, <3>4
  <2> QED
    BY <2>2
<1>17. ASSUME NEW k \in Mq!Runs PROVE StartInv(k)'
  <2>1. StartInv(k) /\ parent[k] \in {"off", "open", "send", "ended", "killed"}
    BY <1>1 DEF QueueInv, QueueTypes, Mq!TypeOK
  <2>2. parent'[k] # "off" => \A j \in 1 .. k - 1 : Mq!Over(j)'
    <3>1. \A j \in 1 .. k - 1 : j \in Mq!Runs
      BY QueueFacts
    <3> QED
      BY <1>2, <1>4, <2>1, <3>1 DEF StartInv, Mq!Over
  <2>3. out_fd[k] \in Mq!Runs \cup {0} /\ in_fd[k] \in Mq!Runs \cup {0}
    BY <1>1 DEF QueueTypes
  <2>4. /\ out_fd[k] # 0 => \A j \in out_fd[k] .. k - 1 : parent'[j] = "killed"
        /\ in_fd[k] # 0 /\ in_fd[k] <= k => \A j \in in_fd[k] .. k - 1 : parent'[j] = "killed"
    BY <1>9, <2>1, <2>3 DEF StartInv
  <2>5. CASE k = r
    <3>1. Len(queue[r]) <= sent[r] \/ mq_name' # r
      BY <1>5, <1>16, EmptySeq
    <3>2. /\ out_fd'[r] = mq_name' /\ out_fd'[r] # 0
          /\ \A j \in out_fd'[r] .. r - 1 : parent'[j] = "killed"
      BY <1>3, <1>4, <1>10, QueueFacts
    <3> QED
      BY <1>2, <1>4, <1>5, <1>8, <2>1, <2>2, <2>4, <2>5, <3>1, <3>2
      DEF StartInv, AllKilled
  <2>6. CASE k # r
    <3>1. mq_name' = k => out_fd[k] = k
      BY <1>2, <2>1, <2>6 DEF StartInv
    <3>2. mq_name' <= k => parent[k] # "ended"
      BY <1>2, <1>3, <1>6, <2>1, <2>6, QueueFacts DEF StartInv
    <3> QED
      BY <1>2, <1>4, <2>1, <2>2, <2>4, <2>6, <3>1, <3>2 DEF StartInv, AllKilled
  <2> QED
    BY <2>5, <2>6
<1> QED
  BY <1>12, <1>13, <1>14, <1>15, <1>17 DEF QueueInv

\* A child finds the queue of the name, whoever made it.
LEMMA ReaderOpensInv == ASSUME QueueInv, NEW r \in Mq!Runs, Mq!ReaderOpens(r) PROVE QueueInv'
<1>1. QueueTypes /\ StartInv(r)
  BY DEF QueueInv
<1>2. /\ reader[r] = "open"
      /\ reader' = [reader EXCEPT ![r] = IF mq_name = 0 THEN "ended" ELSE "receive"]
      /\ in_fd' = [in_fd EXCEPT ![r] = mq_name]
      /\ UNCHANGED <<mq_name, queue, parent, out_fd, sent, lost, tries, taken>>
  BY QueueFacts DEF Mq!ReaderOpens, Mq!parentVars
<1>3. mq_name \in Mq!Runs \cup {0}
  BY <1>1, QueueFacts DEF QueueTypes, Mq!TypeOK
<1>4. taken[r] = <<>> /\ tries[r] = 0 /\ parent[r] # "off" /\ DOMAIN taken[r] = {}
  BY <1>1, <1>2, EmptySeq DEF StartInv
<1>5. /\ in_fd'[r] = mq_name /\ reader'[r] = IF mq_name = 0 THEN "ended" ELSE "receive"
      /\ \A k \in Mq!Runs \ {r} : in_fd'[k] = in_fd[k] /\ reader'[k] = reader[k]
  BY <1>1, <1>2 DEF QueueTypes, Mq!TypeOK
<1>6. QueueTypes'
  BY <1>1, <1>2, <1>3 DEF QueueTypes, Mq!TypeOK
<1>7. TakenOnce' /\ LostInv'
  BY <1>2 DEF QueueInv, TakenOnce, LostInv, Mq!KilledBefore
<1>8. ASSUME NEW k \in Mq!Runs PROVE QueuedInv(k)' /\ TakenInv(k)'
  <2>1. QueuedInv(k) /\ TakenInv(k)
    BY DEF QueueInv
  <2>2. QueuedInv(k)'
    BY <1>2, <2>1 DEF QueuedInv, SentTo
  <2>3. CASE k = r
    BY <1>2, <1>4, <2>2, <2>3 DEF TakenInv
  <2>4. CASE k # r
    BY <1>2, <1>5, <2>1, <2>2, <2>4 DEF TakenInv, SentTo
  <2> QED
    BY <2>2, <2>3, <2>4
<1>9. ASSUME NEW k \in Mq!Runs PROVE StartInv(k)'
  <2>1. StartInv(k)
    BY DEF QueueInv
  <2>2. \A f : AllKilled(f, k)' <=> AllKilled(f, k)
    BY <1>2 DEF AllKilled
  <2>3. in_fd'[k] # 0 /\ in_fd'[k] <= k => \A j \in in_fd'[k] .. k - 1 : parent[j] = "killed"
    <3>1. CASE k = r
      BY <1>4, <1>5, <3>1, NameIsOld DEF AllKilled
    <3>2. CASE k # r
      BY <1>5, <2>1, <3>2 DEF StartInv, AllKilled
    <3> QED
      BY <3>1, <3>2
  <2>4. reader'[k] = "receive" => in_fd'[k] # 0 /\ tries[k] < Receives
    BY <1>4, <1>5, <2>1, QueueFacts DEF StartInv
  <2>5. (parent[k] = "off" => reader'[k] = "off")
        /\ (reader'[k] \in {"off", "open"} => taken[k] = <<>> /\ tries[k] = 0)
    BY <1>4, <1>5, <2>1 DEF StartInv
  <2> QED
    BY <1>2, <2>1, <2>3, <2>4, <2>5 DEF StartInv, AllKilled, Mq!Over
<1> QED
  BY <1>6, <1>7, <1>8, <1>9 DEF QueueInv

\* A message that is sent is the youngest of all.
LEMMA SendInv == ASSUME QueueInv, NEW r \in Mq!Runs, Mq!TimedSend(r) PROVE QueueInv'
<1>1. QueueTypes /\ StartInv(r)
  BY DEF QueueInv
<1>2. PICK q : q = out_fd[r]
  OBVIOUS
<1>3. PICK m : m = [run |-> r, num |-> sent[r] + 1]
  OBVIOUS
<1>4. /\ parent[r] = "send" /\ sent[r] < Sends /\ sent' = [sent EXCEPT ![r] = @ + 1]
      /\ \/ /\ Len(queue[q]) < MaxMsg /\ queue' = [queue EXCEPT ![q] = Append(@, m)]
            /\ lost' = lost
         \/ /\ Len(queue[q]) = MaxMsg /\ queue' = queue /\ lost' = lost \cup {m}
      /\ UNCHANGED <<mq_name, parent, out_fd, reader, in_fd, tries, taken>>
  BY <1>2, <1>3 DEF Mq!TimedSend, Mq!readerVars
<1>5. q \in Mq!Runs /\ q <= r /\ AllKilled(q, r) /\ sent[r] \in Nat /\ r \in Nat /\ q \in Nat
  BY <1>1, <1>2, <1>4, QueueFacts DEF StartInv, QueueTypes
<1>6. m \in Messages /\ m.run = r /\ m.num = sent[r] + 1
  BY <1>3, <1>5 DEF Messages
<1>7. /\ sent'[r] = sent[r] + 1 /\ \A k \in Mq!Runs \ {r} : sent'[k] = sent[k]
      /\ \A k \in Mq!Runs : sent[k] \in Nat /\ sent[k] <= sent'[k]
  BY <1>1, <1>4 DEF QueueTypes
\* Every other message is older
<1>8. ASSUME NEW x \in Messages, NEW p \in Mq!Runs \cup {0}, SentTo(x, p)
      PROVE  Mq!Before(x, m) /\ SentTo(x, p)'
  <2>1. x.run <= r /\ x.run \in Mq!Runs /\ x.run \in Nat /\ x.num \in Nat
    BY <1>4, <1>8, OneParent, QueueFacts DEF Messages
  <2>2. x.num <= sent[x.run] /\ x.num <= sent'[x.run]
    BY <1>7, <1>8, <2>1 DEF SentTo
  <2> QED
    BY <1>4, <1>5, <1>6, <1>8, <2>1, <2>2 DEF SentTo, Mq!Before
<1>9. SentTo(m, q)'
  BY <1>2, <1>4, <1>6, <1>7, <1>5 DEF SentTo
<1>10. PICK old \in Seq(Messages) : old = queue[q]
  BY <1>1, <1>5 DEF QueueTypes
<1>11. /\ Len(old) \in Nat /\ DOMAIN old = 1 .. Len(old)
       /\ Append(old, m) \in Seq(Messages) /\ Len(Append(old, m)) = Len(old) + 1
       /\ DOMAIN Append(old, m) = 1 .. Len(old) + 1
       /\ \A i \in 1 .. Len(old) : Append(old, m)[i] = old[i] /\ old[i] \in Messages
       /\ Append(old, m)[Len(old) + 1] = m
  BY <1>6, AppendProperties, LenProperties, ElementOfSeq
<1>12. /\ \A k \in Mq!Runs \ {q} : queue'[k] = queue[k]
       /\ queue'[q] \in {old, Append(old, m)} /\ Len(queue'[q]) <= MaxMsg
       /\ queue' \in [Mq!Runs -> Seq(Messages)]
  <2>1. queue \in [Mq!Runs -> Seq(Messages)] /\ Len(old) <= MaxMsg
    BY <1>1, <1>5, <1>10 DEF QueueTypes, Mq!TypeOK
  <2>2. CASE queue' = queue
    BY <1>5, <1>10, <2>1, <2>2
  <2>3. CASE Len(old) < MaxMsg /\ queue' = [queue EXCEPT ![q] = Append(old, m)]
    <3>1. Len(old) + 1 <= MaxMsg
      BY <1>11, <2>3, QueueFacts
    <3> QED
      BY <1>5, <1>11, <2>1, <2>3, <3>1
  <2> QED
    BY <1>4, <1>10, <2>2, <2>3
<1>13. \A i \in 1 .. Len(old) + 1 : i \in 1 .. Len(old) \/ i = Len(old) + 1
  BY <1>11
<1>14. QueueTypes'
  <2>1. \A k \in Mq!Runs : sent'[k] <= Sends
    <3>1. sent[r] + 1 <= Sends
      BY <1>4, <1>5, QueueFacts
    <3>2. \A k \in Mq!Runs : sent[k] <= Sends
      BY <1>1 DEF QueueTypes, Mq!TypeOK
    <3> QED
      BY <1>7, <3>1, <3>2
  <2>2. \A k \in Mq!Runs : Len(queue'[k]) <= MaxMsg
    BY <1>1, <1>12 DEF QueueTypes, Mq!TypeOK
  <2>3. sent' \in [Mq!Runs -> Nat] /\ lost' \subseteq Messages
    BY SMTT(30), <1>1, <1>4, <1>5, <1>6 DEF QueueTypes
  <2> QED
    BY <1>1, <1>4, <1>12, <2>1, <2>2, <2>3 DEF QueueTypes, Mq!TypeOK
<1>15. TakenOnce'
  BY <1>4 DEF QueueInv, TakenOnce
<1>16. ASSUME NEW k \in Mq!Runs PROVE QueuedInv(k)'
  <2>1. QueuedInv(k) /\ queue[k] \in Seq(Messages)
    BY <1>1 DEF QueueInv, QueueTypes
  <2>2. \A i \in DOMAIN queue[k] : SentTo(queue[k][i], k) /\ queue[k][i] \in Messages
    BY <2>1, ElementOfSeq, LenProperties DEF QueuedInv
  <2>3. \A x \in Messages : SentTo(x, k) => x.num <= sent'[x.run] /\ out_fd'[x.run] = k
    BY <1>8 DEF SentTo
  <2>4. CASE queue'[k] = queue[k]
    BY <2>1, <2>2, <2>3, <2>4 DEF QueuedInv, SentTo
  <2>5. CASE queue'[k] # queue[k]
    <3>1. k = q /\ queue'[k] = Append(old, m)
      BY <1>10, <1>12, <2>5
    <3>2. \A i \in 1 .. Len(old) : SentTo(old[i], q) /\ Mq!Before(old[i], m)
      BY <1>8, <1>10, <1>11, <2>2, <3>1
    <3>3. \A i \in DOMAIN Append(old, m) :
            /\ Append(old, m)[i].num <= sent'[Append(old, m)[i].run]
            /\ out_fd'[Append(old, m)[i].run] = q
      BY <1>9, <1>11, <1>13, <2>3, <3>1, <3>2 DEF SentTo
    <3>4. \A i, j \in 1 .. Len(old) : i < j => Mq!Before(old[i], old[j])
      BY <1>10, <1>11, <2>1, <3>1 DEF QueuedInv
    <3>5. \A i, j \in DOMAIN Append(old, m) :
            i < j => Mq!Before(Append(old, m)[i], Append(old, m)[j])
      <4>1. ASSUME NEW i \in DOMAIN Append(old, m), NEW j \in DOMAIN Append(old, m), i < j
            PROVE  Mq!Before(Append(old, m)[i], Append(old, m)[j])
        <5>1. i \in 1 .. Len(old)
          BY <1>11, <4>1
        <5> QED
          BY <1>11, <1>13, <3>2, <3>4, <4>1, <5>1
      <4> QED
        BY <4>1
    <3> QED
      BY <3>1, <3>3, <3>5 DEF QueuedInv, SentTo, Mq!Before
  <2> QED
    BY <2>4, <2>5
<1>17. ASSUME NEW k \in Mq!Runs PROVE TakenInv(k)'
  <2>1. TakenInv(k) /\ taken[k] \in Seq(Messages) /\ in_fd[k] \in Mq!Runs \cup {0}
    BY <1>1 DEF QueueInv, QueueTypes
  <2>2. \A i \in DOMAIN taken[k] : SentTo(taken[k][i], in_fd[k]) /\ taken[k][i] \in Messages
    BY <2>1, ElementOfSeq, LenProperties DEF TakenInv
  <2>3. \A i \in DOMAIN taken[k] : /\ taken[k][i].num <= sent'[taken[k][i].run]
                                    /\ out_fd'[taken[k][i].run] = in_fd[k]
                                    /\ Mq!Before(taken[k][i], m)
    BY <1>8, <2>1, <2>2 DEF SentTo
  <2>4. ASSUME in_fd[k] # 0, NEW i \in DOMAIN taken[k], NEW j \in DOMAIN queue'[in_fd[k]]
        PROVE  Mq!Before(taken[k][i], queue'[in_fd[k]][j])
    <3>1. CASE queue'[in_fd[k]] = queue[in_fd[k]]
      BY <2>1, <2>4, <3>1 DEF TakenInv
    <3>2. CASE queue'[in_fd[k]] # queue[in_fd[k]]
      <4>1. in_fd[k] = q /\ queue'[q] = Append(old, m)
        BY <1>10, <1>12, <2>1, <2>4, <3>2
      <4>2. CASE j \in 1 .. Len(old)
        BY <1>10, <1>11, <2>1, <2>4, <4>1, <4>2 DEF TakenInv
      <4>3. CASE j = Len(old) + 1
        BY <1>11, <2>3, <4>1, <4>3
      <4> QED
        BY <1>11, <1>13, <2>4, <4>1, <4>2, <4>3
    <3> QED
      BY <3>1, <3>2
  <2> QED
    BY <1>4, <2>1, <2>3, <2>4 DEF TakenInv, SentTo, Mq!Before
<1>18. LostInv'
  <2>1. SUFFICES ASSUME Sends <= MaxMsg, lost' # lost PROVE Mq!KilledBefore(r)
    BY <1>4, <1>6 DEF QueueInv, LostInv, Mq!KilledBefore
  <2>2. Len(queue[q]) = MaxMsg
    BY <1>4, <2>1
  <2>3. q # r
    BY <1>1, <1>2, <1>4, <1>5, <2>1, <2>2, QueueFacts DEF StartInv
  <2>4. q \in 1 .. r - 1 /\ q \in q .. r - 1
    BY <1>5, <2>3, QueueFacts
  <2> QED
    BY <1>5, <2>4 DEF AllKilled, Mq!KilledBefore
<1>19. ASSUME NEW k \in Mq!Runs PROVE StartInv(k)'
  <2>1. StartInv(k)
    BY DEF QueueInv
  <2>2. out_fd[k] = 0 => k # r
    BY <1>2, <1>5, QueueFacts
  <2>3. parent[k] = "send" => k = r
    BY <1>4, OneParent, QueueFacts
  <2>4. parent[r] = "send" /\ out_fd[r] = r => Len(queue'[r]) <= sent'[r]
    BY <1>1, <1>2, <1>5, <1>7, <1>10, <1>11, <1>12 DEF StartInv
  <2> QED
    BY <1>4, <1>7, <2>1, <2>2, <2>3, <2>4 DEF StartInv, AllKilled, Mq!Over
<1> QED
  BY <1>14, <1>15, <1>16, <1>17, <1>18, <1>19 DEF QueueInv

\* What the end of a round does to the places of the processes.
LEMMA RoundInv ==
  ASSUME QueueInv, NEW r \in Mq!Runs, reader[r] = "receive",
         tries' = [tries EXCEPT ![r] = @ + 1],
         reader' = [reader EXCEPT ![r] = IF tries'[r] = Receives THEN "ended" ELSE @],
         UNCHANGED <<mq_name, parent, out_fd, sent, lost, in_fd>>,
         \A k \in Mq!Runs : Len(queue'[k]) <= Len(queue[k]) /\ Len(queue'[k]) \in Nat,
         \A k \in Mq!Runs : k # r => taken'[k] = taken[k]
  PROVE  /\ \A k \in Mq!Runs : StartInv(k)'
         /\ Mq!TypeOK' /\ LostInv' /\ tries' \in [Mq!Runs -> Nat]
<1>1. QueueTypes
  BY DEF QueueInv
<1>2. tries[r] \in Nat /\ tries[r] < Receives
  BY <1>1 DEF QueueInv, StartInv, QueueTypes
<1>3. /\ tries'[r] = tries[r] + 1 /\ tries'[r] <= Receives
      /\ reader'[r] \in {"receive", "ended"} /\ (reader'[r] = "receive" => tries'[r] # Receives)
      /\ \A k \in Mq!Runs \ {r} : tries'[k] = tries[k] /\ reader'[k] = reader[k]
  BY <1>1, <1>2, QueueFacts DEF QueueTypes, Mq!TypeOK
<1>4. tries' \in [Mq!Runs -> Nat]
      /\ reader' \in [Mq!Runs -> {"off", "open", "receive", "ended"}]
  BY <1>1, <1>2 DEF QueueTypes, Mq!TypeOK
<1>5. Mq!TypeOK'
  <2>1. \A k \in Mq!Runs : tries'[k] <= Receives
    BY <1>1, <1>3 DEF QueueTypes, Mq!TypeOK
  <2>2. \A k \in Mq!Runs : Len(queue'[k]) <= MaxMsg
    <3>1. \A k \in Mq!Runs : Len(queue[k]) \in Nat /\ Len(queue[k]) <= MaxMsg
      BY <1>1, LenProperties DEF QueueTypes, Mq!TypeOK
    <3> QED
      BY <3>1, QueueFacts
  <2> QED
    BY <1>1, <1>4, <2>1, <2>2 DEF QueueTypes, Mq!TypeOK
<1>6. LostInv'
  BY DEF QueueInv, LostInv, Mq!KilledBefore
<1>7. ASSUME NEW k \in Mq!Runs PROVE StartInv(k)'
  <2>1. StartInv(k) /\ StartInv(r)
    BY DEF QueueInv
  <2>2. parent[k] = "send" /\ out_fd[k] = k => Len(queue'[k]) <= sent[k]
    <3>1. Len(queue[k]) \in Nat /\ sent[k] \in Nat
      BY <1>1, LenProperties DEF QueueTypes
    <3> QED
      BY <2>1, <3>1 DEF StartInv
  <2>3. parent[k] = "off" => k # r
    BY <2>1 DEF StartInv
  <2>4. reader'[k] = "receive" => in_fd[k] # 0 /\ tries'[k] < Receives
    BY <1>2, <1>3, <2>1, QueueFacts DEF StartInv
  <2>5. reader'[k] \in {"off", "open"} => taken'[k] = <<>> /\ tries'[k] = 0
    BY <1>3, <2>1 DEF StartInv
  <2>6. parent[k] = "off" => reader'[k] = "off"
    BY <1>3, <2>1, <2>3 DEF StartInv
  <2> QED
    BY <2>1, <2>2, <2>4, <2>5, <2>6 DEF StartInv, AllKilled, Mq!Over
<1> QED
  BY <1>4, <1>5, <1>6, <1>7

\* The oldest message of a queue is the next one that is taken.
LEMMA QueueReceiveInv ==
  ASSUME QueueInv, NEW r \in Mq!Runs, Mq!TimedReceive(r)
  PROVE  QueueInv'
<1>1. QueueTypes /\ StartInv(r)
  BY DEF QueueInv
<1>2. PICK q : q = in_fd[r]
  OBVIOUS
<1>3. /\ reader[r] = "receive" /\ tries' = [tries EXCEPT ![r] = @ + 1]
      /\ reader' = [reader EXCEPT ![r] = IF tries'[r] = Receives THEN "ended" ELSE @]
      /\ \/ /\ queue[q] # <<>>
            /\ taken' = [taken EXCEPT ![r] = Append(@, Head(queue[q]))]
            /\ queue' = [queue EXCEPT ![q] = Tail(@)]
         \/ queue[q] = <<>> /\ taken' = taken /\ queue' = queue
      /\ UNCHANGED <<mq_name, parent, out_fd, sent, lost, in_fd>>
  BY <1>2 DEF Mq!TimedReceive, Mq!parentVars
<1>4. q \in Mq!Runs
  BY <1>1, <1>2, <1>3 DEF StartInv, QueueTypes
<1>5. CASE taken' = taken /\ queue' = queue
  <2>1. \A k \in Mq!Runs : Len(queue'[k]) <= Len(queue[k]) /\ Len(queue'[k]) \in Nat
    BY <1>1, <1>5, LenProperties DEF QueueTypes
  <2>2. /\ \A k \in Mq!Runs : StartInv(k)'
        /\ Mq!TypeOK' /\ LostInv' /\ tries' \in [Mq!Runs -> Nat]
    BY <1>3, <1>5, <2>1, RoundInv
  <2>3. TakenOnce'
    BY <1>5 DEF QueueInv, TakenOnce
  <2>4. ASSUME NEW k \in Mq!Runs PROVE QueuedInv(k)' /\ TakenInv(k)'
    <3>1. QueuedInv(k) /\ TakenInv(k)
      BY DEF QueueInv
    <3> QED
      BY <1>3, <1>5, <3>1 DEF QueuedInv, TakenInv, SentTo
  <2> QED
    BY <1>1, <1>3, <1>5, <2>2, <2>3, <2>4 DEF QueueInv, QueueTypes
<1>6. CASE /\ queue[q] # <<>>
           /\ taken' = [taken EXCEPT ![r] = Append(@, Head(queue[q]))]
           /\ queue' = [queue EXCEPT ![q] = Tail(@)]
  <2>1. PICK old \in Seq(Messages) : old = queue[q]
    BY <1>1, <1>4 DEF QueueTypes
  <2>2. PICK had \in Seq(Messages) : had = taken[r]
    BY <1>1 DEF QueueTypes
  <2>3. /\ Len(old) \in Nat \ {0} /\ DOMAIN old = 1 .. Len(old)
        /\ Tail(old) \in Seq(Messages) /\ Len(Tail(old)) = Len(old) - 1
        /\ DOMAIN Tail(old) = 1 .. Len(old) - 1
        /\ \A i \in 1 .. Len(old) - 1 : Tail(old)[i] = old[i + 1]
        /\ \A i \in 1 .. Len(old) : old[i] \in Messages
    <3>1. old # <<>>
      BY <1>6, <2>1
    <3> QED
      BY <3>1, HeadTailProperties, LenProperties, EmptySeq, ElementOfSeq
  <2>4. PICK m \in Messages : m = old[1] /\ m = Head(old)
    BY <2>3, HeadTailProperties, EmptySeq
  <2>5. /\ Len(had) \in Nat /\ DOMAIN had = 1 .. Len(had)
        /\ Append(had, m) \in Seq(Messages) /\ DOMAIN Append(had, m) = 1 .. Len(had) + 1
        /\ \A i \in 1 .. Len(had) : Append(had, m)[i] = had[i] /\ had[i] \in Messages
        /\ Append(had, m)[Len(had) + 1] = m
    BY AppendProperties, LenProperties, ElementOfSeq
  <2>6. \A i \in 1 .. Len(had) + 1 : i \in 1 .. Len(had) \/ i = Len(had) + 1
    BY <2>5
  <2>7. \A i \in 1 .. Len(old) - 1 : i \in 1 .. Len(old) /\ i + 1 \in 1 .. Len(old) /\ 1 < i + 1
    BY <2>3
  <2>8. /\ queue'[q] = Tail(old) /\ \A k \in Mq!Runs \ {q} : queue'[k] = queue[k]
        /\ taken'[r] = Append(had, m) /\ \A k \in Mq!Runs \ {r} : taken'[k] = taken[k]
        /\ queue' \in [Mq!Runs -> Seq(Messages)] /\ taken' \in [Mq!Runs -> Seq(Messages)]
    BY <1>1, <1>4, <1>6, <2>1, <2>2, <2>3, <2>4, <2>5 DEF QueueTypes
  <2>9. /\ \A k \in Mq!Runs : StartInv(k)'
        /\ Mq!TypeOK' /\ LostInv' /\ tries' \in [Mq!Runs -> Nat]
    <3>1. \A k \in Mq!Runs : Len(queue'[k]) <= Len(queue[k]) /\ Len(queue'[k]) \in Nat
      <4>1. \A k \in Mq!Runs : Len(queue[k]) \in Nat
        BY <1>1, LenProperties DEF QueueTypes
      <4>2. Len(queue'[q]) <= Len(queue[q]) /\ Len(queue'[q]) \in Nat
        BY <2>1, <2>3, <2>8
      <4>3. ASSUME NEW k \in Mq!Runs, k # q
            PROVE  Len(queue'[k]) <= Len(queue[k]) /\ Len(queue'[k]) \in Nat
        <5>1. queue'[k] = queue[k] /\ Len(queue[k]) \in Nat
          BY <2>8, <4>1, <4>3
        <5> QED
          BY <5>1
      <4> QED
        BY <4>2, <4>3
    <3> QED
      BY <1>3, <2>8, <3>1, RoundInv
  <2>10. /\ SentTo(m, q)
         /\ \A i \in 1 .. Len(old) : SentTo(old[i], q)
         /\ \A i, j \in 1 .. Len(old) : i < j => Mq!Before(old[i], old[j])
    <3>1. QueuedInv(q)
      BY <1>4 DEF QueueInv
    <3>2. 1 \in 1 .. Len(old)
      BY <2>3
    <3> QED
      BY <2>1, <2>3, <2>4, <3>1, <3>2 DEF QueuedInv
  <2>11. /\ \A i \in 1 .. Len(had) : SentTo(had[i], q)
         /\ \A i, j \in 1 .. Len(had) : i < j => Mq!Before(had[i], had[j])
         /\ \A i \in 1 .. Len(had), j \in 1 .. Len(old) : Mq!Before(had[i], old[j])
    <3>1. TakenInv(r) /\ q # 0
      BY <1>4, QueueFacts DEF QueueInv
    <3> QED
      BY <1>2, <2>1, <2>2, <2>3, <2>5, <3>1 DEF TakenInv
  <2>12. ASSUME NEW k \in Mq!Runs PROVE QueuedInv(k)'
    <3>1. QueuedInv(k)
      BY DEF QueueInv
    <3>2. CASE k = q
      <4>1. \A i \in DOMAIN Tail(old) : SentTo(Tail(old)[i], q)
        BY <2>3, <2>7, <2>10
      <4>2. \A i, j \in DOMAIN Tail(old) : i < j => Mq!Before(Tail(old)[i], Tail(old)[j])
        <5>1. \A i, j \in 1 .. Len(old) - 1 : i < j => i + 1 < j + 1
          BY <2>3
        <5> QED
          BY <2>3, <2>7, <2>10, <5>1
      <4> QED
        BY <1>3, <2>8, <3>2, <4>1, <4>2 DEF QueuedInv, SentTo
    <3>3. CASE k # q
      BY <1>3, <2>8, <3>1, <3>3 DEF QueuedInv, SentTo
    <3> QED
      BY <3>2, <3>3
  <2>13. ASSUME NEW k \in Mq!Runs PROVE TakenInv(k)'
    <3>1. TakenInv(k) /\ in_fd[k] \in Mq!Runs \cup {0}
      BY <1>1 DEF QueueInv, QueueTypes
    <3>2. CASE k = r
      <4>1. \A i \in DOMAIN Append(had, m) : SentTo(Append(had, m)[i], q)
        BY <2>5, <2>6, <2>10, <2>11
      <4>2. 1 \in 1 .. Len(old)
        BY <2>3
      <4>3. ASSUME NEW i \in DOMAIN Append(had, m), NEW j \in DOMAIN Append(had, m), i < j
            PROVE  Mq!Before(Append(had, m)[i], Append(had, m)[j])
        <5>1. i \in 1 .. Len(had)
          BY <2>5, <4>3
        <5> QED
          BY <2>4, <2>5, <2>6, <2>11, <4>2, <4>3, <5>1
      <4>4. \A i \in DOMAIN Append(had, m) : \A j \in DOMAIN Tail(old) :
              Mq!Before(Append(had, m)[i], Tail(old)[j])
        BY <2>3, <2>4, <2>5, <2>6, <2>7, <2>10, <2>11, <4>2
      <4> QED
        BY <1>2, <1>3, <2>8, <3>2, <4>1, <4>3, <4>4 DEF TakenInv, SentTo
    <3>3. CASE k # r
      <4>1. \A i \in DOMAIN taken[k] : SentTo(taken[k][i], in_fd[k])'
        BY <1>3, <3>1, <3>3, <2>8 DEF TakenInv, SentTo
      <4>2. ASSUME in_fd[k] # 0, NEW i \in DOMAIN taken[k], NEW j \in DOMAIN queue'[in_fd[k]]
            PROVE  Mq!Before(taken[k][i], queue'[in_fd[k]][j])
        <5>1. CASE in_fd[k] = q
          <6>1. j \in 1 .. Len(old) - 1 /\ queue'[in_fd[k]][j] = old[j + 1]
                /\ j + 1 \in 1 .. Len(old)
            BY <2>3, <2>7, <2>8, <4>2, <5>1
          <6>2. Mq!Before(taken[k][i], old[j + 1])
            BY <2>1, <2>3, <3>1, <4>2, <5>1, <6>1 DEF TakenInv
          <6> QED
            BY <6>1, <6>2
        <5>2. CASE in_fd[k] # q
          BY <2>8, <3>1, <4>2, <5>2 DEF TakenInv
        <5> QED
          BY <5>1, <5>2
      <4> QED
        BY <1>3, <2>8, <3>1, <3>3, <4>1, <4>2 DEF TakenInv, SentTo
    <3> QED
      BY <3>2, <3>3
  \* Who has taken from this queue has taken older messages, the others have those of other runs
  <2>14. ASSUME NEW k \in Mq!Runs, NEW i \in DOMAIN taken[k] PROVE taken[k][i] # m
    <3>1. TakenInv(k) /\ in_fd[k] \in Mq!Runs \cup {0} /\ 1 \in 1 .. Len(old)
      BY <1>1, <2>3 DEF QueueInv, QueueTypes
    <3>2. CASE in_fd[k] = q
      <4>1. Mq!Before(taken[k][i], m) /\ m.num \in Nat /\ m.run \in Nat
        BY <1>4, <2>1, <2>3, <2>4, <3>1, <3>2, QueueFacts DEF TakenInv, Messages
      <4> QED
        BY <4>1 DEF Mq!Before
    <3>3. CASE in_fd[k] # q
      BY <2>10, <3>1, <3>3 DEF TakenInv, SentTo
    <3> QED
      BY <3>2, <3>3
  <2>15. TakenOnce'
    <3>1. ASSUME NEW k \in Mq!Runs, NEW s \in Mq!Runs, NEW i \in DOMAIN taken'[k],
                 NEW j \in DOMAIN taken'[s], taken'[k][i] = taken'[s][j]
          PROVE  k = s /\ i = j
      <4>1. \/ i \in DOMAIN taken[k] /\ taken'[k][i] = taken[k][i]
            \/ k = r /\ i = Len(had) + 1 /\ taken'[k][i] = m
        BY <2>2, <2>5, <2>6, <2>8, <3>1
      <4>2. \/ j \in DOMAIN taken[s] /\ taken'[s][j] = taken[s][j]
            \/ s = r /\ j = Len(had) + 1 /\ taken'[s][j] = m
        BY <2>2, <2>5, <2>6, <2>8, <3>1
      <4> QED
        BY <2>14, <3>1, <4>1, <4>2 DEF QueueInv, TakenOnce
    <3> QED
      BY <3>1 DEF TakenOnce
  <2>16. QueueTypes'
    BY <1>1, <1>3, <2>8, <2>9 DEF QueueTypes
  <2> QED
    BY <2>9, <2>12, <2>13, <2>15, <2>16 DEF QueueInv
<1> QED
  BY <1>3, <1>5, <1>6

\* Every step keeps the invariant.
LEMMA QueueStep == ASSUME QueueInv, Mq!Next \/ UNCHANGED queueVars PROVE QueueInv'
<1>1. CASE UNCHANGED queueVars
  BY <1>1
  DEF queueVars, QueueInv, QueueTypes, Mq!TypeOK, StartInv, AllKilled, Mq!Over, QueuedInv,
      SentTo, TakenInv, TakenOnce, LostInv, Mq!KilledBefore
<1>2. CASE Mq!Next
  BY <1>2, ForkInv, ParentOpensInv, SendInv, ParentEndsInv, KilledInv, ReaderOpensInv,
     QueueReceiveInv
  DEF Mq!Next
<1> QED
  BY <1>1, <1>2

\* Who can have sent what a child has taken.
LEMMA QueueRight == QueueInv => Mq!DeliveredRight
<1> SUFFICES ASSUME QueueInv PROVE Mq!DeliveredRight
  OBVIOUS
<1>1. /\ Mq!TypeOK
      /\ \A r \in Mq!Runs : \A i, j \in DOMAIN taken[r] :
           i < j => Mq!Before(taken[r][i], taken[r][j])
      /\ \A r, s \in Mq!Runs : \A i \in DOMAIN taken[r], j \in DOMAIN taken[s] :
           taken[r][i] = taken[s][j] => r = s /\ i = j
      /\ Sends <= MaxMsg => \A m \in lost : Mq!KilledBefore(m.run)
  BY DEF QueueInv, QueueTypes, TakenInv, TakenOnce, LostInv
<1>2. ASSUME NEW r \in Mq!Runs, NEW i \in DOMAIN taken[r], NEW m, m = taken[r][i]
      PROVE  \/ m.run = r
             \/ m.run < r /\ parent[m.run] = "killed"
             \/ m.run > r /\ (Mq!Late(r) \/ Mq!KilledBefore(m.run))
  <2>1. QueueTypes /\ TakenInv(r) /\ StartInv(r)
    BY DEF QueueInv
  <2>2. m \in Messages /\ SentTo(m, in_fd[r])
    BY <1>2, <2>1, ElementOfSeq, LenProperties DEF QueueTypes, TakenInv
  <2>3. PICK k \in Mq!Runs : k = m.run
    BY <2>2 DEF Messages
  <2>4. sent[k] # 0 /\ out_fd[k] = in_fd[r]
    BY <2>1, <2>2, <2>3 DEF SentTo, Messages, QueueTypes
  <2>5. PICK q \in Mq!Runs : q = in_fd[r] /\ q <= k /\ AllKilled(q, k)
    BY <2>1, <2>4 DEF QueueInv, StartInv, QueueTypes
  <2>6. q \in Nat /\ k \in Nat /\ r \in Nat /\ q # 0
    BY QueueFacts
  <2>7. CASE k < r
    <3>1. k \in q .. r - 1 /\ q <= r
      BY <2>5, <2>6, <2>7
    <3> QED
      BY <2>1, <2>3, <2>5, <2>6, <2>7, <3>1 DEF StartInv, AllKilled
  <2>8. CASE k > r /\ q <= r
    <3>1. r \in q .. k - 1 /\ r \in 1 .. k - 1
      BY <2>6, <2>8, QueueFacts
    <3> QED
      BY <2>3, <2>5, <2>8, <3>1 DEF AllKilled, Mq!KilledBefore
  <2>9. CASE k > r /\ q > r
    BY <2>3, <2>5, <2>9 DEF Mq!Late
  <2> QED
    BY <2>3, <2>6, <2>7, <2>8, <2>9
<1> QED
  BY <1>1, <1>2 DEF Mq!DeliveredRight

-----------------------------------------------------------------------------
(* The pipe *)

Alphabet(n) == [i \in 1 .. n |-> i]

\* What was shown and what is on its way are the letters so far; the loop ends with the last
LetterInv ==
  /\ pipe \in Seq(Nat) /\ shown \in Seq(Nat) /\ next \in 1 .. Letters + 1
  /\ loop \in {"poll", "read", "join", "done"}
  /\ shown \o pipe = Alphabet(next - 1)
  /\ loop = "read" => pipe # <<>>
  /\ loop \in {"join", "done"} => next = Letters + 1 /\ pipe = <<>>

\* No letter has been written.
LEMMA PipeInit == Pipe!Init => LetterInv
<1> SUFFICES ASSUME Pipe!Init PROVE LetterInv
  OBVIOUS
<1>1. Letters \in Nat
  BY ProgramsAssumption DEF ProgramsAssumption, Pipe!PipeAssumption
<1>2. <<>> \o <<>> = Alphabet(0)
  BY ConcatEmptySeq, EmptySeq DEF Alphabet
<1> QED
  BY <1>1, <1>2, EmptySeq DEF Pipe!Init, LetterInv

\* The next letter comes last.
LEMMA PipeWrite == ASSUME LetterInv, Pipe!WriteLetter PROVE LetterInv'
<1>0. Letters \in Nat
  BY ProgramsAssumption DEF ProgramsAssumption, Pipe!PipeAssumption
<1>1. /\ pipe \in Seq(Nat) /\ shown \in Seq(Nat) /\ next \in 1 .. Letters
      /\ pipe' = Append(pipe, next) /\ next' = next + 1 /\ shown' = shown /\ loop' = loop
  BY <1>0 DEF LetterInv, Pipe!WriteLetter
<1>2. loop \in {"poll", "read"} /\ next \in Nat
  BY <1>0, <1>1 DEF LetterInv
<1>3. pipe' \in Seq(Nat) /\ pipe' # <<>>
  <2>1. /\ Append(pipe, next) \in Seq(Nat) /\ Len(Append(pipe, next)) = Len(pipe) + 1
        /\ Len(pipe) \in Nat
    BY ONLY <1>1, <1>2, AppendProperties, LenProperties
  <2>2. Append(pipe, next) # <<>>
    BY ONLY <2>1, EmptySeq
  <2> QED
    BY ONLY <1>1, <2>1, <2>2
<1>4. shown' \o pipe' = Append(shown \o pipe, next)
  <2>1. <<next>> \in Seq(Nat)
    BY <1>2
  <2>2. pipe' = pipe \o <<next>>
    BY <1>1, <1>2, AppendIsConcat
  <2>3. shown \o (pipe \o <<next>>) = (shown \o pipe) \o <<next>>
    BY <1>1, <2>1, ConcatAssociative
  <2>4. (shown \o pipe) \o <<next>> = Append(shown \o pipe, next)
    <3>1. shown \o pipe \in Seq(Nat)
      BY <1>1, ConcatProperties
    <3> QED
      BY <1>2, <3>1, AppendIsConcat
  <2> QED
    BY <1>1, <2>2, <2>3, <2>4
<1>5. Append(Alphabet(next - 1), next) = Alphabet(next)
  BY <1>0, <1>1 DEF Alphabet
<1> QED
  BY <1>0, <1>1, <1>2, <1>3, <1>4, <1>5 DEF LetterInv

\* A read takes from the pipe what it shows; if it begins with the last letter, it is the end.
LEMMA PipeRead == ASSUME LetterInv, Pipe!Read PROVE LetterInv'
<1> DEFINE n == IF Len(pipe) < BufLen THEN Len(pipe) ELSE BufLen
           T == SubSeq(pipe, 1, n)
           R == SubSeq(pipe, n + 1, Len(pipe))
<1>0. Letters \in Nat /\ BufLen \in Nat \ {0}
  BY ProgramsAssumption DEF ProgramsAssumption, Pipe!PipeAssumption
<1>1. /\ pipe \in Seq(Nat) /\ shown \in Seq(Nat) /\ next \in 1 .. Letters + 1
      /\ pipe # <<>> /\ shown \o pipe = Alphabet(next - 1) /\ loop = "read"
  BY <1>0 DEF LetterInv, Pipe!Read
<1>2. Len(pipe) \in Nat \ {0}
  BY <1>1, EmptySeq
<1>3. n \in 1 .. Len(pipe)
  BY <1>0, <1>2
<1>4. Pipe!Taken = T
  BY DEF Pipe!Taken
<1> HIDE DEF n
<1>5. T \in Seq(Nat) /\ Len(T) = n /\ T[1] = pipe[1]
  BY <1>1, <1>2, <1>3
<1>6. R \in Seq(Nat) /\ Len(R) = Len(pipe) - n
  BY <1>1, <1>2, <1>3
<1>7. T \o R = pipe
  <2>1. SubSeq(pipe, 1, Len(pipe)) = pipe
    BY <1>1, SubSeqFull
  <2>2. SubSeq(pipe, 1, n) \o SubSeq(pipe, n + 1, Len(pipe)) = SubSeq(pipe, 1, Len(pipe))
    BY <1>1, <1>2, <1>3, ConcatAdjacentSubSeq
  <2> QED
    BY <2>1, <2>2
<1>8. pipe' = R /\ shown' = shown \o T /\ next' = next
  BY <1>4, <1>5 DEF Pipe!Read
<1> HIDE DEF T, R
<1>9. shown' \in Seq(Nat) /\ shown' \o pipe' = Alphabet(next - 1)
  <2>1. shown \o T \in Seq(Nat)
    BY <1>1, <1>5, ConcatProperties
  <2>2. (shown \o T) \o R = shown \o (T \o R)
    <3>1. shown \in Seq(Nat) /\ T \in Seq(Nat) /\ R \in Seq(Nat)
      BY <1>1, <1>5, <1>6
    <3> QED
      BY ONLY <3>1, ConcatAssociative
  <2> QED
    BY <1>1, <1>7, <1>8, <2>1, <2>2
<1>10. loop' = IF T[1] = Letters THEN "join" ELSE "poll"
  BY <1>4 DEF Pipe!Read, Pipe!Stops
<1>11. T[1] = Letters => next = Letters + 1 /\ R = <<>>
  <2>1. Len(shown) \in Nat
    BY <1>1, LenProperties
  <2>2. /\ Len(shown \o pipe) = Len(shown) + Len(pipe)
        /\ \A i \in 1 .. Len(shown) + Len(pipe) :
             (shown \o pipe)[i] = IF i <= Len(shown) THEN shown[i] ELSE pipe[i - Len(shown)]
    BY <1>1, ConcatProperties
  <2>3. Len(shown) + 1 \in 1 .. Len(shown) + Len(pipe)
    BY <1>2, <2>1
  <2>4. (shown \o pipe)[Len(shown) + 1] = pipe[1]
    BY <2>1, <2>2, <2>3
  <2>5. next - 1 \in Nat
    BY <1>0, <1>1
  <2>6. Len(Alphabet(next - 1)) = next - 1
    BY <2>5 DEF Alphabet
  <2>7. Len(shown) + Len(pipe) = next - 1
    BY <1>1, <2>2, <2>6
  <2>8. Alphabet(next - 1)[Len(shown) + 1] = Len(shown) + 1
    BY <2>3, <2>7 DEF Alphabet
  <2>9. pipe[1] = Len(shown) + 1
    BY <1>1, <2>4, <2>8
  <2>10. T[1] = Letters => next = Letters + 1 /\ Len(pipe) = 1
    <3>1. T[1] = Len(shown) + 1 /\ next \in 1 .. Letters + 1 /\ next \in Nat
      BY <1>0, <1>1, <1>5, <2>9
    <3>2. \A l, a, m \in Nat, b \in Nat \ {0} :
            m \in 1 .. l + 1 /\ a + b = m - 1 /\ a + 1 = l => m = l + 1 /\ b = 1
      OBVIOUS
    <3> QED
      BY <1>0, <1>2, <2>1, <2>7, <3>1, <3>2
  <2>11. Len(pipe) = 1 => Len(R) = 0
    BY <1>3, <1>6
  <2> QED
    BY <1>6, <2>10, <2>11
<1> QED
  BY <1>1, <1>6, <1>8, <1>9, <1>10, <1>11 DEF LetterInv

\* Every step keeps the invariant.
LEMMA PipeStep == ASSUME LetterInv, Pipe!Next \/ UNCHANGED letterVars PROVE LetterInv'
<1>1. CASE Pipe!Poll
  BY <1>1 DEF Pipe!Poll, LetterInv
<1>2. CASE Pipe!Join
  BY <1>2 DEF Pipe!Join, LetterInv
<1>3. CASE UNCHANGED letterVars
  BY <1>3 DEF letterVars, LetterInv
<1> QED
  BY <1>1, <1>2, <1>3, PipeWrite, PipeRead DEF Pipe!Next, Pipe!Reader

\* When the loop is done, all letters were shown.
LEMMA LettersShown == LetterInv => Pipe!LettersInOrder
<1> SUFFICES ASSUME LetterInv PROVE Pipe!LettersInOrder
  OBVIOUS
<1>1. Letters \in Nat
  BY ProgramsAssumption DEF ProgramsAssumption, Pipe!PipeAssumption
<1>2. ASSUME loop = "done" PROVE Len(shown) = Letters
  <2>1. shown \in Seq(Nat) /\ pipe = <<>> /\ next - 1 = Letters
    BY <1>1, <1>2 DEF LetterInv
  <2>2. shown = Alphabet(Letters)
    BY <2>1, ConcatEmptySeq DEF LetterInv
  <2> QED
    BY <1>1, <2>2 DEF Alphabet
<1> QED
  BY <1>2 DEF LetterInv, Alphabet, Pipe!LettersInOrder

-----------------------------------------------------------------------------
(* The datagrams *)

Incoming == [from : Strangers \cup {"child"}, len : Nat]
Whole(d) == d.from = "child" => d.len = Size

\* What was looked at is still the first in the socket; the child's datagram is whole
DatagramInv ==
  /\ socket \in Seq(Incoming) /\ \A i \in DOMAIN socket : Whole(socket[i])
  /\ peer \in {"bind", "peek", "take", "received", "failed"}
  /\ peer = "take" => socket # <<>> /\ ip = Head(socket).from /\ peeked = Size
  /\ peer = "received" => data = ip /\ peeked = Size
  /\ peer = "failed" => ip \in Strangers

\* The socket is empty.
LEMMA UdpInit == Udp!Init => DatagramInv
<1>1. <<>> \in Seq(Incoming)
  BY EmptySeq
<1>2. \A i \in DOMAIN <<>> : Whole(<<>>[i])
  OBVIOUS
<1> QED
  BY <1>1, <1>2 DEF Udp!Init, DatagramInv

\* What is delivered comes last.
LEMMA UdpDelivers ==
  ASSUME DatagramInv, NEW d \in Incoming, Whole(d), Udp!Deliver(d.from, d.len),
         UNCHANGED <<peer, peeked, ip, data>>
  PROVE  DatagramInv'
<1>1. CASE socket' = socket
  BY <1>1 DEF DatagramInv
<1>2. CASE socket' = Append(socket, d)
  <2>1. /\ socket' \in Seq(Incoming)
        /\ socket # <<>> => Head(socket') = Head(socket)
        /\ socket' # <<>>
    BY <1>2 DEF DatagramInv
  <2>2. \A i \in DOMAIN socket' : Whole(socket'[i])
    BY <1>2 DEF DatagramInv
  <2> QED
    BY <2>1, <2>2 DEF DatagramInv
<1>3. d = Udp!Datagram(d.from, d.len)
  BY DEF Incoming, Udp!Datagram
<1> QED
  BY <1>1, <1>2, <1>3 DEF Udp!Deliver

\* Every step keeps the invariant.
LEMMA UdpStep == ASSUME DatagramInv, Udp!Next \/ UNCHANGED udpVars PROVE DatagramInv'
<1>0. Size \in Nat \ {0} /\ DatagramLengths \subseteq Nat /\ "child" \notin Strangers
  BY ProgramsAssumption DEF ProgramsAssumption, Udp!UdpAssumption
<1>1. CASE Udp!ChildSends
  <2>1. CASE UNCHANGED socket
    BY <1>1, <2>1 DEF Udp!ChildSends, DatagramInv
  <2>2. CASE Udp!Deliver("child", Size)
    <3> DEFINE d == [from |-> "child", len |-> Size]
    <3>1. d \in Incoming /\ Whole(d)
      BY <1>0 DEF Incoming, Whole
    <3> QED
      BY <1>1, <2>2, <3>1, UdpDelivers DEF Udp!ChildSends
  <2> QED
    BY <1>1, <2>1, <2>2 DEF Udp!ChildSends
<1>2. ASSUME NEW c \in Strangers, NEW len \in DatagramLengths, Udp!StrangerSends(c, len)
      PROVE  DatagramInv'
  <2> DEFINE d == [from |-> c, len |-> len]
  <2>1. d \in Incoming /\ Whole(d)
    BY <1>0 DEF Incoming, Whole
  <2> QED
    BY <1>2, <2>1, UdpDelivers DEF Udp!StrangerSends
<1>3. CASE Udp!Duplicate
  <2>1. socket[Len(socket)] \in Incoming /\ Whole(socket[Len(socket)])
    BY <1>3 DEF Udp!Duplicate, DatagramInv
  <2> QED
    BY <1>3, <2>1, UdpDelivers DEF Udp!Duplicate
<1>4. CASE Udp!Bind
  BY <1>4 DEF Udp!Bind, DatagramInv
<1>5. CASE Udp!Peek
  <2>1. Head(socket) \in Incoming /\ Whole(Head(socket))
    BY <1>5 DEF Udp!Peek, DatagramInv
  <2>2. /\ socket # <<>> /\ UNCHANGED socket /\ ip' = Head(socket).from
        /\ peeked' = IF Head(socket).len < Size THEN Head(socket).len ELSE Size
        /\ peer' = IF peeked' < Size THEN "failed" ELSE "take"
    BY <1>5 DEF Udp!Peek
  <2>3. peer' = "failed" => ip' \in Strangers
    BY <1>0, <2>1, <2>2 DEF Incoming, Whole
  <2>4. peer' # "failed" => peeked' = Size
    BY <1>0, <2>1, <2>2 DEF Incoming
  <2> QED
    BY <2>2, <2>3, <2>4 DEF DatagramInv
<1>6. CASE Udp!Take
  BY <1>6 DEF Udp!Take, DatagramInv
<1>7. CASE UNCHANGED udpVars
  BY <1>7 DEF udpVars, DatagramInv
<1> QED
  BY <1>1, <1>2, <1>3, <1>4, <1>5, <1>6, <1>7 DEF Udp!Next, Udp!Parent

-----------------------------------------------------------------------------
(* ScopeExit: an action has one of four fates *)

Borne(a) ==
  /\ \E o \in Scopes : Scope!Bearers(a) = {o}
  /\ runs[a] = 0 /\ a \notin fresh \cup waived

Ended(a) == Scope!Bearers(a) = {} /\ runs[a] = 1 /\ a \notin fresh \cup waived

Waived(a) == Scope!Bearers(a) = {} /\ runs[a] = 0 /\ a \in waived \ fresh

Fresh(a) == Scope!Bearers(a) = {} /\ runs[a] = 0 /\ a \in fresh \ waived

DutyInv ==
  /\ Scope!TypeOK
  /\ \A o \in alive_ : valid_[o] => on_exit_[o] \in Actions
  /\ \A a \in Actions : Fresh(a) \/ Borne(a) \/ Ended(a) \/ Waived(a)

\* The invariant holds initially.
LEMMA InitDuty == Scope!Init => DutyInv
  BY DEF Scope!Init, DutyInv, Scope!TypeOK, Fresh, Scope!Bearers

\* Every call preserves the invariant.
LEMMA NextDuty ==
  ASSUME Scope!ScopeAssumption, DutyInv, [Scope!Next]_scopeVars
  PROVE  DutyInv'
<1> USE DEF Scope!ScopeAssumption, DutyInv, Scope!TypeOK
<1>1. ASSUME NEW o \in Scopes, NEW a \in Actions, Scope!Construct(o, a) PROVE DutyInv'
  BY <1>1 DEF Scope!Construct, Fresh, Borne, Ended, Waived, Scope!Bearers
<1>2. ASSUME NEW o \in Scopes, NEW rhs \in Scopes, Scope!MoveConstruct(o, rhs) PROVE DutyInv'
  BY <1>2 DEF Scope!MoveConstruct, Fresh, Borne, Ended, Waived, Scope!Bearers
<1>3. ASSUME NEW o \in Scopes, NEW rhs \in Scopes, Scope!MoveAssign(o, rhs) PROVE DutyInv'
  BY <1>3 DEF Scope!MoveAssign, Fresh, Borne, Ended, Waived, Scope!Bearers
<1>4. ASSUME NEW o \in Scopes, Scope!Release(o) PROVE DutyInv'
  BY <1>4 DEF Scope!Release, Fresh, Borne, Ended, Waived, Scope!Bearers
<1>5. ASSUME NEW o \in Scopes, Scope!Destroy(o) PROVE DutyInv'
  BY <1>5 DEF Scope!Destroy, Fresh, Borne, Ended, Waived, Scope!Bearers
<1>6. CASE UNCHANGED scopeVars
  BY <1>6 DEF scopeVars, Fresh, Borne, Ended, Waived, Scope!Bearers
<1> QED
  BY <1>1, <1>2, <1>3, <1>4, <1>5, <1>6 DEF Scope!Next

Owns == [a \in Actions |-> Scope!Fate(a)]

\* The fate of an action, before and after a step, by the four parts of the invariant.
LEMMA FateKnown ==
  ASSUME NEW a \in Actions, NEW o \in Scopes
  PROVE  /\ Fresh(a) => Scope!Fate(a) = "fresh"
         /\ Borne(a) /\ Scope!Bearers(a) = {o} => Scope!Fate(a) = o
         /\ Ended(a) => Scope!Fate(a) = "ended"
         /\ Waived(a) => Scope!Fate(a) = "waived"
<1> DEFINE B == Scope!Bearers(a)
<1>0. Scope!Fate(a) = Scope!FateOf(a \in fresh, B, runs[a], a \in waived)
  BY DEF Scope!Fate
<1> HIDE DEF B
<1>1. Fresh(a) => Scope!Fate(a) = "fresh"
  BY <1>0 DEF Scope!FateOf, Fresh
<1>2. Borne(a) /\ B = {o} => Scope!Fate(a) = o
  BY <1>0 DEF Scope!FateOf, Borne
<1>3. Ended(a) => Scope!Fate(a) = "ended"
  BY <1>0 DEF Scope!FateOf, Ended, B
<1>4. Waived(a) => Scope!Fate(a) = "waived"
  BY <1>0 DEF Scope!FateOf, Waived, B
<1> QED
  BY <1>1, <1>2, <1>3, <1>4 DEF B

\* The same after a step.
LEMMA FateKnownNext ==
  ASSUME NEW a \in Actions, NEW o \in Scopes
  PROVE  /\ Fresh(a)' => Scope!Fate(a)' = "fresh"
         /\ Borne(a)' /\ Scope!Bearers(a)' = {o} => Scope!Fate(a)' = o
         /\ Ended(a)' => Scope!Fate(a)' = "ended"
         /\ Waived(a)' => Scope!Fate(a)' = "waived"
<1> DEFINE B == Scope!Bearers(a)'
<1>0. Scope!Fate(a)' = Scope!FateOf(a \in fresh', B, runs'[a], a \in waived')
  BY DEF Scope!Fate
<1> HIDE DEF B
<1>1. Fresh(a)' => Scope!Fate(a)' = "fresh"
  BY <1>0 DEF Scope!FateOf, Fresh
<1>2. Borne(a)' /\ B = {o} => Scope!Fate(a)' = o
  BY <1>0 DEF Scope!FateOf, Borne
<1>3. Ended(a)' => Scope!Fate(a)' = "ended"
  BY <1>0 DEF Scope!FateOf, Ended, B
<1>4. Waived(a)' => Scope!Fate(a)' = "waived"
  BY <1>0 DEF Scope!FateOf, Waived, B
<1> QED
  BY <1>1, <1>2, <1>3, <1>4 DEF B

\* An action whose bearers, count and marks stay as they are keeps its fate.
LEMMA SameFate ==
  ASSUME NEW a \in Actions, Scope!Bearers(a)' = Scope!Bearers(a), runs'[a] = runs[a],
         a \in fresh' <=> a \in fresh, a \in waived' <=> a \in waived
  PROVE  Scope!Fate(a)' = Scope!Fate(a)
  BY DEF Scope!Fate, Scope!FateOf

\* Initially every action is fresh.
LEMMA InitOwns == ASSUME Scope!ScopeAssumption, Scope!Init PROVE Scope!Duty!Init
<1>1. ASSUME NEW a \in Actions PROVE Scope!Fate(a) = "fresh"
  BY <1>1 DEF Scope!Init, Scope!Fate, Scope!FateOf
<1> QED
  BY <1>1 DEF Scope!Duty!Init

\* What an object that is valid bears, and the one fate this gives the action.
LEMMA ValidBears ==
  ASSUME DutyInv, NEW o \in alive_, valid_[o]
  PROVE  /\ on_exit_[o] \in Actions /\ Borne(on_exit_[o])
         /\ Scope!Bearers(on_exit_[o]) = {o} /\ Scope!Fate(on_exit_[o]) = o
<1>1. on_exit_[o] \in Actions /\ o \in Scope!Bearers(on_exit_[o]) /\ o \in Scopes
  BY DEF DutyInv, Scope!TypeOK, Scope!Bearers
<1>2. Borne(on_exit_[o]) /\ Scope!Bearers(on_exit_[o]) = {o}
  BY <1>1 DEF DutyInv, Fresh, Borne, Ended, Waived
<1> QED
  BY <1>1, <1>2, FateKnown

\* Every call is a step of Ownership, or changes the fate of no action.
LEMMA DutyStep ==
  ASSUME Scope!ScopeAssumption, DutyInv, DutyInv', [Scope!Next]_scopeVars
  PROVE  Scope!Duty!Next \/ UNCHANGED Owns
<1>1. ASSUME NEW o \in Scopes, NEW a \in Actions, Scope!Construct(o, a) PROVE Scope!Duty!Begin(a, o)
  <2>1. Fresh(a) /\ Scope!Fate(a) = "fresh"
    BY <1>1, FateKnown DEF Scope!Construct, DutyInv, Fresh, Borne, Ended, Waived
  <2>2. Scope!Bearers(a)' = {o} /\ runs'[a] = 0 /\ a \notin fresh' \cup waived'
    BY <1>1, <2>1 DEF Scope!Construct, DutyInv, Scope!TypeOK, Fresh, Scope!Bearers
  <2>3. Scope!Fate(a)' = o
    BY <2>2, FateKnownNext DEF Borne
  <2>4. ASSUME NEW b \in Actions, b # a PROVE Scope!Fate(b)' = Scope!Fate(b)
    BY <1>1, <2>4, SameFate DEF Scope!Construct, DutyInv, Scope!TypeOK, Scope!Bearers
  <2> QED
    BY <2>1, <2>3, <2>4 DEF Scope!Duty!Begin, Scope!Duty!Become
<1>2. ASSUME NEW o \in Scopes, NEW rhs \in Scopes, Scope!MoveConstruct(o, rhs)
      PROVE  Scope!Duty!Next \/ UNCHANGED Owns
  <2>1. CASE ~valid_[rhs]
    <3>1. ASSUME NEW b \in Actions PROVE Scope!Fate(b)' = Scope!Fate(b)
      BY <1>2, <2>1, <3>1, SameFate DEF Scope!MoveConstruct, DutyInv, Scope!TypeOK, Scope!Bearers
    <3> QED
      BY <3>1 DEF Owns
  <2>2. CASE valid_[rhs]
    <3>0. PICK a : a = on_exit_[rhs]
      OBVIOUS
    <3>1. a \in Actions /\ Scope!Bearers(a) = {rhs} /\ Borne(a) /\ Scope!Fate(a) = rhs
      BY <1>2, <3>0, <2>2, ValidBears DEF Scope!MoveConstruct
    <3>2. Scope!Bearers(a)' = {o}
      BY <1>2, <3>0, <2>2, <3>1 DEF Scope!MoveConstruct, DutyInv, Scope!TypeOK, Scope!Bearers
    <3>3. Scope!Fate(a)' = o
      BY <1>2, <3>1, <3>2, FateKnownNext DEF Scope!MoveConstruct, Borne
    <3>4. ASSUME NEW b \in Actions, b # a PROVE Scope!Fate(b)' = Scope!Fate(b)
      BY <1>2, <2>2, <3>0, <3>4, SameFate DEF Scope!MoveConstruct, DutyInv, Scope!TypeOK, Scope!Bearers
    <3>5. Scope!Duty!Transfer(a, o)
      BY <3>1, <3>3, <3>4 DEF Scope!Duty!Transfer, Scope!Duty!Owned, Scope!Duty!Become
    <3> QED
      BY <3>1, <3>5 DEF Scope!Duty!Next
  <2> QED
    BY <2>1, <2>2
<1>3. ASSUME NEW o \in Scopes, Scope!Release(o) PROVE Scope!Duty!Next \/ UNCHANGED Owns
  <2>1. CASE ~valid_[o]
    <3>1. ASSUME NEW b \in Actions PROVE Scope!Fate(b)' = Scope!Fate(b)
      BY <1>3, <2>1, <3>1, SameFate DEF Scope!Release, DutyInv, Scope!TypeOK, Scope!Bearers
    <3> QED
      BY <3>1 DEF Owns
  <2>2. CASE valid_[o]
    <3>0. PICK a : a = on_exit_[o]
      OBVIOUS
    <3>1. a \in Actions /\ Scope!Bearers(a) = {o} /\ Borne(a) /\ Scope!Fate(a) = o
      BY <1>3, <3>0, <2>2, ValidBears DEF Scope!Release
    <3>2. Scope!Bearers(a)' = {} /\ runs'[a] = 0 /\ a \in waived' \ fresh'
      BY <1>3, <3>0, <2>2, <3>1 DEF Scope!Release, DutyInv, Scope!TypeOK, Scope!Bearers, Borne
    <3>3. Scope!Fate(a)' = "waived"
      BY <3>1, <3>2, FateKnownNext DEF Waived
    <3>4. ASSUME NEW b \in Actions, b # a PROVE Scope!Fate(b)' = Scope!Fate(b)
      BY <1>3, <3>0, <2>2, <3>4, SameFate DEF Scope!Release, DutyInv, Scope!TypeOK, Scope!Bearers
    <3>5. Scope!Duty!Waive(a)
      BY <1>3, <3>1, <3>3, <3>4 DEF Scope!Duty!Waive, Scope!Duty!Owned, Scope!Duty!Become
    <3> QED
      BY <3>1, <3>5 DEF Scope!Duty!Next
  <2> QED
    BY <2>1, <2>2
<1>4. ASSUME NEW o \in Scopes, Scope!Destroy(o) PROVE Scope!Duty!Next \/ UNCHANGED Owns
  <2>1. CASE ~valid_[o]
    <3>1. ASSUME NEW b \in Actions PROVE Scope!Fate(b)' = Scope!Fate(b)
      BY <1>4, <2>1, <3>1, SameFate DEF Scope!Destroy, DutyInv, Scope!TypeOK, Scope!Bearers
    <3> QED
      BY <3>1 DEF Owns
  <2>2. CASE valid_[o]
    <3>0. PICK a : a = on_exit_[o]
      OBVIOUS
    <3>1. a \in Actions /\ Scope!Bearers(a) = {o} /\ Borne(a) /\ Scope!Fate(a) = o
      BY <1>4, <3>0, <2>2, ValidBears DEF Scope!Destroy
    <3>2. Scope!Bearers(a)' = {} /\ runs'[a] = 1 /\ a \notin fresh' \cup waived'
      BY <1>4, <3>0, <2>2, <3>1 DEF Scope!Destroy, DutyInv, Scope!TypeOK, Scope!Bearers, Borne
    <3>3. Scope!Fate(a)' = "ended"
      BY <3>1, <3>2, FateKnownNext DEF Ended
    <3>4. ASSUME NEW b \in Actions, b # a PROVE Scope!Fate(b)' = Scope!Fate(b)
      BY <1>4, <3>0, <2>2, <3>4, SameFate DEF Scope!Destroy, DutyInv, Scope!TypeOK, Scope!Bearers
    <3>5. Scope!Duty!End(a)
      BY <1>4, <3>1, <3>3, <3>4 DEF Scope!Duty!End, Scope!Duty!Owned, Scope!Duty!Become
    <3> QED
      BY <3>1, <3>5 DEF Scope!Duty!Next
  <2> QED
    BY <2>1, <2>2
<1>5. ASSUME NEW o \in Scopes, NEW rhs \in Scopes, Scope!MoveAssign(o, rhs)
      PROVE  Scope!Duty!Next \/ UNCHANGED Owns
  <2>a. PICK a : a = on_exit_[rhs]
    OBVIOUS
  <2>b. PICK b : b = on_exit_[o]
    OBVIOUS
  <2>0. \A x \in Actions : (valid_[o] => x # b) => (x \in waived' <=> x \in waived)
    BY <1>5, <2>b DEF Scope!MoveAssign, DutyInv, Scope!TypeOK
  <2>1. ASSUME NEW x \in Actions, valid_[rhs] => x # a, valid_[o] => x # b
        PROVE  Scope!Fate(x)' = Scope!Fate(x)
    <3>1. Scope!Bearers(x)' = Scope!Bearers(x)
      BY <1>5, <2>a, <2>b, <2>1 DEF Scope!MoveAssign, DutyInv, Scope!TypeOK, Scope!Bearers
    <3> QED
      BY <1>5, <2>0, <2>1, <3>1, SameFate DEF Scope!MoveAssign
  <2>2. valid_[rhs] =>
          a \in Actions /\ Scope!Bearers(a) = {rhs} /\ Borne(a) /\ Scope!Fate(a) = rhs
    BY <1>5, <2>a, <2>b, ValidBears DEF Scope!MoveAssign
  <2>3. valid_[o] =>
          b \in Actions /\ Scope!Bearers(b) = {o} /\ Borne(b) /\ Scope!Fate(b) = o
    BY <1>5, <2>a, <2>b, ValidBears DEF Scope!MoveAssign
  <2>4. ASSUME valid_[o], ~valid_[rhs] \/ a # b \/ o = rhs PROVE Scope!Fate(b)' = "waived"
    <3>1. Scope!Bearers(b)' = {} /\ runs'[b] = 0 /\ b \in waived' \ fresh'
      BY <1>5, <2>a, <2>b, <2>3, <2>4 DEF Scope!MoveAssign, DutyInv, Scope!TypeOK, Scope!Bearers, Borne
    <3> QED
      BY <2>3, <2>4, <3>1, FateKnownNext DEF Waived
  <2>5. ASSUME valid_[rhs], o # rhs PROVE Scope!Fate(a)' = o /\ (valid_[o] => a # b)
    <3>1. valid_[o] => a # b
      BY <2>2, <2>3, <2>5
    <3>2. Scope!Bearers(a)' = {o} /\ runs'[a] = 0 /\ a \notin fresh' \cup waived'
      BY <1>5, <2>a, <2>b, <2>2, <2>5, <3>1 DEF Scope!MoveAssign, DutyInv, Scope!TypeOK, Scope!Bearers, Borne
    <3> QED
      BY <2>2, <2>5, <3>1, <3>2, FateKnownNext DEF Borne
  <2>6. CASE ~valid_[o] /\ ~valid_[rhs]
    BY <2>1, <2>6 DEF Owns
  <2>7. CASE valid_[o] /\ (~valid_[rhs] \/ o = rhs)
    <3>1. Scope!Duty!Waive(b)
      BY <1>5, <2>a, <2>b, <2>1, <2>3, <2>4, <2>7 DEF Scope!Duty!Waive, Scope!Duty!Owned, Scope!Duty!Become
    <3> QED
      BY <2>3, <2>7, <3>1 DEF Scope!Duty!Next
  <2>8. CASE ~valid_[o] /\ valid_[rhs]
    <3>1. Scope!Duty!Transfer(a, o)
      BY <1>5, <2>1, <2>2, <2>5, <2>8 DEF Scope!Duty!Transfer, Scope!Duty!Owned, Scope!Duty!Become
    <3> QED
      BY <1>5, <2>2, <2>8, <3>1 DEF Scope!Duty!Next
  <2>9. CASE valid_[o] /\ valid_[rhs] /\ o # rhs
    <3>1. Scope!Duty!Replace(a, b)
      BY <1>5, <2>1, <2>2, <2>3, <2>4, <2>5, <2>9 DEF Scope!Duty!Replace, Scope!Duty!Owned
    <3> QED
      BY <2>2, <2>3, <2>9, <3>1 DEF Scope!Duty!Next
  <2> QED
    BY <2>6, <2>7, <2>8, <2>9
<1>6. CASE UNCHANGED scopeVars
  <2>1. ASSUME NEW x \in Actions PROVE Scope!Fate(x)' = Scope!Fate(x)
    BY <1>6, <2>1, SameFate DEF scopeVars, Scope!Bearers
  <2> QED
    BY <2>1 DEF Owns
<1>7. ASSUME NEW o \in Scopes, NEW a \in Actions, Scope!Construct(o, a) PROVE Scope!Duty!Next
  BY <1>1, <1>7 DEF Scope!Duty!Next
<1> QED
  BY <1>2, <1>3, <1>4, <1>5, <1>6, <1>7 DEF Scope!Next

-----------------------------------------------------------------------------
(* TcpSocket: an open descriptor has one holder, or is number 0 *)

\* A socket that holds a file
Holds(s, f) == s \in living /\ socket_fd[s] > 0 /\ table[socket_fd[s]] = f

HolderInv ==
  /\ \A s \in living : socket_fd[s] > 0 => table[socket_fd[s]] \in Socket!Files
  /\ \A s, t \in living : socket_fd[s] > 0 /\ socket_fd[s] = socket_fd[t] => s = t
  /\ \A n \in Socket!Files : table[n] # 0 => \E s \in living : socket_fd[s] = n

\* Every file is open under one number, and was made
TableInv ==
  /\ \A m, n \in Socket!Numbers : table[m] \in Socket!Files /\ table[m] = table[n] => m = n
  /\ \A n \in Socket!Numbers : table[n] <= made

PeerInv ==
  \A s \in living : socket_fd[s] > 0 /\ ~exchanged => peer_name[s] \in {0, table[socket_fd[s]]}

SocketInv == Socket!TypeOK /\ HolderInv /\ TableInv /\ PeerInv

\* The numbers are numbers.
LEMMA NumberFacts ==
  /\ MaxFiles \in Nat
  /\ Socket!Files \subseteq Nat \ {0} /\ Socket!Numbers \subseteq Nat /\ 0 \in Socket!Numbers
  /\ \A n : n \in Socket!Numbers <=> n = 0 \/ n \in Socket!Files
<1>1. MaxFiles \in Nat
  BY ProgramsAssumption DEF ProgramsAssumption, Socket!SocketAssumption
<1> QED
  BY <1>1 DEF Socket!Files, Socket!Numbers

\* No file is made.
LEMMA SocketInit == Socket!Init => SocketInv
<1> SUFFICES ASSUME Socket!Init PROVE SocketInv
  OBVIOUS
<1>1. /\ living = {} /\ made = 0 /\ exchanged = FALSE
      /\ socket_fd = [s \in Sockets |-> 0] /\ peer_name = [s \in Sockets |-> 0]
  BY DEF Socket!Init
<1>2. /\ table \in [Socket!Numbers -> {0, -1}]
      /\ \A n \in Socket!Numbers : n # 0 => table[n] = 0
  BY NumberFacts DEF Socket!Init
<1>3. Socket!TypeOK
  <2>1. /\ socket_fd \in [Sockets -> Socket!Numbers \cup {-1}]
        /\ peer_name \in [Sockets -> Socket!Files \cup {0}]
    BY <1>1, NumberFacts
  <2>2. table \in [Socket!Numbers -> Socket!Files \cup {0, -1}]
    BY <1>2
  <2>3. living \subseteq Sockets /\ exchanged \in BOOLEAN
    BY <1>1
  <2>4. made \in 0 .. MaxFiles
    BY <1>1, NumberFacts
  <2> QED
    BY <2>1, <2>2, <2>3, <2>4 DEF Socket!TypeOK
<1>4. HolderInv /\ PeerInv
  BY <1>1, <1>2, NumberFacts DEF HolderInv, PeerInv
<1>5. TableInv
  BY <1>1, <1>2, NumberFacts DEF TableInv
<1> QED
  BY <1>3, <1>4, <1>5 DEF SocketInv

\* A set of natural numbers has a least one.
LEMMA LeastNumber ==
  ASSUME NEW S \in SUBSET Nat, S # {}
  PROVE  \E n \in S : \A m \in 0 .. n - 1 : m \notin S
<1>1. PICK x \in S : \A y \in S : ~(<<y, x>> \in OpToRel(<, Nat))
  BY NatLessThanWellFounded, WFMin, Zenon
<1>2. ASSUME NEW m \in 0 .. x - 1, m \in S PROVE FALSE
  <2>1. m \in Nat /\ x \in Nat /\ m < x
    BY <1>2
  <2>2. <<m, x>> \in OpToRel(<, Nat)
    BY <2>1 DEF OpToRel
  <2> QED
    BY <1>1, <1>2, <2>2
<1> QED
  BY <1>2

\* As long as files can be made, there is a free number: there are not as many files as numbers.
LEMMA LeastIsFree ==
  ASSUME SocketInv, made < MaxFiles
  PROVE  Socket!Least \in Socket!Numbers /\ table[Socket!Least] = 0
<1> DEFINE Free == {n \in Socket!Numbers : table[n] = 0}
<1>1. Free # {}
  <2> SUFFICES ASSUME Free = {} PROVE FALSE
    OBVIOUS
  <2>1. made \in Nat /\ MaxFiles \in Nat
    BY NumberFacts DEF SocketInv, Socket!TypeOK
  <2>2. ASSUME NEW n \in 1 .. MaxFiles PROVE table[n] \in 1 .. made
    <3>1. n \in Socket!Files /\ n \in Socket!Numbers /\ n > 0 /\ table[n] # 0
      BY <2>1, NumberFacts DEF Socket!Files
    <3>2. table[n] \in Socket!Files /\ table[n] <= made
      BY <3>1 DEF SocketInv, HolderInv, TableInv
    <3> QED
      BY <2>1, <3>2 DEF Socket!Files
  <2> DEFINE F == [n \in 1 .. MaxFiles |-> table[n]]
  <2>3. F \in [1 .. MaxFiles -> 1 .. made]
    BY <2>2
  <2>4. /\ IsFiniteSet(1 .. MaxFiles) /\ Cardinality(1 .. MaxFiles) = MaxFiles
        /\ IsFiniteSet(1 .. made) /\ Cardinality(1 .. made) = made
    BY <2>1, FS_Interval
  <2>5. PICK x, y \in 1 .. MaxFiles : x # y /\ F[x] = F[y]
    <3>1. Cardinality(1 .. made) < Cardinality(1 .. MaxFiles)
      BY <2>1, <2>4
    <3> HIDE DEF F
    <3> QED
      BY ONLY <2>3, <2>4, <3>1, FS_PigeonHole, Zenon
  <2>6. x \in Socket!Numbers /\ y \in Socket!Numbers /\ table[x] \in Socket!Files
    BY <2>1, <2>2, NumberFacts DEF Socket!Files
  <2> QED
    BY <2>5, <2>6 DEF SocketInv, TableInv
<1>2. Free \in SUBSET Nat
  BY NumberFacts
<1>3. PICK n \in Free : \A m \in 0 .. n - 1 : m \notin Free
  BY <1>1, <1>2, LeastNumber
<1>4. \A m \in 0 .. n - 1 : table[m] # 0
  BY <1>3, NumberFacts DEF Socket!Numbers
<1> QED
  BY <1>3, <1>4 DEF Socket!Least

\* What the invariant says of numbers and files, for each step to use.
LEMMA SocketFacts ==
  ASSUME SocketInv
  PROVE  /\ living \subseteq Sockets /\ DOMAIN socket_fd = Sockets /\ DOMAIN peer_name = Sockets
         /\ DOMAIN table = Socket!Numbers /\ made \in Nat /\ made <= MaxFiles
         /\ \A s \in Sockets : socket_fd[s] \in Int /\ socket_fd[s] \in Socket!Numbers \cup {-1}
         /\ \A s \in Sockets : socket_fd[s] > 0 => socket_fd[s] \in Socket!Files
         /\ \A n \in Socket!Numbers : table[n] \in Int
         /\ \A n \in Socket!Numbers : table[n] \in Socket!Files <=> table[n] > 0
<1> USE NumberFacts DEF SocketInv, Socket!TypeOK
<1>0. /\ socket_fd \in [Sockets -> Socket!Numbers \cup {-1}]
      /\ table \in [Socket!Numbers -> Socket!Files \cup {0, -1}]
  OBVIOUS
<1>1. \A s \in Sockets : socket_fd[s] \in Int /\ socket_fd[s] \in Socket!Numbers \cup {-1}
  <2>1. ASSUME NEW s \in Sockets PROVE socket_fd[s] \in Socket!Numbers \cup {-1}
    BY <1>0
  <2>2. \A i \in Socket!Numbers \cup {-1} : i \in Int
    BY NumberFacts
  <2> QED
    BY <2>1, <2>2
<1>2. \A s \in Sockets : socket_fd[s] > 0 => socket_fd[s] \in Socket!Files
  BY <1>1 DEF Socket!Numbers, Socket!Files
<1>3. \A n \in Socket!Numbers : table[n] \in Int /\ (table[n] \in Socket!Files <=> table[n] > 0)
  BY <1>0 DEF Socket!Files
<1> QED
  BY <1>1, <1>2, <1>3

\* A new file gets a number that nobody has.
LEMMA NewFileInv ==
  ASSUME SocketInv, NEW s \in Sockets, NEW named, Socket!NewFile(s, named)
  PROVE  SocketInv'
<1>1. PICK n : n = Socket!Least
  OBVIOUS
<1>2. /\ s \notin living /\ made < MaxFiles
      /\ living' = living \cup {s} /\ made' = made + 1
      /\ socket_fd' = [socket_fd EXCEPT ![s] = n]
      /\ table' = [table EXCEPT ![n] = made + 1]
      /\ peer_name' = [peer_name EXCEPT ![s] = IF named THEN made + 1 ELSE 0]
      /\ exchanged' = exchanged
  BY <1>1 DEF Socket!NewFile
<1>3. n \in Socket!Numbers /\ table[n] = 0
  BY <1>1, <1>2, LeastIsFree
<1>4. made \in Nat /\ made + 1 \in Socket!Files /\ made + 1 > 0
  BY <1>2, NumberFacts, SocketFacts DEF Socket!Files
<1>5. /\ socket_fd'[s] = n /\ table'[n] = made + 1
      /\ peer_name'[s] \in {0, made + 1}
      /\ \A t \in living : /\ t # s /\ t \in Sockets
                           /\ socket_fd'[t] = socket_fd[t] /\ peer_name'[t] = peer_name[t]
      /\ \A m \in Socket!Numbers : m # n => table'[m] = table[m]
  BY <1>2, <1>3, SocketFacts
<1>6. \A t \in living : socket_fd[t] > 0 =>
        /\ socket_fd[t] \in Socket!Numbers /\ socket_fd[t] # n
        /\ table[socket_fd[t]] \in Socket!Files /\ table[socket_fd[t]] <= made
  BY <1>3, <1>5, NumberFacts, SocketFacts DEF SocketInv, HolderInv, TableInv
<1>7. Socket!TypeOK'
  <2>1. /\ socket_fd' \in [Sockets -> Socket!Numbers \cup {-1}]
        /\ peer_name' \in [Sockets -> Socket!Files \cup {0}]
    BY <1>2, <1>3, <1>4 DEF SocketInv, Socket!TypeOK
  <2>2. table' \in [Socket!Numbers -> Socket!Files \cup {0, -1}]
    BY <1>2, <1>4 DEF SocketInv, Socket!TypeOK
  <2>3. living' \subseteq Sockets /\ made' \in 0 .. MaxFiles /\ exchanged' \in BOOLEAN
    BY <1>2, <1>4, NumberFacts DEF SocketInv, Socket!TypeOK
  <2> QED
    BY <2>1, <2>2, <2>3 DEF Socket!TypeOK
<1>8. HolderInv'
  <2>1. \A t \in living' : socket_fd'[t] > 0 => table'[socket_fd'[t]] \in Socket!Files
    BY <1>2, <1>4, <1>5, <1>6
  <2>2. \A t, u \in living' : socket_fd'[t] > 0 /\ socket_fd'[t] = socket_fd'[u] => t = u
    BY <1>2, <1>5, <1>6 DEF SocketInv, HolderInv
  <2>3. ASSUME NEW m \in Socket!Files, table'[m] # 0 PROVE \E t \in living' : socket_fd'[t] = m
    BY <1>2, <1>5, <2>3, NumberFacts DEF SocketInv, HolderInv
  <2> QED
    BY <2>1, <2>2, <2>3 DEF HolderInv
<1>9. TableInv'
  <2>1. \A m \in Socket!Numbers : table[m] \in Int /\ table[m] <= made
    BY SocketFacts DEF SocketInv, TableInv
  <2> QED
    BY <1>2, <1>4, <1>5, <2>1 DEF SocketInv, TableInv
<1>10. PeerInv'
  BY <1>2, <1>5, <1>6 DEF SocketInv, PeerInv
<1> QED
  BY <1>7, <1>8, <1>9, <1>10 DEF SocketInv

\* Files that stay open under their numbers, and numbers that go from socket to socket.
LEMMA HandOverInv ==
  ASSUME SocketInv, UNCHANGED <<table, made>>, living' \subseteq Sockets,
         socket_fd' \in [Sockets -> Socket!Numbers \cup {-1}],
         peer_name' \in [Sockets -> Socket!Files \cup {0}], exchanged' \in BOOLEAN,
         \A t \in living' : socket_fd'[t] > 0 =>
           \E u \in living : /\ socket_fd'[t] = socket_fd[u]
                             /\ exchanged' \/ (peer_name'[t] = peer_name[u] /\ ~exchanged),
         \A t, u \in living' : socket_fd'[t] > 0 /\ socket_fd'[t] = socket_fd'[u] => t = u,
         \A u \in living : socket_fd[u] > 0 => \E t \in living' : socket_fd'[t] = socket_fd[u]
  PROVE  SocketInv'
<1>1. Socket!TypeOK'
  BY DEF SocketInv, Socket!TypeOK
<1>2. ASSUME NEW t \in living', socket_fd'[t] > 0 PROVE table[socket_fd'[t]] \in Socket!Files
  BY <1>2 DEF SocketInv, HolderInv
<1>3. ASSUME NEW n \in Socket!Files, table[n] # 0 PROVE \E t \in living' : socket_fd'[t] = n
  BY <1>3, NumberFacts DEF SocketInv, HolderInv
<1>4. PeerInv'
  BY DEF SocketInv, PeerInv
<1> QED
  BY <1>1, <1>2, <1>3, <1>4 DEF SocketInv, HolderInv, TableInv

\* A socket gives back what it holds, others hand over what they hold.
LEMMA GiveBackInv ==
  ASSUME SocketInv, NEW s \in living, table' = Socket!TableWithout(s), made' = made,
         living' \subseteq Sockets, exchanged' = exchanged,
         socket_fd' \in [Sockets -> Socket!Numbers \cup {-1}],
         peer_name' \in [Sockets -> Socket!Files \cup {0}],
         \A t \in living' : socket_fd'[t] > 0 =>
           \E u \in living : /\ u # s /\ socket_fd'[t] = socket_fd[u]
                             /\ peer_name'[t] = peer_name[u],
         \A t, u \in living' : socket_fd'[t] > 0 /\ socket_fd'[t] = socket_fd'[u] => t = u,
         \A u \in living : u # s /\ socket_fd[u] > 0 =>
           \E t \in living' : socket_fd'[t] = socket_fd[u]
  PROVE  SocketInv'
<1>1. CASE ~(socket_fd[s] > 0)
  <2>1. table' = table
    BY <1>1 DEF Socket!TableWithout
  <2> QED
    BY <1>1, <2>1, HandOverInv DEF SocketInv, Socket!TypeOK
<1>2. CASE socket_fd[s] > 0
  <2>0. PICK n : n = socket_fd[s]
    OBVIOUS
  <2>1. n \in Socket!Files /\ n \in Socket!Numbers /\ table' = [table EXCEPT ![n] = 0]
    BY <1>2, <2>0, SocketFacts, NumberFacts DEF Socket!TableWithout
  <2>2. table'[n] = 0 /\ \A m \in Socket!Numbers : m # n => table'[m] = table[m]
    BY <2>1, SocketFacts
  <2>3. \A u \in living : u # s /\ socket_fd[u] > 0 =>
          /\ socket_fd[u] \in Socket!Numbers /\ socket_fd[u] # n
          /\ table'[socket_fd[u]] = table[socket_fd[u]]
    BY <1>2, <2>0, <2>2, SocketFacts, NumberFacts DEF SocketInv, HolderInv
  <2>4. Socket!TypeOK'
    <3>1. table' \in [Socket!Numbers -> Socket!Files \cup {0, -1}]
      BY <2>1 DEF SocketInv, Socket!TypeOK
    <3> QED
      BY <3>1 DEF SocketInv, Socket!TypeOK
  <2>5. ASSUME NEW t \in living', socket_fd'[t] > 0 PROVE table'[socket_fd'[t]] \in Socket!Files
    BY <2>3, <2>5 DEF SocketInv, HolderInv
  <2>6. ASSUME NEW m \in Socket!Files, table'[m] # 0 PROVE \E t \in living' : socket_fd'[t] = m
    <3>1. m # n /\ m \in Socket!Numbers /\ m > 0 /\ table[m] # 0
      BY <2>2, <2>6, NumberFacts
    <3>2. PICK u \in living : socket_fd[u] = m
      BY <3>1 DEF SocketInv, HolderInv
    <3> QED
      BY <2>0, <3>1, <3>2
  <2>7. TableInv'
    <3>1. \A m \in Socket!Numbers : table'[m] = table[m] \/ (table'[m] = 0 /\ m = n)
      BY <2>2
    <3>2. 0 \notin Socket!Files /\ 0 <= made
      BY NumberFacts, SocketFacts
    <3> QED
      BY <3>1, <3>2 DEF SocketInv, TableInv
  <2>8. PeerInv'
    BY <2>3 DEF SocketInv, PeerInv
  <2> QED
    BY <2>4, <2>5, <2>6, <2>7, <2>8 DEF SocketInv, HolderInv
<1> QED
  BY <1>1, <1>2

\* close(): neither -1 nor 0 counts as a descriptor.
LEMMA CloseFacts ==
  ASSUME SocketInv, NEW s \in living
  PROVE  /\ Socket!Closed(s) \in [Sockets -> Socket!Numbers \cup {-1}]
         /\ ~(Socket!Closed(s)[s] > 0)
         /\ \A t \in Sockets : t # s => Socket!Closed(s)[t] = socket_fd[t]
  BY NumberFacts, SocketFacts DEF Socket!Closed, SocketInv, Socket!TypeOK

\* Every call preserves the invariant.
LEMMA NextSocket == SocketInv /\ [Socket!Next]_socketVars => SocketInv'
<1> SUFFICES ASSUME SocketInv, [Socket!Next]_socketVars PROVE SocketInv'
  OBVIOUS
<1>0. /\ socket_fd \in [Sockets -> Socket!Numbers \cup {-1}]
      /\ peer_name \in [Sockets -> Socket!Files \cup {0}]
      /\ exchanged \in BOOLEAN /\ 0 \in Socket!Numbers
  BY NumberFacts DEF SocketInv, Socket!TypeOK
<1>b. living \subseteq Sockets
  BY SocketFacts
<1>a. \A t, u \in living : socket_fd[t] > 0 /\ socket_fd[t] = socket_fd[u] => t = u
  BY DEF SocketInv, HolderInv
<1>1. ASSUME NEW s \in Sockets, Socket!Make(s) PROVE SocketInv'
  <2>1. CASE Socket!NewFile(s, FALSE)
    BY <2>1, NewFileInv
  <2>2. ASSUME ~Socket!NewFile(s, FALSE) PROVE SocketInv'
    <3>1. /\ s \notin living /\ living' = living \cup {s} /\ UNCHANGED <<table, made, exchanged>>
          /\ socket_fd' = [socket_fd EXCEPT ![s] = -1]
          /\ peer_name' = [peer_name EXCEPT ![s] = 0]
      BY <1>1, <2>2 DEF Socket!Make
    <3>2. /\ socket_fd' \in [Sockets -> Socket!Numbers \cup {-1}]
          /\ peer_name' \in [Sockets -> Socket!Files \cup {0}] /\ exchanged' \in BOOLEAN
      BY <1>0, <3>1
    <3> QED
      BY <1>0, <1>a, <1>b, <3>1, <3>2, HandOverInv
  <2> QED
    BY <2>1, <2>2
<1>2. ASSUME NEW s \in Sockets, NEW rhs \in Sockets, Socket!Accept(s, rhs) PROVE SocketInv'
  BY <1>1, <1>2, NewFileInv DEF Socket!Accept
<1>3. ASSUME NEW s \in Sockets, NEW rhs \in Sockets, Socket!MoveConstruct(s, rhs) PROVE SocketInv'
  <2>1. /\ s \notin living /\ rhs \in living /\ living' = living \cup {s}
        /\ socket_fd' = [socket_fd EXCEPT ![s] = socket_fd[rhs], ![rhs] = 0]
        /\ peer_name' = [peer_name EXCEPT ![s] = peer_name[rhs], ![rhs] = 0]
        /\ UNCHANGED <<table, made, exchanged>>
    BY <1>3 DEF Socket!MoveConstruct
  <2>2. /\ socket_fd' \in [Sockets -> Socket!Numbers \cup {-1}]
        /\ peer_name' \in [Sockets -> Socket!Files \cup {0}] /\ exchanged' \in BOOLEAN
    BY <1>0, <1>3, <1>b, <2>1
  <2>3. /\ socket_fd'[s] = socket_fd[rhs] /\ peer_name'[s] = peer_name[rhs] /\ socket_fd'[rhs] = 0
        /\ \A t \in living : t # rhs => /\ t # s /\ socket_fd'[t] = socket_fd[t]
                                        /\ peer_name'[t] = peer_name[t]
    BY <1>0, <1>b, <2>1, <1>3
  <2>a. s \notin living /\ rhs \in living /\ living' = living \cup {s}
    BY <2>1
  <2>4. ASSUME NEW t \in living', socket_fd'[t] > 0
        PROVE  \E u \in living : socket_fd'[t] = socket_fd[u] /\ peer_name'[t] = peer_name[u]
    <3>1. t # rhs
      BY <2>3, <2>4
    <3>2. CASE t = s
      BY <2>3, <2>a, <3>2
    <3>3. CASE t # s
      BY <2>3, <2>a, <3>1, <3>3
    <3> QED
      BY <3>2, <3>3
  <2>5. ASSUME NEW t \in living', NEW u \in living', socket_fd'[t] > 0, socket_fd'[t] = socket_fd'[u]
        PROVE  t = u
    <3>1. t # rhs /\ u # rhs
      BY <2>3, <2>5
    <3>2. CASE t # s /\ u # s
      BY <1>a, <2>3, <2>5, <2>a, <3>1, <3>2
    <3>3. CASE t = s /\ u # s
      BY <1>a, <2>3, <2>5, <2>a, <3>1, <3>3
    <3>4. CASE t # s /\ u = s
      BY <1>a, <2>3, <2>5, <2>a, <3>1, <3>4
    <3> QED
      BY <3>2, <3>3, <3>4
  <2>6. \A u \in living : socket_fd[u] > 0 => \E t \in living' : socket_fd'[t] = socket_fd[u]
    BY <2>1, <2>3
  <2>7. living' \subseteq Sockets
    BY <2>1, <1>b
  <2> QED
    BY <2>1, <2>2, <2>4, <2>5, <2>6, <2>7, HandOverInv
<1>4. ASSUME NEW s \in Sockets, Socket!Close(s) PROVE SocketInv'
  <2>1. /\ s \in living /\ socket_fd' = Socket!Closed(s) /\ table' = Socket!TableWithout(s)
        /\ UNCHANGED <<living, peer_name, made, exchanged>>
    BY <1>4 DEF Socket!Close
  <2> QED
    BY <1>0, <1>a, <1>b, <2>1, CloseFacts, GiveBackInv
<1>5. ASSUME NEW s \in Sockets, Socket!Destroy(s) PROVE SocketInv'
  <2>1. /\ s \in living /\ living' = living \ {s} /\ table' = Socket!TableWithout(s)
        /\ socket_fd' = [socket_fd EXCEPT ![s] = 0] /\ peer_name' = [peer_name EXCEPT ![s] = 0]
        /\ UNCHANGED <<made, exchanged>>
    BY <1>5 DEF Socket!Destroy
  <2>2. /\ socket_fd' \in [Sockets -> Socket!Numbers \cup {-1}]
        /\ peer_name' \in [Sockets -> Socket!Files \cup {0}]
    BY <1>0, <2>1
  <2>3. \A t \in living' : /\ t # s /\ t \in living
                           /\ socket_fd'[t] = socket_fd[t] /\ peer_name'[t] = peer_name[t]
    BY <1>0, <1>b, <2>1
  <2> QED
    BY <1>0, <1>a, <1>b, <2>1, <2>2, <2>3, GiveBackInv
<1>6. ASSUME NEW s \in Sockets, NEW rhs \in Sockets, Socket!MoveAssign(s, rhs) PROVE SocketInv'
  <2>0. PICK fds : fds = Socket!Closed(s)
    OBVIOUS
  <2>1. /\ s \in living /\ rhs \in living /\ table' = Socket!TableWithout(s)
        /\ socket_fd' = [fds EXCEPT ![s] = fds[rhs], ![rhs] = fds[s]]
        /\ peer_name' = [peer_name EXCEPT ![s] = peer_name[rhs], ![rhs] = peer_name[s]]
        /\ UNCHANGED <<living, made, exchanged>>
    BY <1>6, <2>0 DEF Socket!MoveAssign
  <2>2. /\ fds \in [Sockets -> Socket!Numbers \cup {-1}] /\ ~(fds[s] > 0)
        /\ \A t \in Sockets : t # s => fds[t] = socket_fd[t]
    BY <2>0, <2>1, CloseFacts
  <2>3. /\ socket_fd' \in [Sockets -> Socket!Numbers \cup {-1}]
        /\ peer_name' \in [Sockets -> Socket!Files \cup {0}]
    BY <1>0, <2>1, <2>2
  <2>4. /\ socket_fd'[rhs] = fds[s] /\ (s # rhs => socket_fd'[s] = socket_fd[rhs])
        /\ (s # rhs => peer_name'[s] = peer_name[rhs])
        /\ \A t \in living : t \notin {s, rhs} => /\ socket_fd'[t] = socket_fd[t]
                                                  /\ peer_name'[t] = peer_name[t]
    BY <1>0, <1>b, <2>1, <2>2
  <2>5. ASSUME NEW t \in living', socket_fd'[t] > 0
        PROVE  \E u \in living : /\ u # s /\ socket_fd'[t] = socket_fd[u]
                                 /\ peer_name'[t] = peer_name[u]
    BY <2>1, <2>2, <2>4, <2>5
  <2>6. ASSUME NEW t \in living', NEW u \in living', socket_fd'[t] > 0, socket_fd'[t] = socket_fd'[u]
        PROVE  t = u
    <3>0. s \in living /\ rhs \in living /\ living' = living
      BY <2>1
    <3>1. t # rhs /\ u # rhs
      BY <2>2, <2>4, <2>6
    <3>2. CASE t # s /\ u # s
      BY <1>a, <2>4, <2>6, <3>0, <3>1, <3>2
    <3>3. CASE t = s /\ u # s
      BY <1>a, <2>4, <2>6, <3>0, <3>1, <3>3
    <3>4. CASE t # s /\ u = s
      BY <1>a, <2>4, <2>6, <3>0, <3>1, <3>4
    <3> QED
      BY <3>2, <3>3, <3>4
  <2>7. \A u \in living : u # s /\ socket_fd[u] > 0 =>
          \E t \in living' : socket_fd'[t] = socket_fd[u]
    BY <2>1, <2>2, <2>4
  <2>8. living' \subseteq Sockets
    BY <2>1, <1>b
  <2> QED
    BY <2>1, <2>3, <2>5, <2>6, <2>7, <2>8, GiveBackInv
<1>7. ASSUME NEW s \in Sockets, NEW rhs \in Sockets, Socket!Swap(s, rhs) PROVE SocketInv'
  <2>1. /\ s \in living /\ rhs \in living /\ exchanged' = TRUE
        /\ socket_fd' = [socket_fd EXCEPT ![s] = socket_fd[rhs], ![rhs] = socket_fd[s]]
        /\ UNCHANGED <<living, peer_name, table, made>>
    BY <1>7 DEF Socket!Swap
  <2>2. socket_fd' \in [Sockets -> Socket!Numbers \cup {-1}]
    BY <1>0, <2>1
  <2>3. /\ socket_fd'[s] = socket_fd[rhs] /\ socket_fd'[rhs] = socket_fd[s]
        /\ \A t \in living : t \notin {s, rhs} => socket_fd'[t] = socket_fd[t]
    BY <1>0, <1>b, <2>1
  <2>4. \A t \in living' : \E u \in living : socket_fd'[t] = socket_fd[u]
    BY <2>1, <2>3
  <2>5. ASSUME NEW t \in living', NEW u \in living', socket_fd'[t] > 0, socket_fd'[t] = socket_fd'[u]
        PROVE  t = u
    <3>0. s \in living /\ rhs \in living /\ living' = living
      BY <2>1
    <3>1. CASE t \notin {s, rhs} /\ u \notin {s, rhs}
      BY <1>a, <2>3, <2>5, <3>0, <3>1
    <3>2. CASE t \in {s, rhs} /\ u \notin {s, rhs}
      BY <1>a, <2>3, <2>5, <3>0, <3>2
    <3>3. CASE t \notin {s, rhs} /\ u \in {s, rhs}
      BY <1>a, <2>3, <2>5, <3>0, <3>3
    <3>4. CASE t \in {s, rhs} /\ u \in {s, rhs}
      BY <1>a, <2>3, <2>5, <3>0, <3>4
    <3> QED
      BY <3>1, <3>2, <3>3, <3>4
  <2>6. \A u \in living : socket_fd[u] > 0 => \E t \in living' : socket_fd'[t] = socket_fd[u]
    BY <2>1, <2>3
  <2>7. living' \subseteq Sockets /\ peer_name' \in [Sockets -> Socket!Files \cup {0}]
    BY <1>0, <2>1, <1>b
  <2> QED
    BY <2>1, <2>2, <2>4, <2>5, <2>6, <2>7, HandOverInv
<1>8. CASE UNCHANGED socketVars
  BY <1>8 DEF socketVars, SocketInv, Socket!TypeOK, HolderInv, TableInv, PeerInv
<1> QED
  BY <1>1, <1>2, <1>3, <1>4, <1>5, <1>6, <1>7, <1>8 DEF Socket!Next

\* What the invariant says of a file's fate
FatesKnown ==
  \A f \in Socket!Files :
    /\ f > made => Socket!Fate(f) = "fresh"
    /\ table[0] = f => Socket!Fate(f) = "waived"
    /\ f <= made /\ table[0] # f /\ (\A s \in Sockets : ~Holds(s, f)) => Socket!Fate(f) = "ended"
    /\ \A s \in Sockets : Holds(s, f) => Socket!Fate(f) = s /\ f <= made /\ table[0] # f

\* The fate of a file follows from who holds it.
LEMMA SocketFates == SocketInv => FatesKnown
<1> SUFFICES ASSUME SocketInv, NEW f \in Socket!Files
    PROVE  /\ f > made => Socket!Fate(f) = "fresh"
           /\ table[0] = f => Socket!Fate(f) = "waived"
           /\ f <= made /\ table[0] # f /\ (\A s \in Sockets : ~Holds(s, f))
              => Socket!Fate(f) = "ended"
           /\ \A s \in Sockets : Holds(s, f) => Socket!Fate(f) = s /\ f <= made /\ table[0] # f
  BY DEF FatesKnown
<1>1. f \in Nat /\ made \in Nat /\ \A n \in Socket!Numbers : table[n] <= made
  BY NumberFacts, SocketFacts DEF SocketInv, TableInv
<1>2. ASSUME f > made PROVE Socket!Fate(f) = "fresh"
  BY <1>2 DEF Socket!Fate
<1>3. ASSUME f <= made PROVE ~(f > made)
  BY <1>1, <1>3
<1>4. ASSUME table[0] = f PROVE Socket!Fate(f) = "waived"
  <2>1. f <= made
    BY <1>1, <1>4, NumberFacts
  <2> QED
    BY <1>3, <1>4, <2>1 DEF Socket!Fate
<1>5. ASSUME f <= made, table[0] # f, \A s \in Sockets : ~Holds(s, f) PROVE Socket!Fate(f) = "ended"
  <2>1. ASSUME NEW n \in Socket!Numbers, table[n] = f PROVE FALSE
    <3>1. n \in Socket!Files /\ table[n] # 0
      BY <1>5, <2>1, NumberFacts
    <3>2. PICK s \in living : socket_fd[s] = n
      BY <3>1 DEF SocketInv, HolderInv
    <3> QED
      BY <1>5, <2>1, <3>1, <3>2, NumberFacts, SocketFacts DEF Holds
  <2> QED
    BY <1>3, <1>5, <2>1 DEF Socket!Fate
<1>6. ASSUME NEW s \in Sockets, Holds(s, f) PROVE Socket!Fate(f) = s /\ f <= made /\ table[0] # f
  <2>1. s \in living /\ socket_fd[s] > 0 /\ table[socket_fd[s]] = f /\ socket_fd[s] \in Socket!Numbers
    BY <1>6, NumberFacts, SocketFacts DEF Holds
  <2>2. f <= made
    BY <1>1, <2>1
  <2>3. ASSUME table[0] = f PROVE FALSE
    <3>1. \A m, n \in Socket!Numbers : table[m] \in Socket!Files /\ table[m] = table[n] => m = n
      BY DEF SocketInv, TableInv
    <3>2. socket_fd[s] = 0
      BY <2>1, <2>3, <3>1, NumberFacts
    <3> QED
      BY <2>1, <3>2
  <2>4. ASSUME NEW u \in living, socket_fd[u] > 0, table[socket_fd[u]] = f PROVE u = s
    <3>1. socket_fd[u] \in Socket!Numbers
      BY <2>4, NumberFacts, SocketFacts
    <3>2. socket_fd[u] = socket_fd[s]
      BY <2>1, <2>4, <3>1 DEF SocketInv, TableInv
    <3> QED
      BY <2>1, <2>4, <3>2 DEF SocketInv, HolderInv
  <2>5. Socket!Holders(f) = {s}
    BY <2>1, <2>4 DEF Socket!Holders
  <2>6. (CHOOSE x \in Sockets : Socket!Holders(f) = {x}) = s
    BY <2>5
  <2>7. ~(f > made) /\ ~(\A n \in Socket!Numbers : table[n] # f)
    BY <1>3, <2>1, <2>2
  <2>8. \E x \in Sockets : Socket!Holders(f) = {x}
    BY <2>5
  <2>9. Socket!Fate(f) = CHOOSE x \in Sockets : Socket!Holders(f) = {x}
    BY <2>3, <2>7, <2>8 DEF Socket!Fate
  <2> QED
    BY <2>2, <2>3, <2>6, <2>9
<1> QED
  BY <1>2, <1>4, <1>5, <1>6

\* A file that is as new, in the same number 0 and with the same holders keeps its fate.
LEMMA SameFileFate ==
  ASSUME FatesKnown, FatesKnown', made \in Nat, made' \in Nat, NEW f \in Socket!Files,
         f > made' <=> f > made, table'[0] = f <=> table[0] = f,
         \A s \in Sockets : Holds(s, f)' <=> Holds(s, f)
  PROVE  Socket!Fate(f)' = Socket!Fate(f)
<1>0. f \in Nat
  BY NumberFacts
<1>1. CASE f > made
  BY <1>1 DEF FatesKnown
<1>2. CASE table[0] = f
  BY <1>2 DEF FatesKnown
<1>3. CASE \E s \in Sockets : Holds(s, f)
  BY <1>3 DEF FatesKnown
<1>4. CASE f <= made /\ table[0] # f /\ \A s \in Sockets : ~Holds(s, f)
  <2>1. f <= made'
    BY <1>0, <1>4
  <2> QED
    BY <1>4, <2>1 DEF FatesKnown
<1> QED
  BY <1>0, <1>1, <1>2, <1>3, <1>4

FileFates == [f \in Socket!Files |-> Socket!Fate(f)]

\* Initially every file is fresh.
LEMMA InitFiles == Socket!Init => Socket!Descriptors!Init
<1> SUFFICES ASSUME Socket!Init, NEW f \in Socket!Files PROVE Socket!Fate(f) = "fresh"
  BY DEF Socket!Descriptors!Init
<1>1. f > made
  BY NumberFacts DEF Socket!Init
<1> QED
  BY <1>1, SocketInit, SocketFates DEF FatesKnown

\* A new file begins with the socket, or in number 0, which nobody closes.
LEMMA NewFileStep ==
  ASSUME SocketInv, SocketInv', FatesKnown, FatesKnown',
         NEW s \in Sockets, NEW named, Socket!NewFile(s, named)
  PROVE  Socket!Descriptors!Next
<1>1. PICK n : n = Socket!Least
  OBVIOUS
<1>2. PICK f : f = made + 1
  OBVIOUS
<1>3. /\ s \notin living /\ made < MaxFiles
      /\ living' = living \cup {s} /\ made' = f
      /\ socket_fd' = [socket_fd EXCEPT ![s] = n]
      /\ table' = [table EXCEPT ![n] = f]
  BY <1>1, <1>2 DEF Socket!NewFile
<1>4. n \in Socket!Numbers /\ table[n] = 0 /\ n \in Nat
  BY <1>1, <1>3, LeastIsFree, NumberFacts
<1>5. made \in Nat /\ made' \in Nat /\ f \in Socket!Files /\ f > made /\ ~(f > made')
  BY <1>2, <1>3, NumberFacts, SocketFacts DEF Socket!Files
<1>6. /\ socket_fd'[s] = n /\ table'[n] = f
      /\ \A t \in Sockets : t # s => socket_fd'[t] = socket_fd[t]
      /\ \A m \in Socket!Numbers : m # n => table'[m] = table[m]
  BY <1>3, <1>4, SocketFacts
<1>7. Socket!Fate(f) = "fresh"
  BY <1>5 DEF FatesKnown
<1>8. ASSUME NEW g \in Socket!Files, g # f PROVE Socket!Fate(g)' = Socket!Fate(g)
  <2>1. g > made' <=> g > made
    BY <1>2, <1>3, <1>5, <1>8, NumberFacts
  <2>2. table'[0] = g <=> table[0] = g
    BY <1>4, <1>6, <1>8, NumberFacts
  <2>3. ASSUME NEW t \in Sockets PROVE Holds(t, g)' <=> Holds(t, g)
    <3>1. CASE t = s
      BY <1>3, <1>6, <1>8, <3>1 DEF Holds
    <3>2. CASE t # s /\ t \in living
      <4>1. socket_fd[t] > 0 => socket_fd[t] # n /\ socket_fd[t] \in Socket!Numbers
        BY <1>4, <3>2, NumberFacts, SocketFacts DEF SocketInv, HolderInv
      <4> QED
        BY <1>3, <1>6, <3>2, <4>1 DEF Holds
    <3>3. CASE t # s /\ t \notin living
      BY <1>3, <3>3 DEF Holds
    <3> QED
      BY <3>1, <3>2, <3>3
  <2> QED
    BY <1>5, <1>8, <2>1, <2>2, <2>3, SameFileFate
<1>9. CASE n = 0
  <2>1. Socket!Fate(f)' = "waived"
    BY <1>5, <1>6, <1>9 DEF FatesKnown
  <2>2. Socket!Descriptors!Waive(f)
    BY <1>5, <1>7, <1>8, <2>1 DEF Socket!Descriptors!Waive, Socket!Descriptors!Become
  <2> QED
    BY <1>5, <2>2 DEF Socket!Descriptors!Next
<1>10. CASE n # 0
  <2>1. Holds(s, f)'
    BY <1>3, <1>4, <1>6, <1>10 DEF Holds
  <2>2. Socket!Fate(f)' = s
    BY <1>5, <2>1 DEF FatesKnown
  <2>3. Socket!Descriptors!Begin(f, s)
    BY <1>5, <1>7, <1>8, <2>2 DEF Socket!Descriptors!Begin, Socket!Descriptors!Become
  <2> QED
    BY <1>5, <2>3 DEF Socket!Descriptors!Next
<1> QED
  BY <1>9, <1>10

\* What a socket with a descriptor holds, and who else holds it: nobody.
LEMMA HeldFile ==
  ASSUME SocketInv, FatesKnown, NEW s \in living, socket_fd[s] > 0
  PROVE  LET f == table[socket_fd[s]] IN
         /\ f \in Socket!Files /\ Socket!Fate(f) = s /\ f <= made /\ table[0] # f
         /\ \A t \in Sockets : Holds(t, f) <=> t = s
<1>1. PICK f : f = table[socket_fd[s]]
  OBVIOUS
<1>2. f \in Socket!Files /\ s \in Sockets /\ Holds(s, f)
  BY <1>1, SocketFacts DEF SocketInv, HolderInv, Holds
<1>3. Socket!Fate(f) = s /\ f <= made /\ table[0] # f
  BY <1>2 DEF FatesKnown
<1>4. ASSUME NEW t \in Sockets, Holds(t, f) PROVE t = s
  BY <1>2, <1>3, <1>4 DEF FatesKnown
<1> QED
  BY <1>1, <1>2, <1>3, <1>4

\* Closing ends the file that the socket held, and touches no other.
LEMMA ClosedFates ==
  ASSUME SocketInv, SocketInv', FatesKnown, FatesKnown', NEW s \in living,
         table' = Socket!TableWithout(s), made' = made
  PROVE  /\ \A f \in Socket!Files : Holds(s, f) => Socket!Fate(f)' = "ended"
         /\ \A f \in Socket!Files, m \in Socket!Numbers :
              ~Holds(s, f) => (table'[m] = f <=> table[m] = f)
<1>0. PICK n : n = socket_fd[s]
  OBVIOUS
<1>1. CASE ~(n > 0)
  BY <1>0, <1>1 DEF Socket!TableWithout, Holds
<1>2. CASE n > 0
  <2>1. n \in Socket!Numbers /\ n \in Socket!Files /\ table' = [table EXCEPT ![n] = 0]
    BY <1>0, <1>2, NumberFacts, SocketFacts DEF Socket!TableWithout
  <2>2. table'[n] = 0 /\ \A m \in Socket!Numbers : m # n => table'[m] = table[m]
    BY <2>1, SocketFacts
  <2>3. ASSUME NEW f \in Socket!Files, Holds(s, f) PROVE Socket!Fate(f)' = "ended"
    <3>1. table[n] = f /\ f # 0
      BY <1>0, <2>3, NumberFacts DEF Holds
    <3>2. \A m \in Socket!Numbers : table'[m] # f
      BY <2>1, <2>2, <3>1 DEF SocketInv, TableInv
    <3>3. f <= made' /\ table'[0] # f
      <4>1. s \in Sockets /\ table'[0] # f
        BY <3>2, NumberFacts, SocketFacts
      <4>2. f <= made
        BY <2>3, <4>1 DEF FatesKnown
      <4> QED
        BY <4>1, <4>2
    <3>4. ASSUME NEW t \in Sockets, Holds(t, f)' PROVE FALSE
      <4>1. socket_fd'[t] \in Socket!Numbers /\ table'[socket_fd'[t]] = f
        <5>1. socket_fd' \in [Sockets -> Socket!Numbers \cup {-1}] /\ socket_fd'[t] > 0
          BY <3>4 DEF SocketInv, Socket!TypeOK, Holds
        <5> QED
          BY <3>4, <5>1 DEF Holds
      <4> QED
        BY <3>2, <4>1
    <3> QED
      BY <3>3, <3>4 DEF FatesKnown
  <2>4. ASSUME NEW f \in Socket!Files, NEW m \in Socket!Numbers, ~Holds(s, f)
        PROVE  table'[m] = f <=> table[m] = f
    <3>1. table[n] # f /\ f # 0
      BY <1>0, <1>2, <2>4, NumberFacts DEF Holds
    <3> QED
      BY <2>2, <3>1
  <2> QED
    BY <2>3, <2>4
<1> QED
  BY <1>1, <1>2

\* A socket that closes what it holds, while the others keep theirs, ends one file at most.
LEMMA EndStep ==
  ASSUME SocketInv, SocketInv', FatesKnown, FatesKnown', NEW s \in living,
         table' = Socket!TableWithout(s), made' = made,
         ~(s \in living' /\ socket_fd'[s] > 0),
         \A t \in Sockets \ {s} : /\ t \in living' <=> t \in living
                                  /\ socket_fd'[t] = socket_fd[t]
  PROVE  Socket!Descriptors!Next \/ UNCHANGED FileFates
<1>1. ASSUME NEW g \in Socket!Files, ~Holds(s, g) PROVE Socket!Fate(g)' = Socket!Fate(g)
  <2>1. table'[0] = g <=> table[0] = g
    BY <1>1, ClosedFates, NumberFacts
  <2>2. ASSUME NEW t \in Sockets PROVE Holds(t, g)' <=> Holds(t, g)
    <3>1. CASE t = s
      BY <1>1, <3>1 DEF Holds
    <3>2. CASE t # s
      <4>1. socket_fd[t] > 0 => (table'[socket_fd[t]] = g <=> table[socket_fd[t]] = g)
        BY <1>1, ClosedFates, NumberFacts, SocketFacts
      <4> QED
        BY <3>2, <4>1 DEF Holds
    <3> QED
      BY <3>1, <3>2
  <2> QED
    BY <1>1, <2>1, <2>2, SameFileFate, SocketFacts
<1>2. CASE \E f \in Socket!Files : Holds(s, f)
  <2>1. PICK f \in Socket!Files : Holds(s, f)
    BY <1>2
  <2>2. Socket!Fate(f) = s /\ s \in Sockets /\ Socket!Fate(f)' = "ended"
    BY <2>1, ClosedFates, SocketFacts DEF FatesKnown
  <2>3. ASSUME NEW g \in Socket!Files, g # f PROVE Socket!Fate(g)' = Socket!Fate(g)
    BY <1>1, <2>1, <2>3 DEF Holds
  <2>4. Socket!Descriptors!End(f)
    BY <2>1, <2>2, <2>3
    DEF Socket!Descriptors!End, Socket!Descriptors!Owned, Socket!Descriptors!Become
  <2> QED
    BY <2>1, <2>4 DEF Socket!Descriptors!Next
<1>3. CASE \A f \in Socket!Files : ~Holds(s, f)
  BY <1>1, <1>3 DEF FileFates
<1> QED
  BY <1>2, <1>3

\* A socket that takes over what another holds, and gives nothing for it.
LEMMA TakeStep ==
  ASSUME SocketInv, SocketInv', FatesKnown, FatesKnown', UNCHANGED <<table, made>>,
         NEW s \in Sockets, NEW rhs \in living, s # rhs, s \in living', rhs \in living',
         ~(s \in living /\ socket_fd[s] > 0), ~(socket_fd'[rhs] > 0), socket_fd'[s] = socket_fd[rhs],
         \A t \in Sockets \ {s, rhs} : /\ t \in living' <=> t \in living
                                       /\ socket_fd'[t] = socket_fd[t]
  PROVE  Socket!Descriptors!Next \/ UNCHANGED FileFates
<1>1. ASSUME NEW g \in Socket!Files, ~Holds(rhs, g) PROVE Socket!Fate(g)' = Socket!Fate(g)
  <2>1. ASSUME NEW t \in Sockets PROVE Holds(t, g)' <=> Holds(t, g)
    BY <1>1, <2>1 DEF Holds
  <2> QED
    BY <1>1, <2>1, SameFileFate, SocketFacts
<1>2. CASE \E f \in Socket!Files : Holds(rhs, f)
  <2>1. PICK f \in Socket!Files : Holds(rhs, f)
    BY <1>2
  <2>2. Holds(s, f)' /\ rhs \in Sockets
    BY <2>1, SocketFacts DEF Holds
  <2>3. Socket!Fate(f) = rhs /\ Socket!Fate(f)' = s
    BY <2>1, <2>2 DEF FatesKnown
  <2>4. ASSUME NEW g \in Socket!Files, g # f PROVE Socket!Fate(g)' = Socket!Fate(g)
    BY <1>1, <2>1, <2>4 DEF Holds
  <2>5. Socket!Descriptors!Transfer(f, s)
    BY <2>1, <2>2, <2>3, <2>4
    DEF Socket!Descriptors!Transfer, Socket!Descriptors!Owned, Socket!Descriptors!Become
  <2> QED
    BY <2>1, <2>5 DEF Socket!Descriptors!Next
<1>3. CASE \A f \in Socket!Files : ~Holds(rhs, f)
  BY <1>1, <1>3 DEF FileFates
<1> QED
  BY <1>2, <1>3

\* swap(): two sockets exchange what they hold.
LEMMA SwapStep ==
  ASSUME SocketInv, SocketInv', FatesKnown, FatesKnown',
         NEW s \in Sockets, NEW rhs \in Sockets, Socket!Swap(s, rhs)
  PROVE  Socket!Descriptors!Next \/ UNCHANGED FileFates
<1>1. /\ s \in living /\ rhs \in living /\ living' = living /\ UNCHANGED <<table, made>>
      /\ socket_fd'[s] = socket_fd[rhs] /\ socket_fd'[rhs] = socket_fd[s]
      /\ \A t \in Sockets : t \notin {s, rhs} => socket_fd'[t] = socket_fd[t]
  BY SocketFacts DEF Socket!Swap
<1>2. ASSUME NEW g \in Socket!Files, ~Holds(s, g), ~Holds(rhs, g)
      PROVE  Socket!Fate(g)' = Socket!Fate(g)
  <2>1. ASSUME NEW t \in Sockets PROVE Holds(t, g)' <=> Holds(t, g)
    BY <1>1, <1>2, <2>1 DEF Holds
  <2> QED
    BY <1>1, <1>2, <2>1, SameFileFate, SocketFacts
<1>3. \A f \in Socket!Files : /\ Holds(s, f) => Socket!Fate(f) = s /\ Socket!Fate(f)' = rhs
                              /\ Holds(rhs, f) => Socket!Fate(f) = rhs /\ Socket!Fate(f)' = s
  <2>1. \A f : (Holds(s, f) => Holds(rhs, f)') /\ (Holds(rhs, f) => Holds(s, f)')
    BY <1>1 DEF Holds
  <2> QED
    BY <2>1 DEF FatesKnown
<1>4. \A f, g : \/ Holds(s, f) /\ Holds(s, g)
                \/ Holds(rhs, f) /\ Holds(rhs, g)
                => f = g
  BY DEF Holds
<1>5. CASE /\ \E f \in Socket!Files : Holds(s, f)
           /\ \E g \in Socket!Files : Holds(rhs, g)
  <2>1. PICK f \in Socket!Files : Holds(s, f)
    BY <1>5
  <2>2. PICK g \in Socket!Files : Holds(rhs, g)
    BY <1>5
  <2>3. \A h \in Socket!Files \ {f, g} : Socket!Fate(h)' = Socket!Fate(h)
    BY <1>2, <1>4, <2>1, <2>2
  <2>4. f = g => s = rhs
    BY <1>3, <2>1, <2>2
  <2>5. Socket!Descriptors!Exchange(f, g)
    BY <1>3, <2>1, <2>2, <2>3, <2>4
    DEF Socket!Descriptors!Exchange, Socket!Descriptors!Owned
  <2> QED
    BY <2>5 DEF Socket!Descriptors!Next
<1>6. CASE /\ \E f \in Socket!Files : Holds(s, f)
           /\ \A g \in Socket!Files : ~Holds(rhs, g)
  <2>1. PICK f \in Socket!Files : Holds(s, f)
    BY <1>6
  <2>2. \A h \in Socket!Files \ {f} : Socket!Fate(h)' = Socket!Fate(h)
    BY <1>2, <1>4, <1>6, <2>1
  <2>3. Socket!Descriptors!Transfer(f, rhs)
    BY <1>3, <2>1, <2>2
    DEF Socket!Descriptors!Transfer, Socket!Descriptors!Owned, Socket!Descriptors!Become
  <2> QED
    BY <2>3 DEF Socket!Descriptors!Next
<1>7. CASE /\ \A f \in Socket!Files : ~Holds(s, f)
           /\ \E g \in Socket!Files : Holds(rhs, g)
  <2>1. PICK f \in Socket!Files : Holds(rhs, f)
    BY <1>7
  <2>2. \A h \in Socket!Files \ {f} : Socket!Fate(h)' = Socket!Fate(h)
    BY <1>2, <1>4, <1>7, <2>1
  <2>3. Socket!Descriptors!Transfer(f, s)
    BY <1>3, <2>1, <2>2
    DEF Socket!Descriptors!Transfer, Socket!Descriptors!Owned, Socket!Descriptors!Become
  <2> QED
    BY <2>3 DEF Socket!Descriptors!Next
<1>8. CASE \A f \in Socket!Files : ~Holds(s, f) /\ ~Holds(rhs, f)
  BY <1>2, <1>8 DEF FileFates
<1> QED
  BY <1>5, <1>6, <1>7, <1>8

\* operator=: the socket closes what it holds and takes over what the other holds.
LEMMA MoveAssignStep ==
  ASSUME SocketInv, SocketInv', FatesKnown, FatesKnown',
         NEW s \in Sockets, NEW rhs \in Sockets, Socket!MoveAssign(s, rhs)
  PROVE  Socket!Descriptors!Next \/ UNCHANGED FileFates
<1>0. PICK fds : fds = Socket!Closed(s)
  OBVIOUS
<1>1. /\ s \in living /\ rhs \in living /\ living' = living /\ made' = made
      /\ table' = Socket!TableWithout(s)
      /\ socket_fd' = [fds EXCEPT ![s] = fds[rhs], ![rhs] = fds[s]]
  BY <1>0 DEF Socket!MoveAssign
<1>2. /\ fds \in [Sockets -> Socket!Numbers \cup {-1}] /\ ~(fds[s] > 0)
      /\ \A t \in Sockets : t # s => fds[t] = socket_fd[t]
  BY <1>0, <1>1, CloseFacts
<1>3. /\ socket_fd'[rhs] = fds[s] /\ (s # rhs => socket_fd'[s] = socket_fd[rhs])
      /\ \A t \in Sockets : t \notin {s, rhs} => socket_fd'[t] = socket_fd[t]
  BY <1>1, <1>2
<1>4. CASE s = rhs
  BY <1>1, <1>2, <1>3, <1>4, EndStep
<1>5. CASE s # rhs
  <2>1. ASSUME NEW g \in Socket!Files, ~Holds(s, g)
        PROVE  /\ table'[0] = g <=> table[0] = g
               /\ \A t \in Sockets : socket_fd[t] > 0 =>
                    (table'[socket_fd[t]] = g <=> table[socket_fd[t]] = g)
    BY <1>1, <2>1, ClosedFates, NumberFacts, SocketFacts
  <2>2. ASSUME NEW g \in Socket!Files, ~Holds(s, g), ~Holds(rhs, g)
        PROVE  Socket!Fate(g)' = Socket!Fate(g)
    <3>1. ASSUME NEW t \in Sockets PROVE Holds(t, g)' <=> Holds(t, g)
      <4>1. CASE t = s
        BY <1>1, <1>3, <1>5, <2>1, <2>2, <4>1 DEF Holds
      <4>2. CASE t = rhs
        BY <1>2, <1>3, <2>2, <4>2 DEF Holds
      <4>3. CASE t \notin {s, rhs}
        <5>1. socket_fd[t] > 0 => (table'[socket_fd[t]] = g <=> table[socket_fd[t]] = g)
          BY <2>1, <2>2
        <5> QED
          BY <1>1, <1>3, <4>3, <5>1 DEF Holds
      <4> QED
        BY <4>1, <4>2, <4>3
    <3> QED
      BY <1>1, <2>1, <2>2, <3>1, SameFileFate, SocketFacts
  <2>3. \A f \in Socket!Files :
          Holds(s, f) => /\ Socket!Fate(f) = s /\ Socket!Fate(f)' = "ended" /\ ~Holds(rhs, f)
    BY <1>1, <1>5, ClosedFates DEF FatesKnown
  <2>4. ASSUME NEW g \in Socket!Files, Holds(rhs, g)
        PROVE  Socket!Fate(g) = rhs /\ Socket!Fate(g)' = s
    <3>1. ~Holds(s, g)
      BY <2>3, <2>4
    <3>2. Holds(s, g)'
      BY <1>1, <1>3, <1>5, <2>1, <2>4, <3>1 DEF Holds
    <3> QED
      BY <2>4, <3>2 DEF FatesKnown
  <2>5. \A f, g : \/ Holds(s, f) /\ Holds(s, g)
                  \/ Holds(rhs, f) /\ Holds(rhs, g)
                  => f = g
    BY DEF Holds
  <2>6. CASE /\ \E f \in Socket!Files : Holds(s, f)
             /\ \E g \in Socket!Files : Holds(rhs, g)
    <3>1. PICK f \in Socket!Files : Holds(s, f)
      BY <2>6
    <3>2. PICK g \in Socket!Files : Holds(rhs, g)
      BY <2>6
    <3>3. f # g /\ \A h \in Socket!Files \ {f, g} : Socket!Fate(h)' = Socket!Fate(h)
      BY <2>2, <2>3, <2>5, <3>1, <3>2
    <3>4. Socket!Descriptors!Replace(g, f)
      BY <2>3, <2>4, <3>1, <3>2, <3>3
      DEF Socket!Descriptors!Replace, Socket!Descriptors!Owned
    <3> QED
      BY <3>4 DEF Socket!Descriptors!Next
  <2>7. CASE /\ \E f \in Socket!Files : Holds(s, f)
             /\ \A g \in Socket!Files : ~Holds(rhs, g)
    <3>1. PICK f \in Socket!Files : Holds(s, f)
      BY <2>7
    <3>2. \A h \in Socket!Files \ {f} : Socket!Fate(h)' = Socket!Fate(h)
      BY <2>2, <2>5, <2>7, <3>1
    <3>3. Socket!Descriptors!End(f)
      BY <2>3, <3>1, <3>2
      DEF Socket!Descriptors!End, Socket!Descriptors!Owned, Socket!Descriptors!Become
    <3> QED
      BY <3>3 DEF Socket!Descriptors!Next
  <2>8. CASE /\ \A f \in Socket!Files : ~Holds(s, f)
             /\ \E g \in Socket!Files : Holds(rhs, g)
    <3>1. PICK g \in Socket!Files : Holds(rhs, g)
      BY <2>8
    <3>2. \A h \in Socket!Files \ {g} : Socket!Fate(h)' = Socket!Fate(h)
      BY <2>2, <2>5, <2>8, <3>1
    <3>3. Socket!Descriptors!Transfer(g, s)
      BY <2>4, <3>1, <3>2
      DEF Socket!Descriptors!Transfer, Socket!Descriptors!Owned, Socket!Descriptors!Become
    <3> QED
      BY <3>3 DEF Socket!Descriptors!Next
  <2>9. CASE \A f \in Socket!Files : ~Holds(s, f) /\ ~Holds(rhs, f)
    BY <2>2, <2>9 DEF FileFates
  <2> QED
    BY <2>6, <2>7, <2>8, <2>9
<1> QED
  BY <1>4, <1>5

\* Every call is a step of Ownership, or changes the fate of no file.
LEMMA SocketStep ==
  ASSUME SocketInv, SocketInv', FatesKnown, FatesKnown', [Socket!Next]_socketVars
  PROVE  Socket!Descriptors!Next \/ UNCHANGED FileFates
<1>0. living \subseteq Sockets /\ DOMAIN socket_fd = Sockets
  BY SocketFacts
<1>1. ASSUME NEW s \in Sockets, Socket!Make(s)
      PROVE  Socket!Descriptors!Next \/ UNCHANGED FileFates
  <2>1. CASE Socket!NewFile(s, FALSE)
    BY <2>1, NewFileStep
  <2>2. ASSUME ~Socket!NewFile(s, FALSE) PROVE UNCHANGED FileFates
    <3>1. /\ s \notin living /\ living' = living \cup {s} /\ UNCHANGED <<table, made>>
          /\ socket_fd'[s] = -1
          /\ \A t \in Sockets : t # s => socket_fd'[t] = socket_fd[t]
      BY <1>0, <1>1, <2>2 DEF Socket!Make
    <3>2. ASSUME NEW t \in Sockets, NEW g \in Socket!Files PROVE Holds(t, g)' <=> Holds(t, g)
      BY <3>1 DEF Holds
    <3>3. ASSUME NEW g \in Socket!Files PROVE Socket!Fate(g)' = Socket!Fate(g)
      BY <3>1, <3>2, SameFileFate, SocketFacts
    <3> QED
      BY <3>3 DEF FileFates
  <2> QED
    BY <2>1, <2>2
<1>2. ASSUME NEW s \in Sockets, NEW rhs \in Sockets, Socket!Accept(s, rhs)
      PROVE  Socket!Descriptors!Next \/ UNCHANGED FileFates
  BY <1>1, <1>2, NewFileStep DEF Socket!Accept
<1>3. ASSUME NEW s \in Sockets, NEW rhs \in Sockets, Socket!MoveConstruct(s, rhs)
      PROVE  Socket!Descriptors!Next \/ UNCHANGED FileFates
  <2>1. /\ s \notin living /\ rhs \in living /\ living' = living \cup {s} /\ s # rhs
        /\ UNCHANGED <<table, made>>
        /\ socket_fd'[s] = socket_fd[rhs] /\ socket_fd'[rhs] = 0
        /\ \A t \in Sockets \ {s, rhs} : socket_fd'[t] = socket_fd[t]
    BY <1>0, <1>3 DEF Socket!MoveConstruct
  <2>2. ~(socket_fd'[rhs] > 0)
    BY <2>1
  <2> QED
    BY <2>1, <2>2, TakeStep
<1>4. ASSUME NEW s \in Sockets, Socket!Close(s)
      PROVE  Socket!Descriptors!Next \/ UNCHANGED FileFates
  BY <1>4, CloseFacts, EndStep DEF Socket!Close
<1>5. ASSUME NEW s \in Sockets, Socket!Destroy(s)
      PROVE  Socket!Descriptors!Next \/ UNCHANGED FileFates
  <2>1. \A t \in Sockets \ {s} : socket_fd'[t] = socket_fd[t]
    BY <1>0, <1>5 DEF Socket!Destroy
  <2> QED
    BY <1>5, <2>1, EndStep DEF Socket!Destroy
<1>6. CASE UNCHANGED socketVars
  <2>1. ASSUME NEW g \in Socket!Files PROVE Socket!Fate(g)' = Socket!Fate(g)
    BY <1>6, <2>1, SameFileFate, SocketFacts DEF socketVars, Holds
  <2> QED
    BY <2>1 DEF FileFates
<1> QED
  BY <1>1, <1>2, <1>3, <1>4, <1>5, <1>6, MoveAssignStep, SwapStep DEF Socket!Next

-----------------------------------------------------------------------------
(* Subprocess: the numbers that pipe() gives, and the numbers that the object closes *)

\* The cardinality that the module of Subprocess speaks of is that of FiniteSets.
LEMMA SameLifeCardinality == \A S : Life!Cardinality(S) = Cardinality(S)
  BY DEF Life!Cardinality, Cardinality

\* The part of a set of numbers below all the rest of it
Lower(S, T) == S \subseteq T /\ \A n \in T \ S, l \in S : l < n

\* The least number of the rest extends such a part by one, and has just that part below it.
LEMMA LowerGrows ==
  ASSUME NEW T \in SUBSET Nat, IsFiniteSet(T), NEW S, Lower(S, T), Cardinality(S) < Cardinality(T)
  PROVE  \E m \in T : /\ Lower(S \cup {m}, T) /\ Cardinality(S \cup {m}) = Cardinality(S) + 1
                      /\ {l \in T : l < m} = S
<1>1. S \subseteq T /\ IsFiniteSet(S)
  BY FS_Subset DEF Lower
<1>2. Cardinality(S) \in Nat /\ Cardinality(T) \in Nat
  BY <1>1, FS_CardinalityType
<1>3. T \ S # {}
  <2>1. CASE T = S
    BY <1>2, <2>1
  <2>2. CASE T # S
    BY <1>1, <2>2
  <2> QED
    BY <2>1, <2>2
<1>4. PICK m \in T \ S : \A l \in 0 .. m - 1 : l \notin T \ S
  BY <1>3, LeastNumber
<1>5. \A n \in T \ S : m <= n
  BY <1>4
<1>6. \A l \in S : l < m
  BY <1>4 DEF Lower
<1>7. Lower(S \cup {m}, T)
  <2>1. ASSUME NEW n \in T \ (S \cup {m}), NEW l \in S \cup {m} PROVE l < n
    <3>1. n \in Nat /\ m \in Nat /\ m <= n /\ n # m
      BY <1>5, <2>1
    <3>2. CASE l = m
      BY <3>1, <3>2
    <3>3. CASE l \in S
      BY <2>1, <3>3 DEF Lower
    <3> QED
      BY <3>2, <3>3
  <2> QED
    BY <1>1, <1>4, <2>1 DEF Lower
<1>8. Cardinality(S \cup {m}) = Cardinality(S) + 1
  BY <1>1, <1>4, FS_AddElement
<1>9. {l \in T : l < m} = S
  <2>1. ASSUME NEW l \in T, l < m PROVE l \in S
    <3>1. l \in Nat /\ m \in Nat /\ ~(m <= l)
      BY <2>1
    <3> QED
      BY <1>5, <2>1, <3>1
  <2> QED
    BY <1>1, <1>6, <2>1
<1> QED
  BY <1>4, <1>7, <1>8, <1>9

\* There are such parts of each size that run() needs.
LEMMA LowerExists ==
  ASSUME NEW T \in SUBSET Nat, IsFiniteSet(T), NEW k \in 0 .. 4, k <= Cardinality(T)
  PROVE  \E S : Lower(S, T) /\ Cardinality(S) = k
<1>0. Cardinality(T) \in Nat
  BY FS_CardinalityType
<1>1. Lower({}, T) /\ Cardinality({}) = 0
  BY FS_EmptySet DEF Lower
<1>2. \A i \in 0 .. 3 : i + 1 <= k /\ (\E S : Lower(S, T) /\ Cardinality(S) = i)
                        => \E S : Lower(S, T) /\ Cardinality(S) = i + 1
  <2>1. ASSUME NEW i \in 0 .. 3, i + 1 <= k, NEW S, Lower(S, T), Cardinality(S) = i
        PROVE  \E U : Lower(U, T) /\ Cardinality(U) = i + 1
    <3>1. Cardinality(S) < Cardinality(T)
      BY <1>0, <2>1
    <3> QED
      BY <2>1, <3>1, LowerGrows
  <2> QED
    BY <2>1
<1>3. 1 <= k => \E S : Lower(S, T) /\ Cardinality(S) = 1
  BY <1>1, <1>2
<1>4. 2 <= k => \E S : Lower(S, T) /\ Cardinality(S) = 2
  BY <1>2, <1>3
<1>5. 3 <= k => \E S : Lower(S, T) /\ Cardinality(S) = 3
  BY <1>2, <1>4
<1>6. 4 <= k => \E S : Lower(S, T) /\ Cardinality(S) = 4
  BY <1>2, <1>5
<1>7. k = 0 \/ k = 1 \/ k = 2 \/ k = 3 \/ k = 4
  OBVIOUS
<1> QED
  BY <1>1, <1>3, <1>4, <1>5, <1>6, <1>7

NobodysIn(opened) == {n \in Life!Numbers : opened[n] = "nobody"}

\* The kernel gives out free numbers only, as long as there are enough.
LEMMA LeastFacts ==
  ASSUME NEW opened, NEW k \in 0 .. 4, Life!Free(opened) >= k
  PROVE  /\ Life!Least(opened, k) \subseteq NobodysIn(opened)
         /\ Cardinality(Life!Least(opened, k)) = k
<1>0. MaxNumber \in Nat
  BY ProgramsAssumption DEF ProgramsAssumption, Life!LifeAssumption
<1>1. NobodysIn(opened) \in SUBSET Nat /\ IsFiniteSet(NobodysIn(opened))
  <2>1. IsFiniteSet(Life!Numbers)
    BY <1>0, FS_Interval DEF Life!Numbers
  <2>2. NobodysIn(opened) \subseteq Life!Numbers
    BY DEF NobodysIn
  <2>3. IsFiniteSet(NobodysIn(opened))
    BY <2>1, <2>2, FS_Subset
  <2> QED
    BY <2>2, <2>3 DEF Life!Numbers
<1>2. k <= Cardinality(NobodysIn(opened))
  <2>1. Cardinality(NobodysIn(opened)) \in Nat
    BY <1>1, FS_CardinalityType
  <2>2. Life!Free(opened) = Cardinality(NobodysIn(opened))
    BY SameLifeCardinality DEF Life!Free, NobodysIn
  <2> QED
    BY <2>1, <2>2
<1>3. PICK S : Lower(S, NobodysIn(opened)) /\ Cardinality(S) = k
  BY <1>1, <1>2, LowerExists
<1> DEFINE P(U) == /\ Cardinality(U) = k
                   /\ \A n \in Life!Numbers :
                        opened[n] = "nobody" /\ n \notin U => \A l \in U : l < n
<1>4. S \in SUBSET NobodysIn(opened) /\ P(S)
  BY <1>3 DEF Lower, NobodysIn
<1>5. Life!Least(opened, k) = CHOOSE U \in SUBSET NobodysIn(opened) : P(U)
  BY SameLifeCardinality DEF Life!Least, NobodysIn
<1>6. P(Life!Least(opened, k)) /\ Life!Least(opened, k) \in SUBSET NobodysIn(opened)
  <2> HIDE DEF P
  <2> QED
    BY <1>4, <1>5
<1> QED
  BY <1>6

\* The ends of the pipes are among the numbers given out, or 0 where there is no pipe.
LEMMA NumberedFacts ==
  ASSUME NEW S \in SUBSET Life!Numbers, IsFiniteSet(S)
  PROVE  /\ Life!Numbered(S) \in [Life!Ends -> Life!Numbers]
         /\ \A e \in Life!Ends : Life!Numbered(S)[e] \in S \cup {0}
<1>0. MaxNumber \in Nat /\ 0 \in Life!Numbers /\ S \in SUBSET Nat
  BY ProgramsAssumption DEF ProgramsAssumption, Life!LifeAssumption, Life!Numbers
<1>1. Cardinality(S) \in Nat
  BY FS_CardinalityType
<1>2. ASSUME NEW e \in Life!Ends, ~(e >= Cardinality(S))
      PROVE  \E n \in S : Cardinality({l \in S : l < n}) = e
  <2>1. e \in 0 .. 4 /\ e < Cardinality(S) /\ e <= Cardinality(S)
    BY <1>1, <1>2 DEF Life!Ends
  <2>2. PICK U : Lower(U, S) /\ Cardinality(U) = e
    BY <1>0, <2>1, LowerExists
  <2>3. PICK m \in S : {l \in S : l < m} = U
    BY <1>0, <2>1, <2>2, LowerGrows
  <2> QED
    BY <2>2, <2>3
<1>3. ASSUME NEW e \in Life!Ends PROVE Life!Numbered(S)[e] \in S \cup {0}
  <2>1. CASE e >= Cardinality(S)
    BY <2>1 DEF Life!Numbered
  <2>2. CASE ~(e >= Cardinality(S))
    <3> DEFINE P(n) == Life!Cardinality({l \in S : l < n}) = e
    <3>1. Life!Numbered(S)[e] = IF e >= Life!Cardinality(S) THEN 0 ELSE CHOOSE n \in S : P(n)
      BY DEF Life!Numbered
    <3>2. (\E n \in S : P(n)) /\ Life!Cardinality(S) = Cardinality(S)
      BY <1>2, <2>2, SameLifeCardinality
    <3> HIDE DEF P
    <3> QED
      BY <2>2, <3>1, <3>2
  <2> QED
    BY <2>1, <2>2
<1>4. Life!Numbered(S) = [e \in Life!Ends |-> Life!Numbered(S)[e]]
  BY DEF Life!Numbered
<1> QED
  BY <1>0, <1>3, <1>4

\* The ends that fresh pipes get are free numbers, or 0.
LEMMA FreshEnds ==
  ASSUME NEW opened, NEW k \in 0 .. 4, Life!Free(opened) >= k
  PROVE  LET ends == Life!Numbered(Life!Least(opened, k)) IN
         /\ ends \in [Life!Ends -> Life!Numbers]
         /\ \A e \in Life!Ends : ends[e] = 0 \/ opened[ends[e]] = "nobody"
<1>1. PICK S : S = Life!Least(opened, k)
  OBVIOUS
<1>2. S \in SUBSET Life!Numbers /\ \A n \in S : opened[n] = "nobody"
  BY <1>1, LeastFacts DEF NobodysIn
<1>3. IsFiniteSet(S)
  <2>1. IsFiniteSet(Life!Numbers)
    BY ProgramsAssumption, FS_Interval DEF ProgramsAssumption, Life!LifeAssumption, Life!Numbers
  <2> QED
    BY <1>2, <2>1, FS_Subset
<1> QED
  BY <1>1, <1>2, <1>3, NumberedFacts

Own == {n \in Life!Numbers : owner[n] = "object"}

\* The two ends of the parent are the object's, or there are none
EndsHeld == owner[io_[Life!ParentOut]] = "object" /\ owner[io_[Life!ChildIn]] = "object"

LifeInv ==
  /\ Life!TypeOK
  /\ Own \subseteq {io_[Life!ParentOut], io_[Life!ChildIn]}
  /\ alive => EndsHeld \/ (io_ = Life!NoEnds /\ ~pid_)
  /\ ~alive => Own = {}

\* The program has its standard input, and there is no object.
LEMMA LifeInit == Life!Init => LifeInv
<1> SUFFICES ASSUME Life!Init PROVE LifeInv
  OBVIOUS
<1>1. 0 \in Life!Numbers
  BY ProgramsAssumption DEF ProgramsAssumption, Life!LifeAssumption, Life!Numbers
<1>2. /\ owner \in [Life!Numbers -> {"nobody", "program"}]
      /\ io_ \in [Life!Ends -> Life!Numbers]
      /\ alive = FALSE /\ pid_ = FALSE /\ hit = {}
  BY <1>1 DEF Life!Init, Life!NoEnds
<1>3. Own = {}
  BY <1>2 DEF Own
<1> QED
  BY <1>2, <1>3 DEF LifeInv, Life!TypeOK

\* After the four numbers of before are closed the object has none.
LEMMA AllClosed ==
  ASSUME LifeInv, NEW opened, opened = Life!Closed(owner, Life!NumbersOf(io_))
  PROVE  /\ opened \in [Life!Numbers -> {"nobody", "program"}]
         /\ \A n \in Life!Numbers : opened[n] \in {owner[n], "nobody"}
         /\ \A n \in Life!Numbers : opened[n] = "nobody" =>
              owner[n] = "nobody" \/ n \in Life!NumbersOf(io_)
<1>1. io_[Life!ParentOut] \in Life!NumbersOf(io_) /\ io_[Life!ChildIn] \in Life!NumbersOf(io_)
  BY DEF Life!NumbersOf, Life!Ends, Life!ParentOut, Life!ChildIn
<1>2. \A n \in Life!Numbers : owner[n] = "object" => n \in Life!NumbersOf(io_)
  BY <1>1 DEF LifeInv, Own
<1> QED
  BY <1>2 DEF LifeInv, Life!TypeOK, Life!Closed

\* What the object takes from the program is number 0, or one of the two ends that run() closed.
LEMMA LostFacts ==
  ASSUME LifeInv, alive, NEW S,
         \A n \in S : n = 0 \/ owner[n] = "nobody" \/ n \in Life!NumbersOf(io_)
  PROVE  Life!Lost(S) \subseteq {0, io_[Life!ParentIn], io_[Life!ChildOut]}
<1> SUFFICES ASSUME NEW n \in S, owner[n] = "program"
             PROVE  n \in {0, io_[Life!ParentIn], io_[Life!ChildOut]}
  BY DEF Life!Lost
<1>1. n = 0 \/ n \in Life!NumbersOf(io_)
  OBVIOUS
<1>2. CASE n \in Life!NumbersOf(io_)
  <2>1. PICK e \in Life!Ends : n = io_[e]
    BY <1>2 DEF Life!NumbersOf
  <2>2. e = 0 \/ e = 1 \/ e = 2 \/ e = 3
    BY <2>1 DEF Life!Ends
  <2>3. CASE io_ = Life!NoEnds
    BY <2>1, <2>3 DEF Life!NoEnds
  <2>4. CASE EndsHeld
    BY <2>1, <2>2, <2>4
    DEF EndsHeld, Life!ParentIn, Life!ParentOut, Life!ChildIn, Life!ChildOut
  <2> QED
    BY <2>3, <2>4 DEF LifeInv
<1> QED
  BY <1>1, <1>2

\* Every call preserves the invariant.
LEMMA NextLife == LifeInv /\ [Life!Next]_lifeVars => LifeInv'
<1> SUFFICES ASSUME LifeInv, [Life!Next]_lifeVars PROVE LifeInv'
  OBVIOUS
<1>0. /\ owner \in [Life!Numbers -> {"nobody", "program", "object"}]
      /\ io_ \in [Life!Ends -> Life!Numbers] /\ pid_ \in BOOLEAN /\ alive \in BOOLEAN
      /\ hit \subseteq Life!Numbers
  BY DEF LifeInv, Life!TypeOK
<1>a. MaxNumber \in Nat /\ Life!NoEnds \in [Life!Ends -> Life!Numbers]
  BY ProgramsAssumption
  DEF ProgramsAssumption, Life!LifeAssumption, Life!Numbers, Life!NoEnds
<1>b. \A S : Life!Lost(S) = {n \in S : owner[n] = "program"}
  BY DEF Life!Lost
<1>c. \A f \in [Life!Ends -> Life!Numbers] : Life!NumbersOf(f) \subseteq Life!Numbers
  BY DEF Life!NumbersOf
<1>1. ASSUME NEW S \in SUBSET Life!Numbers, Life!Construct(S) PROVE LifeInv'
  <2>1. /\ ~alive /\ alive' = TRUE /\ owner' = Life!Closed(owner, S)
        /\ hit' = hit \cup Life!Lost(S) /\ io_' = Life!NoEnds /\ pid_' = FALSE
    BY <1>1 DEF Life!Construct
  <2>2. owner' \in [Life!Numbers -> {"nobody", "program"}]
    BY <1>0, <2>1 DEF LifeInv, Own, Life!Closed
  <2>3. Life!TypeOK' /\ Own' = {}
    BY <1>0, <1>a, <1>b, <2>1, <2>2 DEF Life!TypeOK, Own
  <2> QED
    BY <2>1, <2>3 DEF LifeInv
<1>2. ASSUME NEW pairs \in 0 .. 2, Life!RunFails(pairs) PROVE LifeInv'
  <2>0. PICK opened : opened = Life!Closed(owner, Life!NumbersOf(io_))
    OBVIOUS
  <2>1. PICK ends : ends = Life!Numbered(Life!Least(opened, 2 * pairs))
    OBVIOUS
  <2>2. /\ alive /\ ~pid_ /\ Life!Free(opened) >= 2 * pairs
        /\ owner' = Life!Closed(opened, Life!NumbersOf(ends))
        /\ hit' = hit \cup Life!Lost(Life!NumbersOf(io_) \cup Life!NumbersOf(ends))
        /\ io_' = Life!NoEnds /\ UNCHANGED <<pid_, alive>>
    BY <1>2, <2>0, <2>1 DEF Life!RunFails
  <2>3. 2 * pairs \in 0 .. 4
    BY <1>2
  <2>4. ends \in [Life!Ends -> Life!Numbers]
    BY <2>1, <2>2, <2>3, FreshEnds
  <2>5. opened \in [Life!Numbers -> {"nobody", "program"}]
    BY <2>0, AllClosed
  <2>6. owner' \in [Life!Numbers -> {"nobody", "program"}]
    BY <2>2, <2>5 DEF Life!Closed
  <2>7. hit' \subseteq Life!Numbers
    BY <1>0, <1>b, <1>c, <2>2, <2>4
  <2>8. Life!TypeOK' /\ Own' = {}
    BY <1>0, <1>a, <2>2, <2>6, <2>7 DEF Life!TypeOK, Own
  <2> QED
    BY <2>2, <2>8 DEF LifeInv
<1>3. ASSUME Life!Run PROVE LifeInv'
  <2>0. PICK opened : opened = Life!Closed(owner, Life!NumbersOf(io_))
    OBVIOUS
  <2>1. PICK ends : ends = Life!Numbered(Life!Least(opened, 4))
    OBVIOUS
  <2>2. /\ alive /\ pid_' = TRUE /\ Life!Free(opened) >= 4 /\ alive' = alive
        /\ owner' = Life!Given(opened, {ends[Life!ParentOut], ends[Life!ChildIn]})
        /\ hit' = hit \cup Life!Lost(Life!NumbersOf(io_)) /\ io_' = ends
    BY <1>3, <2>0, <2>1 DEF Life!Run
  <2>3. ends \in [Life!Ends -> Life!Numbers]
    BY <2>1, <2>2, FreshEnds
  <2>4. opened \in [Life!Numbers -> {"nobody", "program"}]
    BY <2>0, AllClosed
  <2>5. ends[Life!ParentOut] \in Life!Numbers /\ ends[Life!ChildIn] \in Life!Numbers
    BY <2>3 DEF Life!Ends, Life!ParentOut, Life!ChildIn
  <2>6. owner' \in [Life!Numbers -> {"nobody", "program", "object"}]
    BY <2>2, <2>4 DEF Life!Given
  <2>7. \A n \in Life!Numbers :
          owner'[n] = "object" <=> n \in {ends[Life!ParentOut], ends[Life!ChildIn]}
    BY <2>2, <2>4 DEF Life!Given
  <2>8. hit' \subseteq Life!Numbers
    BY <1>0, <1>b, <1>c, <2>2
  <2>9. Life!TypeOK'
    BY <1>0, <2>2, <2>3, <2>6, <2>8 DEF Life!TypeOK
  <2>10. EndsHeld' /\ Own' = {io_'[Life!ParentOut], io_'[Life!ChildIn]}
    BY <2>2, <2>5, <2>7 DEF EndsHeld, Own
  <2> QED
    BY <2>2, <2>9, <2>10 DEF LifeInv
<1>4. CASE Life!WaitPid
  BY <1>0, <1>4 DEF Life!WaitPid, LifeInv, Life!TypeOK, Own, EndsHeld
<1>5. CASE Life!Destroy
  <2>1. /\ alive' = FALSE /\ owner' = Life!Closed(owner, Life!NumbersOf(io_))
        /\ hit' = hit \cup Life!Lost(Life!NumbersOf(io_))
        /\ io_' = Life!NoEnds /\ UNCHANGED pid_
    BY <1>5 DEF Life!Destroy
  <2>2. owner' \in [Life!Numbers -> {"nobody", "program"}]
    BY <2>1, AllClosed
  <2>3. hit' \subseteq Life!Numbers
    BY <1>0, <1>b, <1>c, <2>1
  <2>4. Life!TypeOK' /\ Own' = {}
    BY <1>0, <1>a, <2>1, <2>2, <2>3 DEF Life!TypeOK, Own
  <2> QED
    BY <2>1, <2>4 DEF LifeInv
<1>6. CASE Life!ProgramOpens
  <2>1. PICK S : S = Life!Least(owner, 1)
    OBVIOUS
  <2>2. /\ Life!Free(owner) > 0 /\ hit' = hit \ S /\ UNCHANGED <<io_, pid_, alive>>
        /\ owner' = [n \in Life!Numbers |-> IF n \in S THEN "program" ELSE owner[n]]
    BY <1>6, <2>1 DEF Life!ProgramOpens
  <2>3. \A n \in S : owner[n] = "nobody"
    <3>1. Life!Free(owner) >= 1
      <4>1. IsFiniteSet(Life!Numbers)
        BY <1>a, FS_Interval DEF Life!Numbers
      <4>2. Life!Free(owner) \in Nat
        BY <4>1, SameLifeCardinality, FS_Subset, FS_CardinalityType DEF Life!Free
      <4> QED
        BY <2>2, <4>2
    <3> QED
      BY <2>1, <3>1, LeastFacts DEF NobodysIn
  <2>4. \A n \in Life!Numbers : owner'[n] = "object" <=> owner[n] = "object"
    BY <2>2, <2>3
  <2>5. owner' \in [Life!Numbers -> {"nobody", "program", "object"}]
    BY <1>0, <2>2
  <2>6. io_[Life!ParentOut] \in Life!Numbers /\ io_[Life!ChildIn] \in Life!Numbers
    BY <1>0 DEF Life!Ends, Life!ParentOut, Life!ChildIn
  <2>7. Life!TypeOK'
    BY <1>0, <2>2, <2>5 DEF Life!TypeOK
  <2>8. Own' = Own /\ (EndsHeld' <=> EndsHeld)
    BY <2>2, <2>4, <2>6 DEF Own, EndsHeld
  <2> QED
    BY <2>2, <2>7, <2>8 DEF LifeInv
<1>7. ASSUME NEW x \in Life!Numbers, Life!ProgramCloses(x) PROVE LifeInv'
  <2>1. /\ owner[x] = "program" /\ owner' = Life!Closed(owner, {x})
        /\ UNCHANGED <<io_, pid_, alive, hit>>
    BY <1>7 DEF Life!ProgramCloses
  <2>2. /\ owner' \in [Life!Numbers -> {"nobody", "program", "object"}]
        /\ \A n \in Life!Numbers : owner'[n] = "object" <=> owner[n] = "object"
    BY <1>0, <2>1 DEF Life!Closed
  <2>3. io_[Life!ParentOut] \in Life!Numbers /\ io_[Life!ChildIn] \in Life!Numbers
    BY <1>0 DEF Life!Ends, Life!ParentOut, Life!ChildIn
  <2>4. Own' = Own /\ (EndsHeld' <=> EndsHeld)
    BY <2>1, <2>2, <2>3 DEF Own, EndsHeld
  <2> QED
    BY <1>0, <2>1, <2>2, <2>4 DEF LifeInv, Life!TypeOK
<1>8. CASE UNCHANGED lifeVars
  BY <1>8 DEF lifeVars, LifeInv, Life!TypeOK, Own, EndsHeld
<1> QED
  BY <1>1, <1>2, <1>3, <1>4, <1>5, <1>6, <1>7, <1>8 DEF Life!Next

\* What a call of the object closes of the program's files.
LEMMA HitStep ==
  ASSUME LifeInv, [Life!Next]_lifeVars, alive
  PROVE  hit' \ hit \subseteq {0, io_[Life!ParentIn], io_[Life!ChildOut]}
<1>1. ASSUME NEW pairs \in 0 .. 2, Life!RunFails(pairs)
      PROVE  hit' \ hit \subseteq {0, io_[Life!ParentIn], io_[Life!ChildOut]}
  <2>0. PICK opened : opened = Life!Closed(owner, Life!NumbersOf(io_))
    OBVIOUS
  <2>1. PICK ends : ends = Life!Numbered(Life!Least(opened, 2 * pairs))
    OBVIOUS
  <2>2. /\ Life!Free(opened) >= 2 * pairs
        /\ hit' = hit \cup Life!Lost(Life!NumbersOf(io_) \cup Life!NumbersOf(ends))
    BY <1>1, <2>0, <2>1 DEF Life!RunFails
  <2>3. 2 * pairs \in 0 .. 4
    BY <1>1
  <2>4. /\ ends \in [Life!Ends -> Life!Numbers]
        /\ \A e \in Life!Ends : ends[e] = 0 \/ opened[ends[e]] = "nobody"
    BY <2>1, <2>2, <2>3, FreshEnds
  <2>5. ASSUME NEW n \in Life!NumbersOf(ends)
        PROVE  n = 0 \/ owner[n] = "nobody" \/ n \in Life!NumbersOf(io_)
    <3>1. PICK e \in Life!Ends : n = ends[e]
      BY <2>5 DEF Life!NumbersOf
    <3> QED
      BY <2>0, <2>4, <3>1, AllClosed
  <2>6. Life!Lost(Life!NumbersOf(io_) \cup Life!NumbersOf(ends))
          \subseteq {0, io_[Life!ParentIn], io_[Life!ChildOut]}
    BY <2>5, LostFacts
  <2> QED
    BY <2>2, <2>6
<1>2. CASE Life!Run \/ Life!Destroy
  <2>1. hit' = hit \cup Life!Lost(Life!NumbersOf(io_))
    BY <1>2 DEF Life!Run, Life!Destroy
  <2>2. Life!Lost(Life!NumbersOf(io_)) \subseteq {0, io_[Life!ParentIn], io_[Life!ChildOut]}
    BY LostFacts
  <2> QED
    BY <2>1, <2>2
<1>3. CASE Life!WaitPid \/ UNCHANGED lifeVars
  BY <1>3 DEF Life!WaitPid, lifeVars
<1>4. CASE Life!ProgramOpens
  BY <1>4 DEF Life!ProgramOpens
<1>5. ASSUME NEW x \in Life!Numbers, Life!ProgramCloses(x)
      PROVE  hit' \ hit \subseteq {0, io_[Life!ParentIn], io_[Life!ChildOut]}
  BY <1>5 DEF Life!ProgramCloses
<1>6. \A S : ~Life!Construct(S)
  BY DEF Life!Construct
<1> QED
  BY <1>1, <1>2, <1>3, <1>4, <1>5, <1>6 DEF Life!Next

-----------------------------------------------------------------------------
(* The theorems *)

\* A step of the programs is one of the locks or leaves them alone, and one of the dialog or
\* leaves that alone.
LEMMA PartSteps ==
  ASSUME [Next]_vars
  PROVE  /\ Locks!Next \/ UNCHANGED lockVars
         /\ Dialog!Next \/ UNCHANGED dialogVars
         /\ Serial!Next \/ UNCHANGED serialVars
         /\ Local!Next \/ UNCHANGED localVars
         /\ Fifo!Next \/ UNCHANGED fifoVars
         /\ Mq!Next \/ UNCHANGED queueVars
         /\ Pipe!Next \/ UNCHANGED letterVars
         /\ Udp!Next \/ UNCHANGED udpVars
  BY DEF Next, Rest, vars

SamplesInv == LocalInv /\ FifoInv /\ QueueInv /\ LetterInv /\ DatagramInv
ProgramsInv == LocksInv /\ DialogInv /\ SettingsInv /\ SamplesInv

\* The parts, together.
LEMMA ProgramsInit == Init => ProgramsInv
  BY LocksInit, DialogInit, SerialInit, LocalInit, FifoInit, QueueInit, PipeInit, UdpInit
  DEF Init, ProgramsInv, SamplesInv

\* One part steps, the others stay.
LEMMA ProgramsStep == ProgramsInv /\ [Next]_vars => ProgramsInv'
<1> SUFFICES ASSUME ProgramsInv, [Next]_vars PROVE ProgramsInv'
  OBVIOUS
<1> USE DEF ProgramsInv
<1>1. LocksInv'
  BY PartSteps, LocksStep
<1>2. DialogInv'
  BY PartSteps, PrintsInv, ReadSomeInv, BadEndsInv, OtherStepsInv
  DEF Dialog!Next, Dialog!Child, Dialog!Parent
<1>3. SettingsInv'
  BY PartSteps, SerialStep
<1>4. SamplesInv'
  BY PartSteps, LocalStep, FifoStep, QueueStep, PipeStep, UdpStep DEF SamplesInv
<1> QED
  BY <1>1, <1>2, <1>3, <1>4

\* The invariant of the programs.
LEMMA ProgramsInvariant == Spec => []ProgramsInv
  BY ProgramsInit, ProgramsStep, PTL DEF Spec

\* Whatever the processes do and however many die: each semaphore has one token, an object
\* unlinks what it has created, and the file lock is with the process that was told so
\* (semaphore.cpp, file_lock.cpp).
THEOREM LocksAreExact == Spec => []LocksExact
<1>1. ProgramsInv => LocksExact
  BY SemExact
  DEF ProgramsInv, LocksInv, SemInv, FileInv, LocksExact, Locks!TokenConserved, Locks!GrantExact
<1> QED
  BY <1>1, ProgramsInvariant, PTL

\* However the texts are cut into buffers, main() and the child keep in step: each line goes to
\* a child that waits for it and has said all it has to say, and the answer is read whole; only a
\* purge() that comes too early, or a failing call in it, undoes that (subprocess_io.cpp).
THEOREM DialogKeepsStep == Spec => DialogInStep
<1>1. ProgramsInv => Dialog!TypeOK /\ Dialog!InStep
  BY DEF ProgramsInv, DialogInv
<1>2. ProgramsInv /\ [Next]_vars =>
        [ step = 7 /\ step' = 8 /\ status' = "Ok" /\ purged /\ errors = 0 =>
            Dialog!Contains(out \o Dialog!Chunk, "Answer") ]_(Dialog!vars)
  BY PartSteps, AnswerStep DEF ProgramsInv
<1> QED
  BY <1>1, <1>2, ProgramsInvariant, PTL DEF Spec, DialogInStep, Dialog!AnswerRead

\* The serial port is opened with what the options say, the last of each kind, but for two
\* settings that it never gets (serialdump.c).
THEOREM SettingsAreRight == Spec => []SettingsRight
<1>1. ProgramsInv => SettingsRight
  BY SerialRightly DEF ProgramsInv
<1> QED
  BY <1>1, ProgramsInvariant, PTL

\* However servers and clients are killed: who ends well has its own request back, or nothing
\* from a server that died; a server that listens is the one that clients find unless another
\* one has been started (local_socket.cpp).
THEOREM AnswersAreRight == Spec => []AnswersRight
<1>1. ProgramsInv => AnswersRight
  BY LocalRightly DEF ProgramsInv, SamplesInv, LocalInv, SocketTypes, AnswersRight
<1> QED
  BY <1>1, ProgramsInvariant, PTL

\* What is sent by FIFO, queue, pipe and datagrams is received once, whole and in its order,
\* but for the cases that are named, and the names are taken and given back
\* (pipe_ipc, mq_test.cpp, pipe.cpp, udp_ttl.cpp).
THEOREM TransfersAreRight == Spec => []TransfersRight
<1>1. FifoInv => Fifo!FifoSafe
  BY DEF FifoInv
<1>2. LetterInv => Pipe!LettersInOrder
  BY LettersShown
<1>3. DatagramInv => Udp!LinkRight
  BY DEF DatagramInv, Udp!LinkRight
<1>4. ProgramsInv => TransfersRight
  BY <1>1, <1>2, <1>3, QueueRight DEF ProgramsInv, SamplesInv, TransfersRight
<1> QED
  BY <1>4, ProgramsInvariant, PTL

\* One part steps, the others stay.
LEMMA HolderSteps ==
  [Next]_vars => /\ [Life!Next]_lifeVars
                 /\ [Scope!Next]_scopeVars
                 /\ [Socket!Next]_socketVars
  BY DEF Next, Rest, vars

\* Objects that are moved and released in any order call each action at most once, when its
\* last bearer is destroyed, and lose it only to release() or to an assignment: ScopeExit
\* implements Ownership (scope_exit.hpp).
THEOREM ScopeImplementsOwnership == Spec => CalledOnce
<1>0. Scope!ScopeAssumption
  BY ProgramsAssumption DEF ProgramsAssumption
<1>1. Init => DutyInv /\ Scope!Duty!Init
  BY <1>0, InitDuty, InitOwns DEF Init
<1>2. DutyInv /\ [Next]_vars => DutyInv'
  BY <1>0, NextDuty, HolderSteps
<1>3. DutyInv /\ DutyInv' /\ [Next]_vars => [Scope!Duty!Next]_Owns
  BY <1>0, DutyStep, HolderSteps
<1>4. DutyInv => Scope!TypeOK
  BY DEF DutyInv
<1> QED
  BY <1>1, <1>2, <1>3, <1>4, PTL
  DEF Spec, CalledOnce, Scope!CalledOnce, Scope!Duty!Spec, Owns

\* However sockets are made, accepted, moved, assigned, swapped and closed, a file has one owner,
\* which closes it, but for the file of number 0; and without swap() a socket names the peer that
\* it is connected to (TcpSocket).
THEOREM SocketsImplementOwnership == Spec => ClosedOnce
<1>1. Init => SocketInv /\ Socket!Descriptors!Init
  BY SocketInit, InitFiles DEF Init
<1>2. SocketInv /\ [Next]_vars => SocketInv'
  BY NextSocket, HolderSteps
<1>3. SocketInv => FatesKnown
  BY SocketFates
<1>4. SocketInv /\ SocketInv' /\ FatesKnown /\ FatesKnown' /\ [Next]_vars =>
        [Socket!Descriptors!Next]_FileFates
  BY SocketStep, HolderSteps
<1>5. SocketInv => Socket!TypeOK /\ PeerInv
  BY DEF SocketInv
<1> QED
  BY <1>1, <1>2, <1>3, <1>4, <1>5, PTL
  DEF Spec, ClosedOnce, Socket!ClosedOnce, Socket!Descriptors!Spec, FileFates, PeerInv

\* A Subprocess keeps the two ends that belong to it while the child runs, leaves none open
\* without an object to close it, and once it is constructed closes nothing of the program's but
\* number 0 or a number that run() has given back and that stays in io_.
THEOREM DescriptorsAreKept == Spec => DescriptorsKept
<1>1. Init => LifeInv
  BY LifeInit DEF Init
<1>2. LifeInv /\ [Next]_vars => LifeInv'
  BY NextLife, HolderSteps
<1>3. LifeInv /\ [Next]_vars =>
        [alive => hit' \ hit \subseteq {0, io_[Life!ParentIn], io_[Life!ChildOut]}]_lifeVars
  BY HitStep, HolderSteps
<1>4. LifeInv => /\ Life!TypeOK
                 /\ LET own == {n \in Life!Numbers : owner[n] = "object"} IN
                    /\ pid_ /\ alive => own = {io_[Life!ParentOut], io_[Life!ChildIn]}
                    /\ own \subseteq {io_[Life!ParentOut], io_[Life!ChildIn]}
                    /\ ~alive => own = {}
  <2> SUFFICES ASSUME LifeInv
               PROVE  /\ Life!TypeOK
                      /\ pid_ /\ alive => Own = {io_[Life!ParentOut], io_[Life!ChildIn]}
                      /\ Own \subseteq {io_[Life!ParentOut], io_[Life!ChildIn]}
                      /\ ~alive => Own = {}
    BY DEF Own
  <2>1. io_[Life!ParentOut] \in Life!Numbers /\ io_[Life!ChildIn] \in Life!Numbers
    BY DEF LifeInv, Life!TypeOK, Life!Ends, Life!ParentOut, Life!ChildIn
  <2> QED
    BY <2>1 DEF LifeInv, EndsHeld, Own
<1> QED
  BY <1>1, <1>2, <1>3, <1>4, PTL
  DEF Spec, DescriptorsKept, Life!DescriptorsKept, Life!vars, lifeVars
=============================================================================
