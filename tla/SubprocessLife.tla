---------------------------- MODULE SubprocessLife ----------------------------
(***************************************************************************)
(* The descriptors of a Subprocess of src/subprocess_io/subprocess_io.cpp  *)
(* from its constructor to its destructor, in a program that opens and     *)
(* closes files of its own.  The kernel gives out the least free number.   *)
(***************************************************************************)
EXTENDS Naturals, FiniteSets

CONSTANT MaxNumber    \* bound: descriptors are 0 .. MaxNumber; 0 is the standard input

LifeAssumption == MaxNumber \in Nat

VARIABLES
  owner,       \* of each number: nobody, the program or the object
  io_, pid_,
  alive,       \* the object is there
  hit          \* history: numbers whose file the object has closed under the program

vars == <<owner, io_, pid_, alive, hit>>

Numbers == 0 .. MaxNumber
ParentIn == 0
ParentOut == 1
ChildIn == 2
ChildOut == 3
Ends == 0 .. 3
NoEnds == [e \in Ends |-> 0]

Init ==
  /\ owner = [n \in Numbers |-> IF n = 0 THEN "program" ELSE "nobody"]
  /\ io_ = NoEnds /\ pid_ = FALSE /\ alive = FALSE /\ hit = {}

Closed(table, S) == [n \in Numbers |-> IF n \in S THEN "nobody" ELSE table[n]]
Given(table, S) == [n \in Numbers |-> IF n \in S THEN "object" ELSE table[n]]
Lost(S) == {n \in S : owner[n] = "program"}

\* The k numbers that the next pipes get
Least(table, k) ==
  CHOOSE S \in SUBSET {n \in Numbers : table[n] = "nobody"} :
    /\ Cardinality(S) = k
    /\ \A n \in Numbers : table[n] = "nobody" /\ n \notin S => \A l \in S : l < n

NumbersOf(f) == {f[e] : e \in Ends}
Free(table) == Cardinality({n \in Numbers : table[n] = "nobody"})

\* pipe() numbers the reading end first
Numbered(S) == [e \in Ends |-> IF e >= Cardinality(S) THEN 0
                               ELSE CHOOSE n \in S : Cardinality({l \in S : l < n}) = e]

\* The constructor closes what happens to be in io_
Construct(S) ==
  /\ ~alive /\ alive' = TRUE
  /\ owner' = Closed(owner, S) /\ hit' = hit \cup Lost(S)
  /\ io_' = NoEnds /\ pid_' = FALSE

\* Mutant of RunFails: io_ keeps the numbers
RunFailsKeeping(pipes) ==
  LET table == Closed(owner, NumbersOf(io_)) IN
  /\ alive /\ ~pid_
  /\ Free(table) >= 2 * pipes
  /\ owner' = Closed(table, Least(table, 2 * pipes) \cup {0})
  /\ hit' = hit \cup Lost(NumbersOf(io_) \cup {0})
  /\ io_' = Numbered(Least(table, 2 * pipes))
  /\ UNCHANGED <<pid_, alive>>

\* run() closes all four numbers of before, pipes or fork() fail, and all is closed again
RunFails(pipes) ==
  LET table == Closed(owner, NumbersOf(io_))
      ends == Numbered(Least(table, 2 * pipes))
  IN
  /\ alive /\ ~pid_
  /\ Free(table) >= 2 * pipes
  /\ owner' = Closed(table, NumbersOf(ends))
  /\ hit' = hit \cup Lost(NumbersOf(io_) \cup NumbersOf(ends))
  /\ io_' = NoEnds
  /\ UNCHANGED <<pid_, alive>>

\* The ends that belong to the child are closed, and their numbers stay in io_
Run ==
  LET table == Closed(owner, NumbersOf(io_))
      ends == Numbered(Least(table, 4))
  IN
  /\ alive /\ ~pid_ /\ pid_' = TRUE
  /\ Free(table) >= 4
  /\ owner' = Given(table, {ends[ParentOut], ends[ChildIn]})
  /\ hit' = hit \cup Lost(NumbersOf(io_))
  /\ io_' = ends
  /\ UNCHANGED alive

WaitPid ==
  /\ alive /\ pid_ /\ pid_' = FALSE
  /\ UNCHANGED <<owner, io_, alive, hit>>

Destroy ==
  /\ alive /\ alive' = FALSE
  /\ owner' = Closed(owner, NumbersOf(io_)) /\ hit' = hit \cup Lost(NumbersOf(io_))
  /\ io_' = NoEnds
  /\ UNCHANGED pid_

ProgramOpens ==
  /\ Free(owner) > 0
  /\ owner' = [n \in Numbers |-> IF n \in Least(owner, 1) THEN "program" ELSE owner[n]]
  /\ hit' = hit \ Least(owner, 1)
  /\ UNCHANGED <<io_, pid_, alive>>

ProgramCloses(n) ==
  /\ owner[n] = "program"
  /\ owner' = Closed(owner, {n})
  /\ UNCHANGED <<io_, pid_, alive, hit>>

Next ==
  \/ \E S \in SUBSET Numbers : Cardinality(S) <= 4 /\ Construct(S)
  \/ \E pipes \in 0 .. 2 : RunFails(pipes)
  \/ Run \/ WaitPid \/ Destroy \/ ProgramOpens
  \/ \E n \in Numbers : ProgramCloses(n)

Spec == Init /\ [][Next]_vars

-----------------------------------------------------------------------------
(* Properties *)

TypeOK ==
  /\ owner \in [Numbers -> {"nobody", "program", "object"}]
  /\ io_ \in [Ends -> Numbers] /\ pid_ \in BOOLEAN /\ alive \in BOOLEAN
  /\ hit \subseteq Numbers

\* The parent's ends of the pipes stay open while the child runs, none is left open without
\* an object to close it, and what an object closes of the program's files, its constructor
\* apart, is number 0 or a number that run() has given back and keeps in io_ (run,
\* wait_pid, ~Subprocess).
DescriptorsKept ==
  /\ [](LET own == {n \in Numbers : owner[n] = "object"} IN
        /\ pid_ /\ alive => own = {io_[ParentOut], io_[ChildIn]}
        /\ own \subseteq {io_[ParentOut], io_[ChildIn]}
        /\ ~alive => own = {})
  /\ [][alive => hit' \ hit \subseteq {0, io_[ParentIn], io_[ChildOut]}]_vars
=============================================================================
