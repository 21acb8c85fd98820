------------------------- MODULE ConcurrentContainer -------------------------
(***************************************************************************)
(* The container of src/concurrent_read_write/concurrency.cpp: a value     *)
(* behind a counter of readers and a flag of the writer, both of them      *)
(* sequentially consistent atomics.  Threads call get() and set() for ever *)
(* and spin where the code yields.                                         *)
(*                                                                         *)
(* T is any type, so data_ is copied and assigned in two steps: between    *)
(* them another thread sees half of the change.                            *)
(***************************************************************************)
EXTENDS Naturals, FiniteSets

CONSTANTS
  Threads,   \* the callers
  Values     \* what set() may be given

ASSUME ThreadsAssumption == IsFiniteSet(Threads)

VARIABLES
  readers_, write_flag_,
  data_,         \* the two halves of the value
  pc,            \* where each thread is
  copy,          \* what the thread's get() has copied, or its set() was given
  late           \* history: the readers a write did not wait for, until they are done

vars == <<readers_, write_flag_, data_, pc, copy, late>>

Whole(v) == <<v, v>>
IsWhole(d) == d[1] = d[2]

Counted == {"copy", "copyRest", "release"}         \* between readers_++ and readers_--
Writing == {"write", "writeRest", "clear"}         \* past both loops of acquire_write
Holding == {"drain"} \cup Writing                  \* owns write_flag_

TypeOK ==
  /\ readers_ \in Nat
  /\ write_flag_ \in BOOLEAN
  /\ data_ \in Values \X Values
  /\ pc \in [Threads -> {"idle", "test", "count", "swap"} \cup Counted \cup Holding]
  /\ copy \in [Threads -> Values \X Values]
  /\ late \subseteq Threads

Init ==
  /\ readers_ = 0 /\ write_flag_ = FALSE
  /\ \E v \in Values : data_ = Whole(v) /\ copy = [t \in Threads |-> Whole(v)]
  /\ pc = [t \in Threads |-> "idle"]
  /\ late = {}

Goto(t, from, to) == pc[t] = from /\ pc' = [pc EXCEPT ![t] = to]

-----------------------------------------------------------------------------
(* get() *)

Get(t) ==
  /\ Goto(t, "idle", "test")
  /\ UNCHANGED <<readers_, write_flag_, data_, copy, late>>

\* Mutant of TestFlag: the reader does not look at the flag
TestFlagUnseen(t) ==
  /\ Goto(t, "test", "count")
  /\ UNCHANGED <<readers_, write_flag_, data_, copy, late>>

\* The loop of acquire_read ends when it finds the flag clear
TestFlag(t) ==
  /\ Goto(t, "test", "count")
  /\ ~write_flag_
  /\ UNCHANGED <<readers_, write_flag_, data_, copy, late>>

\* A separate atomic operation: a writer may have set the flag since
CountReader(t) ==
  /\ Goto(t, "count", "copy")
  /\ readers_' = readers_ + 1
  /\ UNCHANGED <<write_flag_, data_, copy, late>>

Copy(t) ==
  /\ Goto(t, "copy", "copyRest")
  /\ copy' = [copy EXCEPT ![t] = <<data_[1], @[2]>>]
  /\ UNCHANGED <<readers_, write_flag_, data_, late>>

CopyRest(t) ==
  /\ Goto(t, "copyRest", "release")
  /\ copy' = [copy EXCEPT ![t] = <<@[1], data_[2]>>]
  /\ UNCHANGED <<readers_, write_flag_, data_, late>>

ReleaseRead(t) ==
  /\ Goto(t, "release", "idle")
  /\ readers_' = readers_ - 1
  /\ late' = late \ {t}
  /\ UNCHANGED <<write_flag_, data_, copy>>

-----------------------------------------------------------------------------
(* set() *)

Set(t, v) ==
  /\ Goto(t, "idle", "swap")
  /\ copy' = [copy EXCEPT ![t] = Whole(v)]
  /\ UNCHANGED <<readers_, write_flag_, data_, late>>

\* Mutant of SwapFlag: the flag is stored, not exchanged
SwapFlagStored(t) ==
  /\ Goto(t, "swap", "drain")
  /\ write_flag_' = TRUE
  /\ UNCHANGED <<readers_, data_, copy, late>>

\* compare_exchange_strong from false to true
SwapFlag(t) ==
  /\ Goto(t, "swap", "drain")
  /\ ~write_flag_
  /\ write_flag_' = TRUE
  /\ UNCHANGED <<readers_, data_, copy, late>>

\* Mutant of DrainReaders: one reader is let through
DrainReadersButOne(t) ==
  /\ Goto(t, "drain", "write")
  /\ readers_ <= 1
  /\ late' = late \cup {r \in Threads : pc[r] = "count"}
  /\ UNCHANGED <<readers_, write_flag_, data_, copy>>

\* The second loop of acquire_write ends when it finds no reader counted
DrainReaders(t) ==
  /\ Goto(t, "drain", "write")
  /\ readers_ = 0
  /\ late' = late \cup {r \in Threads : pc[r] = "count"}
  /\ UNCHANGED <<readers_, write_flag_, data_, copy>>

Write(t) ==
  /\ Goto(t, "write", "writeRest")
  /\ data_' = <<copy[t][1], data_[2]>>
  /\ UNCHANGED <<readers_, write_flag_, copy, late>>

WriteRest(t) ==
  /\ Goto(t, "writeRest", "clear")
  /\ data_' = <<data_[1], copy[t][2]>>
  /\ UNCHANGED <<readers_, write_flag_, copy, late>>

\* Mutant of ReleaseWrite: the flag stays set
ReleaseWriteForgotten(t) ==
  /\ Goto(t, "clear", "idle")
  /\ late' = late \ {r \in Threads : pc[r] = "count"}
  /\ UNCHANGED <<readers_, write_flag_, data_, copy>>

ReleaseWrite(t) ==
  /\ Goto(t, "clear", "idle")
  /\ write_flag_' = FALSE
  /\ late' = late \ {r \in Threads : pc[r] = "count"}
  /\ UNCHANGED <<readers_, data_, copy>>

-----------------------------------------------------------------------------

\* What a thread does inside a call
Proceed(t) ==
  \/ TestFlag(t) \/ CountReader(t) \/ Copy(t) \/ CopyRest(t) \/ ReleaseRead(t)
  \/ SwapFlag(t) \/ DrainReaders(t) \/ Write(t) \/ WriteRest(t) \/ ReleaseWrite(t)

Call(t) == Get(t) \/ \E v \in Values : Set(t, v)

Next == \E t \in Threads : Proceed(t) \/ Call(t)

Spec == Init /\ [][Next]_vars

\* Every thread is scheduled; a loop that keeps meeting the flag set may spin for ever
FairSpec == Spec /\ \A t \in Threads : WF_vars(Proceed(t))

-----------------------------------------------------------------------------
(* Properties *)

\* The counter and the flag tell the truth: readers_ is the number of readers between
\* acquire_read and release_read, and write_flag_ is set exactly while one writer owns it.
FlagsAccurate ==
  /\ readers_ = Cardinality({t \in Threads : pc[t] \in Counted})
  /\ write_flag_ <=> \E t \in Threads : pc[t] \in Holding
  /\ \A t, u \in Threads : pc[t] \in Holding /\ pc[u] \in Holding => t = u

\* Writers do not mix: outside an assignment the container holds one whole value, the
\* value the writer was given when it leaves set().
WritesWhole ==
  /\ (\A t \in Threads : pc[t] # "writeRest") => IsWhole(data_)
  /\ \A t \in Threads : pc[t] = "clear" => data_ = copy[t]

\* A write overlaps only those reads that had seen the flag clear but had not counted
\* themselves when the writer looked at the counter.
OverlapOnlyLate ==
  \A r, w \in Threads : pc[r] \in Counted /\ pc[w] \in Writing => r \in late

\* Every other get() returns the whole value that the container holds at that moment.
ReadsCurrent ==
  \A r \in Threads : pc[r] = "release" /\ r \notin late => copy[r] = data_ /\ IsWhole(copy[r])

\* The invariant behind the four above: once a writer has drained the readers, everyone who
\* has passed the flag test is late; a reader that is not late sees no change of the value;
\* a writer's argument reaches the container half by half.
LateInv ==
  \A r, w \in Threads : pc[r] \in {"count"} \cup Counted /\ pc[w] \in Writing => r \in late

CopyInv ==
  \A r \in Threads \ late :
    /\ pc[r] = "copyRest" => copy[r][1] = data_[1]
    /\ pc[r] = "release" => copy[r] = data_

GivenInv ==
  \A w \in Threads :
    /\ pc[w] \in {"swap"} \cup Holding => IsWhole(copy[w])
    /\ pc[w] = "writeRest" => data_[1] = copy[w][1]

ContainerInv ==
  TypeOK /\ FlagsAccurate /\ WritesWhole /\ LateInv /\ CopyInv /\ GivenInv

\* A writer that owns the flag gets to write: the flag holds new readers back, and those
\* that are inside leave, so no stream of readers starves it. And the spinning threads never
\* keep each other waiting: as long as calls are in progress, calls return.
CallsProceed ==
  /\ \A t \in Threads : pc[t] = "drain" ~> pc[t] = "write"
  /\ \/ []<><<\E t \in Threads : ReleaseRead(t) \/ ReleaseWrite(t)>>_vars
     \/ <>[](\A t \in Threads : pc[t] = "idle")

\* "If write operation is requested, we set the write lock and wait until all read
\* operations are complete" (readme.md:57): no get() copies the value during a write.
ReadsComplete ==
  ~ \E r, w \in Threads : pc[r] \in {"copy", "copyRest"} /\ pc[w] \in {"write", "writeRest"}
=============================================================================
