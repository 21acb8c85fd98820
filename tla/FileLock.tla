------------------------------- MODULE FileLock -------------------------------
(***************************************************************************)
(* The system-wide lock of src/global_lock/file_lock.cpp: processes that   *)
(* lock one file with flock.  The kernel gives the lock back when the      *)
(* holder closes the file or dies.                                         *)
(***************************************************************************)
EXTENDS Naturals

CONSTANTS
  Procs,    \* the processes
  Nobody     \* none of them

VARIABLES
  fd_,       \* GlobalLock::fd_: 0, -1 after a failed open, or a descriptor; "opened" is a
             \* descriptor on which the same acquire() has still to call flock
  flocked,   \* who has the lock of the file
  granted    \* history: acquire() has returned true, and release() was not called since

vars == <<fd_, flocked, granted>>

TypeOK ==
  /\ fd_ \in [Procs -> {"zero", "minus one", "descriptor", "opened"}]
  /\ flocked \in Procs \cup {Nobody}
  /\ granted \subseteq Procs

Init ==
  /\ fd_ = [p \in Procs |-> "zero"]
  /\ flocked = Nobody
  /\ granted = {}

\* acquire(): open ...
Open(p) ==
  /\ fd_[p] = "zero"
  /\ \E result \in {"minus one", "opened"} : fd_' = [fd_ EXCEPT ![p] = result]
  /\ UNCHANGED <<flocked, granted>>

\* ... and flock without waiting; the file stays open when it fails
Flock(p) ==
  /\ fd_[p] = "opened"
  /\ fd_' = [fd_ EXCEPT ![p] = "descriptor"]
  /\ IF flocked = Nobody
       THEN flocked' = p /\ granted' = granted \cup {p}
       ELSE UNCHANGED <<flocked, granted>>

\* release() and the destructor: unlock, close; after a failed open they do nothing
Release(p) ==
  /\ fd_[p] = "descriptor"
  /\ fd_' = [fd_ EXCEPT ![p] = "zero"]
  /\ flocked' = IF flocked = p THEN Nobody ELSE flocked
  /\ granted' = granted \ {p}

\* After a failed open acquire() and release() do nothing: only another process, with an
\* object of its own, tries again
Restart(p) ==
  /\ fd_[p] = "minus one"
  /\ fd_' = [fd_ EXCEPT ![p] = "zero"]
  /\ UNCHANGED <<flocked, granted>>

\* A process dies: the kernel closes the file. Its place is taken by another.
Crash(p) ==
  /\ fd_[p] \in {"opened", "descriptor"}
  /\ fd_' = [fd_ EXCEPT ![p] = "zero"]
  /\ flocked' = IF flocked = p THEN Nobody ELSE flocked
  /\ granted' = granted \ {p}

Call(p) == Open(p) \/ Flock(p) \/ Release(p) \/ Restart(p)

Next == \E p \in Procs : Call(p) \/ Crash(p)

Spec == Init /\ [][Next]_vars

Fairness == \A p \in Procs : WF_vars(Release(p))

-----------------------------------------------------------------------------
(* Properties *)

\* The lock is with the process, and with it alone, that was told so: whatever happened to
\* the others, which keep the file open after a failed acquire() or died (acquire, release).
GrantExact == granted = {flocked} \ {Nobody}

\* The lock is given back, also by a process that dies.
LockReturns == \A p \in Procs : flocked = p ~> flocked # p
=============================================================================
