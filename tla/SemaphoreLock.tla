---------------------------- MODULE SemaphoreLock ----------------------------
(***************************************************************************)
(* The system-wide lock of src/global_lock/semaphore.cpp: processes that   *)
(* construct GlobalLock objects of one name.  The name refers to a         *)
(* semaphore, or to none; a semaphore outlives its name as long as a       *)
(* process has it open.  GlobalScopedLock is the object on which lock() is *)
(* called first and whose destructor unlocks.                              *)
(*                                                                         *)
(* An attempt that returns false and leaves everything alone (a locked     *)
(* object, a failed trywait, a timespec that sem_timedwait rejects) is no  *)
(* step.                                                                   *)
(***************************************************************************)
EXTENDS Naturals, FiniteSets

CONSTANTS
  Procs,     \* the processes
  MaxSems    \* bound: semaphores ever created under the name

Sems == 1 .. MaxSems

VARIABLES
  name,      \* the semaphore that the name refers to, 0 when there is none
  created,   \* how many semaphores were created
  value,     \* the value of each semaphore
  sem_,      \* the semaphore of each process's object, 0 without one or after SEM_FAILED
  locked_,   \* GlobalLock::locked_
  name_,     \* the semaphore the object created and has to unlink, 0 for an empty name_
  at,        \* where the process is
  lost       \* history: the semaphores whose holder died

vars == <<name, created, value, sem_, locked_, name_, at, lost>>

TypeOK ==
  /\ name \in Sems \cup {0} /\ created \in 0 .. MaxSems
  /\ value \in [Sems -> {0, 1}]
  /\ sem_ \in [Procs -> Sems \cup {0}]
  /\ locked_ \in [Procs -> BOOLEAN]
  /\ name_ \in [Procs -> Sems \cup {0}]
  /\ at \in [Procs -> {"outside", "object", "wait", "unlink"}]
  /\ lost \subseteq Sems

Init ==
  /\ name = 0 /\ created = 0
  /\ value = [s \in Sems |-> 0]
  /\ sem_ = [p \in Procs |-> 0]
  /\ locked_ = [p \in Procs |-> FALSE]
  /\ name_ = [p \in Procs |-> 0]
  /\ at = [p \in Procs |-> "outside"]
  /\ lost = {}

-----------------------------------------------------------------------------

\* sem_open finds the semaphore, or creates it with value 1 and leaves ENOENT in errno
OpenExisting(p) ==
  /\ name # 0
  /\ sem_' = [sem_ EXCEPT ![p] = name]
  /\ UNCHANGED <<name, created, value, name_>>

OpenNew(p) ==
  /\ name = 0
  /\ created < MaxSems
  /\ created' = created + 1
  /\ name' = created'
  /\ value' = [value EXCEPT ![created'] = 1]
  /\ sem_' = [sem_ EXCEPT ![p] = created']
  /\ name_' = [name_ EXCEPT ![p] = created']

OpenFails == UNCHANGED <<name, created, value, sem_, name_>>

Construct(p) ==
  /\ at[p] = "outside"
  /\ OpenExisting(p) \/ OpenNew(p) \/ OpenFails
  /\ at' = [at EXCEPT ![p] = "object"]
  /\ UNCHANGED <<locked_, lost>>

Decrement(p) ==
  /\ value[sem_[p]] > 0
  /\ value' = [value EXCEPT ![sem_[p]] = @ - 1]
  /\ locked_' = [locked_ EXCEPT ![p] = TRUE]

\* Mutant of TryLock: the value is not looked at
TryLockBlindly(p) ==
  /\ at[p] = "object" /\ sem_[p] # 0 /\ ~locked_[p]
  /\ value' = [value EXCEPT ![sem_[p]] = 0]
  /\ locked_' = [locked_ EXCEPT ![p] = TRUE]
  /\ UNCHANGED <<name, created, sem_, name_, at, lost>>

TryLock(p) ==
  /\ at[p] = "object" /\ sem_[p] # 0 /\ ~locked_[p]
  /\ Decrement(p)
  /\ UNCHANGED <<name, created, sem_, name_, at, lost>>

\* lock() and the timed try_lock() wait in the kernel ...
Wait(p) ==
  /\ at[p] = "object" /\ sem_[p] # 0 /\ ~locked_[p]
  /\ at' = [at EXCEPT ![p] = "wait"]
  /\ UNCHANGED <<name, created, value, sem_, locked_, name_, lost>>

\* ... until they decrement the semaphore, or a signal or the timeout ends the wait
WaitOver(p) ==
  /\ at[p] = "wait"
  /\ Decrement(p) \/ UNCHANGED <<value, locked_>>
  /\ at' = [at EXCEPT ![p] = "object"]
  /\ UNCHANGED <<name, created, sem_, name_, lost>>

\* Mutant of ReleaseIfLocked: the destructor leaves the semaphore to sem_close
ReleaseNothing(p) ==
  /\ locked_' = [locked_ EXCEPT ![p] = FALSE]
  /\ UNCHANGED value

\* Post when the object is locked
ReleaseIfLocked(p) ==
  /\ locked_' = [locked_ EXCEPT ![p] = FALSE]
  /\ value' = IF locked_[p] THEN [value EXCEPT ![sem_[p]] = @ + 1] ELSE value

Unlock(p) ==
  /\ at[p] = "object" /\ locked_[p]
  /\ locked_' = [locked_ EXCEPT ![p] = FALSE]
  /\ value' = [value EXCEPT ![sem_[p]] = @ + 1]
  /\ UNCHANGED <<name, created, sem_, name_, at, lost>>

\* The destructor unlocks, closes, and goes on to unlink what it has created
Destroy(p) ==
  /\ at[p] = "object"
  /\ ReleaseIfLocked(p)
  /\ sem_' = [sem_ EXCEPT ![p] = 0]
  /\ at' = [at EXCEPT ![p] = IF name_[p] # 0 THEN "unlink" ELSE "outside"]
  /\ UNCHANGED <<name, created, name_, lost>>

Unlink(p) ==
  /\ at[p] = "unlink"
  /\ name' = 0
  /\ name_' = [name_ EXCEPT ![p] = 0]
  /\ at' = [at EXCEPT ![p] = "outside"]
  /\ UNCHANGED <<created, value, sem_, locked_, lost>>

\* A process dies: nothing is posted and nothing is unlinked. Its place is taken by another.
Crash(p) ==
  /\ at[p] # "outside"
  /\ lost' = IF locked_[p] THEN lost \cup {sem_[p]} ELSE lost
  /\ sem_' = [sem_ EXCEPT ![p] = 0]
  /\ locked_' = [locked_ EXCEPT ![p] = FALSE]
  /\ name_' = [name_ EXCEPT ![p] = 0]
  /\ at' = [at EXCEPT ![p] = "outside"]
  /\ UNCHANGED <<name, created, value>>

Call(p) ==
  \/ Construct(p) \/ Destroy(p) \/ Unlink(p)
  \/ TryLock(p) \/ Wait(p) \/ WaitOver(p) \/ Unlock(p)

Next == \E p \in Procs : Call(p) \/ Crash(p)

Spec == Init /\ [][Next]_vars

\* Every object is destroyed in the end: it lives in a scope of its process
Fairness == \A p \in Procs : WF_vars(Unlock(p) \/ Destroy(p)) /\ WF_vars(Unlink(p))

-----------------------------------------------------------------------------
(* Properties *)

Holders(s) == {p \in Procs : locked_[p] /\ sem_[p] = s}

\* Each semaphore has one token: it is in the semaphore, with the one object that believes
\* to be locked, or gone with a process that died while it held it (lock, unlock, ~GlobalLock).
TokenConserved ==
  \A s \in 1 .. created :
    value[s] + Cardinality(Holders(s)) + Cardinality(lost \cap {s}) = 1

\* An object unlinks what it has created: the name refers to its semaphore until it does so,
\* whatever other processes open, destroy or leave behind.
UnlinksOwnName == \A p \in Procs : name_[p] # 0 => name = name_[p]

\* A semaphore that is taken is released, by unlock() or by the destructor, or its holder
\* has died and it stays taken for ever.
TokenReturns == \A s \in Sems : (s <= created /\ value[s] = 0) ~> (value[s] = 1 \/ s \in lost)

\* "If multiple applications are using single resource, or application should be launched
\* only once, it is a matter of using system wide locks" (readme.md:3): two processes never
\* hold the lock of one name at a time.
MutualExclusion == \A p, q \in Procs : locked_[p] /\ locked_[q] => p = q
=============================================================================
