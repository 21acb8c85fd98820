----------------------------- MODULE GlobalLocks -----------------------------
(***************************************************************************)
(* The processes of one machine that use both kinds of system-wide lock of *)
(* src/global_lock, one object of each.  A process that dies takes both    *)
(* along: its file lock is given back, its semaphore is not.               *)
(***************************************************************************)
EXTENDS Naturals

CONSTANTS Procs, MaxSems, Nobody,
          MaxCrashes   \* bound: processes that die

LocksAssumption == Nobody \notin Procs /\ MaxSems \in Nat

VARIABLES name, created, value, sem_, locked_, name_, at, lost
VARIABLES fd_, flocked, granted
VARIABLE crashes       \* how many processes have died

Semaphore == INSTANCE SemaphoreLock
File == INSTANCE FileLock

semVars == <<name, created, value, sem_, locked_, name_, at, lost>>
fileVars == <<fd_, flocked, granted>>
vars == <<semVars, fileVars, crashes>>

Init == Semaphore!Init /\ File!Init /\ crashes = 0

UseSemaphore(p) == Semaphore!Call(p) /\ UNCHANGED <<fileVars, crashes>>
UseFile(p) == File!Call(p) /\ UNCHANGED <<semVars, crashes>>

Crash(p) ==
  /\ crashes < MaxCrashes
  /\ crashes' = crashes + 1
  /\ \/ Semaphore!Crash(p) /\ (File!Crash(p) \/ (fd_[p] \in {"zero", "minus one"} /\ UNCHANGED fileVars))
     \/ at[p] = "outside" /\ UNCHANGED semVars /\ File!Crash(p)

Next == \E p \in Procs : UseSemaphore(p) \/ UseFile(p) \/ Crash(p)

Spec == Init /\ [][Next]_vars

Fairness == Semaphore!Fairness /\ File!Fairness

-----------------------------------------------------------------------------
(* Properties of the two locks, as they stand in their modules *)

\* Each semaphore has one token, and an object unlinks only what it has created, whatever
\* the processes do (SemaphoreLock)
TokenConserved == Semaphore!TypeOK /\ Semaphore!TokenConserved /\ Semaphore!UnlinksOwnName

\* The file lock is with the process that was told so (FileLock)
GrantExact == File!TypeOK /\ File!GrantExact

\* Both locks are given back, except a semaphore by a process that dies
LocksReturn == Semaphore!TokenReturns /\ File!LockReturns

\* Two processes never hold the semaphore lock of one name (SemaphoreLock)
MutualExclusion == Semaphore!MutualExclusion
=============================================================================
