----------------------------- MODULE ThreadPool -----------------------------
(***************************************************************************)
(* The thread pool of src/PostgresProxy/thread_pool.{hpp,cpp} and its      *)
(* sibling src/thread_pool/thread_pool.{hpp,cpp}.                          *)
(*                                                                         *)
(* A pool owns N Worker objects.  A client calls get(), which scans the    *)
(* workers in order under the pool mutex, empties the first free one by    *)
(* swapping it with a temporary, and returns a reference to it; the client *)
(* then calls run() on the reference, which starts a std::thread that      *)
(* executes the task and raises done_.  join() closes the pool and waits   *)
(* for every worker in turn.                                               *)
(*                                                                         *)
(* A worker's own mutex guards only short critical sections, so a section  *)
(* is one step here.  swap() takes no lock at all: its three assignments   *)
(* are three steps.                                                        *)
(***************************************************************************)
EXTENDS Naturals, FiniteSets

CONSTANTS
  N,            \* size of the pool
  Tasks,        \* the functions given to run(), each submitted at most once
  Submitters,   \* threads that call get().run()
  Joiners,      \* threads that call join()
  LateSubmit,   \* may a client call get() after join() was called?
  HoldOnSleep,  \* get() keeps the pool mutex while it sleeps (src/thread_pool)
  None          \* no thread, no task, nobody

ASSUME NAssumption == N \in Nat \ {0}
ASSUME NoneAssumption == None \notin Tasks \cup Submitters \cup Joiners
ASSUME UsageAssumption == LateSubmit \in BOOLEAN /\ HoldOnSleep \in BOOLEAN
\* get() and run() are separate calls, so one thread submits: main() in src/thread_pool,
\* the worker loop of the proxy in src/PostgresProxy
ASSUME SubmitterAssumption == \A c, d \in Submitters : c = d

\* Mutant of Workers: one worker more than was asked for
WorkersOffByOne == 1 .. N + 1

Workers == 1 .. N
Clients == Submitters \cup Joiners

VARIABLES
  started, done,  \* Worker::started_, Worker::done_
  thread,         \* the task of Worker::thread_, None when it is not joinable
  task,           \* how far each task is
  runner,         \* the worker whose wrapper executes the task ("this" of wrapper)
  mtx,            \* the holder of ThreadPool::mtx_
  joining,        \* ThreadPool::joining_
  pc, idx,        \* where each client is, and at which worker of its loop
  tmp,            \* the local "Worker tmp" of each client's get()
  terminated      \* std::terminate was called

vars == <<started, done, thread, task, runner, mtx, joining, pc, idx, tmp, terminated>>
workerVars == <<started, done, thread>>
taskVars == <<task, runner>>

FreshWorker == [started |-> FALSE, done |-> FALSE, thread |-> None]

TypeOK ==
  /\ started \in [Workers -> BOOLEAN]
  /\ done \in [Workers -> BOOLEAN]
  /\ thread \in [Workers -> Tasks \cup {None}]
  /\ task \in [Tasks -> {"new", "running", "returned", "ended"}]
  /\ runner \in [Tasks -> Workers \cup {0}]
  /\ mtx \in Clients \cup {None}
  /\ joining \in BOOLEAN
  /\ pc \in [Clients -> {"idle", "get", "scan", "swap", "swapStarted", "swapDone",
                         "tmpJoin", "got", "join", "joinScan"}]
  /\ idx \in [Clients -> 1 .. N + 1]
  /\ tmp \in [Clients -> [started : BOOLEAN, done : BOOLEAN, thread : Tasks \cup {None}]]
  /\ terminated \in BOOLEAN

Init ==
  /\ started = [w \in Workers |-> FALSE]
  /\ done = [w \in Workers |-> FALSE]
  /\ thread = [w \in Workers |-> None]
  /\ task = [t \in Tasks |-> "new"]
  /\ runner = [t \in Tasks |-> 0]
  /\ mtx = None
  /\ joining = FALSE
  /\ pc = [c \in Clients |-> "idle"]
  /\ idx = [c \in Clients |-> 1]
  /\ tmp = [c \in Clients |-> FreshWorker]
  /\ terminated = FALSE

Goto(c, label) == pc' = [pc EXCEPT ![c] = label]

-----------------------------------------------------------------------------
(* ThreadPool::get *)

\* Mutant of Free: a worker whose task still executes counts as free
FreeWhileBusy(w) == TRUE

\* Worker::operator bool: the worker has no task, or a finished one
Free(w) == ~started[w] \/ (started[w] /\ done[w])

GetCall(c) ==
  /\ c \in Submitters
  /\ pc[c] = "idle"
  /\ LateSubmit \/ ~joining
  /\ \E t \in Tasks : task[t] = "new"
  /\ Goto(c, "get")
  /\ UNCHANGED <<workerVars, taskVars, mtx, joining, idx, tmp, terminated>>

\* Mutant of GetLock: the scan starts without the pool mutex
GetUnlocked(c) ==
  /\ pc[c] = "get"
  /\ idx' = [idx EXCEPT ![c] = 1]
  /\ Goto(c, "scan")
  /\ UNCHANGED <<workerVars, taskVars, mtx, joining, tmp, terminated>>

GetLock(c) ==
  /\ pc[c] = "get"
  /\ mtx = None
  /\ mtx' = c
  /\ idx' = [idx EXCEPT ![c] = 1]
  /\ Goto(c, "scan")
  /\ UNCHANGED <<workerVars, taskVars, joining, tmp, terminated>>

\* One turn of the scan: take a free worker with a fresh tmp, or go on to the next
GetCheck(c) ==
  /\ pc[c] = "scan"
  /\ idx[c] \in Workers
  /\ IF Free(idx[c])
       THEN /\ tmp' = [tmp EXCEPT ![c] = FreshWorker]
            /\ Goto(c, "swap")
            /\ UNCHANGED idx
       ELSE /\ idx' = [idx EXCEPT ![c] = @ + 1]
            /\ UNCHANGED <<pc, tmp>>
  /\ UNCHANGED <<workerVars, taskVars, mtx, joining, terminated>>

\* Mutant of GetRetry: the mutex is still held when the scan starts over
GetRetryLocked(c) ==
  /\ pc[c] = "scan"
  /\ idx[c] \notin Workers
  /\ Goto(c, "get")
  /\ UNCHANGED <<workerVars, taskVars, mtx, joining, idx, tmp, terminated>>

\* Every worker was busy: sleep and start over, with or without the mutex
GetRetry(c) ==
  /\ pc[c] = "scan"
  /\ idx[c] \notin Workers
  /\ IF HoldOnSleep
       THEN idx' = [idx EXCEPT ![c] = 1] /\ UNCHANGED <<pc, mtx>>
       ELSE Goto(c, "get") /\ mtx' = None /\ UNCHANGED idx
  /\ UNCHANGED <<workerVars, taskVars, joining, tmp, terminated>>

\* Worker::swap(tmp), assignment by assignment
SwapThread(c) ==
  /\ pc[c] = "swap"
  /\ thread' = [thread EXCEPT ![idx[c]] = tmp[c].thread]
  /\ tmp' = [tmp EXCEPT ![c].thread = thread[idx[c]]]
  /\ Goto(c, "swapStarted")
  /\ UNCHANGED <<started, done, taskVars, mtx, joining, idx, terminated>>

SwapStarted(c) ==
  /\ pc[c] = "swapStarted"
  /\ started' = [started EXCEPT ![idx[c]] = tmp[c].started]
  /\ tmp' = [tmp EXCEPT ![c].started = started[idx[c]]]
  /\ Goto(c, "swapDone")
  /\ UNCHANGED <<thread, done, taskVars, mtx, joining, idx, terminated>>

SwapDone(c) ==
  /\ pc[c] = "swapDone"
  /\ done' = [done EXCEPT ![idx[c]] = tmp[c].done]
  /\ tmp' = [tmp EXCEPT ![c].done = done[idx[c]]]
  /\ Goto(c, "tmpJoin")
  /\ UNCHANGED <<thread, started, taskVars, mtx, joining, idx, terminated>>

\* std::thread::join returns at once: there is no thread, or its function has returned
Ended(t) == t # None => task[t] = "ended"

\* The destructor of tmp joins the previous thread, then the mutex is released.
\* While tmp is started and not done the destructor polls, which changes nothing.
TmpJoin(c) ==
  /\ pc[c] = "tmpJoin"
  /\ ~tmp[c].started \/ (tmp[c].done /\ Ended(tmp[c].thread))
  /\ tmp' = [tmp EXCEPT ![c] = FreshWorker]
  /\ mtx' = None
  /\ Goto(c, "got")
  /\ UNCHANGED <<workerVars, taskVars, joining, idx, terminated>>

-----------------------------------------------------------------------------
(* Worker::run and Worker::wrapper *)

\* Move-assigning a std::thread over a joinable one calls std::terminate
Run(c, t) ==
  /\ pc[c] = "got"
  /\ task[t] = "new"
  /\ LET w == idx[c] IN
       /\ started' = [started EXCEPT ![w] = TRUE]
       /\ thread' = [thread EXCEPT ![w] = t]
       /\ runner' = [runner EXCEPT ![t] = w]
       /\ terminated' = (thread[w] # None)
  /\ task' = [task EXCEPT ![t] = "running"]
  /\ Goto(c, "idle")
  /\ UNCHANGED <<done, mtx, joining, idx, tmp>>

\* Mutant of WrapperDone: done_ is not raised
WrapperSilent(t) ==
  /\ task[t] = "returned"
  /\ task' = [task EXCEPT ![t] = "ended"]
  /\ UNCHANGED <<workerVars, runner, mtx, joining, pc, idx, tmp, terminated>>

FnReturn(t) ==
  /\ task[t] = "running"
  /\ task' = [task EXCEPT ![t] = "returned"]
  /\ UNCHANGED <<workerVars, runner, mtx, joining, pc, idx, tmp, terminated>>

WrapperDone(t) ==
  /\ task[t] = "returned"
  /\ task' = [task EXCEPT ![t] = "ended"]
  /\ done' = [done EXCEPT ![runner[t]] = TRUE]
  /\ UNCHANGED <<started, thread, runner, mtx, joining, pc, idx, tmp, terminated>>

-----------------------------------------------------------------------------
(* ThreadPool::join *)

JoinCall(c) ==
  /\ c \in Joiners
  /\ pc[c] = "idle"
  /\ Goto(c, "join")
  /\ UNCHANGED <<workerVars, taskVars, mtx, joining, idx, tmp, terminated>>

\* Only the first call joins: joining_ is never cleared
JoinLock(c) ==
  /\ pc[c] = "join"
  /\ mtx = None
  /\ IF joining
       THEN Goto(c, "idle") /\ UNCHANGED <<mtx, joining, idx>>
       ELSE /\ mtx' = c
            /\ joining' = TRUE
            /\ idx' = [idx EXCEPT ![c] = 1]
            /\ Goto(c, "joinScan")
  /\ UNCHANGED <<workerVars, taskVars, tmp, terminated>>

\* Mutant of JoinWorker: Worker::join gives up on a task that still executes
JoinWorkerImpatient(c) ==
  /\ pc[c] = "joinScan"
  /\ idx[c] \in Workers
  /\ idx' = [idx EXCEPT ![c] = @ + 1]
  /\ UNCHANGED <<workerVars, taskVars, mtx, joining, pc, tmp, terminated>>

\* Worker::join of the next worker: skip an idle one, join a finished one; while
\* it is started and not done the loop polls every 10 ms, which changes nothing
JoinWorker(c) ==
  /\ pc[c] = "joinScan"
  /\ idx[c] \in Workers
  /\ LET w == idx[c] IN
       \/ /\ ~started[w]
          /\ UNCHANGED workerVars
       \/ /\ started[w]
          /\ done[w]
          /\ Ended(thread[w])
          /\ thread' = [thread EXCEPT ![w] = None]
          /\ started' = [started EXCEPT ![w] = FALSE]
          /\ done' = [done EXCEPT ![w] = FALSE]
  /\ idx' = [idx EXCEPT ![c] = @ + 1]
  /\ UNCHANGED <<taskVars, mtx, joining, pc, tmp, terminated>>

JoinReturn(c) ==
  /\ pc[c] = "joinScan"
  /\ idx[c] \notin Workers
  /\ mtx' = None
  /\ idx' = [idx EXCEPT ![c] = 1]
  /\ Goto(c, "idle")
  /\ UNCHANGED <<workerVars, taskVars, joining, tmp, terminated>>

-----------------------------------------------------------------------------

GetStep(c) ==
  \/ GetCheck(c) \/ GetRetry(c)
  \/ SwapThread(c) \/ SwapStarted(c) \/ SwapDone(c) \/ TmpJoin(c)
JoinStep(c) == JoinWorker(c) \/ JoinReturn(c)
ClientStep(c) == GetStep(c) \/ JoinStep(c) \/ \E t \in Tasks : Run(c, t)

Lock(c) == GetLock(c) \/ JoinLock(c)
Call(c) == GetCall(c) \/ JoinCall(c)

Next ==
  /\ ~terminated
  /\ \/ \E c \in Clients : Call(c) \/ Lock(c) \/ ClientStep(c)
     \/ \E t \in Tasks : FnReturn(t) \/ WrapperDone(t)

Spec == Init /\ [][Next]_vars

\* Threads are scheduled, a mutex that is free again and again is eventually
\* obtained (get() sleeps 10 ms without it), and the tasks terminate
Fairness ==
  /\ \A c \in Clients : WF_vars(ClientStep(c)) /\ SF_vars(Lock(c))
  /\ \A t \in Tasks : WF_vars(FnReturn(t)) /\ WF_vars(WrapperDone(t))

FairSpec == Spec /\ Fairness

-----------------------------------------------------------------------------
(* Properties *)

Holding == {"scan", "swap", "swapStarted", "swapDone", "tmpJoin", "joinScan"}
Submitting == {"get", "scan", "swap", "swapStarted", "swapDone", "tmpJoin", "got"}

MutexInv == \A c \in Clients : mtx = c <=> pc[c] \in Holding
RoleInv == \A c \in Clients : pc[c] \in Submitting => c \in Submitters

\* A worker that owns a thread is started and knows whether the task has ended; one that
\* owns none is idle, except between the assignments of swap()
WorkerOK(w) ==
  /\ thread[w] # None =>
       /\ runner[thread[w]] = w
       /\ task[thread[w]] # "new"
       /\ started[w]
       /\ done[w] <=> task[thread[w]] = "ended"
  /\ thread[w] = None /\ (started[w] \/ done[w]) =>
       mtx \in Clients /\ pc[mtx] \in {"swapStarted", "swapDone"} /\ idx[mtx] = w

WorkerInv == \A w \in Workers : WorkerOK(w)

\* A task that is executing belongs to the worker that started it
TaskInv ==
  \A t \in Tasks : task[t] \in {"running", "returned"} =>
    runner[t] \in Workers /\ thread[runner[t]] = t

\* What get() has in hand at each step: done_ travels with the thread it speaks of
GetOK(c) ==
  LET w == idx[c]
      had == tmp[c].thread # None
  IN
  /\ pc[c] = "swap" => w \in Workers /\ Free(w) /\ tmp[c] = FreshWorker
  /\ pc[c] \in {"swapStarted", "swapDone", "tmpJoin"} =>
       /\ w \in Workers
       /\ thread[w] = None
       /\ had => task[tmp[c].thread] = "ended"
       /\ started[w] <=> (had /\ pc[c] = "swapStarted")
       /\ done[w] <=> (had /\ pc[c] # "tmpJoin")
       /\ tmp[c].started <=> (had /\ pc[c] # "swapStarted")
       /\ tmp[c].done <=> (had /\ pc[c] = "tmpJoin")
  /\ pc[c] = "got" => w \in Workers /\ ~started[w] /\ ~done[w] /\ thread[w] = None

GetInv == \A c \in Clients : GetOK(c)

\* run() never assigns over a thread that is still joinable, which would end the
\* process: the reference that get() returned stays empty until its run() (get, run).
NoTerminate == ~terminated

ConsistentInv == TypeOK /\ MutexInv /\ RoleInv /\ WorkerInv /\ TaskInv /\ GetInv

\* How src/thread_pool/main.cpp uses a pool: the thread that submits joins in the end
SequentialUse == ~LateSubmit /\ \A c, d \in Clients : c = d

\* Then no submission is under way while joining_ is up, and the threads of the workers
\* that join() has passed are gone
JoinedInv ==
  SequentialUse => \A c \in Clients :
    /\ joining => pc[c] \in {"idle", "join", "joinScan"}
    /\ pc[c] = "joinScan" => joining /\ \A w \in Workers : w < idx[c] => thread[w] = None
    /\ joining /\ pc[c] # "joinScan" => \A w \in Workers : thread[w] = None

\* The consistency of workers, threads and tasks through get(), run(), wrapper() and
\* join(): a busy worker is never handed out or skipped, although swap() moves threads
\* without the worker's mutex, and nobody waits for a running task while holding a mutex.
PoolInv == ConsistentInv /\ JoinedInv

\* join() "will not return back until pool is empty" (src/thread_pool/readme.md): when it
\* returns, by either path, no task is executing and no thread is left to join.
JoinDrains ==
  [][\A c \in Clients : pc[c] \in {"join", "joinScan"} /\ pc'[c] = "idle" =>
       /\ \A t \in Tasks : task[t] \in {"new", "ended"}
       /\ \A w \in Workers : thread[w] = None]_vars

\* With tasks that terminate, every get() and every join() returns.
CallsReturn ==
  \A c \in Clients : /\ pc[c] = "get" ~> pc[c] = "got"
                    /\ pc[c] = "join" ~> pc[c] = "idle"

\* The pool is a bounded runner: a task is active from run() until its wrapper has
\* ended, the pool is drained when the first join() has returned.
Runner == INSTANCE BoundedRunner WITH
  Bound <- N,
  status <- [t \in Tasks |-> IF task[t] = "new" THEN "new"
                             ELSE IF task[t] = "ended" THEN "finished" ELSE "active"],
  drained <- joining /\ \A c \in Clients : pc[c] # "joinScan"

\* Used by one thread that submits and then joins, the pool executes at most N tasks at
\* a time and none once join() has returned (get, run, wrapper, join).
RunnerSpec == Runner!Spec
=============================================================================
