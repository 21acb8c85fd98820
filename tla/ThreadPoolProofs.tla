-------------------------- MODULE ThreadPoolProofs --------------------------
(***************************************************************************)
(* Proofs about ThreadPool, for every size of the pool and every set of    *)
(* tasks.  ConsistentInv is inductive: each action is a lemma, with one    *)
(* step for each part of the invariant, and the theorems follow from them. *)
(***************************************************************************)
EXTENDS ThreadPool, FiniteSetTheorems, TLAPS

USE NAssumption, NoneAssumption, UsageAssumption, SubmitterAssumption DEF Workers, Clients

\* The invariant holds initially.
LEMMA InitInv == Init => ConsistentInv
<1> SUFFICES ASSUME Init PROVE ConsistentInv
  OBVIOUS
<1>1. TypeOK
  <2>1. started \in [Workers -> BOOLEAN] /\ done \in [Workers -> BOOLEAN]
    BY DEF Init
  <2>2. idx \in [Clients -> 1 .. N + 1]
    BY DEF Init
  <2>3. tmp \in [Clients -> [started : BOOLEAN, done : BOOLEAN, thread : Tasks \cup {None}]]
    BY DEF Init, FreshWorker
  <2>4. thread \in [Workers -> Tasks \cup {None}] /\ runner \in [Tasks -> Workers \cup {0}]
    BY DEF Init
  <2> QED
    BY <2>1, <2>2, <2>3, <2>4 DEF Init, TypeOK
<1>2. MutexInv /\ RoleInv
  BY DEF Init, MutexInv, RoleInv, Holding, Submitting
<1>3. WorkerInv /\ TaskInv
  BY DEF Init, WorkerInv, WorkerOK, TaskInv
<1>4. GetInv
  BY DEF Init, GetInv, GetOK
<1> QED
  BY <1>1, <1>2, <1>3, <1>4 DEF ConsistentInv

\* GetCall preserves the invariant.
LEMMA GetCallInv ==
  ASSUME ConsistentInv, NEW c \in Clients, GetCall(c)
  PROVE  ConsistentInv'
<1> USE DEF GetCall, Goto, taskVars, workerVars
<1>0. TypeOK
  BY DEF ConsistentInv
<1>1. TypeOK'
  <2>1. pc' \in [Clients -> {"idle", "get", "scan", "swap", "swapStarted", "swapDone",
                          "tmpJoin", "got", "join", "joinScan"}]
    BY <1>0 DEF TypeOK, FreshWorker
  <2> QED
    BY <1>0, <2>1 DEF TypeOK
<1>2. MutexInv' /\ RoleInv'
  BY <1>0 DEF ConsistentInv, TypeOK, MutexInv, RoleInv, Holding, Submitting
<1>3. ASSUME NEW v \in Workers PROVE WorkerOK(v)'
  BY <1>0 DEF ConsistentInv, TypeOK, MutexInv, Holding, WorkerInv, WorkerOK, TaskInv, GetOK,
              FreshWorker, Free
<1>4. TaskInv'
  BY <1>0 DEF ConsistentInv, TypeOK, TaskInv, WorkerInv, WorkerOK, GetOK, Free, FreshWorker
<1>5. ASSUME NEW d \in Clients PROVE GetOK(d)'
  <2>1. CASE d = c
    BY <1>0, <2>1 DEF ConsistentInv, TypeOK, MutexInv, RoleInv, Holding, Submitting, WorkerInv,
                      WorkerOK, TaskInv, GetInv, GetOK, FreshWorker, Free
  <2>2. CASE d # c
    BY <1>0, <2>2 DEF ConsistentInv, TypeOK, MutexInv, RoleInv, Holding, Submitting, WorkerInv,
                      WorkerOK, TaskInv, GetInv, GetOK, FreshWorker, Free
  <2> QED
    BY <2>1, <2>2
<1> QED
  BY <1>1, <1>2, <1>3, <1>4, <1>5 DEF ConsistentInv, WorkerInv, GetInv

\* GetLock preserves the invariant.
LEMMA GetLockInv ==
  ASSUME ConsistentInv, NEW c \in Clients, GetLock(c)
  PROVE  ConsistentInv'
<1> USE DEF GetLock, Goto, taskVars, workerVars
<1>0. TypeOK
  BY DEF ConsistentInv
<1>1. TypeOK'
  <2>1. pc' \in [Clients -> {"idle", "get", "scan", "swap", "swapStarted", "swapDone",
                          "tmpJoin", "got", "join", "joinScan"}]
    BY <1>0 DEF TypeOK, FreshWorker
  <2>2. idx' \in [Clients -> 1 .. N + 1]
    BY <1>0 DEF TypeOK, FreshWorker
  <2> QED
    BY <1>0, <2>1, <2>2 DEF TypeOK
<1>2. MutexInv' /\ RoleInv'
  BY <1>0 DEF ConsistentInv, TypeOK, MutexInv, RoleInv, Holding, Submitting
<1>3. ASSUME NEW v \in Workers PROVE WorkerOK(v)'
  BY <1>0 DEF ConsistentInv, TypeOK, MutexInv, Holding, WorkerInv, WorkerOK, TaskInv, GetOK,
              FreshWorker, Free
<1>4. TaskInv'
  BY <1>0 DEF ConsistentInv, TypeOK, TaskInv, WorkerInv, WorkerOK, GetOK, Free, FreshWorker
<1>5. ASSUME NEW d \in Clients PROVE GetOK(d)'
  <2>1. CASE d = c
    BY <1>0, <2>1 DEF ConsistentInv, TypeOK, MutexInv, RoleInv, Holding, Submitting, WorkerInv,
                      WorkerOK, TaskInv, GetInv, GetOK, FreshWorker, Free
  <2>2. CASE d # c
    BY <1>0, <2>2 DEF ConsistentInv, TypeOK, MutexInv, RoleInv, Holding, Submitting, WorkerInv,
                      WorkerOK, TaskInv, GetInv, GetOK, FreshWorker, Free
  <2> QED
    BY <2>1, <2>2
<1> QED
  BY <1>1, <1>2, <1>3, <1>4, <1>5 DEF ConsistentInv, WorkerInv, GetInv

\* GetCheck preserves the invariant.
LEMMA GetCheckInv ==
  ASSUME ConsistentInv, NEW c \in Clients, GetCheck(c)
  PROVE  ConsistentInv'
<1> USE DEF GetCheck, Goto, taskVars, workerVars
<1>0. TypeOK
  BY DEF ConsistentInv
<1>1. TypeOK'
  <2>1. pc' \in [Clients -> {"idle", "get", "scan", "swap", "swapStarted", "swapDone",
                          "tmpJoin", "got", "join", "joinScan"}]
    BY <1>0 DEF TypeOK, FreshWorker
  <2>2. idx' \in [Clients -> 1 .. N + 1]
    <3>1. idx' = idx \/ idx' = [idx EXCEPT ![c] = idx[c] + 1]
      OBVIOUS
    <3>2. idx[c] + 1 \in 1 .. N + 1
      BY <1>0 DEF TypeOK
    <3> QED
      BY <1>0, <3>1, <3>2 DEF TypeOK
  <2>3. tmp' \in [Clients -> [started : BOOLEAN, done : BOOLEAN, thread : Tasks \cup {None}]]
    <3>1. CASE Free(idx[c])
      <4>1. FreshWorker \in [started : BOOLEAN, done : BOOLEAN, thread : Tasks \cup {None}]
        BY DEF FreshWorker
      <4>2. tmp' = [tmp EXCEPT ![c] = FreshWorker]
        BY <3>1
      <4> QED
        BY <1>0, <4>1, <4>2 DEF TypeOK
    <3>2. CASE ~Free(idx[c])
      BY <1>0, <3>2 DEF TypeOK
    <3> QED
      BY <3>1, <3>2
  <2> QED
    BY <1>0, <2>1, <2>2, <2>3 DEF TypeOK
<1>2. MutexInv' /\ RoleInv'
  BY <1>0 DEF ConsistentInv, TypeOK, MutexInv, RoleInv, Holding, Submitting
<1>3. ASSUME NEW v \in Workers PROVE WorkerOK(v)'
  BY <1>0 DEF ConsistentInv, TypeOK, MutexInv, Holding, WorkerInv, WorkerOK, TaskInv, GetOK,
              FreshWorker, Free
<1>4. TaskInv'
  BY <1>0 DEF ConsistentInv, TypeOK, TaskInv, WorkerInv, WorkerOK, GetOK, Free, FreshWorker
<1>5. ASSUME NEW d \in Clients PROVE GetOK(d)'
  <2>1. CASE d = c
    <3>1. CASE Free(idx[c])
      BY <1>0, <2>1, <3>1 DEF TypeOK, GetOK, FreshWorker, Free
    <3>2. CASE ~Free(idx[c])
      BY <1>0, <2>1, <3>2 DEF TypeOK, GetOK
    <3> QED
      BY <3>1, <3>2
  <2>2. CASE d # c
    BY <1>0, <2>2 DEF ConsistentInv, TypeOK, MutexInv, RoleInv, Holding, Submitting, WorkerInv,
                      WorkerOK, TaskInv, GetInv, GetOK, FreshWorker, Free
  <2> QED
    BY <2>1, <2>2
<1> QED
  BY <1>1, <1>2, <1>3, <1>4, <1>5 DEF ConsistentInv, WorkerInv, GetInv

\* GetRetry preserves the invariant.
LEMMA GetRetryInv ==
  ASSUME ConsistentInv, NEW c \in Clients, GetRetry(c)
  PROVE  ConsistentInv'
<1> USE DEF GetRetry, Goto, taskVars, workerVars
<1>0. TypeOK
  BY DEF ConsistentInv
<1>1. TypeOK'
  <2>1. pc' \in [Clients -> {"idle", "get", "scan", "swap", "swapStarted", "swapDone",
                          "tmpJoin", "got", "join", "joinScan"}]
    BY <1>0 DEF TypeOK, FreshWorker
  <2>2. idx' \in [Clients -> 1 .. N + 1]
    BY <1>0 DEF TypeOK, FreshWorker
  <2> QED
    BY <1>0, <2>1, <2>2 DEF TypeOK
<1>2. MutexInv' /\ RoleInv'
  BY <1>0 DEF ConsistentInv, TypeOK, MutexInv, RoleInv, Holding, Submitting
<1>3. ASSUME NEW v \in Workers PROVE WorkerOK(v)'
  BY <1>0 DEF ConsistentInv, TypeOK, MutexInv, Holding, WorkerInv, WorkerOK, TaskInv, GetOK,
              FreshWorker, Free
<1>4. TaskInv'
  BY <1>0 DEF ConsistentInv, TypeOK, TaskInv, WorkerInv, WorkerOK, GetOK, Free, FreshWorker
<1>5. ASSUME NEW d \in Clients PROVE GetOK(d)'
  <2>1. CASE d = c
    BY <1>0, <2>1 DEF ConsistentInv, TypeOK, MutexInv, RoleInv, Holding, Submitting, WorkerInv,
                      WorkerOK, TaskInv, GetInv, GetOK, FreshWorker, Free
  <2>2. CASE d # c
    BY <1>0, <2>2 DEF ConsistentInv, TypeOK, MutexInv, RoleInv, Holding, Submitting, WorkerInv,
                      WorkerOK, TaskInv, GetInv, GetOK, FreshWorker, Free
  <2> QED
    BY <2>1, <2>2
<1> QED
  BY <1>1, <1>2, <1>3, <1>4, <1>5 DEF ConsistentInv, WorkerInv, GetInv

\* SwapThread preserves the invariant.
LEMMA SwapThreadInv ==
  ASSUME ConsistentInv, NEW c \in Clients, SwapThread(c)
  PROVE  ConsistentInv'
<1> USE DEF SwapThread, Goto, taskVars, workerVars
<1>0. TypeOK /\ GetOK(c) /\ idx[c] \in Workers
  BY DEF ConsistentInv, GetInv, GetOK
<1>1. TypeOK'
  <2>1. thread' \in [Workers -> Tasks \cup {None}]
    BY <1>0 DEF TypeOK, FreshWorker
  <2>2. tmp' \in [Clients -> [started : BOOLEAN, done : BOOLEAN, thread : Tasks \cup {None}]]
    BY <1>0 DEF TypeOK, FreshWorker
  <2> QED
    BY <1>0, <2>1, <2>2 DEF TypeOK
<1>2. MutexInv' /\ RoleInv'
  BY <1>0 DEF ConsistentInv, TypeOK, MutexInv, RoleInv, Holding, Submitting
<1>3. ASSUME NEW v \in Workers PROVE WorkerOK(v)'
  <2>1. CASE v = idx[c]
    BY <1>0, <2>1 DEF ConsistentInv, TypeOK, MutexInv, Holding, WorkerInv, WorkerOK, TaskInv,
                      GetOK, FreshWorker, Free
  <2>2. CASE v # idx[c]
    BY <1>0, <2>2 DEF ConsistentInv, TypeOK, MutexInv, Holding, WorkerInv, WorkerOK, TaskInv,
                      GetOK, FreshWorker, Free
  <2> QED
    BY <2>1, <2>2
<1>4. TaskInv'
  BY <1>0 DEF ConsistentInv, TypeOK, TaskInv, WorkerInv, WorkerOK, GetOK, Free, FreshWorker
<1>5. ASSUME NEW d \in Clients PROVE GetOK(d)'
  <2>1. CASE d = c
    BY <1>0, <2>1 DEF ConsistentInv, TypeOK, MutexInv, RoleInv, Holding, Submitting, WorkerInv,
                      WorkerOK, TaskInv, GetInv, GetOK, FreshWorker, Free
  <2>2. CASE d # c
    BY <1>0, <2>2 DEF ConsistentInv, TypeOK, MutexInv, RoleInv, Holding, Submitting, WorkerInv,
                      WorkerOK, TaskInv, GetInv, GetOK, FreshWorker, Free
  <2> QED
    BY <2>1, <2>2
<1> QED
  BY <1>1, <1>2, <1>3, <1>4, <1>5 DEF ConsistentInv, WorkerInv, GetInv

\* SwapStarted preserves the invariant.
LEMMA SwapStartedInv ==
  ASSUME ConsistentInv, NEW c \in Clients, SwapStarted(c)
  PROVE  ConsistentInv'
<1> USE DEF SwapStarted, Goto, taskVars, workerVars
<1>0. TypeOK /\ GetOK(c) /\ idx[c] \in Workers
  BY DEF ConsistentInv, GetInv, GetOK
<1>1. TypeOK'
  <2>1. started' \in [Workers -> BOOLEAN]
    BY <1>0 DEF TypeOK, FreshWorker
  <2>2. tmp' \in [Clients -> [started : BOOLEAN, done : BOOLEAN, thread : Tasks \cup {None}]]
    BY <1>0 DEF TypeOK, FreshWorker
  <2> QED
    BY <1>0, <2>1, <2>2 DEF TypeOK
<1>2. MutexInv' /\ RoleInv'
  BY <1>0 DEF ConsistentInv, TypeOK, MutexInv, RoleInv, Holding, Submitting
<1>3. ASSUME NEW v \in Workers PROVE WorkerOK(v)'
  <2>1. CASE v = idx[c]
    BY <1>0, <2>1 DEF ConsistentInv, TypeOK, MutexInv, Holding, WorkerInv, WorkerOK, TaskInv,
                      GetOK, FreshWorker, Free
  <2>2. CASE v # idx[c]
    BY <1>0, <2>2 DEF ConsistentInv, TypeOK, MutexInv, Holding, WorkerInv, WorkerOK, TaskInv,
                      GetOK, FreshWorker, Free
  <2> QED
    BY <2>1, <2>2
<1>4. TaskInv'
  BY <1>0 DEF ConsistentInv, TypeOK, TaskInv, WorkerInv, WorkerOK, GetOK, Free, FreshWorker
<1>5. ASSUME NEW d \in Clients PROVE GetOK(d)'
  <2>1. CASE d = c
    BY <1>0, <2>1 DEF ConsistentInv, TypeOK, MutexInv, RoleInv, Holding, Submitting, WorkerInv,
                      WorkerOK, TaskInv, GetInv, GetOK, FreshWorker, Free
  <2>2. CASE d # c
    BY <1>0, <2>2 DEF ConsistentInv, TypeOK, MutexInv, RoleInv, Holding, Submitting, WorkerInv,
                      WorkerOK, TaskInv, GetInv, GetOK, FreshWorker, Free
  <2> QED
    BY <2>1, <2>2
<1> QED
  BY <1>1, <1>2, <1>3, <1>4, <1>5 DEF ConsistentInv, WorkerInv, GetInv

\* SwapDone preserves the invariant.
LEMMA SwapDoneInv ==
  ASSUME ConsistentInv, NEW c \in Clients, SwapDone(c)
  PROVE  ConsistentInv'
<1> USE DEF SwapDone, Goto, taskVars, workerVars
<1>0. TypeOK /\ GetOK(c) /\ idx[c] \in Workers
  BY DEF ConsistentInv, GetInv, GetOK
<1>1. TypeOK'
  <2>1. done' \in [Workers -> BOOLEAN]
    BY <1>0 DEF TypeOK, FreshWorker
  <2>2. tmp' \in [Clients -> [started : BOOLEAN, done : BOOLEAN, thread : Tasks \cup {None}]]
    BY <1>0 DEF TypeOK, FreshWorker
  <2> QED
    BY <1>0, <2>1, <2>2 DEF TypeOK
<1>2. MutexInv' /\ RoleInv'
  BY <1>0 DEF ConsistentInv, TypeOK, MutexInv, RoleInv, Holding, Submitting
<1>3. ASSUME NEW v \in Workers PROVE WorkerOK(v)'
  <2>1. CASE v = idx[c]
    BY <1>0, <2>1 DEF ConsistentInv, TypeOK, MutexInv, Holding, WorkerInv, WorkerOK, TaskInv,
                      GetOK, FreshWorker, Free
  <2>2. CASE v # idx[c]
    BY <1>0, <2>2 DEF ConsistentInv, TypeOK, MutexInv, Holding, WorkerInv, WorkerOK, TaskInv,
                      GetOK, FreshWorker, Free
  <2> QED
    BY <2>1, <2>2
<1>4. TaskInv'
  BY <1>0 DEF ConsistentInv, TypeOK, TaskInv, WorkerInv, WorkerOK, GetOK, Free, FreshWorker
<1>5. ASSUME NEW d \in Clients PROVE GetOK(d)'
  <2>1. CASE d = c
    BY <1>0, <2>1 DEF ConsistentInv, TypeOK, MutexInv, RoleInv, Holding, Submitting, WorkerInv,
                      WorkerOK, TaskInv, GetInv, GetOK, FreshWorker, Free
  <2>2. CASE d # c
    BY <1>0, <2>2 DEF ConsistentInv, TypeOK, MutexInv, RoleInv, Holding, Submitting, WorkerInv,
                      WorkerOK, TaskInv, GetInv, GetOK, FreshWorker, Free
  <2> QED
    BY <2>1, <2>2
<1> QED
  BY <1>1, <1>2, <1>3, <1>4, <1>5 DEF ConsistentInv, WorkerInv, GetInv

\* TmpJoin preserves the invariant.
LEMMA TmpJoinInv ==
  ASSUME ConsistentInv, NEW c \in Clients, TmpJoin(c)
  PROVE  ConsistentInv'
<1> USE DEF TmpJoin, Goto, taskVars, workerVars
<1>0. TypeOK /\ GetOK(c) /\ idx[c] \in Workers
  BY DEF ConsistentInv, GetInv, GetOK
<1>1. TypeOK'
  <2>1. tmp' \in [Clients -> [started : BOOLEAN, done : BOOLEAN, thread : Tasks \cup {None}]]
    BY <1>0 DEF TypeOK, FreshWorker
  <2> QED
    BY <1>0, <2>1 DEF TypeOK
<1>2. MutexInv' /\ RoleInv'
  BY <1>0 DEF ConsistentInv, TypeOK, MutexInv, RoleInv, Holding, Submitting
<1>3. ASSUME NEW v \in Workers PROVE WorkerOK(v)'
  <2>1. CASE v = idx[c]
    BY <1>0, <2>1 DEF ConsistentInv, TypeOK, MutexInv, Holding, WorkerInv, WorkerOK, TaskInv,
                      GetOK, FreshWorker, Free
  <2>2. CASE v # idx[c]
    BY <1>0, <2>2 DEF ConsistentInv, TypeOK, MutexInv, Holding, WorkerInv, WorkerOK, TaskInv,
                      GetOK, FreshWorker, Free
  <2> QED
    BY <2>1, <2>2
<1>4. TaskInv'
  BY <1>0 DEF ConsistentInv, TypeOK, TaskInv, WorkerInv, WorkerOK, GetOK, Free, FreshWorker
<1>5. ASSUME NEW d \in Clients PROVE GetOK(d)'
  <2>1. CASE d = c
    BY <1>0, <2>1 DEF ConsistentInv, TypeOK, MutexInv, RoleInv, Holding, Submitting, WorkerInv,
                      WorkerOK, TaskInv, GetInv, GetOK, FreshWorker, Free
  <2>2. CASE d # c
    BY <1>0, <2>2 DEF ConsistentInv, TypeOK, MutexInv, RoleInv, Holding, Submitting, WorkerInv,
                      WorkerOK, TaskInv, GetInv, GetOK, FreshWorker, Free
  <2> QED
    BY <2>1, <2>2
<1> QED
  BY <1>1, <1>2, <1>3, <1>4, <1>5 DEF ConsistentInv, WorkerInv, GetInv

\* Run preserves the invariant.
LEMMA RunInv ==
  ASSUME ConsistentInv, NEW c \in Clients, NEW t \in Tasks, Run(c, t)
  PROVE  ConsistentInv' /\ terminated' = FALSE
<1> USE DEF Run, Goto, taskVars, workerVars
<1>0. TypeOK /\ idx[c] \in Workers /\ ~started[idx[c]] /\ ~done[idx[c]] /\ thread[idx[c]] = None
  BY DEF ConsistentInv, GetInv, GetOK
<1>1. TypeOK'
  <2>1. started' \in [Workers -> BOOLEAN]
    BY <1>0 DEF TypeOK, FreshWorker
  <2>2. thread' \in [Workers -> Tasks \cup {None}]
    BY <1>0 DEF TypeOK, FreshWorker
  <2>3. runner' \in [Tasks -> Workers \cup {0}]
    BY <1>0 DEF TypeOK, FreshWorker
  <2>4. task' \in [Tasks -> {"new", "running", "returned", "ended"}]
    BY <1>0 DEF TypeOK, FreshWorker
  <2>5. pc' \in [Clients -> {"idle", "get", "scan", "swap", "swapStarted", "swapDone",
                          "tmpJoin", "got", "join", "joinScan"}]
    BY <1>0 DEF TypeOK, FreshWorker
  <2> QED
    BY <1>0, <2>1, <2>2, <2>3, <2>4, <2>5 DEF TypeOK
<1>2. MutexInv' /\ RoleInv'
  BY <1>0 DEF ConsistentInv, TypeOK, MutexInv, RoleInv, Holding, Submitting
<1>3. ASSUME NEW v \in Workers PROVE WorkerOK(v)'
  <2>1. CASE v = idx[c]
    BY <1>0, <2>1 DEF ConsistentInv, TypeOK, MutexInv, Holding, WorkerInv, WorkerOK, TaskInv,
                      GetOK, FreshWorker, Free
  <2>2. CASE v # idx[c]
    BY <1>0, <2>2 DEF ConsistentInv, TypeOK, MutexInv, Holding, WorkerInv, WorkerOK, TaskInv,
                      GetOK, FreshWorker, Free
  <2> QED
    BY <2>1, <2>2
<1>4. TaskInv'
  BY <1>0 DEF ConsistentInv, TypeOK, TaskInv, WorkerInv, WorkerOK, GetOK, Free, FreshWorker
<1>5. ASSUME NEW d \in Clients PROVE GetOK(d)'
  <2>1. CASE d = c
    BY <1>0, <2>1 DEF ConsistentInv, TypeOK, MutexInv, RoleInv, Holding, Submitting, WorkerInv,
                      WorkerOK, TaskInv, GetInv, GetOK, FreshWorker, Free
  <2>2. CASE d # c
    BY <1>0, <2>2 DEF ConsistentInv, TypeOK, MutexInv, RoleInv, Holding, Submitting, WorkerInv,
                      WorkerOK, TaskInv, GetInv, GetOK, FreshWorker, Free
  <2> QED
    BY <2>1, <2>2
<1>6. terminated' = FALSE
  BY <1>0
<1> QED
  BY <1>1, <1>2, <1>3, <1>4, <1>5, <1>6 DEF ConsistentInv, WorkerInv, GetInv

\* FnReturn preserves the invariant.
LEMMA FnReturnInv ==
  ASSUME ConsistentInv, NEW t \in Tasks, FnReturn(t)
  PROVE  ConsistentInv'
<1> USE DEF FnReturn, Goto, taskVars, workerVars
<1>0. TypeOK
  BY DEF ConsistentInv
<1>1. TypeOK'
  <2>1. task' \in [Tasks -> {"new", "running", "returned", "ended"}]
    BY <1>0 DEF TypeOK, FreshWorker
  <2> QED
    BY <1>0, <2>1 DEF TypeOK
<1>2. MutexInv' /\ RoleInv'
  BY <1>0 DEF ConsistentInv, TypeOK, MutexInv, RoleInv, Holding, Submitting
<1>3. ASSUME NEW v \in Workers PROVE WorkerOK(v)'
  BY <1>0 DEF ConsistentInv, TypeOK, MutexInv, Holding, WorkerInv, WorkerOK, TaskInv, GetOK,
              FreshWorker, Free
<1>4. TaskInv'
  BY <1>0 DEF ConsistentInv, TypeOK, TaskInv, WorkerInv, WorkerOK, GetOK, Free, FreshWorker
<1>5. ASSUME NEW d \in Clients PROVE GetOK(d)'
  <2>1. GetOK(d) /\ tmp[d].thread \in Tasks \cup {None}
    BY <1>0 DEF ConsistentInv, TypeOK, GetInv
  <2>2. tmp[d].thread # None /\ task[tmp[d].thread] = "ended" => task'[tmp[d].thread] = "ended"
    BY <1>0, <2>1 DEF TypeOK
  <2> QED
    BY <2>1, <2>2 DEF GetOK, Free
<1> QED
  BY <1>1, <1>2, <1>3, <1>4, <1>5 DEF ConsistentInv, WorkerInv, GetInv

\* WrapperDone preserves the invariant.
LEMMA WrapperDoneInv ==
  ASSUME ConsistentInv, NEW t \in Tasks, WrapperDone(t)
  PROVE  ConsistentInv'
<1> USE DEF WrapperDone, Goto, taskVars, workerVars
<1>0. TypeOK /\ runner[t] \in Workers /\ thread[runner[t]] = t
  BY DEF ConsistentInv, TypeOK, TaskInv
<1>1. TypeOK'
  <2>1. task' \in [Tasks -> {"new", "running", "returned", "ended"}]
    BY <1>0 DEF TypeOK, FreshWorker
  <2>2. done' \in [Workers -> BOOLEAN]
    BY <1>0 DEF TypeOK, FreshWorker
  <2> QED
    BY <1>0, <2>1, <2>2 DEF TypeOK
<1>2. MutexInv' /\ RoleInv'
  BY <1>0 DEF ConsistentInv, TypeOK, MutexInv, RoleInv, Holding, Submitting
<1>3. ASSUME NEW v \in Workers PROVE WorkerOK(v)'
  <2>1. CASE v = runner[t]
    BY <1>0, <2>1 DEF ConsistentInv, TypeOK, MutexInv, Holding, WorkerInv, WorkerOK, TaskInv,
                      GetOK, FreshWorker, Free
  <2>2. CASE v # runner[t]
    BY <1>0, <2>2 DEF ConsistentInv, TypeOK, MutexInv, Holding, WorkerInv, WorkerOK, TaskInv,
                      GetOK, FreshWorker, Free
  <2> QED
    BY <2>1, <2>2
<1>4. TaskInv'
  BY <1>0 DEF ConsistentInv, TypeOK, TaskInv, WorkerInv, WorkerOK, GetOK, Free, FreshWorker
<1>5. ASSUME NEW d \in Clients PROVE GetOK(d)'
  <2>1. GetOK(d) /\ tmp[d].thread \in Tasks \cup {None}
    BY <1>0 DEF ConsistentInv, TypeOK, GetInv
  <2>2. tmp[d].thread # None /\ task[tmp[d].thread] = "ended" => task'[tmp[d].thread] = "ended"
    BY <1>0, <2>1 DEF TypeOK
  <2>3. idx[d] \in Workers /\ idx[d] # runner[t] => done'[idx[d]] = done[idx[d]]
    BY <1>0 DEF TypeOK
  <2>4. CASE idx[d] = runner[t]
    BY <1>0, <2>1, <2>4 DEF ConsistentInv, TypeOK, WorkerInv, WorkerOK, GetOK, Free
  <2>5. CASE idx[d] # runner[t]
    BY <2>1, <2>2, <2>3, <2>5 DEF GetOK, Free
  <2> QED
    BY <2>4, <2>5
<1> QED
  BY <1>1, <1>2, <1>3, <1>4, <1>5 DEF ConsistentInv, WorkerInv, GetInv

\* JoinCall preserves the invariant.
LEMMA JoinCallInv ==
  ASSUME ConsistentInv, NEW c \in Clients, JoinCall(c)
  PROVE  ConsistentInv'
<1> USE DEF JoinCall, Goto, taskVars, workerVars
<1>0. TypeOK
  BY DEF ConsistentInv
<1>1. TypeOK'
  <2>1. pc' \in [Clients -> {"idle", "get", "scan", "swap", "swapStarted", "swapDone",
                          "tmpJoin", "got", "join", "joinScan"}]
    BY <1>0 DEF TypeOK, FreshWorker
  <2> QED
    BY <1>0, <2>1 DEF TypeOK
<1>2. MutexInv' /\ RoleInv'
  BY <1>0 DEF ConsistentInv, TypeOK, MutexInv, RoleInv, Holding, Submitting
<1>3. ASSUME NEW v \in Workers PROVE WorkerOK(v)'
  BY <1>0 DEF ConsistentInv, TypeOK, MutexInv, Holding, WorkerInv, WorkerOK, TaskInv, GetOK,
              FreshWorker, Free
<1>4. TaskInv'
  BY <1>0 DEF ConsistentInv, TypeOK, TaskInv, WorkerInv, WorkerOK, GetOK, Free, FreshWorker
<1>5. ASSUME NEW d \in Clients PROVE GetOK(d)'
  <2>1. CASE d = c
    BY <1>0, <2>1 DEF ConsistentInv, TypeOK, MutexInv, RoleInv, Holding, Submitting, WorkerInv,
                      WorkerOK, TaskInv, GetInv, GetOK, FreshWorker, Free
  <2>2. CASE d # c
    BY <1>0, <2>2 DEF ConsistentInv, TypeOK, MutexInv, RoleInv, Holding, Submitting, WorkerInv,
                      WorkerOK, TaskInv, GetInv, GetOK, FreshWorker, Free
  <2> QED
    BY <2>1, <2>2
<1> QED
  BY <1>1, <1>2, <1>3, <1>4, <1>5 DEF ConsistentInv, WorkerInv, GetInv

\* JoinLock preserves the invariant.
LEMMA JoinLockInv ==
  ASSUME ConsistentInv, NEW c \in Clients, JoinLock(c)
  PROVE  ConsistentInv'
<1> USE DEF JoinLock, Goto, taskVars, workerVars
<1>0. TypeOK
  BY DEF ConsistentInv
<1>1. TypeOK'
  <2>1. pc' \in [Clients -> {"idle", "get", "scan", "swap", "swapStarted", "swapDone",
                          "tmpJoin", "got", "join", "joinScan"}]
    BY <1>0 DEF TypeOK, FreshWorker
  <2>2. idx' \in [Clients -> 1 .. N + 1]
    BY <1>0 DEF TypeOK, FreshWorker
  <2>3. mtx' \in Clients \cup {None} /\ joining' \in BOOLEAN
    BY <1>0 DEF TypeOK, FreshWorker
  <2> QED
    BY <1>0, <2>1, <2>2, <2>3 DEF TypeOK
<1>2. MutexInv' /\ RoleInv'
  BY <1>0 DEF ConsistentInv, TypeOK, MutexInv, RoleInv, Holding, Submitting
<1>3. ASSUME NEW v \in Workers PROVE WorkerOK(v)'
  BY <1>0 DEF ConsistentInv, TypeOK, MutexInv, Holding, WorkerInv, WorkerOK, TaskInv, GetOK,
              FreshWorker, Free
<1>4. TaskInv'
  BY <1>0 DEF ConsistentInv, TypeOK, TaskInv, WorkerInv, WorkerOK, GetOK, Free, FreshWorker
<1>5. ASSUME NEW d \in Clients PROVE GetOK(d)'
  <2>1. CASE d = c
    BY <1>0, <2>1 DEF ConsistentInv, TypeOK, MutexInv, RoleInv, Holding, Submitting, WorkerInv,
                      WorkerOK, TaskInv, GetInv, GetOK, FreshWorker, Free
  <2>2. CASE d # c
    BY <1>0, <2>2 DEF ConsistentInv, TypeOK, MutexInv, RoleInv, Holding, Submitting, WorkerInv,
                      WorkerOK, TaskInv, GetInv, GetOK, FreshWorker, Free
  <2> QED
    BY <2>1, <2>2
<1> QED
  BY <1>1, <1>2, <1>3, <1>4, <1>5 DEF ConsistentInv, WorkerInv, GetInv

\* JoinWorker preserves the invariant.
LEMMA JoinWorkerInv ==
  ASSUME ConsistentInv, NEW c \in Clients, JoinWorker(c)
  PROVE  ConsistentInv'
<1> USE DEF JoinWorker, Goto, taskVars, workerVars
<1>0. TypeOK /\ idx[c] \in Workers /\ mtx = c
  BY DEF ConsistentInv, MutexInv, Holding
<1>1. TypeOK'
  <2>1. started' \in [Workers -> BOOLEAN] /\ done' \in [Workers -> BOOLEAN]
    BY <1>0 DEF TypeOK, FreshWorker
  <2>2. thread' \in [Workers -> Tasks \cup {None}]
    BY <1>0 DEF TypeOK, FreshWorker
  <2>3. idx' \in [Clients -> 1 .. N + 1]
    BY <1>0 DEF TypeOK, FreshWorker
  <2> QED
    BY <1>0, <2>1, <2>2, <2>3 DEF TypeOK
<1>2. MutexInv' /\ RoleInv'
  BY <1>0 DEF ConsistentInv, TypeOK, MutexInv, RoleInv, Holding, Submitting
<1>3. ASSUME NEW v \in Workers PROVE WorkerOK(v)'
  <2>1. CASE v = idx[c]
    BY <1>0, <2>1 DEF ConsistentInv, TypeOK, MutexInv, Holding, WorkerInv, WorkerOK, TaskInv,
                      GetOK, FreshWorker, Free
  <2>2. CASE v # idx[c]
    BY <1>0, <2>2 DEF ConsistentInv, TypeOK, MutexInv, Holding, WorkerInv, WorkerOK, TaskInv,
                      GetOK, FreshWorker, Free
  <2> QED
    BY <2>1, <2>2
<1>4. TaskInv'
  BY <1>0 DEF ConsistentInv, TypeOK, TaskInv, WorkerInv, WorkerOK, GetOK, Free, FreshWorker
<1>5. ASSUME NEW d \in Clients PROVE GetOK(d)'
  <2>1. CASE d = c
    BY <1>0, <2>1 DEF ConsistentInv, TypeOK, MutexInv, RoleInv, Holding, Submitting, WorkerInv,
                      WorkerOK, TaskInv, GetInv, GetOK, FreshWorker, Free
  <2>2. CASE d # c
    BY <1>0, <2>2 DEF ConsistentInv, TypeOK, MutexInv, RoleInv, Holding, Submitting, WorkerInv,
                      WorkerOK, TaskInv, GetInv, GetOK, FreshWorker, Free
  <2> QED
    BY <2>1, <2>2
<1> QED
  BY <1>1, <1>2, <1>3, <1>4, <1>5 DEF ConsistentInv, WorkerInv, GetInv

\* JoinReturn preserves the invariant.
LEMMA JoinReturnInv ==
  ASSUME ConsistentInv, NEW c \in Clients, JoinReturn(c)
  PROVE  ConsistentInv'
<1> USE DEF JoinReturn, Goto, taskVars, workerVars
<1>0. TypeOK
  BY DEF ConsistentInv
<1>1. TypeOK'
  <2>1. pc' \in [Clients -> {"idle", "get", "scan", "swap", "swapStarted", "swapDone",
                          "tmpJoin", "got", "join", "joinScan"}]
    BY <1>0 DEF TypeOK, FreshWorker
  <2>2. idx' \in [Clients -> 1 .. N + 1]
    BY <1>0 DEF TypeOK, FreshWorker
  <2> QED
    BY <1>0, <2>1, <2>2 DEF TypeOK
<1>2. MutexInv' /\ RoleInv'
  BY <1>0 DEF ConsistentInv, TypeOK, MutexInv, RoleInv, Holding, Submitting
<1>3. ASSUME NEW v \in Workers PROVE WorkerOK(v)'
  BY <1>0 DEF ConsistentInv, TypeOK, MutexInv, Holding, WorkerInv, WorkerOK, TaskInv, GetOK,
              FreshWorker, Free
<1>4. TaskInv'
  BY <1>0 DEF ConsistentInv, TypeOK, TaskInv, WorkerInv, WorkerOK, GetOK, Free, FreshWorker
<1>5. ASSUME NEW d \in Clients PROVE GetOK(d)'
  <2>1. CASE d = c
    BY <1>0, <2>1 DEF ConsistentInv, TypeOK, MutexInv, RoleInv, Holding, Submitting, WorkerInv,
                      WorkerOK, TaskInv, GetInv, GetOK, FreshWorker, Free
  <2>2. CASE d # c
    BY <1>0, <2>2 DEF ConsistentInv, TypeOK, MutexInv, RoleInv, Holding, Submitting, WorkerInv,
                      WorkerOK, TaskInv, GetInv, GetOK, FreshWorker, Free
  <2> QED
    BY <2>1, <2>2
<1> QED
  BY <1>1, <1>2, <1>3, <1>4, <1>5 DEF ConsistentInv, WorkerInv, GetInv

\* Every step preserves the invariant.
LEMMA NextInv ==
  ConsistentInv /\ NoTerminate /\ [Next]_vars => ConsistentInv' /\ NoTerminate'
<1> SUFFICES ASSUME ConsistentInv, ~terminated, [Next]_vars PROVE ConsistentInv' /\ ~terminated'
  BY DEF NoTerminate
<1>1. CASE UNCHANGED vars
  BY <1>1 DEF vars, ConsistentInv, TypeOK, MutexInv, RoleInv, WorkerInv, WorkerOK, TaskInv,
              GetInv, GetOK, Free
<1>2. ASSUME NEW c \in Clients, Call(c) PROVE ConsistentInv' /\ ~terminated'
  BY <1>2, GetCallInv, JoinCallInv DEF Call, GetCall, JoinCall
<1>3. ASSUME NEW c \in Clients, Lock(c) PROVE ConsistentInv' /\ ~terminated'
  <2>1. CASE GetLock(c)
    BY <2>1, GetLockInv DEF GetLock
  <2>2. CASE JoinLock(c)
    BY <2>2, JoinLockInv DEF JoinLock
  <2> QED
    BY <1>3, <2>1, <2>2 DEF Lock
<1>4. ASSUME NEW c \in Clients, ClientStep(c) PROVE ConsistentInv' /\ ~terminated'
  <2>1. CASE GetStep(c)
    BY <2>1, GetCheckInv, GetRetryInv, SwapThreadInv, SwapStartedInv, SwapDoneInv,
       TmpJoinInv
       DEF GetStep, GetCheck, GetRetry, SwapThread, SwapStarted, SwapDone, TmpJoin
  <2>2. CASE JoinStep(c)
    BY <2>2, JoinWorkerInv, JoinReturnInv DEF JoinStep, JoinWorker, JoinReturn
  <2>3. ASSUME NEW t \in Tasks, Run(c, t) PROVE ConsistentInv' /\ ~terminated'
    BY <2>3, RunInv
  <2> QED
    BY <1>4, <2>1, <2>2, <2>3 DEF ClientStep
<1>5. ASSUME NEW t \in Tasks, FnReturn(t) \/ WrapperDone(t) PROVE ConsistentInv' /\ ~terminated'
  BY <1>5, FnReturnInv, WrapperDoneInv DEF FnReturn, WrapperDone
<1> QED
  BY <1>1, <1>2, <1>3, <1>4, <1>5 DEF Next

-----------------------------------------------------------------------------
(* The pool used by one thread that submits and then joins *)

\* Nobody has joined the pool initially.
LEMMA JoinedInit == Init => JoinedInv
  BY DEF Init, JoinedInv

\* A pool that is used by one thread stays empty once join() has returned.
LEMMA JoinedStep ==
  ConsistentInv /\ JoinedInv /\ [Next]_vars => JoinedInv'
<1> SUFFICES ASSUME ConsistentInv, JoinedInv, [Next]_vars, SequentialUse, NEW c \in Clients
             PROVE  /\ joining' => pc'[c] \in {"idle", "join", "joinScan"}
                    /\ pc'[c] = "joinScan" =>
                         joining' /\ \A w \in Workers : w < idx'[c] => thread'[w] = None
                    /\ joining' /\ pc'[c] # "joinScan" => \A w \in Workers : thread'[w] = None
  BY DEF JoinedInv, SequentialUse
<1> USE DEF JoinedInv, SequentialUse
<1>1. TypeOK /\ \A d \in Clients : d = c
  BY DEF ConsistentInv
<1>2. CASE UNCHANGED vars
  BY <1>1, <1>2 DEF vars
<1>3. CASE Call(c)
  BY <1>1, <1>3 DEF Call, GetCall, JoinCall, Goto, workerVars, TypeOK
<1>4. CASE GetLock(c)
  BY <1>1, <1>4 DEF GetLock, Goto, workerVars, TypeOK
<1>5. CASE JoinLock(c)
  <2>1. CASE joining
    BY <1>1, <1>5, <2>1 DEF JoinLock, Goto, workerVars, TypeOK
  <2>2. CASE ~joining
    BY <1>1, <1>5, <2>2 DEF JoinLock, Goto, workerVars, TypeOK
  <2> QED
    BY <2>1, <2>2
<1>6. CASE GetCheck(c) \/ GetRetry(c)
  BY <1>1, <1>6 DEF GetCheck, GetRetry, Goto, workerVars, TypeOK
<1>7. CASE SwapThread(c) \/ SwapStarted(c) \/ SwapDone(c) \/ TmpJoin(c)
  BY <1>1, <1>7 DEF SwapThread, SwapStarted, SwapDone, TmpJoin, Goto, workerVars, TypeOK
<1>8. CASE \E t \in Tasks : Run(c, t)
  <2>1. ~joining /\ joining' = joining
    BY <1>8 DEF Run
  <2>2. pc'[c] = "idle"
    BY <1>1, <1>8 DEF Run, Goto, TypeOK
  <2> QED
    BY <2>1, <2>2
<1>9. CASE JoinWorker(c)
  <2>1. thread[idx[c]] = None \/ started[idx[c]]
    BY <1>9 DEF JoinWorker, ConsistentInv, WorkerInv, WorkerOK
  <2>2. thread'[idx[c]] = None
    BY <1>1, <1>9, <2>1 DEF JoinWorker, workerVars, TypeOK
  <2>3. \A w \in Workers : w < idx'[c] => w = idx[c] \/ w < idx[c]
    BY <1>1, <1>9 DEF JoinWorker, TypeOK
  <2>4. \A w \in Workers : w # idx[c] => thread'[w] = thread[w]
    BY <1>1, <1>9 DEF JoinWorker, workerVars, TypeOK
  <2> QED
    BY <1>1, <1>9, <2>2, <2>3, <2>4 DEF JoinWorker
<1>10. CASE JoinReturn(c)
  BY <1>1, <1>10 DEF JoinReturn, Goto, workerVars, TypeOK
<1>11. CASE \E t \in Tasks : FnReturn(t) \/ WrapperDone(t)
  BY <1>1, <1>11 DEF FnReturn, WrapperDone, workerVars
<1> QED
  BY <1>1, <1>2, <1>3, <1>4, <1>5, <1>6, <1>7, <1>8, <1>9, <1>10, <1>11
     DEF Next, Lock, ClientStep, GetStep, JoinStep

-----------------------------------------------------------------------------

\* So the pool is safe in every reachable state.
LEMMA Invariance == Spec => [](PoolInv /\ NoTerminate)
<1>1. Init => PoolInv /\ NoTerminate
  BY InitInv, JoinedInit DEF Init, NoTerminate, PoolInv
<1>2. PoolInv /\ NoTerminate /\ [Next]_vars => (PoolInv /\ NoTerminate)'
  BY NextInv, JoinedStep DEF PoolInv
<1> QED
  BY <1>1, <1>2, PTL DEF Spec

\* Workers, threads and tasks stay consistent in every pool, through any interleaving of
\* get(), the unlocked swap(), run(), the wrappers and any number of join() calls.
THEOREM PoolInvariant == Spec => []PoolInv
  BY Invariance, PTL

\* With a single submitting thread run() never assigns over a joinable std::thread, even
\* when it submits while other threads are in join() or after it.
THEOREM NeverTerminates == Spec => []NoTerminate
  BY Invariance, PTL

-----------------------------------------------------------------------------
(* join() and the refinement of BoundedRunner *)

ActiveTasks == {t \in Tasks : task[t] \in {"running", "returned"}}

\* The tasks that execute run on different workers, none of them on a worker that get()
\* has just handed out, so a task that is about to start finds fewer than N others
LEMMA ActiveBound ==
  ASSUME ConsistentInv, NEW w \in Workers, thread[w] = None
  PROVE  Cardinality(ActiveTasks) < N
<1> DEFINE Others == Workers \ {w}
           workerOf == [t \in ActiveTasks |-> runner[t]]
<1>1. \A t \in ActiveTasks : runner[t] \in Others /\ thread[runner[t]] = t
  <2> SUFFICES ASSUME NEW t \in ActiveTasks
               PROVE  runner[t] \in Others /\ thread[runner[t]] = t
    OBVIOUS
  <2>1. t \in Tasks /\ t # None
    BY DEF ActiveTasks
  <2> QED
    BY <2>1 DEF ActiveTasks, ConsistentInv, TaskInv
<1>2. workerOf \in Injection(ActiveTasks, Others)
  BY <1>1 DEF Injection, IsInjective
<1>3. IsFiniteSet(Workers) /\ Cardinality(Workers) = N
  BY FS_Interval
<1>4. IsFiniteSet(Others) /\ Cardinality(Others) = N - 1
  BY <1>3, FS_RemoveElement
<1>5. IsFiniteSet(ActiveTasks) /\ Cardinality(ActiveTasks) <= N - 1
  BY <1>2, <1>4, FS_Injection
<1>6. Cardinality(ActiveTasks) \in Nat
  BY <1>5, FS_CardinalityType
<1> QED
  BY <1>5, <1>6

\* Whoever returns from join() leaves no thread behind
LEMMA JoinReturnsEmpty ==
  ASSUME PoolInv, SequentialUse, Next, NEW c \in Clients,
         pc[c] \in {"join", "joinScan"}, pc'[c] = "idle"
  PROVE  \A w \in Workers : thread[w] = None
<1>1. \A d \in Clients : d = c
  BY DEF SequentialUse
<1>2. TypeOK /\ pc \in [Clients -> {"idle", "get", "scan", "swap", "swapStarted", "swapDone",
                                    "tmpJoin", "got", "join", "joinScan"}]
  BY DEF PoolInv, ConsistentInv, TypeOK
<1>3. (JoinLock(c) /\ joining) \/ JoinReturn(c)
  <2>1. CASE Call(c)
    BY <2>1 DEF Call, GetCall, JoinCall
  <2>2. CASE Lock(c)
    <3>1. CASE GetLock(c)
      BY <3>1 DEF GetLock
    <3>2. CASE JoinLock(c) /\ ~joining
      BY <1>2, <3>2 DEF JoinLock, Goto
    <3> QED
      BY <2>2, <3>1, <3>2 DEF Lock
  <2>3. CASE ClientStep(c)
    BY <1>2, <2>3 DEF ClientStep, GetStep, JoinStep, GetCheck, GetRetry, SwapThread,
                      SwapStarted, SwapDone, TmpJoin, Run, JoinWorker
  <2>4. CASE \E t \in Tasks : FnReturn(t) \/ WrapperDone(t)
    BY <2>4 DEF FnReturn, WrapperDone
  <2> QED
    BY <1>1, <2>1, <2>2, <2>3, <2>4 DEF Next
<1>4. CASE JoinLock(c) /\ joining
  BY <1>4 DEF JoinLock, PoolInv, JoinedInv
<1>5. CASE JoinReturn(c)
  <2>1. \A w \in Workers : w < idx[c]
    BY <1>2, <1>5 DEF JoinReturn, TypeOK
  <2> QED
    BY <1>5, <2>1 DEF JoinReturn, PoolInv, JoinedInv
<1> QED
  BY <1>3, <1>4, <1>5

\* Without a thread in any worker no task is executing.
LEMMA NoThreadNoTask ==
  ASSUME ConsistentInv, \A w \in Workers : thread[w] = None
  PROVE  \A t \in Tasks : task[t] \in {"new", "ended"}
<1> SUFFICES ASSUME NEW t \in Tasks PROVE task[t] \in {"new", "ended"}
  OBVIOUS
<1>1. task[t] \notin {"running", "returned"}
  BY DEF ConsistentInv, TaskInv
<1> QED
  BY <1>1 DEF ConsistentInv, TypeOK

\* join() returns only when the pool is empty, for a thread that submits and then joins.
THEOREM JoinReturnsDrained == SequentialUse => (Spec => JoinDrains)
<1> SUFFICES ASSUME SequentialUse PROVE Spec => JoinDrains
  OBVIOUS
<1>1. PoolInv /\ [Next]_vars =>
        [\A c \in Clients : pc[c] \in {"join", "joinScan"} /\ pc'[c] = "idle" =>
           /\ \A t \in Tasks : task[t] \in {"new", "ended"}
           /\ \A w \in Workers : thread[w] = None]_vars
  BY JoinReturnsEmpty, NoThreadNoTask DEF PoolInv
<1> QED
  BY <1>1, Invariance, PTL DEF Spec, JoinDrains

statusBar == [t \in Tasks |-> IF task[t] = "new" THEN "new"
                              ELSE IF task[t] = "ended" THEN "finished" ELSE "active"]
drainedBar == joining /\ \A c \in Clients : pc[c] # "joinScan"

\* The refinement mapping makes a task active exactly while it executes.
LEMMA ActiveBar == ConsistentInv => Runner!Active = ActiveTasks
  BY DEF Runner!Active, ActiveTasks, ConsistentInv, TypeOK

\* The initial states map to initial states.
LEMMA RunnerInit == Init => Runner!Init
  BY DEF Init, Runner!Init

\* Every step maps to a step of the runner or leaves it alone.
LEMMA RunnerStep ==
  ASSUME PoolInv, PoolInv', SequentialUse, [Next]_vars
  PROVE  [Runner!Next]_(Runner!vars)
<1> USE DEF Runner!vars, statusBar, drainedBar
<1>1. TypeOK /\ ConsistentInv
  BY DEF PoolInv, ConsistentInv
<1>2. CASE UNCHANGED vars
  <2>1. statusBar' = statusBar /\ drainedBar' = drainedBar
    BY <1>2 DEF vars
  <2> QED
    BY <2>1
<1>3. ASSUME NEW c \in Clients,
             Call(c) \/ GetLock(c) \/ GetStep(c) \/ JoinWorker(c)
      PROVE  UNCHANGED <<statusBar, drainedBar>>
  <2>1. task' = task /\ joining' = joining
    BY <1>3 DEF Call, GetCall, JoinCall, GetLock, GetStep, GetCheck, GetRetry, SwapThread,
                SwapStarted, SwapDone, TmpJoin, JoinWorker, taskVars
  <2>2. pc'[c] # "joinScan" <=> pc[c] # "joinScan"
    BY <1>1, <1>3 DEF Call, GetCall, JoinCall, GetLock, GetStep, GetCheck, GetRetry,
                SwapThread, SwapStarted, SwapDone, TmpJoin, JoinWorker, Goto, TypeOK
  <2>3. \A d \in Clients : d = c
    BY DEF SequentialUse
  <2> QED
    BY <2>1, <2>2, <2>3
<1>4. ASSUME NEW c \in Clients, JoinLock(c)
      PROVE  UNCHANGED <<statusBar, drainedBar>>
  <2>1. \A d \in Clients : d = c
    BY DEF SequentialUse
  <2>2. CASE joining
    BY <1>1, <1>4, <2>1, <2>2 DEF JoinLock, Goto, TypeOK, taskVars
  <2>3. CASE ~joining
    BY <1>1, <1>4, <2>1, <2>3 DEF JoinLock, Goto, TypeOK, taskVars
  <2> QED
    BY <2>2, <2>3
<1>5. ASSUME NEW c \in Clients, JoinReturn(c)
      PROVE  Runner!Drain
  <2>1. pc[c] = "joinScan" /\ pc'[c] = "idle" /\ task' = task /\ joining' = joining
    BY <1>1, <1>5 DEF JoinReturn, Goto, TypeOK, taskVars
  <2>2. \A d \in Clients : d = c
    BY DEF SequentialUse
  <2>3. joining
    BY <2>1 DEF PoolInv, JoinedInv
  <2>4. Next
    BY <2>1 DEF vars
  <2>5. \A w \in Workers : thread[w] = None
    BY <2>1, <2>4, JoinReturnsEmpty
  <2>6. Runner!Active = {}
    BY <1>1, <2>5, NoThreadNoTask, ActiveBar DEF ActiveTasks
  <2>7. statusBar' = statusBar /\ drainedBar' = TRUE
    BY <2>1, <2>2, <2>3
  <2> QED
    BY <2>6, <2>7 DEF Runner!Drain
<1>6. ASSUME NEW c \in Clients, NEW t \in Tasks, Run(c, t)
      PROVE  Runner!Start(t)
  <2>1. pc[c] = "got" /\ \A d \in Clients : d = c
    BY <1>6 DEF Run, SequentialUse
  <2>2. ~joining /\ ~joining'
    BY <1>6, <2>1 DEF Run, PoolInv, JoinedInv
  <2>3. idx[c] \in Workers /\ thread[idx[c]] = None
    BY <1>1, <2>1 DEF ConsistentInv, GetInv, GetOK
  <2>4. Runner!Cardinality(Runner!Active) < N
    <3>1. Cardinality(Runner!Active) < N
      BY <1>1, <2>3, ActiveBound, ActiveBar
    <3>2. Runner!Cardinality(Runner!Active) = Cardinality(Runner!Active)
      BY DEF Cardinality, Runner!Cardinality, IsFiniteSet, Runner!IsFiniteSet
    <3> QED
      BY <3>1, <3>2
  <2>5. task[t] = "new" /\ task' = [task EXCEPT ![t] = "running"]
    BY <1>6 DEF Run
  <2>6. statusBar[t] = "new" /\ statusBar' = [statusBar EXCEPT ![t] = "active"]
    BY <1>1, <2>5 DEF TypeOK
  <2>7. ~drainedBar /\ UNCHANGED drainedBar
    BY <2>2
  <2> QED
    BY <2>4, <2>6, <2>7 DEF Runner!Start
<1>7. ASSUME NEW t \in Tasks, FnReturn(t)
      PROVE  UNCHANGED <<statusBar, drainedBar>>
  <2>1. task[t] = "running" /\ task' = [task EXCEPT ![t] = "returned"]
    BY <1>7 DEF FnReturn
  <2>2. statusBar' = statusBar
    BY <1>1, <2>1 DEF TypeOK
  <2>3. drainedBar' = drainedBar
    BY <1>7 DEF FnReturn
  <2> QED
    BY <2>2, <2>3
<1>8. ASSUME NEW t \in Tasks, WrapperDone(t)
      PROVE  Runner!Finish(t)
  <2>1. task[t] = "returned" /\ task' = [task EXCEPT ![t] = "ended"]
    BY <1>8 DEF WrapperDone
  <2>2. statusBar[t] = "active" /\ statusBar' = [statusBar EXCEPT ![t] = "finished"]
    BY <1>1, <2>1 DEF TypeOK
  <2>3. drainedBar' = drainedBar
    BY <1>8 DEF WrapperDone
  <2> QED
    BY <2>2, <2>3 DEF Runner!Finish
<1>9. CASE \E c \in Clients : Call(c) \/ Lock(c) \/ GetStep(c) \/ JoinStep(c)
  <2> PICK c \in Clients : Call(c) \/ Lock(c) \/ GetStep(c) \/ JoinStep(c)
    BY <1>9
  <2>1. CASE JoinReturn(c)
    BY <1>5, <2>1 DEF Runner!Next
  <2>2. CASE JoinLock(c)
    BY <1>4, <2>2
  <2>3. CASE Call(c) \/ GetLock(c) \/ GetStep(c) \/ JoinWorker(c)
    BY <1>3, <2>3
  <2> QED
    BY <2>1, <2>2, <2>3 DEF Lock, JoinStep
<1>10. CASE \E t \in Tasks : FnReturn(t) \/ WrapperDone(t)
  BY <1>7, <1>8, <1>10 DEF Runner!Next
<1>11. CASE \E c \in Clients, t \in Tasks : Run(c, t)
  BY <1>6, <1>11 DEF Runner!Next
<1> QED
  BY <1>2, <1>9, <1>10, <1>11 DEF Next, ClientStep

\* Used by one thread that submits and then joins, the pool implements the bounded runner:
\* at most N tasks execute at a time, each once, and none after join() has returned.
THEOREM PoolRefinesRunner == SequentialUse => (Spec => RunnerSpec)
<1> SUFFICES ASSUME SequentialUse PROVE Spec => RunnerSpec
  OBVIOUS
<1>1. PoolInv /\ PoolInv' /\ [Next]_vars => [Runner!Next]_(Runner!vars)
  BY RunnerStep
<1> QED
  BY <1>1, RunnerInit, Invariance, PTL DEF Spec, RunnerSpec, Runner!Spec
=============================================================================
