------------------------------ MODULE ProxyProofs ------------------------------
(***************************************************************************)
(* The safety of the proxy, for any number of connections, messages and    *)
(* pool threads.  Its steps are steps of the thread pool or leave it alone,*)
(* so that what ThreadPoolProofs proves of the pool holds here; JobInv and *)
(* MarkInv say what processing_ tells of the threads inside of process().  *)
(***************************************************************************)
EXTENDS Proxy, SequenceTheorems, TLAPS

\* What is proved of the pool, for the use that the proxy makes of it
Proved == INSTANCE ThreadPoolProofs WITH
  Submitters <- {Worker}, Joiners <- {Listener}, LateSubmit <- TRUE, HoldOnSleep <- FALSE

\* The listener has a connection in hand from accept to push_back
AcceptInv ==
  lpc \in {"raise", "lock", "test", "waiting", "block", "push"} => accepted \in Conns

\* A session is in hand while the worker has a thread of the pool for it
PlaceInv == wpc \in {"pool", "run"} => it \in 1 .. Len(sessions)

\* processing_ is up while a pool thread is inside process(), and one thread is at most
JobInv ==
  /\ \A t \in Tasks : Executing(t) => /\ job[t].session \in Conns
                                      /\ processing[job[t].session]
  /\ \A t, u \in Tasks :
       Executing(t) /\ Executing(u) /\ job[t].session = job[u].session => t = u

\* The worker takes up a session that nobody works on
MarkInv ==
  /\ wpc = "pool" => ~processing[sessions[it]]
  /\ wpc = "run" => processing[sessions[it]] /\ ~InUse(sessions[it])

PoolOK == Pool!ConsistentInv /\ Pool!NoTerminate

ProxyInv == TypeOK /\ PoolOK /\ AcceptInv /\ PlaceInv /\ JobInv /\ MarkInv

-----------------------------------------------------------------------------
(* The pool *)

\* The assumptions of the pool hold for the proxy.
LEMMA PoolUse ==
  /\ Proved!NAssumption /\ Proved!NoneAssumption /\ Proved!UsageAssumption
  /\ Proved!SubmitterAssumption
  BY PoolAssumption
  DEF PoolAssumption, Proved!NAssumption, Proved!NoneAssumption, Proved!UsageAssumption,
      Proved!SubmitterAssumption

\* The invariant of the pool, in the words of Proxy and of ThreadPoolProofs.
LEMMA SameInvariant ==
  /\ Pool!ConsistentInv <=> Proved!ConsistentInv
  /\ (Pool!ConsistentInv)' <=> (Proved!ConsistentInv)'
  BY DEF Pool!ConsistentInv, Pool!TypeOK, Pool!MutexInv, Pool!RoleInv, Pool!WorkerInv,
         Pool!WorkerOK, Pool!TaskInv, Pool!GetInv, Pool!GetOK, Pool!Free, Pool!FreshWorker,
         Pool!Workers, Pool!Clients, Pool!Holding, Pool!Submitting,
         Proved!ConsistentInv, Proved!TypeOK, Proved!MutexInv, Proved!RoleInv,
         Proved!WorkerInv, Proved!WorkerOK, Proved!TaskInv, Proved!GetInv, Proved!GetOK,
         Proved!Free, Proved!FreshWorker, Proved!Workers, Proved!Clients, Proved!Holding,
         Proved!Submitting

\* The steps of the pool that the proxy takes.
LEMMA SamePoolSteps ==
  ASSUME ~terminated,
         \/ Pool!GetCall(Worker) \/ Pool!GetStep(Worker) \/ Pool!Lock(Worker)
         \/ \E t \in Tasks : Pool!Run(Worker, t) \/ Pool!FnReturn(t) \/ Pool!WrapperDone(t)
         \/ Pool!JoinCall(Listener) \/ Pool!JoinStep(Listener) \/ Pool!Lock(Listener)
  PROVE  Proved!Next
<1> USE DEF Proved!Next, Proved!Clients, Proved!Call, Proved!Lock, Proved!ClientStep,
            Pool!workerVars, Pool!taskVars, Proved!workerVars, Proved!taskVars, Pool!Goto, Proved!Goto,
            Pool!Workers, Proved!Workers
<1>1. CASE Pool!GetCall(Worker)
  BY <1>1 DEF Pool!GetCall, Proved!GetCall
<1>2. CASE Pool!GetStep(Worker)
  BY <1>2
  DEF Pool!GetStep, Pool!GetCheck, Pool!GetRetry, Pool!SwapThread, Pool!SwapStarted,
      Pool!SwapDone, Pool!TmpJoin, Pool!Ended, Pool!Free, Pool!FreshWorker,
      Proved!GetStep, Proved!GetCheck, Proved!GetRetry, Proved!SwapThread, Proved!SwapStarted,
      Proved!SwapDone, Proved!TmpJoin, Proved!Ended, Proved!Free, Proved!FreshWorker
<1>3. CASE Pool!Lock(Worker) \/ Pool!Lock(Listener)
  BY <1>3 DEF Pool!Lock, Pool!GetLock, Pool!JoinLock, Proved!GetLock, Proved!JoinLock
<1>4. CASE \E t \in Tasks : Pool!Run(Worker, t) \/ Pool!FnReturn(t) \/ Pool!WrapperDone(t)
  BY <1>4
  DEF Pool!Run, Pool!FnReturn, Pool!WrapperDone, Proved!Run, Proved!FnReturn, Proved!WrapperDone
<1>5. CASE Pool!JoinCall(Listener)
  BY <1>5 DEF Pool!JoinCall, Proved!JoinCall
<1>6. CASE Pool!JoinStep(Listener)
  BY <1>6
  DEF Pool!JoinStep, Pool!JoinWorker, Pool!JoinReturn, Pool!Ended,
      Proved!JoinStep, Proved!JoinWorker, Proved!JoinReturn, Proved!Ended
<1> QED
  BY <1>1, <1>2, <1>3, <1>4, <1>5, <1>6

\* A step of the proxy is a step of its pool or leaves the pool alone.
LEMMA PoolSteps ==
  ASSUME ~terminated, Next
  PROVE  Proved!Next \/ UNCHANGED poolVars
<1> USE DEF ListenerStep, WorkerStep, JobStep, Environment
<1>1. ASSUME ListenerStep \/ ListenerLock PROVE Proved!Next \/ UNCHANGED poolVars
  BY <1>1, SamePoolSteps
  DEF ListenerTest, Accept, RaiseNewConnection, ListenerPredicate, ListenerBlock, PushSession,
      ListenerNotify, FinalizePool, FinalizeWorker, RunReturns, ListenerLock
<1>2. ASSUME WorkerStep \/ WorkerLock \/ ScanLock PROVE Proved!Next \/ UNCHANGED poolVars
  <2>1. CASE ScanSession
    BY <2>1, SamePoolSteps DEF ScanSession, Skip, Erase, GetWorker
  <2>2. CASE RunProcess
    BY <2>2, SamePoolSteps DEF RunProcess
  <2> QED
    BY <1>2, <2>1, <2>2
    DEF WorkerTest, WorkerCheck, RaiseOnHold, WorkerNotify, WorkerHold, ScanEnd,
        StartProcessing, WorkerLock, ScanLock
<1>3. ASSUME GetStep \/ JoinStep \/ PoolLock(Listener) \/ PoolLock(Worker)
      PROVE  Proved!Next
  BY <1>3, SamePoolSteps DEF GetStep, JoinStep, PoolLock
<1>4. ASSUME NEW t \in Tasks, JobStep(t) PROVE Proved!Next \/ UNCHANGED poolVars
  BY <1>4, SamePoolSteps
  DEF HandleClientRequest, HandleServerResponse, Forward, CloseSockets, ProcessReturns,
      WrapperReturns
<1>5. ASSUME Environment PROVE UNCHANGED poolVars
  BY <1>5 DEF Send, SendRest, Stop, SpuriousWakeup
<1> QED
  BY <1>1, <1>2, <1>3, <1>4, <1>5 DEF Next

\* Every step of the proxy keeps the invariant of the pool.
LEMMA StepPool == ASSUME PoolOK, [Next]_vars PROVE PoolOK'
<1>1. Proved!ConsistentInv /\ Proved!NoTerminate
  BY SameInvariant DEF PoolOK, Pool!NoTerminate, Proved!NoTerminate
<1>2. Proved!Next \/ UNCHANGED poolVars
  BY PoolSteps DEF PoolOK, Pool!NoTerminate, vars
<1>3. [Proved!Next]_(Proved!vars)
  BY <1>2 DEF poolVars, Proved!vars
<1>4. (Proved!ConsistentInv)' /\ (Proved!NoTerminate)'
  BY <1>1, <1>3, PoolUse, Proved!NextInv
  DEF Proved!NAssumption, Proved!NoneAssumption, Proved!UsageAssumption,
      Proved!SubmitterAssumption
<1> QED
  BY <1>4, SameInvariant DEF PoolOK, Pool!NoTerminate, Proved!NoTerminate

-----------------------------------------------------------------------------
(* The session list *)

\* An element that is pushed back leaves the others where they are.
LEMMA PushBack ==
  ASSUME NEW S, NEW s \in Seq(S), NEW e \in S
  PROVE  /\ Append(s, e) \in Seq(S)
         /\ Len(Append(s, e)) = Len(s) + 1
         /\ \A i \in 1 .. Len(s) : Append(s, e)[i] = s[i]
         /\ \A c : Contains(s, c) => Contains(Append(s, e), c)
<1>1. /\ Append(s, e) \in Seq(S) /\ Len(Append(s, e)) = Len(s) + 1
      /\ \A i \in 1 .. Len(s) : Append(s, e)[i] = s[i]
  BY AppendProperties
<1>2. Len(s) \in Nat
  BY LenProperties
<1> QED
  BY <1>1, <1>2 DEF Contains

\* Erasing an element makes the list shorter by that one and loses no other.
LEMMA EraseOne ==
  ASSUME NEW S, NEW s \in Seq(S), NEW i \in 1 .. Len(s)
  PROVE  /\ RemoveAt(s, i) \in Seq(S)
         /\ Len(RemoveAt(s, i)) = Len(s) - 1
         /\ \A c : Contains(s, c) /\ c # s[i] => Contains(RemoveAt(s, i), c)
<1> DEFINE front == SubSeq(s, 1, i - 1)
           back == SubSeq(s, i + 1, Len(s))
<1>1. Len(s) \in Nat /\ i \in Nat /\ 1 <= i /\ i <= Len(s)
  BY LenProperties
<1>2. \A j \in 1 .. Len(s) : s[j] \in S
  BY ElementOfSeq
<1>3. /\ front \in Seq(S) /\ Len(front) = i - 1
      /\ \A j \in 1 .. i - 1 : front[j] = s[j]
  <2>1. 1 \in Int /\ i - 1 \in Int /\ \A j \in 1 .. i - 1 : s[j] \in S
    BY <1>1, <1>2
  <2>2. /\ front \in Seq(S)
        /\ Len(front) = IF 1 <= i - 1 THEN i - 1 - 1 + 1 ELSE 0
        /\ \A j \in 1 .. i - 1 - 1 + 1 : front[j] = s[1 + j - 1]
    BY <2>1, SubSeqProperties
  <2> QED
    BY <2>2, <1>1
<1>4. /\ back \in Seq(S) /\ Len(back) = Len(s) - i
      /\ \A j \in 1 .. Len(s) - i : back[j] = s[i + j]
  <2>1. i + 1 \in Int /\ Len(s) \in Int /\ \A j \in i + 1 .. Len(s) : s[j] \in S
    BY <1>1, <1>2
  <2>2. /\ back \in Seq(S)
        /\ Len(back) = IF i + 1 <= Len(s) THEN Len(s) - (i + 1) + 1 ELSE 0
        /\ \A j \in 1 .. Len(s) - (i + 1) + 1 : back[j] = s[i + 1 + j - 1]
    BY <2>1, SubSeqProperties
  <2> QED
    BY <2>2, <1>1
<1> HIDE DEF front, back
<1>5. /\ front \o back \in Seq(S)
      /\ Len(front \o back) = Len(front) + Len(back)
      /\ \A j \in 1 .. Len(front) + Len(back) :
           (front \o back)[j] = IF j <= Len(front) THEN front[j] ELSE back[j - Len(front)]
  BY <1>3, <1>4, ConcatProperties
<1>6. RemoveAt(s, i) = front \o back
  BY DEF RemoveAt, front, back
<1>7. ASSUME NEW c, Contains(s, c), c # s[i] PROVE Contains(RemoveAt(s, i), c)
  <2>1. PICK k \in 1 .. Len(s) : s[k] = c
    BY <1>7 DEF Contains
  <2>2. Len(RemoveAt(s, i)) = Len(s) - 1
    BY <1>1, <1>3, <1>4, <1>5, <1>6
  <2>3. CASE k < i
    <3>1. k \in 1 .. i - 1 /\ k \in 1 .. Len(s) - 1
      BY <1>1, <2>3
    <3>2. RemoveAt(s, i)[k] = c
      BY <1>1, <1>3, <1>4, <1>5, <1>6, <2>1, <3>1
    <3> QED
      BY <2>2, <3>1, <3>2 DEF Contains
  <2>4. CASE k > i
    <3>1. k - 1 \in 1 .. Len(s) - 1 /\ k - i \in 1 .. Len(s) - i
      BY <1>1, <2>4
    <3>2. RemoveAt(s, i)[k - 1] = back[k - i]
      BY <1>1, <1>3, <1>4, <1>5, <1>6, <2>4, <3>1
    <3>3. back[k - i] = c
      BY <1>1, <1>4, <2>1, <3>1
    <3> QED
      BY <2>2, <3>1, <3>2, <3>3 DEF Contains
  <2> QED
    BY <1>1, <1>7, <2>1, <2>3, <2>4
<1> QED
  BY <1>1, <1>3, <1>4, <1>5, <1>6, <1>7

-----------------------------------------------------------------------------
(* What the steps do to the sessions *)

\* A step that leaves alone what JobInv and MarkInv speak of
Quiet ==
  /\ UNCHANGED <<sessions, processing>>
  /\ wpc' \in {"pool", "run"} => wpc' = wpc /\ it' = it
  /\ \A t \in Tasks : /\ Executing(t)' <=> Executing(t)
                      /\ job'[t].session = job[t].session

\* Every other step has a name.
LEMMA Effects ==
  ASSUME TypeOK, Next
  PROVE  \/ Quiet \/ PushSession \/ ScanSession \/ StartProcessing \/ RunProcess
         \/ \E t \in Tasks : ProcessReturns(t)
<1> USE DEF Quiet, ListenerStep, WorkerStep, JobStep, Environment, Executing, sessionVars,
            workerVars, poolVars, Pool!taskVars, Pool!workerVars
<1>1. ASSUME ListenerStep \/ ListenerLock PROVE Quiet \/ PushSession
  BY <1>1
  DEF ListenerTest, Accept, RaiseNewConnection, ListenerPredicate, ListenerBlock,
      ListenerNotify, FinalizePool, FinalizeWorker, RunReturns, ListenerLock, Pool!JoinCall
<1>2. ASSUME WorkerStep \/ WorkerLock \/ ScanLock
      PROVE  Quiet \/ ScanSession \/ StartProcessing \/ RunProcess
  BY <1>2
  DEF WorkerTest, WorkerCheck, RaiseOnHold, WorkerNotify, WorkerHold, ScanEnd, WorkerLock,
      ScanLock
<1>3. ASSUME GetStep \/ JoinStep \/ PoolLock(Listener) \/ PoolLock(Worker) PROVE Quiet
  <2>1. UNCHANGED proxyVars /\ UNCHANGED task
    BY <1>3
    DEF GetStep, JoinStep, PoolLock, Pool!GetStep, Pool!JoinStep, Pool!Lock, Pool!GetLock,
        Pool!JoinLock, Pool!GetCheck, Pool!GetRetry, Pool!SwapThread, Pool!SwapStarted,
        Pool!SwapDone, Pool!TmpJoin, Pool!JoinWorker, Pool!JoinReturn
  <2> QED
    BY <2>1 DEF proxyVars
<1>4. ASSUME NEW t \in Tasks, JobStep(t) PROVE Quiet \/ ProcessReturns(t)
  <2>1. ASSUME NEW s, NEW n, Forward(t, s, n) PROVE Quiet
    BY <2>1 DEF Forward, TypeOK
  <2>2. CASE HandleClientRequest(t) \/ HandleServerResponse(t)
    BY <2>1, <2>2 DEF HandleClientRequest, HandleServerResponse
  <2>3. CASE CloseSockets(t)
    BY <2>3 DEF CloseSockets, TypeOK
  <2>4. CASE WrapperReturns(t)
    BY <2>4 DEF WrapperReturns, Pool!WrapperDone, TypeOK, Pool!TypeOK
  <2> QED
    BY <1>4, <2>2, <2>3, <2>4
<1>5. ASSUME Environment PROVE Quiet
  BY <1>5 DEF Send, SendRest, Stop, SpuriousWakeup
<1> QED
  BY <1>1, <1>2, <1>3, <1>4, <1>5 DEF Next

\* Scanning a session leaves the processing flags and the calls of process() alone.
LEMMA ScanEffect ==
  ASSUME TypeOK, PlaceInv, ScanSession
  PROVE  /\ wpc = "scan" /\ it \in 1 .. Len(sessions)
         /\ UNCHANGED <<processing, job, task, open, processed_sessions>>
         /\ \/ Skip(sessions[it]) /\ UNCHANGED sessions
            \/ Erase(sessions[it])
            \/ GetWorker(sessions[it]) /\ UNCHANGED <<sessions, it>>
<1>1. it \in Nat /\ 1 <= it /\ Len(sessions) \in Nat
  BY LenProperties DEF TypeOK
<1> QED
  BY <1>1
  DEF ScanSession, Skip, Erase, GetWorker, Pool!GetCall, poolVars, sessionVars, workerVars,
      Pool!taskVars

\* Nobody works on a session whose flag is down.
LEMMA FlagDown ==
  ASSUME JobInv, NEW c, ~processing[c]
  PROVE  ~InUse(c)
  BY DEF JobInv, InUse

\* What is in the list is a connection.
LEMMA InList ==
  ASSUME TypeOK, it \in 1 .. Len(sessions)
  PROVE  sessions[it] \in Conns
  BY ElementOfSeq DEF TypeOK

LEMMA StepPlaceInv == ASSUME TypeOK, PlaceInv, AcceptInv, [Next]_vars PROVE PlaceInv'
<1>1. CASE UNCHANGED vars
  BY <1>1 DEF PlaceInv, vars, workerVars
<1>2. CASE Quiet
  BY <1>2 DEF PlaceInv, Quiet
<1>3. CASE PushSession
  <2>1. sessions' = Append(sessions, accepted) /\ accepted \in Conns /\ sessions \in Seq(Conns)
    BY <1>3 DEF PushSession, AcceptInv, TypeOK
  <2>2. Len(sessions') = Len(sessions) + 1 /\ Len(sessions) \in Nat
    BY <2>1, PushBack, LenProperties
  <2>3. UNCHANGED <<wpc, it>>
    BY <1>3 DEF PushSession, workerVars
  <2> QED
    BY <2>2, <2>3 DEF PlaceInv
<1>4. CASE ScanSession
  BY <1>4, ScanEffect DEF Skip, Erase, PlaceInv
<1>5. CASE StartProcessing
  BY <1>5 DEF StartProcessing, PlaceInv
<1>6. CASE RunProcess
  BY <1>6 DEF RunProcess, PlaceInv
<1>7. ASSUME NEW t \in Tasks, ProcessReturns(t) PROVE PlaceInv'
  BY <1>7 DEF ProcessReturns, PlaceInv, workerVars
<1> QED
  BY <1>1, <1>2, <1>3, <1>4, <1>5, <1>6, <1>7, Effects

LEMMA StepAcceptInv == ASSUME TypeOK, AcceptInv, [Next]_vars PROVE AcceptInv'
<1> USE DEF AcceptInv, ListenerStep, WorkerStep, JobStep, Environment, listenerVars
<1>1. CASE UNCHANGED vars
  BY <1>1 DEF vars
<1>2. CASE Accept
  <2>1. accepted \in 0 .. NumConns /\ NumConns \in Nat
    BY ConnsAssumption DEF ConnsAssumption, TypeOK
  <2> QED
    BY <1>2, <2>1 DEF Accept, Conns
<1>3. CASE ListenerLock \/ (ListenerStep /\ ~Accept)
  BY <1>3
  DEF ListenerTest, RaiseNewConnection, ListenerPredicate, ListenerBlock, PushSession,
      ListenerNotify, FinalizePool, FinalizeWorker, RunReturns, ListenerLock
<1>4. CASE WorkerStep \/ WorkerLock \/ ScanLock
  BY <1>4
  DEF WorkerTest, WorkerCheck, RaiseOnHold, WorkerNotify, WorkerHold, ScanSession, ScanEnd,
      StartProcessing, RunProcess, WorkerLock, ScanLock
<1>5. CASE GetStep \/ JoinStep \/ PoolLock(Listener) \/ PoolLock(Worker)
  BY <1>5 DEF GetStep, JoinStep, PoolLock, proxyVars
<1>6. ASSUME NEW t \in Tasks, JobStep(t) PROVE AcceptInv'
  BY <1>6
  DEF HandleClientRequest, HandleServerResponse, Forward, CloseSockets, ProcessReturns,
      WrapperReturns
<1>7. CASE Environment
  BY <1>7 DEF Send, SendRest, Stop, SpuriousWakeup
<1> QED
  BY <1>1, <1>2, <1>3, <1>4, <1>5, <1>6, <1>7 DEF Next

LEMMA StepJobInv ==
  ASSUME TypeOK, PlaceInv, JobInv, MarkInv, [Next]_vars
  PROVE  JobInv'
<1> USE DEF JobInv
<1>1. CASE UNCHANGED vars
  BY <1>1 DEF vars, poolVars, sessionVars, Executing
<1>2. CASE Quiet
  BY <1>2 DEF Quiet
<1>3. CASE PushSession
  BY <1>3 DEF PushSession, Executing, poolVars, sessionVars
<1>4. CASE ScanSession
  BY <1>4, ScanEffect DEF Executing
<1>5. CASE StartProcessing
  BY <1>5 DEF StartProcessing, Executing, poolVars, TypeOK
<1>6. CASE RunProcess
  <2>1. PICK t \in Tasks : /\ Pool!Run(Worker, t)
                           /\ job' = [job EXCEPT ![t] =
                                        [session |-> sessions[it], at |-> "client"]]
    BY <1>6 DEF RunProcess
  <2>2. /\ sessions[it] \in Conns /\ processing[sessions[it]] /\ ~InUse(sessions[it])
        /\ processing' = processing
    BY <1>6, InList DEF RunProcess, PlaceInv, MarkInv
  <2>3. task' = [task EXCEPT ![t] = "running"]
    BY <2>1 DEF Pool!Run
  <2>4. /\ \A u \in Tasks \ {t} : /\ Executing(u)' <=> Executing(u)
                                 /\ job'[u].session = job[u].session
        /\ job'[t].session = sessions[it]
    BY <2>1, <2>3 DEF Executing, TypeOK, Pool!TypeOK
  <2> QED
    BY <2>2, <2>4 DEF InUse
<1>7. ASSUME NEW t \in Tasks, ProcessReturns(t) PROVE JobInv'
  <2>1. /\ Executing(t)
        /\ task' = [task EXCEPT ![t] = "returned"]
        /\ processing' = [processing EXCEPT ![job[t].session] = FALSE]
        /\ job' = [job EXCEPT ![t].at = "over"]
    BY <1>7 DEF ProcessReturns, Pool!FnReturn
  <2>2. /\ \A u \in Tasks : job'[u].session = job[u].session
        /\ ~Executing(t)'
        /\ \A u \in Tasks \ {t} : Executing(u)' <=> Executing(u)
    BY <2>1 DEF Executing, TypeOK, Pool!TypeOK
  <2>3. ASSUME NEW u \in Tasks, Executing(u)'
        PROVE  job'[u].session \in Conns /\ processing'[job'[u].session]
    <3>1. u # t /\ Executing(u) /\ job[u].session # job[t].session
      BY <2>1, <2>2, <2>3
    <3> QED
      BY <2>1, <2>2, <3>1 DEF TypeOK
  <2> QED
    BY <2>2, <2>3
<1> QED
  BY <1>1, <1>2, <1>3, <1>4, <1>5, <1>6, <1>7, Effects

LEMMA StepMarkInv ==
  ASSUME TypeOK, PlaceInv, AcceptInv, JobInv, MarkInv, [Next]_vars
  PROVE  MarkInv'
<1> USE DEF MarkInv
<1>1. CASE UNCHANGED vars
  BY <1>1 DEF vars, poolVars, sessionVars, workerVars, Executing, InUse
<1>2. CASE Quiet
  BY <1>2 DEF Quiet, InUse
<1>3. CASE PushSession
  <2>1. sessions' = Append(sessions, accepted) /\ accepted \in Conns /\ sessions \in Seq(Conns)
    BY <1>3 DEF PushSession, AcceptInv, TypeOK
  <2>2. \A i \in 1 .. Len(sessions) : sessions'[i] = sessions[i]
    BY <2>1, PushBack
  <2>3. UNCHANGED <<wpc, it, processing, job, task>>
    BY <1>3 DEF PushSession, workerVars, sessionVars, poolVars
  <2> QED
    BY <2>2, <2>3 DEF PlaceInv, InUse, Executing
<1>4. CASE ScanSession
  BY <1>4, ScanEffect DEF Skip, Erase, GetWorker
<1>5. CASE StartProcessing
  <2>1. ~InUse(sessions[it]) /\ sessions[it] \in Conns
    BY <1>5, FlagDown, InList DEF StartProcessing, PlaceInv
  <2> QED
    BY <1>5, <2>1 DEF StartProcessing, InUse, Executing, poolVars, TypeOK
<1>6. CASE RunProcess
  BY <1>6 DEF RunProcess
<1>7. ASSUME NEW t \in Tasks, ProcessReturns(t) PROVE MarkInv'
  <2>1. /\ Executing(t)
        /\ task' = [task EXCEPT ![t] = "returned"]
        /\ processing' = [processing EXCEPT ![job[t].session] = FALSE]
        /\ job' = [job EXCEPT ![t].at = "over"]
        /\ UNCHANGED <<wpc, it, sessions>>
    BY <1>7 DEF ProcessReturns, Pool!FnReturn, workerVars
  <2>2. /\ \A u \in Tasks : job'[u].session = job[u].session
        /\ \A u \in Tasks : Executing(u)' => Executing(u)
    BY <2>1 DEF Executing, TypeOK, Pool!TypeOK
  <2>3. CASE wpc = "pool"
    BY <2>1, <2>3, InList DEF PlaceInv, TypeOK
  <2>4. CASE wpc = "run"
    <3>1. sessions[it] \in Conns /\ sessions[it] # job[t].session
      BY <2>1, <2>4, InList DEF PlaceInv, InUse
    <3> QED
      BY <2>1, <2>2, <2>4, <3>1 DEF TypeOK, InUse
  <2> QED
    BY <2>1, <2>3, <2>4
<1> QED
  BY <1>1, <1>2, <1>3, <1>4, <1>5, <1>6, <1>7, Effects

-----------------------------------------------------------------------------
(* Types *)

\* Waking one of the blocked threads leaves blocked threads.
LEMMA NotifyTypes ==
  ASSUME cv \subseteq {Worker, Listener}, NotifyOne \/ SpuriousWakeup
  PROVE  cv' \subseteq {Worker, Listener}
<1>1. CASE NotifyOne
  BY <1>1 DEF NotifyOne
<1>2. CASE SpuriousWakeup
  BY <1>2 DEF SpuriousWakeup
<1> QED
  BY <1>1, <1>2

\* The part of the types that a step of the listener or of the environment can disturb
OwnTypes ==
  /\ stop \in BOOLEAN /\ new_connection \in BOOLEAN /\ worker_on_hold \in BOOLEAN
  /\ session_mtx \in {None, Worker, Listener} /\ cv \subseteq {Worker, Listener}
  /\ lpc \in ListenerPlaces /\ accepted \in 0 .. NumConns
  /\ wpc \in WorkerPlaces /\ processed_sessions \in BOOLEAN

ListTypes == sessions \in Seq(Conns) /\ it \in 1 .. Len(sessions) + 1

JobTypes ==
  /\ open \in [Conns -> BOOLEAN] /\ processing \in [Conns -> BOOLEAN]
  /\ job \in [Tasks -> [session : Conns \cup {0},
                        at : {"client", "server", "ok", "failed", "over"}]]

SocketTypes == inbox \in [Conns -> [Sides -> SocketStates]] /\ sent \in 0 .. MaxMessages

LEMMA TypeParts ==
  /\ TypeOK <=> Pool!TypeOK /\ OwnTypes /\ ListTypes /\ JobTypes /\ SocketTypes
  /\ TypeOK' <=> (Pool!TypeOK)' /\ OwnTypes' /\ ListTypes' /\ JobTypes' /\ SocketTypes'
  BY DEF TypeOK, OwnTypes, ListTypes, JobTypes, SocketTypes

LEMMA StepOwnTypes == ASSUME TypeOK, [Next]_vars PROVE OwnTypes'
<1> USE DEF OwnTypes, ListenerStep, WorkerStep, JobStep, Environment, listenerVars, flagVars,
            syncVars, workerVars, ListenerPlaces, WorkerPlaces
<1>0. OwnTypes
  BY TypeParts
<1>1. CASE UNCHANGED vars
  BY <1>0, <1>1 DEF vars
<1>2. CASE Accept
  <2>1. accepted \in 0 .. NumConns /\ NumConns \in Nat
    BY ConnsAssumption DEF ConnsAssumption, TypeOK
  <2>2. accepted' \in 0 .. NumConns
    BY <1>2, <2>1 DEF Accept
  <2> QED
    BY <1>0, <1>2, <2>2 DEF Accept
<1>3. CASE ListenerLock \/ (ListenerStep /\ ~Accept)
  BY ZenonT(30), <1>0, <1>3, NotifyTypes
  DEF ListenerTest, RaiseNewConnection, ListenerPredicate, ListenerBlock, PushSession,
      ListenerNotify, FinalizePool, FinalizeWorker, RunReturns, ListenerLock
<1>4. CASE ScanSession \/ RunProcess
  BY ZenonT(30), <1>0, <1>4 DEF ScanSession, Skip, Erase, GetWorker, RunProcess
<1>5. CASE WorkerLock \/ ScanLock \/ (WorkerStep /\ ~ScanSession /\ ~RunProcess)
  BY <1>0, <1>5, NotifyTypes
  DEF WorkerTest, WorkerCheck, RaiseOnHold, WorkerNotify, WorkerHold, ScanEnd,
      StartProcessing, WorkerLock, ScanLock
<1>6. CASE GetStep \/ JoinStep \/ PoolLock(Listener) \/ PoolLock(Worker)
  BY <1>0, <1>6 DEF GetStep, JoinStep, PoolLock, proxyVars
<1>7. ASSUME NEW t \in Tasks, JobStep(t) PROVE OwnTypes'
  BY <1>0, <1>7
  DEF HandleClientRequest, HandleServerResponse, Forward, CloseSockets, ProcessReturns,
      WrapperReturns
<1>8. CASE Stop \/ SpuriousWakeup
  <2>1. CASE Stop
    BY <1>0, <2>1 DEF Stop
  <2>2. CASE SpuriousWakeup
    <3>1. cv' \subseteq {Worker, Listener}
      BY <1>0, <2>2, NotifyTypes
    <3>2. UNCHANGED <<flagVars, session_mtx, listenerVars, workerVars>>
      BY <2>2 DEF SpuriousWakeup
    <3> QED
      BY <1>0, <3>1, <3>2
  <2> QED
    BY <1>8, <2>1, <2>2
<1>9. ASSUME NEW c \in Conns, NEW s \in Sides, Send(c, s) \/ SendRest(c, s) PROVE OwnTypes'
  BY <1>0, <1>9 DEF Send, SendRest
<1> QED
  BY <1>1, <1>2, <1>3, <1>4, <1>5, <1>6, <1>7, <1>8, <1>9 DEF Next

LEMMA StepListTypes ==
  ASSUME TypeOK, PlaceInv, AcceptInv, [Next]_vars
  PROVE  ListTypes'
<1> USE DEF ListTypes, ListenerStep, WorkerStep, JobStep, Environment, workerVars
<1>0. ListTypes /\ sessions \in Seq(Conns) /\ Len(sessions) \in Nat
  BY TypeParts, LenProperties
<1>1. CASE UNCHANGED vars
  BY <1>0, <1>1 DEF vars
<1>2. CASE PushSession
  <2>1. sessions' = Append(sessions, accepted) /\ accepted \in Conns /\ it' = it
    BY <1>2 DEF PushSession, AcceptInv
  <2>2. sessions' \in Seq(Conns) /\ Len(sessions') = Len(sessions) + 1
    BY <1>0, <2>1, PushBack
  <2> QED
    BY <1>0, <2>1, <2>2
<1>3. CASE ScanSession
  <2>1. it \in 1 .. Len(sessions)
    BY <1>3, ScanEffect
  <2>2. CASE sessions' = sessions /\ it' \in {it, it + 1}
    BY <1>0, <2>1, <2>2
  <2>3. CASE sessions' = RemoveAt(sessions, it) /\ it' = it
    <3>1. sessions' \in Seq(Conns) /\ Len(sessions') = Len(sessions) - 1
      BY <1>0, <2>1, <2>3, EraseOne
    <3> QED
      BY <1>0, <2>1, <2>3, <3>1
  <2> QED
    BY <1>3, <2>2, <2>3, ScanEffect DEF Skip, Erase
<1>4. CASE RunProcess
  BY <1>0, <1>4 DEF RunProcess, PlaceInv
<1>5. CASE ScanLock
  BY <1>0, <1>5 DEF ScanLock
<1>6. CASE ListenerLock \/ (ListenerStep /\ ~PushSession)
  BY <1>0, <1>6
  DEF ListenerTest, Accept, RaiseNewConnection, ListenerPredicate, ListenerBlock,
      ListenerNotify, FinalizePool, FinalizeWorker, RunReturns, ListenerLock
<1>7. CASE WorkerLock \/ (WorkerStep /\ ~ScanSession /\ ~RunProcess)
  BY <1>0, <1>7
  DEF WorkerTest, WorkerCheck, RaiseOnHold, WorkerNotify, WorkerHold, ScanEnd,
      StartProcessing, WorkerLock
<1>8. CASE GetStep \/ JoinStep \/ PoolLock(Listener) \/ PoolLock(Worker)
  BY <1>0, <1>8 DEF GetStep, JoinStep, PoolLock, proxyVars
<1>9. ASSUME NEW t \in Tasks, JobStep(t) PROVE ListTypes'
  BY <1>0, <1>9
  DEF HandleClientRequest, HandleServerResponse, Forward, CloseSockets, ProcessReturns,
      WrapperReturns
<1>10. CASE Environment
  BY <1>0, <1>10 DEF Send, SendRest, Stop, SpuriousWakeup
<1> QED
  BY <1>1, <1>2, <1>3, <1>4, <1>5, <1>6, <1>7, <1>8, <1>9, <1>10 DEF Next

LEMMA StepJobTypes == ASSUME TypeOK, PlaceInv, [Next]_vars PROVE JobTypes'
<1> USE DEF JobTypes, ListenerStep, WorkerStep, JobStep, Environment, sessionVars
<1>0. JobTypes
  BY TypeParts
<1>1. CASE UNCHANGED vars
  BY <1>0, <1>1 DEF vars
<1>2. CASE ScanSession
  BY <1>0, <1>2 DEF ScanSession
<1>3. CASE StartProcessing
  BY <1>0, <1>3 DEF StartProcessing
<1>4. CASE RunProcess
  <2>1. sessions[it] \in Conns /\ UNCHANGED <<open, processing>>
    BY <1>4, InList DEF RunProcess, PlaceInv
  <2>2. PICK t \in Tasks : job' = [job EXCEPT ![t] = [session |-> sessions[it],
                                                      at |-> "client"]]
    BY <1>4 DEF RunProcess
  <2> QED
    BY <1>0, <2>1, <2>2
<1>5. ASSUME NEW t \in Tasks, JobStep(t) PROVE JobTypes'
  <2>1. ASSUME NEW s \in {"client", "server"}, NEW n \in {"server", "ok"}, Forward(t, s, n)
        PROVE  JobTypes'
    BY <1>0, <2>1 DEF Forward
  <2>2. CASE HandleClientRequest(t) \/ HandleServerResponse(t)
    BY <2>1, <2>2 DEF HandleClientRequest, HandleServerResponse
  <2>3. CASE CloseSockets(t)
    BY <1>0, <2>3 DEF CloseSockets
  <2>4. CASE ProcessReturns(t)
    BY <1>0, <2>4 DEF ProcessReturns
  <2>5. CASE WrapperReturns(t)
    BY <1>0, <2>5 DEF WrapperReturns
  <2> QED
    BY <1>5, <2>2, <2>3, <2>4, <2>5
<1>6. CASE ListenerStep \/ ListenerLock
  BY <1>0, <1>6
  DEF ListenerTest, Accept, RaiseNewConnection, ListenerPredicate, ListenerBlock, PushSession,
      ListenerNotify, FinalizePool, FinalizeWorker, RunReturns, ListenerLock
<1>7. CASE \/ WorkerLock \/ ScanLock
           \/ (WorkerStep /\ ~ScanSession /\ ~StartProcessing /\ ~RunProcess)
  BY <1>0, <1>7
  DEF WorkerTest, WorkerCheck, RaiseOnHold, WorkerNotify, WorkerHold, ScanEnd, WorkerLock,
      ScanLock
<1>8. CASE GetStep \/ JoinStep \/ PoolLock(Listener) \/ PoolLock(Worker)
  BY <1>0, <1>8 DEF GetStep, JoinStep, PoolLock, proxyVars
<1>9. CASE Environment
  BY <1>0, <1>9 DEF Send, SendRest, Stop, SpuriousWakeup
<1> QED
  BY <1>1, <1>2, <1>3, <1>4, <1>5, <1>6, <1>7, <1>8, <1>9 DEF Next

LEMMA StepSocketTypes == ASSUME TypeOK, [Next]_vars PROVE SocketTypes'
<1> USE DEF SocketTypes, ListenerStep, WorkerStep, JobStep, Environment, sockVars
<1>0. SocketTypes
  BY TypeParts
<1>1. CASE UNCHANGED vars
  BY <1>0, <1>1 DEF vars
<1>2. ASSUME NEW t \in Tasks, JobStep(t) PROVE SocketTypes'
  <2>1. ASSUME NEW s \in {"client", "server"}, NEW n, Forward(t, s, n) PROVE SocketTypes'
    BY <1>0, <2>1 DEF Forward, SocketStates, Sides
  <2>2. CASE HandleClientRequest(t) \/ HandleServerResponse(t)
    BY <2>1, <2>2 DEF HandleClientRequest, HandleServerResponse
  <2> QED
    BY <1>0, <1>2, <2>2 DEF CloseSockets, ProcessReturns, WrapperReturns
<1>3. ASSUME NEW c \in Conns, NEW s \in Sides, Send(c, s) \/ SendRest(c, s)
      PROVE  SocketTypes'
  <2>1. sent' \in 0 .. MaxMessages
    BY <1>0, <1>3, TasksAssumption DEF TasksAssumption, Send, SendRest
  <2>2. PICK x \in SocketStates : inbox' = [inbox EXCEPT ![c][s] = x]
    BY <1>3 DEF Send, SendRest, SocketStates
  <2> QED
    BY <1>0, <2>1, <2>2
<1>4. CASE Stop \/ SpuriousWakeup
  BY <1>0, <1>4 DEF Stop, SpuriousWakeup
<1>5. CASE ListenerStep \/ ListenerLock
  BY <1>0, <1>5
  DEF ListenerTest, Accept, RaiseNewConnection, ListenerPredicate, ListenerBlock, PushSession,
      ListenerNotify, FinalizePool, FinalizeWorker, RunReturns, ListenerLock
<1>6. CASE WorkerStep \/ WorkerLock \/ ScanLock
  BY <1>0, <1>6
  DEF WorkerTest, WorkerCheck, RaiseOnHold, WorkerNotify, WorkerHold, ScanSession, ScanEnd,
      StartProcessing, RunProcess, WorkerLock, ScanLock
<1>7. CASE GetStep \/ JoinStep \/ PoolLock(Listener) \/ PoolLock(Worker)
  BY <1>0, <1>7 DEF GetStep, JoinStep, PoolLock, proxyVars
<1> QED
  BY <1>1, <1>2, <1>3, <1>4, <1>5, <1>6, <1>7 DEF Next

-----------------------------------------------------------------------------
(* The invariant *)

LEMMA ProxyInit == Init => ProxyInv
<1> SUFFICES ASSUME Init PROVE ProxyInv
  OBVIOUS
<1>1. Proved!Init
  BY DEF Init, Pool!Init, Proved!Init, Pool!Workers, Pool!Clients, Pool!FreshWorker,
         Proved!Workers, Proved!Clients, Proved!FreshWorker
<1>2. Proved!ConsistentInv
  BY <1>1, PoolUse, Proved!InitInv
  DEF Proved!NAssumption, Proved!NoneAssumption, Proved!UsageAssumption,
      Proved!SubmitterAssumption
<1>3. PoolOK
  BY <1>2, SameInvariant DEF PoolOK, Pool!NoTerminate, Init, Pool!Init
<1>4. OwnTypes /\ JobTypes /\ SocketTypes
  <2>1. OwnTypes
    <3>1. accepted \in 0 .. NumConns /\ cv \subseteq {Worker, Listener}
      BY ConnsAssumption DEF Init, ConnsAssumption
    <3> QED
      BY <3>1 DEF Init, OwnTypes, ListenerPlaces, WorkerPlaces
  <2>2. JobTypes
    BY DEF Init, JobTypes
  <2>3. SocketTypes
    BY TasksAssumption DEF Init, TasksAssumption, SocketTypes, SocketStates
  <2> QED
    BY <2>1, <2>2, <2>3
<1>5. ListTypes
  BY EmptySeq DEF Init, ListTypes
<1>6. AcceptInv /\ PlaceInv /\ JobInv /\ MarkInv
  BY DEF Init, Pool!Init, AcceptInv, PlaceInv, JobInv, MarkInv, Executing
<1> QED
  BY <1>3, <1>4, <1>5, <1>6, TypeParts DEF ProxyInv, PoolOK, Pool!ConsistentInv

LEMMA ProxyStep == ProxyInv /\ [Next]_vars => ProxyInv'
<1> SUFFICES ASSUME ProxyInv, [Next]_vars PROVE ProxyInv'
  OBVIOUS
<1> USE DEF ProxyInv
<1>1. PoolOK'
  BY StepPool
<1>2. OwnTypes' /\ ListTypes' /\ JobTypes' /\ SocketTypes'
  BY StepOwnTypes, StepListTypes, StepJobTypes, StepSocketTypes
<1>3. TypeOK'
  BY <1>1, <1>2, TypeParts DEF PoolOK, Pool!ConsistentInv
<1> QED
  BY <1>1, <1>3, StepAcceptInv, StepPlaceInv, StepJobInv, StepMarkInv

\* In every reachable state the pool is consistent, processing_ is up for a session that a
\* pool thread is inside of, and the worker has taken up a session that nobody works on.
THEOREM ProxyInvariant == Spec => []ProxyInv
  BY ProxyInit, ProxyStep, PTL DEF Spec

\* The pool is safe in the hands of the proxy, where get() and run() run against join() and
\* may come after it (worker, finalize).
THEOREM PoolIsSafe == Spec => []PoolSafe
<1>1. ProxyInv => PoolSafe
  BY DEF ProxyInv, PoolOK, PoolSafe, Pool!PoolInv, Pool!JoinedInv, Pool!SequentialUse
<1> QED
  BY <1>1, ProxyInvariant, PTL

\* A session leaves the list only while no pool thread is inside its process().
LEMMA DropsUnused ==
  ASSUME ProxyInv, [Next]_vars,
         NEW c \in Conns, Contains(sessions, c), ~Contains(sessions', c)
  PROVE  ~InUse(c)
<1> USE DEF ProxyInv
<1>1. sessions' # sessions
  OBVIOUS
<1>2. CASE PushSession
  <2>1. sessions' = Append(sessions, accepted) /\ accepted \in Conns /\ sessions \in Seq(Conns)
    BY <1>2 DEF PushSession, AcceptInv, TypeOK
  <2> QED
    BY <2>1, PushBack
<1>3. CASE ScanSession
  <2>1. it \in 1 .. Len(sessions) /\ sessions \in Seq(Conns)
    BY <1>3, ScanEffect DEF TypeOK
  <2>2. sessions' = RemoveAt(sessions, it) /\ ~processing[sessions[it]]
    BY <1>1, <1>3, ScanEffect DEF Erase
  <2>3. c = sessions[it]
    BY <2>1, <2>2, EraseOne
  <2> QED
    BY <2>2, <2>3, FlagDown
<1>4. CASE Quiet \/ StartProcessing \/ RunProcess \/ UNCHANGED vars
  BY <1>1, <1>4 DEF Quiet, StartProcessing, RunProcess, vars
<1>5. ASSUME NEW t \in Tasks, ProcessReturns(t) PROVE FALSE
  BY <1>1, <1>5 DEF ProcessReturns
<1> QED
  BY <1>2, <1>3, <1>4, <1>5, Effects

\* No session is worked on by two pool threads, and none is destroyed under one
\* (worker, start_processing, process).
THEOREM SessionsAreExclusive == Spec => SessionsExclusive
<1>1. ProxyInv => \A t, u \in Tasks :
         Executing(t) /\ Executing(u) /\ job[t].session = job[u].session => t = u
  BY DEF ProxyInv, JobInv
<1>2. ProxyInv /\ [Next]_vars =>
        [\A c \in Conns : Contains(sessions, c) /\ ~Contains(sessions', c) => ~InUse(c)]_vars
  BY DropsUnused
<1> QED
  BY <1>1, <1>2, ProxyInvariant, PTL DEF Spec, SessionsExclusive
=============================================================================
