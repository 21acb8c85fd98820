-------------------------------- MODULE Proxy --------------------------------
(***************************************************************************)
(* The PostgreSQL proxy of src/PostgresProxy/proxy.cpp, composed with its  *)
(* thread pool (module ThreadPool).                                        *)
(*                                                                         *)
(* The listener (the thread in Proxy::run) accepts connections and hands   *)
(* each one over to the session list; the worker thread goes round the     *)
(* list and gives every session with readable sockets to the pool, where   *)
(* Session::process forwards one message each way.  The two synchronise    *)
(* with the flags new_connection and worker_on_hold, the mutex session_mtx *)
(* and one condition variable.  SIGINT may raise stop at any time.         *)
(*                                                                         *)
(* A socket is empty, holds a whole message, holds the beginning of one    *)
(* (receive blocks until the peer sends the rest) or is at its end (closed *)
(* by the peer, or anything else that makes process() give the session up).*)
(* Module Session looks inside process().                                  *)
(***************************************************************************)
EXTENDS Naturals, Sequences, SequencesExt, FiniteSets

CONSTANTS
  N, Tasks, None,    \* the pool; Tasks are numbers, one for each call of process()
  Worker, Listener,  \* the two threads of the proxy
  NumConns,          \* bound: connections, numbered in the order they are accepted
  MaxMessages,       \* bound: messages that peers send, over all connections
  MayStall           \* may a peer stop in the middle of a message?

ASSUME ConnsAssumption == NumConns \in Nat
ASSUME TasksAssumption == Tasks = 1 .. MaxMessages /\ MaxMessages \in Nat
ASSUME PoolAssumption ==
  N \in Nat \ {0} /\ Worker # Listener /\ None \notin Tasks \cup {Worker, Listener}

Conns == 1 .. NumConns

VARIABLES
  stop, new_connection,        \* atomic flags
  worker_on_hold,              \* plain flag, written without the mutex
  session_mtx,                 \* its holder
  cv,                          \* the threads blocked on the condition variable
  sessions,                    \* the session list
  lpc, accepted,               \* the listener: where it is, its latest connection
  wpc, it, processed_sessions, \* the worker: where it is, its place in the list
  open,                        \* Session::operator bool
  processing,                  \* Session::processing_
  inbox, sent,                 \* what each socket holds, how many messages came
  job                          \* the call of process() that a pool task executes

VARIABLES started, done, thread, task, runner, mtx, joining, pc, idx, tmp, terminated

Pool == INSTANCE ThreadPool WITH
  Submitters <- {Worker}, Joiners <- {Listener}, LateSubmit <- TRUE, HoldOnSleep <- FALSE

poolVars == <<started, done, thread, task, runner, mtx, joining, pc, idx, tmp, terminated>>
flagVars == <<stop, new_connection, worker_on_hold>>
syncVars == <<session_mtx, cv>>
listenerVars == <<lpc, accepted>>
workerVars == <<wpc, it, processed_sessions>>
sockVars == <<inbox, sent>>
sessionVars == <<open, processing, job>>
vars == <<flagVars, syncVars, sessions, listenerVars, workerVars, sockVars, sessionVars, poolVars>>

Sides == {"client", "server"}
SocketStates == {"empty", "message", "partial", "end"}
ListenerPlaces == {"loop", "select", "raise", "lock", "test", "waiting", "block", "push", "notify",
                   "finalize", "poolJoin", "workerJoin", "returned"}
WorkerPlaces == {"loop", "check", "hold", "notify", "holdLock", "holdTest", "holdWait",
                 "scanLock", "scan", "pool", "run", "end"}

TypeOK ==
  /\ Pool!TypeOK
  /\ stop \in BOOLEAN /\ new_connection \in BOOLEAN /\ worker_on_hold \in BOOLEAN
  /\ session_mtx \in {None, Worker, Listener} /\ cv \subseteq {Worker, Listener}
  /\ sessions \in Seq(Conns)
  /\ lpc \in ListenerPlaces /\ accepted \in 0 .. NumConns
  /\ wpc \in WorkerPlaces /\ it \in 1 .. Len(sessions) + 1 /\ processed_sessions \in BOOLEAN
  /\ open \in [Conns -> BOOLEAN] /\ processing \in [Conns -> BOOLEAN]
  /\ inbox \in [Conns -> [Sides -> SocketStates]]
  /\ sent \in 0 .. MaxMessages
  /\ job \in [Tasks -> [session : Conns \cup {0},
                        at : {"client", "server", "ok", "failed", "over"}]]

Init ==
  /\ Pool!Init
  /\ stop = FALSE /\ new_connection = FALSE /\ worker_on_hold = FALSE
  /\ session_mtx = None /\ cv = {}
  /\ sessions = <<>>
  /\ lpc = "loop" /\ accepted = 0
  /\ wpc = "loop" /\ it = 1 /\ processed_sessions = FALSE
  /\ open = [c \in Conns |-> TRUE] /\ processing = [c \in Conns |-> FALSE]
  /\ inbox = [c \in Conns |-> [s \in Sides |-> "empty"]]
  /\ sent = 0
  /\ job = [t \in Tasks |-> [session |-> 0, at |-> "over"]]

\* condition_variable::notify_one wakes one of the blocked threads, if there is any
NotifyOne == IF cv = {} THEN UNCHANGED cv ELSE \E p \in cv : cv' = cv \ {p}

-----------------------------------------------------------------------------
(* The listener: Proxy::run and Private::handle_request *)

ListenerTest ==
  /\ lpc = "loop"
  /\ lpc' = IF stop THEN "finalize" ELSE "select"
  /\ UNCHANGED <<flagVars, syncVars, sessions, accepted, workerVars, sockVars,
                 sessionVars, poolVars>>

\* listener.wait and accept: a connection, or the timeout of one second
Accept ==
  /\ lpc = "select"
  /\ \/ /\ lpc' = "loop"
        /\ UNCHANGED accepted
     \/ /\ accepted < NumConns
        /\ accepted' = accepted + 1
        /\ lpc' = "raise"
  /\ UNCHANGED <<flagVars, syncVars, sessions, workerVars, sockVars, sessionVars, poolVars>>

RaiseNewConnection ==
  /\ lpc = "raise"
  /\ new_connection' = TRUE
  /\ lpc' = "lock"
  /\ UNCHANGED <<stop, worker_on_hold, syncVars, sessions, accepted, workerVars,
                 sockVars, sessionVars, poolVars>>

\* Take session_mtx, at first or after a wake-up inside cv.wait
ListenerLock ==
  /\ lpc = "lock" \/ (lpc = "waiting" /\ Listener \notin cv)
  /\ session_mtx = None
  /\ session_mtx' = Listener
  /\ lpc' = "test"
  /\ UNCHANGED <<flagVars, cv, sessions, accepted, workerVars, sockVars, sessionVars,
                 poolVars>>

\* cv.wait(lk, worker_on_hold): the predicate is read under the mutex ...
ListenerPredicate ==
  /\ lpc = "test"
  /\ lpc' = IF worker_on_hold THEN "push" ELSE "block"
  /\ UNCHANGED <<flagVars, syncVars, sessions, accepted, workerVars, sockVars,
                 sessionVars, poolVars>>

\* ... and, when it was false, the thread blocks and releases the mutex in one step
ListenerBlock ==
  /\ lpc = "block"
  /\ cv' = cv \cup {Listener}
  /\ session_mtx' = None
  /\ lpc' = "waiting"
  /\ UNCHANGED <<flagVars, sessions, accepted, workerVars, sockVars, sessionVars,
                 poolVars>>

\* Mutant of PushSession: the request stays raised
PushSessionStillPending ==
  /\ lpc = "push"
  /\ sessions' = Append(sessions, accepted)
  /\ session_mtx' = None
  /\ lpc' = "notify"
  /\ UNCHANGED <<flagVars, cv, accepted, workerVars, sockVars, sessionVars, poolVars>>

\* A failed connect leaves a session whose server socket is at its end, and a failed accept
\* one whose client socket is, for it returns a socket that is new and valid (Send)
PushSession ==
  /\ lpc = "push"
  /\ sessions' = Append(sessions, accepted)
  /\ new_connection' = FALSE
  /\ session_mtx' = None
  /\ lpc' = "notify"
  /\ UNCHANGED <<stop, worker_on_hold, cv, accepted, workerVars, sockVars,
                 sessionVars, poolVars>>

\* Mutant of ListenerNotify: the worker is not notified
ListenerSilent ==
  /\ lpc = "notify"
  /\ lpc' = "loop"
  /\ UNCHANGED <<flagVars, syncVars, sessions, accepted, workerVars, sockVars, sessionVars,
                 poolVars>>

ListenerNotify ==
  /\ lpc = "notify"
  /\ NotifyOne
  /\ lpc' = "loop"
  /\ UNCHANGED <<flagVars, session_mtx, sessions, accepted, workerVars, sockVars, sessionVars,
                 poolVars>>

\* Private::finalize: pool.join(), then worker_thread.join()
FinalizePool ==
  /\ lpc = "finalize"
  /\ Pool!JoinCall(Listener)
  /\ lpc' = "poolJoin"
  /\ UNCHANGED <<flagVars, syncVars, sessions, accepted, workerVars, sockVars,
                 sessionVars>>

FinalizeWorker ==
  /\ lpc = "poolJoin" /\ pc[Listener] = "idle"
  /\ lpc' = "workerJoin"
  /\ UNCHANGED <<flagVars, syncVars, sessions, accepted, workerVars, sockVars,
                 sessionVars, poolVars>>

RunReturns ==
  /\ lpc = "workerJoin" /\ wpc = "end"
  /\ lpc' = "returned"
  /\ UNCHANGED <<flagVars, syncVars, sessions, accepted, workerVars, sockVars,
                 sessionVars, poolVars>>

-----------------------------------------------------------------------------
(* The worker: Private::worker *)

WorkerTest ==
  /\ wpc = "loop"
  /\ wpc' = IF stop THEN "end" ELSE "check"
  /\ UNCHANGED <<flagVars, syncVars, sessions, listenerVars, it, processed_sessions, sockVars,
                 sessionVars, poolVars>>

WorkerCheck ==
  /\ wpc = "check"
  /\ wpc' = IF new_connection THEN "hold" ELSE "scanLock"
  /\ UNCHANGED <<flagVars, syncVars, sessions, listenerVars, it, processed_sessions, sockVars,
                 sessionVars, poolVars>>

\* worker_on_hold is raised, and the listener notified, without session_mtx
RaiseOnHold ==
  /\ wpc = "hold"
  /\ worker_on_hold' = TRUE
  /\ wpc' = "notify"
  /\ UNCHANGED <<stop, new_connection, syncVars, sessions, listenerVars, it,
                 processed_sessions, sockVars, sessionVars, poolVars>>

WorkerNotify ==
  /\ wpc = "notify"
  /\ NotifyOne
  /\ wpc' = "holdLock"
  /\ UNCHANGED <<flagVars, session_mtx, sessions, listenerVars, it, processed_sessions,
                 sockVars, sessionVars, poolVars>>

WorkerLock ==
  /\ wpc = "holdLock" \/ (wpc = "holdWait" /\ Worker \notin cv)
  /\ session_mtx = None
  /\ session_mtx' = Worker
  /\ wpc' = "holdTest"
  /\ UNCHANGED <<flagVars, cv, sessions, listenerVars, it, processed_sessions, sockVars,
                 sessionVars, poolVars>>

\* cv.wait(lk, !new_connection), then worker_on_hold is lowered
WorkerHold ==
  /\ wpc = "holdTest"
  /\ session_mtx' = None
  /\ IF new_connection
       THEN /\ cv' = cv \cup {Worker}
            /\ wpc' = "holdWait"
            /\ UNCHANGED worker_on_hold
       ELSE /\ worker_on_hold' = FALSE
            /\ wpc' = "scanLock"
            /\ UNCHANGED cv
  /\ UNCHANGED <<stop, new_connection, sessions, listenerVars, it, processed_sessions,
                 sockVars, sessionVars, poolVars>>

ScanLock ==
  /\ wpc = "scanLock"
  /\ session_mtx = None
  /\ session_mtx' = Worker
  /\ it' = 1
  /\ processed_sessions' = FALSE
  /\ wpc' = "scan"
  /\ UNCHANGED <<flagVars, cv, sessions, listenerVars, sockVars, sessionVars, poolVars>>

WorkPending(c) == \E s \in Sides : inbox[c][s] # "empty"

\* A session that is being processed or has nothing to read is passed over
Skip(c) ==
  /\ processing[c] \/ (open[c] /\ ~WorkPending(c))
  /\ it' = it + 1
  /\ UNCHANGED <<sessions, wpc, poolVars>>

Erase(c) ==
  /\ ~processing[c] /\ ~open[c]
  /\ sessions' = RemoveAt(sessions, it)
  /\ UNCHANGED <<it, wpc, poolVars>>

\* pool.get() is called with session_mtx held
GetWorker(c) ==
  /\ ~processing[c] /\ open[c] /\ WorkPending(c)
  /\ Pool!GetCall(Worker)
  /\ wpc' = "pool"
  /\ UNCHANGED <<sessions, it>>

ScanSession ==
  /\ wpc = "scan"
  /\ it <= Len(sessions)
  /\ LET c == sessions[it] IN Skip(c) \/ Erase(c) \/ GetWorker(c)
  /\ UNCHANGED <<flagVars, syncVars, listenerVars, processed_sessions, sockVars, sessionVars>>

\* Mutant of StartProcessing: processing_ is not raised
StartProcessingUnmarked ==
  /\ wpc = "pool" /\ pc[Worker] = "got"
  /\ wpc' = "run"
  /\ UNCHANGED <<flagVars, syncVars, sessions, listenerVars, it, processed_sessions, sockVars,
                 sessionVars, poolVars>>

\* pool.get() has returned: Session::start_processing raises processing_ ...
StartProcessing ==
  /\ wpc = "pool" /\ pc[Worker] = "got"
  /\ processing' = [processing EXCEPT ![sessions[it]] = TRUE]
  /\ wpc' = "run"
  /\ UNCHANGED <<flagVars, syncVars, sessions, listenerVars, it, processed_sessions, sockVars,
                 open, job, poolVars>>

\* ... and runs process() in the pool
RunProcess ==
  /\ wpc = "run"
  /\ \E t \in Tasks :
       /\ \A m \in 1 .. t - 1 : task[m] # "new"
       /\ Pool!Run(Worker, t)
       /\ job' = [job EXCEPT ![t] = [session |-> sessions[it], at |-> "client"]]
  /\ processed_sessions' = TRUE
  /\ it' = it + 1
  /\ wpc' = "scan"
  /\ UNCHANGED <<flagVars, syncVars, sessions, listenerVars, sockVars, open, processing>>

\* The end of a pass; after an idle one the worker sleeps 1 ms with the mutex held
ScanEnd ==
  /\ wpc = "scan"
  /\ it > Len(sessions)
  /\ session_mtx' = None
  /\ wpc' = "loop"
  /\ UNCHANGED <<flagVars, cv, sessions, listenerVars, it, processed_sessions, sockVars,
                 sessionVars, poolVars>>

\* pool.get() in the worker and pool.join() in the listener, step by step
proxyVars == <<flagVars, syncVars, sessions, listenerVars, workerVars, sockVars, sessionVars>>
GetStep == Pool!GetStep(Worker) /\ UNCHANGED proxyVars
JoinStep == Pool!JoinStep(Listener) /\ UNCHANGED proxyVars
PoolLock(p) == Pool!Lock(p) /\ UNCHANGED proxyVars

-----------------------------------------------------------------------------
(* A pool thread: Session::process *)

Executing(t) == task[t] = "running"

\* handle_client_request, then handle_server_response, each of one message if there is
\* one; a message whose rest is missing blocks the thread
Forward(t, side, next) ==
  LET c == job[t].session IN
    /\ Executing(t) /\ job[t].at = side
    /\ inbox[c][side] # "partial"
    /\ inbox' = [inbox EXCEPT ![c][side] = IF @ = "end" THEN "end" ELSE "empty"]
    /\ job' = [job EXCEPT ![t].at = IF inbox[c][side] = "end" THEN "failed" ELSE next]
    /\ UNCHANGED <<flagVars, syncVars, sessions, listenerVars, workerVars, sent, open,
                   processing, poolVars>>

HandleClientRequest(t) == Forward(t, "client", "server")
HandleServerResponse(t) == Forward(t, "server", "ok")

\* After a failure both sockets are closed ...
CloseSockets(t) ==
  /\ Executing(t) /\ job[t].at = "failed"
  /\ open' = [open EXCEPT ![job[t].session] = FALSE]
  /\ job' = [job EXCEPT ![t].at = "ok"]
  /\ UNCHANGED <<flagVars, syncVars, sessions, listenerVars, workerVars, sockVars, processing,
                 poolVars>>

\* ... and in any case the scope guard clears processing_ last
ProcessReturns(t) ==
  /\ Executing(t) /\ job[t].at = "ok"
  /\ Pool!FnReturn(t)
  /\ processing' = [processing EXCEPT ![job[t].session] = FALSE]
  /\ job' = [job EXCEPT ![t].at = "over"]
  /\ UNCHANGED <<flagVars, syncVars, sessions, listenerVars, workerVars, sockVars, open>>

WrapperReturns(t) ==
  /\ Pool!WrapperDone(t)
  /\ UNCHANGED <<flagVars, syncVars, sessions, listenerVars, workerVars, sockVars, sessionVars>>

-----------------------------------------------------------------------------
(* The environment *)

\* A peer sends a message, the beginning of one or nothing more
Send(c, side) ==
  /\ Contains(sessions, c) /\ open[c]
  /\ inbox[c][side] = "empty"
  /\ sent < MaxMessages
  /\ sent' = sent + 1
  /\ \E s \in {"message", "end"} \cup (IF MayStall THEN {"partial"} ELSE {}) :
       inbox' = [inbox EXCEPT ![c][side] = s]
  /\ UNCHANGED <<flagVars, syncVars, sessions, listenerVars, workerVars, sessionVars, poolVars>>

\* The rest of a message arrives, or its sender goes away
SendRest(c, side) ==
  /\ inbox[c][side] = "partial"
  /\ \E s \in {"message", "end"} : inbox' = [inbox EXCEPT ![c][side] = s]
  /\ UNCHANGED <<flagVars, syncVars, sessions, listenerVars, workerVars, sent, sessionVars,
                 poolVars>>

\* Proxy::stop, from the SIGINT handler
Stop ==
  /\ ~stop
  /\ stop' = TRUE
  /\ UNCHANGED <<new_connection, worker_on_hold, syncVars, sessions, listenerVars, workerVars,
                 sockVars, sessionVars, poolVars>>

\* The standard allows wait() to return without a notification
SpuriousWakeup ==
  /\ \E p \in cv : cv' = cv \ {p}
  /\ UNCHANGED <<flagVars, session_mtx, sessions, listenerVars, workerVars, sockVars,
                 sessionVars, poolVars>>

-----------------------------------------------------------------------------

ListenerStep ==
  \/ ListenerTest \/ Accept \/ RaiseNewConnection \/ ListenerPredicate \/ ListenerBlock
  \/ PushSession \/ ListenerNotify \/ FinalizePool \/ FinalizeWorker \/ RunReturns

WorkerStep ==
  \/ WorkerTest \/ WorkerCheck \/ RaiseOnHold \/ WorkerNotify \/ WorkerHold
  \/ ScanSession \/ ScanEnd \/ StartProcessing \/ RunProcess

JobStep(t) ==
  \/ HandleClientRequest(t) \/ HandleServerResponse(t)
  \/ CloseSockets(t) \/ ProcessReturns(t) \/ WrapperReturns(t)

Environment ==
  \/ \E c \in Conns, s \in Sides : Send(c, s) \/ SendRest(c, s)
  \/ Stop
  \/ SpuriousWakeup

Next ==
  \/ ListenerStep \/ ListenerLock \/ JoinStep \/ PoolLock(Listener)
  \/ WorkerStep \/ WorkerLock \/ ScanLock \/ GetStep \/ PoolLock(Worker)
  \/ \E t \in Tasks : JobStep(t)
  \/ Environment

Spec == Init /\ [][Next]_vars

\* Every thread is scheduled, and obtains a mutex that is released again and again.
\* Nothing is assumed of the peers, of SIGINT and of spurious wake-ups.
Fairness ==
  /\ WF_vars(ListenerStep \/ JoinStep) /\ SF_vars(ListenerLock \/ PoolLock(Listener))
  /\ WF_vars(WorkerStep \/ GetStep) /\ SF_vars(WorkerLock \/ ScanLock \/ PoolLock(Worker))
  /\ \A t \in Tasks : WF_vars(JobStep(t))

FairSpec == Spec /\ Fairness

-----------------------------------------------------------------------------
(* Properties *)

InUse(c) == \E t \in Tasks : Executing(t) /\ job[t].session = c

\* Both threads are blocked on the condition variable, each to be woken by the other
Wedged == {Worker, Listener} \subseteq cv

\* The listener is blocked in handle_request and the worker can not wake it any more
HandshakeStuck == Listener \in cv /\ wpc \in {"holdWait", "end"}

\* The pool threads that wait for the rest of a message
StalledTasks ==
  {t \in Tasks : /\ Executing(t) /\ job[t].at \in Sides
                 /\ inbox[job[t].session][job[t].at] = "partial"}
Stalled == StalledTasks # {}

Ready(c) == /\ Contains(sessions, c) /\ open[c] /\ WorkPending(c)
            /\ \A t \in StalledTasks : job[t].session # c

\* The pool's own invariant survives this use of it: get() and run() in the worker thread
\* against join() in the listener, with submissions after join() (get, run, join).
PoolSafe == TypeOK /\ Pool!PoolInv /\ Pool!NoTerminate

\* No two pool threads ever work on one session, whose sockets and buffer they would share,
\* and the worker drops a session (and so destroys it) only when no pool thread is inside its
\* process(), which holds a bare this pointer (worker, start_processing).
SessionsExclusive ==
  /\ [](\A t, u \in Tasks :
           Executing(t) /\ Executing(u) /\ job[t].session = job[u].session => t = u)
  /\ [][\A c \in Conns : Contains(sessions, c) /\ ~Contains(sessions', c) => ~InUse(c)]_vars

\* After SIGINT run() returns, unless the listener is left blocked in handle_request or a
\* pool thread waits for the rest of a message (run, stop, finalize).
StopCompletes == []<>(stop => lpc = "returned" \/ HandshakeStuck \/ Stalled)

\* "Raise the flag and wait until worker lets us to proceed" (proxy.cpp:42): a connection
\* that was accepted is handed over unless the proxy is stopped.
HandOver == lpc = "raise" ~> (lpc = "loop" \/ stop)

\* "Setup Ctrl+C handler for graceful shutdown" (main.cpp:26), and the pool's join() "will
\* not return back until pool is empty": once run() has returned, and its caller destroys
\* the sessions, no pool thread is inside process().
ShutdownQuiesces == lpc = "returned" => \A t \in Tasks : ~Executing(t)
=============================================================================
