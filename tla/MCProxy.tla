------------------------------- MODULE MCProxy -------------------------------
(* The proxy for TLC, with a pool of N threads or with a pool of one,      *)
(* whichever the caller of the constructor wants: the only thread is busy  *)
(* whenever a session is in process(), so that get() waits for it, and the *)
(* worker with it, with session_mtx held.                                  *)
EXTENDS Proxy

VARIABLE threads    \* of the pool

One == INSTANCE Proxy WITH N <- 1

allVars == <<vars, threads>>

Sizes == {1, N}

MCInit ==
  /\ threads \in Sizes
  /\ IF threads = 1 THEN One!Init ELSE Init

\* A step of the proxy with the pool that it has
Either(many, one) ==
  /\ IF threads = 1 THEN one ELSE many
  /\ UNCHANGED threads

MCNext == Either(Next, One!Next)

MCFairness ==
  /\ WF_allVars(Either(ListenerStep \/ JoinStep, One!ListenerStep \/ One!JoinStep))
  /\ SF_allVars(Either(ListenerLock \/ PoolLock(Listener),
                       One!ListenerLock \/ One!PoolLock(Listener)))
  /\ WF_allVars(Either(WorkerStep \/ GetStep, One!WorkerStep \/ One!GetStep))
  /\ SF_allVars(Either(WorkerLock \/ ScanLock \/ PoolLock(Worker),
                       One!WorkerLock \/ One!ScanLock \/ One!PoolLock(Worker)))
  /\ \A t \in Tasks : WF_allVars(Either(JobStep(t), One!JobStep(t)))

MCSpec == MCInit /\ [][MCNext]_allVars /\ MCFairness

-----------------------------------------------------------------------------

\* The pool's invariant holds in the proxy, and nothing calls std::terminate (Proxy)
PoolsSafe == IF threads = 1 THEN One!PoolSafe ELSE PoolSafe

\* All of the pool waits for the rest of a message: whoever calls get() sleeps, the worker
\* with session_mtx held
Exhausted == Cardinality(StalledTasks) >= threads

Healthy == ~stop /\ ~Wedged /\ ~Exhausted

\* Only four things starve a session with something to read, or a new connection: stop, the
\* wedged handshake, a peer that stops in the middle of a message of this very session, and
\* as many such peers as the pool has threads. As long as they stay away no session stays
\* ready and no handover stays pending: a pool that is full for a while, or one stalled peer
\* beside a free thread, holds up nobody else; the session is served or dropped, the
\* connection joins the list (worker, get, handle_request).
Progress ==
  /\ \A c \in Conns : []<>(Healthy => ~Ready(c))
  /\ []<>(Healthy => lpc \in {"loop", "select"})
=============================================================================
