----------------------------- MODULE EpollProofs -----------------------------
(***************************************************************************)
(* The right callback is called, and no event is forgotten, for every      *)
(* finite set of descriptors and every set of callbacks.  The invariant    *)
(* relates m_handlers to the callbacks that descriptors were added with,   *)
(* those to the kernel's table, and both to the events of the batch.       *)
(***************************************************************************)
EXTENDS EpollDispatcher, FiniteSetTheorems, TLAPS

Reported == {Wake} \cup [fd : Fds, events : SUBSET {"In", "Out", "Hangup"}]

\* The handler of f is the one it was added with; or there is neither of them
HandlerInv ==
  \A f \in Fds :
    \/ f \in leftover
    \/ given[f] = m_handlers[f]
    \/ given[f] = Nobody /\ m_handlers[f] = Default

\* What was added is what the kernel watches
WatchInv == \A f \in Fds : watched[f] = NotWatched <=> given[f] = Nobody

\* An event in the batch is of a descriptor that is watched, or was when it was reported
BatchInv ==
  /\ batch \in Seq(Reported)
  /\ \A i \in DOMAIN batch :
       batch[i] = Wake \/ given[batch[i].fd] # Nobody \/ batch[i].fd \in gone

EpollInv == TypeOK /\ HandlerInv /\ WatchInv /\ BatchInv

-----------------------------------------------------------------------------
(* Lemmas *)

\* What SetToSeqs makes of a finite set has the members of the set, and all of them.
LEMMA Orders ==
  ASSUME NEW S, IsFiniteSet(S), NEW s \in SX!SetToSeqs(S)
  PROVE  /\ s \in Seq(S)
         /\ \A x \in S : \E i \in DOMAIN s : s[i] = x
<1>1. SX!Cardinality(S) = Cardinality(S)
  BY DEF SX!Cardinality, Cardinality
<1>2. /\ s \in [1..Cardinality(S) -> S]
      /\ \A i, j \in 1..Cardinality(S) : i # j => s[i] # s[j]
  BY <1>1 DEF SX!SetToSeqs
<1>3. Cardinality(S) \in Nat
  BY FS_CardinalityType
<1>4. s \in Injection(1..Cardinality(S), S)
  BY <1>2 DEF Injection, IsInjective
<1>5. Cardinality(1..Cardinality(S)) = Cardinality(S)
  BY <1>3, FS_Interval
<1>6. s \in Surjection(1..Cardinality(S), S)
  BY <1>4, <1>5, FS_Injection
<1>7. \A x \in S : \E i \in 1..Cardinality(S) : s[i] = x
  BY <1>6 DEF Surjection
<1> QED
  BY <1>2, <1>3, <1>7

\* There are finitely many events, each that of m_wake_fd or of a descriptor.
LEMMA EventsAreFinite ==
  ASSUME EpollAssumption, TypeOK
  PROVE  IsFiniteSet(Events) /\ Events \subseteq Reported
<1> DEFINE F == {g \in Fds : Reportable(g) # {}}
           E == {[fd |-> f, events |-> Reportable(f)] : f \in F}
           W == IF wakes THEN {Wake} ELSE {}
           e == [f \in F |-> [fd |-> f, events |-> Reportable(f)]]
<1>1. IsFiniteSet(F)
  <2>1. F \in SUBSET Fds
    OBVIOUS
  <2> QED
    BY <2>1, FS_Subset DEF EpollAssumption
<1>2. e \in Surjection(F, E)
  BY DEF Surjection
<1>3. IsFiniteSet(E)
  <2> HIDE DEF F, E, e
  <2> QED
    BY <1>1, <1>2, FS_Surjection
<1>4. IsFiniteSet(W)
  BY FS_EmptySet, FS_Singleton
<1>5. Events = E \cup W
  BY DEF Events
<1>6. IsFiniteSet(Events)
  <2> HIDE DEF E, W
  <2> QED
    BY <1>3, <1>4, <1>5, FS_Union
<1>7. \A f \in Fds : Reportable(f) \in SUBSET {"In", "Out", "Hangup"}
  BY DEF TypeOK, Reportable, Ready
<1>8. Events \subseteq Reported
  BY <1>7 DEF Events, Reported
<1> QED
  BY <1>6, <1>8

-----------------------------------------------------------------------------
(* The invariant *)

\* The invariant holds initially.
LEMMA InitEpoll == EpollAssumption /\ Init => EpollInv
<1> SUFFICES ASSUME EpollAssumption, Init PROVE EpollInv
  OBVIOUS
<1> USE DEF Init
<1>1. TypeOK
  BY DEF TypeOK, NotWatched, Watch, NoCall
<1>2. HandlerInv /\ WatchInv
  BY DEF HandlerInv, WatchInv, NotWatched
<1>3. BatchInv
  BY DEF BatchInv
<1> QED
  BY <1>1, <1>2, <1>3 DEF EpollInv

\* What a step has to preserve if it leaves the watch list and the batch alone.
LEMMA QuietStep ==
  ASSUME EpollInv, TypeOK',
         UNCHANGED <<watched, m_handlers, batch, given, gone, leftover>>
  PROVE  EpollInv'
  BY DEF EpollInv, HandlerInv, WatchInv, BatchInv

LEMMA ArriveKeeps ==
  ASSUME EpollAssumption, EpollInv, NEW f \in Fds, NEW e \in Kinds[f], Arrive(f, e)
  PROVE  EpollInv'
<1>1. e \in {"In", "Out", "Hangup"}
  BY DEF EpollAssumption
<1>2. ready' \in [Fds -> SUBSET {"In", "Out", "Hangup"}]
  BY <1>1 DEF Arrive, EpollInv, TypeOK
<1>3. armed' \subseteq {g \in Fds : watched'[g] # NotWatched}
  <2>1. watched[f].mode = "edge" => watched[f] # NotWatched
    BY DEF NotWatched
  <2> QED
    BY <2>1 DEF Arrive, EpollInv, TypeOK, kernel
<1>4. TypeOK'
  BY <1>2, <1>3 DEF Arrive, EpollInv, TypeOK, loop, history
<1> QED
  BY <1>4, QuietStep DEF Arrive, loop, history

LEMMA UseKeeps ==
  ASSUME EpollInv, NEW f \in Fds, NEW e \in Kinds[f], Use(f, e)
  PROVE  EpollInv'
<1>1. TypeOK'
  BY DEF Use, EpollInv, TypeOK, kernel, loop, history
<1> QED
  BY <1>1, QuietStep DEF Use, kernel, loop, history

LEMMA OpenKeeps ==
  ASSUME EpollInv, NEW f \in Fds, Open(f)
  PROVE  EpollInv'
<1>1. TypeOK'
  BY DEF Open, EpollInv, TypeOK, kernel, loop, history
<1> QED
  BY <1>1, QuietStep DEF Open, kernel, loop, history

\* While the program's own code runs outside of a callback there is no event left.
LEMMA NoBatch ==
  ASSUME TypeOK, OwnCode, pc # "calling"
  PROVE  batch = <<>>
  BY DEF TypeOK, OwnCode

LEMMA CloseKeeps ==
  ASSUME EpollInv, NEW f \in Fds, Close(f)
  PROVE  EpollInv'
<1>1. TypeOK'
  BY DEF Close, EpollInv, TypeOK, Watch, loop
<1>2. HandlerInv' /\ WatchInv'
  BY DEF Close, EpollInv, TypeOK, HandlerInv, WatchInv
<1>3. BatchInv'
  BY NoBatch DEF Close, EpollInv, TypeOK, BatchInv, loop, Reported
<1> QED
  BY <1>1, <1>2, <1>3 DEF EpollInv

LEMMA RemoveKeeps ==
  ASSUME EpollInv, NEW f \in Fds, Remove(f)
  PROVE  EpollInv'
<1>1. TypeOK'
  BY DEF Remove, EpollInv, TypeOK, Watch, loop, file
<1>2. HandlerInv' /\ WatchInv'
  BY DEF Remove, EpollInv, TypeOK, HandlerInv, WatchInv
<1>3. BatchInv'
  BY NoBatch DEF Remove, EpollInv, TypeOK, BatchInv, loop, Reported
<1> QED
  BY <1>1, <1>2, <1>3 DEF EpollInv

\* A watch is not the absence of one.
LEMMA WatchIsOne ==
  ASSUME NEW f \in Fds, NEW mask \in Masks, NEW mode \in Modes[f], EpollAssumption
  PROVE  /\ [mask |-> mask, mode |-> mode] \in Watch
         /\ [mask |-> mask, mode |-> mode] # NotWatched
<1>1. mode \in {"level", "oneshot", "edge"}
  BY DEF EpollAssumption
<1>2. mode # "none"
  BY <1>1
<1> QED
  BY <1>1, <1>2 DEF Watch, NotWatched

\* A descriptor that is not watched has no handler, unless it was left over.
LEMMA AddKeeps ==
  ASSUME EpollAssumption, EpollInv, NEW f \in Fds, NEW mask \in Masks,
         NEW mode \in Modes[f], NEW cb \in Callbacks \cup {Default},
         Add(f, mask, mode, cb)
  PROVE  EpollInv'
<1> DEFINE w == [mask |-> mask, mode |-> mode]
<1>1. w \in Watch /\ w # NotWatched
  BY WatchIsOne
<1> HIDE DEF w
<1>2. watched' = [watched EXCEPT ![f] = w]
  BY DEF Add, w
<1>3. TypeOK'
  BY <1>1, <1>2 DEF Add, EpollInv, TypeOK, file, loop
<1>4. cb # Nobody
  BY DEF EpollAssumption, Nobody
<1>5. HandlerInv'
  <2>1. given'[f] = cb /\ f \notin leftover => m_handlers'[f] = cb
    <3>1. f \notin leftover => m_handlers[f] = Default
      <4>1. given[f] = Nobody /\ m_handlers[f] # Nobody
        BY DEF Add, EpollInv, TypeOK, WatchInv, EpollAssumption, Nobody
      <4> QED
        BY <4>1 DEF EpollInv, HandlerInv
    <3> QED
      BY <3>1 DEF Add, EpollInv, TypeOK
  <2>2. given'[f] = cb
    BY DEF Add, EpollInv, TypeOK
  <2>3. ASSUME NEW g \in Fds \ {f}
        PROVE  given'[g] = given[g] /\ m_handlers'[g] = m_handlers[g]
    BY DEF Add, EpollInv, TypeOK
  <2>4. leftover' = leftover
    BY DEF Add
  <2> QED
    BY <2>1, <2>2, <2>3, <2>4 DEF EpollInv, HandlerInv
<1>6. WatchInv'
  BY <1>1, <1>2, <1>4 DEF Add, EpollInv, TypeOK, WatchInv
<1>7. BatchInv'
  BY <1>4 DEF Add, EpollInv, TypeOK, BatchInv, loop
<1> QED
  BY <1>3, <1>5, <1>6, <1>7 DEF EpollInv

LEMMA ModifyKeeps ==
  ASSUME EpollAssumption, EpollInv, NEW f \in Fds, NEW mask \in Masks,
         NEW mode \in Modes[f], Modify(f, mask, mode)
  PROVE  EpollInv'
<1> DEFINE w == [mask |-> mask, mode |-> mode]
<1>1. w \in Watch /\ w # NotWatched
  BY WatchIsOne
<1> HIDE DEF w
<1>2. watched' = [watched EXCEPT ![f] = w]
  BY DEF Modify, w
<1>3. TypeOK'
  BY <1>1, <1>2 DEF Modify, EpollInv, TypeOK, file, loop
<1>4. HandlerInv' /\ BatchInv'
  BY DEF Modify, EpollInv, HandlerInv, BatchInv, loop
<1>5. WatchInv'
  BY <1>1, <1>2 DEF Modify, EpollInv, TypeOK, WatchInv
<1> QED
  BY <1>3, <1>4, <1>5 DEF EpollInv

\* What is reported is watched.
LEMMA ReportKeeps ==
  ASSUME EpollAssumption, EpollInv, Report
  PROVE  EpollInv'
<1>1. batch' \in Seq(Events) /\ Events \subseteq Reported
  BY EventsAreFinite, Orders DEF Report, EpollInv
<1>2. TypeOK'
  BY DEF Report, EpollInv, TypeOK, file
<1>3. HandlerInv' /\ WatchInv'
  BY DEF Report, EpollInv, HandlerInv, WatchInv
<1>4. batch' \in Seq(Reported)
  BY <1>1
<1>5. ASSUME NEW i \in DOMAIN batch', batch'[i] # Wake PROVE given'[batch'[i].fd] # Nobody
  <2>1. batch'[i] \in Events
    BY <1>1
  <2>2. PICK f \in Fds : Reportable(f) # {} /\ batch'[i] = [fd |-> f, events |-> Reportable(f)]
    BY <1>5, <2>1 DEF Events
  <2>3. watched[f] # NotWatched
    BY <2>2 DEF Reportable, EpollInv, TypeOK
  <2> QED
    BY <2>2, <2>3 DEF EpollInv, WatchInv, Report
<1> QED
  BY <1>2, <1>3, <1>4, <1>5 DEF EpollInv, BatchInv

LEMMA AwakenKeeps ==
  ASSUME EpollInv, Awaken
  PROVE  EpollInv'
<1>1. TypeOK'
  BY DEF Awaken, EpollInv, TypeOK, file
<1>2. HandlerInv' /\ WatchInv'
  BY DEF Awaken, EpollInv, HandlerInv, WatchInv
<1>3. BatchInv'
  BY DEF Awaken, BatchInv
<1> QED
  BY <1>1, <1>2, <1>3 DEF EpollInv

\* The event that comes next is of a descriptor.
LEMMA HeadOfBatch ==
  ASSUME BatchInv, batch # <<>>, Head(batch) # Wake
  PROVE  /\ Head(batch).fd \in Fds
         /\ given[Head(batch).fd] # Nobody \/ Head(batch).fd \in gone
<1>1. Head(batch) = batch[1] /\ 1 \in DOMAIN batch /\ batch[1] \in Reported
  BY DEF BatchInv
<1> QED
  BY <1>1 DEF BatchInv, Reported

LEMMA DispatchKeeps ==
  ASSUME EpollInv, Dispatch
  PROVE  EpollInv'
<1>1. call' # NoCall
  <2>1. DOMAIN call' = {"fd", "event", "cb"}
    BY DEF Dispatch
  <2>2. DOMAIN NoCall = {"fd"}
    BY DEF NoCall
  <2> QED
    BY <2>1, <2>2
<1>2. TypeOK'
  BY <1>1 DEF Dispatch, EpollInv, TypeOK, file, kernel, history
<1>3. HandlerInv' /\ WatchInv'
  BY DEF Dispatch, EpollInv, HandlerInv, WatchInv, kernel, history
<1>4. /\ Tail(batch) \in Seq(Reported)
      /\ \A i \in DOMAIN Tail(batch) : i + 1 \in DOMAIN batch /\ Tail(batch)[i] = batch[i + 1]
  BY DEF Dispatch, EpollInv, BatchInv
<1>5. BatchInv'
  BY <1>4 DEF Dispatch, EpollInv, BatchInv, history, Reported
<1> QED
  BY <1>2, <1>3, <1>5 DEF EpollInv

\* Every step preserves the invariant.
LEMMA NextEpoll ==
  ASSUME EpollAssumption, EpollInv, [Next]_vars
  PROVE  EpollInv'
<1>1. CASE Wait \/ Expire \/ CallReturns \/ WaitReturns \/ StopWait \/ UNCHANGED vars
  <2>1. TypeOK'
    BY <1>1 DEF Wait, Expire, CallReturns, WaitReturns, StopWait, vars, EpollInv, TypeOK,
                file, kernel, loop, history
  <2> QED
    BY <1>1, <2>1, QuietStep
    DEF Wait, Expire, CallReturns, WaitReturns, StopWait, vars, kernel, loop, history
<1>2. CASE Report
  BY <1>2, ReportKeeps
<1>3. CASE Awaken
  BY <1>3, AwakenKeeps
<1>4. CASE Dispatch
  BY <1>4, DispatchKeeps
<1>5. ASSUME NEW f \in Fds, \/ \E e \in Kinds[f] : Arrive(f, e) \/ Use(f, e)
                            \/ Close(f) \/ Open(f) \/ Remove(f)
      PROVE  EpollInv'
  BY <1>5, ArriveKeeps, UseKeeps, CloseKeeps, OpenKeeps, RemoveKeeps
<1>6. ASSUME NEW f \in Fds, NEW mask \in Masks, NEW mode \in Modes[f],
             \/ Modify(f, mask, mode)
             \/ \E cb \in Callbacks \cup {Default} : Add(f, mask, mode, cb)
      PROVE  EpollInv'
  BY <1>6, ModifyKeeps, AddKeeps
<1> QED
  BY <1>1, <1>2, <1>3, <1>4, <1>5, <1>6 DEF Next, Step

\* EpollInv is an invariant of every execution.
THEOREM DispatcherInvariant == ASSUME EpollAssumption PROVE Spec => []EpollInv
<1>1. EpollInv /\ [Next]_vars => EpollInv'
  BY NextEpoll
<1>2. Init => EpollInv
  BY InitEpoll
<1> QED
  BY <1>1, <1>2, PTL DEF Spec

-----------------------------------------------------------------------------
(* The call *)

\* Only Dispatch begins a call.
LEMMA OnlyDispatchCalls ==
  ASSUME [Next]_vars, call' # call, call' # NoCall
  PROVE  Dispatch
<1>1. CASE Wait \/ Expire \/ WaitReturns \/ StopWait \/ Report \/ Awaken \/ UNCHANGED vars
  BY <1>1 DEF Wait, Expire, WaitReturns, StopWait, Report, Awaken, vars, loop
<1>2. CASE CallReturns
  BY <1>2 DEF CallReturns
<1>3. ASSUME NEW f \in Fds, \/ \E e \in Kinds[f] : Arrive(f, e) \/ Use(f, e)
                            \/ Close(f) \/ Open(f) \/ Remove(f)
      PROVE  FALSE
  BY <1>3 DEF Arrive, Use, Close, Open, Remove, loop
<1>4. ASSUME NEW f \in Fds, NEW mask \in Masks, NEW mode \in Modes[f],
             \/ Modify(f, mask, mode)
             \/ \E cb \in Callbacks \cup {Default} : Add(f, mask, mode, cb)
      PROVE  FALSE
  BY <1>4 DEF Modify, Add, loop
<1> QED
  BY <1>1, <1>2, <1>3, <1>4 DEF Next, Step

\* A call goes to the callback that the descriptor was added with, but for the two causes.
LEMMA CallIsRight ==
  ASSUME EpollInv, [Next]_vars, call = NoCall, call' # NoCall
  PROVE  \/ call'.cb = given[call'.fd]
         \/ call'.fd \in gone /\ call'.cb = Default
         \/ call'.fd \in leftover
<1>1. Dispatch
  BY OnlyDispatchCalls
<1> DEFINE f == Head(batch).fd
<1>2. call'.fd = f /\ call'.cb = m_handlers[f]
  BY <1>1 DEF Dispatch, GetCallback
<1>3. f \in Fds /\ (given[f] # Nobody \/ f \in gone)
  BY <1>1, HeadOfBatch DEF Dispatch, EpollInv
<1> HIDE DEF f
<1> QED
  BY <1>2, <1>3 DEF EpollInv, HandlerInv

\* The dispatcher calls the callback that a descriptor was added with. Otherwise the
\* descriptor was removed or closed after its event was reported, and the common callback is
\* called; or its number was closed without Remove() before (Add, Remove, Wait, GetCallback).
THEOREM CallsAreRight == ASSUME EpollAssumption PROVE Spec => []TypeOK /\ CallsRight
<1>1. EpollInv => TypeOK
  BY DEF EpollInv
<1>2. EpollInv /\ [Next]_vars =>
        [ call = NoCall /\ call' # NoCall =>
            \/ call'.cb = given[call'.fd]
            \/ call'.fd \in gone /\ call'.cb = Default
            \/ call'.fd \in leftover ]_vars
  BY CallIsRight
<1> QED
  BY <1>1, <1>2, DispatcherInvariant, PTL DEF Spec, CallsRight

-----------------------------------------------------------------------------
(* The events *)

\* An event that is owed to f stays so until f is called, is left out by a wake-up, is no
\* longer watched, or is ready for nothing.
EventKept(f) ==
  Owed(f) =>
    \/ Owed(f)' \/ f \in dropped'
    \/ pc' = "calling" /\ call'.fd = f
    \/ watched'[f] = NotWatched \/ Ready(f)' = {}

EventsKept == [][\A f \in Fds : EventKept(f)]_vars

\* An event that is owed is in the batch, or may be reported.
LEMMA OwedOrInBatch ==
  ASSUME NEW f
  PROVE  /\ f \in Rest' <=> f \in Fds /\ \E i \in DOMAIN batch' : batch'[i].fd = f
         /\ f \in Rest <=> f \in Fds /\ \E i \in DOMAIN batch : batch[i].fd = f
         /\ Reportable(f) # {} <=> f \in armed /\ Ready(f) # {}
         /\ Reportable(f)' # {} <=> f \in armed' /\ Ready(f)' # {}
  BY DEF Rest, Reportable

\* A descriptor that stays armed, with its batch, its mask and its mode, is owed what it was.
LEMMA OwedStays ==
  ASSUME NEW f \in Fds, batch' = batch, f \in armed => f \in armed'
  PROVE  EventKept(f)
  BY OwedOrInBatch DEF EventKept, Owed, Rest

\* What is reported is in the batch.
LEMMA ReportKeepsEvents ==
  ASSUME EpollAssumption, EpollInv, Report, NEW f \in Fds
  PROVE  EventKept(f)
<1> SUFFICES ASSUME Owed(f) PROVE f \in Rest'
  BY DEF EventKept, Owed
<1>1. Rest = {}
  BY DEF Report, EpollInv, TypeOK, Rest
<1>2. Reportable(f) # {}
  BY <1>1 DEF Owed
<1>3. [fd |-> f, events |-> Reportable(f)] \in Events
  BY <1>2 DEF Events
<1>4. PICK i \in DOMAIN batch' : batch'[i] = [fd |-> f, events |-> Reportable(f)]
  BY <1>3, EventsAreFinite, Orders DEF Report, EpollInv
<1>5. batch'[i].fd = f
  BY <1>4
<1> QED
  BY <1>5, OwedOrInBatch

\* What a wake-up leaves out is reported again, or dropped.
LEMMA AwakenKeepsEvents ==
  ASSUME EpollInv, Awaken, NEW f \in Fds
  PROVE  EventKept(f)
<1>1. f \in Rest /\ f \notin armed => f \in dropped'
  BY DEF Awaken
<1>2. f \in armed <=> f \in armed'
  BY DEF Awaken
<1>3. Ready(f)' = Ready(f)
  BY DEF Awaken, Ready, file
<1> QED
  BY <1>1, <1>2, <1>3, OwedOrInBatch DEF EventKept, Owed

\* A call is for the first event of the batch.
LEMMA DispatchKeepsEvents ==
  ASSUME EpollInv, Dispatch, NEW f \in Fds
  PROVE  EventKept(f)
<1>1. batch \in Seq(Reported) /\ batch # <<>>
  BY DEF EpollInv, BatchInv, Dispatch
<1>2. \A i \in DOMAIN batch : i # 1 => i - 1 \in DOMAIN Tail(batch) /\ Tail(batch)[i - 1] = batch[i]
  BY <1>1
<1>3. Head(batch) = batch[1]
  BY <1>1
<1>4. f \in Rest => f \in Rest' \/ call'.fd = f
  BY ZenonT(30), <1>2, <1>3, OwedOrInBatch DEF Dispatch
<1>5. Reportable(f)' = Reportable(f) /\ pc' = "calling"
  BY DEF Dispatch, Reportable, Ready, file, kernel
<1> QED
  BY <1>4, <1>5 DEF EventKept, Owed

\* Every step keeps the events, but for the causes named.
LEMMA NextKeepsEvents ==
  ASSUME EpollAssumption, EpollInv, [Next]_vars, NEW f \in Fds
  PROVE  EventKept(f)
<1>1. CASE Wait \/ Expire \/ CallReturns \/ WaitReturns \/ StopWait \/ UNCHANGED vars
  <2>1. batch' = batch /\ armed' = armed
    BY <1>1 DEF Wait, Expire, CallReturns, WaitReturns, StopWait, vars, kernel, loop
  <2> QED
    BY <2>1, OwedStays
<1>2. CASE Report
  BY <1>2, ReportKeepsEvents
<1>3. CASE Awaken
  BY <1>3, AwakenKeepsEvents
<1>4. CASE Dispatch
  BY <1>4, DispatchKeepsEvents
<1>5. ASSUME NEW g \in Fds, NEW e \in Kinds[g], Arrive(g, e) \/ Use(g, e) PROVE EventKept(f)
  BY <1>5, OwedStays DEF Arrive, Use, kernel, loop
<1>6. ASSUME NEW g \in Fds, Open(g) PROVE EventKept(f)
  BY <1>6, OwedStays DEF Open, kernel, loop
<1>7. ASSUME NEW g \in Fds, Close(g) \/ Remove(g) PROVE EventKept(f)
  <2>1. CASE f = g
    <3>1. watched'[f] = NotWatched
      BY <1>7, <2>1 DEF Close, Remove, EpollInv, TypeOK
    <3> QED
      BY <3>1 DEF EventKept
  <2>2. CASE f # g
    BY <1>7, <2>2, OwedStays DEF Close, Remove, loop
  <2> QED
    BY <2>1, <2>2
<1>8. ASSUME NEW g \in Fds, NEW mask \in Masks, NEW mode \in Modes[g],
             \/ Modify(g, mask, mode)
             \/ \E cb \in Callbacks \cup {Default} : Add(g, mask, mode, cb)
      PROVE  EventKept(f)
  BY <1>8, OwedStays DEF Modify, Add, loop
<1> QED
  BY <1>1, <1>2, <1>3, <1>4, <1>5, <1>6, <1>7, <1>8 DEF Next, Step

\* No event is forgotten: who is owed one is owed it until it is called, is not watched or not
\* ready any more, or a wake-up left its event out and it is not armed (Wait, StopWait).
THEOREM NoEventIsForgotten == ASSUME EpollAssumption PROVE Spec => EventsKept
<1>1. EpollInv /\ [Next]_vars => [\A f \in Fds : EventKept(f)]_vars
  BY NextKeepsEvents
<1> QED
  BY <1>1, DispatcherInvariant, PTL DEF Spec, EventsKept
=============================================================================
