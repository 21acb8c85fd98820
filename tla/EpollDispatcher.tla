--------------------------- MODULE EpollDispatcher ---------------------------
(***************************************************************************)
(* The dispatcher of src/epoll/epoll.cpp as src/epoll/main.cpp uses it:    *)
(* one thread watches descriptors, waits and runs the callbacks, which     *)
(* may add, modify, remove and close descriptors; a second thread calls    *)
(* StopWait.  The kernel's part is external: what a descriptor is ready    *)
(* for, and which events epoll_pwait2 reports, in any order.               *)
(***************************************************************************)
EXTENDS Naturals, Sequences, FiniteSets

CONSTANTS
  Fds,
  Kinds,        \* Kinds[f]: the events that the files of f may have
  Masks,        \* the sets of events that Add and Modify are given
  Modes,        \* Modes[f]: of "level", "oneshot" and "edge", those that f is watched in
  Callbacks,
  Default       \* the common callback m_cb; as a handler: there is none in m_handlers

EpollAssumption ==
  /\ IsFiniteSet(Fds)
  /\ Default \notin Callbacks /\ "nobody" \notin Callbacks \cup {Default}
  /\ Kinds \in [Fds -> SUBSET {"In", "Out", "Hangup"}]
  /\ Modes \in [Fds -> SUBSET {"level", "oneshot", "edge"}]

VARIABLES
  open, ready,      \* the descriptors that are open, and what they are ready for
  watched, armed,   \* the kernel's table; armed: the events of f may be reported
  wakes,            \* m_wake_fd has a value to be read
  m_handlers,
  pc,               \* the thread: idle, waiting, dispatching or calling
  batch, call,      \* the events of Wait() that are left, the callback that runs
  given,            \* history: the callback that f was added with, or Nobody
  gone,             \* history: removed or closed since the events were reported
  leftover,         \* history: closed without Remove, so the handler is still there
  dropped,          \* history: f's event was reported, and then left out by a wake-up
  asked             \* history: StopWait was called and no Wait has ended for it

file == <<open, ready>>
kernel == <<watched, armed, wakes>>
loop == <<pc, batch, call>>
history == <<given, gone, leftover, dropped, asked>>
vars == <<file, kernel, m_handlers, loop, history>>

SX == INSTANCE SequencesExt

NotWatched == [mask |-> {}, mode |-> "none"]
Watch == {NotWatched} \cup [mask : Masks, mode : {"level", "oneshot", "edge"}]
Nobody == "nobody"
NoCall == [fd |-> Nobody]
Wake == [fd |-> "wake", events |-> {"In"}]
OwnCode == pc \in {"idle", "calling"}    \* the program's own code runs

Init ==
  /\ open = Fds /\ ready = [f \in Fds |-> {}]
  /\ watched = [f \in Fds |-> NotWatched] /\ armed = {} /\ wakes = FALSE
  /\ m_handlers = [f \in Fds |-> Default]
  /\ pc = "idle" /\ batch = <<>> /\ call = NoCall
  /\ given = [f \in Fds |-> Nobody]
  /\ gone = {} /\ leftover = {} /\ dropped = {} /\ asked = FALSE

-----------------------------------------------------------------------------
(* Files *)

\* A descriptor becomes ready, or ready once more
Arrive(f, e) ==
  /\ f \in open /\ e \in Kinds[f]
  /\ ready' = [ready EXCEPT ![f] = @ \cup {e}]
  /\ armed' = IF watched[f].mode = "edge" /\ e \in watched[f].mask \cup {"Hangup"}
                THEN armed \cup {f} ELSE armed
  /\ UNCHANGED <<open, watched, wakes, m_handlers, loop, history>>

\* The program reads all, or fills the buffer
Use(f, e) ==
  /\ OwnCode /\ e \in ready[f] \ {"Hangup"}
  /\ ready' = [ready EXCEPT ![f] = @ \ {e}]
  /\ UNCHANGED <<open, kernel, m_handlers, loop, history>>

\* The kernel forgets a file that is closed; the number is free for another one
Close(f) ==
  /\ OwnCode /\ f \in open
  /\ open' = open \ {f}
  /\ ready' = [ready EXCEPT ![f] = {}]
  /\ watched' = [watched EXCEPT ![f] = NotWatched]
  /\ armed' = armed \ {f}
  /\ given' = [given EXCEPT ![f] = Nobody]
  /\ gone' = IF pc = "calling" THEN gone \cup {f} ELSE gone
  /\ leftover' = IF m_handlers[f] # Default THEN leftover \cup {f} ELSE leftover
  /\ dropped' = dropped \ {f}
  /\ UNCHANGED <<wakes, m_handlers, loop, asked>>

Open(f) ==
  /\ OwnCode /\ f \notin open
  /\ open' = open \cup {f}
  /\ UNCHANGED <<ready, kernel, m_handlers, loop, history>>

-----------------------------------------------------------------------------
(* The watch list *)

\* Without a callback, and if there is a handler for f already, m_handlers stays as it is
Add(f, mask, mode, cb) ==
  /\ OwnCode /\ f \in open
  /\ watched[f] = NotWatched
  /\ watched' = [watched EXCEPT ![f] = [mask |-> mask, mode |-> mode]]
  /\ armed' = armed \cup {f}
  /\ m_handlers' = IF m_handlers[f] = Default THEN [m_handlers EXCEPT ![f] = cb] ELSE m_handlers
  /\ given' = [given EXCEPT ![f] = cb]
  /\ dropped' = dropped \ {f}
  /\ UNCHANGED <<file, wakes, loop, gone, leftover, asked>>

\* Mutant of Remove: the handler stays
RemoveKeeping(f) ==
  /\ OwnCode
  /\ watched' = [watched EXCEPT ![f] = NotWatched]
  /\ armed' = armed \ {f}
  /\ given' = [given EXCEPT ![f] = Nobody]
  /\ gone' = IF pc = "calling" THEN gone \cup {f} ELSE gone
  /\ leftover' = leftover \ {f}
  /\ dropped' = dropped \ {f}
  /\ UNCHANGED <<file, wakes, m_handlers, loop, asked>>

\* The handler is erased first, whether the kernel knows the descriptor or not
Remove(f) ==
  /\ OwnCode
  /\ m_handlers' = [m_handlers EXCEPT ![f] = Default]
  /\ watched' = [watched EXCEPT ![f] = NotWatched]
  /\ armed' = armed \ {f}
  /\ given' = [given EXCEPT ![f] = Nobody]
  /\ gone' = IF pc = "calling" THEN gone \cup {f} ELSE gone
  /\ leftover' = leftover \ {f}
  /\ dropped' = dropped \ {f}
  /\ UNCHANGED <<file, wakes, loop, asked>>

\* Mutant of Modify: a one-shot descriptor that was reported is not armed again
ModifyUnarmed(f, mask, mode) ==
  /\ OwnCode
  /\ watched[f] # NotWatched
  /\ watched' = [watched EXCEPT ![f] = [mask |-> mask, mode |-> mode]]
  /\ dropped' = dropped \ {f}
  /\ UNCHANGED <<armed, file, wakes, m_handlers, loop, given, gone, leftover, asked>>

Modify(f, mask, mode) ==
  /\ OwnCode
  /\ watched[f] # NotWatched
  /\ watched' = [watched EXCEPT ![f] = [mask |-> mask, mode |-> mode]]
  /\ armed' = armed \cup {f}
  /\ dropped' = dropped \ {f}
  /\ UNCHANGED <<file, wakes, m_handlers, loop, given, gone, leftover, asked>>

-----------------------------------------------------------------------------
(* Wait and StopWait *)

\* Mutant of Wait: what was written to m_wake_fd before is read first
WaitDraining ==
  /\ pc = "idle"
  /\ pc' = "waiting"
  /\ wakes' = FALSE
  /\ UNCHANGED <<file, watched, armed, m_handlers, batch, call, history>>

Wait ==
  /\ pc = "idle"
  /\ pc' = "waiting"
  /\ UNCHANGED <<file, kernel, m_handlers, batch, call, history>>

\* What f is ready for and watched for, and what the kernel would report of that; a
\* hang-up is never masked
Ready(f) == ready[f] \cap (watched[f].mask \cup {"Hangup"})
Reportable(f) == IF f \in armed THEN Ready(f) ELSE {}

Events == {[fd |-> f, events |-> Reportable(f)] : f \in {g \in Fds : Reportable(g) # {}}}
            \cup (IF wakes THEN {Wake} ELSE {})

\* epoll_pwait2 returns with all events; those that are not level-triggered are over for it
Report ==
  /\ pc = "waiting" /\ Events # {}
  /\ batch' \in SX!SetToSeqs(Events)
  /\ armed' = {f \in armed : Reportable(f) # {} => watched[f].mode = "level"}
  /\ gone' = {}
  /\ pc' = "dispatching"
  /\ UNCHANGED <<file, watched, wakes, m_handlers, call, given, leftover, dropped, asked>>

\* epoll_pwait2 returns without events: the time is over, or a signal came
Expire ==
  /\ pc = "waiting" /\ Events = {}
  /\ pc' = "idle"
  /\ UNCHANGED <<file, kernel, m_handlers, batch, call, history>>

Rest == {batch[i].fd : i \in DOMAIN batch} \cap Fds

\* Mutant of Awaken: m_wake_fd is not read
AwakenUnread ==
  /\ pc = "dispatching" /\ batch # <<>> /\ Head(batch) = Wake
  /\ asked' = FALSE
  /\ batch' = <<>> /\ pc' = "idle"
  /\ dropped' = dropped \cup (Rest \ armed)
  /\ UNCHANGED <<file, kernel, m_handlers, call, given, gone, leftover>>

\* The event of m_wake_fd: the value is read and the events behind it are left out
Awaken ==
  /\ pc = "dispatching" /\ batch # <<>> /\ Head(batch) = Wake
  /\ wakes' = FALSE /\ asked' = FALSE
  /\ batch' = <<>> /\ pc' = "idle"
  /\ dropped' = dropped \cup (Rest \ armed)
  /\ UNCHANGED <<file, watched, armed, m_handlers, call, given, gone, leftover>>

\* One call for an event, whatever else it tells of
EventOf(events) ==
  IF "Hangup" \in events THEN "Hangup" ELSE IF "In" \in events THEN "In" ELSE "Out"

GetCallback(f) == m_handlers[f]

Dispatch ==
  /\ pc = "dispatching" /\ batch # <<>> /\ Head(batch) # Wake
  /\ call' = [fd |-> Head(batch).fd, event |-> EventOf(Head(batch).events),
              cb |-> GetCallback(Head(batch).fd)]
  /\ batch' = Tail(batch)
  /\ pc' = "calling"
  /\ UNCHANGED <<file, kernel, m_handlers, history>>

CallReturns ==
  /\ pc = "calling"
  /\ pc' = "dispatching" /\ call' = NoCall
  /\ UNCHANGED <<file, kernel, m_handlers, batch, history>>

WaitReturns ==
  /\ pc = "dispatching" /\ batch = <<>>
  /\ pc' = "idle"
  /\ UNCHANGED <<file, kernel, m_handlers, batch, call, history>>

\* By the second thread
StopWait ==
  /\ wakes' = TRUE /\ asked' = TRUE
  /\ UNCHANGED <<file, watched, armed, m_handlers, loop, given, gone, leftover, dropped>>

Step == Wait \/ Report \/ Awaken \/ Dispatch \/ CallReturns \/ WaitReturns

Next ==
  \/ Step \/ Expire \/ StopWait
  \/ \E f \in Fds :
       \/ \E e \in Kinds[f] : Arrive(f, e) \/ Use(f, e)
       \/ Close(f) \/ Open(f) \/ Remove(f)
       \/ \E mask \in Masks, mode \in Modes[f] :
            \/ Modify(f, mask, mode)
            \/ \E cb \in Callbacks \cup {Default} : Add(f, mask, mode, cb)

\* The thread calls Wait() again and again, and callbacks return
Fairness == WF_vars(Step)

Spec == Init /\ [][Next]_vars /\ Fairness

-----------------------------------------------------------------------------
(* Properties *)

TypeOK ==
  /\ open \subseteq Fds /\ ready \in [Fds -> SUBSET {"In", "Out", "Hangup"}]
  /\ watched \in [Fds -> Watch] /\ armed \subseteq {f \in Fds : watched[f] # NotWatched}
  /\ wakes \in BOOLEAN
  /\ m_handlers \in [Fds -> Callbacks \cup {Default}]
  /\ pc \in {"idle", "waiting", "dispatching", "calling"}
  /\ batch # <<>> => pc \in {"dispatching", "calling"}
  /\ call # NoCall <=> pc = "calling"
  /\ given \in [Fds -> Callbacks \cup {Default, Nobody}]

\* A callback is called for a descriptor that was added with it. Otherwise the descriptor was
\* removed or closed by a callback after its event was reported, and the common callback
\* gets the event; or the number has been closed without Remove() and is in use again, and
\* the callback of the former file is called (Add, Remove, GetCallback).
CallsRight ==
  [][ call = NoCall /\ call' # NoCall =>
        \/ call'.cb = given[call'.fd]
        \/ call'.fd \in gone /\ call'.cb = Default
        \/ call'.fd \in leftover ]_vars

Owed(f) == Reportable(f) # {} \/ f \in Rest

\* Unless StopWait() is called for ever, whoever has an event is called, or has no event any
\* more; an event is lost only when a wake-up comes before it in a batch and it is not
\* level-triggered (Wait, StopWait).
Served ==
  \A f \in Fds :
    <>[]~asked =>
      (Owed(f) ~> call.fd = f \/ f \in dropped \/ watched[f] = NotWatched \/ Ready(f) = {})

\* StopWait() ends a Wait(), the one in progress or the next, whatever the callbacks do and
\* however often it is called (StopWait, Wait).
StopEndsWait == asked ~> ~asked
=============================================================================
