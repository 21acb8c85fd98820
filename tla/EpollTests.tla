------------------------------ MODULE EpollTests ------------------------------
(***************************************************************************)
(* The tests of src/epoll/main.cpp, which run on the dispatcher with the   *)
(* two ends of a pipe: what a test does and what it asserts.  The          *)
(* times that they measure are left out.                                   *)
(***************************************************************************)
EXTENDS Naturals, Sequences

CONSTANTS r, w      \* the reading and the writing end

VARIABLES
  open, ready, watched, armed, wakes, m_handlers, pc, batch, call,
  given, gone, leftover, dropped, asked,    \* of EpollDispatcher
  test, command,    \* the test, and the command that comes next
  bytes,            \* in the pipe
  ctr,              \* the counters of calls
  worked,           \* the callback in progress has done its work
  stopped,          \* the thread of stop_wait has called StopWait()
  failed            \* the assertion that did not hold, or ""

vars == <<open, ready, watched, armed, wakes, m_handlers, pc, batch, call,
          given, gone, leftover, dropped, asked>>
testVars == <<test, command, bytes, ctr, worked, stopped, failed>>

Dispatcher == INSTANCE EpollDispatcher WITH
  Fds <- {r, w},
  Kinds <- [f \in {r, w} |-> IF f = r THEN {"In"} ELSE {"Out"}],
  Modes <- [f \in {r, w} |-> {"level", "oneshot", "edge"}],
  Masks <- {{"In"}, {"Out"}},
  Callbacks <- {"count", "read", "readOne", "write"},
  Default <- "default"

-----------------------------------------------------------------------------
(* The commands of the tests *)

Add(mode, cb) == [op |-> "add", fd |-> r, mask |-> {"In"}, mode |-> mode, cb |-> cb]
Watching == [op |-> "add", fd |-> w, mask |-> {"Out"}, mode |-> "level", cb |-> "write"]
Write == [op |-> "write"]
Wait == [op |-> "wait"]
Count(n) == [op |-> "assert", ctr |-> "r", n |-> n]
Modify(mode) == [op |-> "modify", mode |-> mode]

Scripts == [
  wait_timeout |-> <<Add("level", "default"), Wait, Count(0)>>,
  read_write |-> <<Add("level", "count"), Watching, Wait, Wait, Count(1),
                   [Count(1) EXCEPT !.ctr = "w"]>>,
  default_handler |-> <<Add("level", "default"), Write, Wait, Count(1)>>,
  remove |-> <<Add("level", "read"), Write, Wait, Write, Wait, Write, [op |-> "remove"],
               Wait, Count(2)>>,
  stop_wait |-> <<Add("level", "count"), Wait, Count(0), [op |-> "join"]>>,
  one_shot |-> <<Add("oneshot", "read"), Write, Wait, Count(1), Write, Wait, Count(1),
                 Modify("level"), Wait, Count(2)>>,
  edge_trigger |-> <<Add("edge", "readOne"), Wait, Count(0), Write, Write, Wait, Wait, Wait,
                     Count(1), Write, Wait, Count(2)>> ]

NotStarted ==
  /\ test \in DOMAIN Scripts /\ command = 0
  /\ bytes = 0 /\ ctr = [r |-> 0, w |-> 0]
  /\ worked = FALSE /\ stopped = FALSE /\ failed = ""

Init == Dispatcher!Init /\ NotStarted

Script == Scripts[test]
Over == command > Len(Script) \/ failed # ""
Assert(condition, name) == failed' = IF condition THEN failed ELSE name

\* A test makes its pipe first, which can be written to from then on
MakePipe ==
  /\ command = 0 /\ command' = 1
  /\ Dispatcher!Arrive(w, "Out")
  /\ UNCHANGED <<test, bytes, ctr, worked, stopped, failed>>

WriteByte == bytes' = bytes + 1 /\ Dispatcher!Arrive(r, "In")

Perform(c) ==
  CASE c.op = "add" -> Dispatcher!Add(c.fd, c.mask, c.mode, c.cb) /\ UNCHANGED <<bytes, failed>>
    [] c.op = "write" -> WriteByte /\ UNCHANGED failed
    [] c.op = "wait" -> Dispatcher!Wait /\ UNCHANGED <<bytes, failed>>
    [] c.op = "remove" -> Dispatcher!Remove(r) /\ UNCHANGED <<bytes, failed>>
    [] c.op = "modify" -> Dispatcher!Modify(r, {"In"}, c.mode) /\ UNCHANGED <<bytes, failed>>
    [] c.op = "join" -> stopped /\ UNCHANGED <<vars, bytes, failed>>
    [] c.op = "assert" -> Assert(ctr[c.ctr] = c.n, "ctr") /\ UNCHANGED <<vars, bytes>>

Command ==
  /\ pc = "idle" /\ command > 0 /\ ~Over
  /\ Perform(Script[command])
  /\ command' = command + 1
  /\ UNCHANGED <<test, ctr, worked, stopped>>

-----------------------------------------------------------------------------
(* The callbacks *)

\* The common callback fails, but in default_handler
Body == IF call.cb # "default" THEN call.cb
        ELSE IF test = "default_handler" THEN "read" ELSE "fail"

Work ==
  /\ pc = "calling" /\ ~worked /\ ~Over
  /\ worked' = TRUE
  /\ ctr' = IF Body # "write" THEN [ctr EXCEPT !.r = @ + 1]
            ELSE IF ctr.w = 0 THEN [ctr EXCEPT !.w = 1] ELSE ctr
  /\ Assert(/\ Body # "fail"
            /\ IF Body = "write" THEN call.fd = w /\ call.event = "Out"
                                 ELSE call.fd = r /\ call.event = "In"
            /\ Body = "read" => bytes = 1
            /\ Body = "readOne" => bytes > 0, "callback")
  /\ CASE Body = "write" /\ ctr.w = 0 -> WriteByte
       [] Body = "read" \/ (Body = "readOne" /\ bytes = 1) ->
            Dispatcher!Use(r, "In") /\ bytes' = 0
       [] Body = "readOne" /\ bytes # 1 -> bytes' = bytes - 1 /\ UNCHANGED vars
       [] OTHER -> UNCHANGED <<vars, bytes>>
  /\ UNCHANGED <<test, command, stopped>>

Return ==
  /\ worked /\ Dispatcher!CallReturns
  /\ worked' = FALSE
  /\ UNCHANGED <<test, command, bytes, ctr, stopped, failed>>

\* Only stop_wait waits without a limit
Waiting ==
  /\ \/ Dispatcher!Report \/ Dispatcher!Awaken \/ Dispatcher!Dispatch
     \/ Dispatcher!WaitReturns
     \/ test # "stop_wait" /\ Dispatcher!Expire
  /\ UNCHANGED testVars

Main == MakePipe \/ Command \/ Work \/ Return \/ Waiting

\* The second thread of stop_wait, which may be faster than the first
Thread ==
  /\ test = "stop_wait" /\ ~stopped /\ command > 1
  /\ Dispatcher!StopWait
  /\ stopped' = TRUE
  /\ UNCHANGED <<test, command, bytes, ctr, worked, failed>>

Next == Main \/ Thread

-----------------------------------------------------------------------------
(* Properties *)

\* Every test comes to its end, in whatever order the kernel reports the events of a batch and
\* whenever the second thread calls StopWait(), and no assertion fails on the way (main).
TestsPass == [](failed = "") /\ <>(command > Len(Script))
=============================================================================
