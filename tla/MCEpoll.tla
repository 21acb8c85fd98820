------------------------------- MODULE MCEpoll -------------------------------
(* The dispatcher for TLC: with a socket and the end of a pipe, or with    *)
(* one of its tests.                                                       *)
EXTENDS EpollDispatcher

\* A socket and the end of a pipe; in the tests, the ends of a pipe
MCKinds == [fd1 |-> {"In", "Out"}, fd2 |-> {"Hangup"}]
MCModes == [fd1 |-> {"level", "edge"}, fd2 |-> {"level", "oneshot"}]
MCMasks == {{"In", "Out"}}

VARIABLES test, command, bytes, ctr, worked, stopped, failed
VARIABLE testing    \* a test runs

Tests == INSTANCE EpollTests WITH r <- "fd1", w <- "fd2"

ASSUME DispatcherAssumption == EpollAssumption

testVars == <<test, command, bytes, ctr, worked, stopped, failed>>
allVars == <<vars, testVars, testing>>

MCInit ==
  /\ testing \in BOOLEAN
  /\ Init /\ Tests!NotStarted
  /\ ~testing => test = "wait_timeout"

MCNext ==
  /\ UNCHANGED testing
  /\ \/ ~testing /\ Next /\ UNCHANGED testVars
     \/ testing /\ Tests!Next

MCSpec ==
  /\ MCInit /\ [][MCNext]_allVars
  /\ WF_allVars(~testing /\ Step /\ UNCHANGED <<testVars, testing>>)
  /\ WF_allVars(testing /\ Tests!Main /\ UNCHANGED testing)
  /\ WF_allVars(testing /\ Tests!Thread /\ UNCHANGED testing)

-----------------------------------------------------------------------------

\* Only a wake-up loses an event (EpollDispatcher)
ServedInUse == ~testing => []TypeOK /\ Served

\* StopWait() is never lost (EpollDispatcher)
StopEndsWaitInUse == ~testing => StopEndsWait

\* The tests of the dispatcher come to their ends without a failure (EpollTests)
TestsPass == testing => Tests!TestsPass
=============================================================================
