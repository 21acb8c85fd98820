---------------------------- MODULE BoundedRunner ----------------------------
(***************************************************************************)
(* What a thread pool promises, whatever its mechanism: it executes tasks, *)
(* each once, never more than Bound at a time, and once it reports that it *)
(* is drained no task is executing and none will start.                    *)
(***************************************************************************)
EXTENDS Naturals, FiniteSets

CONSTANTS Bound, Tasks

VARIABLES
  status,   \* of each task: new, active or finished
  drained   \* the owner was told that all work is over

vars == <<status, drained>>

Active == {t \in Tasks : status[t] = "active"}

Init ==
  /\ status = [t \in Tasks |-> "new"]
  /\ drained = FALSE

Start(t) ==
  /\ status[t] = "new"
  /\ ~drained
  /\ Cardinality(Active) < Bound
  /\ status' = [status EXCEPT ![t] = "active"]
  /\ UNCHANGED drained

Finish(t) ==
  /\ status[t] = "active"
  /\ status' = [status EXCEPT ![t] = "finished"]
  /\ UNCHANGED drained

Drain ==
  /\ Active = {}
  /\ drained' = TRUE
  /\ UNCHANGED status

Next == Drain \/ \E t \in Tasks : Start(t) \/ Finish(t)

Spec == Init /\ [][Next]_vars
=============================================================================
