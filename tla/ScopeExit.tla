------------------------------- MODULE ScopeExit -------------------------------
(***************************************************************************)
(* The class ScopeExit of src/scope_exit/scope_exit.hpp: objects that call *)
(* an action when they are destroyed, and can be moved and released.       *)
(***************************************************************************)
EXTENDS Naturals

CONSTANTS Scopes, Actions

\* An object is none of the words that tell the fate of an action
ScopeAssumption ==
  /\ Scopes \cap {"fresh", "ended", "waived", "wrong"} = {}
  /\ "none" \notin Actions

VARIABLES
  alive,       \* the objects that exist
  on_exit_,    \* of each object: its action, or none in an object moved from
  valid_,
  fresh,       \* the actions that no object was made with so far
  runs,        \* how often each action was called
  waived       \* history: actions of objects that were released or assigned to

vars == <<alive, on_exit_, valid_, fresh, runs, waived>>

TypeOK ==
  /\ alive \subseteq Scopes /\ fresh \subseteq Actions /\ waived \subseteq Actions
  /\ on_exit_ \in [Scopes -> Actions \cup {"none"}]
  /\ valid_ \in [Scopes -> BOOLEAN]
  /\ runs \in [Actions -> Nat]

Init ==
  /\ alive = {} /\ fresh = Actions /\ waived = {}
  /\ on_exit_ = [o \in Scopes |-> "none"] /\ valid_ = [o \in Scopes |-> FALSE]
  /\ runs = [a \in Actions |-> 0]

Construct(o, a) ==
  /\ o \notin alive /\ a \in fresh
  /\ alive' = alive \cup {o} /\ fresh' = fresh \ {a}
  /\ on_exit_' = [on_exit_ EXCEPT ![o] = a] /\ valid_' = [valid_ EXCEPT ![o] = TRUE]
  /\ UNCHANGED <<runs, waived>>

\* Mutant of MoveConstruct: the object moved from stays valid
CopyConstruct(o, rhs) ==
  /\ o \notin alive /\ rhs \in alive
  /\ alive' = alive \cup {o}
  /\ on_exit_' = [on_exit_ EXCEPT ![o] = on_exit_[rhs]]
  /\ valid_' = [valid_ EXCEPT ![o] = valid_[rhs]]
  /\ UNCHANGED <<fresh, runs, waived>>

MoveConstruct(o, rhs) ==
  /\ o \notin alive /\ rhs \in alive
  /\ alive' = alive \cup {o}
  /\ on_exit_' = [on_exit_ EXCEPT ![o] = on_exit_[rhs], ![rhs] = "none"]
  /\ valid_' = [valid_ EXCEPT ![o] = valid_[rhs], ![rhs] = FALSE]
  /\ UNCHANGED <<fresh, runs, waived>>

\* The action that the object had is lost, its own when it is assigned to itself
MoveAssign(o, rhs) ==
  /\ {o, rhs} \subseteq alive
  /\ on_exit_' = [on_exit_ EXCEPT ![o] = on_exit_[rhs]]
  /\ valid_' = [valid_ EXCEPT ![o] = valid_[rhs], ![rhs] = FALSE]
  /\ waived' = IF valid_[o] THEN waived \cup {on_exit_[o]} ELSE waived
  /\ UNCHANGED <<alive, fresh, runs>>

Release(o) ==
  /\ o \in alive
  /\ valid_' = [valid_ EXCEPT ![o] = FALSE]
  /\ waived' = IF valid_[o] THEN waived \cup {on_exit_[o]} ELSE waived
  /\ UNCHANGED <<alive, on_exit_, fresh, runs>>

Destroy(o) ==
  /\ o \in alive
  /\ alive' = alive \ {o}
  /\ runs' = [a \in Actions |-> IF valid_[o] /\ on_exit_[o] = a THEN runs[a] + 1 ELSE runs[a]]
  /\ on_exit_' = [on_exit_ EXCEPT ![o] = "none"] /\ valid_' = [valid_ EXCEPT ![o] = FALSE]
  /\ UNCHANGED <<fresh, waived>>

Next ==
  \/ \E o \in Scopes : Release(o) \/ Destroy(o) \/ \E a \in Actions : Construct(o, a)
  \/ \E o, rhs \in Scopes : MoveConstruct(o, rhs) \/ MoveAssign(o, rhs)

Spec == Init /\ [][Next]_vars

-----------------------------------------------------------------------------

Bearers(a) == {o \in alive : valid_[o] /\ on_exit_[o] = a}

\* The one object that bears the action; or, when there is none, how often it was called
FateOf(isFresh, bearers, count, isWaived) ==
  IF isFresh THEN "fresh"
  ELSE IF \E o \in Scopes : bearers = {o} /\ count = 0 THEN CHOOSE o \in Scopes : bearers = {o}
  ELSE IF bearers = {} /\ count = 1 /\ ~isWaived THEN "ended"
  ELSE IF bearers = {} /\ count = 0 /\ isWaived THEN "waived"
  ELSE "wrong"

Fate(a) == FateOf(a \in fresh, Bearers(a), runs[a], a \in waived)

Duty == INSTANCE Ownership WITH
  Things <- Actions, Owners <- Scopes, owner <- [a \in Actions |-> Fate(a)]

\* However objects are moved and released, an action is called once, when the last object that
\* has it is destroyed; it is never called only if release() was, or another object was
\* assigned to the one that had it (ScopeExit, ~ScopeExit, operator=, release).
CalledOnce == Duty!Spec
=============================================================================
