------------------------------ MODULE Ownership ------------------------------
(***************************************************************************)
(* What objects that end something when they are destroyed promise: each   *)
(* thing has one owner at a time, and is ended once, by its last owner,    *)
(* unless it was given up.                                                 *)
(***************************************************************************)

CONSTANTS Things, Owners

VARIABLE owner    \* of each thing: its owner, or fresh, ended or waived

Init == owner = [t \in Things |-> "fresh"]

Owned(t) == owner[t] \in Owners

Become(t, o) == owner' = [owner EXCEPT ![t] = o]

Begin(t, o) == owner[t] = "fresh" /\ Become(t, o)

Transfer(t, o) == Owned(t) /\ Become(t, o)

End(t) == Owned(t) /\ Become(t, "ended")

Waive(t) == (Owned(t) \/ owner[t] = "fresh") /\ Become(t, "waived")

\* Objects may exchange what they own
Exchange(t, u) ==
  /\ Owned(t) /\ Owned(u)
  /\ owner' = [owner EXCEPT ![t] = owner[u], ![u] = owner[t]]

\* A new owner may end what it owned
Replace(t, u) ==
  /\ Owned(t) /\ Owned(u) /\ t # u
  /\ \E last \in {"ended", "waived"} :
       owner' = [owner EXCEPT ![t] = owner[u], ![u] = last]

Next ==
  \/ \E t \in Things : End(t) \/ Waive(t) \/ \E o \in Owners : Begin(t, o) \/ Transfer(t, o)
  \/ \E t, u \in Things : Exchange(t, u) \/ Replace(t, u)

Spec == Init /\ [][Next]_owner
=============================================================================
