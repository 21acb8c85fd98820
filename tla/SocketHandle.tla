----------------------------- MODULE SocketHandle -----------------------------
(***************************************************************************)
(* The class TcpSocket of src/PostgresProxy/socket.cpp as the owner of a   *)
(* descriptor, and the descriptors of the process.  A Session moves and    *)
(* swaps its two.                                                          *)
(***************************************************************************)
EXTENDS Integers

CONSTANTS
  Sockets,     \* places for objects
  MaxFiles     \* bound: sockets that the kernel makes, numbered in their order

SocketAssumption == MaxFiles \in Nat

Files == 1 .. MaxFiles
Numbers == 0 .. MaxFiles

VARIABLES
  living,      \* the objects that exist
  fd_,         \* a descriptor, -1 or 0
  peer,        \* ip_ and port_: 0, or the file whose peer they name
  table,       \* what each descriptor is open for: a file, nothing (0), or the program (-1)
  made,        \* how many files were made
  exchanged    \* history: swap() was called

vars == <<living, fd_, peer, table, made, exchanged>>

TypeOK ==
  /\ living \subseteq Sockets
  /\ fd_ \in [Sockets -> Numbers \cup {-1}] /\ peer \in [Sockets -> Files \cup {0}]
  /\ table \in [Numbers -> Files \cup {0, -1}]
  /\ made \in 0 .. MaxFiles /\ exchanged \in BOOLEAN

\* A daemon may have closed its standard input
Init ==
  /\ living = {} /\ made = 0 /\ exchanged = FALSE
  /\ fd_ = [s \in Sockets |-> 0] /\ peer = [s \in Sockets |-> 0]
  /\ \E input \in {0, -1} : table = [n \in Numbers |-> IF n = 0 THEN input ELSE 0]

\* The kernel gives out the least number that is free
Least == CHOOSE n \in Numbers : table[n] = 0 /\ \A m \in 0 .. n - 1 : table[m] # 0

NewFile(s, named) ==
  /\ s \notin living /\ made < MaxFiles
  /\ living' = living \cup {s} /\ made' = made + 1
  /\ fd_' = [fd_ EXCEPT ![s] = Least]
  /\ table' = [table EXCEPT ![Least] = made + 1]
  /\ peer' = [peer EXCEPT ![s] = IF named THEN made + 1 ELSE 0]
  /\ UNCHANGED exchanged

Make(s) ==
  \/ NewFile(s, FALSE)
  \/ /\ s \notin living /\ living' = living \cup {s}
     /\ fd_' = [fd_ EXCEPT ![s] = -1] /\ peer' = [peer EXCEPT ![s] = 0]
     /\ UNCHANGED <<table, made, exchanged>>

\* After a failure the result is a socket like any other, that has no peer
Accept(s, listener) ==
  /\ listener \in living
  /\ \/ fd_[listener] > 0 /\ NewFile(s, TRUE)
     \/ Make(s)

\* Mutant of MoveConstruct: the descriptor is shared
MoveSharing(s, rhs) ==
  /\ s \notin living /\ rhs \in living
  /\ living' = living \cup {s}
  /\ fd_' = [fd_ EXCEPT ![s] = fd_[rhs]] /\ peer' = [peer EXCEPT ![s] = peer[rhs]]
  /\ UNCHANGED <<table, made, exchanged>>

MoveConstruct(s, rhs) ==
  /\ s \notin living /\ rhs \in living
  /\ living' = living \cup {s}
  /\ fd_' = [fd_ EXCEPT ![s] = fd_[rhs], ![rhs] = 0]
  /\ peer' = [peer EXCEPT ![s] = peer[rhs], ![rhs] = 0]
  /\ UNCHANGED <<table, made, exchanged>>

\* close(): neither -1 nor 0 counts as a descriptor
Closed(s) == IF fd_[s] > 0 THEN [fd_ EXCEPT ![s] = 0] ELSE fd_
TableWithout(s) == IF fd_[s] > 0 THEN [table EXCEPT ![fd_[s]] = 0] ELSE table

Close(s) ==
  /\ s \in living
  /\ fd_' = Closed(s) /\ table' = TableWithout(s)
  /\ UNCHANGED <<living, peer, made, exchanged>>

\* What it had is closed first, also when a socket is assigned to itself
MoveAssign(s, rhs) ==
  /\ {s, rhs} \subseteq living
  /\ table' = TableWithout(s)
  /\ fd_' = [Closed(s) EXCEPT ![s] = Closed(s)[rhs], ![rhs] = Closed(s)[s]]
  /\ peer' = [peer EXCEPT ![s] = peer[rhs], ![rhs] = peer[s]]
  /\ UNCHANGED <<living, made, exchanged>>

\* The names of the peers stay where they are
Swap(s, rhs) ==
  /\ {s, rhs} \subseteq living
  /\ fd_' = [fd_ EXCEPT ![s] = fd_[rhs], ![rhs] = fd_[s]]
  /\ exchanged' = TRUE
  /\ UNCHANGED <<living, peer, table, made>>

Destroy(s) ==
  /\ s \in living
  /\ living' = living \ {s}
  /\ fd_' = [fd_ EXCEPT ![s] = 0] /\ peer' = [peer EXCEPT ![s] = 0]
  /\ table' = TableWithout(s)
  /\ UNCHANGED <<made, exchanged>>

Next ==
  \/ \E s \in Sockets : Make(s) \/ Close(s) \/ Destroy(s)
  \/ \E s, rhs \in Sockets : \/ Accept(s, rhs) \/ MoveConstruct(s, rhs)
                             \/ MoveAssign(s, rhs) \/ Swap(s, rhs)

Spec == Init /\ [][Next]_vars

-----------------------------------------------------------------------------

Holders(f) == {s \in living : fd_[s] > 0 /\ table[fd_[s]] = f}

\* The one socket that holds the file; or, when there is none, what has become of it
Fate(f) ==
  IF f > made THEN "fresh"
  ELSE IF table[0] = f THEN "waived"
  ELSE IF \A n \in Numbers : table[n] # f THEN "ended"
  ELSE IF \E s \in Sockets : Holders(f) = {s} THEN CHOOSE s \in Sockets : Holders(f) = {s}
  ELSE "wrong"

Descriptors == INSTANCE Ownership WITH
  Things <- Files, Owners <- Sockets, owner <- [f \in Files |-> Fate(f)]

\* However sockets are moved, assigned, swapped and closed, a file has one owner, which closes
\* it, but for the file of descriptor 0, which is never closed; and a socket names the peer
\* that it is connected to unless swap() was called (TcpSocket).
ClosedOnce ==
  /\ Descriptors!Spec
  /\ [](\A s \in living : fd_[s] > 0 /\ ~exchanged => peer[s] \in {0, table[fd_[s]]})
=============================================================================
