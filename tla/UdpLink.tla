------------------------------- MODULE UdpLink -------------------------------
(***************************************************************************)
(* The class UDP of src/ipc/udp_socket/udp_ttl.cpp in its program: the     *)
(* child sends one datagram, the parent binds the port and receives one.   *)
(* The port is open to everybody, so datagrams of others may arrive.       *)
(* What UDP does, to lose a datagram or deliver it twice, is external.     *)
(***************************************************************************)
EXTENDS Naturals, Sequences

CONSTANTS
  Strangers,          \* other senders
  Child,              \* the forked process
  Size,               \* the bytes of a message
  Lengths,            \* the lengths of datagrams of others
  MaxDatagrams        \* bound: datagrams that arrive

UdpAssumption == Child \notin Strangers /\ Size \in Nat \ {0} /\ Lengths \subseteq Nat

VARIABLES
  bound,              \* the parent has bound the port
  socket,             \* the datagrams in the parent's socket
  peer,               \* where the parent is
  peeked, ip, data,   \* what recvfrom has found: its length and its sender; what was received
  childAt,            \* where the child is
  arrivals,
  mislaid             \* history: the child's datagram did not come, or came before bind()

udpVars == <<bound, socket, peer, peeked, ip, data, childAt, arrivals, mislaid>>

Init ==
  /\ bound = FALSE /\ socket = <<>> /\ peer = "bind"
  /\ peeked = 0 /\ ip = "" /\ data = "" /\ childAt = "send"
  /\ arrivals = 0 /\ mislaid = FALSE

Datagram(from, len) == [from |-> from, len |-> len]

\* A datagram for a port that is not bound is gone
Deliver(from, len) ==
  /\ arrivals < MaxDatagrams
  /\ arrivals' = arrivals + 1
  /\ socket' = IF bound THEN Append(socket, Datagram(from, len)) ELSE socket

\* sendto() succeeds, whatever becomes of the datagram
ChildSends ==
  /\ childAt = "send"
  /\ childAt' = "ended"
  /\ \/ Deliver(Child, Size) /\ mislaid' = ~bound
     \/ UNCHANGED <<socket, arrivals>> /\ mislaid' = TRUE
  /\ UNCHANGED <<bound, peer, peeked, ip, data>>

StrangerSends(c, len) ==
  /\ Deliver(c, len)
  /\ UNCHANGED <<bound, peer, peeked, ip, data, childAt, mislaid>>

Duplicate ==
  /\ socket # <<>> /\ Deliver(socket[Len(socket)].from, socket[Len(socket)].len)
  /\ UNCHANGED <<bound, peer, peeked, ip, data, childAt, mislaid>>

\* main() does not look at the result, and the model has no failure of it
Bind ==
  /\ peer = "bind"
  /\ bound' = TRUE /\ peer' = "peek"
  /\ UNCHANGED <<socket, peeked, ip, data, childAt, arrivals, mislaid>>

\* recvfrom with MSG_PEEK waits for a datagram and leaves it where it is; no more than Size
\* bytes of it are counted. If it is too short receive() fails, and main() ends
Peek ==
  /\ peer = "peek" /\ socket # <<>>
  /\ peeked' = IF Head(socket).len < Size THEN Head(socket).len ELSE Size
  /\ ip' = Head(socket).from
  /\ peer' = IF peeked' < Size THEN "failed" ELSE "take"
  /\ UNCHANGED <<bound, socket, data, childAt, arrivals, mislaid>>

\* The second recvfrom takes the datagram out; the sender is the one of the first
Take ==
  /\ peer = "take"
  /\ data' = Head(socket).from
  /\ socket' = Tail(socket)
  /\ peer' = "received"
  /\ UNCHANGED <<bound, peeked, ip, childAt, arrivals, mislaid>>

Parent == Bind \/ Peek \/ Take

Next ==
  \/ ChildSends \/ Duplicate \/ Parent
  \/ \E c \in Strangers, len \in Lengths : StrangerSends(c, len)

-----------------------------------------------------------------------------
(* Properties *)

Over == peer \in {"failed", "received"}

\* What is printed is a whole message, and it comes from the address that is printed with it;
\* only a stranger's datagram makes receive() fail (receive).
LinkRight ==
  /\ peer = "received" => data = ip /\ peeked = Size
  /\ peer = "failed" => ip \in Strangers

\* A datagram of the child that comes after bind() brings the parent to its end; for one that
\* does not, it waits without a timeout (receive, main).
LinkEnds == childAt = "ended" /\ ~mislaid ~> Over
=============================================================================
