----------------------------- MODULE LocalServer -----------------------------
(***************************************************************************)
(* The local socket of src/ipc/unix_sockets: server.cpp answers one client *)
(* after the other, client.cpp sends one request and waits three seconds   *)
(* for the answer.  Any process may be killed, and a server is started     *)
(* again while the file of the last one, or that server, is still there.   *)
(* Both programs send without MSG_NOSIGNAL.                                *)
(***************************************************************************)
EXTENDS Naturals, Sequences, FiniteSets

CONSTANTS
  Clients, Servers,   \* processes; each runs once
  Nobody,
  Buffer,             \* the bytes that either side asks for in its only receive()
  size                \* the length of each client's request

LocalAssumption ==
  /\ Nobody \notin Servers \cup Clients
  /\ Buffer \in Nat \ {0} /\ size \in [Clients -> Nat \ {0}]
  /\ Cardinality(Clients) <= 5      \* the backlog is never full

VARIABLES
  sock_path,          \* the server whose socket the file is, alive or not, or Nobody
  server,             \* where each server is
  serving, msg,       \* the client it has accepted, and what it received
  backlog,            \* connections it has not accepted
  client,             \* where each client is
  result, got,        \* how it ended, and with what answer
  link, linked,       \* the server it connected to; the other end is still open
  up, down,           \* bytes on their way to the server and back
  reset               \* the other end was closed before it had read all

serverVars == <<server, serving, msg, backlog>>
endVars == <<client, result, got>>
linkVars == <<link, linked, up, down, reset>>
localVars == <<sock_path, serverVars, endVars, linkVars>>

Init ==
  /\ sock_path = Nobody
  /\ server = [s \in Servers |-> "off"] /\ serving = [s \in Servers |-> Nobody]
  /\ msg = [s \in Servers |-> <<>>] /\ backlog = [s \in Servers |-> <<>>]
  /\ client = [c \in Clients |-> "off"]
  /\ result = [c \in Clients |-> "none"] /\ got = [c \in Clients |-> <<>>]
  /\ link = [c \in Clients |-> Nobody] /\ linked = {} /\ reset = {}
  /\ up = [c \in Clients |-> <<>>] /\ down = [c \in Clients |-> <<>>]

Start(s, n) == SubSeq(s, 1, IF Len(s) < n THEN Len(s) ELSE n)
Request(c) == [i \in 1 .. size[c] |-> <<c, i>>]
Reply(received) == received \o <<"+", "+">>

-----------------------------------------------------------------------------
(* The server *)

\* The constructor removes the file, whosever it is
Create(s) ==
  /\ server[s] = "off"
  /\ server' = [server EXCEPT ![s] = "created"]
  /\ sock_path' = Nobody
  /\ UNCHANGED <<serving, msg, backlog, endVars, linkVars>>

\* bind() fails if another server has been faster
Bind(s) ==
  /\ server[s] = "created"
  /\ server' = [server EXCEPT ![s] = IF sock_path = Nobody THEN "bound" ELSE "ended"]
  /\ sock_path' = IF sock_path = Nobody THEN s ELSE sock_path
  /\ UNCHANGED <<serving, msg, backlog, endVars, linkVars>>

Listen(s) ==
  /\ server[s] = "bound"
  /\ server' = [server EXCEPT ![s] = "accept"]
  /\ UNCHANGED <<sock_path, serving, msg, backlog, endVars, linkVars>>

\* The result of the wait that follows is not looked at
Accept(s) ==
  /\ server[s] = "accept" /\ backlog[s] # <<>>
  /\ serving' = [serving EXCEPT ![s] = Head(backlog[s])]
  /\ backlog' = [backlog EXCEPT ![s] = Tail(@)]
  /\ server' = [server EXCEPT ![s] = "receive"]
  /\ UNCHANGED <<sock_path, msg, endVars, linkVars>>

\* Mutant of Receive: the string keeps what the last client sent
ReceiveKeeping(s) ==
  LET c == serving[s] IN
  /\ server[s] = "receive"
  /\ up[c] # <<>> \/ client[c] = "ended"
  /\ msg' = [msg EXCEPT ![s] = Start(up[c], Buffer)
                                 \o SubSeq(@, Len(Start(up[c], Buffer)) + 1, Len(@))]
  /\ up' = [up EXCEPT ![c] = SubSeq(@, Len(Start(@, Buffer)) + 1, Len(@))]
  /\ server' = [server EXCEPT ![s] = "send"]
  /\ UNCHANGED <<sock_path, serving, backlog, endVars, link, linked, down, reset>>

\* One receive(), which blocks until the client has sent or left. The string is as long as
\* the buffer and then cut to what was received
Receive(s) ==
  LET c == serving[s] IN
  /\ server[s] = "receive"
  /\ up[c] # <<>> \/ client[c] = "ended"
  /\ msg' = [msg EXCEPT ![s] = Start(up[c], Buffer)]
  /\ up' = [up EXCEPT ![c] = SubSeq(@, Len(Start(@, Buffer)) + 1, Len(@))]
  /\ server' = [server EXCEPT ![s] = "send"]
  /\ UNCHANGED <<sock_path, serving, backlog, endVars, link, linked, down, reset>>

\* What the kernel does with the connections of a server that closes them: the bytes it has
\* not read, and the connections it has not accepted, are errors at the other end
Closed(s, clients) ==
  /\ linked' = linked \ clients
  /\ reset' = reset \cup {c \in clients : up[c] # <<>> \/ c # serving[s]}

\* The answer, the end of the connection, and the next round
Answer(s) ==
  LET c == serving[s] IN
  /\ server[s] = "send" /\ client[c] # "ended"
  /\ down' = [down EXCEPT ![c] = Reply(msg[s])]
  /\ Closed(s, {c})
  /\ serving' = [serving EXCEPT ![s] = Nobody]
  /\ server' = [server EXCEPT ![s] = "accept"]
  /\ UNCHANGED <<sock_path, msg, backlog, endVars, link, up>>

\* SIGPIPE, or another signal. The file stays
Die(s) ==
  /\ server' = [server EXCEPT ![s] = "ended"]
  /\ Closed(s, {c \in linked : link[c] = s})
  /\ UNCHANGED <<sock_path, serving, msg, backlog, endVars, link, up, down>>

\* A failure ends the server only if no socket can be made: otherwise accept() returns one
\* that is not connected, and the failure of its receive() leads back to accept()
AcceptFails(s) == server[s] = "accept" /\ Die(s)

SendFails(s) == server[s] = "send" /\ client[serving[s]] = "ended" /\ Die(s)
Kill(s) == server[s] \notin {"off", "ended"} /\ Die(s)

Serve(s) == Accept(s) \/ Receive(s) \/ Answer(s) \/ SendFails(s)

-----------------------------------------------------------------------------
(* The client *)

Ended(c, how) ==
  /\ client' = [client EXCEPT ![c] = "ended"]
  /\ result' = [result EXCEPT ![c] = how]
  /\ UNCHANGED <<sock_path, serverVars, linkVars>>

Listening(s) == s # Nobody /\ server[s] \in {"accept", "receive", "send"}

Connect(c) ==
  /\ client[c] = "off" /\ Listening(sock_path)
  /\ client' = [client EXCEPT ![c] = "connected"]
  /\ link' = [link EXCEPT ![c] = sock_path]
  /\ linked' = linked \cup {c}
  /\ backlog' = [backlog EXCEPT ![sock_path] = Append(@, c)]
  /\ UNCHANGED <<sock_path, server, serving, msg, result, got, up, down, reset>>

ConnectFails(c) ==
  client[c] = "off" /\ ~Listening(sock_path) /\ Ended(c, "error") /\ UNCHANGED got

Send(c) ==
  /\ client[c] = "connected" /\ c \in linked
  /\ client' = [client EXCEPT ![c] = "wait"]
  /\ up' = [up EXCEPT ![c] = Request(c)]
  /\ UNCHANGED <<sock_path, serverVars, result, got, link, linked, down, reset>>

ClientSendFails(c) ==
  client[c] = "connected" /\ c \notin linked /\ Ended(c, "killed") /\ UNCHANGED got

\* wait() finds an answer, the end of the connection or an error, or three seconds pass
ReceiveAnswer(c) ==
  /\ client[c] = "wait" /\ down[c] # <<>>
  /\ got' = [got EXCEPT ![c] = Start(down[c], Buffer)]
  /\ Ended(c, "ok")

\* receive() takes the end of the connection for an answer of no bytes
ReceiveEnd(c) ==
  /\ client[c] = "wait" /\ down[c] = <<>> /\ c \notin linked
  /\ Ended(c, IF c \in reset THEN "error" ELSE "ok") /\ UNCHANGED got

TimeOut(c) ==
  client[c] = "wait" /\ down[c] = <<>> /\ c \in linked /\ Ended(c, "error") /\ UNCHANGED got

Leave(c) == client[c] \in {"connected", "wait"} /\ Ended(c, "killed") /\ UNCHANGED got

Next ==
  \/ \E s \in Servers : Create(s) \/ Bind(s) \/ Listen(s) \/ Serve(s) \/ AcceptFails(s) \/ Kill(s)
  \/ \E c \in Clients : \/ Connect(c) \/ ConnectFails(c) \/ Send(c) \/ ClientSendFails(c)
                        \/ ReceiveAnswer(c) \/ ReceiveEnd(c) \/ TimeOut(c) \/ Leave(c)

-----------------------------------------------------------------------------
(* Properties *)

TypeOK ==
  /\ sock_path \in Servers \cup {Nobody}
  /\ server \in [Servers -> {"off", "created", "bound", "accept", "receive", "send", "ended"}]
  /\ serving \in [Servers -> Clients \cup {Nobody}]
  /\ client \in [Clients -> {"off", "connected", "wait", "ended"}]
  /\ result \in [Clients -> {"none", "ok", "error", "killed"}]
  /\ linked \subseteq Clients /\ reset \subseteq Clients

\* A client that ends well has its own request back, as far as the two buffers hold it. If
\* it has nothing, its server died between the request and the answer (main, receive).
Echoes ==
  \A c \in Clients : result[c] = "ok" =>
    \/ got[c] = Start(Reply(Start(Request(c), Buffer)), Buffer)
    \/ got[c] = <<>> /\ server[link[c]] = "ended"

\* A listening server is the one that clients find, until another one has been started; so a
\* client is turned away only by a server that ended or that has not begun to listen (main,
\* LocalSocket).
Reachable ==
  \A s \in Servers : Listening(s) =>
    sock_path = s \/ \E t \in Servers \ {s} : server[t] # "off"

\* The server has accepted a client that sends nothing and does not leave.
Held(s) == server[s] = "receive" /\ client[serving[s]] = "connected"

\* Who has connected is accepted in the end, or sees the end of the server, unless a silent
\* client holds the server, whose three seconds of wait() are followed by a receive() without
\* a limit (main).
Accepted ==
  \A s \in Servers : <>[]Held(s) \/ (backlog[s] # <<>> ~> (server[s] = "ended" \/ backlog[s] = <<>>))
=============================================================================
