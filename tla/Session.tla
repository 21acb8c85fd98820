------------------------------- MODULE Session -------------------------------
(***************************************************************************)
(* One session of the proxy, src/PostgresProxy/session.cpp: process(),     *)
(* called again and again while a socket is readable, forwards a message   *)
(* from the client to the server, then one from the server to the client.  *)
(*                                                                         *)
(* A connection carries cells: a tag, SizeCells cells that stand for the   *)
(* four bytes of the size field, and the payload.  The client's first      *)
(* message has no tag.  Cells arrive in segments of any length.  A peer    *)
(* may close its end or reset the connection at any moment.                *)
(***************************************************************************)
EXTENDS Naturals, Sequences, SequencesExt, FiniteSets

CONSTANTS
  Types,       \* of messages
  Script,      \* what each peer sends: a sequence of messages [type, len]
  SizeCells,   \* cells of a size field
  Query        \* the type of a simple query, which is logged

Sides == {"client", "server"}
Peer(side) == IF side = "client" THEN "server" ELSE "client"

ASSUME ScriptAssumption == Script \in [Sides -> Seq([type : Types, len : Nat])]
ASSUME SizeAssumption == SizeCells \in Nat \ {0}

VARIABLES
  arrived, read,  \* cells that have arrived on, and were read from, each socket
  conn,           \* what became of each connection
  split,          \* a size field was cut by the end of a segment
  sent,           \* the cells sent to each peer
  open,           \* Session::operator bool
  requests,       \* requests_processed_
  req_buf,        \* the buffer, which grows and keeps its contents
  log,            \* the queries that were logged
  pc, from,       \* where process() is, the side it reads from
  got,            \* bytes_read
  garbage,        \* a header that was never received is being forwarded
  killed          \* SIGPIPE has ended the proxy

streamVars == <<arrived, conn, split>>
vars == <<arrived, read, conn, split, sent, open, requests, req_buf, log, pc, from, got,
          garbage, killed>>

Tagged(side, i) == side = "server" \/ i > 1
Cell(i, kind, k) == [msg |-> i, kind |-> kind, pos |-> k]
MessageCells(side, i) ==
  (IF Tagged(side, i) THEN <<Cell(i, "tag", 1)>> ELSE <<>>)
    \o [k \in 1 .. SizeCells |-> Cell(i, "size", k)]
    \o [k \in 1 .. Script[side][i].len |-> Cell(i, "data", k)]
Stream == [side \in Sides |->
             FlattenSeq([i \in DOMAIN Script[side] |-> MessageCells(side, i)])]

\* The message that is being read or has just been read
Current == Stream[from][read[from]].msg

TypeOK ==
  /\ \A side \in Sides : /\ read[side] \in 0 .. arrived[side]
                         /\ arrived[side] \in 0 .. Len(Stream[side])
  /\ conn \in [Sides -> {"up", "fin", "reset", "gone", "dead"}]
  /\ split \in BOOLEAN /\ open \in BOOLEAN /\ garbage \in BOOLEAN /\ killed \in BOOLEAN
  /\ requests \in 0 .. Len(Script["client"]) + 1
  /\ from \in Sides
  /\ pc \in {"idle", "wait", "tag", "size", "payload", "log", "sendTag", "sendSize",
             "sendData", "close"}
  /\ got \in 0 .. Len(req_buf)

Init ==
  /\ arrived = [side \in Sides |-> 0] /\ read = arrived
  /\ conn = [side \in Sides |-> "up"]
  /\ split = FALSE /\ open = TRUE /\ garbage = FALSE /\ killed = FALSE
  /\ sent = [side \in Sides |-> <<>>]
  /\ requests = 0 /\ req_buf = <<>> /\ log = <<>>
  /\ pc = "idle" /\ from = "client" /\ got = 0

-----------------------------------------------------------------------------
(* Sockets: recv and send *)

Available(side) == arrived[side] - read[side]
Lost(side) == conn[side] # "up"

\* select() reports data, the end of the stream and errors alike
Readable(side) == Available(side) > 0 \/ Lost(side)

\* recv returns what has arrived, up to max cells, and blocks when there is nothing
Take(side, max, n) ==
  /\ n = (IF Available(side) < max THEN Available(side) ELSE max)
  /\ n > 0
  /\ read' = [read EXCEPT ![side] = @ + n]

\* recv returns 0: the peer has closed its end, or the error was reported before
EndOfStream(side) == Available(side) = 0 /\ conn[side] \in {"fin", "gone", "dead"}

\* recv reports a reset once: the caller's bytes keeps whatever value it had
ReceiveFails(side) ==
  /\ Available(side) = 0
  /\ conn[side] = "reset"
  /\ conn' = [conn EXCEPT ![side] = "dead"]

\* send to a peer that has closed succeeds, and may bring back a reset; the next send
\* raises SIGPIPE. A reset out of the blue makes one send fail.
SendSucceeds(side, cells) ==
  /\ \/ conn[side] = "up" /\ UNCHANGED conn
     \/ conn[side] = "fin" /\ \E s \in {"fin", "gone"} : conn' = [conn EXCEPT ![side] = s]
  /\ sent' = [sent EXCEPT ![side] = @ \o cells]
  /\ UNCHANGED killed

SendFails(side) ==
  \/ /\ conn[side] = "reset"
     /\ conn' = [conn EXCEPT ![side] = "dead"]
     /\ UNCHANGED killed
  \/ /\ conn[side] \in {"gone", "dead"}
     /\ killed' = TRUE
     /\ UNCHANGED conn

-----------------------------------------------------------------------------
(* Session::process *)

\* The proxy's worker calls process() when a socket is readable
Start ==
  /\ pc = "idle" /\ open
  /\ \E side \in Sides : Readable(side)
  /\ pc' = "wait" /\ from' = "client"
  /\ UNCHANGED <<streamVars, read, sent, open, requests, req_buf, log, got, garbage, killed>>

\* Where process() goes after one direction: to the other one, or back to its caller
NextDirection ==
  IF from = "client" THEN pc' = "wait" /\ from' = "server"
                     ELSE pc' = "idle" /\ from' = "client"

\* Mutant of NothingToRead: process() returns when the client sent nothing
NothingToReadReturns ==
  /\ pc = "wait" /\ ~Readable(from)
  /\ pc' = "idle" /\ from' = "client"
  /\ UNCHANGED <<streamVars, read, sent, open, requests, req_buf, log, got, garbage, killed>>

\* "Nothing to receive yet": the direction is done
NothingToRead ==
  /\ pc = "wait" /\ ~Readable(from)
  /\ NextDirection
  /\ UNCHANGED <<streamVars, read, sent, open, requests, req_buf, log, got, garbage, killed>>

\* The first request has no tag; requests_processed_ counts it before its size is read
BeginMessage ==
  /\ pc = "wait" /\ Readable(from)
  /\ got' = 0
  /\ IF from = "client" /\ requests = 0
       THEN pc' = "size" /\ requests' = 1
       ELSE pc' = "tag" /\ UNCHANGED requests
  /\ UNCHANGED <<streamVars, read, sent, open, req_buf, log, from, garbage, killed>>

\* The tag: the end of the stream gives up; after an error bytes is uninitialized, so the
\* handler gives up or carries on
ReadTag ==
  /\ pc = "tag"
  /\ \/ /\ Take(from, 1, 1)
        /\ requests' = IF from = "client" THEN requests + 1 ELSE requests
        /\ pc' = "size"
        /\ UNCHANGED conn
     \/ /\ EndOfStream(from)
        /\ pc' = "close"
        /\ UNCHANGED <<conn, read, requests>>
     \/ /\ ReceiveFails(from)
        /\ \/ pc' = "close" /\ UNCHANGED requests
           \/ pc' = "size" /\ requests' = IF from = "client" THEN requests + 1 ELSE requests
        /\ UNCHANGED read
  /\ UNCHANGED <<arrived, split, sent, open, req_buf, log, from, got, garbage, killed>>

\* The size is read by a single recv: a part of it gives up. After an error bytes still
\* counts the tag, except in the first request, where it is uninitialized: there the
\* handler may carry on with an uninitialized size, of which 0 survives the payload loop
ReadSize ==
  /\ pc = "size"
  /\ \/ \E n \in 1 .. SizeCells :
          /\ Take(from, SizeCells, n)
          /\ pc' = IF n < SizeCells THEN "close" ELSE "payload"
          /\ UNCHANGED <<conn, garbage>>
     \/ /\ EndOfStream(from)
        /\ pc' = "close"
        /\ UNCHANGED <<conn, read, garbage>>
     \/ /\ ReceiveFails(from)
        /\ \/ pc' = "close" /\ UNCHANGED garbage
           \/ from = "client" /\ requests = 1 /\ pc' = "log" /\ garbage' = TRUE
        /\ UNCHANGED read
  /\ UNCHANGED <<arrived, split, sent, open, requests, req_buf, log, from, got, killed>>

\* That header comes from the client
Garbled == garbage /\ from = "client"

Size == IF Garbled THEN 0 ELSE Script[from][Current].len

\* Overwrite the buffer from position k on
Put(buf, k, cells) ==
  [i \in 1 .. (IF k + Len(cells) > Len(buf) THEN k + Len(cells) ELSE Len(buf)) |->
     IF i \in k + 1 .. k + Len(cells) THEN cells[i - k] ELSE buf[i]]

ReadPayload ==
  /\ pc = "payload"
  /\ IF got = Size
       THEN /\ pc' = "log"
            /\ UNCHANGED <<conn, read, req_buf, got>>
       ELSE \/ \E n \in 1 .. Size - got :
                 /\ Take(from, Size - got, n)
                 /\ req_buf' = Put(req_buf, got,
                                   SubSeq(Stream[from], read[from] + 1, read[from] + n))
                 /\ got' = got + n
                 /\ UNCHANGED <<conn, pc>>
            \/ /\ \/ EndOfStream(from) /\ UNCHANGED conn
                  \/ ReceiveFails(from)
               /\ pc' = "close"
               /\ UNCHANGED <<read, req_buf, got>>
  /\ UNCHANGED <<arrived, split, sent, open, requests, log, from, garbage, killed>>

\* Mutant of LogRequest: the whole buffer is logged, not the request in it
LogRequestBuffer ==
  /\ pc = "log"
  /\ log' = IF from = "client" /\ ~garbage /\ requests > 1 /\ Script[from][Current].type = Query
              THEN Append(log, req_buf) ELSE log
  /\ pc' = IF from = "server" \/ requests > 1 THEN "sendTag" ELSE "sendSize"
  /\ UNCHANGED <<streamVars, read, sent, open, requests, req_buf, from, got, garbage, killed>>

\* A simple query is logged before it is forwarded
LogRequest ==
  /\ pc = "log"
  /\ log' = IF from = "client" /\ ~garbage /\ requests > 1 /\ Script[from][Current].type = Query
              THEN Append(log, SubSeq(req_buf, 1, Size)) ELSE log
  /\ pc' = IF from = "server" \/ requests > 1 THEN "sendTag" ELSE "sendSize"
  /\ UNCHANGED <<streamVars, read, sent, open, requests, req_buf, from, got, garbage, killed>>

\* The three sends of a message: tag, size, payload
SendPart(at, cells, next) ==
  /\ pc = at
  /\ \/ SendSucceeds(Peer(from), cells) /\ next
     \/ SendFails(Peer(from)) /\ pc' = "close" /\ UNCHANGED <<sent, from>>
  /\ UNCHANGED <<arrived, split, read, open, requests, req_buf, log, got, garbage>>

SendTag ==
  SendPart("sendTag", <<Cell(Current, "tag", 1)>>, pc' = "sendSize" /\ UNCHANGED from)
SendSize ==
  SendPart("sendSize",
           [k \in 1 .. SizeCells |-> Cell(IF Garbled THEN 0 ELSE Current, "size", k)],
           pc' = "sendData" /\ UNCHANGED from)
\* Mutant of SendData: the whole buffer is sent
SendDataBuffer == SendPart("sendData", req_buf, NextDirection)

SendData == SendPart("sendData", SubSeq(req_buf, 1, Size), NextDirection)

\* After a failure both sockets are closed
CloseBoth ==
  /\ pc = "close"
  /\ open' = FALSE
  /\ pc' = "idle" /\ from' = "client"
  /\ UNCHANGED <<streamVars, read, sent, requests, req_buf, log, got, garbage, killed>>

-----------------------------------------------------------------------------
(* The peers *)

\* A segment arrives
Arrive(side) ==
  /\ conn[side] = "up"
  /\ \E n \in arrived[side] + 1 .. Len(Stream[side]) :
       /\ arrived' = [arrived EXCEPT ![side] = n]
       /\ split' = (split \/ /\ n < Len(Stream[side])
                             /\ Stream[side][n].kind = "size"
                             /\ Stream[side][n + 1].kind = "size"
                             /\ Stream[side][n + 1].pos > 1)
  /\ UNCHANGED <<read, conn, sent, open, requests, req_buf, log, pc, from, got, garbage, killed>>

\* A peer closes its end, or resets the connection
Leave(side) ==
  /\ conn[side] = "up"
  /\ \E s \in {"fin", "reset"} : conn' = [conn EXCEPT ![side] = s]
  /\ UNCHANGED <<arrived, split, read, sent, open, requests, req_buf, log, pc, from, got,
                 garbage, killed>>

-----------------------------------------------------------------------------

Process ==
  \/ Start \/ NothingToRead \/ BeginMessage \/ ReadTag \/ ReadSize \/ ReadPayload
  \/ LogRequest \/ SendTag \/ SendSize \/ SendData \/ CloseBoth

Next == ~killed /\ (Process \/ \E side \in Sides : Arrive(side) \/ Leave(side))

Spec == Init /\ [][Next]_vars

\* The worker calls process() while there is something to read and the thread that runs it
\* is scheduled; what a peer has sent arrives
FairSpec ==
  /\ Spec
  /\ WF_vars(~killed /\ Process)
  /\ \A side \in Sides : WF_vars(~killed /\ Arrive(side))

-----------------------------------------------------------------------------
(* Properties *)

Whole(side, i) == FlattenSeq([k \in 1 .. i |-> MessageCells(side, k)])

\* Each peer receives the cells of the other one in their order, none lost, repeated, made
\* up or left over in the shared buffer by a longer message of either direction. The one
\* exception is a first request whose connection is reset before its size has arrived.
\* Between two calls of process() an open session has forwarded whole messages only, as
\* many requests as it has counted, and read no further.
ForwardsFaithfully ==
  /\ TypeOK
  /\ \A side \in Sides :
       IsPrefix(sent[side], Stream[Peer(side)]) \/ (side = "server" /\ garbage)
  /\ pc = "idle" /\ open /\ ~garbage =>
       /\ sent["server"] = Whole("client", requests)
       /\ \A side \in Sides : Len(sent[Peer(side)]) = read[side]

IsQuery(i) == i \in 2 .. Len(Script["client"]) /\ Script["client"][i].type = Query
Text(i) == [k \in 1 .. Script["client"][i].len |-> Cell(i, "data", k)]

\* The texts of the queries among the first n requests
Logged(n) == FlattenSeq([i \in 1 .. n |-> IF IsQuery(i) THEN <<Text(i)>> ELSE <<>>])

\* Every query is in the log, in order, with its exact text, before any of it is sent.
LoggedFirst ==
  LET begun == sent["server"] # <<>> /\ Last(sent["server"]).msg = requests
  IN
  /\ log = Logged(requests) \/ (requests > 0 /\ log = Logged(requests - 1))
  /\ begun => log = Logged(requests)

\* All messages are forwarded, unless a peer leaves or a size field is cut by the end of a
\* segment: nothing else makes the session drop or stall. When a peer has left, both sockets
\* are closed, or SIGPIPE has ended the proxy (process, send).
SessionConcludes ==
  /\ <>(\/ \A side \in Sides : sent[Peer(side)] = Stream[side]
        \/ split
        \/ \E side \in Sides : Lost(side))
  /\ \A side \in Sides : Lost(side) ~> (~open \/ killed)
=============================================================================
