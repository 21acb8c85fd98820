----------------------------- MODULE MCPrograms -----------------------------
(* The programs that talk to others through the kernel, for TLC, one of    *)
(* them in each behaviour: the system-wide locks, the dialog of a          *)
(* Subprocess with its child, the serial dump, the samples of src/ipc; and *)
(* the objects that have to give something back: the descriptors of a      *)
(* Subprocess, TcpSocket and ScopeExit.                                    *)
EXTENDS Integers, Sequences

CONSTANTS Procs, MaxSems, MaxCrashes, BufSize, Capacity, TextLengths, MaxErrors, Rates,
          DefaultRate, MaxOptions,
          Servers, Buffer, RequestLengths, Daemons, Writers, Quitters,
          Starts, Sends, Receives, MaxMsg, Letters, BufLen,
          Strangers, Size, DatagramLengths, MaxDatagrams,
          MaxNumber, Scopes, Actions, Sockets, MaxFiles

\* For TLC: the clients of the local socket; one request is longer than the buffer
MCRequestLengths == [c1 |-> 2, c2 |-> 5]

VARIABLES name, created, value, sem_, locked_, name_, place, died, fd_, flocked, granted, crashes
VARIABLES length, output, input, child, step, at, out, bytes, status, purged, errors
VARIABLES args, rate, c_cflag, c_iflag, print_time, stage, g_stop, readable, unplugged
VARIABLES sock_path, server, serving, msg, backlog, client, result, got,
          link, linked, up, down, reset
VARIABLES file, daemon, writer, inode, pipes, handled, wrote
VARIABLES mq_name, queue, parent, reader, out_fd, in_fd, sent, tries, taken, lost
VARIABLES pipe, next, buf, loop, shown
VARIABLES bound, socket, peer, peeked, ip, data, childAt, arrivals, mislaid
VARIABLES owner, io_, pid_, alive, hit
VARIABLES alive_, on_exit_, valid_, fresh, runs, waived
VARIABLES living, socket_fd, peer_name, table, made, exchanged
VARIABLE subject    \* the part that runs

Locks == INSTANCE GlobalLocks WITH Nobody <- "nobody", at <- place, lost <- died
Dialog == INSTANCE SubprocessDialog WITH Lengths <- TextLengths
Serial == INSTANCE SerialDump
Local == INSTANCE LocalServer WITH Nobody <- "nobody", Clients <- DOMAIN RequestLengths,
                               size <- RequestLengths
Fifo == INSTANCE FifoServer WITH NoFile <- "none", Regular <- "regular"
Mq == INSTANCE MessageQueue
Pipe == INSTANCE PipeReader
Udp == INSTANCE UdpLink WITH Child <- "child", Lengths <- DatagramLengths
Life == INSTANCE SubprocessLife
Scope == INSTANCE ScopeExit WITH alive <- alive_
Socket == INSTANCE SocketHandle WITH fd_ <- socket_fd, peer <- peer_name

ASSUME ProgramsAssumption ==
  /\ Locks!LocksAssumption /\ Dialog!BufAssumption
  /\ Serial!SerialAssumption /\ Local!LocalAssumption
  /\ Fifo!FifoAssumption /\ Mq!QueueAssumption /\ Pipe!PipeAssumption /\ Udp!UdpAssumption
  /\ Life!LifeAssumption /\ Scope!ScopeAssumption /\ Socket!SocketAssumption

lockVars == <<name, created, value, sem_, locked_, name_, place, died, fd_, flocked, granted,
              crashes>>
dialogVars == <<length, output, input, child, step, at, out, bytes, status, purged, errors>>
serialVars == <<args, rate, c_cflag, c_iflag, print_time, stage, g_stop, readable, unplugged>>
localVars == <<sock_path, server, serving, msg, backlog, client, result, got,
               link, linked, up, down, reset>>
fifoVars == <<file, daemon, writer, inode, pipes, handled, wrote>>
queueVars == <<mq_name, queue, parent, reader, out_fd, in_fd, sent, tries, taken, lost>>
letterVars == <<pipe, next, buf, loop, shown>>
udpVars == <<bound, socket, peer, peeked, ip, data, childAt, arrivals, mislaid>>
lifeVars == <<owner, io_, pid_, alive, hit>>
scopeVars == <<alive_, on_exit_, valid_, fresh, runs, waived>>
socketVars == <<living, socket_fd, peer_name, table, made, exchanged>>
vars == <<lockVars, dialogVars, serialVars, localVars, fifoVars,
          queueVars, letterVars, udpVars, lifeVars, scopeVars, socketVars, subject>>

Parts == {"locks", "dialog", "serial", "local", "fifo", "queue", "pipe", "udp",
          "life", "scope", "socket"}
Only(part) == subject = part

Init ==
  /\ subject \in Parts
  /\ Locks!Init /\ Dialog!Init /\ Serial!Init /\ Local!Init /\ Fifo!Init /\ Mq!Init
  /\ Pipe!Init /\ Udp!Init /\ Life!Init /\ Scope!Init /\ Socket!Init
  /\ ~Only("socket") => table[0] = -1
  /\ ~Only("dialog") => length = [text \in Dialog!Texts |-> 1]

Rest(part) ==
  /\ IF part = "locks" THEN TRUE ELSE UNCHANGED lockVars
  /\ IF part = "dialog" THEN TRUE ELSE UNCHANGED dialogVars
  /\ IF part = "serial" THEN TRUE ELSE UNCHANGED serialVars
  /\ IF part = "local" THEN TRUE ELSE UNCHANGED localVars
  /\ IF part = "fifo" THEN TRUE ELSE UNCHANGED fifoVars
  /\ IF part = "queue" THEN TRUE ELSE UNCHANGED queueVars
  /\ IF part = "pipe" THEN TRUE ELSE UNCHANGED letterVars
  /\ IF part = "udp" THEN TRUE ELSE UNCHANGED udpVars
  /\ IF part = "life" THEN TRUE ELSE UNCHANGED lifeVars
  /\ IF part = "scope" THEN TRUE ELSE UNCHANGED scopeVars
  /\ IF part = "socket" THEN TRUE ELSE UNCHANGED socketVars
  /\ UNCHANGED subject

Next ==
  \/ Only("locks") /\ Locks!Next /\ Rest("locks")
  \/ Only("dialog") /\ Dialog!Next /\ Rest("dialog")
  \/ Only("serial") /\ Serial!Next /\ Rest("serial")
  \/ Only("local") /\ Local!Next /\ Rest("local")
  \/ Only("fifo") /\ Fifo!Next /\ Rest("fifo")
  \/ Only("queue") /\ Mq!Next /\ Rest("queue")
  \/ Only("pipe") /\ Pipe!Next /\ Rest("pipe")
  \/ Only("udp") /\ Udp!Next /\ Rest("udp")
  \/ Only("life") /\ Life!Next /\ Rest("life")
  \/ Only("scope") /\ Scope!Next /\ Rest("scope")
  \/ Only("socket") /\ Socket!Next /\ Rest("socket")

\* Each process goes on with what it can do. Those who send, connect and start need not, but
\* for the threads of one program
Spec ==
  /\ Init /\ [][Next]_vars
  /\ Locks!Fairness
  /\ WF_vars(Only("dialog") /\ Dialog!Child /\ Rest("dialog"))
  /\ WF_vars(Only("dialog") /\ Dialog!Parent /\ Rest("dialog"))
  /\ WF_vars(Only("serial") /\ Serial!Program /\ Rest("serial"))
  /\ \A s \in Servers : WF_vars(Only("local") /\ Local!Serve(s) /\ Rest("local"))
  /\ \A s \in Daemons : WF_vars(Only("fifo") /\ Fifo!DaemonStep(s) /\ Rest("fifo"))
  /\ WF_vars(Only("pipe") /\ Pipe!WriteLetter /\ Rest("pipe"))
  /\ WF_vars(Only("pipe") /\ Pipe!Reader /\ Rest("pipe"))
  /\ WF_vars(Only("udp") /\ Udp!Parent /\ Rest("udp"))

-----------------------------------------------------------------------------
(* The properties of the parts *)

\* Each semaphore has one token, and an object unlinks only what it has created; the file lock
\* is with the process that was told so (SemaphoreLock, FileLock)
LocksExact == Locks!TokenConserved /\ Locks!GrantExact

\* Both locks are given back, except a semaphore by a process that dies (SemaphoreLock, FileLock)
LocksReturn == Locks!LocksReturn

\* main() and the child keep in step until the answer is read, and that is whole, but for a
\* purge() that comes too early or fails (SubprocessDialog)
DialogInStep == [](Dialog!TypeOK /\ Dialog!InStep) /\ Dialog!AnswerRead

\* The dialog comes to its end but for two named ways of waiting for each other
\* (SubprocessDialog)
DialogEnds == Only("dialog") => Dialog!DialogEnds

\* The serial port gets the settings that were asked for, but for two that it never gets
\* (SerialDump)
SettingsRight == Serial!TypeOK /\ Serial!SettingsRight

\* Answers are those to the client's own request, and the file leads to a server that listens
\* (LocalServer)
AnswersRight == Local!TypeOK /\ Local!Echoes /\ Local!Reachable

\* Lines, messages, letters and datagrams are received whole and in order; the names of the
\* FIFO and of the queue are taken and given back (FifoServer, MessageQueue, PipeReader,
\* UdpLink)
TransfersRight ==
  Fifo!FifoSafe /\ Mq!DeliveredRight /\ Pipe!LettersInOrder /\ Udp!LinkRight

\* SIGINT ends the dump, whoever has connected is accepted, nobody waits for ever but at the
\* FIFO of a dead server, and receivers come to an end but for the named cases
\* (SerialDump, LocalServer, FifoServer, PipeReader, UdpLink)
SamplesEnd ==
  /\ Only("serial") => Serial!StopEnds
  /\ Only("local") => Local!Accepted
  /\ Only("fifo") => Fifo!WritersProceed /\ Fifo!QuitEnds
  /\ Only("pipe") => Pipe!LettersEnd
  /\ Only("udp") => Udp!LinkEnds

\* A Subprocess keeps its own descriptors and touches others in two named ways (SubprocessLife)
DescriptorsKept == []Life!TypeOK /\ Life!DescriptorsKept

\* An action is called once unless it was released or assigned over (ScopeExit)
CalledOnce == []Scope!TypeOK /\ Scope!CalledOnce

\* A descriptor has one owner, which closes it, but for descriptor 0 (SocketHandle)
ClosedOnce == []Socket!TypeOK /\ Socket!ClosedOnce
=============================================================================
