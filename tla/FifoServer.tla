------------------------------ MODULE FifoServer ------------------------------
(***************************************************************************)
(* src/ipc/pipe_ipc: server.cpp makes a FIFO and reads lines from it until *)
(* "quit"; client.cpp writes its arguments as one line.  Both open the     *)
(* FIFO by name, with the streams of the library.  A server may be killed, *)
(* and whoever starts servers removes what dead ones have left.            *)
(***************************************************************************)
EXTENDS Naturals, Sequences

CONSTANTS
  Daemons, Writers,   \* processes; each runs once
  Quitters,           \* the writers whose line is "quit"
  NoFile, Regular     \* there is no /tmp/test_fifo; it is a regular file

FifoAssumption == Quitters \subseteq Writers /\ {NoFile, Regular} \cap Daemons = {}

VARIABLES
  file,               \* what the name refers to: nothing, a regular file, the FIFO of a server
  daemon, writer,     \* where the processes are
  inode,              \* the file that a writer has open, or wants to open
  pipes,              \* the lines in the FIFO of each server; a line is named by its writer
  handled, wrote      \* history: the lines that were processed, and that were written

fifoVars == <<file, daemon, writer, inode, pipes, handled, wrote>>

Init ==
  /\ file = NoFile
  /\ daemon = [s \in Daemons |-> "off"] /\ writer = [c \in Writers |-> "off"]
  /\ inode = [c \in Writers |-> NoFile]
  /\ pipes = [s \in Daemons |-> <<>>]
  /\ handled = [s \in Daemons |-> <<>>] /\ wrote = [s \in Daemons |-> <<>>]

-----------------------------------------------------------------------------
(* The server *)

\* mkfifo fails if there is anything of that name
Mkfifo(s) ==
  /\ daemon[s] = "off"
  /\ daemon' = [daemon EXCEPT ![s] = IF file = NoFile THEN "made" ELSE "refused"]
  /\ file' = IF file = NoFile THEN s ELSE file
  /\ UNCHANGED <<writer, inode, pipes, handled, wrote>>

Waiting(s) == {c \in Writers : writer[c] = "opening" /\ inode[c] = s}

\* The ifstream waits for a writer and lets those go on that wait for it. The ofstream that
\* follows is a writer of the server's own
OpenFifo(s) ==
  /\ daemon[s] = "made"
  /\ daemon' = [daemon EXCEPT ![s] = IF Waiting(s) = {} THEN "opening" ELSE "reading"]
  /\ writer' = [c \in Writers |-> IF c \in Waiting(s) THEN "opened" ELSE writer[c]]
  /\ UNCHANGED <<file, inode, pipes, handled, wrote>>

GetLine(s) ==
  /\ daemon[s] = "reading" /\ pipes[s] # <<>>
  /\ handled' = [handled EXCEPT ![s] = Append(@, Head(pipes[s]))]
  /\ pipes' = [pipes EXCEPT ![s] = Tail(@)]
  /\ daemon' = [daemon EXCEPT ![s] = IF Head(pipes[s]) \in Quitters THEN "quitting" ELSE @]
  /\ UNCHANGED <<file, writer, inode, wrote>>

Unlink(s) ==
  /\ daemon[s] = "quitting"
  /\ file' = NoFile
  /\ daemon' = [daemon EXCEPT ![s] = "ended"]
  /\ UNCHANGED <<writer, inode, pipes, handled, wrote>>

Live == {"made", "opening", "reading", "quitting"}

KillDaemon(s) ==
  /\ daemon[s] \in Live
  /\ daemon' = [daemon EXCEPT ![s] = "killed"]
  /\ UNCHANGED <<file, writer, inode, pipes, handled, wrote>>

-----------------------------------------------------------------------------
(* The client *)

\* An ofstream makes a regular file if there is none; a FIFO is waited for until a server
\* has it open
OpenOut(c) ==
  /\ writer[c] = "off"
  /\ file' = IF file = NoFile THEN Regular ELSE file
  /\ inode' = [inode EXCEPT ![c] = file']
  /\ IF file \in Daemons
       THEN /\ writer' = [writer EXCEPT ![c] =
                            IF daemon[file] \in {"opening", "reading", "quitting"}
                              THEN "opened" ELSE "opening"]
            /\ daemon' = [daemon EXCEPT ![file] = IF @ = "opening" THEN "reading" ELSE @]
       ELSE /\ writer' = [writer EXCEPT ![c] = "opened"]
            /\ UNCHANGED daemon
  /\ UNCHANGED <<pipes, handled, wrote>>

\* The line is written in one piece at the end; without a reader SIGPIPE ends the client
WriteLine(c) ==
  LET s == inode[c] IN
  /\ writer[c] = "opened"
  /\ writer' = [writer EXCEPT ![c] = "ended"]
  /\ IF s \in Daemons /\ daemon[s] \in {"reading", "quitting"}
       THEN /\ pipes' = [pipes EXCEPT ![s] = Append(@, c)]
            /\ wrote' = [wrote EXCEPT ![s] = Append(@, c)]
       ELSE UNCHANGED <<pipes, wrote>>
  /\ UNCHANGED <<file, daemon, inode, handled>>

\* Someone removes a file that no server reads
Clean ==
  /\ file # NoFile
  /\ file \in Daemons => daemon[file] \notin Live
  /\ file' = NoFile
  /\ UNCHANGED <<daemon, writer, inode, pipes, handled, wrote>>

DaemonStep(s) == OpenFifo(s) \/ GetLine(s) \/ Unlink(s)

Next ==
  \/ Clean
  \/ \E s \in Daemons : Mkfifo(s) \/ DaemonStep(s) \/ KillDaemon(s)
  \/ \E c \in Writers : OpenOut(c) \/ WriteLine(c)

-----------------------------------------------------------------------------
(* Properties *)

TypeOK ==
  /\ file \in Daemons \cup {NoFile, Regular}
  /\ daemon \in [Daemons -> Live \cup {"off", "refused", "ended", "killed"}]
  /\ writer \in [Writers -> {"off", "opening", "opened", "ended"}]

\* The name leads to the server from mkfifo to unlink, and a server that ends by itself leaves
\* nothing behind: the next one is refused only because of one that runs or was killed, or of
\* a client that came when there was none (mkfifo, unlink).
NameRight ==
  /\ \A s \in Daemons : daemon[s] \in Live => file = s
  /\ file \in Daemons => daemon[file] \in Live \cup {"killed"}

\* Lines are processed once, in the order they were written, and none behind "quit" (main).
LinesInOrder ==
  \A s \in Daemons :
    /\ handled[s] \o pipes[s] = wrote[s]
    /\ \A i \in DOMAIN handled[s] :
         handled[s][i] \in Quitters =>
           i = Len(handled[s]) /\ daemon[s] \in {"quitting", "ended", "killed"}

FifoSafe == TypeOK /\ NameRight /\ LinesInOrder

\* A client waits for ever only at the FIFO of a server that was killed (main).
WritersProceed ==
  \A s \in Daemons : Waiting(s) # {} ~> (Waiting(s) = {} \/ daemon[s] = "killed")

\* The line "quit" ends the server (main).
QuitEnds ==
  \A s \in Daemons :
    (\E i \in DOMAIN pipes[s] : pipes[s][i] \in Quitters) ~> daemon[s] \in {"ended", "killed"}
=============================================================================
