----------------------------- MODULE MessageQueue -----------------------------
(***************************************************************************)
(* src/ipc/message_queue/mq_test.cpp: a process forks; the parent makes a  *)
(* queue and sends, the child opens it by name and receives, both with     *)
(* timeouts.  The program is started again when the parent of the last     *)
(* start has ended or was killed, whatever its child still does.           *)
(***************************************************************************)
EXTENDS Naturals, Sequences

CONSTANTS
  Starts,             \* bound: how often the program is started
  Sends, Receives,    \* the rounds of the two loops
  MaxMsg              \* mq_maxmsg

QueueAssumption == {Starts, Sends, Receives, MaxMsg} \subseteq Nat \ {0}

Runs == 1 .. Starts
NoQueue == 0

VARIABLES
  mq_name,            \* the queue that the name refers to, by the run that made it
  queue,              \* the messages of each queue: who sent them, and the how manieth
  parent, reader,     \* where the processes of a run are
  out_fd, in_fd,      \* the queues they have open
  sent, tries,        \* the rounds so far
  taken,              \* history: what the child has received
  lost                \* history: the messages of a run that found the queue full

parentVars == <<parent, out_fd, sent, lost>>
readerVars == <<reader, in_fd, tries, taken>>
queueVars == <<mq_name, queue, parentVars, readerVars>>

Init ==
  /\ mq_name = NoQueue /\ queue = [r \in Runs |-> <<>>]
  /\ parent = [r \in Runs |-> "off"] /\ reader = [r \in Runs |-> "off"]
  /\ out_fd = [r \in Runs |-> NoQueue] /\ in_fd = [r \in Runs |-> NoQueue]
  /\ sent = [r \in Runs |-> 0] /\ tries = [r \in Runs |-> 0]
  /\ taken = [r \in Runs |-> <<>>] /\ lost = {}

Over(r) == parent[r] \in {"ended", "killed"}

Fork(r) ==
  /\ parent[r] = "off" /\ (r > 1 => Over(r - 1))
  /\ parent' = [parent EXCEPT ![r] = "open"]
  /\ reader' = [reader EXCEPT ![r] = "open"]
  /\ UNCHANGED <<mq_name, queue, out_fd, sent, lost, in_fd, tries, taken>>

-----------------------------------------------------------------------------
(* The parent *)

\* A queue that is there is taken as it is
ParentOpens(r) ==
  /\ parent[r] = "open"
  /\ mq_name' = IF mq_name = NoQueue THEN r ELSE mq_name
  /\ out_fd' = [out_fd EXCEPT ![r] = mq_name']
  /\ parent' = [parent EXCEPT ![r] = "send"]
  /\ UNCHANGED <<queue, sent, lost, readerVars>>

\* A message that finds the queue full for a second is gone
TimedSend(r) ==
  LET q == out_fd[r]  m == [run |-> r, num |-> sent[r] + 1] IN
  /\ parent[r] = "send" /\ sent[r] < Sends
  /\ sent' = [sent EXCEPT ![r] = @ + 1]
  /\ \/ /\ Len(queue[q]) < MaxMsg
        /\ queue' = [queue EXCEPT ![q] = Append(@, m)]
        /\ UNCHANGED lost
     \/ /\ Len(queue[q]) = MaxMsg
        /\ lost' = lost \cup {m}
        /\ UNCHANGED queue
  /\ UNCHANGED <<mq_name, parent, out_fd, readerVars>>

\* Mutant of ParentEnds: the name stays
ParentEndsKeeping(r) ==
  /\ parent[r] = "send" /\ sent[r] = Sends
  /\ parent' = [parent EXCEPT ![r] = "ended"]
  /\ UNCHANGED <<mq_name, queue, out_fd, sent, lost, readerVars>>

\* mq_unlink: who has the queue open keeps it
ParentEnds(r) ==
  /\ parent[r] = "send" /\ sent[r] = Sends
  /\ mq_name' = NoQueue
  /\ parent' = [parent EXCEPT ![r] = "ended"]
  /\ UNCHANGED <<queue, out_fd, sent, lost, readerVars>>

\* A signal kills the parent, and the child with it if it comes from the terminal
Killed(r) ==
  /\ parent[r] \in {"open", "send"}
  /\ parent' = [parent EXCEPT ![r] = "killed"]
  /\ reader' \in {reader, [reader EXCEPT ![r] = "ended"]}
  /\ UNCHANGED <<mq_name, queue, out_fd, sent, lost, in_fd, tries, taken>>

-----------------------------------------------------------------------------
(* The child *)

\* Without a queue of that name the child gives up
ReaderOpens(r) ==
  /\ reader[r] = "open"
  /\ reader' = [reader EXCEPT ![r] = IF mq_name = NoQueue THEN "ended" ELSE "receive"]
  /\ in_fd' = [in_fd EXCEPT ![r] = mq_name]
  /\ UNCHANGED <<mq_name, queue, parentVars, tries, taken>>

\* A round ends with a message, or with a timeout if there is none
TimedReceive(r) ==
  LET q == in_fd[r] IN
  /\ reader[r] = "receive"
  /\ tries' = [tries EXCEPT ![r] = @ + 1]
  /\ reader' = [reader EXCEPT ![r] = IF tries'[r] = Receives THEN "ended" ELSE @]
  /\ \/ /\ queue[q] # <<>>
        /\ taken' = [taken EXCEPT ![r] = Append(@, Head(queue[q]))]
        /\ queue' = [queue EXCEPT ![q] = Tail(@)]
     \/ /\ queue[q] = <<>>
        /\ UNCHANGED <<taken, queue>>
  /\ UNCHANGED <<mq_name, parentVars, in_fd>>

Next ==
  \E r \in Runs : \/ Fork(r) \/ ParentOpens(r) \/ TimedSend(r) \/ ParentEnds(r) \/ Killed(r)
                  \/ ReaderOpens(r) \/ TimedReceive(r)

-----------------------------------------------------------------------------
(* Properties *)

TypeOK ==
  /\ mq_name \in Runs \cup {NoQueue}
  /\ \A r \in Runs : /\ Len(queue[r]) <= MaxMsg
                     /\ sent[r] <= Sends /\ tries[r] <= Receives
  /\ parent \in [Runs -> {"off", "open", "send", "ended", "killed"}]
  /\ reader \in [Runs -> {"off", "open", "receive", "ended"}]

Before(m, n) == m.run < n.run \/ (m.run = n.run /\ m.num < n.num)
KilledBefore(r) == \E k \in 1 .. r - 1 : parent[k] = "killed"

\* The child was so late that its own parent had unlinked the name: it opened the next one's.
Late(r) == in_fd[r] > r

\* A message is delivered to one child at most, in the order of sending; and a start of the
\* program meets nothing of another one, neither its messages nor a queue that they have
\* filled, unless a parent was killed before it could unlink the name, or a child opens the
\* name only when its parent has ended (mq_open, mq_timedsend, mq_timedreceive, mq_unlink).
DeliveredRight ==
  /\ TypeOK
  /\ \A r \in Runs : \A i, j \in DOMAIN taken[r] : i < j => Before(taken[r][i], taken[r][j])
  /\ \A r, s \in Runs : \A i \in DOMAIN taken[r], j \in DOMAIN taken[s] :
       taken[r][i] = taken[s][j] => r = s /\ i = j
  /\ \A r \in Runs : \A i \in DOMAIN taken[r] :
       LET m == taken[r][i] IN
       \/ m.run = r
       \/ m.run < r /\ parent[m.run] = "killed"
       \/ m.run > r /\ (Late(r) \/ KilledBefore(m.run))
  /\ Sends <= MaxMsg => \A m \in lost : KilledBefore(m.run)
=============================================================================
