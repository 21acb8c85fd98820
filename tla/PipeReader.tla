------------------------------ MODULE PipeReader ------------------------------
(***************************************************************************)
(* src/ipc/pipe/pipe.cpp: a thread writes letters into a pipe, one by one; *)
(* the other one polls, reads as many letters as there are, and stops      *)
(* when what it has read begins with the last letter.                      *)
(***************************************************************************)
EXTENDS Naturals, Sequences

CONSTANTS
  Letters,            \* how many letters are written; they are numbers here
  BufLen              \* of the buffer

PipeAssumption == {Letters, BufLen} \subseteq Nat \ {0}

VARIABLES
  pipe,               \* letters on their way
  next,               \* the letter that comes next
  buf,                \* the letters of the last read()
  loop,               \* where the reader is
  shown               \* history: all that was printed

pipeReaderVars == <<pipe, next, buf, loop, shown>>

Init == pipe = <<>> /\ next = 1 /\ buf = <<>> /\ loop = "poll" /\ shown = <<>>

\* The end of the thread is the end of its loop
WriteLetter ==
  /\ next <= Letters
  /\ pipe' = Append(pipe, next)
  /\ next' = next + 1
  /\ UNCHANGED <<buf, loop, shown>>

\* After three seconds without a letter poll() is called again
Poll ==
  /\ loop = "poll" /\ pipe # <<>>
  /\ loop' = "read"
  /\ UNCHANGED <<pipe, next, buf, shown>>

Taken == SubSeq(pipe, 1, IF Len(pipe) < BufLen THEN Len(pipe) ELSE BufLen)

\* The test for the last letter
Stops(chunk) == chunk[1] = Letters

Read ==
  /\ loop = "read"
  /\ buf' = Taken
  /\ pipe' = SubSeq(pipe, Len(Taken) + 1, Len(pipe))
  /\ shown' = shown \o Taken
  /\ loop' = IF Stops(Taken) THEN "join" ELSE "poll"
  /\ UNCHANGED next

\* main() waits for the thread
Join ==
  /\ loop = "join" /\ next > Letters
  /\ loop' = "done"
  /\ UNCHANGED <<pipe, next, buf, shown>>

Reader == Poll \/ Read \/ Join

Next == WriteLetter \/ Reader

-----------------------------------------------------------------------------
(* Properties *)

\* The last letter came with others before it.
Joined == buf # <<>> /\ buf[1] # Letters /\ buf[Len(buf)] = Letters

\* Every letter is printed, once and in order, before main() returns (main).
LettersInOrder ==
  /\ shown \o pipe = [i \in 1 .. next - 1 |-> i]
  /\ loop = "done" => Len(shown) = Letters

\* main() does return, unless the last two letters are read together: the test looks at the
\* first letter of what was read, so the loop then polls for ever (main).
LettersEnd == <>(loop = "done") \/ <>[](Joined /\ loop = "poll")
=============================================================================
