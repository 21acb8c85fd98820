--------------------------- MODULE SubprocessDialog ---------------------------
(***************************************************************************)
(* The dialog of src/subprocess_io: main() of subprocess_io.cpp talks to   *)
(* app.cpp through two pipes, with expect, write, read, purge and wait_pid *)
(* of the class Subprocess.  Each text the child prints is a number of     *)
(* cells long; read() takes up to BufSize cells at a time.                 *)
(***************************************************************************)
EXTENDS Naturals, Sequences

CONSTANTS
  BufSize,      \* the buffer of read()
  Capacity,     \* the pipe from the child
  Lengths,      \* the lengths that a text may have
  MaxErrors     \* bound: calls of select() and read() that fail

Texts == {"Usage", "Prompt", "AskText", "Answer", "Exiting"}

\* What the model needs of them: a text fits into the pipe
BufAssumption ==
  BufSize \in Nat \ {0} /\ Capacity \in Nat /\ Lengths \subseteq 1 .. Capacity /\ MaxErrors \in Nat

VARIABLES
  length,                \* of each text
  output, input,         \* the two pipes: ChildOut to ChildIn, ParentOut to ParentIn
  child,                 \* where the child is
  step, at,              \* the call of main() that runs, and where it is
  out, bytes,            \* the string that is read, the bytes of this read() so far
  status,                \* the result of the last read() or expect()
  purged, errors         \* history: purge() has read something; how many calls have failed

pipeVars == <<output, input>>
parentVars == <<step, at, out, bytes, status, purged, errors>>
vars == <<length, pipeVars, child, parentVars>>

\* main(), from line 296 on; a call that fails ends it if it is an expect
Main == << [op |-> "expect", text |-> "Prompt"], [op |-> "write", line |-> "in"],
           [op |-> "expect", text |-> "AskText"], [op |-> "write", line |-> "test"],
           [op |-> "purge"], [op |-> "write", line |-> "out"], [op |-> "read"],
           [op |-> "write", line |-> "quit"], [op |-> "read"], [op |-> "wait_pid"] >>

Init ==
  /\ length \in [Texts -> Lengths]
  /\ output = <<>> /\ input = <<>>
  /\ child = "usage"
  /\ step = 1 /\ at = "call"
  /\ out = <<>> /\ bytes = 0 /\ status = "Ok" /\ purged = FALSE /\ errors = 0

-----------------------------------------------------------------------------
(* The child: app.cpp *)

Cells(text) == [i \in 1 .. length[text] |-> <<text, i>>]

\* What the child prints where, and where it is then
Saying == [usage |-> "Usage", prompt |-> "Prompt", in |-> "AskText", out |-> "Answer",
           quit |-> "Exiting"]
After == [usage |-> "prompt", prompt |-> "command", in |-> "text", out |-> "prompt",
          quit |-> "exited"]

\* A text is written as a whole, once there is room for it
ChildPrints ==
  /\ child \in DOMAIN Saying
  /\ Len(output) + length[Saying[child]] <= Capacity
  /\ output' = output \o Cells(Saying[child])
  /\ child' = After[child]
  /\ UNCHANGED <<length, input, parentVars>>

Commands == {"in", "out", "quit"}

\* A line, as a command or as the text for the command "in"; what is no command gets the usage
ChildReads ==
  /\ child \in {"command", "text"} /\ input # <<>>
  /\ input' = Tail(input)
  /\ child' = IF child = "text" THEN "prompt"
              ELSE IF Head(input) \in Commands THEN Head(input) ELSE "usage"
  /\ UNCHANGED <<length, output, parentVars>>

\* PR_SET_PDEATHSIG: the child dies with its parent
ChildKilled ==
  /\ at = "done" /\ child # "exited"
  /\ child' = "exited"
  /\ UNCHANGED <<length, pipeVars, parentVars>>

Child == ChildPrints \/ ChildReads \/ ChildKilled

-----------------------------------------------------------------------------
(* The parent *)

Call == Main[step]
Reading == Call.op \in {"read", "expect", "purge"}

\* The next call of main(), with an empty string; after the last one main() returns
NextCall ==
  /\ step' = IF step = Len(Main) THEN step ELSE step + 1
  /\ at' = IF step = Len(Main) THEN "done" ELSE "call"
  /\ out' = <<>> /\ bytes' = 0

\* The ends of read(): main() gives up when an expect fails
ReadEnds(s) ==
  /\ status' = s
  /\ IF Call.op = "expect" /\ s # "Ok"
       THEN at' = "done" /\ UNCHANGED <<step, out, bytes>>
       ELSE NextCall

\* select() finds the pipe readable: there is something in it, or the child has closed it
Select ==
  /\ at = "call" /\ Reading
  /\ output # <<>> \/ child = "exited"
  /\ at' = "read" /\ bytes' = 0
  /\ UNCHANGED <<length, pipeVars, child, step, out, status, purged, errors>>

Timeout ==
  /\ at = "call" /\ Reading
  /\ output = <<>> /\ child # "exited"
  /\ ReadEnds("Timeout")
  /\ UNCHANGED <<length, pipeVars, child, purged, errors>>

\* select() fails; or read() does, and the switch goes on from Failed to Closed, whatever has
\* been read and whether the child lives
Fails ==
  /\ errors < MaxErrors /\ errors' = errors + 1
  /\ \/ at = "call" /\ Reading /\ ReadEnds("Failed")
     \/ at = "read" /\ ReadEnds("Closed")
  /\ UNCHANGED <<length, pipeVars, child, purged>>

Contains(s, text) ==
  \E i \in 0 .. Len(s) - length[text] : SubSeq(s, i + 1, i + length[text]) = Cells(text)

Chunk == SubSeq(output, 1, IF Len(output) < BufSize THEN Len(output) ELSE BufSize)

\* Mutant of AfterChunk: a full buffer ends read() as well
AfterChunkOnce(chunk) ==
  IF Call.op = "expect" /\ ~Contains(out \o chunk, Call.text)
    THEN at' = "call" /\ out' = out \o chunk /\ bytes' = 0 /\ status' = "Ok" /\ UNCHANGED step
  ELSE ReadEnds("Ok")

\* A short read ends the loop; expect() reads again until its text is there, and forgets
\* what comes behind it
AfterChunk(chunk) ==
  IF Len(chunk) = BufSize
    THEN /\ out' = out \o chunk /\ bytes' = bytes + Len(chunk)
         /\ UNCHANGED <<step, at, status>>
  ELSE IF Call.op = "expect" /\ ~Contains(out \o chunk, Call.text)
    THEN at' = "call" /\ out' = out \o chunk /\ bytes' = 0 /\ status' = "Ok" /\ UNCHANGED step
  ELSE ReadEnds("Ok")

ReadSome ==
  /\ at = "read" /\ output # <<>>
  /\ output' = SubSeq(output, Len(Chunk) + 1, Len(output))
  /\ purged' = (purged \/ Call.op = "purge")
  /\ AfterChunk(Chunk)
  /\ UNCHANGED <<length, input, child, errors>>

\* Mutant of ReadNothing: the end of the output is waited over
ReadNothingRetrying ==
  /\ at = "read" /\ output = <<>> /\ child = "exited"
  /\ UNCHANGED vars

\* The end of the child's output
ReadNothing ==
  /\ at = "read" /\ output = <<>> /\ child = "exited"
  /\ ReadEnds("Closed")
  /\ UNCHANGED <<length, pipeVars, child, purged, errors>>

\* main() does not look at the result of write()
Write ==
  /\ at = "call" /\ Call.op = "write"
  /\ input' = IF child = "exited" THEN input ELSE Append(input, Call.line)
  /\ NextCall
  /\ UNCHANGED <<length, output, child, status, purged, errors>>

WaitPid ==
  /\ at = "call" /\ Call.op = "wait_pid" /\ child = "exited"
  /\ NextCall
  /\ UNCHANGED <<length, pipeVars, child, status, purged, errors>>

Parent == Select \/ Timeout \/ ReadSome \/ ReadNothing \/ Write \/ WaitPid

Next == Child \/ Parent \/ Fails

Spec == Init /\ [][Next]_vars

\* Both processes run; a timeout comes in the end, a failure need not
FairSpec == Spec /\ WF_vars(Child) /\ WF_vars(Parent)

-----------------------------------------------------------------------------
(* Properties *)

TypeOK ==
  /\ length \in [Texts -> Lengths]
  /\ Len(output) <= Capacity
  /\ child \in Commands \cup {"usage", "prompt", "command", "text", "exited"}
  /\ step \in DOMAIN Main /\ at \in {"call", "read", "done"}
  /\ at = "call" /\ Call.op # "expect" => out = <<>>
  /\ status \in {"Ok", "Timeout", "Failed", "Closed"} /\ purged \in BOOLEAN
  /\ errors \in 0 .. MaxErrors

\* At each call of main(): where the child may be, the lines it has not read, and what it has
\* said and main() has not used yet
Stages ==
  << {<<"usage", <<>>, <<>>>>, <<"prompt", <<>>, Cells("Usage")>>,
      <<"command", <<>>, Cells("Usage") \o Cells("Prompt")>>},
     {<<"command", <<>>, <<>>>>},
     {<<"command", <<"in">>, <<>>>>, <<"in", <<>>, <<>>>>, <<"text", <<>>, Cells("AskText")>>},
     {<<"text", <<>>, <<>>>>},
     {<<"text", <<"test">>, <<>>>>, <<"prompt", <<>>, <<>>>>,
      <<"command", <<>>, Cells("Prompt")>>},
     {<<"command", <<>>, <<>>>>},
     {<<"command", <<"out">>, <<>>>>, <<"out", <<>>, <<>>>>, <<"prompt", <<>>, Cells("Answer")>>,
      <<"command", <<>>, Cells("Answer") \o Cells("Prompt")>>} >>

\* However texts are cut into buffers, main() and the child keep in step until the answer is
\* read: when main() sends a line, the child waits for that line and has nothing left to say;
\* nothing is lost or read twice. Only a purge() that comes before the prompt, or a failing
\* call in it, brings them out of step (expect, read, purge).
InStep ==
  at # "done" /\ step <= 7 /\ (step > 5 => purged /\ errors = 0) =>
    <<child, input, out \o output>> \in Stages[step]

\* The string that read() gives back after the command "out" has the whole answer, provided
\* that purge() was in time to read the prompt before and no call has failed (main, read).
AnswerRead ==
  [][ step = 7 /\ step' = 8 /\ status' = "Ok" /\ purged /\ errors = 0 =>
        Contains(out \o Chunk, "Answer") ]_vars

\* read() has filled its buffer, once or several times, and reads on without a timeout while
\* the child waits for a line.
FullBuffer ==
  /\ at = "read" /\ bytes > 0 /\ output = <<>>
  /\ child \in {"command", "text"} /\ input = <<>>

\* wait_pid() waits for a child that waits for room in the pipe.
FullPipe ==
  /\ at = "call" /\ Call.op = "wait_pid"
  /\ child \in DOMAIN Saying /\ Len(output) + length[Saying[child]] > Capacity

\* main() returns, after all calls or a failed expect(), and the child goes with it: only an
\* output of whole buffers and one that nobody reads make parent and child wait for each
\* other (read, wait_pid).
DialogEnds == <>(at = "done" /\ child = "exited") \/ <>[]FullBuffer \/ <>[]FullPipe
=============================================================================
