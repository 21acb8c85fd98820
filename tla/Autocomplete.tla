----------------------------- MODULE Autocomplete -----------------------------
(***************************************************************************)
(* The completion of src/autocomplete/autocomplete.cpp: build() makes a    *)
(* tree of arguments (module ElementTree), then COMP_LINE holds what was   *)
(* typed so far and the options for its last word are printed.             *)
(***************************************************************************)
EXTENDS ElementTree

CONSTANTS
  Space,
  Program,     \* the name of the program, the first word of a line
  MaxTyped     \* bound: letters and spaces typed after it

VARIABLES
  line,        \* COMP_LINE, empty while build() is at work
  options      \* what autocomplete() has printed for it

acVars == <<vars, line, options>>

Letters == UNION {{n[i] : i \in DOMAIN n} : n \in Names}

\* The line from its second word on, with the spaces at the end
Arguments(s) ==
  LET spaces == {i \in DOMAIN s : s[i] = Space}
      first == CHOOSE i \in spaces : \A j \in spaces : i <= j
      rest == {i \in DOMAIN s : spaces # {} /\ i > first /\ s[i] # Space}
      start == CHOOSE i \in rest : \A j \in rest : i <= j
  IN  IF rest = {} THEN <<>> ELSE SubSeq(s, start, Len(s))

LastSpace(s) == LET spaces == {i \in DOMAIN s : s[i] = Space} IN
                IF spaces = {} THEN 0 ELSE CHOOSE i \in spaces : \A j \in spaces : j <= i

\* What stands before and after the last space
CompleteArgs(s) == SubSeq(s, 1, LastSpace(s) - 1)
PendingArg(s) == SubSeq(s, LastSpace(s) + 1, Len(s))

\* Mutant of ArgPath: the word that is being typed is taken for a complete one
ArgPathWhole(s) == Joined(Items(s, Space))

ArgPath(s) == Joined(Items(CompleteArgs(s), Space))

\* The names below the path that begin with the pending argument
OptionsOf(s) ==
  LET e == Get(Root, ArgPath(s)) IN
  IF e = NoElement THEN <<>>
  ELSE SelectSeq([i \in DOMAIN InOrder(children[e]) |-> name[InOrder(children[e])[i]]],
                 LAMBDA n : IsPrefix(PendingArg(s), n))

ACInit == Init /\ line = <<>> /\ options = <<>>

Build ==
  /\ line = <<>>
  /\ Next
  /\ UNCHANGED <<line, options>>

\* One more letter or space, and the completion of the line
Type(text) ==
  /\ line' = line \o text
  /\ options' = OptionsOf(Arguments(line'))
  /\ UNCHANGED vars

ACNext ==
  \/ Build
  \/ line = <<>> /\ Len(name) = MaxElements /\ Type(Program)
  \/ \E c \in Letters \cup {Space} :
       /\ Len(line) \in Len(Program) .. Len(Program) + MaxTyped - 1
       /\ line # <<>>
       /\ Type(<<c>>)

ACSpec == ACInit /\ [][ACNext]_acVars

-----------------------------------------------------------------------------
(* Properties *)

ACTypeOK ==
  /\ TypeOK
  /\ line \in Seq(Letters \cup {Space})
  /\ options \in Seq(Names)

\* The options are the names that continue the last word of the line, which is empty after
\* a space, below the words before it; a word that is no argument has none.
CompletesLastWord ==
  LET words == Tail(Items(line, Space))
      typing == words # <<>> /\ Last(line) # Space
      before == IF typing THEN Front(words) ELSE words
      last == IF typing THEN Last(words) ELSE <<>>
      Under == {e \in Elements : Path(e) = before}
      wanted == {name[c] : c \in {c \in UNION {children[e] : e \in Under} : IsPrefix(last, name[c])}}
  IN
  line # <<>> => options = SetToSortSeq(wanted, Before)
=============================================================================
