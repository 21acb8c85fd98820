----------------------------- MODULE ElementTree -----------------------------
(***************************************************************************)
(* The tree of named elements of src/data_structures/tree/tree.cpp, which  *)
(* src/autocomplete/autocomplete.cpp has as well.  Elements are numbered   *)
(* in the order they are made; their addresses stay as they are, because a *)
(* std::set does not move its members.  The root, element 1, has no name.  *)
(*                                                                         *)
(* A name is a sequence of letters, which are numbers; a path is a         *)
(* sequence of letters and of Slash.                                       *)
(***************************************************************************)
EXTENDS Naturals, Sequences, SequencesExt, FiniteSets

CONSTANTS
  Names,         \* the names, none of them empty and none with a Slash in it
  Slash,
  MaxElements    \* bound: elements

VARIABLES name, backlink_, children
vars == <<name, backlink_, children>>

Elements == DOMAIN name
Root == 1
NoElement == 0

Init == name = << <<>> >> /\ backlink_ = <<NoElement>> /\ children = << {} >>

-----------------------------------------------------------------------------

Before(a, b) ==
  \E k \in 0 .. Len(a) :
    /\ k < Len(b) /\ SubSeq(a, 1, k) = SubSeq(b, 1, k)
    /\ k = Len(a) \/ a[k + 1] < b[k + 1]

\* Elements in the order of std::set
InOrder(S) == SetToSortSeq(S, LAMBDA e, f : Before(name[e], name[f]))

\* add(), with one name or several: names that are there already stay as they are
Add(e, ns) ==
  LET new == SetToSortSeq(ns \ {name[c] : c \in children[e]}, Before)
      added == Len(name) + 1 .. Len(name) + Len(new)
  IN
  /\ Len(name) + Len(new) <= MaxElements
  /\ name' = name \o new
  /\ backlink_' = backlink_ \o [i \in DOMAIN new |-> e]
  /\ children' = [children EXCEPT ![e] = @ \cup added] \o [i \in DOMAIN new |-> {}]

\* What getline finds between separators, without the empty items
RECURSIVE Items(_, _)
Items(s, separator) ==
  IF s = <<>> THEN <<>>
  ELSE IF Head(s) = separator THEN Items(Tail(s), separator)
  ELSE LET k == CHOOSE k \in DOMAIN s : /\ k = Len(s) \/ s[k + 1] = separator
                                        /\ \A i \in 1 .. k : s[i] # separator
       IN  <<SubSeq(s, 1, k)>> \o Items(SubSeq(s, k + 1, Len(s)), separator)

Child(e, n) ==
  IF \E c \in children[e] : name[c] = n
    THEN CHOOSE c \in children[e] : name[c] = n ELSE NoElement

Get(e, path) ==
  FoldLeft(LAMBDA ptr, n : IF ptr = NoElement THEN NoElement ELSE Child(ptr, n),
           e, Items(path, Slash))

\* path(): the names from the root, which is left out, to e
RECURSIVE Path(_)
Path(e) == IF backlink_[e] = NoElement THEN <<>> ELSE Append(Path(backlink_[e]), name[e])

Visit(e, depth) == [element |-> e, depth |-> depth]
Separator == NoElement

\* Mutant of DfsLoop: the depth is not taken back
RECURSIVE DfsLoopDeeper(_, _, _)
DfsLoopDeeper(stack, depth, limit) ==
  IF stack = <<>> THEN <<>>
  ELSE IF Head(stack) = Separator THEN DfsLoopDeeper(Tail(stack), depth, limit)
  ELSE IF limit = 1 THEN <<Visit(Head(stack), depth)>>
  ELSE <<Visit(Head(stack), depth)>> \o
       IF children[Head(stack)] = {} THEN DfsLoopDeeper(Tail(stack), depth, limit - 1)
       ELSE DfsLoopDeeper(InOrder(children[Head(stack)]) \o <<Separator>> \o Tail(stack),
                          depth + 1, limit - 1)

\* The loop of dfs(): a stack of elements and separators. The callback ends it at its visit
\* number limit.
RECURSIVE DfsLoop(_, _, _)
DfsLoop(stack, depth, limit) ==
  IF stack = <<>> THEN <<>>
  ELSE IF Head(stack) = Separator THEN DfsLoop(Tail(stack), depth - 1, limit)
  ELSE IF limit = 1 THEN <<Visit(Head(stack), depth)>>
  ELSE <<Visit(Head(stack), depth)>> \o
       IF children[Head(stack)] = {} THEN DfsLoop(Tail(stack), depth, limit - 1)
       ELSE DfsLoop(InOrder(children[Head(stack)]) \o <<Separator>> \o Tail(stack),
                    depth + 1, limit - 1)

\* The loop of bfs(): a queue of the elements of a level, a separator and the next level
RECURSIVE BfsLoop(_, _, _)
BfsLoop(queue, depth, limit) ==
  IF queue = <<Separator>> THEN <<>>
  ELSE IF Head(queue) = Separator
    THEN BfsLoop(Append(Tail(queue), Separator), depth + 1, limit)
  ELSE IF limit = 1 THEN <<Visit(Head(queue), depth)>>
  ELSE <<Visit(Head(queue), depth)>>
       \o BfsLoop(Tail(queue) \o InOrder(children[Head(queue)]), depth, limit - 1)

\* Both visit an element that has a name before its children
Dfs(e, limit) ==
  IF name[e] = <<>> THEN DfsLoop(InOrder(children[e]) \o <<Separator>>, 0, limit)
  ELSE IF limit = 1 THEN <<Visit(e, 0)>>
  ELSE <<Visit(e, 0)>> \o DfsLoop(InOrder(children[e]) \o <<Separator>>, 1, limit - 1)

Bfs(e, limit) ==
  IF name[e] = <<>> THEN BfsLoop(InOrder(children[e]) \o <<Separator>>, 0, limit)
  ELSE IF limit = 1 THEN <<Visit(e, 0)>>
  ELSE <<Visit(e, 0)>> \o BfsLoop(InOrder(children[e]) \o <<Separator>>, 1, limit - 1)

Next == \E e \in Elements, ns \in SUBSET Names : ns # {} /\ Add(e, ns)

Spec == Init /\ [][Next]_vars

-----------------------------------------------------------------------------
(* Properties *)

TypeOK ==
  /\ name \in Seq(Names \cup {<<>>})
  /\ Len(name) <= MaxElements /\ DOMAIN backlink_ = Elements /\ DOMAIN children = Elements
  /\ \A e \in Elements : backlink_[e] \in Elements \cup {NoElement} /\ children[e] \subseteq Elements

Joined(names) == FoldLeft(LAMBDA path, n : path \o <<Slash>> \o n, <<>>, names)

\* get() leads back to every element along its path(), and parent() to the element that
\* has it among its children: two pointers, kept apart, tell the same tree (add, get, path).
PathsResolve ==
  \A e \in Elements :
    /\ Get(Root, Joined(Path(e))) = e
    /\ e # Root => e \in children[backlink_[e]]

\* The elements below e with their distance, by recursion
RECURSIVE Below(_, _)
Below(e, d) ==
  FoldLeft(LAMBDA visits, c : visits \o <<Visit(c, d)>> \o Below(c, d + 1), <<>>,
           InOrder(children[e]))

\* dfs() visits what is below an element, each before its children, and bfs() visits the
\* same by levels; both know the depth, and both stop when the callback says so.
TraversalsRight ==
  \A e \in Elements, limit \in 1 .. MaxElements :
    LET d == IF name[e] = <<>> THEN 0 ELSE 1
        all == (IF d = 0 THEN <<>> ELSE <<Visit(e, 0)>>) \o Below(e, d)
        levels == [k \in 0 .. MaxElements |-> SelectSeq(all, LAMBDA v : v.depth = k)]
        cut(visits) == SubSeq(visits, 1, IF limit < Len(visits) THEN limit ELSE Len(visits))
    IN
    /\ Dfs(e, limit) = cut(all)
    /\ Bfs(e, limit) = cut(FlattenSeq([k \in 1 .. MaxElements + 1 |-> levels[k - 1]]))
=============================================================================
