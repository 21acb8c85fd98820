------------------------------- MODULE AvlNode -------------------------------
(***************************************************************************)
(* The nodes of the AVL tree of src/data_structures/AVL/avl.cpp.  A node   *)
(* is a record with its branches in it; Null is the empty pointer, of      *)
(* depth 0.  What the code does by recursion are recursive functions.      *)
(***************************************************************************)
EXTENDS Integers

CONSTANTS
  Values,      \* numbers
  MaxNodes     \* bound: levels of a tree

Null == [depth |-> 0]
NewNode(v) == [value |-> v, depth |-> 1, ref |-> 1, left |-> Null, right |-> Null]

\* The branches of at most MaxNodes levels
Tree ==
  LET trees[h \in 0 .. MaxNodes] ==
        {Null} \cup
          IF h = 0 THEN {}
          ELSE [value : Int, depth : Nat, ref : Nat, left : trees[h - 1], right : trees[h - 1]]
  IN  trees[MaxNodes]

-----------------------------------------------------------------------------
(* Node *)

MaxDepth(n) == IF n.left.depth > n.right.depth THEN n.left.depth ELSE n.right.depth

\* A node whose depth is brought up to date
Deepened(n) == [n EXCEPT !.depth = MaxDepth(n) + 1]

RotateLeft(n) ==
  Deepened([n.right EXCEPT !.left = Deepened([n EXCEPT !.right = n.right.left])])

RotateRight(n) ==
  Deepened([n.left EXCEPT !.right = Deepened([n EXCEPT !.left = n.left.right])])

Balance(n) == n.left.depth - n.right.depth

\* The end of both insert and remove: the two differ in how they choose a double rotation
Rebalanced(n, leftBends, rightBends) ==
  IF Balance(n) > 1
    THEN RotateRight(IF leftBends THEN [n EXCEPT !.left = RotateLeft(@)] ELSE n)
  ELSE IF Balance(n) < -1
    THEN RotateLeft(IF rightBends THEN [n EXCEPT !.right = RotateRight(@)] ELSE n)
  ELSE n

NodeInsert(n, v) ==
  LET insert[t \in Tree] ==
        LET m == Deepened(IF v < t.value THEN [t EXCEPT !.left = insert[@]]
                                         ELSE [t EXCEPT !.right = insert[@]])
        IN
        IF t = Null THEN NewNode(v)
        ELSE IF v = t.value THEN [t EXCEPT !.ref = @ + 1]
        ELSE Rebalanced(m, m.left # Null /\ v > m.left.value, m.right # Null /\ v < m.right.value)
  IN  insert[n]

MinNode(n) ==
  LET min[t \in Tree \ {Null}] == IF t.left = Null THEN t ELSE min[t.left] IN min[n]

\* A branch from which something was removed
AfterRemoval(m) ==
  Rebalanced(m, m.left # Null /\ Balance(m.left) < 0, m.right # Null /\ Balance(m.right) > 0)

\* Mutant of Replaced: the node of the removed value stays, for the least one of its branch
ReplacedKeeping(n, rest) ==
  IF n.left = Null /\ n.right = Null THEN Null
  ELSE IF n.left = Null \/ n.right = Null
    THEN AfterRemoval(Deepened(IF n.left # Null THEN n.left ELSE n.right))
  ELSE AfterRemoval(Deepened([n EXCEPT !.right = rest]))

\* What takes the place of a node; rest is its right branch without the least node
Replaced(n, rest) ==
  IF n.left = Null /\ n.right = Null THEN Null
  ELSE IF n.left = Null \/ n.right = Null
    THEN AfterRemoval(Deepened(IF n.left # Null THEN n.left ELSE n.right))
  ELSE AfterRemoval(Deepened([MinNode(n.right) EXCEPT !.left = n.left, !.right = rest]))

\* The branch n without the node of v; with counted, without one occurrence of v
NodeRemove(n, v, counted) ==
  LET remove[t \in Tree] == [w \in Values |-> [ref \in BOOLEAN |->
        IF t = Null THEN Null
        ELSE IF w < t.value
          THEN AfterRemoval(Deepened([t EXCEPT !.left = remove[@][w][ref]]))
        ELSE IF w > t.value
          THEN AfterRemoval(Deepened([t EXCEPT !.right = remove[@][w][ref]]))
        ELSE IF ref /\ t.ref > 1 THEN [t EXCEPT !.ref = @ - 1]
        ELSE Replaced(t, remove[t.right][MinNode(t.right).value][FALSE])]]
  IN  remove[n][v][counted]

\* The occurrences of v in the branch n
Find(n, v) ==
  LET find[t \in Tree] ==
        IF t = Null THEN 0
        ELSE IF v < t.value THEN find[t.left]
        ELSE IF t.value < v THEN find[t.right]
        ELSE t.ref
  IN  find[n]

\* A branch and all that is in it
Branches(n) ==
  LET within[t \in Tree] == IF t = Null THEN {} ELSE {t} \cup within[t.left] \cup within[t.right]
  IN  within[n]

\* How often insert() was called for what is in a branch
Occurrences(n) ==
  LET sum[t \in Tree] == IF t = Null THEN 0 ELSE sum[t.left] + t.ref + sum[t.right] IN sum[n]
=============================================================================
