------------------------------- MODULE AvlTree -------------------------------
(***************************************************************************)
(* The AVL tree of src/data_structures/AVL/avl.cpp, with its counters.     *)
(* MaxNodes bounds the occurrences in it as well.                          *)
(***************************************************************************)
EXTENDS AvlNode, FiniteSets, Sequences

AvlAssumption == Values \subseteq Int /\ MaxNodes \in Nat \ {0}

VARIABLES
  data_,                 \* the root
  nodes, unique_nodes,   \* the two counters
  cleared                \* history: clear() was called

vars == <<data_, nodes, unique_nodes, cleared>>

-----------------------------------------------------------------------------
(* The tree *)

Init ==
  /\ \/ data_ = Null /\ nodes = 0 /\ unique_nodes = 0
     \/ \E v \in Values : data_ = NewNode(v) /\ nodes = 1 /\ unique_nodes = 1
  /\ cleared = FALSE

Insert(v) ==
  /\ nodes < MaxNodes
  /\ nodes' = nodes + 1
  /\ data_' = IF data_ = Null THEN NewNode(v) ELSE NodeInsert(data_, v)
  /\ unique_nodes' = IF Find(data_, v) = 0 THEN unique_nodes + 1 ELSE unique_nodes
  /\ UNCHANGED cleared

\* remove(): one occurrence; the node goes with the last
Remove(v) ==
  /\ nodes' = IF Find(data_, v) > 0 THEN nodes - 1 ELSE nodes
  /\ data_' = NodeRemove(data_, v, TRUE)
  /\ unique_nodes' = IF Find(data_, v) = 1 THEN unique_nodes - 1 ELSE unique_nodes
  /\ UNCHANGED cleared

\* Mutant of Drop: one occurrence is subtracted
DropOne(v) ==
  /\ nodes' = IF Find(data_, v) > 0 THEN nodes - 1 ELSE nodes
  /\ data_' = NodeRemove(data_, v, FALSE)
  /\ unique_nodes' = IF Find(data_, v) > 0 THEN unique_nodes - 1 ELSE unique_nodes
  /\ UNCHANGED cleared

Drop(v) ==
  /\ nodes' = nodes - Find(data_, v)
  /\ data_' = NodeRemove(data_, v, FALSE)
  /\ unique_nodes' = IF Find(data_, v) > 0 THEN unique_nodes - 1 ELSE unique_nodes
  /\ UNCHANGED cleared

\* clear() leaves the counters alone
Clear ==
  /\ data_' = Null
  /\ cleared' = TRUE
  /\ UNCHANGED <<nodes, unique_nodes>>

Next == Clear \/ \E v \in Values : Insert(v) \/ Remove(v) \/ Drop(v)

Spec == Init /\ [][Next]_vars

-----------------------------------------------------------------------------
(* The traversal *)

\* traverse(): a queue of the nodes of one level, from left to right
Traverse(n) ==
  LET Below(m) == (IF m.left = Null THEN <<>> ELSE <<m.left>>)
                    \o (IF m.right = Null THEN <<>> ELSE <<m.right>>)
      Deeper(queue) ==
        LET next[i \in 0 .. Len(queue)] == IF i = 0 THEN <<>> ELSE next[i - 1] \o Below(queue[i])
        IN  next[Len(queue)]
      visit[queue \in Seq(Tree), d \in Nat] ==
        IF queue = <<>> THEN <<>>
        ELSE [i \in DOMAIN queue |-> [value |-> queue[i].value, depth |-> d, ref |-> queue[i].ref]]
               \o visit[Deeper(queue), d + 1]
  IN  visit[IF n = Null THEN <<>> ELSE <<n>>, 1]

-----------------------------------------------------------------------------
(* Properties *)

TypeOK ==
  /\ data_ = Null \/ DOMAIN data_ = {"value", "depth", "ref", "left", "right"}
  /\ nodes \in 0 .. MaxNodes /\ unique_nodes \in 0 .. nodes /\ cleared \in BOOLEAN

SoundNode(n) ==
  /\ n.value \in Values /\ n.ref > 0
  /\ n.depth = MaxDepth(n) + 1 /\ Balance(n) \in -1 .. 1
  /\ \A l \in Branches(n.left) : l.value < n.value
  /\ \A r \in Branches(n.right) : n.value < r.value

\* After any insertions and removals the tree is ordered, its stored depths are right and no
\* two branches differ by more than one level (insert, remove, rotate_left, rotate_right).
Sound == \A n \in Branches(data_) : SoundNode(n)

\* The tree is a multiset, call by call: insert(v) adds one occurrence of v, remove(v) takes
\* one, drop(v) all, clear() everything, and no rotation and no removal of an inner node
\* loses, doubles or swaps the occurrences of another value (insert, remove, drop, clear, find).
Counting == INSTANCE Multiset WITH count <- [v \in Values |-> Find(data_, v)]
CallsCount ==
  /\ \A v \in Values : /\ Insert(v) => Counting!Insert(v)
                       /\ Remove(v) => Counting!Remove(v)
                       /\ Drop(v) => Counting!Drop(v)
  /\ Clear => Counting!Clear
CountsOccurrences == Counting!Init /\ [][vars' # vars => CallsCount]_vars

Present == {v \in Values : Find(data_, v) > 0}

\* nodes and unique_nodes are the numbers of occurrences and of nodes, until clear() is
\* called, which leaves them as they are.
CountersAccurate ==
  ~cleared => nodes = Occurrences(data_) /\ unique_nodes = Cardinality(Present)

\* The level of the node of v in the branch n
Level(n, v) ==
  LET level[t \in Tree \ {Null}] ==
        IF v = t.value THEN 1 ELSE 1 + level[IF v < t.value THEN t.left ELSE t.right]
  IN  level[n]

\* traverse() visits every node once, level by level and from left to right.
TraversesLevels ==
  LET visits == Traverse(data_) IN
  /\ {visits[i].value : i \in DOMAIN visits} = Present
  /\ \A i \in DOMAIN visits : /\ visits[i].depth = Level(data_, visits[i].value)
                              /\ visits[i].ref = Find(data_, visits[i].value)
  /\ \A i, j \in DOMAIN visits : i < j =>
       \/ visits[i].depth < visits[j].depth
       \/ visits[i].depth = visits[j].depth /\ visits[i].value < visits[j].value
=============================================================================
