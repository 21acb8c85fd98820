------------------------------- MODULE JsonTree -------------------------------
(***************************************************************************)
(* The trees that the class Json of src/cjson++/cjson.hpp edits.  An       *)
(* element is stored as a reference: a second cJSON node that borrows the  *)
(* string, or the list of children, of the first.  What is borrowed lives  *)
(* as long as the entry of the first node in refs_.  A value that owns its *)
(* node has the refs_ of that node's number; other values are used at once.*)
(* The functions of cJSON 1.7.15 are modelled from their use.              *)
(***************************************************************************)
EXTENDS Naturals, Sequences, FiniteSets

CONSTANTS
  MaxCells,     \* bound: nodes at a time
  MaxCalls      \* bound: calls of the program

VARIABLES
  node,       \* memory: at each address a cJSON node, or none
  refs_,      \* of the node at an address: pairs of a node and its reference
  hold,       \* the nodes of the two variables of the program
  causes,     \* history: what may have gone wrong
  crashed,    \* a null pointer was used
  calls       \* how many calls were made

vars == <<node, refs_, hold, causes, crashed, calls>>

Addr == 1 .. MaxCells
Nil == 0
Fresh == MaxCells + 1      \* the refs_ of a value that nobody else has
Keys == {"a", "A", "b"}
Fold == [a |-> "a", A |-> "a", b |-> "b"]

Blank == [kind |-> "free", key |-> "a", child |-> Nil, next |-> Nil, ref |-> FALSE,
          text |-> Nil, from |-> Nil]
Owner(kind, a) == [Blank EXCEPT !.kind = kind, !.text = IF kind = "string" THEN a ELSE Nil]

-----------------------------------------------------------------------------
(* cJSON: memory, lists of children, references *)

\* malloc hands out the k-th free address
Malloc(mem, k) ==
  CHOOSE a \in Addr :
    /\ mem[a].kind = "free"
    /\ Cardinality({b \in 1 .. a : mem[b].kind = "free"}) = k

RECURSIVE Chain(_, _)
Chain(mem, a) ==
  IF a = Nil THEN <<>>
  ELSE IF mem[a].kind = "free" THEN <<a>>
  ELSE <<a>> \o Chain(mem, mem[a].next)

Items(mem, n) == Chain(mem, mem[n].child)
Members(mem, n) == LET items == Items(mem, n) IN {items[i] : i \in DOMAIN items}
First(mem, n, keys) ==
  LET items == Items(mem, n)
      hits == {i \in DOMAIN items : mem[items[i]].key \in keys}
  IN IF hits = {} THEN Nil ELSE items[CHOOSE i \in hits : \A j \in hits : i <= j]

Get(mem, n, key) == First(mem, n, {key})
GetAnyCase(mem, n, key) == First(mem, n, {k \in Keys : Fold[k] = Fold[key]})

\* cJSON_Delete leaves alone what a reference borrows
RECURSIVE Owned(_, _)
Owned(mem, a) ==
  {a} \cup IF mem[a].kind = "free" \/ mem[a].ref THEN {}
           ELSE UNION {Owned(mem, c) : c \in Members(mem, a)}

Delete(mem, S) ==
  [a \in Addr |-> IF a \in S THEN Blank
                  ELSE IF mem[a].from \in S THEN [mem[a] EXCEPT !.from = Nil] ELSE mem[a]]

Linked(mem, n, a) ==
  LET items == Items(mem, n) IN
  IF items = <<>> THEN [mem EXCEPT ![n].child = a]
                  ELSE [mem EXCEPT ![items[Len(items)]].next = a]

AddReference(mem, n, key, o) ==
  LET a == Malloc(mem, 1) IN
  Linked([mem EXCEPT ![a] = [mem[o] EXCEPT !.key = key, !.next = Nil, !.ref = TRUE, !.from = o]],
         n, a)

Unlink(mem, n, a) ==
  [b \in Addr |->
     IF b = n /\ mem[n].child = a THEN [mem[n] EXCEPT !.child = mem[a].next]
     ELSE IF b \in Members(mem, n) /\ mem[b].next = a THEN [mem[b] EXCEPT !.next = mem[a].next]
     ELSE mem[b]]

-----------------------------------------------------------------------------
(* Json: who owns what.  A store is a record of memory and refs_. *)

Store == [node |-> node, refs |-> refs_]
Held == {hold[v] : v \in DOMAIN hold} \ {Nil}

\* The nodes that values own, given those that variables and temporary values own
RECURSIVE Live(_, _)
Live(sets, N) ==
  LET more == N \cup {e[1] : e \in UNION {sets[n] : n \in N}} IN
  IF more = N THEN N ELSE Live(sets, more)

\* The last value that owns a node deletes it (~Data)
Settled(s, before, owners) ==
  LET dead == before \ Live(s.refs, owners) IN
  [node |-> Delete(s.node, UNION {Owned(s.node, d) : d \in dead}),
   refs |-> [n \in Addr |-> IF n \in dead THEN {} ELSE s.refs[n]]]

Least(entries) == CHOOSE e \in entries : \A f \in entries : e[1] <= f[1]

\* at() takes the refs_ of the first entry with the reference it has found; those of a
\* string are a null pointer
At(n, item) ==
  LET found == {e \in refs_[n] : e[2] = item} IN
  [node |-> item,
   refs |-> IF found = {} THEN Fresh
            ELSE IF node[Least(found)[1]].kind = "string" THEN Nil ELSE Least(found)[1]]

\* A variable, an item found by at(), an item of back(), as_array() or an iterator
Targets ==
  UNION {{[node |-> n, refs |-> n]} \cup {At(n, a) : a \in Members(node, n)}
         \cup {[node |-> a, refs |-> Fresh] : a \in Members(node, n)} : n \in Held}

\* A value that is added: a container is made before the call, a string when it is needed
Choices(t) == {"string", "array"} \cup
  IF t.node = hold["root"] /\ hold["other"] # Nil THEN {"other"} ELSE {}
Made(s, value, k) ==
  LET a == Malloc(s.node, k) IN [s EXCEPT !.node[a] = Owner(value, a)]
Given(value) == IF value = "array" THEN Made(Store, value, 2) ELSE Store
\* Json(Array) makes a null value first, so its node is the second
GivenNode(value) == IF value = "array" THEN Malloc(node, 2) ELSE hold["other"]
GivenOwner(value) == IF value = "array" THEN {GivenNode(value)} ELSE {}

\* The end of insert() and of set(): the reference and its entry
Put(s, t, key, value) ==
  LET isNew == value = "string"
      o == IF isNew THEN Malloc(s.node, 1) ELSE GivenNode(value)
      mem == AddReference(IF isNew THEN Made(s, value, 1).node ELSE s.node, t.node, key, o)
      ref == IF mem[t.node].kind = "array" THEN Items(mem, t.node)[Len(Items(mem, t.node))]
             ELSE Get(mem, t.node, key)
      sets == IF t.refs = Fresh THEN s.refs ELSE [s.refs EXCEPT ![t.refs] = @ \cup {<<o, ref>>}]
  IN Settled([node |-> mem, refs |-> sets], Live(s.refs, Held \cup {o}), Held)

\* remove(): the item, and the first of the entries that belong to it
Without(s, t, item, entries, owners) ==
  LET sets == IF t.refs = Fresh \/ entries = {} THEN s.refs
              ELSE [s.refs EXCEPT ![t.refs] = @ \ {Least(entries)}]
      rest == Settled([node |-> Unlink(s.node, t.node, item), refs |-> sets],
                      Live(s.refs, owners), owners)
  IN [rest EXCEPT !.node = Delete(@, Owned(s.node, item))]

Becomes(s) == node' = s.node /\ refs_' = s.refs

Entries(t) == IF t.refs \in Addr THEN refs_[t.refs] ELSE {}

\* Another node has the same list of children, or had it when it was empty
Borrows(b, n) ==
  /\ b # n /\ node[b].kind = node[n].kind
  /\ node[b].from = n \/ node[n].from = b \/ (node[n].from # Nil /\ node[b].from = node[n].from)

Adding(t) ==
  (IF t.refs = Fresh THEN {"unkept"} ELSE {})
  \cup IF node[t.node].child = Nil /\ \E b \in Addr : Borrows(b, t.node) THEN {"diverged"} ELSE {}

\* The item is the first of a list that another node has, or its entry stays: that of an item
\* of an array, or that of a member when the value has not the refs_ with the entry
Listed(sets, item) == \E n \in sets : \E e \in refs_[n] : e[2] = item
Removing(t, item) ==
  (IF \E b \in Addr \ {t.node} : item # Nil /\ node[b].child = item THEN {"beheaded"} ELSE {})
  \cup IF node[t.node].kind = "array" THEN IF Listed(Addr, item) THEN {"indexed"} ELSE {}
       ELSE IF t.refs = Fresh /\ Listed(Addr, item) THEN {"leftover"} ELSE {}

Twin(mem, n, key) == IF Get(mem, n, key) # Nil THEN {"twin"} ELSE {}

-----------------------------------------------------------------------------
(* The operations *)

\* One variable may have an object to which set() has added two strings
Init ==
  /\ \/ /\ node = [a \in Addr |-> Blank] /\ refs_ = [a \in Addr |-> {}]
        /\ hold = [v \in {"root", "other"} |-> Nil]
     \/ /\ node = [a \in Addr |->
                   CASE a = 2 -> [Owner("object", 2) EXCEPT !.child = 3]
                     [] a \in {1, 4} -> Owner("string", a)
                     [] a = 3 -> [Owner("string", 1) EXCEPT !.ref = TRUE, !.from = 1, !.next = 5]
                     [] a = 5 -> [Owner("string", 4) EXCEPT !.key = "b", !.ref = TRUE, !.from = 4]
                     [] OTHER -> Blank]
        /\ refs_ = [a \in Addr |-> IF a = 2 THEN {<<1, 3>>, <<4, 5>>} ELSE {}]
        /\ hold = [root |-> Nil, other |-> 2]
  /\ causes = {} /\ crashed = FALSE /\ calls = 0

NullPointer == crashed' = TRUE /\ UNCHANGED <<node, refs_, hold, causes>>

Insert(t, value) ==
  /\ node[t.node].kind = "array"
  /\ IF t.refs = Nil THEN NullPointer
     ELSE /\ Becomes(Put(Given(value), t, "a", value))
          /\ causes' = causes \cup Adding(t)
          /\ UNCHANGED <<hold, crashed>>

\* The number of a node is never that of a reference, so no entry is erased
RemoveAt(t, item) ==
  /\ node[t.node].kind = "array"
  /\ IF t.refs = Nil THEN NullPointer
     ELSE /\ Becomes(Without(Store, t, item, {e \in Entries(t) : e[1] = item}, Held))
          /\ causes' = causes \cup Removing(t, item)
          /\ UNCHANGED <<hold, crashed>>


RemovedKey(s, t, key, owners) ==
  LET item == GetAnyCase(s.node, t.node, key) IN
  IF item = Nil THEN s ELSE Without(s, t, item, {e \in Entries(t) : e[2] = item}, owners)

RemoveKey(t, key) ==
  /\ node[t.node].kind = "object"
  /\ GetAnyCase(node, t.node, key) # Nil
  /\ IF t.refs = Nil THEN NullPointer
     ELSE /\ Becomes(RemovedKey(Store, t, key, Held))
          /\ causes' = causes \cup Removing(t, GetAnyCase(node, t.node, key))
          /\ UNCHANGED <<hold, crashed>>

\* A key that differs by case only is removed as well; of two such keys the first
Set(t, key, value) ==
  LET removed == RemovedKey(Given(value), t, key, Held \cup GivenOwner(value)) IN
  /\ node[t.node].kind = "object"
  /\ IF t.refs = Nil THEN NullPointer
     ELSE /\ Becomes(Put(removed, t, key, value))
          /\ causes' = causes \cup Adding(t) \cup Removing(t, GetAnyCase(node, t.node, key))
               \cup Twin(removed.node, t.node, key)
          /\ UNCHANGED <<hold, crashed>>

\* A new variable: an empty container, or a document of two members
Documents == [list |-> <<"a", "a">>, twins |-> <<"a", "A">>]

Create(v, doc) ==
  LET root == Malloc(node, IF doc \in {"array", "object"} THEN 2 ELSE 1)
      first == Malloc(node, 2)
      second == Malloc(node, 3)
  IN
  /\ hold[v] = Nil
  /\ hold' = [hold EXCEPT ![v] = root]
  /\ IF doc \in {"array", "object"}
       THEN node' = [node EXCEPT ![root] = Owner(doc, root)] /\ UNCHANGED causes
       ELSE /\ node' = [node EXCEPT
                 ![root] = [Owner(IF doc = "list" THEN "array" ELSE "object", root) EXCEPT !.child = first],
                 ![first] = [Owner("array", first) EXCEPT !.key = Documents[doc][1], !.next = second],
                 ![second] = [Owner("string", second) EXCEPT !.key = Documents[doc][2]]]
            /\ causes' = causes \cup ({doc} \ {"list"})
  /\ UNCHANGED <<refs_, crashed>>

\* The variable goes out of scope
Drop(v) ==
  /\ hold[v] # Nil
  /\ hold' = [hold EXCEPT ![v] = Nil]
  /\ Becomes(Settled(Store, Live(refs_, Held), Held \ {hold[v]}))
  /\ UNCHANGED <<causes, crashed>>

\* Memory that is read by printing or by deleting what a value owns
RECURSIVE Broken(_)
Broken(a) ==
  \/ node[a].kind = "free"
  \/ node[a].text # Nil /\ node[node[a].text].kind = "free"
  \/ \E c \in Members(node, a) : Broken(c)

Damaged == \E n \in Live(refs_, Held) : Broken(n)

Room(k) == Cardinality({a \in Addr : node[a].kind = "free"}) >= k

Next ==
  /\ ~crashed /\ ~Damaged
  /\ calls < MaxCalls /\ calls' = calls + 1
  /\ \/ \E t \in Targets, value \in {"string", "array", "other"} :
            /\ Room(2) \/ t.refs = Nil
            /\ value \in Choices(t) /\ (Insert(t, value) \/ \E key \in Keys : Set(t, key, value))
     \/ \E t \in Targets : \E key \in Keys : RemoveKey(t, key)
     \/ \E t \in Targets : \E item \in Members(node, t.node) : RemoveAt(t, item)
     \/ \E v \in DOMAIN hold : Drop(v)
     \/ Room(3) /\ \/ \E doc \in {"array", "object", "list", "twins"} : Create("root", doc)
                   \/ \E doc \in {"array", "object"} : Create("other", doc)

Spec == Init /\ [][Next]_vars

-----------------------------------------------------------------------------
(* Properties *)

TypeOK ==
  /\ \A a \in Addr : node[a].kind \in {"free", "string", "array", "object"}
  /\ refs_ \in [Addr -> SUBSET (Addr \X Addr)]
  /\ hold \in [{"root", "other"} -> Addr \cup {Nil}]

\* A program never meets freed memory or a null pointer, when it prints, edits or drops its
\* values, unless it has edited an item of back(), as_array() or an iterator (unkept, leftover),
\* has removed an item of an array (indexed) or the first item of a list that two nodes have
\* (beheaded), or has set a key of a parsed object that has it twice, but for case (twin).
Intact ==
  crashed \/ Damaged =>
    causes \cap {"unkept", "leftover", "indexed", "beheaded", "twin"} # {}

\* refs_ follows the tree: an entry has the reference that was made for it, unless an entry has
\* stayed (leftover, indexed, beheaded, twin); an object that was built by set() (not parsed with
\* a key twice: twins) has no two keys that differ by case only, unless it was beheaded, and as
\* many entries as members, unless one was added through an item of back(), as_array() or an
\* iterator (unkept), or has stayed, or two nodes had started from one empty list (diverged).
RefsFollow ==
  ~Damaged =>
    /\ \A n \in Live(refs_, Held) : \A e \in refs_[n] :
         node[e[2]].from = e[1] \/ causes \cap {"leftover", "indexed", "twin", "beheaded"} # {}
    /\ \A n \in Held :
         node[n].kind = "object" /\ causes \cap {"twins", "beheaded"} = {} =>
           /\ \A a, b \in Members(node, n) : Fold[node[a].key] = Fold[node[b].key] => a = b
           /\ Cardinality(refs_[n]) = Cardinality(Members(node, n))
              \/ causes \cap {"unkept", "leftover", "diverged"} # {}
=============================================================================
