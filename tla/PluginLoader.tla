----------------------------- MODULE PluginLoader -----------------------------
(***************************************************************************)
(* The class Loader of src/plugin/libplugin.cpp: the iterator over the     *)
(* libraries of a directory, load and unload.  A program has one iterator  *)
(* and one pointer to a plugin; other programs install and remove files.   *)
(* The dynamic linker and std::map are external.  An import that fails     *)
(* closes what it has opened and changes nothing.                          *)
(***************************************************************************)
EXTENDS Integers, Sequences, FiniteSets

CONSTANTS
  Identities,     \* <<name, name_space, version>>, a version being three numbers
  MaxFiles,       \* bound: entries of the directory
  Directories,    \* bound: what the directory may hold at first
  MaxRefs,        \* bound: references to a library
  MaxChanges      \* bound: files installed or removed while the program runs

VARIABLES
  files,      \* what the entries of the directory are, in its order
  mapped,     \* the library that is in memory under the name of an entry
  refs,       \* the references that the linker counts
  plugins_,   \* the map: its entries in their order, and which of them is the root
  it,         \* the iterator: position, *it, filter; history: what it has reported, as long as
              \* no file changes (quiet)
  pointer,    \* the pointer: to a plugin of which file, locked; history: its code is gone
  crossed,    \* history: since it was empty, the map has had two identities that are each
              \* less than the other
  refused,    \* history: instances, by file, that the map has refused
  faulted,    \* code was called that is not in memory
  changes     \* how many files were installed or removed

vars == <<files, mapped, refs, plugins_, crossed, it, pointer, refused, faulted, changes>>

Entry == 1 .. MaxFiles
End == MaxFiles + 1
MaxPlugins == 3     \* bound: plugins in the map; of more, a map may turn into other trees

Library(id, instance) == [is |-> "plugin", id |-> id, instance |-> instance]
Absent == [is |-> "absent"]
Other == [is |-> "other"]     \* no library, or one without plugin_id
Contents == {Library(id, TRUE) : id \in Identities} \cup {Absent, Other}
            \cup {Library(CHOOSE id \in Identities : TRUE, FALSE)}

\* What an iterator reports that has found nothing yet: an empty name, version 1.0.0
Nothing == [path |-> 0, id |-> <<0, 0, <<1, 0, 0>>>>]
NoPointer == [path |-> 0, locked |-> FALSE, gone |-> FALSE]

\* A name is a number, 0 the empty one
LoaderAssumption ==
  /\ Identities # {} /\ Identities \subseteq Nat \X Nat \X (Int \X Int \X Int)
  /\ MaxFiles \in Nat /\ MaxRefs \in Nat /\ MaxChanges \in Nat
  /\ Directories \subseteq [Entry -> Contents]

-----------------------------------------------------------------------------
(* The order of identities, and the map *)

VersionLess(v, w) ==
  \E i \in 1 .. 3 : v[i] < w[i] /\ \A j \in 1 .. i - 1 : v[j] = w[j]

\* Two identities may each be less than the other
Less(a, b) == a[1] < b[1] \/ a[2] < b[2] \/ VersionLess(a[3], b[3])

Empty == [order |-> <<>>, root |-> 1]
Held == \E k \in DOMAIN plugins_.order : plugins_.order[k].held
Entries(f) == Cardinality({k \in DOMAIN plugins_.order : plugins_.order[k].path = f})
Ids == {plugins_.order[i].id : i \in DOMAIN plugins_.order}
Crossed(S) == \E a, b \in S : Less(a, b) /\ Less(b, a)

\* The entry on a side of the root, of three at most
Beside(m, left) ==
  LET c == m.root + (IF left THEN -1 ELSE 1) IN IF c \in DOMAIN m.order THEN c ELSE 0

Find(m, id) ==
  LET Low(k) == ~ Less(m.order[k].id, id)
      c == Beside(m, Low(m.root))
      y == IF c # 0 /\ Low(c) THEN c ELSE IF Low(m.root) THEN m.root ELSE 0
  IN IF m.order # <<>> /\ y # 0 /\ ~ Less(id, m.order[y].id) THEN y ELSE 0

\* Where an identity would be inserted, and whether it is
Place(m, id) ==
  LET After(k) == ~ Less(id, m.order[k].id)
      c == Beside(m, ~ After(m.root))
      parent == IF c = 0 THEN m.root ELSE c
  IN IF m.order = <<>> THEN 1 ELSE IF After(parent) THEN parent + 1 ELSE parent
Accepts(m, id) ==
  LET p == Place(m, id) IN p = 1 \/ Less(m.order[p - 1].id, id)

Inserted(m, e) ==
  LET p == Place(m, e.id)
      n == Len(m.order)
  IN [order |-> SubSeq(m.order, 1, p - 1) \o <<e>> \o SubSeq(m.order, p, n),
      root |-> CASE n = 0 -> 1 [] n = 1 -> IF p = 1 THEN 2 ELSE 1 [] OTHER -> 2]

Erased(m, k) ==
  LET n == Len(m.order) IN
  [order |-> SubSeq(m.order, 1, k - 1) \o SubSeq(m.order, k + 1, n),
   root |-> IF n = 3 /\ k # 1 THEN 2 ELSE 1]

-----------------------------------------------------------------------------
(* The linker: an open library is found by its name, whatever the file is now; *)
(* the last reference unmaps it                                                *)

Opened(f) == IF refs[f] > 0 THEN mapped[f] ELSE files[f]

dlopen(f) == refs' = [refs EXCEPT ![f] = @ + 1] /\ mapped' = [mapped EXCEPT ![f] = Opened(f)]

\* The pointer and the linker after n[f] calls of dlclose for each library
dlclose(n) ==
  /\ refs' = [f \in Entry |-> refs[f] - n[f]]
  /\ pointer' = [pointer EXCEPT !.gone =
                    @ \/ (pointer # NoPointer /\ n[pointer.path] > 0 /\ refs'[pointer.path] = 0)]
  /\ mapped' = [f \in Entry |-> IF refs'[f] = 0 THEN Absent ELSE mapped[f]]

-----------------------------------------------------------------------------
(* The iterator *)

Matches(f, ns) ==
  files[f].is # "absent" /\ Opened(f).is = "plugin" /\ (ns = 0 \/ Opened(f).id[2] = ns)

Least(S) == CHOOSE f \in S : \A g \in S : f <= g

\* next(): what is found from a position on; at the end *it stays what it was
Found(from, ns, old) ==
  LET hits == {f \in from .. MaxFiles : Matches(f, ns)} IN
  IF hits = {} THEN [pos |-> End, at |-> old]
  ELSE [pos |-> Least(hits), at |-> [path |-> Least(hits), id |-> Opened(Least(hits)).id]]

Reporting(i, found) ==
  [pos |-> found.pos, at |-> found.at, ns |-> i.ns, named |-> i.named, quiet |-> i.quiet,
   seen |-> IF found.pos = End \/ ~ i.quiet THEN i.seen ELSE Append(i.seen, found.at.path)]

\* The first entry of any kind
Start == Least({End} \cup {f \in Entry : files[f].is # "absent"})

\* begin(); without a path nothing is searched yet
Begin(named, ns) ==
  /\ it' = Reporting([ns |-> ns, named |-> named, seen |-> <<>>,
                      quiet |-> \A f \in Entry : Opened(f) = files[f]],
                     IF named THEN Found(1, ns, Nothing) ELSE [pos |-> Start, at |-> Nothing])
  /\ UNCHANGED <<files, mapped, refs, plugins_, crossed, pointer, refused, faulted, changes>>

Advance ==
  /\ it.pos # End
  /\ it' = Reporting(it, Found(it.pos + 1, it.ns, it.at))
  /\ UNCHANGED <<files, mapped, refs, plugins_, crossed, pointer, refused, faulted, changes>>

-----------------------------------------------------------------------------
(* load and unload *)

is_loaded(id) == Find(plugins_, id) # 0

\* import() once the file is known; what the map refuses is deleted at the end of load(),
\* and its library stays open
Import(id, f) ==
  /\ pointer = NoPointer /\ ~ is_loaded(id)
  /\ files[f].is # "absent" /\ Opened(f) = Library(id, TRUE)
  /\ refs[f] < MaxRefs /\ Len(plugins_.order) < MaxPlugins
  /\ dlopen(f)
  /\ IF Accepts(plugins_, id)
       THEN /\ plugins_' = Inserted(plugins_, [id |-> id, path |-> f, held |-> TRUE])
            /\ crossed' = (crossed \/ Crossed(Ids \cup {id}))
            /\ UNCHANGED refused
       ELSE refused' = [refused EXCEPT ![f] = @ + 1] /\ UNCHANGED <<plugins_, crossed>>
  /\ pointer' = [NoPointer EXCEPT !.path = f]
  /\ UNCHANGED <<files, it, faulted, changes>>

\* load(*it) and, with the first file that has the identity, load(id)
Load == it.pos # End /\ it.at # Nothing /\ Import(it.at.id, it.at.path)
Search(id) ==
  LET found == {f \in Entry : Matches(f, 0) /\ Opened(f).id = id}
  IN found # {} /\ Import(id, Least(found))

\* Mutant of UnloadId: the library stays open
UnloadIdOpen(id) ==
  /\ is_loaded(id)
  /\ plugins_' = Erased(plugins_, Find(plugins_, id))
  /\ crossed' = (crossed /\ Len(plugins_.order) > 1)
  /\ UNCHANGED <<files, mapped, refs, it, pointer, refused, faulted, changes>>

\* unload(id)
UnloadId(id) ==
  LET k == Find(plugins_, id) IN
  /\ k # 0
  /\ plugins_' = Erased(plugins_, k)
  /\ crossed' = (crossed /\ Len(plugins_.order) > 1)
  /\ dlclose([f \in Entry |-> IF f = plugins_.order[k].path THEN 1 ELSE 0])
  /\ UNCHANGED <<files, it, refused, faulted, changes>>

\* unload() and ~Loader
UnloadAll ==
  /\ plugins_.order # <<>>
  /\ plugins_' = Empty /\ crossed' = FALSE
  /\ dlclose([f \in Entry |-> Entries(f)])
  /\ UNCHANGED <<files, it, refused, faulted, changes>>

\* lock() succeeds as long as the map has the plugin
Lock ==
  /\ Held /\ ~ pointer.locked
  /\ pointer' = [pointer EXCEPT !.locked = TRUE]
  /\ UNCHANGED <<files, mapped, refs, plugins_, crossed, it, refused, faulted, changes>>

Use ==
  /\ pointer.locked /\ pointer.gone
  /\ faulted' = TRUE
  /\ UNCHANGED <<files, mapped, refs, plugins_, crossed, it, pointer, refused, changes>>

\* The last pointer, a weak one too, calls code of the library
Release ==
  /\ pointer # NoPointer
  /\ pointer' = NoPointer /\ faulted' = pointer.gone
  /\ plugins_' = [plugins_ EXCEPT !.order = [k \in DOMAIN @ |-> [@[k] EXCEPT !.held = FALSE]]]
  /\ UNCHANGED <<files, mapped, refs, crossed, it, refused, changes>>

\* Another program installs, replaces or removes a file; an iterator may or may not notice
Change(f, c) ==
  /\ changes < MaxChanges /\ changes' = changes + 1
  /\ files' = [files EXCEPT ![f] = c]
  /\ it' = [it EXCEPT !.quiet = FALSE, !.seen = <<>>]
  /\ UNCHANGED <<mapped, refs, plugins_, crossed, pointer, refused, faulted>>

-----------------------------------------------------------------------------

Init ==
  /\ files \in Directories
  /\ mapped = [f \in Entry |-> Absent] /\ refs = [f \in Entry |-> 0]
  /\ plugins_ = Empty /\ crossed = FALSE
  /\ it = [pos |-> End, at |-> Nothing, ns |-> 0, named |-> TRUE, quiet |-> FALSE, seen |-> <<>>]
  /\ pointer = NoPointer /\ refused = [f \in Entry |-> 0]
  /\ faulted = FALSE /\ changes = 0

Next ==
  /\ ~ faulted
  /\ \/ \E named \in BOOLEAN : \E ns \in {0} \cup {id[2] : id \in Identities} : Begin(named, ns)
     \/ Advance \/ Load \/ (\E id \in Identities : Search(id) \/ UnloadId(id)) \/ UnloadAll
     \/ Lock \/ Use \/ Release
     \/ \E f \in Entry : \E c \in Contents : Change(f, c)

Spec == Init /\ [][Next]_vars

-----------------------------------------------------------------------------
(* Properties *)

TypeOK ==
  /\ files \in [Entry -> Contents] /\ mapped \in [Entry -> Contents]
  /\ \A f \in Entry : refs[f] \in 0 .. MaxRefs /\ refused[f] \in 0 .. MaxRefs
  /\ plugins_.order # <<>> => plugins_.root \in DOMAIN plugins_.order

\* What is_loaded() finds is in the map. The map has an identity once, and is_loaded() finds
\* it, unless two identities that are each less than the other have been in the map since it
\* was empty: then, even when one of them has gone, a plugin may be there unfound and be
\* loaded again (operator<, is_loaded).
LookupRight ==
  /\ \A id \in Identities : is_loaded(id) => id \in Ids
  /\ crossed \/ /\ Cardinality(Ids) = Len(plugins_.order)
                /\ \A id \in Ids : is_loaded(id)

\* A plugin in the map has its library in memory, and a pointer to it is good; a library is
\* open once for each of its plugins in the map, and for each that the map has refused; a
\* pointer goes bad, so that its use or its end calls code that is gone, when the last
\* reference to its library is closed under it, and only then (import, unload).
ReferencesExact ==
  /\ \A k \in DOMAIN plugins_.order :
       LET e == plugins_.order[k] IN
       refs[e.path] > 0 /\ mapped[e.path] = Library(e.id, TRUE) /\ (e.held => ~ pointer.gone)
  /\ \A f \in Entry : refs[f] = Entries(f) + refused[f]
  /\ pointer.path # 0 => (pointer.gone <=> refs[pointer.path] = 0)

\* A loop from begin() to end() reports the plugins of a name space, all of them and each
\* once, in the order of the directory; without a path it reports an empty identity instead
\* of the first entry (Iterator).
IterationRight ==
  it.pos = End /\ it.quiet /\ (it.named \/ Start # End) =>
    LET plugins == {f \in Entry : files[f].is = "plugin" /\ it.ns \in {0, files[f].id[2]}} IN
    /\ \A i, j \in DOMAIN it.seen : i < j => it.seen[i] < it.seen[j]
    /\ {it.seen[i] : i \in DOMAIN it.seen} =
         IF it.named THEN plugins ELSE {0} \cup (plugins \ {Start})
=============================================================================
