---------------------------- MODULE MCStructures ----------------------------
(* The data structures for TLC, one of them in each behaviour: the AVL     *)
(* tree, the tree of elements with its completion, the averages, the trees *)
(* of Json, and the plugins.                                               *)
EXTENDS FlatStructures

CONSTANTS Slash, Space, MaxElements, MaxTyped, MaxCells, MaxCalls

Names == {<<1>>, <<1, 2>>, <<2>>}
Program == <<1>>
MCSamples == {-3, 0, 2, 7}

\* Three versions of a plugin and one of another name space
Old == <<1, 1, <<1, 0, 0>>>>
Newer == <<1, 1, <<2, 0, 0>>>>
Newest == <<1, 1, <<3, 0, 0>>>>
Foreign == <<1, 2, <<1, 0, 0>>>>
MCIdentities == {Old, Newer, Newest, Foreign}
MCDirectories ==
  LET Lib(id) == [is |-> "plugin", id |-> id, instance |-> TRUE] IN
  {<<Lib(Newer), Lib(Foreign), Lib(Old)>>}

VARIABLES name, backlink_, children, line, options
VARIABLES node, refs_, hold, causes, crashed, calls
VARIABLE subject    \* the part that runs

Completion == INSTANCE Autocomplete
Json == INSTANCE JsonTree

treeVars == <<name, backlink_, children, line, options>>
jsonVars == <<node, refs_, hold, causes, crashed, calls>>

Init ==
  /\ subject \in {"avl", "tree", "average", "json", "plugin"}
  /\ Avl!Init /\ Completion!ACInit /\ Average!Init /\ Json!Init /\ Plugin!Init
  /\ subject # "avl" => nodes = 0
  /\ subject # "average" => signed
  /\ subject # "json" => hold["other"] = 0

Only(part) == subject = part

Next ==
  /\ UNCHANGED subject
  /\ \/ Only("avl") /\ Avl!Next
        /\ UNCHANGED <<treeVars, averageVars, jsonVars, pluginVars>>
     \/ Only("tree") /\ Completion!ACNext
        /\ UNCHANGED <<avlVars, averageVars, jsonVars, pluginVars>>
     \/ Only("average") /\ Average!Next
        /\ UNCHANGED <<avlVars, treeVars, jsonVars, pluginVars>>
     \/ Only("json") /\ Json!Next
        /\ UNCHANGED <<avlVars, treeVars, averageVars, pluginVars>>
     \/ Only("plugin") /\ Plugin!Next
        /\ UNCHANGED <<avlVars, treeVars, averageVars, jsonVars>>

Spec ==
  /\ Init
  /\ [][Next]_<<avlVars, treeVars, averageVars, jsonVars, pluginVars, subject>>

-----------------------------------------------------------------------------
(* The properties of the parts *)

\* Pointers to parents and to children agree, all traversals visit what they should in their
\* order, and the completion offers what continues the last word (AvlTree, ElementTree,
\* Autocomplete)
TreesNavigable ==
  /\ Only("tree") => /\ Completion!ACTypeOK /\ Completion!PathsResolve
                     /\ Completion!TraversalsRight /\ Completion!CompletesLastWord
  /\ Only("avl") => Avl!TraversesLevels

=============================================================================
