--------------------------- MODULE FlatStructures ---------------------------
(* The AVL tree, the averages and the plugins, side by side: the           *)
(* structures of MCStructures that no recursive operator is about.         *)
EXTENDS AvlNode, Sequences

CONSTANTS Samples, window_size_, Modulus, SizeModulus, MaxSamples,
          Identities, Directories, MaxEntries, MaxRefs, MaxChanges

VARIABLES data_, nodes, unique_nodes, cleared
VARIABLES signed, items_, total, ca_, n_, all, wrapped
VARIABLES files, mapped, refs, plugins_, crossed, it, pointer, refused, faulted, changes

Avl == INSTANCE AvlTree
Average == INSTANCE MovingAverage
Plugin == INSTANCE PluginLoader WITH MaxFiles <- MaxEntries

ASSUME FlatAssumption ==
  Avl!AvlAssumption /\ Average!AverageAssumption /\ Plugin!LoaderAssumption

avlVars == <<data_, nodes, unique_nodes, cleared>>
averageVars == <<signed, items_, total, ca_, n_, all, wrapped>>
pluginVars == <<files, mapped, refs, plugins_, crossed, it, pointer, refused, faulted, changes>>

-----------------------------------------------------------------------------
(* The properties of the parts *)

\* The AVL tree is ordered and balanced and its counters are right until clear() (AvlTree)
AvlSound == Avl!TypeOK /\ Avl!Sound /\ Avl!CountersAccurate

\* The AVL tree is a multiset, call by call (AvlTree)
CountsOccurrences == Avl!CountsOccurrences

\* The averages are the means of the samples they name (MovingAverage)
AveragesRight == Average!TypeOK /\ Average!AveragesRight

\* Plugins are found when they are loaded, their libraries are open as often as they should,
\* and an iteration reports them all, but for three named cases (PluginLoader)
PluginsSound ==
  Plugin!TypeOK /\ Plugin!LookupRight /\ Plugin!ReferencesExact /\ Plugin!IterationRight
=============================================================================
