\* Trees of at most 7 nodes and of 4 elements, 5 letters typed, 5 samples;
\* 9 JSON nodes, 5 calls; 3 plugins, 2 references to each, 1 change
CONSTANTS
  Values = {1, 2, 3, 4, 5, 6, 7}
  MaxNodes = 7
  Slash = 9
  Space = 0
  MaxElements = 4
  MaxTyped = 5
  window_size_ = 3
  Modulus = 64
  SizeModulus = 4096
  MaxSamples = 5
  MaxCells = 9
  MaxCalls = 5
  Samples <- MCSamples
  Identities <- MCIdentities
  Directories <- MCDirectories
  MaxEntries = 3
  MaxRefs = 2
  MaxChanges = 1
SPECIFICATION Spec
INVARIANTS AvlSound TreesNavigable AveragesRight  PluginsSound
PROPERTIES CountsOccurrences
CHECK_DEADLOCK FALSE
