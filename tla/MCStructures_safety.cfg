CONSTANTS
  node1 = node1
  node2 = node2
  node3 = node3
  node4 = node4
  node5 = node5
  node6 = node6
  Heads <- TwoHeads
  Entries <- ThreeEntries
  Nodes <- SixNodes
  Keys <- ThreeTimes
  Items <- FiveItems
  KeyOf <- Keyed
  HashOf <- Hashed
  InitialLog = 0
  Thresh = 2
  MaxLog = 3
SPECIFICATION Spec
SYMMETRY AnyNode
CHECK_DEADLOCK FALSE
PROPERTIES
  ImplementsLists
  ImplementsTimers
  KeepsItems
