SPECIFICATION Spec
CONSTANTS
  Tasks <- MCTasks
  MaxStack = 4
INVARIANTS LoadedAsMeant CheckedAsRead
PROPERTIES NodesAreKept LoadingEnds
CHECK_DEADLOCK FALSE
