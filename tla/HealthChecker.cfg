CONSTANTS
  MaxNode = 3
  NodeKey <- MCNodeKey
  NodeLists <- MCNodeLists
  Saved <- MCSaved
  Window = 2
  Timeout = 1
  Debounce = 1
  MaxNow = 4
  MaxProbes = 2

SPECIFICATION Spec

INVARIANTS
  CandidatesAreRight
  PenaltyShowsInScore

PROPERTIES
  HistoryIsKept
  NewOrderIsApplied
