CONSTANTS
  NodeKey = {n1, n2}
  Caller = {checker, reader}
  Checker = checker
  Window = 2
  MaxNow = 4

SPECIFICATION SpecMC

INVARIANT FilterAnswersTruly

PROPERTIES
  PenaltyStands
  LedgerSpec
