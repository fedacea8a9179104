CONSTANTS
  MaxFailures = 24

SPECIFICATION LifeSpec

INVARIANTS
  OldFailuresStay
  FailingNodesAreLast

PROPERTIES
  SuccessNeverHurts
