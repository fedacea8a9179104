CONSTANTS
  Sources <- MCSources
  Restored <- MCNothing
  RefreshEnabled = TRUE
  HealthCheckEnabled = TRUE
  MaxChanges = 1

SPECIFICATION FairSpec

INVARIANTS
  StartNeverRefused

PROPERTIES
  CoreFollowsWorld
  Settles

CHECK_DEADLOCK FALSE
