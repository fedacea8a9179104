CONSTANTS
  Sources <- MCSources
  Restored <- MCNothing
  RefreshEnabled = TRUE
  HealthCheckEnabled = TRUE
  MaxChanges = 0

SPECIFICATION FairSpec

PROPERTY FailedNodesLeave

CHECK_DEADLOCK FALSE
