CONSTANTS
  Id <- MCId
  Lists <- MCLists
  Configs <- MCConfigs

SPECIFICATION Spec

INVARIANTS
  TypeOK
  TagsDistinct
  CoreMatchesList
  WeightsFollowScores
  PickIsProportional
  RankedPoolIsBest
