SPECIFICATION FairSpec
CONSTANTS
  Words <- MCWords
  Empty = ""
  DefaultHeader = "X-GeoLoom-Token"
  Illegal <- MCIllegal
  WithoutSlash <- MCWithoutSlash
  Servers <- MCServers
  Credential <- MCCredential
  Absent = Absent
  Null = Null
  Resources = {status, candidates}
  Inputs <- MCInputs
  InitialStorage <- MCInitialStorage
  OtherSettings <- MCOtherSettings
  MaxRefreshes = 3
  MaxVersion = 1
INVARIANTS ScreenTells ReloadChangesNothing
PROPERTIES WaitsEnd
