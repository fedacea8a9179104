CONSTANTS
  Key = {"ka", "kb", "kc"}
  Label = {"a", "b", "c", "alias", "bad"}
  SourceName = {"s", "f"}
  Sources <- MCSources
  Links <- MCLinks
  Contents <- MCContents
  Country = {"X", "Y"}
  AddressesOf <- MCAddressesOf
  Configs <- MCConfigs

SPECIFICATION Spec

INVARIANTS
  
  DedupIsExact
  EveryNodeIsAccountedFor
  FilterHolds
