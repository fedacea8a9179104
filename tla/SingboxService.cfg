CONSTANTS
  Caller = {rebuilder, shutdown}
  Config = {l1, l2}
  Down = Down
  MaxBox = 3

SPECIFICATION FairSpec

INVARIANTS
  TypeOK
  OneBoxHoldsPorts
  NothingLeaks
  StatsDescribeCurrent

PROPERTIES
  LifecycleSpec
  EveryCallReturns
