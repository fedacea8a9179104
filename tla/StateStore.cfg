CONSTANTS
  Refresher = refresher
  Main = main
  MaxProbes = 2
  MaxStarts = 2

SPECIFICATION StoreFairSpecMC

INVARIANTS
  PenaltiesNotOlder
  FileIsOneSnapshot

PROPERTY ShutdownEnds

CHECK_DEADLOCK FALSE
