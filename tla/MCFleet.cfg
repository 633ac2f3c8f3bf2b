SPECIFICATION Spec
CONSTANTS
  Devices = 3
  ChainsOf <- MCChains
  ChunkCounts = {0, 5, 9, 10}
  DeviceLimit = 9
  Band = 20
  Ranges <- MCRanges
  HitSets <- MCHits
  Overlooked <- MCOverlooked
  AttemptLimit = 65
  MaxFaults = 3
CHECK_DEADLOCK FALSE
INVARIANTS TypeOK ReportIsFirst TriedOnce FileIsWhole NoThreadOutlives
PROPERTIES ForeignFileKept CommandEnds
