CONSTANTS
  FieldPrime = 67
  Generator <- MCGenerator
  TableSize = 1
  Order = 79
  Keys = {5, 9, 60}
  Patterns = {0, 1, 3, 4, 6, 7}
  PointAt <- MCPointAt
  Infinite <- MCInfinite
  Matches <- MCMatches
  Add <- MCAdd
  Advance <- MCAdvance
  Neighbour <- MCNeighbour
  Threads = 2
  PointsPerThread = 2
  Block = 1
  Resident = 2
  Radius = 1
  CountLimit = 40
  MaxFaults = 1
  Jobs <- MCJobs
  BatchSizes = {7, 20}
  TerminalLines <- MCTerminalLines
  MaxJobs = 2
  MaxCommands = 1
SPECIFICATION SystemSpec
INVARIANTS WorkerTypeOK ChainStateTrue PointsOnTrack ProgressIsTrue WinnerIsOwn FailsOnlyByFault EndedIsQuiet
PROPERTIES KeepsPromise AssignmentEnds
CHECK_DEADLOCK FALSE
