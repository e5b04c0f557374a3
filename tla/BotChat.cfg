SPECIFICATION FairSpec
CONSTANTS
  MaxTurns = 3
  MaxWords = 1
  MaxRuns = 2
  MaxStops = 2
  MaxOpens = 2
INVARIANTS TypeOK NoGhostRun
PROPERTIES EveryRunEnds
CHECK_DEADLOCK FALSE
