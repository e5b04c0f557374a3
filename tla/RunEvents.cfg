SPECIFICATION Spec
CONSTANTS
  MaxIds = 3
  MaxArrivals = 3
  MaxRuns = 1
  MaxAsks = 2
  MaxQueue = 2
  MaxEnds = 1
INVARIANTS TypeOK OneRunPerRequest
PROPERTIES EveryRunToldOf
CHECK_DEADLOCK FALSE
