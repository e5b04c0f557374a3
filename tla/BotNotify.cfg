SPECIFICATION FairSpec
CONSTANTS
  Calls = {c1, c2}
  Hist = 2
  SeenCap = 2
  MaxTurns = 3
  MaxRestarts = 1
  MaxEnables = 2
INVARIANTS TypeOK AtMostOnce OptOutSticks HistoricalOnlyIfBlind
PROPERTIES TurnsNoticed
CHECK_DEADLOCK FALSE
