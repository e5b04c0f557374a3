SPECIFICATION FairSpec
CONSTANTS
  MaxSessions = 2
  MaxRuntimes = 3
  MaxTokens = 1
  MaxMessages = 1
  MaxCalls = 4
  MaxOut = 2
  MaxFaults = 1
INVARIANTS TypeOK NoTwinChat MessageTakenOnce ActsInItsSession
PROPERTIES UnknownChatExpires
CHECK_DEADLOCK FALSE
