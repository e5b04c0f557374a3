SPECIFICATION ApiSpec
CONSTANTS
  Gateway = "default"
  OwnPort = 9119
  AltPort = 51234
  ApiPort = 8642
  Calls = 2
  MaxServers = 8
  MaxOthers = 1
  MaxExits = 1
INVARIANTS ApiTypeOK ReplayOnlyInDoubt
PROPERTIES ServedIfUp ApiComesUp
CHECK_DEADLOCK FALSE
