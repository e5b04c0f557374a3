SPECIFICATION RoomFairSpec
CONSTANTS
  Limit = 3
  MaxPages = 2
  MaxEvents = 6
  MaxRoomOpens = 2
INVARIANTS RoomTypeOK NoHole
PROPERTIES ReadToTheEnd
CHECK_DEADLOCK FALSE
