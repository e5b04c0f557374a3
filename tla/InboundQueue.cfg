SPECIFICATION FairSpec
CONSTANTS
  MaxSeq = 3
  NonceCap = 2
  MaxRestarts = 1
  Raises = {2}
INVARIANTS TypeOK NothingLostSilently FileBehindCursor
PROPERTIES EveryMessageSettles ImplementsInbox
