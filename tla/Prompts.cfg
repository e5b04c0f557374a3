SPECIFICATION FairSpec
CONSTANTS
  MaxPrompts = 2
  MaxFrames = 3
  MaxRestarts = 1
INVARIANTS TypeOK OneAnswerOneRequest
PROPERTIES AnswerHeard
CHECK_DEADLOCK FALSE
