SPECIFICATION FairSpec
CONSTANTS
  m1 = m1
  m2 = m2
  m3 = m3
  Msgs = {m1, m2, m3}
  Unsupported = {m3}
  NoMsg = NoMsg
  Cap = 1
  MaxSends = 2
  MaxRestarts = 0
PROPERTY ForwardReturns
CHECK_DEADLOCK FALSE
