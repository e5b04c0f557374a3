SPECIFICATION Spec
CONSTANTS
  MaxSeq = 3
  NonceCap = 2
  MaxRestarts = 0
  Raises = {2}
INVARIANT NeverPastFailure
