SPECIFICATION Spec
CONSTANTS
  MaxText = 4
  MaxLosses = 2
  MaxSends = 2
  MaxRevisions = 2
  GoesOn = TRUE
INVARIANTS TypeOK DeltasChain NothingStreamedIsLost StoredOnce
CHECK_DEADLOCK FALSE
