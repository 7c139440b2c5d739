CONSTANTS
  MaxHeight = 4
  MaxCrashes = 3
  MaxEvidence = 1
  Validators = {v1, v2}
  GenesisPower = 10
SPECIFICATION Spec
INVARIANTS
  ExactlyOnce
  OneAppHashPerBlock
  InfoConsistent
  RecordedAppHashes
  ValidatorsInStep
PROPERTIES
  CommitsInOrder
  EventuallyCommitted
CHECK_DEADLOCK FALSE
