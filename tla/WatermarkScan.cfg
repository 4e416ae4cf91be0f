SPECIFICATION FairSpec
CONSTANTS
  MaxSections = 3
  Inputs <- MCInputs
  CallLength = 2
  WhiteLookback = 2
  SlotLength = 1
  MaxRva = 10
CHECK_DEADLOCK FALSE
INVARIANTS
  TypeOK
  MapSound
  SearchHolds
  RecordExact
  ResultExact
PROPERTY
  Terminates
