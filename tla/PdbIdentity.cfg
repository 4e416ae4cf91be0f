SPECIFICATION Spec
CONSTANTS
  MaxSections = 3
  Inputs <- MCInputs
  k1 = k1
  k2 = k2
  Keys <- MCKeys
  NoIdentity = NoIdentity
  EntrySize = 2
  SignatureLength = 2
  RsdsHeaderSize = 3
  NameCapacity = 3
CHECK_DEADLOCK FALSE
INVARIANTS
  ReadsInside
  SelectedExact
  ResultExact
