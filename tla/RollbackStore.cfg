SPECIFICATION Spec
CONSTANTS
  Sessions = {s1, s2}
  Shells = {e1}
  Machines = {arm64}
  AlignedOnly = {arm64}
  Protections = {rx}
  Executable = {rx}
  WritableExecutable = {}
  Missing = Missing
  Short = Short
  Junk = Junk
  NoState = NoState
  Corrupt = Corrupt
SYMMETRY Symmetry
INVARIANTS
  TypeOK
  NeverCorrupt
  SavedForGood
  LeftoversDoNotHinder
PROPERTY
  StoreSpec
