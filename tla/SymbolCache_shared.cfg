CONSTANTS
  Procs = {p1, p2}
  Images = {old, new}
  Machine = "AMD64"
  Tables <- OneFunction
  CallsFail = TRUE
  Missing = Missing
  Partial = Partial
  Short = Short
  Junk = Junk

SYMMETRY Symmetry
SPECIFICATION Spec
INVARIANTS
  TypeOK
  CachedIsWhole
  UndisturbedSucceeds
PROPERTY ReadersWriteNothing
