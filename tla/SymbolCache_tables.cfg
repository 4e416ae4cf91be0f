CONSTANTS
  Procs = {p1}
  Images = {old, new}
  Machine = "ARM64"
  Tables <- AllTables
  CallsFail = TRUE
  Missing = Missing
  Partial = Partial
  Short = Short
  Junk = Junk
SPECIFICATION FairSpec
INVARIANT ResolvedIsExact
PROPERTY Terminates
