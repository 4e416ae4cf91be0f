CONSTANTS
  Procs = {p1, p2}
  Images = {new}
  Machine = "AMD64"
  Tables <- OneFunction
  CallsFail = FALSE
  Missing = Missing
  Partial = Partial
  Short = Short
  Junk = Junk
SPECIFICATION Spec
PROPERTY OnlyInvalidReplaced
