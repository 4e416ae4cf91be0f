SPECIFICATION Spec
CONSTANTS
  Pids = {pid1, pid2}
  Sessions = {own, other}
  Own = own
  Images = {before, after}
  WaitSeconds = 2
  MaxAttempts = 2
  MaxBirths = 3
  Nobody = Nobody
CHECK_DEADLOCK FALSE
INVARIANTS
  TypeOK
  ContextExact
  LooksToTheEnd
PROPERTY
  ImplementsAttachment
