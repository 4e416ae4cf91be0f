SPECIFICATION Spec
CONSTANTS
  Procs = {p1, p2}
  Images = {before, after}
  before = before
  after = after
  Pids = {pid1, pid2}
  PatchLength = 1
  MaxStarts = 2
  MaxFaults = 1
  MaxForeign = 1
  MaxLosses = 1
  Bytes <- MCBytes
  Original <- MCOriginal
  Patch <- MCPatch
  Protections <- MCProtections
  Executable <- MCExecutable
  WritableExecutable <- MCWritable
  HomeProtection = "RX"
  RWX = "RWX"
  NoExplorer = NoExplorer
  NoState = NoState
  Corrupt = Corrupt
  NoProc = NoProc
CHECK_DEADLOCK FALSE
SYMMETRY Symmetry
INVARIANTS
  TypeOK
  UndoCovers
  HomeCovers
  TruthfulReport
  RefusalBlamesOthers
PROPERTIES
  ImplementsGuard
  WriteAhead
  DryRunIsDry
