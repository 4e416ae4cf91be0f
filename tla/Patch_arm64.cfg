SPECIFICATION FairSpec
CONSTANTS
  Procs = {p1, p2}
  Images = {before}
  before = before
  after = after
  Pids = {pid1, pid2}
  PatchLength = 2
  MaxStarts = 2
  MaxFaults = 2
  MaxForeign = 0
  MaxLosses = 0
  Bytes <- MCBytes
  Original <- MCOriginal
  Patch <- MCPatch
  Protections <- MCProtections
  Executable <- MCExecutable
  WritableExecutable <- MCWritable
  HomeProtection = "RX"
  RWX = "RWX"
  NoExplorer = NoExplorer
  NoState = NoState
  Corrupt = Corrupt
  NoProc = NoProc
CHECK_DEADLOCK FALSE
INVARIANTS
  IInv
PROPERTIES
  Terminates
  Recovers
