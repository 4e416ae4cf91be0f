SPECIFICATION Spec
CONSTANTS
  Procs = {p1}
  Images = {before}
  before = before
  after = after
  Pids = {pid1, pid2}
  PatchLength = 1
  MaxStarts = 1
  MaxFaults = 0
  MaxForeign = 1
  MaxLosses = 0
  Bytes <- MCBytes
  Original <- MCOriginal
  Patch <- MCPatch
  Protections <- MCProtections
  Executable <- MCExecutable
  WritableExecutable <- MCWritable
  HomeProtection = "RX"
  RWX = "RWX"
  NoExplorer = NoExplorer
  NoState = NoState
  Corrupt = Corrupt
  NoProc = NoProc
CHECK_DEADLOCK FALSE
PROPERTY
  RestoresKnownBytes
