SPECIFICATION Spec
CONSTANTS
  Text <- MCText
  ULongMax = 9999
  Number <- MCNumber
  CommandLines <- MCCommandLines
  Picked = {"enable", "diagnostics"}
  Flipped = {"server", "dry"}
  Foreign <- MCForeign
  NoKey = NoKey
  NoValue = NoValue
  Nothing = Nothing
CHECK_DEADLOCK FALSE
INVARIANTS
  TypeOK
  ExecutedIsSaved
  TornOnlyTurnsOff
  NextMenuContinues
  LogonRepeatsChoice
