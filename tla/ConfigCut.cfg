SPECIFICATION StartSpec
CONSTANTS
  Configs <- MCConfigs
  HandFiles <- MCHandFiles
  CommandLines <- MCCommandLines
  Numbers <- MCNumbers
INVARIANT CutFileIsRefused
CHECK_DEADLOCK FALSE
