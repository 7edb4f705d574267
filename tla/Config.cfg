SPECIFICATION StartSpec
CONSTANTS
  Configs <- MCConfigs
  HandFiles <- MCHandFiles
  CommandLines <- MCCommandLines
  Numbers <- MCNumbers
PROPERTIES SectionsWhole SavedIsLoaded SetsWhatItNames
INVARIANT StartsAsTold
CHECK_DEADLOCK FALSE
