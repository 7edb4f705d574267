SPECIFICATION SerialSpec
CONSTANTS
  SerialScripts <- MCEmptyScripts
  ReadMax = 256
  MaxOpens = 1
  Payloads = {}
  MaxSends = 0
INVARIANT LengthIsPayload
CHECK_DEADLOCK FALSE
