SPECIFICATION SerialSpec
CONSTANTS
  SerialScripts <- MCSerialScripts
  ReadMax = 4
  MaxOpens = 2
  Payloads <- MCPayloads
  MaxSends = 3
INVARIANTS
  PollsAddUp
  NoFrameSkipped
  SerialRestIsFrameStart
  ReportsLossless
  CrcIsRemainder
  ConfirmedIsReceivable
CHECK_DEADLOCK FALSE
