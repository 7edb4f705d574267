SPECIFICATION ChannelSpec
CONSTANTS
  Scripts <- MCScripts
  RecvMax = 5
INVARIANTS
  ChunkingIrrelevant
  LeftoverIsOneFrameStart
  ParsersAgree
  CleanStreamLossless
CHECK_DEADLOCK FALSE
