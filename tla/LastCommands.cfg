SPECIFICATION ChannelSpec
CONSTANTS
  Scripts <- MCCleanScripts
  RecvMax = 512
INVARIANT LastCommandsDelivered
CHECK_DEADLOCK FALSE
