SPECIFICATION FairSpec
CONSTANTS
  GrantCounts = {1, 2, 3}
  Cap = 2
  FrameLen <- MCFrameLen
  SleepTicks = 2
  GrabFailLimit = 2
INVARIANTS
  FrameStableWhileSent
  StreamWellFormed
  BetweenClients
  RunCleansUp
PROPERTIES
  ImplementsVideoLink
  StopLeadsToExit
  GoneClientReleased
  CameraLossDropsClient
