SPECIFICATION FairSpec
CONSTANTS
  GrantCounts = {2}
  Cap = 2
  FrameLen <- MCFrameLen
  SleepTicks = 1
  GrabFailLimit = 2
PROPERTY CameraLossLeadsToExit
