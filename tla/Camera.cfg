SPECIFICATION CameraSpec
CONSTANT GrantCounts = {0, 1, 2, 3, 4}
INVARIANTS
  TypeOK
  HeldFrameIntact
  NoBufferLost
  CaptureNeverStalls
  NoHalfOpen
