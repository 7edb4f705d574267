SPECIFICATION CameraSpec
CONSTANT GrantCounts = {0, 1, 2, 3, 4}
INVARIANT StartableWhenIdle
