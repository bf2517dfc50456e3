CONSTANTS
    FrameSizes <- TurnedSizes
    MaxFrames = 3
    MaxResizes = 3
    MaxFails = 0
SPECIFICATION FrameSpec
INVARIANTS NeverSheared
\* The bounds of the model let the server fall silent.
CHECK_DEADLOCK FALSE
