CONSTANTS
    FrameSizes <- ThreeSizes
    MaxFrames = 3
    MaxResizes = 3
    MaxFails = 1
SPECIFICATION FrameSpec
INVARIANTS FrameTypeOK NoFrameForgotten
PROPERTIES LastFrameShown
\* The bounds of the model let the server fall silent.
CHECK_DEADLOCK FALSE
