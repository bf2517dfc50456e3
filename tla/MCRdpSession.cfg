CONSTANTS
    Channels = {disp, clip}
    Disp = disp
    MaxAttempts = 2
    MaxHandlers = 2
    MaxDrops = 2
SPECIFICATION Spec
INVARIANTS TypeOK FreedContextIsAnnounced FreedAfterDisconnect PointersFresh
PROPERTIES KeepsPromise StopEnds
\* The process ends: "exited" is the only state without a successor.
CHECK_DEADLOCK FALSE
