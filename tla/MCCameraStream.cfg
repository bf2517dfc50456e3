CONSTANTS
    e1 = e1
    e2 = e2
    Encoders = {e1, e2}
    None = none
    MaxOwed = 2
SPECIFICATION Spec
INVARIANTS TypeOK BuffersInUseExist NothingUnasked NothingOld LightGoesOff
PROPERTIES StopIsHandled
\* A pause and a callback may wait for each other, and a crash ends it all.
CHECK_DEADLOCK FALSE
