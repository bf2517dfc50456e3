CONSTANTS
    a = a
    b = b
    c = c
    tiny = tiny
    Sizes = {a, b, c, tiny}
    Small = {tiny}
    Start = a
    None = none
    MaxLayouts = 3
    MaxPending = 4
    MaxDrops = 1
SPECIFICATION Spec
INVARIANTS TypeOK LookIsHonoured
CHECK_DEADLOCK FALSE
