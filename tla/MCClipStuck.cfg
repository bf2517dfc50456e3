CONSTANTS
    Offers <- FileOffers
    Path <- DistinctNames
    None = none
    MaxCopies = 2
    MaxFails = 1
SPECIFICATION Spec
INVARIANTS NoneLeftDone
CHECK_DEADLOCK FALSE
