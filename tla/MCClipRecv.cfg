CONSTANTS
    Offers <- MixedOffers
    Path <- SharedNames
    None = none
    MaxCopies = 2
    MaxFails = 1
SPECIFICATION Spec
INVARIANTS TypeOK LastCopyWins
PROPERTIES PublishedComplete NoForeignBytes TransfersEnd
\* The server need not copy again.
CHECK_DEADLOCK FALSE
