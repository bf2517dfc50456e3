CONSTANTS
    v1 = v1
    v2 = v2
    Vms = {v1, v2}
    NoVm = none
    Patient = TRUE
    MaxLogins = 2
    MaxReplies = 2
SPECIFICATION Spec
INVARIANTS TypeOK ListPageIsLive NoAnonymousRequest RightMachine
PROPERTIES LoginComesBack
CHECK_DEADLOCK FALSE
