SPECIFICATION Spec
CONSTANTS
    MacKinds <- MCMacKinds
    VmKinds <- MCVmKinds
    Files = 2
    MaxCopies = 3
    MaxPastes = 1
    MaxDrops = 1
INVARIANTS
    TypeOK
    FilesOfToldList
    OnlyFilesComeBack
    SerialCopiesAgree
PROPERTIES
    CopyReachesVm
    PastesEnd
CHECK_DEADLOCK FALSE
