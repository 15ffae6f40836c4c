SPECIFICATION Spec
CONSTANTS
    None = None
    DayLength = 2
    MaxTime = 4
    MaxReceipts = 3
    MaxJobs = 2
    Instants = {0, 3, 4}
    MaxPacks = 2
    MaxPerPack = 2
    MaxTotal = 3
    Limit = 1
INVARIANTS
    TypeOK
    BundleIsComplete
    RootIsInItsPack
    SealFixesParts
    PagesMissNothing
    ListedStands
    CountsFitTogether
\* A reader that has its answer stops.
CHECK_DEADLOCK FALSE
