\* One writer and two readers of one list, with failures of Redis between
\* any two of their steps.
SPECIFICATION CacheSpec
CONSTANTS
    p1 = p1
    r1 = r1
    r2 = r2
    ann = ann
    t1 = t1
    NULL = NULL
    Procs <- MCProcs
    Readers <- TwoReaders
    Users <- MCUsers
    Teams <- MCTeams
    InitialMembers <- MCMembers
    RawTitles <- MCTitles
    TrimSpace <- MCTrimSpace
    GoodTitles <- MCTitles
    GoodDescriptions <- MCDescriptions
    NewTasks <- MCNewTasks
    Patches <- MCPatches
    Filters <- AllOpen
    Times = {0}
    MaxTasks = 1
    MaxVersion = 2
    DefaultLimit = 1
    MaxLimit = 2
SYMMETRY ReaderSymmetry
INVARIANTS
    CacheIInv
    StaleOnlyForCause
