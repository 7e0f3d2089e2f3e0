\* Writes that end, and pages that expire.
SPECIFICATION ExpiringSpec
CONSTANTS
    p1 = p1
    r1 = r1
    r2 = r2
    ann = ann
    t1 = t1
    NULL = NULL
    Procs <- MCProcs
    Readers <- OneReader
    Users <- MCUsers
    Teams <- MCTeams
    InitialMembers <- MCMembers
    RawTitles <- MCTitles
    TrimSpace <- MCTrimSpace
    GoodTitles <- MCTitles
    GoodDescriptions <- MCDescriptions
    NewTasks <- MCNewTasks
    Patches <- MCPatches
    Filters <- AllOpen
    Times = {0, 1}
    MaxTasks = 1
    MaxVersion = 2
    DefaultLimit = 1
    MaxLimit = 2
PROPERTIES
    EventuallyFresh
