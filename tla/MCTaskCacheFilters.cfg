\* One reader of several lists of two tasks.
SPECIFICATION CacheSpec
CONSTANTS
    p1 = p1
    r1 = r1
    r2 = r2
    ann = ann
    t1 = t1
    NULL = NULL
    Procs <- MCProcs
    Readers <- OneReader
    Users <- MCUsers
    Teams <- MCTeams
    InitialMembers <- MCMembers
    RawTitles <- MCTitles
    TrimSpace <- MCTrimSpace
    GoodTitles <- MCTitles
    GoodDescriptions <- MCDescriptions
    NewTasks <- MCNewTasks
    Patches <- MCPatches
    Filters <- Several
    Times = {0}
    MaxTasks = 2
    MaxVersion = 2
    DefaultLimit = 1
    MaxLimit = 2
CONSTRAINT OnePageAtATime
INVARIANTS
    PageFitsFilter
