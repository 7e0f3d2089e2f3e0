\* One request at a time, of every kind, on one task.
SPECIFICATION Spec
CONSTANTS
    p1 = p1
    p2 = p2
    ann = ann
    bob = bob
    eve = eve
    t1 = t1
    NULL = NULL
    Procs <- OneProc
    Users <- ThreeUsers
    Teams <- MCTeams
    InitialMembers <- ThreeMembers
    RawTitles <- MCRawTitles
    TrimSpace <- MCTrimSpace
    GoodTitles <- MCGoodTitles
    GoodDescriptions <- MCDescriptions
    NewTasks <- AllTasks
    Patches <- AllPatches
    Times = {0, 1}
    MaxTasks = 1
    MaxVersion = 3
INVARIANTS
    TypeOK
    ClosedMatchesStatus
    AssigneeIsMember
PROPERTIES
    ImplementsBoard
