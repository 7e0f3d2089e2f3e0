\* Two requests at a time on one task of one team, with every role change,
\* failure and crash between any two of their steps.
SPECIFICATION Spec
CONSTANTS
    p1 = p1
    p2 = p2
    ann = ann
    bob = bob
    eve = eve
    t1 = t1
    NULL = NULL
    Procs <- TwoProcs
    Users <- TwoUsers
    Teams <- MCTeams
    InitialMembers <- TwoMembers
    RawTitles <- MCRawTitles
    TrimSpace <- MCTrimSpace
    GoodTitles <- MCGoodTitles
    GoodDescriptions <- MCDescriptions
    NewTasks <- RacingTasks
    Patches <- RacingPatches
    Times = {0}
    MaxTasks = 1
    MaxVersion = 3
SYMMETRY Symmetry
INVARIANTS
    IInv
    HistoryExplainsRow
    VersionCountsHistory
    AcknowledgedEditIsLogged
PROPERTIES
    CommitAuthorized
    RightLostByDemotionOnly
    ImplementsBoard
