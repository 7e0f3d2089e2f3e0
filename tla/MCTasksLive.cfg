\* Two requests that wait for one row lock, under the fairness of the code.
SPECIFICATION FairSpec
CONSTANTS
    p1 = p1
    p2 = p2
    ann = ann
    bob = bob
    eve = eve
    t1 = t1
    NULL = NULL
    Procs <- TwoProcs
    Users <- TwoUsers
    Teams <- MCTeams
    InitialMembers <- TwoMembers
    RawTitles <- MCRawTitles
    TrimSpace <- MCTrimSpace
    GoodTitles <- MCGoodTitles
    GoodDescriptions <- MCDescriptions
    NewTasks <- RacingTasks
    Patches <- LivePatches
    Times = {0}
    MaxTasks = 1
    MaxVersion = 2
PROPERTIES
    EveryRequestAnswered
