\* One team and two users, in every way it can come about; two tasks
\* with up to two edits each, a comment, and reports of one assignee each.
SPECIFICATION ReadsSpec
CONSTANTS
    p1 = p1
    red = red
    ann = ann
    bob = bob
    first = first
    second = second
    NULL = NULL
    Procs <- MCProcs
    Teams <- MCTeams
    Users <- MCUsers
    InitialMembers <- MCInitialMembers
    TaskIds <- MCTaskIds
    NewTasks <- MCNewTasks
    Patches <- MCPatches
    Times = {1}
    RawTitles <- MCTexts
    TrimSpace <- MCTrimSpace
    GoodTitles <- MCTexts
    GoodDescriptions <- MCTexts
    NameOrder <- MCNameOrder
    TopSize = 1
    MaxVersion = 3
    MaxComments = 1
SYMMETRY Symmetry
INVARIANTS
    ReadsAreFresh
    FiguresAgree
    ReadsIInv
    OnlyMembersSee
