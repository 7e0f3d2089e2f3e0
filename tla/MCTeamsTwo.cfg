\* Two requests at a time of two users: two teams may be created at once.
SPECIFICATION Spec
CONSTANTS
    p1 = p1
    p2 = p2
    ann = ann
    bob = bob
    eve = eve
    NULL = NULL
    BadEmail = BadEmail
    Procs <- MCProcs
    Users <- TwoUsers
    MaxTeams = 2
SYMMETRY TwoSymmetry
INVARIANTS
    IInv
