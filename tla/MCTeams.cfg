\* Two requests at a time of three users about one team, with failures and
\* crashes between any two of their steps.
SPECIFICATION Spec
CONSTANTS
    p1 = p1
    p2 = p2
    ann = ann
    bob = bob
    eve = eve
    NULL = NULL
    BadEmail = BadEmail
    Procs <- MCProcs
    Users <- MCUsers
    MaxTeams = 1
SYMMETRY Symmetry
INVARIANTS
    OwnerIsCreator
    RecheckFindsMember
PROPERTIES
    ImplementsTable
    RolesChangeByOwner
    JoinByInvitation
    ForbiddenIsDeserved
