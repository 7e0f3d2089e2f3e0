\* Two clients, a burst of two, and time for the ticker to fire twice and
\* for an idle bucket to be collected; the clock stops at MaxTime.
SPECIFICATION Spec
CONSTANTS
    home = home
    office = office
    NULL = NULL
    Addresses <- MCAddresses
    Cost = 1
    Capacity = 2
    TTL = 3
    RetryAfter = 2
    MaxStall = 1
    MaxTime = 8
SYMMETRY Symmetry
INVARIANTS
    RateNeverExceeded
    RetryAfterSuffices
    IdleBucketsGo
    IInv
PROPERTIES
    ImplementsTokenBucket
