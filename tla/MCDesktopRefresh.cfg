SPECIFICATION Spec
CONSTANTS
    Delays <- MCDelays
    MaxVersion = 2
    MaxRestarts = 1
INVARIANTS
    TypeOK
    RefreshNotLost
PROPERTY
    LastDataRemains
    PageCatchesUp
