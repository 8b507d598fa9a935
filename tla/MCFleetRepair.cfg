SPECIFICATION Spec
CONSTANTS
    s1 = s1
    s2 = s2
    Sources = {s1, s2}
    RequestTtl = 5
    LeaseWindow = 2
    ForcedGap = 2
    MaxBusy = 1
    MaxCrashes = 1
INVARIANTS
    TypeOK
    ConsumableUntilCrash
    CoalescedIsCovered
    NoneExpiresUnserved
PROPERTY
    WakeLeadsToClaim
