SPECIFICATION Spec
CONSTANTS
    c1 = c1
    c2 = c2
    fresh = fresh
    stale = stale
    k1 = k1
    k2 = k2
    None = None
    MaxReplaced = 1
    Readers = {c1, c2}
    Truths = {fresh}
    FreshTruths = {fresh}
    Keys = {k1, k2}
    MaxRev = 1
    MaxClock = 0
    MaxLag = 1
    Skew = 0
    MaxObsAge = 1
    ObsTtl = 1
    DocTtl = 1
    MaxAge = 2
SYMMETRY Symmetry
INVARIANTS
    VerifierBehindIssuer
    IssuerLinear
PROPERTY
    VerifierImplementsLedger
