SPECIFICATION Spec
CONSTANTS
    v1 = v1
    v2 = v2
    c1 = c1
    t1 = t1
    t2 = t2
    Viewers = {v1}
    Callers = {c1}
    Truths = {t1}
    MaxRev = 0
    DocLife = 1
    CacheTtl = 2
    Refresher = Refresher
    None = None
PROPERTY
    ExpiredIsNotShown
