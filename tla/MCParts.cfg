SPECIFICATION PartsSpec
CONSTANTS
    Order <- MCOrder
    Journals = {"journal"}
    Tools = {"session", "today"}
    StaleAfter = 1
    Sessions = {"server", "request"}
    Modules = {"m1", "m2"}
    Rank <- MCRank
    Enabled = {"m1", "m2"}
    Nobody = "nobody"
    MaxLeaks = 1
    Claimants = {"first", "second"}
    Payloads = {"p", "q"}
    ClaimTtl = 1
    MaxTime = 3
    NoPayload = "none"
    Calls = {1, 2, 3}
    Threshold = 2
    Recovery = 2
    Configs <- MCConfigs
    Missing = Missing
    Ttl <- MCTtl
    ToolTtl <- MCToolTtl
    FailTtl = 2
    Budget <- MCBudget
    ScanMax = 5
    Slots = {1, 2, 3, 4}
    MaxUnrest = 2
    Cards = {"card"}
    Users = {"user"}
    Startup = "startup"
    Places = {"home", "corner"}
    Home = "home"
    Nowhere = "nowhere"
    Replays = 1
    MaxOps = 2
    Trackers = {1, 2}
    NoTracker = 0
    Cursors = {0, 2}
    Minimum = 3
    First <- MCFirst
    tab1 = tab1
    tab2 = tab2
    Tabs = {tab1, tab2}
    NoKey = NoKey
    OtherKey = OtherKey
    MaxUpdates = 2
    MaxRevision = 2
SYMMETRY Symmetry
INVARIANTS
    PartsTypeOK
    FreshIsHeld
    CallsReachStarted
    LastOneStops
    ClaimIsExclusive
    ShownIsRecent
    ScansBounded
    VisibleAsSaved
    RememberedAsLeft
    OneDragGoesOn
    OutboxPreserved
PROPERTY
    SickIsLeftAlone
