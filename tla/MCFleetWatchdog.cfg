SPECIFICATION Spec
CONSTANTS
    McpFailThreshold = 2
    TunnelFailThreshold = 1
    Cooldown = 1
    Hour = 2
    MaxRestartsPerHour = 2
    Backoff = 1
    UtcOffset = 0
    MaxCrashes = 1
INVARIANTS
    TypeOK
    HourlyCap
    CooldownKept
PROPERTIES
    StoppedIsStarted
    SickMcpIsRestarted
