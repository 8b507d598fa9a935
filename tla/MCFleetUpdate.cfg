SPECIFICATION Spec
CONSTANTS
    McpFailThreshold = 1
    TunnelFailThreshold = 1
    Cooldown = 1
    Hour = 1
    MaxRestartsPerHour = 1
    Backoff = 0
    UtcOffset = 0
    MaxCrashes = 1
    MaxUpdates = 1
INVARIANTS
    TypeOK
    QuietUpdateIsClean
PROPERTY
    GatewayComesBack
