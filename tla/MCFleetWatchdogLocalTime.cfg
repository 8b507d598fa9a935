SPECIFICATION Spec
CONSTANTS
    McpFailThreshold = 2
    TunnelFailThreshold = 2
    Cooldown = 1
    Hour = 6
    MaxRestartsPerHour = 5
    Backoff = 3
    UtcOffset = 48
    MaxCrashes = 1
INVARIANT
    CooldownKept
