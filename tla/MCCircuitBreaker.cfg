SPECIFICATION FairSpec
CONSTANTS
    Slots = {s1, s2, s3, s4}
    Horizon = 3
    Configs <- MCConfigs
    RateLimitWeight = 2
    MaxInFlight = 2
INVARIANTS TypeOK Accounting ClosedBelowThreshold
PROPERTIES CoolDownNeverRestarts NeverLockedOut ImplementsCoolDown
