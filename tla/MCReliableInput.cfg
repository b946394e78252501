SPECIFICATION FairSpec
CONSTANTS
    MaxEvents = 3
    SeqMod = 3
    kMaxRetries = 2
    RetryTicks = 2
INVARIANTS
    StatsAccount
    SendsBounded
PROPERTIES
    
    QueueDrains
CHECK_DEADLOCK FALSE
