SPECIFICATION Spec
CONSTANTS
    MaxEvents = 2
    SeqMod = 2
    kMaxRetries = 1
    RetryTicks = 1
INVARIANTS
    NoEventLost
CHECK_DEADLOCK FALSE
