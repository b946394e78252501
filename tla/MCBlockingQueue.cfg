SPECIFICATION FairSpec
CONSTANTS
    Threads = {t1, t2, t3, t4}
    Sizes = {0, 1, 2}
    MaxItems = 2
INVARIANTS
    NoLostWakeup
PROPERTIES
    ImplementsQueue
    StopReleases
