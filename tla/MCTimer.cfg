SPECIFICATION FairSpec
CONSTANTS
    Callers = {a, b}
    Threads = {t1, t2}
    Types = {"OneShot", "Repeating"}
    NoOne = NoOne
    Null = Null
    Joined = Joined
INVARIANTS
    NoOrphanThread
    TerminatesOnlyAs
    IsRunningTruthful
PROPERTIES
    StopSilences
    StopReturns
CHECK_DEADLOCK FALSE
