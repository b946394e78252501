SPECIFICATION FairSpec
CONSTANTS
    Threads = {t1, t2}
    Leaves = {v0, v1}
    Default = v0
    Absent = Absent
    MaxCalls = 4
    MaxWatchers = 2
INVARIANTS
    ToldEverySet
    KnowsUnlessSilent
PROPERTIES
    NoneAfterUnwatch
    CallsReturn
CHECK_DEADLOCK FALSE
