SPECIFICATION FairSpec
CONSTANTS
    Callers = {a, b}
    IO = IO
    Missing = Missing
    Torn = Torn
    MaxSets = 3
INVARIANTS
    LostOnlyAs
    FileWhole
    SavedMeansSame
PROPERTIES
    EventuallySaved
CHECK_DEADLOCK FALSE
