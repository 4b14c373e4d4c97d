SPECIFICATION FairSpec
CONSTANTS
    None = None
    NoVal = NoVal
    TeardownTask = TeardownTask
    f1 = f1
    j1 = j1
PROPERTIES
    EverythingEnds
CHECK_DEADLOCK FALSE
