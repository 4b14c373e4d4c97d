SPECIFICATION Spec
CONSTANTS
    None = None
    NoVal = NoVal
    TeardownTask = TeardownTask
    f1 = f1
    f2 = f2
    j1 = j1
INVARIANTS
    ReportsAccounted
    OutcomeIsOwn
    CamerasExact
    FirmwareHonest
    AnswersTheErrorSeen
PROPERTIES
    GuardsHoldAtTheStep
CHECK_DEADLOCK FALSE
