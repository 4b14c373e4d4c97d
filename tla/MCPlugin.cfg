SPECIFICATION Spec
CONSTANTS
    None = None
    Studio = {"main", "side"}
    LoggedOut = FALSE
    MaxTasks = 1
    MaxEpoch = 1
INVARIANTS
    AccountHonest
    CallbacksCurrent
    DestroyIsClean
    StudioIsTold
    StudioAnswersHonest
    PresetsAgree
PROPERTIES
    NoLateEffect
CHECK_DEADLOCK FALSE
