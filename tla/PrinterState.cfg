SPECIFICATION StateSpec
CONSTANTS
    Kinds = {"link", "full", "bare", "offline", "status", "fun", "delta"}
    MaxSession = 2
    MaxEvents = 2
    MaxTasks = 2
INVARIANTS
    OnlyCurrentIsOnline
CHECK_DEADLOCK FALSE
