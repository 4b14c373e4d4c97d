SPECIFICATION Spec
CONSTANTS
    Threads = {t1, t2, t3}
    None = None
    MaxGen = 2
    MaxCalls = 2
SYMMETRY Symmetry
INVARIANTS
    LogoutSafe
CHECK_DEADLOCK FALSE
