SPECIFICATION DispatchSpec
CONSTANTS
    h1 = h1
    h2 = h2
    s1 = s1
    s2 = s2
    s3 = s3
    Hubs = {h1, h2}
    Sessions = {s1, s3}
    HubOf <- MCHubOf
    NoSession = NoSession
    MaxFaults = 0
    Timeouts = FALSE
    Commands = {1}
    Prints = {1}
    Gated = {}
    GcodeLines = {}
    Capable = {s1, s3}
    NoCommand = NoCommand
    LossyWakes = TRUE
INVARIANTS AtMostOnceDelivery LedgerNeverBehind
PROPERTIES StaleStreamCannotMutate ImplementsLedger
CHECK_DEADLOCK FALSE
