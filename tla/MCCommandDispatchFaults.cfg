SPECIFICATION DispatchSpec
CONSTANTS
    h1 = h1
    h2 = h2
    s1 = s1
    s2 = s2
    s3 = s3
    Hubs = {h1}
    Sessions = {s1, s2}
    HubOf <- MCHubOf
    NoSession = NoSession
    MaxFaults = 1
    Timeouts = FALSE
    Commands = {1}
    Prints = {}
    Gated = {1}
    GcodeLines = {}
    Capable = {s1}
    NoCommand = NoCommand
    LossyWakes = FALSE
INVARIANTS TerminalIsAgentOutcome NoProtocolError
PROPERTIES GateHoldsAtSend
CHECK_DEADLOCK FALSE
