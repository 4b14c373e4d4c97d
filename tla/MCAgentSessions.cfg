SPECIFICATION Spec
CONSTANTS
    h1 = h1
    h2 = h2
    s1 = s1
    s2 = s2
    s3 = s3
    Hubs = {h1, h2}
    Sessions = {s1, s2, s3}
    HubOf <- MCHubOf
    NoSession = NoSession
    MaxFaults = 1
    Timeouts = TRUE
INVARIANTS TypeOK NewestRegisteredIsPersisted NoShadowing
CHECK_DEADLOCK FALSE
