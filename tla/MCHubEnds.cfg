SPECIFICATION FairSpec
CONSTANTS
    NoDrainer = NoDrainer
    NoSession = NoSession
    NoWork = NoWork
    NoCommand = NoCommand
PROPERTIES
    UnusableSessionReaped
    QueuedEventuallyDispatched
    HubCleansUp
CHECK_DEADLOCK FALSE
