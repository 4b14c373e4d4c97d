SPECIFICATION Spec
CONSTANTS
    NoSession = NoSession
    NoWork = NoWork
    Null = Null
    Absent = Absent
    Blank = Blank
    Missing = Missing
    Conns = {1, 2, 3}
    Peers = {"p", "q"}
    Agents = {"a", "a2"}
    Tenants = {"t1"}
    TenantOf <- AgentTenant
    MaxConns = 3
    MaxPeer = 2
    MaxAgent = 1
    MaxTenant = 1
    Tls = TRUE
    NoDrainer = NoDrainer
    Artifacts = {"a1", "a2", "a3"}
    Owners = {"t1", "t2"}
    OwnerOf <- UploadTenant
    SizeOf <- UploadSize
    Jobs = {"j1"}
    Drainers = {}
    MaxStaged = 2
    MaxTenantStaged = 1
    CountLimit = 1
    ByteLimit = 3
    GlobalCount = 3
    GlobalBytes = 2
    Retention = FALSE
    MaxFailures = 0
    Kinds = {"link", "full", "bare", "offline", "status", "fun", "delta", "features", "nofeatures"}
    MaxSession = 2
    MaxEvents = 2
    MaxTasks = 2
    Users = {"u"}
    Tokens = {1, 2}
    Tickets = {"t"}
    Requests = {"p", "q"}
    NoAuth = FALSE
    Scopes = {}
    Needs = {"operator"}
INVARIANTS
    JobsConsistent
    ArtifactsKept
    LiveCommandsOwned
    ShownAsReported
    TokensHonoured
    SlotsExact
    ViewsAgree
    ExecutedAsAccepted
PROPERTIES
    OutcomesStand
    NothingGoesBack
CHECK_DEADLOCK FALSE
