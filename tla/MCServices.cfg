SPECIFICATION Spec
CHECK_DEADLOCK FALSE
CONSTANTS
    Prompts = {p1}
    Shells = {sh}
    NoDraft = NoDraft
    Attempts = 2
    MaxIds = 1
    MaxSessions = 2
    Instances = {i1, i2}
    Accounts = {a1, a2}
    Absent = Absent
    MaxLogins = 2
    MaxRotations = 1
    MaxRestarts = 1
    Unknown = Unknown
    MaxAttempts = 2
    MaxEvents = 2
    Contents = {x1, x2}
    MemorySessions = {m1}
    MaxRecords = 2
    Probation = 1
    MaxId = 3
    MaxVersion = 2
    MaxNow = 1
    Runs = {u1, u2}
    RemoteClients = {rc1, rc2}
    NoRun = NoRun
    SendAttempts = 2
    MaxWrites = 3
    MaxFaults = 2
    DumpIds = {1, 2, 3}
    DumpLimit = 2
    Browsers = {br1, br2}
    Ranges = {g0, g1}
    DefaultRange = g0
    NoRange = NoRange
    PrepareAttempts = 2
    MaxPages = 1
    MaxEdits = 1
    MaxGenerations = 1
    MaxAsked = 2
    Spans = {s0, s1}
    FirstSpan = s0
    NoSpan = NoSpan
    MaxServerGen = 1
    MaxCalls = 3
    MaxDisturbed = 2
    Requests = 2
    CellCalls = 2
    HostCalls = 1
    CallWindow = 1
    CrashBound = 1
    Baseline = 3
    Sessions = {1}
    Sizes = {1}
    Heldout = 2
    PageSize = 2
    MaxJournal = 4
    MaxReleases = 4
    MaxInstalls = 1
    MonitorCrashes = 1
    MaxEntries = 3
    MaxRetained = 1
    TextItems = {"t1", "t2"}
    CallIds = {"k1"}
    Threads = {h1, h2}
    Messages = {1}
    MaxTurns = 1
    MaxStreamed = 2
    MaxRows = 5
    MaxForked = 1
    Capacity_ = 3
    Window = 4
    PinnedMax = 1
    MaxRowId = 4
    MaxViewed = 4
    JSessions = {"j1","j2"}
    CallsIn = {"k1"}
    Prices = {1,2}
    CheckpointEvery = 2
    PageBytes = 2
    MaxCommands = 4
    Installers = {"p1","p2"}
    Builds = {"b1","b2"}
    FirstBuild = "b1"
    OddBuilds = {"b2"}
    MaxUploads = 1
    MaxDamage = 1
    ToolCalls = {"t1","n1"}
    NativeCalls = {"n1"}
    Bodies = {"x","y"}
    MaxForeign = 1
    WalkDepth = 2
    WalkEntries = 4
    MaxPrinted = 2
    MaxAmendments = 1
    MaxProposed = 2
    MaxDisturbances = 1
    AuxCalls = 3
    AuxTokens = 3
    MaxSpend = 2
    AuxRecords = 8
    AuxRetries = 1
    Callers = {c1, c2}
    Senders = {c1}
    MaxHosts = 2
    MaxConfigs = 1
    MaxLosses = 1
    RunPermits = 1
    MaxConnects = 1
    MaxItems = 3
    PageItems = 2
    MaxRevisions = 5
    c1 = c1
    c2 = c2
    Notes = {1, 2, 3}
    MaxJobs = 2
    MaxUpdates = 1
    MaxHeight = 7
    MaxPieces = 3
    MaxCode = 4
    clone_window = 2
    max_hotspots = 1
    MaxListed = 2
    Workers = 1
INVARIANTS
    ClientSound
    ProviderSound
    MemorySound
    ReviewSound
    JudgementSound
    ToolsSound
PROPERTIES
    ServicesSteps
