SPECIFICATION Spec
CHECK_DEADLOCK FALSE
CONSTANTS
    Reloads = 2
    MaxVersions = 3
    MaxFails = 1
    MaxPanes = 2
    HookRequests = {h1, h2}
    NoRequest = NoRequest
    MaxHookCrashes = 2
    ModelCalls = 2
    UnknownAllowance = 2
    MaxRetries = 1
    MaxProposals = 2
    MaxFollowUps = 1
    MaxChildJobs = 1
    Agents = {a1, a2}
    MaxRunning = 1
    MaxInbox = 2
    MaxChildCalls = 1
    MaxChildRetries = 1
    MaxMessages = 2
    MaxAgentCrashes = 2
    Turns = 1
    Watched = {c1}
    Retained = 1
    SocketRoom = 1
    MaxPreviews = 1
    MaxLosses = 1
INVARIANTS
    HookSound
    AgentsSound
    ViewsSound
PROPERTIES
    TurnsFenced
    EverythingEnds
