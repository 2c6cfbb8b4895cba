SPECIFICATION TcSpec
CHECK_DEADLOCK FALSE
CONSTANTS
    ModelCalls = 2
    UnknownAllowance = 2
    MaxRetries = 1
    MaxProposals = 2
    MaxFollowUps = 1
    MaxChildJobs = 1
INVARIANTS
    NoLeakedChild
