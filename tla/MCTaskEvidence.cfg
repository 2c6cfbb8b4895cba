SPECIFICATION Spec
CONSTANTS
    c1 = c1
    j1 = j1
    j2 = j2
    s1 = s1
    s2 = s2
    r1 = r1
    r2 = r2
    e1 = e1
    f1 = f1
    o1 = o1
    o2 = o2
    None = None
    Requests = {r1}
    JobIds = {j1, j2}
    EffectIds = {}
    FindingIds = {}
    Operations = {o1, o2}
    Sources = {s1, s2}
    Checks = {c1}
    Contracts <- AccountsContracts
    Observations <- EvidenceObservations
    Receipts <- BillingReceipts
    Charges <- BillingCharges
    InitialLimits <- MCLimits
    StopOutcomes <- MCStop
    MaxGeneration = 5
INVARIANTS
    TypeOK
    CertificateSound
    ObservedOnce
    CompleteIsSettled
    UsageExact
PROPERTIES
    TerminalFrozen
    NoOrphanEvidence
CONSTRAINT AccountsRun
SYMMETRY Jobs
CHECK_DEADLOCK FALSE
