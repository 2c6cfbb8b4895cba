SPECIFICATION Spec
CHECK_DEADLOCK FALSE
CONSTANTS
    Jobs = {j1}
    Paths = {p1, p2}
    ReadOnly = {}
    RetainedGuests = 1
    MaxOwnerEdits = 1
    MaxSandboxFaults = 1
    WithCost = TRUE
    Cutoffs = {0, 1}
    ImportTries = {1, 2}
    ImportOps = {"o1", "o2"}
    Wanted = {"c"}
    MaxLineage = 3
    PerIndex = 2
    PageRecords = {2}
    PageBytes = {9}
    MaxAppends = 1
    Names = {n1, n2}
    MaxTreeEdits = 2
    MaxIndexEdits = 1
    MaxHeadMoves = 1
    MaxPieces = 2
    MaxInputs = 4
    Width = 2
    Rows = 2
    MaxCells = 5
    MaxKeys = 5
    MaxPrompts = 1
    MaxForks = 2
    MaxGenerations = 3
    MaxChanges = 2
    MaxBytes = 12
    MaxOutput = 4
    MaxItems = 6
    MaxText = 6
    MAX_SUBAGENTS = 2
    MIN_WINDOW = 1
    MAX_WINDOW = 2
    unset = unset
    MaxEdits = 1
    MaxSaves = 2
    MaxStarts = 1
INVARIANTS
    ScreenSound
    FilesSound
    HistorySound
PROPERTIES
    WorkbenchSteps
