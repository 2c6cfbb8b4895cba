SPECIFICATION ScreenSpec
CHECK_DEADLOCK FALSE
CONSTANTS
    MaxPieces = 2
    MaxInputs = 2
INVARIANTS
    DialogAnswerable
