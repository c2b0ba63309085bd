SPECIFICATION PSpec
CONSTANTS
    Bytes <- Few
    MaxMethod = 2
    MaxUri = 1
    MaxHeaders = 2
    UIntRange = 1000
    MaxInput = 26
    MaxResets = 1
CHECK_DEADLOCK FALSE
INVARIANTS VerdictIsRight
CONSTRAINT Representative
