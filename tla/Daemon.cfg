SPECIFICATION DFairSpec
CONSTANTS
    Modes = {"alone", "fork"}
    Sendable = {"INT", "TERM", "HUP"}
    Targets = {"main", "group"}
    MaxSignals = 2
    Faults = TRUE
CHECK_DEADLOCK FALSE
INVARIANTS LoneSignal
PROPERTIES TermEnds HupRereads EndTogether
