SPECIFICATION CFairSpec
CONSTANTS
    Requests <- All
    MaxLength = 2
    MaxSent = 3
CHECK_DEADLOCK FALSE
INVARIANTS OkIsOwn OneOwnLength
PROPERTIES RequestAnswered
