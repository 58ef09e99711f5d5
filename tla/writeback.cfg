SPECIFICATION Spec
CONSTANTS
    Actors = {a1, a2}
    Tables = {1, 2}
    Unknown = {2}
    Keys = {1}
    Indices = {0, 1}
    MaxCalls = 3
CHECK_DEADLOCK FALSE
INVARIANTS TypeOK Announced WrittenBack 
