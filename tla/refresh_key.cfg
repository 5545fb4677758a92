SPECIFICATION Spec
CONSTANTS
    Calls = {1, 2}
    NoCall = 0
    NFiles = 2
    MaxCsv = 1
    MaxFaults = 1
INVARIANT RebuildsFromAnyState
CHECK_DEADLOCK FALSE
