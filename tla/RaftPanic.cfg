CONSTANTS
    Server = {s1,s2}
    Value = {v1}
    None = None
    MaxTerm = 2
    MaxTimeouts = 1
    MaxLog = 1
    MaxRounds = 3
    MaxCrashes = 0
SPECIFICATION Spec
SYMMETRY Symmetry
CHECK_DEADLOCK FALSE
INVARIANT NoPanic
