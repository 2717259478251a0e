CONSTANTS
    Server = {s1,s2}
    Value = {v1,v2}
    None = None
    MaxTerm = 4
    MaxTimeouts = 3
    MaxLog = 2
    MaxRounds = 2
    MaxCrashes = 1
SPECIFICATION Spec
SYMMETRY Symmetry
CHECK_DEADLOCK FALSE
INVARIANTS LogDurable LogMatching ElectionInv
PROPERTY LeaderAppendOnly
CONSTRAINT FewerRounds
