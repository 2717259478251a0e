CONSTANTS
    Server = {s1,s2,s3}
    Value = {v1}
    None = None
    MaxTerm = 3
    MaxTimeouts = 2
    MaxLog = 1
    MaxRounds = 1
    MaxCrashes = 1
SPECIFICATION Spec
SYMMETRY Symmetry
CHECK_DEADLOCK FALSE
PROPERTY LeaderAppendOnly
CONSTRAINT ElectionAfterLeader
