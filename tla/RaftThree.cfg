CONSTANTS
    Server = {s1,s2,s3}
    Value = {v1,v2}
    None = None
    MaxTerm = 4
    MaxTimeouts = 3
    MaxLog = 2
    MaxRounds = 2
    MaxCrashes = 1
SPECIFICATION MCSpec
SYMMETRY Symmetry
CHECK_DEADLOCK FALSE
INVARIANTS OneLeaderPerTerm GrantsUnique LeaderIsWoken LogMatching
CONSTRAINT ElectionsOrRepair
