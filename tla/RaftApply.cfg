CONSTANTS
    Server = {s1,s2,s3}
    Value = {v1,v2}
    None = None
    MaxTerm = 3
    MaxTimeouts = 2
    MaxLog = 1
    MaxRounds = 2
    MaxCrashes = 0
SPECIFICATION Spec
SYMMETRY Symmetry
CHECK_DEADLOCK FALSE
INVARIANT StateMachineSafety
CONSTRAINT ElectionAfterApply
