CONSTANTS
    Key = {"a", "b"}
    MaxLen = 2
    MaxOld = 1
    MaxJobs = 2
    NFiles = 2
    MaxReduce = 3
SPECIFICATION Spec
INVARIANTS  NoInputPassedOver
CHECK_DEADLOCK FALSE
