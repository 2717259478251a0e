CONSTANTS
    m1 = m1
    m2 = m2
    v = v
    Master <- MCMaster
    ViewServer = v
    ShardClerk = {c1, c3}
    ViewClerk = {c2}
    Mortal <- MCMortal
    MaxOps = 2
    MaxLate = 1
SPECIFICATION Spec
INVARIANTS
    ReturnedRan
    OnceIfReliable
    FailedPingNotRun
    QuietKill
PROPERTIES
    OperationReturns
    KillEnds
CHECK_DEADLOCK FALSE
