CONSTANTS
    Client = {c1, c2}
    Lockname = {l1, l2}
    MaxCalls = 2
SPECIFICATION FairSpec
CHECK_DEADLOCK FALSE
INVARIANTS LockExclusive OneLostGrant
PROPERTY LockReturns
