CONSTANTS
    Server = {s1, s2}
    NoEnd = NoEnd
    CallId = {c1}
    MaxGen = 3
SPECIFICATION FairSpec
INVARIANTS TypeOK ReachedOwnsPersister AckedDurable EndsCurrent
PROPERTIES ImplementsRpc CallReturns
