SPECIFICATION Spec
CONSTANTS
    N = 3
    NClients = 1
    Iterations = 2
    MaxWrites = 1
INVARIANTS
    ZombiesSilent
    AckedSurvives
    SidesApart
    LeaderInMinority
    HealedWhileWaiting
    ClientsOfThisIteration
PROPERTY Finishes
CHECK_DEADLOCK FALSE
