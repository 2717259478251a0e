CONSTANTS
    Worker = {w1, w2}
    NMap = 3
    NReduce = 2
    Mortal = {w1}
    Limited = {w1}
    Limit = 2
    Unreadable = {}
    Steady = w2
SPECIFICATION FairSpec
CHECK_DEADLOCK FALSE
INVARIANTS ScheduleComplete OneTaskAtATime NoTaskLost
PROPERTY JobEnds
