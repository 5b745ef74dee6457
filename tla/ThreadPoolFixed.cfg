\* A pool of two workers with two callers that fill the ring, whose tasks return.
SPECIFICATION FairTaskSpec
CONSTANTS
    Callers = {c1, c2}
    Tasks = {t1, t2, t3}
    NoTask = NoTask
    minNum = 2
    maxNum = 2
    queueCapacity = 2
INVARIANTS
    WakeupPerTask
    WakeupPerRoom
PROPERTIES
    EveryTaskFinishes
    AddReturns
    JoinReturns
