\* One caller adds and then destroys, as test.cpp does; the pool grows and shrinks.
SPECIFICATION FairTaskSpec
CONSTANTS
    Callers = {c1}
    Tasks = {t1, t2}
    NoTask = NoTask
    minNum = 1
    maxNum = 2
INVARIANTS
    TypeOK
    NoNullTask
    LiveNumExact
PROPERTIES
    ImplementsTaskPool
    AwakeDrains
    JoinReturns
