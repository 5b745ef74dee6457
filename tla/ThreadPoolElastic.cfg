\* One caller adds and then destroys, as main.c does; the pool grows and shrinks.
SPECIFICATION Spec
CONSTANTS
    Callers = {c1}
    Tasks = {t1, t2, t3}
    NoTask = NoTask
    minNum = 1
    maxNum = 3
    queueCapacity = 2
SYMMETRY TaskSymmetry
INVARIANTS
    TypeOK
    LiveNumExact
    BusyNumExact
PROPERTY
    ImplementsTaskPool
