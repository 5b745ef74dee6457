\* threadPoolDestroy's signals against a worker about to sleep.
SPECIFICATION Spec
CONSTANTS
    Callers = {c1}
    Tasks = {t1}
    NoTask = NoTask
    minNum = 1
    maxNum = 1
    queueCapacity = 1

INVARIANT
    DestroyWakesSleepers
