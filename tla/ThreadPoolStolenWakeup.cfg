\* A pool that shrinks: a wake-up meant for a task is spent on a retirement.
SPECIFICATION FairTaskSpec
CONSTANTS
    Callers = {c1}
    Tasks = {t1, t2, t3}
    NoTask = NoTask
    minNum = 1
    maxNum = 2
    queueCapacity = 2
PROPERTY
    EveryTaskFinishes
