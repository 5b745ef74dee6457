\* One worker and one task: the signal comes before the worker sleeps.
SPECIFICATION FairTaskSpec
CONSTANTS
    Callers = {c1}
    Tasks = {t1}
    NoTask = NoTask
    minNum = 1
    maxNum = 1
PROPERTY
    EveryTaskFinishes
