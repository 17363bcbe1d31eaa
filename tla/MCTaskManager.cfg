SPECIFICATION FairSpec
CONSTANTS
    Thread = {t1, t2}
    Task = {k1}
    InstanceId = {i1}
    NoTask = NoTask
    MaxCreates = 2
    MaxSteps = 2
INVARIANTS
    OutcomeIsOwn
PROPERTIES
    RunEnds
