\* RPC threads on one instance: start, stop, pause, step and reset race, and
\* configure, apply_runtime and write_qpos get every kind of input.
CONSTANTS
    Thread = {t1, t2, t3}
    Worker = {w1, w2}
    NoWorker = NoWorker
    MaxBatches = 1
    ArraysIn <- MCArraysIn
    WriteIn <- MCWriteIn
SPECIFICATION FairSpec
INVARIANTS
    TypeOK
    HandleIsWorker
    RunningIsDriven
    StopQuiesces
    PoseKnown
    ResetCannotFail
PROPERTIES
    StopReturns
    RunningIsStepped
    KeepsLifecycle
