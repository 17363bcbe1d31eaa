CONSTANTS
    Thread = {t1, t2}
    Id = {i1}
    Session = {s1, s2}
    NoSession = NoSession
    NoId = NoId
SPECIFICATION FairSpec
INVARIANTS
    StoppedIsOver
    DestroyedIsJoined
    FileHasSession
PROPERTIES
    StopReturns
    ErrorEnds
