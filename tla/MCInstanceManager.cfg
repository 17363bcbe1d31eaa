\* Two handlers, one id, and as many objects as can exist for it at a time.
CONSTANTS
    Thread = {t1, t2}
    Id = {i1}
    Object = {o1, o2}
    NoObject = NoObject
    NoId = NoId
SPECIFICATION FairSpec
INVARIANTS
    InsertFindsIdFree
    NoOrphanWorker
PROPERTIES
    DestructorReturns
