SPECIFICATION Spec
CONSTANTS
    Publisher = {p1, p2}
    Session = {s1}
    InstanceId = {i1}
    Name = {i1, i2}
    All = All
    NoSub = NoSub
    NoJob = NoJob
    MaxSubscriptions = 1
INVARIANTS
    EntryBounds
    NoGhost
    LastIsCurrent
    ThrottleForgotten
