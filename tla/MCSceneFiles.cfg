SPECIFICATION Spec
CONSTANTS
    Thread = {t1, t2}
    Id = {a}
    Version = {v1, v2}
    Path = {f1}
    Inode = {n1, n2, n3}
    None = None
    Torn = Torn
INVARIANTS
    FileIsLastSaved
    NoOrphanTmp
SYMMETRY Symmetry
