SPECIFICATION FairSpec
CONSTANTS
    Thread = {t1, t2}
    Id = {m}
    Version = {v1, v2}
    Content = {c}
    InPlace = InPlace
    Partial = Partial
    None = None
    MaxGen = 2
INVARIANTS CommitFindsFree ManifestCurrent PackageMatches
PROPERTIES ReservationReleased KeepsContract
