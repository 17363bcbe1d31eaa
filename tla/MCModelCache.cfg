SPECIFICATION CacheSpec
CONSTANTS
    Handler = {t1, t2, t3}
    SceneKey = {s1, s2}
    DirectKey = {d}
    Model = {m1, m2, m3, m4}
    Holder = {i1, i2}
    MaxCached = 1
    Null = Null
SYMMETRY MCSymmetry
INVARIANTS LoadsOwnXml
PROPERTIES InUseStays GrowthIsBounded
