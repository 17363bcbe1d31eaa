SPECIFICATION Spec
CONSTANTS
    Thread = {t1}
    Scene = {s}
    Instance = {i}
    Version = {1, 2}
    Runtime = {x, y}
    Unpinned = 0
    None = None
SYMMETRY MCSymmetry
PROPERTY StructuralChangeRecreates
