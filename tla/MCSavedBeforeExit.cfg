SPECIFICATION Spec
CONSTANTS
    p = p
    v1 = v1
    v2 = v2
    plain = plain
    hybrid = hybrid
    Keys = {p, v1, v2}
    Ids = {plain, hybrid}
    IdOf <- MCIdOf
    Link <- MCLink
    Best <- MCBest
    None = None
    Watched = {p, v1, v2}
    MaxSaves = 2
PROPERTY
    SavedBeforeExit
