SPECIFICATION Spec
CONSTANTS
    p = p
    v1 = v1
    v2 = v2
    plain = plain
    hybrid = hybrid
    Keys = {p, v1}
    Ids = {plain, hybrid}
    IdOf <- PlainIdOf
    Link <- MCLink
    Best <- MCLink
    None = None
    Watched = {p, v1}
    MaxSaves = 2
PROPERTY
    SavesAreAnswered
