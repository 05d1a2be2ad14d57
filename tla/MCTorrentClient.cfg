SPECIFICATION Spec
CONSTANTS
    Objects = {t1, t2}
    v1 = v1
    v2 = v2
    other = other
    hybrid = hybrid
    plain = plain
    Keys = {v1, v2, other}
    Ids = {hybrid, plain}
    IdOf <- MCIdOf
    None = None
    Session = Session
    MaxAlerts = 2
    MaxDepth = 2
INVARIANTS
    TypeOK
    DisciplineIsEnough
    ListOwnsHandles
    HashesAreDistinct
    NoTorrentIsLost
    OthersStayAttached
PROPERTIES
    EveryTorrentIsVisited
    ImplementsRegistry
