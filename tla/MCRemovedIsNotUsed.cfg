SPECIFICATION Spec
CONSTANTS
    Objects = {t1, t2}
    v1 = v1
    v2 = v2
    other = other
    hybrid = hybrid
    plain = plain
    Keys = {v1, v2, other}
    Ids = {hybrid, plain}
    IdOf <- MCIdOf
    None = None
    Session = Session
    MaxAlerts = 1
    MaxDepth = 1
PROPERTY
    RemovedIsNotUsed
