CONSTANTS
    a1 = a1  a2 = a2  b1 = b1  ka = ka  kb = kb  p1 = p1
    Names = {a1, a2, b1}
    Keys = {ka, kb}
    NameKey <- MCNameKey
    Facts <- MCFacts
    Asks <- MCAsks
    Pollers = {p1}
    Vetoes = {v1}
    QueueCap = 1
    MaxEnqueue = 1
    HasDb = TRUE
    QueriesFail = TRUE
    MaxFaults = 1
    NoRow = NoRow
    NoName = NoName
SPECIFICATION Spec
PROPERTY MbidNeverErased
