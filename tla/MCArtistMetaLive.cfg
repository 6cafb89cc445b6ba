CONSTANTS
    a1 = a1  a2 = a2  b1 = b1  ka = ka  kb = kb  p1 = p1
    Names = {a1, a2, b1}
    Keys = {ka, kb}
    NameKey <- MCNameKey
    Facts <- MCFacts
    Asks <- MCAsks
    Pollers = {p1}
    Vetoes = {v1}
    QueueCap = 1
    MaxEnqueue = 2
    HasDb = TRUE
    QueriesFail = FALSE
    MaxFaults = 1
    NoRow = NoRow
    NoName = NoName
SPECIFICATION FairSpec
PROPERTIES PolledClaimReleased PolledNameSettles MbidNeverErased
