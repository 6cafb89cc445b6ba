CONSTANTS
    k1 = k1  k2 = k2  k3 = k3
    p1 = p1  p2 = p2
    c1 = c1  c2 = c2  a = a  b = b
    Owner <- MCOwner
    Posts = {p1, p2}
    Offers <- MCOffers
    Calls = {c1, c2}
    Fetcher <- MCFetcher
    Asks <- MCAsks
    Items = {a, b}
    Workers = 2
    MaxAttempts = 2
    Cap = 1
    Lap = 6
    MaxTime = 1
    MaxFaults = 1
    NoKey = NoKey
    NoItem = NoItem
SPECIFICATION FairSpec
INVARIANTS TypeOK PoolMatchesList ContributionsSurvive CacheGrowsByRacesOnly
PROPERTIES BenchedOnlyIfNeeded RequestEnds
CHECK_DEADLOCK FALSE
