SPECIFICATION FairSpec
CONSTANTS
    Discoveries = {"first", "second"}
    Names <- MCNames
    Ranked <- MCRanked
    InScope = {"star"}
    Fans <- MCFans
    Own <- MCOwn
    Credited <- MCCredited
    Generic = {"friends"}
    Aliases <- MCAliases
    Page <- MCPage
    VetoFans = 5
    Ceiling = 5
    MaxChecked = 2
    Permits = 1
    PagePermits = 1
    Window = 2
    MaxCalls = 1
    Cooldowns = {2}
    MaxTime = 2
    MaxFails = 1
    NoFans = NoFans
    NoMbid = NoMbid
    NoPage = NoPage
INVARIANTS TypeOK VetoesExact WindowHolds QuietInCooldown
PROPERTY StageEnds
CHECK_DEADLOCK FALSE
