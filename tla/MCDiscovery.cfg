CONSTANTS
    Names = {1, 2, 3, 4, 5, 6, 7, 8, 9}
    Keys = {1, 2, 3, 4, 5, 6, 7}
    Tags = {1, 2, 3, 4}
    Geo = {4}
    Untagged = 0
    NoThreshold = NoThreshold
    NoName = NoName
    Windows = {"w0", "w1", "w2"}
    Year = "year"
    Norm <- MCNorm
    Clean <- MCClean
    Page <- MCPage
    Info <- MCInfo
    Chart <- MCChart
    UserInfo <- MCUserInfo
    Refused <- MCRefused
    TopTags <- MCTopTags
    TagTop <- MCTagTop
    Similar <- MCSimilar
    LbSimilar <- MCLbSimilar
    Appetites = {NoThreshold, 2}
    Ceiling = 4
    ConvictionCap = 220
    CrossBonus = 50
    OverlapTags = 2
    OverlapPercent = 15
    GenreSlots = 2
    MaxGenres = 2
    MaxShown = 1
    MaxSeeds = 2
    TagSeeds = 1
    TagsDerived = 1
    ProfileSeeds = 1
    MaxInfo = 4
    MaxVetoed = 1
SPECIFICATION FairSpec
INVARIANTS TypeOK PoolExact ReplyReproducible NobodyTwiceNorKnown NobodyWasted
PROPERTY RunEnds
CHECK_DEADLOCK FALSE
