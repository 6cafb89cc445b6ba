SPECIFICATION FairSpec
CONSTANTS
    Artists = {"ann", "anna", "bob", "cy", "dee"}
    Titles = {"t1", "t2"}
    Keys = {"ann", "bob", "cy", "dee"}
    Norm <- MCNorm
    Windows <- MCWindows
    Chart <- MCChart
    Similar <- MCSimilar
    TopTracks <- MCTopTracks
    Tags = {"rock", "folk", "jazz"}
    ArtistTags <- MCArtistTags
    Info <- MCInfo
    Ceiling = 3
    MaxSeeds = 3
    MaxSeedArtists = 2
    MaxExpand = 2
    MaxInfo = 3
    ProfileSeeds = 2
    GenreSlots = 1
    MaxGenres = 2
    MaxResults = 2
    MaxRequests = 2
    MaxFails = 2
    NoTrack = NoTrack
INVARIANTS TypeOK PoolTells
PROPERTIES ReplySound RequestEnds
CHECK_DEADLOCK FALSE
