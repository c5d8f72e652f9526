SPECIFICATION Spec
CONSTANTS
    Chunks <- MCChunks
    Strangers = {"gone"}
    ChunkOrders <- MCChunkOrders
    ChunkPages <- MCChunkPages
    Prices = {1, 4}
    Setups = {"c6"}
    Tokens = 5
    NeighbourShare = 4
    HitsShown = 2
    Processes = {p1, p2}
    Sites <- MCSites
    Versions = {"v1", "v2", "bad"}
    Undecodable = {"bad"}
    Starts = 3
    Roots <- MCRoots
    Homes <- MCHomes
    Scopes <- MCScopes
    Urls <- MCUrls
    Bodies = {"index", "note", "blank"}
    Sizes <- MCSizes
    Blanks = {"blank"}
    LinksOf <- MCLinksOf
    Answers <- MCAnswers
    LinksPerRoot = 2
    LinksInAll = 2
    FileBytes = 2
    AllBytes = 8
    Collections = 3
    Requests = {"c1", "c2"}
    Ids = {"publish", "again"}
    OwnId = "publish"
    Reports = 2
    Renderings = 4
SYMMETRY Commands
CHECK_DEADLOCK FALSE
INVARIANTS
    ContextIsSound
    SourcesAreSound
    DiscoveryIsSound
    PublicationIsSound
    RenderingIsSound
