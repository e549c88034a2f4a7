SPECIFICATION Spec
CONSTANTS
    n1 = n1
    n2 = n2
    i1 = i1
    i2 = i2
    white = white
    ItemNames = {n1, n2}
    Colours <- MCColours
    Platforms = {"PC", "PS4"}
    DefaultColour = "Default"
    PriceRanges <- MCPriceRanges
    NoPrice = NoPrice
    Calls = {c1, c2}
    FetchOrder <- MCFetchOrder
    White = white
    ItemIDs = {i1, i2}
    NoName = NoName
    NoTable = NoTable
    NotPublished = NotPublished
    Site <- MCSite
    MaxEdition = 1
INVARIANTS
    AsListed
    Complete
    SamePrices
PROPERTIES
    NewerUnlessOvertaken
    CatchesUp
