SPECIFICATION Spec
CONSTANTS
    n1 = n1
    n2 = n2
    red = red
    ItemNames = {n1, n2}
    Colours = {"Default"}
    DefaultColour = "Default"
    Platforms = {"PC"}
    PriceRanges <- MCPriceRanges
    NoPrice = NoPrice
    SearchTexts <- MCSearchTexts
    NoText = ""
    Space = " "
    Hits <- MCHits
    MaxAmount = 2
    TypedPrices = {}
    Blank = Blank
    MaxInt = 1000
    Catalogues <- OneCatalogue
    NoURL <- Unlinked
    NoItem = NoItem
    NoForm = NoForm
    NoAim = NoAim
    NoTotal = NoTotal
    MaxInvestments = 3
    MaxID = 2
    MaxDelayed = 2
INVARIANTS
    UniqueIDs
    Durable
    FilteredIsView
    TableInSync
    TagsDrift
    EditTarget
    ListComplete
PROPERTIES
    DeletesAimed
    StepsByOne
    CrashCauses
    LedgerSpec
