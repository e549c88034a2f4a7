SPECIFICATION Spec
CONSTANTS
    n1 = n1
    n2 = n2
    red = red
    ItemNames = {n1}
    Colours = {"Default"}
    DefaultColour = "Default"
    Platforms = {"PC"}
    PriceRanges <- MCPriceRanges
    NoPrice = NoPrice
    SearchTexts <- TwoTexts
    NoText = ""
    Space = " "
    Hits <- NoHits
    MaxAmount = 1
    TypedPrices = {}
    Blank = Blank
    MaxInt = 1000
    Catalogues <- ShortCatalogue
    NoURL = {}
    NoItem = NoItem
    NoForm = NoForm
    NoAim = NoAim
    NoTotal = NoTotal
    MaxInvestments = 3
    MaxID = 2
    MaxDelayed = 2
PROPERTIES
    DeletesPressed
