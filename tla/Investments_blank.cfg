SPECIFICATION Spec
CONSTANTS
    n1 = n1
    n2 = n2
    red = red
    ItemNames = {n1}
    Colours = {"Default", red}
    DefaultColour = "Default"
    Platforms = {"PC"}
    PriceRanges <- MCPriceRanges
    NoPrice = NoPrice
    SearchTexts <- TwoTexts
    NoText = ""
    Space = " "
    Hits <- NoHits
    MaxAmount = 2
    TypedPrices = {Blank, 5000}
    Blank = Blank
    MaxInt = 1000
    Catalogues <- ManyCatalogues
    NoURL = {}
    NoItem = NoItem
    NoForm = NoForm
    NoAim = NoAim
    NoTotal = NoTotal
    MaxInvestments = 2
    MaxID = 1
    MaxDelayed = 1
PROPERTIES
    BlankPriceRefused
