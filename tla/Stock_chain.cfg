SPECIFICATION StockSpec
CONSTANTS
    ProductOf <- MCProductOf
    Spellings = {1, 2}
    Titles = {1, 2}
    Plain <- MCPlain
    Invoiced = {1, 2}
    Starts <- MCStarts
    Sheets <- MCSheets
    Cards <- MCCards
    Conversion = 2
    TypedBoxes = 100
    MaxSaves = 4
CHECK_DEADLOCK FALSE
INVARIANTS ChasedUntilPlaced FormsOfferTheRest StockBalances
