SPECIFICATION Spec
CONSTANTS
    Users = {u1, u2}
    Designs <- MCDesigns
    Proformas <- MCProformas
    Cards <- MCCards
    AltQuantity <- MCAltQuantity
    Names <- MCNames
    MaxPages = 4
SYMMETRY Symmetry
CHECK_DEADLOCK FALSE
INVARIANTS PagesOfferTheRest TagsAreLinked ProductionIsOfTheOrder
PROPERTIES FreshFormsFit LoneResaveKeepsProduction
