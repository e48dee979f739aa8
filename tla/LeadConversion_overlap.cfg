SPECIFICATION LeadSpec
CONSTANTS
    Workers = {w1, w2}
    LeadIds = {l1}
    BuyerIds = {b1, b2}
    SupplierIds = {s1}
    Persons = {x}
    Null = Null
    OneRequestPerLead = FALSE
SYMMETRY IdSymmetry
INVARIANTS LeadTypeOK ConvertedClientLives
