SPECIFICATION LeadSpec
CONSTANTS
    Workers = {w1, w2}
    LeadIds = {l1}
    BuyerIds = {b1, b2}
    SupplierIds = {s1}
    Persons = {x, y}
    Null = Null
    OneRequestPerLead = TRUE
SYMMETRY IdSymmetry
INVARIANTS ClientsAreTheirLeads NothingLeftBehind AtMostOnePrimary
PROPERTY ContactsCopied
