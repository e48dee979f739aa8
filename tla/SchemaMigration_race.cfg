SPECIFICATION Spec
CONSTANTS
    Workers = {w1, w2}
    Vintages = {25, 54, 63, 81, 95, 103}
    MayDie = TRUE
    None = None
INVARIANTS
    TypeOK
    
    AtomicMovesHome
