SPECIFICATION Spec
CONSTANTS
    Workers = {w1}
    Vintages = {51}
    MayDie = TRUE
    None = None
INVARIANTS
    UpMeansHome
