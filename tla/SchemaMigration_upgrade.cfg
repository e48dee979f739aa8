SPECIFICATION Spec
CONSTANTS
    Workers = {w1}
    Vintages = {0, 13, 23, 25, 32, 51, 54, 61, 63, 77, 81, 83, 85, 93, 95, 103, 104}
    MayDie = FALSE
    None = None
INVARIANTS  UpMeansCurrent StartsSucceed
