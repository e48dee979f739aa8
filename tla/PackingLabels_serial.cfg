SPECIFICATION Spec
CONSTANTS
    Workers = {w1, w2}
    PlanIds = {p1, p2}
    PackingNos = {1, 2}
    Dates = {d1}
    Layouts <- MCFewLayouts
    MaxNumber = 1
    None = None
    OneRequestPerPlan = TRUE
SYMMETRY WorkerSymmetry
INVARIANTS FloorIdsKept FloorIdsDistinct
PROPERTY SheetCoversPlan
