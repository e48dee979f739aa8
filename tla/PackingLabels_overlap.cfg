SPECIFICATION Spec
CONSTANTS
    Workers = {w1, w2}
    PlanIds = {p1}
    PackingNos = {1, 2}
    Dates = {d1}
    Layouts <- MCLayouts
    MaxNumber = 1
    None = None
    OneRequestPerPlan = FALSE
SYMMETRY WorkerSymmetry
INVARIANTS TypeOK NoOrphanLabels QrIdsUnique NoSequenceGaps
PROPERTY RowsNeverRewritten
