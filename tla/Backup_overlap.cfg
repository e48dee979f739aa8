SPECIFICATION Spec
CONSTANTS
    Workers = {w1, w2}
    Stored <- MCStored
    Earlier <- MCEarlier
    Lists <- MCLists
    Names <- MCNames
    Fold <- MCFold
    Levels = {"pallet", "carton"}
    MaxRequests = 2
    MaxKills = 1
SYMMETRY Symmetry
INVARIANTS PathsAreServed RecordsAreSound BackupsAreSound
CHECK_DEADLOCK FALSE
