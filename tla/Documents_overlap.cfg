SPECIFICATION Spec
CONSTANTS
    Workers = {w1, w2}
    Admins = {w1}
    Author = w2
    NewKinds = {"jobwork", "jobout"}
    Books <- MCBooks
    MaxRequests = 2
    MaxCrashes = 1
CHECK_DEADLOCK FALSE
INVARIANTS LoneRequestIsSound
PROPERTIES LoneAdvanceIsForward LockHolds KeepsTheBook RequestsEnd
