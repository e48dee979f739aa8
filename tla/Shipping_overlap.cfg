SPECIFICATION Spec
CONSTANTS
    Users = {u1, u2}
    Admins = {u1}
    Packed <- MCPacked
    Bookings <- MCBookings
    Limit <- MCLimit
    Tare <- MCTare
    Loads <- MCLoads
    MaxPages = 3
    MaxChanges = 1
    MaxKills = 1
CHECK_DEADLOCK FALSE
INVARIANTS LoadsAreSound PlacesAgree SavesAreSound
PROPERTIES EditsKeepWhatIsNotTheirs
