CONSTANTS
    Reqs = {p1, p2, other}
    Own = {p1, p2}
    Null = Null
    Orders = {0}
    MaxEvents = 3
    MaxInFlight = 2
    Failures = TRUE
    Visible = {1, 3}
SPECIFICATION ListSpec
CHECK_DEADLOCK FALSE
INVARIANT ListTypeOK
INVARIANT WillBeStored
PROPERTY MoveKeepsTheRest
PROPERTY Settles
