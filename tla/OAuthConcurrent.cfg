CONSTANTS
    Scopes = {s1, s2}
    Reqs = {p1, p2, p3, p4}
    Null = Null
    MaxInFlight = 2
    Crashes = TRUE
    Expiries = TRUE
SPECIFICATION Spec
SYMMETRY Symmetry
CHECK_DEADLOCK FALSE
INVARIANT TypeOK
INVARIANT SpentOnce
INVARIANT OneLiveRefresh
INVARIANT DisconnectEndsAccess
INVARIANT ReuseEndsSession
