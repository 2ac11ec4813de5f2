CONSTANTS
    Handlers = {h1, h2}
    Names = {n1, n2}
    Null = Null
    PlanLimits <- MCPlanLimits
    Orders = {2}
    Starts <- MCStarts
    MaxLength = 2
    Lengths = {2}
    MaxRequests = 3
SPECIFICATION Spec
SYMMETRY Symmetry
CHECK_DEADLOCK FALSE
INVARIANT TypeOK
INVARIANT LimitHolds
INVARIANT ExportedOnce
INVARIANT NotesStayHome
