CONSTANTS
    Handlers = {h1, h2}
    Customers = {c1, c2}
    Subs = {s1, s2}
    Statuses = {"active", "canceled"}
    Prices = {"pricePlus", "pricePro"}
    Offers = {"PLUS"}
    Grants <- MCGrants
    Null = Null
    MaxGrants = 1
    MaxChanges = 2
SPECIFICATION Spec
SYMMETRY Symmetry
CHECK_DEADLOCK FALSE
INVARIANT TypeOK
INVARIANT PlanExplained
INVARIANT CancelledEndsAccess
INVARIANT RowSaysWhatStripeSays
