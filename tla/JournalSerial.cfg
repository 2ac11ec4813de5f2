CONSTANTS
    Project = project
    Recs = {project, r1, t1}
    Tags = {t1}
    Contents = {c1, c2}
    Seeds = {c1}
    Reqs = {p1, p2, p3, p4}
    Null = Null
    MaxInFlight = 1
    Crashes = FALSE
    Ties = FALSE
    Pages = FALSE
    Forces = {FALSE}
SPECIFICATION Spec
SYMMETRY Symmetry
CHECK_DEADLOCK FALSE
INVARIANT VersionChain
PROPERTY UnforcedUndoMeetsItsOwnWrite
PROPERTY ImplementsUndoStack
