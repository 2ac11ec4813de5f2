CONSTANTS
    Project = project
    Recs = {project, r1, r2}
    Tags = {}
    Contents = {c1}
    Seeds = {c1}
    Reqs = {p1, p2, p3}
    Null = Null
    MaxInFlight = 1
    Crashes = FALSE
    Ties = FALSE
    Pages = FALSE
    Forces = {FALSE}
SPECIFICATION Spec
SYMMETRY Symmetry
CHECK_DEADLOCK FALSE
INVARIANT ConflictUndoesNothing
