CONSTANTS
    Project = project
    Recs = {project, r1, t1}
    Tags = {t1}
    Contents = {c1, c2}
    Seeds = {c1}
    Reqs = {p1, p2, p3}
    Null = Null
    MaxInFlight = 2
    Crashes = TRUE
    Ties = TRUE
    Pages = TRUE
    Forces = {TRUE, FALSE}
SPECIFICATION Spec
SYMMETRY Symmetry
CHECK_DEADLOCK FALSE
INVARIANT TypeOK
INVARIANT MarkedWasUndone
INVARIANT TransactionUndoneNewestFirst
INVARIANT TransactionUndoneWhole
INVARIANT JournalExplainsRows
