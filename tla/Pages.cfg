CONSTANTS
    Tabs = {t1, t2}
    Fields = {f, g}
    Required = {f}
    Texts = {"a", "b", "", " ", "a/b ", "a//b ", "ab ", "a/b", "a//b", "ab"}
    Typed <- MCTyped
    Dictated = {"a", "a/b "}
    Empty = ""
    Null = Null
    Trim <- MCTrim
    Sends <- MCSends
    MaxWrites = 2
    MaxDeletes = 1
    Scenes = {1, 2, 3}
    MaxScrolls = 5
    Windows = {w1, w2}
    Requests = {r1, r2}
    Keys = {k1}
    Tokens = {x1}
SPECIFICATION PagesSpec
SYMMETRY Symmetry
CHECK_DEADLOCK FALSE
INVARIANT PagesTypeOK
INVARIANT SavedAsTyped
PROPERTY UntouchedSurvives
INVARIANT LeftWhereRead
INVARIANT NoCaptureAgainstChoice
PROPERTY AdmittedExactly
INVARIANT ConnectedMeansArrived
