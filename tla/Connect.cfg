CONSTANTS
    Absent = Absent
    Panes = {p1, p2}
    Asks <- MCAsks
    Doors <- MCDoors
    Browsers <- MCBrowsers
    Metadata <- MCMetadata
    MaxAttempts = 2
    Titles = {"Unknown", "a"}
    Unknown = "Unknown"
    MaxRows = 3
    MaxEntries = 3
    MaxOdd = 1
SPECIFICATION MCSpec
SYMMETRY Symmetry
CHECK_DEADLOCK FALSE
INVARIANT PartsTypeOK
INVARIANT OneLanguage
INVARIANT LandsWhereAsked
PROPERTY NeverTrapped
INVARIANT ConsentBinds
INVARIANT FollowingGetsIn
INVARIANT SavedIsFound
INVARIANT SchemasSuffice
