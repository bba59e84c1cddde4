CONSTANTS
    MaxInclude = 2
    MainFile = "main"
    Disks <- AllDisks
    Short = {"EX"}
    Users = {"u1"}
    Nicks = {"n1", "n2"}
    Idents = {"i1", "i2"}
    Masks = {"m1", "m2"}
    Matches <- TheMatches
    ByAddress = {"m1"}
    Names = {"root", "joe"}
    Flags = {"A"}
    MaxNamed = 2
    Servers = {"s1", "s2"}
    Scopes <- AllScopes
SPECIFICATION Spec
INVARIANTS RowsRight RightsFollowList SplitsApart
PROPERTIES FilesRestored
