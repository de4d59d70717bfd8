SPECIFICATION AllSpec
CONSTANTS
    Users = {Root, u1}
    Root = Root
    Messages = {m1, m2, m3}
    Requests = {r1, r2}
    Mixes <- MCAllMixes
    MaxJoins = 3
    Null = Null
    Sockets = {"s1", "s2"}
    People = {"ann", "root"}
    Unrestricted = {"root"}
    SocketMixes <- MCSocketMixes
    NoOne = NoOne
    MaxItems = 4
    FeedMixes <- MCFeedMixes
SYMMETRY Symmetry
INVARIANT TypesOK
INVARIANT CountersHonest
INVARIANT DeletedSaysNothing
INVARIANT WalksComplete
PROPERTY ClosedToOutsiders
PROPERTY JoinsAuthorised
CHECK_DEADLOCK FALSE
