SPECIFICATION RacingSpec
CONSTANTS
    Users = {u1, u2}
    Root = Root
    Actors = {Root, u2}
    Roles = {"viewer", "member"}
    Requests = {r1, r2}
    Offered = {"visit", "add", "setRole", "remove"}
    RedisFails = TRUE
    MaxJoins = 2
    Null = Null
INVARIANT CountNeverOver
PROPERTY StaleEntriesExpire
