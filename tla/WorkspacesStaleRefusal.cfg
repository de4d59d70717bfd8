SPECIFICATION Spec
CONSTANTS
    Users = {u1, u2}
    Root = Root
    Actors = {Root, u1, u2}
    Roles = {"viewer"}
    Requests = {r1}
    Offered = {"visit", "add"}
    RedisFails = FALSE
    MaxJoins = 3
    Null = Null
SYMMETRY Symmetry
INVARIANT GuardAgreesWithDatabase
