SPECIFICATION TeamSpec
CONSTANTS
    Users = {u1, u2, u3}
    Root = Root
    Actors = {Root, u1, u2, u3}
    Roles = {"admin", "viewer"}
    Requests = {r1}
    Offered = {"visit", "add", "setRole", "remove", "leave", "transfer"}
    RedisFails = FALSE
    MaxJoins = 5
    Null = Null
    People = {u1, u2, u3}
    NewsSlots = {"n1", "n2"}
    Nobody = Nobody
    NewsMixes <- MCAllNewsMixes
SYMMETRY Symmetry
INVARIANT TypesOK
INVARIANT MemberCountExact
INVARIANT RevocationImmediate
INVARIANT HeardMatchesCard
PROPERTY ImplementsRoleTable
