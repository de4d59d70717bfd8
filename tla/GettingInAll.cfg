SPECIFICATION BothSpec
CONSTANTS
    Tokens = {t1, t2, t3, t4}
    Families = {f1, f2}
    Requests = {r1, r2}
    Mixes <- MCAllMixes
    MaxVersion = 2
    Null = Null
    Emails = {"ann", "bob"}
    Clients = {"c1", "c2"}
    AccountMixes <- MCAccountMixes
    MaxAttempts = 2
    BlockThreshold = 3
    MaxHits = 3
    MaxCount = 4
    Address = "ip"
    Hits = "hits"
    Anyone = Anyone
SYMMETRY Symmetry
INVARIANT TypesOK
INVARIANT RotationKeepsOneLive
INVARIANT SessionsAgree
INVARIANT FailuresBounded
INVARIANT CountersExpire
PROPERTY DeadForGood
PROPERTY SeatKept
CHECK_DEADLOCK FALSE
