SPECIFICATION Spec
CONSTANTS
    Tokens = {t1, t2, t3}
    Families = {f1}
    Requests = {r1, r2}
    Mixes <- MCRotation
    MaxVersion = 0
    Null = Null
SYMMETRY Symmetry
INVARIANT FamilyHasOneLive
CHECK_DEADLOCK FALSE
