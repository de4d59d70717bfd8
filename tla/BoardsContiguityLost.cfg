SPECIFICATION Spec
CONSTANTS
    Cards = {c1, c2}
    l1 = l1
    Lists = {l1, l2}
    DefaultLists <- OneDefaultList
    Requests = {r1, r2}
    Mixes <- MCRacing
    Limits = {}
    ListPlaces = {}
    Null = Null
    MaxPosition = 2
CONSTRAINT PositionBound
SYMMETRY Symmetry
INVARIANT PositionsContiguous
CHECK_DEADLOCK FALSE
