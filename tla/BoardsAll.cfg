SPECIFICATION Spec
CONSTANTS
    Cards = {c1, c2, c3}
    l1 = l1
    Lists = {l1, l2}
    DefaultLists <- OneDefaultList
    Requests = {r1, r2}
    Mixes <- MCMixes
    Limits = {2}
    ListPlaces = {0, 1}
    Null = Null
    MaxPosition = 2
CONSTRAINT PositionBound
SYMMETRY Symmetry
INVARIANT TypeOK
INVARIANT CardPositionsContiguous
INVARIANT ActiveCardsOnActiveLists
PROPERTY ListPositionsContiguous
PROPERTY LimitHoldsOnEntry
PROPERTY ImplementsCardOrder
PROPERTY OrderNeverInverts
CHECK_DEADLOCK FALSE
