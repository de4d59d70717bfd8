SPECIFICATION Spec
CONSTANTS
    Pages = {p1, p2}
    Editable = {}
    Texts = {t1}
    Blank = Blank
    Requests = {r1, r2}
    Mixes <- MCMoves
    MaxDepth = 2
    MaxPath = 3
    MaxVersion = 1
    Null = Null
SYMMETRY Symmetry
CHECK_DEADLOCK FALSE
INVARIANT NoCycle
