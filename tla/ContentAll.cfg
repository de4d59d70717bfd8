SPECIFICATION BothSpec
CONSTANTS
    Pages = {p1, p2, p3, p4}
    Editable = {p1}
    Texts = {t1, t2}
    Blank = Blank
    Requests = {r1, r2}
    Mixes <- MCAllMixes
    MaxDepth = 2
    MaxPath = 3
    MaxVersion = 3
    Null = Null
    Names = {1, 2, 3}
    Contents = {"full", "empty"}
    SizeOf <- MCSizes
    Uploaders = {"u1", "u2"}
    FileMixes <- MCFileMixes
    Nothing = Nothing
SYMMETRY Symmetry
INVARIANT TypesOK
INVARIANT PathsAreAncestors
INVARIANT HistoryComplete
INVARIANT BytesMatchAssets
INVARIANT UploadKept
INVARIANT RangesInsideFile
PROPERTY EditsKept
PROPERTY ImplementsForest
CHECK_DEADLOCK FALSE
