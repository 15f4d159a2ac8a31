SPECIFICATION Spec
CONSTANTS
    Characters = {"a", "A", "b", "w", "_", "*", ".x", "#"}
    Inputs <- ShortLists
    ComponentMax = 7
    PathMax = 8
    WidthEnds = {3, 9}
    NoPath = NoPath
INVARIANT RepairedIsExtractable
CHECK_DEADLOCK FALSE
