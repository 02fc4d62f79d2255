CONSTANTS
    Root <- OneTile
    EmptyTiles <- OneEmptyTile
    MaxZoom = 2
    Nothing = Nothing
    Torn = Torn
    Workers = {w1, w2}
SPECIFICATION Spec
CHECK_DEADLOCK FALSE
INVARIANT
    AllListed
