CONSTANTS
    Root <- OneTile
    EmptyTiles <- OneEmptyTile
    MaxZoom = 2
    Nothing = Nothing
    Torn = Torn
    Workers = {w1, w2}
SPECIFICATION FairSpec
CHECK_DEADLOCK FALSE
INVARIANTS
    TypeOK
    AtMostLastTileLost
    NoSendOnClosed
    ReportIsTrue
    NoWorkerOutlivesHandler
    ReportLostToEmptyTile
PROPERTIES
    CallEnds
