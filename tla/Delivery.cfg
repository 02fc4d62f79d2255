SPECIFICATION Spec
CHECK_DEADLOCK FALSE
CONSTANTS
    None = None
    Clients = {c1, c2, c3}
    Base = 3
    Bodies <- MCBodies
    Answers <- MCAnswers
    Names <- MCNames
    Values <- MCValues
    ContentType <- MCType
    DefaultType <- MCDefault
    Pulled <- MCPulled
    Deleted <- MCDeleted
SYMMETRY MCSymmetry
INVARIANTS
    TypeOK
    RoundTrip
    HitRepeats
    EmptyMeansNoContent
