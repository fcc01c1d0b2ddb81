SPECIFICATION Spec
CONSTANTS
    p1 = p1
    p2 = p2
    Paths = {p1, p2}
    Providers = {"git", "gitlab"}
    NoPath = NoPath
    None = None
    Other = Other
    MaxLine = 2
    MaxBody = 3
SYMMETRY Symmetry
INVARIANTS
    TypeOK
    ChangedLinesAreTrue
    ChangesCounted
    RelevanceTrue
