\* Progress and refinement, without symmetry: two clients, two frames.
CONSTANTS
    Worker = {w1, w2}
    RequestId = {i1, i2}
    NoId = NoId
    Pair = {p1}
    Snapshots = {{p1}}
    OPEN_ERRORS = {}
    TokenRepeats = FALSE
    MaxGen = 2
SPECIFICATION Spec
INVARIANT PendingIsOutstanding
PROPERTIES
    ImplementsService
    EveryRequestAnswered
