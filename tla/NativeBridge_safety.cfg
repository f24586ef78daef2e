\* Two clients, three frames with ids that never repeat: two answers can be
\* judged out of order while a third, late one is still on its way.
CONSTANTS
    Worker = {w1, w2}
    RequestId = {i1, i2, i3}
    NoId = NoId
    Pair = {p1}
    Snapshots = {{}, {p1}}
    OPEN_ERRORS = {"no-window"}
    TokenRepeats = FALSE
    MaxGen = 3
SYMMETRY BridgeSymmetry
SPECIFICATION Spec
INVARIANTS
    NoStrandedWaiter
    AnswerIsOwn
    NewestWins
