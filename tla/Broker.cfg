\* Two frames of the host in a Firefox with two tabs in one of its windows, in
\* groups or not, whose user moves or closes a tab or changes a page once.
CONSTANTS
    Window = {w1, w2}
    Tab = {p1, p2, t1, t2}
    Group = {g1, g2, g3, g4}
    Title = {s1}
    Caption = {c1, c2}
    Message = {m1, m2}
    None = None
    MaxMoves = 1
    Asked = {p1}
    Present = {p1, p2}
    Here = {w1}
    Grouped = {g1, g2}
SPECIFICATION Spec
INVARIANTS
    UniqueTitledGroup
PROPERTIES
    QueueDrains
    EveryOpenFiled
\* Every frame may have been answered and every job settled.
CHECK_DEADLOCK FALSE
