\* Four threads; the pipe is smaller than the larger frames.
CONSTANTS
    a = a
    b = b
    c = c
    d = d
    Sender = {a, b, c, d}
    Size <- MCSize
    HEADER = 2
    Capacity = 3
    WRITE_MAX = 3
    READ_MAX = 2
SPECIFICATION Spec
INVARIANTS
    EofMeansComplete
    ErrorMeansTorn
PROPERTIES
    ImplementsStream
    SendReturns
    Delivered
\* Every message may have been sent, or one end be gone.
CHECK_DEADLOCK FALSE
