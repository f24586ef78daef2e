\* Three instances: one dying, one closing, one starting.
CONSTANTS
    Proc = {p1, p2, p3}
    Inode = {i1, i2, i3, i4}
    None = None
    MaxFaults = 3
SPECIFICATION Spec
INVARIANTS
    AtMostOneServer
    ServedPathIsOwn
PROPERTY ServiceResumes
