\* Three connections for two permits: every permit is taken, freed and taken
\* again, and a connection is refused.  Handlers may never return.
CONSTANTS
    Client = {c1, c2, c3}
    MAX_CLIENT_WORKERS = 2
SPECIFICATION HostSpec
INVARIANTS
    PermitsConserved
    ClosedMeansShut
    CloseMeansReleased
    ExitReleases
    NoOrphan
PROPERTIES
    CloseReturns
    EveryClientEnds
    HostEnds
\* The process ends for good.
CHECK_DEADLOCK FALSE
