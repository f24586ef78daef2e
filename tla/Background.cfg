\* Handlers of two earlier ports may be pending while a third is current.
CONSTANTS
    Port = {p1, p2, p3}
    None = None
    MaxHandling = 2
SPECIFICATION RetrySpec
INVARIANTS
    NeverStranded
    OneHost
    BackoffCountsFailures
PROPERTY Reconnects
