\* Two invocations and one worker: the second is refused, or served after
\* the first was given up.
CONSTANTS
    Client = {c1, c2}
    MAX_CLIENT_WORKERS = 1
SPECIFICATION Spec
INVARIANTS
    RefusalIsFinal
    SuccessIsTrue
PROPERTIES
    HostAnswersFirst
    ImplementsCommand
    ClientEnds
\* Time goes on for ever.
