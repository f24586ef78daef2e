\* Two runs: one that fails or is killed, and one on what it left, with the
\* hook command of the first perhaps still at work.
CONSTANTS
    Entry <- MCEntry
    Files <- MCFiles
    Hook = "hook"
    Legacy <- MCLegacy
    Trees <- MCTrees
    MaxRuns = 2
SPECIFICATION Spec
INVARIANTS
    RollbackRestores
    CommittedIsComplete
    NothingLost
PROPERTY
    ImplementsUpdate
\* The last run has ended.
CHECK_DEADLOCK FALSE
