\* Other names appear between the changes of the theme, and one palette is
\* unreadable.
CONSTANTS
    OtherNames = {"background", "theme.name"}
    Unreadable = {2}
    QuietStart = TRUE
    MaxEvents = 5
SPECIFICATION WatchSpec
INVARIANTS
    RestIsSynchronized
PROPERTY SynchronizedWhenRead
\* The bound on changes lets the system come to rest.
CHECK_DEADLOCK FALSE
