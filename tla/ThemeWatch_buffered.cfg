\* Another name and the theme are reported together.
CONSTANTS
    OtherNames = {"background"}
    Unreadable = {}
    QuietStart = TRUE
    MaxEvents = 2
SPECIFICATION WatchSpec
PROPERTY Synchronized
\* The bound on changes lets the system come to rest.
CHECK_DEADLOCK FALSE
