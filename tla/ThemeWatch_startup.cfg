\* One change of the theme while the host starts.
CONSTANTS
    OtherNames = {}
    Unreadable = {}
    QuietStart = FALSE
    MaxEvents = 1
SPECIFICATION WatchSpec
PROPERTY Synchronized
\* The bound on changes lets the system come to rest.
CHECK_DEADLOCK FALSE
