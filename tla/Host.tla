-------------------------------- MODULE Host --------------------------------
(***************************************************************************)
(* The native host as a process: main and native_reader (host.py) and the  *)
(* watcher thread's life (theme.py), around the socket server.             *)
(*                                                                         *)
(* main starts the reader and the watcher, pushes the theme and serves;    *)
(* whatever ends that, it stops everybody, closes the server and joins the *)
(* threads it started, each for a limited time.  What is still running     *)
(* then dies with the process, except inotifywait, which is a process of   *)
(* its own.                                                                *)
(*                                                                         *)
(* Time is counted in tenths of a second and only while main waits for the *)
(* watcher: before that it can only help.                                  *)
(***************************************************************************)
EXTENDS SocketServer

(* Mutant: the join is as long as the watcher waits for inotifywait.       *)
WatcherJoinShort == 10

WATCHER_JOIN == 15      \* tenths of a second main waits for the watcher
SELECT_WAIT  == 1       \* the watcher looks at stop this often
TERM_WAIT    == 10      \* it gives inotifywait this long to terminate

VARIABLES
    life,      \* where main is
    reader,    \* the native reader: "off", "reading", "eof" or "done"
    watcher,   \* the watcher thread
    started,   \* reader_started and watcher_started
    due,       \* tenths until the watcher moves on
    elapsed,   \* tenths main has waited for the watcher
    held,      \* Firefox held up a push of the watcher
    unflagged  \* history: main was interrupted between the start of the
               \* watcher and watcher_started

threads  == <<life, reader, started, unflagged>>
watching == <<watcher, due, held>>
hostVars == <<threads, watching, elapsed>>
allVars  == <<vars, hostVars>>

HostInit ==
    /\ Init
    /\ life = "reader"
    /\ reader = "off"
    /\ watcher = "off"
    /\ started = {}
    /\ unflagged = FALSE
    /\ due = 0
    /\ elapsed = 0
    /\ held = FALSE

-----------------------------------------------------------------------------
(* main, up to serve_forever.                                              *)

StartReader ==
    /\ life = "reader"
    /\ life' = "readerStarted"
    /\ reader' = "reading"
    /\ UNCHANGED <<vars, started, unflagged, watching, elapsed>>

FlagReader ==
    /\ life = "readerStarted"
    /\ life' = "watcher"
    /\ started' = started \cup {"reader"}
    /\ UNCHANGED <<vars, reader, unflagged, watching, elapsed>>

StartWatcher ==
    /\ life = "watcher"
    /\ life' = "watcherStarted"
    /\ watcher' = "spawn"
    /\ due' = 1
    /\ UNCHANGED <<vars, reader, started, unflagged, held, elapsed>>

FlagWatcher ==
    /\ life = "watcherStarted"
    /\ life' = "push"
    /\ started' = started \cup {"watcher"}
    /\ UNCHANGED <<vars, reader, unflagged, watching, elapsed>>

PushTheme ==
    /\ life = "push"
    /\ life' = "serve"
    /\ UNCHANGED <<vars, reader, started, unflagged, watching, elapsed>>

(* A thread cannot be started, the push fails because Firefox is gone or   *)
(* the palette cannot be opened, or KeyboardInterrupt.                     *)
StartupFails ==
    /\ life \in {"reader", "readerStarted", "watcher", "watcherStarted", "push"}
    /\ Interrupt
    /\ life' = "stop"
    /\ unflagged' = (life = "watcherStarted")
    /\ UNCHANGED <<reader, started, watching, elapsed>>

(* KeyboardInterrupt in serve_forever.                                     *)
Interrupted ==
    /\ life = "serve"
    /\ Interrupt
    /\ UNCHANGED hostVars

-----------------------------------------------------------------------------
(* main's finally clause.                                                  *)

(* serve_forever closes the server in a finally clause of its own; main    *)
(* closes it after it has stopped everybody.                               *)
MainCloses ==
    /\ life \in {"serve", "close"}
    /\ CallClose("main")
    /\ UNCHANGED hostVars

(* serve_forever has returned.                                             *)
Served ==
    /\ life = "serve"
    /\ closer["main"] = "done"
    /\ life' = "stop"
    /\ UNCHANGED <<vars, reader, started, unflagged, watching, elapsed>>

(* stop.set and bridge.disconnect.                                         *)
StopAll ==
    /\ life = "stop"
    /\ SetStop
    /\ life' = "close"
    /\ UNCHANGED <<reader, started, unflagged, watching, elapsed>>

(* Mutant: main relies on serve_forever to have closed the server.         *)
ServerClosedAlready == TRUE

ServerClosed == closer["main"] = "done"

(* server.close returns: at once if the server was closed before.          *)
Closed ==
    /\ life = "close"
    /\ ServerClosed
    /\ life' = "joinReader"
    /\ UNCHANGED <<vars, reader, started, unflagged, watching, elapsed>>

(* Mutant: reader.join without a timeout.                                  *)
ReaderJoinedEnded == reader = "done"

(* The reader has ended, or 1.5 seconds are over: a reader that still sits *)
(* in a read of stdin never ends.                                          *)
ReaderJoined == TRUE

JoinReader ==
    /\ life = "joinReader"
    /\ "reader" \in started => ReaderJoined
    /\ life' = "joinWatcher"
    /\ UNCHANGED <<vars, reader, started, unflagged, watching, elapsed>>

(* The watcher has ended, or 1.5 seconds are over, which a push that is    *)
(* held up may outlast.                                                    *)
JoinWatcher ==
    /\ life = "joinWatcher"
    /\ "watcher" \in started => watcher \in {"gone", "held"} \/ elapsed = WATCHER_JOIN
    /\ life' = "exited"
    /\ UNCHANGED <<vars, reader, started, unflagged, watching, elapsed>>

-----------------------------------------------------------------------------
(* The native reader.                                                      *)

(* The stream ends or carries something that is not a message, or stop was *)
(* set; the reader disconnects the bridge.                                 *)
StreamEnds ==
    /\ reader = "reading"
    /\ reader' = "eof"
    /\ UNCHANGED <<vars, life, started, unflagged, watching, elapsed>>

ReaderStops ==
    /\ reader = "eof"
    /\ ~stop
    /\ SetStop
    /\ UNCHANGED hostVars

ReaderCloses ==
    /\ reader = "eof"
    /\ stop
    /\ CallClose("reader")
    /\ UNCHANGED hostVars

ReaderEnds ==
    /\ reader = "eof"
    /\ closer["reader"] = "done"
    /\ reader' = "done"
    /\ UNCHANGED <<vars, life, started, unflagged, watching, elapsed>>

-----------------------------------------------------------------------------
(* The watcher.                                                            *)

Watch(next, deadline) ==
    /\ watcher' = next
    /\ due' = deadline
    /\ UNCHANGED <<vars, threads, elapsed>>

(* The top of the loop, where stop is looked at.                           *)
LoopAgain ==
    IF stop THEN Watch("terminate", TERM_WAIT) ELSE Watch("watch", SELECT_WAIT)

(* inotifywait is started, or is not installed.                            *)
Spawn ==
    /\ watcher = "spawn"
    /\ LoopAgain \/ Watch("gone", 0)
    /\ UNCHANGED held

(* select returns; a deadline has passed and the theme is pushed, or not,  *)
(* or inotifywait has ended.                                               *)
Iterate ==
    /\ watcher = "watch"
    /\ Watch("push", SELECT_WAIT) \/ LoopAgain \/ Watch("gone", 0)
    /\ UNCHANGED held

(* The push returns, or raises and ends the thread.                        *)
Pushed ==
    /\ watcher \in {"push", "held"}
    /\ LoopAgain \/ Watch("terminate", TERM_WAIT)
    /\ UNCHANGED held

(* Firefox does not read, and the pipe is full.                            *)
HoldUp ==
    /\ watcher = "push"
    /\ Watch("held", 0)
    /\ held' = TRUE

(* inotifywait terminates, or it is killed when TERM_WAIT is over.         *)
Terminated ==
    /\ watcher = "terminate"
    /\ Watch("gone", 0)
    /\ UNCHANGED held

(* A tenth of a second passes; the watcher does not lag behind.            *)
Tick ==
    /\ life = "joinWatcher"
    /\ elapsed < WATCHER_JOIN
    /\ due > 0
    /\ due' = due - 1
    /\ elapsed' = elapsed + 1
    /\ UNCHANGED <<vars, threads, watcher, held>>

-----------------------------------------------------------------------------

(* A step of the server that main has no part in; when the process is gone *)
(* there are no more.                                                      *)
Aside(step) == life # "exited" /\ step /\ UNCHANGED hostVars

MainLife ==
    \/ StartReader \/ FlagReader \/ StartWatcher \/ FlagWatcher \/ PushTheme
    \/ MainCloses \/ Served \/ StopAll \/ Closed \/ JoinReader \/ JoinWatcher

Serving == life = "serve" /\ Aside(MainStep)

ReaderLife == life # "exited" /\ (ReaderStops \/ ReaderCloses \/ ReaderEnds)

WatcherLife == life # "exited" /\ (Spawn \/ Iterate \/ Pushed \/ Terminated)

HostNext ==
    \/ MainLife \/ StartupFails \/ Serving \/ Interrupted
    \/ (life # "exited" /\ StreamEnds) \/ ReaderLife
    \/ WatcherLife \/ (life # "exited" /\ HoldUp) \/ Tick
    \/ \E c \in Client : Aside(Connect(c) \/ Serve(c) \/ Bookkeeping(c))
    \/ \E t \in Thread : Aside(CloseStep(t))

(* As for the server; handlers, the reader's stream and a push that is     *)
(* held up may take for ever.  The first push returns: as long as Firefox  *)
(* reads, or with an error when it is gone.                                *)
HostFairness ==
    /\ WF_allVars(MainLife)
    /\ WF_allVars(Serving)
    /\ WF_allVars(ReaderLife)
    /\ WF_allVars(watcher # "held" /\ WatcherLife)
    /\ WF_allVars(Tick)
    /\ \A c \in Client : WF_allVars(Aside(Bookkeeping(c)))
    /\ \A t \in Thread : WF_allVars(Aside(CloseStep(t)))

(* The handler is arbitrary code: that it returns is a premise of its own. *)
HandlersReturn == \A c \in Client : WF_allVars(Aside(Serve(c)))

HostSpec == HostInit /\ [][HostNext]_allVars /\ HostFairness

-----------------------------------------------------------------------------

(* Types, of the server's variables too.                                   *)
HostTypeOK ==
    /\ TypeOK
    /\ life \in {"reader", "readerStarted", "watcher", "watcherStarted", "push", "serve", "stop", "close",
                 "joinReader", "joinWatcher", "exited"}
    /\ reader \in {"off", "reading", "eof", "done"}
    /\ watcher \in {"off", "spawn", "watch", "push", "held", "terminate", "gone"}
    /\ started \subseteq {"reader", "watcher"}
    /\ due \in 0..TERM_WAIT
    /\ elapsed \in 0..WATCHER_JOIN
    /\ {held, unflagged} \subseteq BOOLEAN

(* However the host comes to its end, in the middle of its start or while  *)
(* the reader is half-way through close, the process does not end before   *)
(* the socket file and the lock are released (host.py:200-213).            *)
ExitReleases == life = "exited" => released

(* No inotifywait is left behind: main waits for the watcher if there is   *)
(* one, and 1.5 seconds are enough for it to see the stop, to terminate    *)
(* inotifywait and to kill it if it does not end; unless Firefox holds up  *)
(* a push, or an interrupt falls right between the start of the watcher    *)
(* and the note of it (host.py:201-202, 211-213, theme.py:51-76).          *)
NoOrphan == life = "exited" => watcher \in {"off", "gone"} \/ held \/ unflagged

(* When Firefox closes the stream or the main thread leaves its work, the  *)
(* process ends, whatever handlers, reader and watcher are doing           *)
(* (host.py:170-174, 205-213).                                             *)
HostEnds == (reader = "eof" \/ main = "leave") ~> (life = "exited")

(* close returns even if a handler never does, unless the process ends     *)
(* before (socket_server.py:377-387).                                      *)
CloseReturns ==
    \A t \in Thread : (closer[t] = "lock") ~> (closer[t] = "done" \/ life = "exited")

(* If handlers return, every connection comes to an end: it is answered,   *)
(* refused, or shut by close (socket_server.py:299-333, 363-375).          *)
EveryClientEnds ==
    HandlersReturn => \A c \in Client : (sock[c] = "backlog") ~> (sock[c] = "closed")
=============================================================================
