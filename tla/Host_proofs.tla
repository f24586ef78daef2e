----------------------------- MODULE Host_proofs -----------------------------
(***************************************************************************)
(* TLAPS proofs about SocketServer and Host, for every finite set of       *)
(* clients and every number of workers.  The server's invariants are       *)
(* proved for its own specification, where close, stop and an interrupt    *)
(* may come at any moment; a step of the host is a step of the server or   *)
(* leaves it alone, so the host has them too.  The last part is about      *)
(* ThemeWatch, what the host's watcher thread does while it lives.         *)
(***************************************************************************)
EXTENDS Host, ThemeWatch, Sequences, FiniteSetTheorems, SequenceTheorems, TLAPS

(* Types; the bound on slots follows from PermitsConserved.                *)
Types ==
    /\ {stop, listening, closed, released} \subseteq BOOLEAN
    /\ sock \in [Client -> {"none", "backlog", "open", "closed"}]
    /\ main \in {"loop", "accept", "slot", "start", "leave"}
    /\ taken \subseteq Client
    /\ slots \in Nat
    /\ worker \in [Client -> {"none", "serving", "deregister", "release", "gone"}]
    /\ registered \subseteq Client
    /\ closeLock \in Thread \cup {None}
    /\ closer \in [Thread -> {"out", "lock", "listener", "clients", "join", "done"}]
    /\ toShut \subseteq Client
    /\ toJoin \subseteq Client

(* A connection is with the main thread, with its worker, or closed.       *)
Owned ==
    /\ main \in {"slot", "start"} => \E c \in Client : taken = {c}
    /\ main \notin {"slot", "start"} => taken = {}
    /\ \A c \in taken : sock[c] = "open" /\ worker[c] = "none"
    /\ \A c \in Client : worker[c] # "none" => sock[c] \in {"open", "closed"}
    /\ \A c \in Client : worker[c] \in {"deregister", "release", "gone"} => sock[c] = "closed"
    /\ \A c \in Client : sock[c] = "open" => c \in taken \cup registered
    /\ \A c \in registered : worker[c] # "none"

(* How far close has come.                                                 *)
Closing ==
    /\ \A t \in Thread : closer[t] \in {"listener", "clients", "join"} => closeLock = t
    /\ \A t \in Thread : closeLock = t => closer[t] \in {"listener", "clients", "join"}
    /\ ~closed => closeLock = None /\ ~released
    /\ closed => closeLock # None \/ released
    /\ ~listening => \A c \in Client : sock[c] # "backlog"
    /\ closed => \A c \in Client : sock[c] = "open" => c \in taken \cup toShut
    /\ \A c \in toShut : worker[c] # "none"
    /\ \A t \in Thread : closer[t] \in {"clients", "join"} => ~listening
    /\ \A t \in Thread : closer[t] = "join" => toShut = {}
    /\ released => ~listening /\ toShut = {} /\ closed /\ closeLock = None

SafeInv == Types /\ Owned /\ Closing /\ CloseMeansReleased

-----------------------------------------------------------------------------
(* Types, ownership and close.                                             *)

LEMMA SafeInit == Init => SafeInv
  BY ServerAssumption
     DEF Init, SafeInv, Types, Owned, Closing, CloseMeansReleased, Thread, None

LEMMA SafeStep ==
    ASSUME SafeInv, [Next]_vars
    PROVE  SafeInv'
  <1> USE DEF SafeInv, Types, Owned, Closing, CloseMeansReleased, Thread, None
  <1>1. ASSUME NEW c \in Client, Connect(c) PROVE SafeInv'
    BY <1>1 DEF Connect, accepting, working, shutting
  <1>2. CASE Loop
    BY <1>2 DEF Loop, working, shutting
  <1>3. CASE Accept
    BY <1>3 DEF Accept, working, shutting
  <1>4. CASE AcquireSlot
    BY <1>4 DEF AcquireSlot, Drop, shutting
  <1>5. CASE StartWorker
    BY <1>5 DEF StartWorker, MayStart, ReturnPermit, Drop, shutting
  <1>6. CASE Interrupt
    BY <1>6 DEF Interrupt, working, shutting
  <1>7. CASE SetStop
    BY <1>7 DEF SetStop, accepting, working, shutting
  <1>8. ASSUME NEW c \in Client, Serve(c) PROVE SafeInv'
    BY <1>8 DEF Serve, accepting, shutting
  <1>9. ASSUME NEW c \in Client, Deregister(c) PROVE SafeInv'
    BY <1>9 DEF Deregister, accepting, shutting
  <1>10. ASSUME NEW c \in Client, ReleaseSlot(c) PROVE SafeInv'
    BY <1>10 DEF ReleaseSlot, accepting, shutting
  <1>11. ASSUME NEW t \in Thread, CallClose(t) PROVE SafeInv'
    BY <1>11 DEF CallClose, accepting, working
  <1>12. ASSUME NEW t \in Thread, EnterClose(t) PROVE SafeInv'
    <2>1. CASE closed
      BY <1>12, <2>1 DEF EnterClose, MayEnter, accepting, working
    <2>2. CASE ~closed
      <3>1. Types' /\ Owned' /\ CloseMeansReleased'
        BY <1>12, <2>2 DEF EnterClose, MayEnter, accepting, working
      <3>2. Closing'
        BY <1>12, <2>2 DEF EnterClose, MayEnter, accepting, working
      <3> QED
        BY <3>1, <3>2
    <2> QED
      BY <2>1, <2>2
  <1>13. ASSUME NEW t \in Thread, ShutListener(t) PROVE SafeInv'
    BY <1>13 DEF ShutListener, accepting, working
  <1>14. ASSUME NEW t \in Thread, ShutClient(t) PROVE SafeInv'
    BY <1>14 DEF ShutClient, accepting, working
  <1>15. ASSUME NEW t \in Thread, AllShut(t) PROVE SafeInv'
    BY <1>15 DEF AllShut, accepting, working
  <1>16. ASSUME NEW t \in Thread, Join(t) PROVE SafeInv'
    BY <1>16 DEF Join, accepting, working
  <1>17. ASSUME NEW t \in Thread, ReleaseLifecycle(t) PROVE SafeInv'
    BY <1>17 DEF ReleaseLifecycle, MayLeave, accepting, working
  <1>18. CASE UNCHANGED vars
    BY <1>18 DEF vars, accepting, working, shutting
  <1> QED
    BY <1>1, <1>2, <1>3, <1>4, <1>5, <1>6, <1>7, <1>8, <1>9, <1>10, <1>11, <1>12, <1>13, <1>14, <1>15, <1>16, <1>17, <1>18
       DEF Next, MainStep, Bookkeeping, CloseStep

-----------------------------------------------------------------------------
(* The permits.                                                            *)

LEMMA HoldingFinite ==
    ASSUME Types
    PROVE  IsFiniteSet(Holding)
  <1>1. Holding \subseteq Client
    BY DEF Holding, Types
  <1> QED
    BY <1>1, ServerAssumption, FS_Subset

(* The main thread takes a permit for a connection that has no worker.     *)
LEMMA PermitTaken ==
    ASSUME SafeInv, PermitsConserved, AcquireSlot, slots > 0
    PROVE  PermitsConserved'
  <1> PICK c \in Client : taken = {c}
    BY DEF SafeInv, Owned, AcquireSlot
  <1>1. c \notin Holding
    BY DEF Holding, SafeInv, Owned, AcquireSlot
  <1>2. Holding' = Holding \cup {c}
    BY DEF Holding, AcquireSlot, SafeInv, Types
  <1>3. Cardinality(Holding') = Cardinality(Holding) + 1
    BY <1>1, <1>2, HoldingFinite, FS_AddElement DEF SafeInv
  <1>4. slots' = slots - 1 /\ slots \in Nat /\ Cardinality(Holding) \in Nat
    BY HoldingFinite, FS_CardinalityType DEF AcquireSlot, SafeInv, Types
  <1> QED
    BY <1>3, <1>4, ServerAssumption DEF PermitsConserved

(* A permit given back belonged to somebody.                               *)
LEMMA PermitReturned ==
    ASSUME SafeInv, PermitsConserved, NEW c \in Holding,
           Holding' = Holding \ {c}, slots' = slots + 1
    PROVE  PermitsConserved'
  <1>1. Cardinality(Holding') = Cardinality(Holding) - 1
    BY HoldingFinite, FS_RemoveElement DEF SafeInv
  <1>2. slots \in Nat /\ Cardinality(Holding) \in Nat
    BY HoldingFinite, FS_CardinalityType DEF SafeInv, Types
  <1> QED
    BY <1>1, <1>2, ServerAssumption DEF PermitsConserved

LEMMA PermitsStep ==
    ASSUME SafeInv, PermitsConserved, [Next]_vars
    PROVE  PermitsConserved'
  <1> DEFINE Kept == slots' = slots /\ Holding' = Holding
  <1> SUFFICES ASSUME ~Kept PROVE PermitsConserved'
    BY DEF PermitsConserved
  <1>1. ASSUME NEW c \in Client, Connect(c) PROVE Kept
    BY <1>1 DEF Connect, Holding, accepting, working
  <1>2. CASE Loop
    BY <1>2 DEF Loop, Holding, working
  <1>3. CASE Accept
    BY <1>3 DEF Accept, Holding, working
  <1>4. CASE AcquireSlot
    <2>1. CASE slots > 0
      BY <1>4, <2>1, PermitTaken
    <2>2. CASE ~(slots > 0)
      BY <1>4, <2>2 DEF AcquireSlot, Drop, Holding
    <2> QED
      BY <2>1, <2>2
  <1>5. CASE StartWorker
    <2> PICK c \in Client : taken = {c}
      BY <1>5 DEF SafeInv, Owned, StartWorker
    <2>1. c \in Holding /\ worker[c] = "none"
      BY <1>5 DEF StartWorker, Holding, SafeInv, Owned
    <2>2. CASE slots' = slots
      <3>1. Holding' = Holding
        BY <1>5, <2>1, <2>2 DEF StartWorker, ReturnPermit, Drop, Holding, SafeInv, Types
      <3> QED
        BY <2>2, <3>1
    <2>3. CASE slots' # slots
      <3>1. Holding' = Holding \ {c} /\ slots' = slots + 1
        BY <1>5, <2>1, <2>3 DEF StartWorker, ReturnPermit, Drop, Holding, SafeInv, Types
      <3> QED
        BY <2>1, <3>1, PermitReturned
    <2> QED
      BY <2>2, <2>3
  <1>6. CASE Interrupt
    BY <1>6 DEF Interrupt, Holding, working
  <1>7. CASE SetStop
    BY <1>7 DEF SetStop, Holding, accepting, working
  <1>8. ASSUME NEW c \in Client, Serve(c) PROVE Kept
    BY <1>8 DEF Serve, Holding, accepting, SafeInv, Types
  <1>9. ASSUME NEW c \in Client, Deregister(c) PROVE Kept
    BY <1>9 DEF Deregister, Holding, accepting, SafeInv, Types
  <1>10. ASSUME NEW c \in Client, ReleaseSlot(c) PROVE PermitsConserved'
    <2>1. c \in Holding /\ c \notin taken
      BY <1>10 DEF ReleaseSlot, Holding, SafeInv, Owned
    <2>2. Holding' = Holding \ {c} /\ slots' = slots + 1
      BY <1>10, <2>1 DEF ReleaseSlot, Holding, accepting, SafeInv, Types
    <2> QED
      BY <2>1, <2>2, PermitReturned
  <1>11. ASSUME NEW t \in Thread, CallClose(t) \/ CloseStep(t) PROVE Kept
    BY <1>11
       DEF CallClose, CloseStep, EnterClose, ShutListener, ShutClient, AllShut, Join,
           ReleaseLifecycle, Holding, accepting, working
  <1>12. CASE UNCHANGED vars
    BY <1>12 DEF vars, accepting, working, Holding
  <1> QED
    BY <1>1, <1>2, <1>3, <1>4, <1>5, <1>6, <1>7, <1>8, <1>9, <1>10, <1>11, <1>12
       DEF Next, MainStep, Bookkeeping

LEMMA PermitsInit == Init => PermitsConserved
  <1> SUFFICES ASSUME Init PROVE PermitsConserved
    OBVIOUS
  <1>1. Holding = {}
    BY DEF Init, Holding
  <1> QED
    BY <1>1, FS_EmptySet, ServerAssumption DEF Init, PermitsConserved

ServerInv == SafeInv /\ PermitsConserved

(* What the inductive invariant says of the runs' invariants.              *)
LEMMA ServerInvImplies ==
    ServerInv => TypeOK /\ PermitsConserved /\ ClosedMeansShut /\ CloseMeansReleased
  <1> SUFFICES ASSUME ServerInv
               PROVE  TypeOK /\ PermitsConserved /\ ClosedMeansShut /\ CloseMeansReleased
    OBVIOUS
  <1>1. slots \in 0..MAX_CLIENT_WORKERS
    <2>1. slots \in Nat /\ Cardinality(Holding) \in Nat
      BY HoldingFinite, FS_CardinalityType DEF ServerInv, SafeInv, Types
    <2> QED
      BY <2>1, ServerAssumption DEF ServerInv, PermitsConserved
  <1>2. TypeOK
    BY <1>1 DEF TypeOK, ServerInv, SafeInv, Types
  <1>3. ClosedMeansShut
    BY DEF ClosedMeansShut, ServerInv, SafeInv, Types, Closing
  <1> QED
    BY <1>2, <1>3 DEF ServerInv, SafeInv

LEMMA ServerStep ==
    ASSUME ServerInv, [Next]_vars
    PROVE  ServerInv'
  BY SafeStep, PermitsStep DEF ServerInv

-----------------------------------------------------------------------------
(* The host.                                                               *)

HostTypes ==
    /\ life \in {"reader", "readerStarted", "watcher", "watcherStarted", "push", "serve",
                 "stop", "close", "joinReader", "joinWatcher", "exited"}
    /\ reader \in {"off", "reading", "eof", "done"}
    /\ watcher \in {"off", "spawn", "watch", "push", "held", "terminate", "gone"}
    /\ started \subseteq {"reader", "watcher"}
    /\ due \in 0..TERM_WAIT
    /\ elapsed \in 0..WATCHER_JOIN
    /\ {held, unflagged} \subseteq BOOLEAN

(* main does not join anybody before its close has returned and stop is    *)
(* set.                                                                    *)
Ending ==
    /\ life \in {"joinReader", "joinWatcher", "exited"} => closer["main"] = "done"
    /\ life \in {"close", "joinReader", "joinWatcher", "exited"} => stop

(* The latest moment, counted from the start of the join, at which the     *)
(* watcher leaves the state it is in once stop is set: it may have been    *)
(* about to push when it was, and pushes once more.                        *)
Latest(w) == CASE w \in {"spawn", "watch"} -> SELECT_WAIT
               [] w = "push"               -> 2 * SELECT_WAIT
               [] OTHER                    -> 2 * SELECT_WAIT + TERM_WAIT

Hurrying ==
    /\ watcher \in {"spawn", "watch", "push"} => due <= SELECT_WAIT
    /\ watcher = "held" => held
    /\ life \notin {"joinWatcher", "exited"} => elapsed = 0
    /\ life = "joinWatcher" /\ ~held => elapsed + due <= Latest(watcher)

(* main knows whether there is a watcher to wait for.                      *)
Flagged ==
    /\ watcher = "off" \/ "watcher" \in started \/ life = "watcherStarted" \/ unflagged
    /\ life \in {"reader", "readerStarted", "watcher", "watcherStarted", "push"} => ~unflagged

HostInv == ServerInv /\ HostTypes /\ Ending /\ Hurrying /\ Flagged /\ NoOrphan

(* A step of the host is a step of the server or leaves it alone.          *)
LEMMA HostStepIsServerStep ==
    ASSUME [HostNext]_allVars
    PROVE  [Next]_vars
  BY DEF HostNext, allVars, MainLife, StartReader, FlagReader, StartWatcher, FlagWatcher, PushTheme, MainCloses, Served,
         StopAll, Closed, JoinReader, JoinWatcher, StartupFails, Serving, Interrupted,
         StreamEnds, ReaderLife, ReaderStops, ReaderCloses, ReaderEnds, WatcherLife, Spawn,
         Iterate, Pushed, Terminated, LoopAgain, Watch, HoldUp, Tick, Aside, Next, Thread

LEMMA HostInitInv == HostInit => HostInv
  <1> SUFFICES ASSUME HostInit PROVE HostInv
    OBVIOUS
  <1>1. ServerInv
    BY SafeInit, PermitsInit DEF HostInit, ServerInv
  <1>2. HostTypes /\ Hurrying
    <2>1. HostTypes
      <3>1. due \in 0..TERM_WAIT /\ elapsed \in 0..WATCHER_JOIN
        BY DEF HostInit, WATCHER_JOIN, TERM_WAIT
      <3> QED
        BY <3>1 DEF HostInit, HostTypes
    <2>2. Hurrying
      BY DEF HostInit, Hurrying, Latest, SELECT_WAIT, TERM_WAIT
    <2> QED
      BY <2>1, <2>2
  <1>3. Ending /\ Flagged /\ NoOrphan
    BY DEF HostInit, Ending, Flagged, NoOrphan
  <1> QED
    BY <1>1, <1>2, <1>3 DEF HostInv

(* What a step of the server alone does to the variables Ending reads.     *)
LEMMA ServerKeeps ==
    ASSUME ServerInv, [Next]_vars
    PROVE  /\ stop => stop'
           /\ closer["main"] = "done" => closer'["main"] = "done"
  <1> USE DEF ServerInv, SafeInv, Types, Thread
  <1>1. CASE MainStep \/ Interrupt \/ SetStop
    BY <1>1 DEF MainStep, Loop, Accept, AcquireSlot, StartWorker, Interrupt, SetStop,
                accepting, working, shutting
  <1>2. ASSUME NEW c \in Client, Connect(c) \/ Serve(c) \/ Bookkeeping(c)
        PROVE  UNCHANGED <<stop, closer>>
    BY <1>2 DEF Connect, Serve, Bookkeeping, Deregister, ReleaseSlot, accepting, working, shutting
  <1>3. ASSUME NEW t \in Thread, CallClose(t) \/ CloseStep(t)
        PROVE  /\ stop' = stop
               /\ closer["main"] = "done" => closer'["main"] = "done"
    BY <1>3 DEF CallClose, CloseStep, EnterClose, ShutListener, ShutClient, AllShut, Join,
                ReleaseLifecycle
  <1>4. CASE UNCHANGED vars
    BY <1>4 DEF vars, shutting
  <1> QED
    BY <1>1, <1>2, <1>3, <1>4 DEF Next

LEMMA HostStep ==
    ASSUME HostInv, [HostNext]_allVars
    PROVE  HostInv'
  <1>1. ServerInv'
    BY HostStepIsServerStep, ServerStep DEF HostInv
  <1>2. /\ stop => stop'
        /\ closer["main"] = "done" => closer'["main"] = "done"
    BY HostStepIsServerStep, ServerKeeps DEF HostInv
  <1>3. HostTypes' /\ Ending' /\ Hurrying' /\ Flagged' /\ NoOrphan'
    <2> USE <1>2 DEF HostInv, HostTypes, Ending, Hurrying, Latest, Flagged, NoOrphan,
                 WATCHER_JOIN, TERM_WAIT, SELECT_WAIT, hostVars, threads, watching
    <2>1. CASE MainLife
      <3>1. CASE StartReader \/ FlagReader \/ PushTheme \/ MainCloses
        BY <2>1, <3>1 DEF StartReader, FlagReader, PushTheme, MainCloses
      <3>5. CASE StartWatcher \/ FlagWatcher
        BY <2>1, <3>5 DEF StartWatcher, FlagWatcher
      <3>2. CASE Served \/ StopAll \/ Closed
        BY <3>2 DEF Served, StopAll, SetStop, Closed, ServerClosed
      <3>3. CASE JoinReader
        BY <3>3 DEF JoinReader, ReaderJoined
      <3>4. CASE JoinWatcher
        BY <3>4 DEF JoinWatcher
      <3> QED
        BY <2>1, <3>1, <3>2, <3>3, <3>4, <3>5 DEF MainLife
    <2>2. CASE StartupFails
      <3>1. /\ life' = "stop" /\ UNCHANGED <<reader, started, watcher, due, held, elapsed>>
            /\ life \notin {"joinWatcher", "exited"}
        BY <2>2 DEF StartupFails
      <3>2. unflagged' \in BOOLEAN /\ (life = "watcherStarted" => unflagged' = TRUE)
        BY <2>2 DEF StartupFails
      <3> QED
        BY <2>2, <3>1, <3>2 DEF StartupFails
    <2>9. CASE Interrupted
      BY <2>9 DEF Interrupted
    <2>3. CASE Serving \/ (\E c \in Client : Aside(Connect(c) \/ Serve(c) \/ Bookkeeping(c)))
               \/ (\E t \in Thread : Aside(CloseStep(t)))
      BY <2>3 DEF Serving, Aside
    <2>4. CASE (life # "exited" /\ StreamEnds) \/ ReaderLife
      BY <2>4 DEF StreamEnds, ReaderLife, ReaderStops, ReaderCloses, ReaderEnds
    <2>5. CASE WatcherLife
      BY <2>5 DEF WatcherLife, Spawn, Iterate, Pushed, Terminated, LoopAgain, Watch
    <2>6. CASE life # "exited" /\ HoldUp
      BY <2>6 DEF HoldUp, Watch
    <2>7. CASE Tick
      BY <2>7 DEF Tick
    <2>8. CASE UNCHANGED allVars
      BY <2>8 DEF allVars, vars, shutting
    <2> QED
      BY <2>1, <2>2, <2>3, <2>4, <2>5, <2>6, <2>7, <2>8, <2>9 DEF HostNext
  <1> QED
    BY <1>1, <1>3 DEF HostInv

-----------------------------------------------------------------------------
(* The theorems.                                                           *)

LEMMA HostAlways == HostSpec => []HostInv
  BY HostInitInv, HostStep, PTL DEF HostSpec

(* The server alone, in whatever process it runs, keeps its permits and    *)
(* shuts and releases everything when it is closed (socket_server.py:      *)
(* 299-387).                                                               *)
THEOREM ServerIsSafe ==
    Spec => [](TypeOK /\ PermitsConserved /\ ClosedMeansShut /\ CloseMeansReleased)
  BY SafeInit, PermitsInit, ServerStep, ServerInvImplies, PTL DEF Spec, ServerInv

(* The process uses its server as the server's own specification allows:   *)
(* what main, the reader and the watcher do to it are steps of             *)
(* serve_forever, of a worker or of close (host.py:170-174, 186-213).      *)
THEOREM HostImplementsServer == HostSpec => Spec
  <1>1. HostInit => Init
    BY DEF HostInit
  <1>2. [HostNext]_allVars => [Next]_vars
    BY HostStepIsServerStep
  <1> QED
    BY <1>1, <1>2, PTL DEF HostSpec, Spec

(* The variables of the host and of its server have their types.           *)
THEOREM HostIsTyped == HostSpec => []HostTypeOK
  <1>1. HostInv => HostTypeOK
    BY ServerInvImplies DEF HostInv, HostTypes, HostTypeOK
  <1> QED
    BY <1>1, HostAlways, PTL

(* In the host no permit is lost or made up (socket_server.py:299-333).    *)
THEOREM HostConservesPermits == HostSpec => []PermitsConserved
  <1>1. HostInv => PermitsConserved
    BY DEF HostInv, ServerInv
  <1> QED
    BY <1>1, HostAlways, PTL

(* When the host has released the lifecycle no connection is left open but *)
(* one that main has just accepted (socket_server.py:313-317, 356-375).    *)
THEOREM HostShutsClients == HostSpec => []ClosedMeansShut
  <1>1. HostInv => ClosedMeansShut
    BY ServerInvImplies DEF HostInv
  <1> QED
    BY <1>1, HostAlways, PTL

(* To the reader and to main the return of close means the lifecycle is    *)
(* released (socket_server.py:355-358, 387).                               *)
THEOREM HostCloses == HostSpec => []CloseMeansReleased
  <1>1. HostInv => CloseMeansReleased
    BY ServerInvImplies DEF HostInv
  <1> QED
    BY <1>1, HostAlways, PTL

(* The process never ends with the socket file and the lock in place       *)
(* (host.py:200-213).                                                      *)
THEOREM HostReleases == HostSpec => []ExitReleases
  <1>1. HostInv => ExitReleases
    BY DEF HostInv, Ending, ExitReleases, ServerInv, SafeInv, CloseMeansReleased, Thread
  <1> QED
    BY <1>1, HostAlways, PTL

(* The 1.5 seconds main waits are enough for the watcher to end            *)
(* inotifywait (host.py:211-213, theme.py:51-76).                          *)
THEOREM HostLeavesNoOrphan == HostSpec => []NoOrphan
  <1>1. HostInv => NoOrphan
    BY DEF HostInv
  <1> QED
    BY <1>1, HostAlways, PTL

-----------------------------------------------------------------------------
(* The theme watcher, one of the host's threads, by itself.  The argument: *)
(* whoever has read an older palette than the one on disk is followed by a *)
(* report, a deadline or a reading that leads to the newer one.            *)

Name == {"theme"} \cup OtherNames

Has(s) == \E n \in 1..Len(s) : s[n] = "theme"

(* The palette on disk is going to be read.                                *)
Expected == Has(pipe) \/ Has(buffer) \/ deadline # "none" \/ push["watcher"] = "read"

(* With a quiet start the first push is of the palette the host started    *)
(* with, and no report comes before it.                                    *)
Beginning ==
    /\ ~Started => /\ theme = 0
                         /\ pipe = << >> /\ buffer = << >> /\ deadline = "none"
                         /\ push["watcher"] = "idle"
    /\ push["main"] = "send" => palette["main"] = theme

(* What was read last is what is on disk, unless it is going to be read    *)
(* again.                                                                  *)
Followed ==
    /\ push["watcher"] = "send" /\ watch # "ended" /\ ~Expected => palette["watcher"] = theme
    /\ (\A t \in Pusher : push[t] = "idle") /\ watch # "ended" /\ ~Expected => InSync

ThemeInv ==
    /\ WatchTypeOK
    /\ theme <= events
    /\ QuietStart => Beginning /\ Followed

LEMMA HasAppend ==
    ASSUME NEW s \in Seq(Name), NEW a \in Name
    PROVE  Append(s, a) \in Seq(Name) /\ (Has(Append(s, a)) <=> Has(s) \/ a = "theme")
  <1>1. /\ Append(s, a) \in Seq(Name) /\ Len(Append(s, a)) = Len(s) + 1
        /\ \A n \in 1..Len(s) : Append(s, a)[n] = s[n]
        /\ Append(s, a)[Len(s) + 1] = a
    BY AppendProperties
  <1>2. Len(s) \in Nat
    BY LenProperties
  <1> QED
    BY <1>1, <1>2 DEF Has

LEMMA HasTail ==
    ASSUME NEW s \in Seq(Name), s # << >>
    PROVE  /\ Head(s) \in Name /\ Tail(s) \in Seq(Name)
           /\ Has(s) <=> Head(s) = "theme" \/ Has(Tail(s))
  <1>1. /\ Head(s) \in Name /\ Tail(s) \in Seq(Name) /\ Head(s) = s[1]
        /\ Len(Tail(s)) = Len(s) - 1 /\ \A n \in 1..Len(Tail(s)) : Tail(s)[n] = s[n + 1]
    BY HeadTailProperties
  <1>2. Len(s) \in Nat \ {0}
    BY LenProperties, EmptySeq
  <1>3. Has(s) => Head(s) = "theme" \/ Has(Tail(s))
    <2> SUFFICES ASSUME NEW n \in 1..Len(s), s[n] = "theme", n # 1
                 PROVE  Has(Tail(s))
      BY <1>1 DEF Has
    <2>1. n - 1 \in 1..Len(Tail(s)) /\ Tail(s)[n - 1] = s[(n - 1) + 1] /\ (n - 1) + 1 = n
      BY <1>1, <1>2
    <2> QED
      BY <2>1 DEF Has
  <1>4. Head(s) = "theme" \/ Has(Tail(s)) => Has(s)
    <2>1. Head(s) = "theme" => Has(s)
      BY <1>1, <1>2 DEF Has
    <2>2. Has(Tail(s)) => Has(s)
      <3> SUFFICES ASSUME NEW n \in 1..Len(Tail(s)), Tail(s)[n] = "theme"
                   PROVE  Has(s)
        BY DEF Has
      <3>1. n + 1 \in 1..Len(s) /\ s[n + 1] = "theme"
        BY <1>1, <1>2
      <3> QED
        BY <3>1 DEF Has
    <2> QED
      BY <2>1, <2>2
  <1> QED
    BY <1>1, <1>3, <1>4

LEMMA HasEmpty == << >> \in Seq(Name) /\ ~Has(<< >>)
  BY EmptySeq DEF Has

LEMMA ThemeInit ==
    ASSUME WatchInit
    PROVE  ThemeInv
  <1> USE ThemeAssumption DEF WatchInit
  <1>1. WatchTypeOK
    <2>1. {pipe, buffer} \subseteq Seq(Name)
      BY HasEmpty
    <2>2. /\ theme \in 0..MaxEvents /\ events \in 0..MaxEvents
          /\ shown \in (Nat \cup {NoTheme}) \ Unreadable
      BY DEF NoTheme
    <2> QED
      BY <2>1, <2>2 DEF WatchTypeOK, Pusher, Name
  <1>2. Beginning
    BY DEF Beginning
  <1>3. Followed
    BY DEF Followed, Pusher
  <1> QED
    BY <1>1, <1>2, <1>3 DEF ThemeInv

LEMMA ThemeStep ==
    ASSUME ThemeInv, [WatchNext]_watchVars
    PROVE  ThemeInv'
  <1> USE ThemeAssumption DEF ThemeInv, WatchTypeOK, Pusher, NoTheme,
              disk, stream, pushing, watchVars, Started, InSync
  <1>0. /\ pipe \in Seq(Name) /\ buffer \in Seq(Name)
        /\ theme \in Nat /\ events \in Nat
    BY DEF Name
  <1>1. ASSUME NEW name \in Name, Appears(name) PROVE ThemeInv'
    <2> USE <1>1 DEF Appears
    <2>1. pipe' \in Seq(Name) /\ (Has(pipe) => Has(pipe'))
      BY <1>0, HasAppend
    <2>2. theme' <= events' /\ theme' \in 0..MaxEvents /\ events' \in 0..MaxEvents
      BY <1>0
    <2>3. WatchTypeOK'
      BY <2>1, <2>2 DEF Name
    <2>4. ASSUME QuietStart PROVE Beginning' /\ Followed'
      <3>1. Started
        BY <2>4
      <3>2. Beginning'
        BY <2>4, <3>1 DEF Beginning
      <3>3. CASE name = "theme"
        <4>1. watch = "on" => Has(pipe')
          BY <3>3, <1>0, HasAppend
        <4> QED
          BY <3>1, <3>2, <4>1 DEF Followed, Expected
      <3>4. CASE name # "theme"
        <4>1. theme' = theme
          BY <3>4
        <4> QED
          BY <2>1, <2>4, <3>2, <4>1 DEF Followed, Expected
      <3> QED
        BY <3>3, <3>4
    <2> QED
      BY <2>2, <2>3, <2>4
  <1>2. CASE StartWatch
    BY <1>2 DEF StartWatch, Beginning, Followed, Expected
  <1>3. CASE EndWatch
    BY <1>3 DEF EndWatch, Beginning, Followed, Expected
  <1>4. CASE ReadLine
    <2> USE <1>4 DEF ReadLine, Looping, Arm
    <2>0. \/ /\ buffer # << >> /\ buffer' = Tail(buffer) /\ pipe' = pipe
             /\ Head(buffer) = "theme" => deadline' = "armed"
          \/ /\ pipe # << >> /\ buffer = << >> /\ buffer' = Tail(pipe) /\ pipe' = << >>
             /\ Head(pipe) = "theme" => deadline' = "armed"
      OBVIOUS
    <2>1. pipe' \in Seq(Name) /\ buffer' \in Seq(Name)
      BY ONLY <2>0, <1>0, HasTail, HasEmpty
    <2>2. WatchTypeOK'
      BY <2>1 DEF Name
    <2>3. Has(pipe) \/ Has(buffer) => Has(pipe') \/ Has(buffer') \/ deadline' = "armed"
      BY ONLY <2>0, <1>0, HasTail, HasEmpty
    <2>4. Expected => Expected'
      BY <2>3 DEF Expected
    <2>5. ASSUME QuietStart PROVE Beginning' /\ Followed'
      <3>1. Started
        BY <2>5 DEF Beginning
      <3> QED
        BY <2>4, <2>5, <3>1 DEF Beginning, Followed
    <2> QED
      BY <2>2, <2>5
  <1>5. CASE Elapse
    BY <1>5 DEF Elapse, Beginning, Followed, Expected
  <1>6. CASE Fire
    <2> USE <1>6 DEF Fire, Looping
    <2>1. WatchTypeOK' /\ push'["watcher"] = "read" /\ push'["main"] = push["main"]
      OBVIOUS
    <2>2. ASSUME QuietStart PROVE Beginning' /\ Followed'
      <3>1. Started
        BY <2>2 DEF Beginning
      <3> QED
        BY <2>1, <2>2, <3>1 DEF Beginning, Followed, Expected
    <2> QED
      BY <2>1, <2>2
  <1>7. ASSUME NEW t \in Pusher, ReadPalette(t) PROVE ThemeInv'
    <2> USE <1>7 DEF ReadPalette
    <2>1. WatchTypeOK'
      BY <1>0
    <2>2. ASSUME QuietStart PROVE Beginning'
      BY <2>1, <2>2 DEF Beginning
    <2>3. ASSUME QuietStart PROVE Followed'
      <3>1. CASE t = "main"
        <4>1. ~Started /\ push["watcher"] = "idle"
          BY <2>3, <3>1 DEF Beginning
        <4> QED
          BY <2>1, <2>3, <3>1, <4>1 DEF Followed, Expected, Beginning
      <3>2. CASE t = "watcher"
        <4>1. palette'["watcher"] = theme /\ theme' = theme
          BY <3>2
        <4>2. push'["watcher"] = "idle" => InSync'
          BY <3>2
        <4> QED
          BY <4>1, <4>2 DEF Followed
      <3> QED
        BY <3>1, <3>2
    <2> QED
      BY <2>1, <2>2, <2>3
  <1>8. ASSUME NEW t \in Pusher, SendPalette(t) PROVE ThemeInv'
    <2> USE <1>8 DEF SendPalette
    <2>1. WatchTypeOK' /\ push'[t] = "idle" /\ shown' = palette[t]
          /\ \A u \in Pusher \ {t} : push'[u] = push[u]
      BY <1>0
    <2>2. ASSUME QuietStart PROVE Beginning'
      BY <2>1, <2>2 DEF Beginning
    <2>3. ASSUME QuietStart PROVE Followed'
      <3>1. CASE t = "main"
        <4>1. ~Started /\ push["watcher"] = "idle" /\ palette["main"] = theme
          BY <2>3, <3>1 DEF Beginning
        <4> QED
          BY <2>1, <3>1, <4>1 DEF Followed
      <3>2. CASE t = "watcher"
        <4>1. watch # "ended" /\ ~Expected' => shown' = theme
          BY <2>1, <2>3, <3>2 DEF Followed, Expected
        <4> QED
          BY <2>1, <3>2, <4>1 DEF Followed
      <3> QED
        BY <3>1, <3>2
    <2> QED
      BY <2>1, <2>2, <2>3
  <1>9. CASE UNCHANGED watchVars
    BY <1>9 DEF Beginning, Followed, Expected
  <1> QED
    BY <1>1, <1>2, <1>3, <1>4, <1>5, <1>6, <1>7, <1>8, <1>9 DEF WatchNext, Name

LEMMA ThemeInvariance == WatchSpec => []ThemeInv
  BY ThemeInit, ThemeStep, PTL DEF WatchSpec

(* The watcher's state has its types, and only palettes that could be read *)
(* are sent (theme.py:23-30, host.py:195-198).                             *)
THEOREM ThemeIsTyped == WatchSpec => []WatchTypeOK
  <1>1. ThemeInv => WatchTypeOK
    BY DEF ThemeInv
  <1> QED
    BY ThemeInvariance, <1>1, PTL

(* When the host comes to rest Firefox shows the palette on disk, however  *)
(* many changes there were and wherever they fell (theme.py:51-65).        *)
THEOREM ThemeRestsInSync == WatchSpec => []RestIsSynchronized
  <1>1. ThemeInv => RestIsSynchronized
    BY HasEmpty DEF ThemeInv, Followed, Expected, RestIsSynchronized, AtRest, Pusher
  <1> QED
    BY ThemeInvariance, <1>1, PTL
=============================================================================
