---------------------------- MODULE SocketServer ----------------------------
(***************************************************************************)
(* The threads of one BridgeSocketServer (socket_server.py): the main      *)
(* thread accepts connections in serve_forever and starts a worker thread  *)
(* for each, at most MAX_CLIENT_WORKERS at a time; the main thread and the *)
(* native reader may each call close, at any moment and at the same time.  *)
(*                                                                         *)
(* A step is one critical section of _state_lock, one system call or one   *)
(* call that can block.  The socket file and the lifecycle lock behind     *)
(* _release_lifecycle are the subject of ServerLifecycle.                  *)
(***************************************************************************)
EXTENDS Integers, FiniteSets

CONSTANTS
    Client,               \* connections that local programs make
    MAX_CLIENT_WORKERS    \* worker threads at a time

ASSUME ServerAssumption ==
    /\ IsFiniteSet(Client)
    /\ MAX_CLIENT_WORKERS \in Nat \ {0}

Thread == {"main", "reader"}    \* the threads that may call close

None == "none"

VARIABLES
    stop,        \* the host's stop event
    listening,   \* the listening socket is open
    sock,        \* server side of every connection
    main,        \* where the main thread is in serve_forever
    taken,       \* the connection the main thread has accepted and not passed on
    slots,       \* free permits of _worker_slots
    worker,      \* where every worker thread is
    registered,  \* _clients and _workers, which change together
    closed, closeLock,
    closer,      \* where every thread is in close
    toShut,      \* connections close has still to shut
    toJoin,      \* workers close has still to join
    released     \* _release_lifecycle was called

accepting == <<main, taken>>
working   == <<slots, worker, registered>>
shutting  == <<closed, closeLock, closer, toShut, toJoin, released>>
vars      == <<stop, listening, sock, accepting, working, shutting>>

Init ==
    /\ stop = FALSE
    /\ listening = TRUE
    /\ sock = [c \in Client |-> "none"]
    /\ main = "loop"
    /\ taken = {}
    /\ slots = MAX_CLIENT_WORKERS
    /\ worker = [c \in Client |-> "none"]
    /\ registered = {}
    /\ closed = FALSE
    /\ closeLock = None
    /\ closer = [t \in Thread |-> "out"]
    /\ toShut = {}
    /\ toJoin = {}
    /\ released = FALSE

-----------------------------------------------------------------------------
(* A program connects: the kernel queues the connection while the socket   *)
(* listens.                                                                *)
Connect(c) ==
    /\ listening
    /\ sock[c] = "none"
    /\ sock' = [sock EXCEPT ![c] = "backlog"]
    /\ UNCHANGED <<stop, listening, accepting, working, shutting>>

-----------------------------------------------------------------------------
(* The main thread in serve_forever and _start_client.                     *)

(* Top of the loop: the stop event, then closed under _state_lock.         *)
Loop ==
    /\ main = "loop"
    /\ main' = IF stop \/ closed THEN "leave" ELSE "accept"
    /\ UNCHANGED <<stop, listening, sock, taken, working, shutting>>

(* accept returns a connection, times out, or raises on a closed socket.   *)
Accept ==
    /\ main = "accept"
    /\ \/ /\ listening
          /\ \E c \in Client : /\ sock[c] = "backlog"
                               /\ sock' = [sock EXCEPT ![c] = "open"]
                               /\ taken' = {c}
          /\ main' = "slot"
       \/ /\ listening /\ \A c \in Client : sock[c] # "backlog"
          /\ main' = "loop"
          /\ UNCHANGED <<sock, taken>>
       \/ /\ ~listening
          /\ main' = "leave"
          /\ UNCHANGED <<sock, taken>>
    /\ UNCHANGED <<stop, listening, working, shutting>>

(* KeyboardInterrupt reaches the main thread at the top of the loop or in  *)
(* accept, where it spends its time.                                       *)
Interrupt ==
    /\ main \in {"loop", "accept"}
    /\ main' = "leave"
    /\ UNCHANGED <<stop, listening, sock, taken, working, shutting>>

(* Mutant: a connection that gets no worker is forgotten.                  *)
DropSilently == taken' = {} /\ UNCHANGED sock

Drop == sock' = [c \in Client |-> IF c \in taken THEN "closed" ELSE sock[c]] /\ taken' = {}

(* A permit without blocking, or the connection is closed unanswered.      *)
AcquireSlot ==
    /\ main = "slot"
    /\ IF slots > 0
       THEN slots' = slots - 1 /\ main' = "start" /\ UNCHANGED <<sock, taken>>
       ELSE Drop /\ main' = "loop" /\ UNCHANGED slots
    /\ UNCHANGED <<stop, listening, worker, registered, shutting>>

(* Mutant: closed is not looked at again under _state_lock.                *)
MayStartAlways == TRUE

MayStart == ~closed

(* Mutant: the permit is kept when no worker is started.                  *)
KeepPermit == UNCHANGED slots

ReturnPermit == slots' = slots + 1

(* The critical section of _start_client.  Thread creation may fail, and   *)
(* then everything is undone.                                              *)
StartWorker ==
    /\ main = "start"
    /\ \/ /\ MayStart
          /\ registered' = registered \cup taken
          /\ worker' = [c \in Client |-> IF c \in taken THEN "serving" ELSE worker[c]]
          /\ taken' = {}
          /\ UNCHANGED <<sock, slots>>
       \/ /\ ReturnPermit
          /\ Drop
          /\ UNCHANGED <<worker, registered>>
    /\ main' = "loop"
    /\ UNCHANGED <<stop, listening, shutting>>

-----------------------------------------------------------------------------
(* A worker thread: _client_worker.                                        *)

(* _serve_client comes to an end and the connection is closed.  Reading    *)
(* the request and calling the handler take bounded time; an answer on a   *)
(* connection that close has shut is lost.                                 *)
Serve(c) ==
    /\ worker[c] = "serving"
    /\ worker' = [worker EXCEPT ![c] = "deregister"]
    /\ sock' = [sock EXCEPT ![c] = "closed"]
    /\ UNCHANGED <<stop, listening, accepting, slots, registered, shutting>>

Deregister(c) ==
    /\ worker[c] = "deregister"
    /\ registered' = registered \ {c}
    /\ worker' = [worker EXCEPT ![c] = "release"]
    /\ UNCHANGED <<stop, listening, sock, accepting, slots, shutting>>

ReleaseSlot(c) ==
    /\ worker[c] = "release"
    /\ slots' = slots + 1
    /\ worker' = [worker EXCEPT ![c] = "gone"]
    /\ UNCHANGED <<stop, listening, sock, accepting, registered, shutting>>

-----------------------------------------------------------------------------
(* close.                                                                  *)

(* The host's stop event is set, by either thread.                         *)
SetStop ==
    /\ stop' = TRUE
    /\ UNCHANGED <<listening, sock, accepting, working, shutting>>

(* The reader calls close when the stream has ended, the main thread when  *)
(* it leaves serve_forever.                                                *)
CallClose(t) ==
    /\ closer[t] = "out"
    /\ t = "main" => main = "leave"
    /\ closer' = [closer EXCEPT ![t] = "lock"]
    /\ UNCHANGED <<stop, listening, sock, accepting, working, closed, closeLock, toShut, toJoin, released>>

(* Mutant: whoever finds the server closed returns without waiting.        *)
MayEnterUnlocked == closed \/ closeLock = None

MayEnter == closeLock = None

(* The close lock, then closed under _state_lock: the first closer marks   *)
(* the server closed and notes who is connected, the second returns.       *)
EnterClose(t) ==
    /\ closer[t] = "lock"
    /\ MayEnter
    /\ IF closed
       THEN /\ closer' = [closer EXCEPT ![t] = "done"]
            /\ UNCHANGED <<closed, closeLock, toShut, toJoin>>
       ELSE /\ closer' = [closer EXCEPT ![t] = "listener"]
            /\ closeLock' = t
            /\ closed' = TRUE
            /\ toShut' = registered
            /\ toJoin' = registered
    /\ UNCHANGED <<stop, listening, sock, accepting, working, released>>

(* shutdown and close of the listening socket: accept raises, and what is  *)
(* queued is reset.                                                        *)
ShutListener(t) ==
    /\ closer[t] = "listener"
    /\ listening' = FALSE
    /\ sock' = [c \in Client |-> IF sock[c] = "backlog" THEN "closed" ELSE sock[c]]
    /\ closer' = [closer EXCEPT ![t] = "clients"]
    /\ UNCHANGED <<stop, accepting, working, closed, closeLock, toShut, toJoin, released>>

ShutClient(t) ==
    /\ closer[t] = "clients"
    /\ \E c \in toShut : /\ toShut' = toShut \ {c}
                         /\ sock' = [sock EXCEPT ![c] = "closed"]
    /\ UNCHANGED <<stop, listening, accepting, working, closed, closeLock, closer, toJoin, released>>

AllShut(t) ==
    /\ closer[t] = "clients"
    /\ toShut = {}
    /\ closer' = [closer EXCEPT ![t] = "join"]
    /\ UNCHANGED <<stop, listening, sock, accepting, working, closed, closeLock, toShut, toJoin, released>>

(* join returns when the worker is gone.                                   *)
Join(t) ==
    /\ closer[t] = "join"
    /\ \E c \in toJoin : /\ worker[c] = "gone"
                         /\ toJoin' = toJoin \ {c}
    /\ UNCHANGED <<stop, listening, sock, accepting, working, closed, closeLock, closer, toShut, released>>

(* Mutant: join without a deadline.                                        *)
MayLeaveJoined == toJoin = {}

(* Everyone is joined, or the aggregate deadline is over.                  *)
MayLeave == TRUE

(* The finally clause: the lifecycle is released and the lock given back.  *)
ReleaseLifecycle(t) ==
    /\ closer[t] = "join"
    /\ MayLeave
    /\ released' = TRUE
    /\ closeLock' = None
    /\ toJoin' = {}
    /\ closer' = [closer EXCEPT ![t] = "done"]
    /\ UNCHANGED <<stop, listening, sock, accepting, working, closed, toShut>>

-----------------------------------------------------------------------------

MainStep == Loop \/ Accept \/ AcquireSlot \/ StartWorker
Bookkeeping(c) == Deregister(c) \/ ReleaseSlot(c)
CloseStep(t) ==
    \/ EnterClose(t) \/ ShutListener(t) \/ ShutClient(t) \/ AllShut(t)
    \/ Join(t) \/ ReleaseLifecycle(t)

Next ==
    \/ \E c \in Client : Connect(c) \/ Serve(c) \/ Bookkeeping(c)
    \/ MainStep
    \/ Interrupt
    \/ SetStop
    \/ \E t \in Thread : CallClose(t) \/ CloseStep(t)

(* Liveness needs the whole process and is stated in Host.                 *)
Spec == Init /\ [][Next]_vars

-----------------------------------------------------------------------------

(* Types, and that there are never more free permits than workers allowed. *)
TypeOK ==
    /\ {stop, listening, closed, released} \subseteq BOOLEAN
    /\ sock \in [Client -> {"none", "backlog", "open", "closed"}]
    /\ main \in {"loop", "accept", "slot", "start", "leave"}
    /\ taken \subseteq Client
    /\ slots \in 0..MAX_CLIENT_WORKERS
    /\ worker \in [Client -> {"none", "serving", "deregister", "release", "gone"}]
    /\ registered \subseteq Client
    /\ closeLock \in Thread \cup {None}
    /\ closer \in [Thread -> {"out", "lock", "listener", "clients", "join", "done"}]
    /\ toShut \subseteq Client
    /\ toJoin \subseteq Client

(* No permit is lost or made up on any of the paths a connection can take: *)
(* refused, closed under it, thread not created, served.  So the server    *)
(* never runs more than MAX_CLIENT_WORKERS workers, and never wedges at    *)
(* zero permits (socket_server.py:299-333).                                *)
Holding == {c \in Client : worker[c] \in {"serving", "deregister", "release"}}
              \cup (IF main = "start" THEN taken ELSE {})

PermitsConserved == slots + Cardinality(Holding) = MAX_CLIENT_WORKERS

(* When the lifecycle is released no client is left on an open connection, *)
(* whatever the main thread was doing with one when close began: only one  *)
(* it has just accepted is still to be closed by it (socket_server.py:     *)
(* 313-317 against 356-375).                                               *)
ClosedMeansShut ==
    released => \A c \in Client : sock[c] \in {"none", "closed"} \/ c \in taken

(* To both callers of close, its return means the lifecycle is released:   *)
(* the main thread cannot exit the process while the reader is still       *)
(* half-way through (socket_server.py:355-358, 387).                       *)
CloseMeansReleased == \A t \in Thread : closer[t] = "done" => released
=============================================================================
