---------------------------- MODULE NativeBridge ----------------------------
(***************************************************************************)
(* The request broker inside the native host: class NativeBridge of        *)
(* host.py.  Every client of the local socket is served by a thread of its *)
(* own, which runs handle_client and, for a request the extension has to   *)
(* answer, sends a frame with a random id and waits on a queue of size one.*)
(* The reader thread hands the extension's answers to those queues by id.  *)
(* The reader (at end of file) and the main thread (on its way out) each   *)
(* call disconnect.                                                        *)
(*                                                                         *)
(* A step is the code between two points at which another thread can run:  *)
(* one critical section, one blocking call, one queue operation.           *)
(***************************************************************************)
EXTENDS BridgeMessages, FiniteSets

CONSTANTS
    Worker,        \* the client threads; a slot is reused when its client left
    RequestId,     \* the ids secrets.token_hex can draw
    NoId,          \* no id drawn yet
    TokenRepeats,  \* FALSE: an id that was on the wire is never drawn again
    MaxGen         \* bound: frames requested while the extension is connected

ASSUME BridgeAssumption ==
    /\ NoId \notin RequestId
    /\ TokenRepeats \in BOOLEAN
    /\ MaxGen \in Nat

NoEntry == 0      \* generations start at 1

(* The content of a response queue: nothing, the None that disconnect puts *)
(* there, or (generation, message).  "frame" is the generation of the      *)
(* frame the extension answered, which the code does not know.             *)
Empty == [tag |-> "empty"]
Gone  == [tag |-> "gone"]
Item  == [tag : {"item"}, gen : Nat, frame : Nat, msg : Answer]

Closer == {"reader", "main"}    \* the threads that call disconnect

VARIABLES
    connected, pending, request_generation, snapshot_ids, snapshot_generation,
    pc,        \* where each client thread stands in handle_client and request
    req,       \* its request
    gen, rid,  \* the generation and the id of its frame
    box,       \* its response_queue
    result,    \* what request returned or raised, then the response
    hand,      \* the item the reader looked up and has not put yet
    closing,   \* the threads that entered disconnect
    targets,   \* the queues, by generation, disconnect has still to wake
    sent       \* history: the frames written to Firefox

bridge  == <<connected, pending, request_generation, snapshot_ids, snapshot_generation>>
client  == <<pc, req, gen, rid, box, result>>
threads == <<hand, closing, targets>>
vars    == <<bridge, client, threads, sent>>

-----------------------------------------------------------------------------

Init ==
    /\ connected = TRUE
    /\ pending = [id \in RequestId |-> NoEntry]
    /\ request_generation = 0
    /\ snapshot_ids = {}
    /\ snapshot_generation = 0
    /\ pc = [w \in Worker |-> "idle"]
    /\ req = [w \in Worker |-> NoRequest]
    /\ gen = [w \in Worker |-> NoEntry]
    /\ rid = [w \in Worker |-> NoId]
    /\ box = [w \in Worker |-> Empty]
    /\ result = [w \in Worker |-> Empty]
    /\ hand = Empty
    /\ closing = {}
    /\ targets = [t \in Closer |-> {}]
    /\ sent = {}

Goto(w, l) == pc' = [pc EXCEPT ![w] = l]
Respond(w, r) == Goto(w, "done") /\ result' = [result EXCEPT ![w] = r]

-----------------------------------------------------------------------------
(* The client threads.                                                     *)

(* The bound: room for the frame of every thread that may still draw one.  *)
WithinBound ==
    \/ ~connected
    \/ request_generation + Cardinality({v \in Worker : pc[v] \in {"check", "register"}})
         < MaxGen

(* Mutant: the allowlist lookup is skipped.                                *)
FirstStepUnchecked(action) == IF action = "malformed" THEN "refuse" ELSE "register"

FirstStep(action) ==
    IF action = "activate" THEN "check"
    ELSE IF action = "malformed" THEN "refuse" ELSE "register"

(* A client's request reaches handle_client.                               *)
Accept(w) ==
    /\ pc[w] = "idle"
    /\ WithinBound
    /\ \E r \in Request : /\ req' = [req EXCEPT ![w] = r]
                          /\ Goto(w, FirstStep(r.action))
    /\ UNCHANGED <<bridge, gen, rid, box, result, threads, sent>>

Refuse(w) ==
    /\ pc[w] = "refuse"
    /\ Respond(w, Failed("invalid-request"))
    /\ UNCHANGED <<bridge, req, gen, rid, box, threads, sent>>

(* The allowlist lookup, alone under snapshot_lock.                        *)
CheckAllowed(w) ==
    /\ pc[w] = "check"
    /\ IF req[w].pair \in snapshot_ids
       THEN Goto(w, "register") /\ UNCHANGED result
       ELSE Respond(w, Failed("stale-tab"))
    /\ UNCHANGED <<bridge, req, gen, rid, box, threads, sent>>

(* Mutants: ids drawn without looking at pending; ids from a small counter.*)
FreeIdUnchecked(id) == \A f \in sent : f.id # id
FreeIdReused(id) == pending[id] = NoEntry

(* An id nobody waits on.  128 random bits do not come up twice either;    *)
(* with TokenRepeats they may, and only the code's own check is left.      *)
FreeId(id) ==
    /\ pending[id] = NoEntry
    /\ TokenRepeats \/ \A f \in sent : f.id # id

(* Mutant: connected is not looked at under the lock.                      *)
AdmittedAlways == TRUE

Admitted == connected

(* The first critical section of request: refused once disconnected, else  *)
(* a fresh generation, queue and pending entry.                            *)
Register(w) ==
    /\ pc[w] = "register"
    /\ IF Admitted
       THEN /\ request_generation' = request_generation + 1
            /\ gen' = [gen EXCEPT ![w] = request_generation']
            /\ box' = [box EXCEPT ![w] = Empty]
            /\ \E id \in RequestId :
                  /\ FreeId(id)
                  /\ rid' = [rid EXCEPT ![w] = id]
                  /\ pending' = [pending EXCEPT ![id] = request_generation']
            /\ Goto(w, "send")
            /\ UNCHANGED result
       ELSE /\ Respond(w, Failed("unavailable"))
            /\ UNCHANGED <<request_generation, gen, box, rid, pending>>
    /\ UNCHANGED <<connected, snapshot_ids, snapshot_generation, req, threads, sent>>

(* writer.send: the frame is written whole, or the write raises: a broken  *)
(* pipe is a ConnectionError, anything else leaves handle_client and the   *)
(* socket server answers bridge-error.                                     *)
Send(w) ==
    /\ pc[w] = "send"
    /\ \/ /\ sent' = sent \cup {[id |-> rid[w], gen |-> gen[w], action |-> req[w].action]}
          /\ Goto(w, "wait")
          /\ UNCHANGED result
       \/ /\ \E e \in {"unavailable", "bridge-error"} :
                result' = [result EXCEPT ![w] = Failed(e)]
          /\ Goto(w, "pop")
          /\ UNCHANGED sent
    /\ UNCHANGED <<bridge, req, gen, rid, box, threads>>

(* response_queue.get returns: an answer, or None and so ConnectionError.  *)
Take(w) ==
    /\ pc[w] = "wait"
    /\ box[w] # Empty
    /\ result' = [result EXCEPT ![w] = IF box[w] = Gone THEN Failed("unavailable") ELSE box[w]]
    /\ box' = [box EXCEPT ![w] = Empty]
    /\ Goto(w, "pop")
    /\ UNCHANGED <<bridge, req, gen, rid, threads, sent>>

(* Mutant: get waits without a timeout.                                    *)
TimeOutNever(w) == FALSE /\ UNCHANGED vars

(* response_queue.get raises queue.Empty: EXTENSION_TIMEOUT has passed.    *)
TimeOut(w) ==
    /\ pc[w] = "wait"
    /\ box[w] = Empty
    /\ result' = [result EXCEPT ![w] = Failed("timeout")]
    /\ Goto(w, "pop")
    /\ UNCHANGED <<bridge, req, gen, rid, box, threads, sent>>

(* The finally clause of request, on every path out of it.                 *)
PopEntry(w) == pending' = [pending EXCEPT ![rid[w]] = NoEntry]

Pop(w) ==
    /\ pc[w] = "pop"
    /\ PopEntry(w)
    /\ Goto(w, IF result[w].tag = "item" THEN "judge" ELSE "done")
    /\ UNCHANGED <<connected, request_generation, snapshot_ids, snapshot_generation,
                   req, gen, rid, box, result, threads, sent>>

(* What an answer to activate or open means for the client.                *)
Accepted(action, m) ==
    \/ action = "activate" /\ m.type = "tabs.activated" /\ m.ok
    \/ action = "open" /\ m.type = "tabs.opened" /\ m.error = "none"

Verdict(action, m) ==
    IF Accepted(action, m) THEN [tag |-> "ok"]
    ELSE IF action = "open" /\ m.type = "tabs.opened" /\ m.error \in OPEN_ERRORS
         THEN Failed(m.error)
         ELSE Failed("bridge-error")

(* Mutant: the last answer to arrive becomes the allowlist.                *)
NewerAlways(g) == TRUE

Newer(g) == g > snapshot_generation

(* handle_client with an answer in hand.  A valid tab list is returned to  *)
(* the client in any case and becomes the allowlist only if it is newer.   *)
Judge(w) ==
    LET m == result[w].msg
        listed == req[w].action = "tabs" /\ m.type = "tabs.result"
    IN  /\ pc[w] = "judge"
        /\ Respond(w, IF listed THEN [tag |-> "tabs", tabs |-> m.tabs]
                                ELSE Verdict(req[w].action, m))
        /\ IF listed /\ Newer(gen[w])
           THEN snapshot_ids' = m.tabs /\ snapshot_generation' = gen[w]
           ELSE UNCHANGED <<snapshot_ids, snapshot_generation>>
        /\ UNCHANGED <<connected, pending, request_generation,
                       req, gen, rid, box, threads, sent>>

(* The response is the client's; the thread ends and its slot is free.     *)
Return(w) ==
    /\ pc[w] = "done"
    /\ Goto(w, "idle")
    /\ req' = [req EXCEPT ![w] = NoRequest]
    /\ gen' = [gen EXCEPT ![w] = NoEntry]
    /\ rid' = [rid EXCEPT ![w] = NoId]
    /\ box' = [box EXCEPT ![w] = Empty]
    /\ result' = [result EXCEPT ![w] = Empty]
    /\ UNCHANGED <<bridge, threads, sent>>

-----------------------------------------------------------------------------
(* The reader and the two threads that disconnect.                         *)

(* receive, first half: the reader has read an answer to some frame, late, *)
(* repeated or of the wrong kind, and finds the entry under its id.        *)
Receive ==
    /\ "reader" \notin closing
    /\ hand = Empty
    /\ \E f \in sent :
          /\ pending[f.id] # NoEntry
          /\ \E m \in AnswerTo(f.action) :
                hand' = [tag |-> "item", gen |-> pending[f.id], frame |-> f.gen, msg |-> m]
    /\ UNCHANGED <<bridge, client, closing, targets, sent>>

(* put_nowait on the queue of generation g: queue.Full is swallowed, and a *)
(* queue whose thread has left request is nobody's.                        *)
Waiting(w) == pc[w] \in {"send", "wait"}

PutNoWait(g, x) ==
    box' = [w \in Worker |-> IF Waiting(w) /\ gen[w] = g /\ box[w] = Empty THEN x ELSE box[w]]

Deliver ==
    /\ hand # Empty
    /\ PutNoWait(hand.gen, hand)
    /\ hand' = Empty
    /\ UNCHANGED <<bridge, pc, req, gen, rid, result, closing, targets, sent>>

(* disconnect's critical section.  The reader gets there when read_message *)
(* raises EOFError or FrameError, the main thread whenever it leaves.      *)
Outstanding == {pending[id] : id \in RequestId} \ {NoEntry}

Disconnect(t) ==
    /\ t \notin closing
    /\ t = "reader" => hand = Empty
    /\ connected' = FALSE
    /\ closing' = closing \cup {t}
    /\ targets' = [targets EXCEPT ![t] = Outstanding]
    /\ UNCHANGED <<pending, request_generation, snapshot_ids, snapshot_generation,
                   client, hand, sent>>

(* One turn of disconnect's loop over the targets.                         *)
Wake(t) ==
    /\ \E g \in targets[t] : /\ PutNoWait(g, Gone)
                             /\ targets' = [targets EXCEPT ![t] = @ \ {g}]
    /\ UNCHANGED <<bridge, pc, req, gen, rid, result, hand, closing, sent>>

-----------------------------------------------------------------------------

ClientStep(w) ==
    \/ Refuse(w) \/ CheckAllowed(w) \/ Register(w) \/ Send(w)
    \/ Take(w) \/ TimeOut(w) \/ Pop(w) \/ Judge(w) \/ Return(w)

Next ==
    \/ \E w \in Worker : Accept(w) \/ ClientStep(w)
    \/ Receive
    \/ Deliver
    \/ \E t \in Closer : Disconnect(t) \/ Wake(t)

(* The operating system schedules every thread that can run; a thread in   *)
(* queue.get can always run, because the timeout expires.  writer.send     *)
(* comes back because Firefox reads its end of the pipe.  Nothing makes a  *)
(* client ask, Firefox answer or a thread disconnect.                      *)
Fairness ==
    /\ \A w \in Worker : WF_vars(ClientStep(w))
    /\ WF_vars(Deliver)
    /\ \A t \in Closer : WF_vars(Wake(t))

Spec == Init /\ [][Next]_vars /\ Fairness

-----------------------------------------------------------------------------

PC == {"idle", "refuse", "check", "register", "send", "wait", "pop", "judge", "done"}

TypeOK ==
    /\ connected \in BOOLEAN
    /\ pending \in [RequestId -> Nat]
    /\ request_generation \in Nat
    /\ snapshot_ids \subseteq Pair
    /\ snapshot_generation \in Nat
    /\ pc \in [Worker -> PC]
    /\ req \in [Worker -> Request \cup {NoRequest}]
    /\ gen \in [Worker -> Nat]
    /\ rid \in [Worker -> RequestId \cup {NoId}]
    /\ box \in [Worker -> Item \cup {Empty, Gone}]
    /\ result \in [Worker -> Item \cup {Empty} \cup Failure \cup Success]
    /\ hand \in Item \cup {Empty}
    /\ closing \subseteq Closer
    /\ targets \in [Closer -> SUBSET Nat]
    /\ sent \subseteq [id : RequestId, gen : Nat, action : Framed]

-----------------------------------------------------------------------------
(* Properties.                                                             *)

(* The frames in flight and the table of pending requests agree: a thread  *)
(* between Register and Pop owns the entry under its id, with its own      *)
(* generation, and no entry outlives its thread, so a timed-out or failed  *)
(* request leaks nothing and no thread's finally clause removes the entry  *)
(* of another (request, host.py:70-90).                                    *)
InRequest(w) == pc[w] \in {"send", "wait", "pop"}

PendingIsOutstanding ==
    /\ \A w \in Worker : InRequest(w) => pending[rid[w]] = gen[w]
    /\ \A id \in RequestId : pending[id] # NoEntry =>
           \E w \in Worker : InRequest(w) /\ rid[w] = id

(* Once the extension is gone no client sits out the timeout: every thread *)
(* still waiting has something in its queue, or is on the list of a thread *)
(* that is waking them (disconnect against request, host.py:58-82).        *)
NoStrandedWaiter ==
    ~connected => \A w \in Worker : Waiting(w) =>
        box[w] # Empty \/ \E t \in Closer : gen[w] \in targets[t]

(* A thread only ever takes the answer to its own frame, however late,     *)
(* often or out of order the extension answers: an answer to a request     *)
(* that timed out never reaches a later one (receive, host.py:45-56).      *)
AnswerIsOwn ==
    ~TokenRepeats => \A w \in Worker : Waiting(w) /\ box[w].tag = "item" =>
        box[w].gen = gen[w] /\ box[w].frame = gen[w]

(* The allowlist is never older than a tab list some client was just told, *)
(* and is that very list when their generations are equal: answers judged  *)
(* out of order cannot bring an older list back (host.py:108-111).         *)
NewestWins ==
    \A w \in Worker : pc[w] = "done" /\ result[w].tag = "tabs" =>
        /\ snapshot_generation >= gen[w]
        /\ snapshot_generation = gen[w] => snapshot_ids = result[w].tabs

(* Whatever the extension does, and whether it is there or not, every      *)
(* request is answered: every wait of handle_client is bounded.            *)
EveryRequestAnswered ==
    \A w \in Worker : (pc[w] # "idle") ~> (pc[w] = "done")

(* NativeBridge implements BridgeService: the table, the queues, the ids   *)
(* and the two disconnecting threads are invisible to the clients.  (The   *)
(* liveness half of what the service promises is EveryRequestAnswered.)    *)
StageAt(l) ==
    IF l \in {"refuse", "check"} THEN "asked"
    ELSE IF l = "register" THEN "cleared"
    ELSE IF l \in {"send", "wait", "pop", "judge"} THEN "begun"
    ELSE l

Stages  == [w \in Worker |-> StageAt(pc[w])]
Replies == [w \in Worker |-> IF pc[w] = "done" THEN result[w] ELSE Empty]

Service == INSTANCE BridgeService WITH stage <- Stages, reply <- Replies

ImplementsService == Service!Init /\ [][Service!Next]_(Service!vars)
=============================================================================
