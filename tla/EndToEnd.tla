------------------------------ MODULE EndToEnd ------------------------------
(***************************************************************************)
(* A command from its command line to the browser and back: the client     *)
(* (client.py), the worker thread that serves its connection               *)
(* (socket_server.py), the handler's wait for the extension (host.py) and  *)
(* the extension, which acts when it gets to it.  Client and host have     *)
(* time limits of their own and either may leave at any moment; what the   *)
(* user reads on the terminal has to be true of the browser all the same.  *)
(*                                                                         *)
(* The parts are those of SocketServer, NativeBridge and Broker, with the  *)
(* detail that does not reach the client left out.  Time is counted in     *)
(* tenths of a second.  A tick may come at any moment, however much is     *)
(* still to be done; "delayed" remembers that it held somebody up.         *)
(***************************************************************************)
EXTENDS Integers

CONSTANTS
    Client,               \* invocations of the command line, one command each
    MAX_CLIENT_WORKERS

ASSUME EndToEndAssumption == MAX_CLIENT_WORKERS \in Nat \ {0}

CLIENT_TIMEOUT == 5        \* client.py: after connecting

(* Mutant: the host waits as long as the client.                           *)
ExtensionTimeoutSame == 5

EXTENSION_TIMEOUT == 4     \* host.py: for the extension

(* What a client may be told.  "refused" stands for stale-tab, no-window,  *)
(* ambiguous-window and create-failed.                                     *)
Answer == {"ok", "refused", "invalid-request", "timeout", "unavailable", "bridge-error"}

VARIABLES
    cli,        \* where a client is
    clock,      \* tenths since it connected
    delayed,    \* someone who works for it was held up for a tenth
    outcome,    \* its response, and in the end what it printed
    code,       \* its exit code
    conn,       \* the server's side of its connection
    sent,       \* its request is in the socket
    answer,     \* the response in the socket
    work,       \* where its worker is
    waited,     \* tenths its worker has waited for the extension
    reply,      \* what its worker will answer
    inbox,      \* its response_queue
    slots,
    ext,        \* where its frame is in the extension
    effects,    \* how often the browser did what it asks for
    connected, up      \* the native port and the server's sockets

client    == <<cli, clock, delayed, outcome, code>>
socket    == <<conn, sent, answer>>
worker    == <<work, waited, reply, slots>>
extension == <<ext, effects>>
host      == <<connected, up>>
vars      == <<client, socket, worker, inbox, extension, host>>

Init ==
    /\ cli = [c \in Client |-> "parse"]
    /\ clock = [c \in Client |-> 0]
    /\ outcome = [c \in Client |-> "none"]
    /\ code = [c \in Client |-> -1]
    /\ conn = [c \in Client |-> "none"]
    /\ sent = [c \in Client |-> FALSE]
    /\ answer = [c \in Client |-> "none"]
    /\ work = [c \in Client |-> "none"]
    /\ waited = [c \in Client |-> 0]
    /\ reply = [c \in Client |-> "none"]
    /\ inbox = [c \in Client |-> "none"]
    /\ slots = MAX_CLIENT_WORKERS
    /\ ext = [c \in Client |-> "none"]
    /\ effects = [c \in Client |-> 0]
    /\ connected = TRUE
    /\ up = TRUE
    /\ delayed = [c \in Client |-> FALSE]

-----------------------------------------------------------------------------
(* The client.                                                             *)

End(c, r) ==
    /\ cli' = [cli EXCEPT ![c] = "emit"]
    /\ outcome' = [outcome EXCEPT ![c] = r]
    /\ clock' = [clock EXCEPT ![c] = 0]
    /\ delayed' = [delayed EXCEPT ![c] = FALSE]

Move(c, l) == cli' = [cli EXCEPT ![c] = l] /\ UNCHANGED <<outcome, clock, delayed>>

(* parse_command and runtime_directory.                                    *)
Parse(c) ==
    /\ cli[c] = "parse"
    /\ \/ /\ cli' = [cli EXCEPT ![c] = "usage"]
          /\ outcome' = [outcome EXCEPT ![c] = "invalid-request"]
          /\ UNCHANGED <<clock, delayed>>
       \/ End(c, "unavailable")
       \/ Move(c, "connect")
    /\ UNCHANGED <<code, socket, worker, inbox, extension, host>>

(* The socket listens.  If it does not, if its queue is full, which no     *)
(* Unix socket with a timeout waits for, or if there is not even a socket  *)
(* to connect with, the client gives up at once.  From here on there is    *)
(* one deadline for everything.                                            *)
Connect(c) ==
    /\ cli[c] = "connect"
    /\ \/ up /\ Move(c, "send") /\ conn' = [conn EXCEPT ![c] = "backlog"]
       \/ End(c, "unavailable") /\ UNCHANGED conn
    /\ UNCHANGED <<code, sent, answer, worker, inbox, extension, host>>

SendRequest(c) ==
    /\ cli[c] = "send"
    /\ \/ conn[c] # "closed" /\ Move(c, "wait") /\ sent' = [sent EXCEPT ![c] = TRUE]
       \/ conn[c] = "closed" /\ End(c, "unavailable") /\ UNCHANGED sent
    /\ UNCHANGED <<code, conn, answer, worker, inbox, extension, host>>

(* A whole line, or the end of the connection: a clean one, or a reset     *)
(* when the server never read the request.                                 *)
Hear(c) ==
    /\ cli[c] = "wait"
    /\ \/ answer[c] # "none" /\ End(c, answer[c])
       \/ answer[c] = "none" /\ conn[c] = "closed" /\ End(c, "bridge-error")
       \/ answer[c] = "none" /\ conn[c] = "closed" /\ End(c, "unavailable")
    /\ UNCHANGED <<code, socket, worker, inbox, extension, host>>

(* Mutant: the deadline is only looked at before the request is sent.      *)
WatchesDeadlineOnce(c) == cli[c] = "send"

WatchesDeadline(c) == cli[c] \in {"send", "wait"}

Expire(c) ==
    /\ WatchesDeadline(c)
    /\ clock[c] = CLIENT_TIMEOUT
    /\ End(c, "timeout")
    /\ UNCHANGED <<code, socket, worker, inbox, extension, host>>

(* emit's value: the response itself was written.                          *)
Emitted(p, r) == p = r

(* emit and the exit code.  A response that cannot be written is replaced  *)
(* by bridge-error; if that fails nothing is written, which ends the same. *)
Emit(c) ==
    /\ cli[c] \in {"usage", "emit"}
    /\ \E p \in {outcome[c], "bridge-error"} :
          /\ outcome' = [outcome EXCEPT ![c] = p]
          /\ code' = [code EXCEPT ![c] =
                IF ~Emitted(p, outcome[c]) THEN 3
                ELSE IF cli[c] = "usage" THEN 2
                ELSE IF outcome[c] = "ok" THEN 0 ELSE 3]
    /\ cli' = [cli EXCEPT ![c] = "exited"]
    /\ UNCHANGED <<clock, delayed, socket, worker, inbox, extension, host>>

-----------------------------------------------------------------------------
(* The server.                                                             *)

HasSlot == slots > 0

(* serve_forever and _start_client.                                        *)
Accept(c) ==
    /\ up /\ conn[c] = "backlog"
    /\ \/ /\ HasSlot
          /\ slots' = slots - 1
          /\ conn' = [conn EXCEPT ![c] = "open"]
          /\ work' = [work EXCEPT ![c] = "read"]
       \/ /\ ~HasSlot
          /\ conn' = [conn EXCEPT ![c] = "closed"]
          /\ UNCHANGED <<slots, work>>
    /\ UNCHANGED <<client, sent, answer, waited, reply, inbox, extension, host>>

Do(c, l) == work' = [work EXCEPT ![c] = l]

Reply(c, r) == Do(c, "answer") /\ reply' = [reply EXCEPT ![c] = r]

(* _serve_client: a request, or the client has left, or keeps the worker   *)
(* waiting for CLIENT_READ_TIMEOUT, or the connection was shut.            *)
ReadRequest(c) ==
    /\ work[c] = "read"
    /\ \/ sent[c] /\ Do(c, "handle") /\ UNCHANGED reply
       \/ ~sent[c] /\ Reply(c, "invalid-request")
    /\ UNCHANGED <<client, socket, waited, slots, inbox, extension, host>>

(* handle_client: the request is refused, as invalid or stale, or it is    *)
(* registered and sent to the extension; the sending may fail.             *)
Handle(c) ==
    /\ work[c] = "handle"
    /\ \/ Reply(c, "refused") /\ UNCHANGED ext
       \/ ~connected /\ Reply(c, "unavailable") /\ UNCHANGED ext
       \/ connected /\ Reply(c, "bridge-error") /\ UNCHANGED ext
       \/ /\ connected
          /\ Do(c, "wait")
          /\ ext' = [ext EXCEPT ![c] = "asked"]
          /\ UNCHANGED reply
    /\ UNCHANGED <<client, socket, waited, slots, inbox, effects, host>>

(* response_queue.get returns the answer, nothing in time, or the news of  *)
(* the disconnection.                                                      *)
Wake(c) ==
    /\ work[c] = "wait"
    /\ waited' = [waited EXCEPT ![c] = 0]
    /\ inbox' = [inbox EXCEPT ![c] = "none"]
    /\ \/ inbox[c] # "none" /\ Reply(c, inbox[c])
       \/ inbox[c] = "none" /\ waited[c] = EXTENSION_TIMEOUT /\ Reply(c, "timeout")
       \/ inbox[c] = "none" /\ ~connected /\ Reply(c, "unavailable")
    /\ UNCHANGED <<client, socket, slots, extension, host>>

(* The response goes out if the connection is still there; the connection  *)
(* is closed and the permit returned.                                      *)
Respond(c) ==
    /\ work[c] = "answer"
    /\ answer' = IF conn[c] = "open" THEN [answer EXCEPT ![c] = reply[c]] ELSE answer
    /\ conn' = [conn EXCEPT ![c] = "closed"]
    /\ Do(c, "done")
    /\ slots' = slots + 1
    /\ reply' = [reply EXCEPT ![c] = "none"]
    /\ UNCHANGED <<client, sent, waited, inbox, extension, host>>

-----------------------------------------------------------------------------
(* The extension, whose answers the native reader hands on.                *)

(* Mutant: it answers first and acts then.                                 *)
ActLate(c) ==
    /\ ext' = [ext EXCEPT ![c] = "acted"]
    /\ UNCHANGED effects

(* Mutant: the frame stays in the stream and is acted upon again.          *)
ActAgain(c) ==
    /\ ext' = ext
    /\ effects' = [effects EXCEPT ![c] = @ + 1]

(* The browser does it.                                                    *)
Act(c) ==
    /\ ext' = [ext EXCEPT ![c] = "acted"]
    /\ effects' = [effects EXCEPT ![c] = @ + 1]

Decide(c) ==
    /\ ext[c] = "asked"
    /\ \/ Act(c)
       \/ /\ \E e \in {"refused", "bridge-error"} : ext' = [ext EXCEPT ![c] = e]
          /\ UNCHANGED effects
    /\ UNCHANGED <<client, socket, worker, inbox, host>>

(* Mutant: an answer wakes whoever waits.                                  *)
IsForAnyone(c, d) == TRUE

IsFor(c, d) == c = d

(* The answer comes in; if nobody waits for it any more, or the port is    *)
(* gone, it is lost.                                                       *)
Report(c) ==
    LET r == IF ext[c] = "acted" THEN "ok" ELSE ext[c]
    IN  /\ ext[c] \in {"acted", "refused", "bridge-error"}
        /\ ext' = [ext EXCEPT ![c] = "done"]
        /\ inbox' = [d \in Client |->
              IF /\ IsFor(c, d) /\ connected
                 /\ work[d] = "wait" /\ inbox[d] = "none" THEN r ELSE inbox[d]]
        /\ UNCHANGED <<client, socket, worker, effects, host>>

-----------------------------------------------------------------------------
(* The host comes to its end: the bridge is disconnected and the server    *)
(* closed, in either order.                                                *)

Disconnect ==
    /\ connected
    /\ connected' = FALSE
    /\ UNCHANGED <<client, socket, worker, inbox, extension, up>>

Close ==
    /\ up
    /\ up' = FALSE
    /\ conn' = [c \in Client |-> IF conn[c] = "none" THEN "none" ELSE "closed"]
    /\ UNCHANGED <<client, sent, answer, worker, inbox, extension, connected>>

-----------------------------------------------------------------------------
(* Time.                                                                   *)

(* There is something to do for c that nobody outside has to be waited     *)
(* for.                                                                    *)
Pending(c) ==
    \/ cli[c] = "send"
    \/ up /\ conn[c] = "backlog"
    \/ work[c] = "read" /\ sent[c]
    \/ work[c] \in {"handle", "answer"}
    \/ work[c] = "wait" /\ (inbox[c] # "none" \/ waited[c] = EXTENSION_TIMEOUT \/ ~connected)
    \/ cli[c] = "wait" /\ (answer[c] # "none" \/ conn[c] = "closed")

Talking(c) == cli[c] \in {"send", "wait"}

Later(t, max) == IF t < max THEN t + 1 ELSE t

Tick ==
    /\ clock' = [c \in Client |->
          IF Talking(c) THEN Later(clock[c], CLIENT_TIMEOUT) ELSE clock[c]]
    /\ waited' = [c \in Client |->
          IF work[c] = "wait" THEN Later(waited[c], EXTENSION_TIMEOUT) ELSE waited[c]]
    /\ delayed' = [c \in Client |-> delayed[c] \/ (Talking(c) /\ Pending(c))]
    /\ UNCHANGED <<cli, outcome, code, socket, work, reply, slots, inbox, extension, host>>

-----------------------------------------------------------------------------

Run(c) == Parse(c) \/ Connect(c) \/ SendRequest(c) \/ Hear(c) \/ Expire(c) \/ Emit(c)

Next ==
    \/ \E c \in Client :
          \/ Run(c)
          \/ Accept(c) \/ ReadRequest(c) \/ Handle(c) \/ Wake(c) \/ Respond(c)
          \/ Decide(c) \/ Report(c)
    \/ Disconnect \/ Close
    \/ Tick

(* The client is scheduled and time passes; the host and the extension     *)
(* may hang.                                                               *)
Spec == Init /\ [][Next]_vars /\ WF_vars(Tick) /\ \A c \in Client : WF_vars(Run(c))

-----------------------------------------------------------------------------

(* Types, and that no more workers run than there are permits.             *)
TypeOK ==
    /\ cli \in [Client -> {"parse", "usage", "connect", "send", "wait", "emit", "exited"}]
    /\ clock \in [Client -> 0..CLIENT_TIMEOUT]
    /\ outcome \in [Client -> Answer \cup {"none"}]
    /\ code \in [Client -> {-1, 0, 2, 3}]
    /\ conn \in [Client -> {"none", "backlog", "open", "closed"}]
    /\ sent \in [Client -> BOOLEAN]
    /\ answer \in [Client -> Answer \cup {"none"}]
    /\ work \in [Client -> {"none", "read", "handle", "wait", "answer", "done"}]
    /\ waited \in [Client -> 0..EXTENSION_TIMEOUT]
    /\ reply \in [Client -> Answer \cup {"none"}]
    /\ inbox \in [Client -> {"none", "ok", "refused", "bridge-error"}]
    /\ slots \in 0..MAX_CLIENT_WORKERS
    /\ ext \in [Client -> {"none", "asked", "acted", "refused", "bridge-error", "done"}]
    /\ effects \in [Client -> {0, 1}]
    /\ {connected, up} \subseteq BOOLEAN
    /\ delayed \in [Client -> BOOLEAN]

(* Who reads a definite refusal may try again: the browser has not done    *)
(* it and will not do it later, whichever of the two limits passed and     *)
(* whatever other clients were answered (client.py:50-98, host.py:92-157). *)
RefusalIsFinal ==
    \A c \in Client :
        outcome[c] \in {"refused", "invalid-request"} =>
            effects[c] = 0 /\ ext[c] \notin {"asked", "acted"}

(* Exit code 0 means that the browser did it, once, and that the user was  *)
(* told so (client.py:179-202).                                            *)
SuccessIsTrue == \A c \in Client : code[c] = 0 => outcome[c] = "ok" /\ effects[c] = 1

(* The 400 ms of the host fit into the 500 ms of the client: as long as    *)
(* nobody is held up for a tenth of a second, the client hears the host's  *)
(* verdict and never has to end by its own deadline                        *)
(* (socket_server.py:143-148).                                             *)
HostAnswersFirst == [][\A c \in Client : Expire(c) => delayed[c]]_vars

(* A client ends, whatever becomes of the host and the extension.          *)
ClientEnds == \A c \in Client : cli[c] = "connect" ~> cli[c] = "exited"

(* Nobody has yet decided against it, or for it.                           *)
Undecided(c) ==
    \/ work[c] = "none" /\ (cli[c] \in {"parse", "connect"} \/ conn[c] # "none")
    \/ work[c] \in {"read", "handle"}
    \/ ext[c] = "asked"

Command == INSTANCE RemoteCommand WITH
    open <- [c \in Client |-> Undecided(c)],
    told <- [c \in Client |-> IF cli[c] = "exited" THEN outcome[c] ELSE "none"]

(* Two processes, a browser, two limits and an end of the host at any      *)
(* moment keep the promise of a single command: what it asks for is done   *)
(* at most once, and what it prints is true then and stays true            *)
(* (client.py:50-98, 179-202, host.py:68-157).                             *)
ImplementsCommand == Command!Init /\ [][Command!Next]_(Command!vars)
=============================================================================
