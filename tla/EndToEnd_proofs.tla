--------------------------- MODULE EndToEnd_proofs ---------------------------
(***************************************************************************)
(* TLAPS proofs about EndToEnd, for every set of clients and every number  *)
(* of workers.  The argument is about one client at a time: how far its    *)
(* command has come on each of the four legs, what that says of the        *)
(* browser, and how the two clocks are coupled.                            *)
(***************************************************************************)
EXTENDS EndToEnd, FiniteSetTheorems, TLAPS

(* Types; the bound on slots follows from Permits.                         *)
Types ==
    /\ cli \in [Client -> {"parse", "usage", "connect", "send", "wait", "emit", "exited"}]
    /\ clock \in [Client -> 0..CLIENT_TIMEOUT]
    /\ outcome \in [Client -> Answer \cup {"none"}]
    /\ code \in [Client -> {-1, 0, 2, 3}]
    /\ conn \in [Client -> {"none", "backlog", "open", "closed"}]
    /\ sent \in [Client -> BOOLEAN]
    /\ answer \in [Client -> Answer \cup {"none"}]
    /\ work \in [Client -> {"none", "read", "handle", "wait", "answer", "done"}]
    /\ waited \in [Client -> 0..EXTENSION_TIMEOUT]
    /\ reply \in [Client -> Answer \cup {"none"}]
    /\ inbox \in [Client -> {"none", "ok", "refused", "bridge-error"}]
    /\ slots \in Nat
    /\ ext \in [Client -> {"none", "asked", "acted", "refused", "bridge-error", "done"}]
    /\ effects \in [Client -> {0, 1}]
    /\ {connected, up} \subseteq BOOLEAN
    /\ delayed \in [Client -> BOOLEAN]

(* The legs of a command follow each other.                                *)
Legs(c) ==
    /\ cli[c] \in {"parse", "usage", "connect"} => conn[c] = "none"
    /\ cli[c] \in {"parse", "connect", "send", "wait"} <=> outcome[c] = "none"
    /\ cli[c] \in {"send", "wait"} => conn[c] # "none"
    /\ cli[c] = "usage" => outcome[c] = "invalid-request"
    /\ cli[c] = "wait" => sent[c]
    /\ cli[c] # "exited" => code[c] = -1
    /\ conn[c] = "none" => ~sent[c]
    /\ conn[c] \in {"none", "backlog"} => work[c] = "none"
    /\ conn[c] = "backlog" => up
    /\ conn[c] = "open" => work[c] \notin {"none", "done"}
    /\ work[c] \in {"handle", "wait"} => sent[c]
    /\ work[c] \in {"none", "read", "handle"} => ext[c] = "none"
    /\ inbox[c] # "none" => work[c] = "wait"
    /\ reply[c] # "none" <=> work[c] = "answer"
    /\ answer[c] # "none" => work[c] = "done"

(* The browser has not done it and is not going to.                        *)
Final(c) == effects[c] = 0 /\ ext[c] \notin {"asked", "acted"}

(* A verdict is true of the browser.                                       *)
True(c, r) ==
    /\ r = "ok" => effects[c] = 1
    /\ r \in {"refused", "invalid-request"} => Final(c)

(* Whatever is on its way to the user is true of the browser.              *)
Verdicts(c) ==
    /\ ext[c] \in {"none", "asked", "refused", "bridge-error"} => effects[c] = 0
    /\ ext[c] = "acted" => effects[c] = 1
    /\ inbox[c] # "none" => ext[c] = "done"
    /\ True(c, inbox[c])
    /\ True(c, reply[c])
    /\ True(c, answer[c])
    /\ True(c, outcome[c])
    /\ outcome[c] \in {"refused", "invalid-request"} => conn[c] = "none" \/ work[c] = "done"
    /\ code[c] = 0 => outcome[c] = "ok"

(* While nobody was held up, the client's clock runs only as its worker's  *)
(* does.                                                                   *)
Timely(c) ==
    /\ work[c] # "wait" => waited[c] = 0
    /\ cli[c] \in {"connect", "parse"} => clock[c] = 0
    /\ ~delayed[c] /\ cli[c] = "send" => clock[c] = 0
    /\ ~delayed[c] /\ cli[c] = "wait" =>
          /\ clock[c] <= EXTENSION_TIMEOUT
          /\ work[c] \in {"none", "read", "handle"} => clock[c] = 0
          /\ work[c] = "wait" => clock[c] <= waited[c]

Inv == Types /\ \A c \in Client : Legs(c) /\ Verdicts(c) /\ Timely(c)

LEMMA InvInit == Init => Inv
  <1> SUFFICES ASSUME Init PROVE Inv
    OBVIOUS
  <1>1. Types
    BY EndToEndAssumption DEF Init, Types, Answer, CLIENT_TIMEOUT, EXTENSION_TIMEOUT
  <1>2. ASSUME NEW c \in Client PROVE Legs(c) /\ Verdicts(c) /\ Timely(c)
    BY DEF Init, Legs, Verdicts, True, Final, Timely
  <1> QED
    BY <1>1, <1>2 DEF Inv

-----------------------------------------------------------------------------
(* Steps.                                                                  *)

(* The client's variables keep their types when a leg ends or goes on.     *)
ClientTypes ==
    /\ cli \in [Client -> {"parse", "usage", "connect", "send", "wait", "emit", "exited"}]
    /\ clock \in [Client -> 0..CLIENT_TIMEOUT]
    /\ outcome \in [Client -> Answer \cup {"none"}]
    /\ delayed \in [Client -> BOOLEAN]

LEMMA EndTypes ==
    ASSUME Types, NEW c \in Client, NEW r \in Answer, End(c, r)
    PROVE  ClientTypes'
  BY DEF Types, ClientTypes, End, CLIENT_TIMEOUT

LEMMA MoveTypes ==
    ASSUME Types, NEW c \in Client, NEW l \in {"connect", "send", "wait"}, Move(c, l)
    PROVE  ClientTypes'
  BY DEF Types, ClientTypes, Move

(* Every step keeps the types.                                             *)
LEMMA TypesStep ==
    ASSUME Inv, [Next]_vars
    PROVE  Types'
  <1>0. Types
    BY DEF Inv
  <1> USE <1>0 DEF Types, Answer, CLIENT_TIMEOUT, EXTENSION_TIMEOUT, client, socket, worker, extension, host
  <1>1. ASSUME NEW d \in Client, Parse(d) PROVE Types'
    BY <1>1, EndTypes, MoveTypes DEF Parse, ClientTypes
  <1>2. ASSUME NEW d \in Client, Connect(d) PROVE Types'
    BY <1>2, EndTypes, MoveTypes DEF Connect, ClientTypes
  <1>3. ASSUME NEW d \in Client, SendRequest(d) PROVE Types'
    BY <1>3, EndTypes, MoveTypes DEF SendRequest, ClientTypes
  <1>4. ASSUME NEW d \in Client, Hear(d) PROVE Types'
    BY <1>4, EndTypes DEF Hear, ClientTypes
  <1>5. ASSUME NEW d \in Client, Expire(d) PROVE Types'
    BY <1>5 DEF Expire, WatchesDeadline, End
  <1>6. ASSUME NEW d \in Client, Emit(d) PROVE Types'
    BY <1>6 DEF Emit, Emitted
  <1>7. ASSUME NEW d \in Client, Accept(d) PROVE Types'
    BY <1>7 DEF Accept, HasSlot
  <1>8. ASSUME NEW d \in Client, ReadRequest(d) PROVE Types'
    BY <1>8 DEF ReadRequest, Do, Reply
  <1>9. ASSUME NEW d \in Client, Handle(d) PROVE Types'
    BY <1>9 DEF Handle, Do, Reply
  <1>10. ASSUME NEW d \in Client, Wake(d) PROVE Types'
    BY <1>10 DEF Wake, Do, Reply
  <1>11. ASSUME NEW d \in Client, Respond(d) PROVE Types'
    BY <1>11 DEF Respond, Do
  <1>12. ASSUME NEW d \in Client, Decide(d) PROVE Types'
    <2>1. effects[d] = 0
      BY <1>12 DEF Decide, Inv, Verdicts
    <2> QED
      BY <1>12, <2>1 DEF Decide, Act
  <1>13. ASSUME NEW d \in Client, Report(d) PROVE Types'
    BY <1>13 DEF Report, IsFor
  <1>14. CASE Disconnect
    BY <1>14 DEF Disconnect
  <1>15. CASE Close
    BY <1>15 DEF Close
  <1>16. CASE Tick
    BY <1>16 DEF Tick, Talking, Pending, Later
  <1>17. CASE UNCHANGED vars
    BY <1>17 DEF vars
  <1> QED
    BY <1>1, <1>2, <1>3, <1>4, <1>5, <1>6, <1>7, <1>8, <1>9, <1>10, <1>11, <1>12, <1>13, <1>14, <1>15, <1>16, <1>17 DEF Next, Run

(* Every step keeps the legs of a command in order.                      *)
LEMMA LegsStep ==
    ASSUME Inv, [Next]_vars, NEW c \in Client
    PROVE  Legs(c)'
  <1>0. Types /\ Legs(c) /\ Verdicts(c) /\ Timely(c)
    BY DEF Inv
  <1> USE <1>0 DEF Types, Answer, Legs, client, socket, worker, extension, host
  <1>1. ASSUME NEW d \in Client, Parse(d) PROVE Legs(c)'
    BY <1>1 DEF Parse, End, Move
  <1>2. ASSUME NEW d \in Client, Connect(d) PROVE Legs(c)'
    BY <1>2 DEF Connect, End, Move
  <1>3. ASSUME NEW d \in Client, SendRequest(d) PROVE Legs(c)'
    BY <1>3 DEF SendRequest, End, Move
  <1>4. ASSUME NEW d \in Client, Hear(d) PROVE Legs(c)'
    BY <1>4 DEF Hear, End
  <1>5. ASSUME NEW d \in Client, Expire(d) PROVE Legs(c)'
    BY <1>5 DEF Expire, WatchesDeadline, End
  <1>6. ASSUME NEW d \in Client, Emit(d) PROVE Legs(c)'
    BY <1>6 DEF Emit, Emitted
  <1>7. ASSUME NEW d \in Client, Accept(d) PROVE Legs(c)'
    BY <1>7 DEF Accept, HasSlot
  <1>8. ASSUME NEW d \in Client, ReadRequest(d) PROVE Legs(c)'
    BY <1>8 DEF ReadRequest, Do, Reply
  <1>9. ASSUME NEW d \in Client, Handle(d) PROVE Legs(c)'
    BY <1>9 DEF Handle, Do, Reply
  <1>10. ASSUME NEW d \in Client, Wake(d) PROVE Legs(c)'
    BY <1>10 DEF Wake, Do, Reply
  <1>11. ASSUME NEW d \in Client, Respond(d) PROVE Legs(c)'
    BY <1>11 DEF Respond, Do
  <1>12. ASSUME NEW d \in Client, Decide(d) PROVE Legs(c)'
    BY <1>12 DEF Decide, Act
  <1>13. ASSUME NEW d \in Client, Report(d) PROVE Legs(c)'
    BY <1>13 DEF Report, IsFor
  <1>14. CASE Disconnect
    BY <1>14 DEF Disconnect
  <1>15. CASE Close
    BY <1>15 DEF Close
  <1>16. CASE Tick
    BY <1>16 DEF Tick, Talking, Pending, Later
  <1>17. CASE UNCHANGED vars
    BY <1>17 DEF vars
  <1> QED
    BY <1>1, <1>2, <1>3, <1>4, <1>5, <1>6, <1>7, <1>8, <1>9, <1>10, <1>11, <1>12, <1>13, <1>14, <1>15, <1>16, <1>17 DEF Next, Run

(* Every step keeps verdicts true.                                       *)
LEMMA VerdictsStep ==
    ASSUME Inv, [Next]_vars, NEW c \in Client
    PROVE  Verdicts(c)'
  <1>0. Types /\ Legs(c) /\ Verdicts(c) /\ Timely(c)
    BY DEF Inv
  <1> USE <1>0 DEF Types, Answer, Legs, Verdicts, True, Final, client, socket, worker, extension, host
  <1>1. ASSUME NEW d \in Client, Parse(d) PROVE Verdicts(c)'
    BY <1>1 DEF Parse, End, Move
  <1>2. ASSUME NEW d \in Client, Connect(d) PROVE Verdicts(c)'
    BY <1>2 DEF Connect, End, Move
  <1>3. ASSUME NEW d \in Client, SendRequest(d) PROVE Verdicts(c)'
    BY <1>3 DEF SendRequest, End, Move
  <1>4. ASSUME NEW d \in Client, Hear(d) PROVE Verdicts(c)'
    BY <1>4 DEF Hear, End
  <1>5. ASSUME NEW d \in Client, Expire(d) PROVE Verdicts(c)'
    BY <1>5 DEF Expire, WatchesDeadline, End
  <1>6. ASSUME NEW d \in Client, Emit(d) PROVE Verdicts(c)'
    BY <1>6 DEF Emit, Emitted
  <1>7. ASSUME NEW d \in Client, Accept(d) PROVE Verdicts(c)'
    BY <1>7 DEF Accept, HasSlot
  <1>8. ASSUME NEW d \in Client, ReadRequest(d) PROVE Verdicts(c)'
    BY <1>8 DEF ReadRequest, Do, Reply
  <1>9. ASSUME NEW d \in Client, Handle(d) PROVE Verdicts(c)'
    BY <1>9 DEF Handle, Do, Reply
  <1>10. ASSUME NEW d \in Client, Wake(d) PROVE Verdicts(c)'
    BY <1>10 DEF Wake, Do, Reply
  <1>11. ASSUME NEW d \in Client, Respond(d) PROVE Verdicts(c)'
    BY <1>11 DEF Respond, Do
  <1>12. ASSUME NEW d \in Client, Decide(d) PROVE Verdicts(c)'
    BY <1>12 DEF Decide, Act
  <1>13. ASSUME NEW d \in Client, Report(d) PROVE Verdicts(c)'
    BY <1>13 DEF Report, IsFor
  <1>14. CASE Disconnect
    BY <1>14 DEF Disconnect
  <1>15. CASE Close
    BY <1>15 DEF Close
  <1>16. CASE Tick
    BY <1>16 DEF Tick, Talking, Pending, Later
  <1>17. CASE UNCHANGED vars
    BY <1>17 DEF vars
  <1> QED
    BY <1>1, <1>2, <1>3, <1>4, <1>5, <1>6, <1>7, <1>8, <1>9, <1>10, <1>11, <1>12, <1>13, <1>14, <1>15, <1>16, <1>17 DEF Next, Run

(* Every step keeps the clocks coupled.                                  *)
LEMMA TimelyStep ==
    ASSUME Inv, [Next]_vars, NEW c \in Client
    PROVE  Timely(c)'
  <1>0. Types /\ Legs(c) /\ Verdicts(c) /\ Timely(c)
    BY DEF Inv
  <1> USE <1>0 DEF Types, Answer, Legs, Timely, CLIENT_TIMEOUT, EXTENSION_TIMEOUT, client, socket, worker, extension, host
  <1>1. ASSUME NEW d \in Client, Parse(d) PROVE Timely(c)'
    BY <1>1 DEF Parse, End, Move
  <1>2. ASSUME NEW d \in Client, Connect(d) PROVE Timely(c)'
    BY <1>2 DEF Connect, End, Move
  <1>3. ASSUME NEW d \in Client, SendRequest(d) PROVE Timely(c)'
    BY <1>3 DEF SendRequest, End, Move
  <1>4. ASSUME NEW d \in Client, Hear(d) PROVE Timely(c)'
    BY <1>4 DEF Hear, End
  <1>5. ASSUME NEW d \in Client, Expire(d) PROVE Timely(c)'
    BY <1>5 DEF Expire, WatchesDeadline, End
  <1>6. ASSUME NEW d \in Client, Emit(d) PROVE Timely(c)'
    BY <1>6 DEF Emit, Emitted
  <1>7. ASSUME NEW d \in Client, Accept(d) PROVE Timely(c)'
    BY <1>7 DEF Accept, HasSlot
  <1>8. ASSUME NEW d \in Client, ReadRequest(d) PROVE Timely(c)'
    BY <1>8 DEF ReadRequest, Do, Reply
  <1>9. ASSUME NEW d \in Client, Handle(d) PROVE Timely(c)'
    BY <1>9 DEF Handle, Do, Reply
  <1>10. ASSUME NEW d \in Client, Wake(d) PROVE Timely(c)'
    BY <1>10 DEF Wake, Do, Reply
  <1>11. ASSUME NEW d \in Client, Respond(d) PROVE Timely(c)'
    BY <1>11 DEF Respond, Do
  <1>12. ASSUME NEW d \in Client, Decide(d) PROVE Timely(c)'
    BY <1>12 DEF Decide, Act
  <1>13. ASSUME NEW d \in Client, Report(d) PROVE Timely(c)'
    BY <1>13 DEF Report, IsFor
  <1>14. CASE Disconnect
    BY <1>14 DEF Disconnect
  <1>15. CASE Close
    BY <1>15 DEF Close
  <1>16. CASE Tick
    <2>1. CASE cli[c] = "wait" /\ ~delayed'[c]
      <3>1. ~Pending(c)
        BY <1>16, <2>1 DEF Tick, Talking
      <3>2. work[c] \in {"wait", "done"}
        BY <2>1, <3>1 DEF Pending
      <3>3. /\ clock'[c] = Later(clock[c], CLIENT_TIMEOUT)
            /\ waited'[c] = IF work[c] = "wait" THEN Later(waited[c], EXTENSION_TIMEOUT)
                            ELSE waited[c]
            /\ UNCHANGED <<cli, work>> /\ ~delayed[c]
        BY <1>16, <2>1 DEF Tick, Talking
      <3> QED
        BY <2>1, <3>1, <3>2, <3>3 DEF Pending, Later
    <2>2. CASE ~(cli[c] = "wait" /\ ~delayed'[c])
      <3>1. /\ cli'[c] = cli[c] /\ work'[c] = work[c]
            /\ work[c] # "wait" => waited'[c] = waited[c]
            /\ cli[c] \in {"connect", "parse"} => clock'[c] = clock[c]
            /\ cli[c] = "send" => delayed'[c]
        BY <1>16 DEF Tick, Talking, Pending
      <3> QED
        BY <2>2, <3>1
    <2> QED
      BY <2>1, <2>2
  <1>17. CASE UNCHANGED vars
    BY <1>17 DEF vars
  <1> QED
    BY <1>1, <1>2, <1>3, <1>4, <1>5, <1>6, <1>7, <1>8, <1>9, <1>10, <1>11, <1>12, <1>13, <1>14, <1>15, <1>16, <1>17 DEF Next, Run

LEMMA InvStep ==
    ASSUME Inv, [Next]_vars
    PROVE  Inv'
  BY TypesStep, LegsStep, VerdictsStep, TimelyStep DEF Inv

-----------------------------------------------------------------------------
(* The permits.                                                            *)

Busy == {c \in Client : work[c] \in {"read", "handle", "wait", "answer"}}

Permits == IsFiniteSet(Busy) /\ slots + Cardinality(Busy) = MAX_CLIENT_WORKERS

LEMMA PermitsInit == Init => Permits
  <1> SUFFICES ASSUME Init PROVE Permits
    OBVIOUS
  <1>1. Busy = {}
    BY DEF Init, Busy
  <1> QED
    BY <1>1, FS_EmptySet, EndToEndAssumption DEF Init, Permits

LEMMA PermitsStep ==
    ASSUME Inv, Permits, [Next]_vars
    PROVE  Permits'
  <1> DEFINE Kept == slots' = slots /\ Busy' = Busy
  <1> SUFFICES ASSUME ~Kept PROVE Permits'
    BY DEF Permits
  <1>0. Types /\ Cardinality(Busy) \in Nat
    BY FS_CardinalityType DEF Inv, Permits
  <1>1. ASSUME NEW c \in Client, Run(c) PROVE Kept
    BY <1>1 DEF Run, Parse, Connect, SendRequest, Hear, Expire, Emit, worker, Busy
  <1>2. ASSUME NEW c \in Client, Accept(c) PROVE Permits'
    <2>1. work[c] = "none"
      BY <1>2 DEF Accept, Inv, Legs
    <2>2. CASE work' = work
      <3>1. slots' = slots
        BY <1>0, <1>2, <2>1, <2>2 DEF Accept, Types
      <3> QED
        BY <2>2, <3>1 DEF Permits, Busy
    <2>3. CASE work' # work
      <3>1. work' = [work EXCEPT ![c] = "read"] /\ slots' = slots - 1
        BY <1>2, <2>3 DEF Accept
      <3>2. Busy' = Busy \cup {c} /\ c \notin Busy
        BY <1>0, <2>1, <3>1 DEF Busy, Types
      <3>3. IsFiniteSet(Busy') /\ Cardinality(Busy') = Cardinality(Busy) + 1
        BY <3>2, FS_AddElement DEF Permits
      <3> QED
        BY <1>0, <3>1, <3>3, EndToEndAssumption DEF Permits, Types
    <2> QED
      BY <2>2, <2>3
  <1>3. ASSUME NEW c \in Client, ReadRequest(c) \/ Handle(c) \/ Wake(c) PROVE Kept
    BY <1>0, <1>3 DEF ReadRequest, Handle, Wake, Do, Reply, Busy, Types
  <1>4. ASSUME NEW c \in Client, Respond(c) PROVE Permits'
    <2>1. Busy' = Busy \ {c} /\ c \in Busy /\ slots' = slots + 1
      BY <1>0, <1>4 DEF Respond, Do, Busy, Types
    <2>2. IsFiniteSet(Busy') /\ Cardinality(Busy') = Cardinality(Busy) - 1
      BY <2>1, FS_RemoveElement DEF Permits
    <2> QED
      BY <1>0, <2>1, <2>2, EndToEndAssumption DEF Permits, Types
  <1>5. ASSUME NEW c \in Client, Decide(c) \/ Report(c) PROVE Kept
    BY <1>5 DEF Decide, Report, worker, Busy
  <1>6. CASE Disconnect \/ Close \/ Tick
    BY <1>6 DEF Disconnect, Close, Tick, worker, Busy
  <1>7. CASE UNCHANGED vars
    BY <1>7 DEF vars, worker, Busy
  <1> QED
    BY <1>1, <1>2, <1>3, <1>4, <1>5, <1>6, <1>7 DEF Next

LEMMA InvAlways == Spec => [](Inv /\ Permits)
  BY InvInit, PermitsInit, InvStep, PermitsStep, PTL DEF Spec

-----------------------------------------------------------------------------
(* The theorems.                                                           *)

(* All variables have their types, and no more workers run than permitted. *)
THEOREM EndToEndIsTyped == Spec => []TypeOK
  <1>1. ASSUME Inv, Permits PROVE TypeOK
    <2>1. slots \in 0..MAX_CLIENT_WORKERS
      <3>1. slots \in Nat /\ Cardinality(Busy) \in Nat
        BY <1>1, FS_CardinalityType DEF Inv, Types, Permits
      <3> QED
        BY <1>1, <3>1, EndToEndAssumption DEF Permits
    <2> QED
      BY <1>1, <2>1 DEF Inv, Types, TypeOK
  <1> QED
    BY <1>1, InvAlways, PTL

(* A definite refusal is final, for any number of clients and workers      *)
(* (client.py:50-98, host.py:92-157).                                      *)
THEOREM RefusalsAreFinal == Spec => []RefusalIsFinal
  <1>1. Inv => RefusalIsFinal
    BY DEF Inv, Verdicts, True, Final, RefusalIsFinal
  <1> QED
    BY <1>1, InvAlways, PTL

(* Exit code 0 means that the browser did it, exactly once                 *)
(* (client.py:179-202).                                                    *)
THEOREM SuccessesAreTrue == Spec => []SuccessIsTrue
  <1>1. Inv => SuccessIsTrue
    BY DEF Inv, Verdicts, True, SuccessIsTrue
  <1> QED
    BY <1>1, InvAlways, PTL

(* Without a delay of a tenth of a second the client never ends by its own *)
(* deadline: the host's 400 ms fit into its 500 ms (client.py:12,          *)
(* host.py:22).                                                            *)
THEOREM HostIsFirst == Spec => HostAnswersFirst
  <1>1. Inv => \A c \in Client : Expire(c) => delayed[c]
    BY DEF Inv, Types, Timely, Expire, WatchesDeadline, CLIENT_TIMEOUT, EXTENSION_TIMEOUT
  <1> QED
    BY <1>1, InvAlways, PTL DEF HostAnswersFirst

-----------------------------------------------------------------------------
(* The promise of a command.                                               *)

Told(c) == IF cli[c] = "exited" THEN outcome[c] ELSE "none"

LEMMA CommandInit == Init => Command!Init
  BY DEF Init, Command!Init, Undecided

(* Steps that leave the browser and the terminal alone may withdraw a      *)
(* command, and never bring one back.                                      *)
LEMMA QuietStep ==
    ASSUME Types, NEW c \in Client,
           \A d \in Client \ {c} : Undecided(d)' = Undecided(d),
           Undecided(c)' => Undecided(c),
           \A d \in Client : Told(d)' = Told(d),
           UNCHANGED <<effects, code>>
    PROVE  [Command!Next]_(Command!vars)
  <1> DEFINE open == [d \in Client |-> Undecided(d)]
  <1>1. [d \in Client |-> Told(d)]' = [d \in Client |-> Told(d)]
    OBVIOUS
  <1>2. Undecided(c)' \in BOOLEAN /\ Undecided(c) \in BOOLEAN
    BY DEF Undecided
  <1>3. CASE Undecided(c)' = Undecided(c)
    <2>1. open' = open
      BY <1>3
    <2> QED
      BY <1>1, <2>1 DEF Command!vars, Told
  <1>4. CASE Undecided(c) /\ ~Undecided(c)'
    <2>1. open' = [open EXCEPT ![c] = FALSE]
      BY <1>2, <1>4
    <2>2. Command!Withdraw(c)
      BY <1>1, <1>4, <2>1 DEF Command!Withdraw, Told
    <2> QED
      BY <2>2 DEF Command!Next
  <1> QED
    BY <1>2, <1>3, <1>4

LEMMA CommandStep ==
    ASSUME Inv, [Next]_vars
    PROVE  [Command!Next]_(Command!vars)
  <1>0. Types /\ \A c \in Client : Legs(c) /\ Verdicts(c)
    BY DEF Inv
  <1> DEFINE Quiet(c) ==
        /\ \A d \in Client \ {c} : Undecided(d)' = Undecided(d)
        /\ Undecided(c)' => Undecided(c)
        /\ \A d \in Client : Told(d)' = Told(d)
        /\ UNCHANGED <<effects, code>>
  <1> USE DEF client, socket, worker, extension, host
  <1>1. ASSUME NEW c \in Client, Parse(c) \/ Connect(c) PROVE Quiet(c)
    <2>1. work[c] = "none"
      BY <1>0, <1>1 DEF Legs, Parse, Connect
    <2> QED
      BY <1>0, <1>1, <2>1 DEF Parse, Connect, End, Move, Types, Undecided, Told
  <1>2. ASSUME NEW c \in Client, SendRequest(c) \/ Hear(c) \/ Expire(c) PROVE Quiet(c)
    BY <1>0, <1>2
       DEF SendRequest, Hear, Expire, WatchesDeadline, End, Move, Types, Undecided, Told
  <1>3. ASSUME NEW c \in Client, Accept(c) PROVE Quiet(c)
    <2>1. work[c] = "none"
      BY <1>0, <1>3 DEF Legs, Accept
    <2> QED
      BY <1>0, <1>3, <2>1 DEF Accept, Types, Undecided, Told
  <1>4. ASSUME NEW c \in Client, ReadRequest(c) \/ Handle(c) PROVE Quiet(c)
    BY <1>0, <1>4 DEF ReadRequest, Handle, Do, Reply, Types, Undecided, Told
  <1>5. ASSUME NEW c \in Client, Wake(c) \/ Respond(c) PROVE Quiet(c)
    BY <1>0, <1>5 DEF Wake, Respond, Do, Reply, Types, Undecided, Told
  <1>6. ASSUME NEW c \in Client, Report(c) PROVE Quiet(c)
    BY <1>0, <1>6 DEF Report, Types, Undecided, Told
  <1>7. ASSUME NEW c \in Client, Decide(c) PROVE Quiet(c) \/ Command!Act(c)
    <2>1. ext[c] = "asked" /\ effects[c] = 0 /\ work[c] \notin {"none", "read", "handle"}
      BY <1>0, <1>7 DEF Decide, Legs, Verdicts, Types
    <2>2. Undecided(c) /\ ~Undecided(c)'
      BY <1>0, <1>7, <2>1 DEF Decide, Act, Types, Undecided
    <2>3. \A d \in Client \ {c} : Undecided(d)' = Undecided(d)
      BY <1>0, <1>7 DEF Decide, Act, Types, Undecided
    <2>4. CASE Act(c)
      <3>1. Undecided(c)' = FALSE
        BY <2>2 DEF Undecided
      <3>2. [d \in Client |-> Undecided(d)]' = [[d \in Client |-> Undecided(d)] EXCEPT ![c] = FALSE]
        BY <2>3, <3>1
      <3> QED
        BY <1>7, <2>2, <2>4, <3>2 DEF Decide, Act, Command!Act, Told
    <2>5. CASE ~Act(c)
      BY <1>7, <2>2, <2>3, <2>5 DEF Decide, Told
    <2> QED
      BY <2>4, <2>5
  <1>8. ASSUME NEW c \in Client, Emit(c)
        PROVE  Command!Succeed(c) \/ Command!Refuse(c) \/ Command!GiveUp(c)
    <2> DEFINE p == outcome'[c]
               k == code'[c]
    <2>1. /\ cli[c] # "exited" /\ cli' = [cli EXCEPT ![c] = "exited"]
          /\ outcome' = [outcome EXCEPT ![c] = p] /\ code' = [code EXCEPT ![c] = k]
          /\ UNCHANGED <<socket, worker, extension>>
      BY <1>0, <1>8 DEF Emit, Types
    <2>2. /\ p = outcome[c] \/ p = "bridge-error"
          /\ k \in {0, 2, 3}
          /\ k = 0 <=> p = "ok"
      BY <1>0, <1>8 DEF Emit, Emitted, Types, Legs
    <2>3. \A d \in Client : Undecided(d)' = Undecided(d)
      BY <1>0, <1>8, <2>1 DEF Types, Undecided, Emit
    <2>4. \A r, n : r = p /\ n = k => Command!Say(c, r, n)
      <3>1. [d \in Client |-> Told(d)]' = [[d \in Client |-> Told(d)] EXCEPT ![c] = p]
        BY <1>0, <2>1 DEF Told, Types
      <3>2. [d \in Client |-> Undecided(d)]' = [d \in Client |-> Undecided(d)]
        BY <2>3
      <3> QED
        BY <2>1, <3>1, <3>2 DEF Command!Say, Told
    <2>5. outcome[c] \in Answer
      BY <1>0, <1>8 DEF Types, Legs, Emit
    <2> HIDE DEF p, k
    <2>6. CASE p = "ok"
      BY <1>0, <2>2, <2>4, <2>6 DEF Command!Succeed, Verdicts, True
    <2>7. CASE p \in {"refused", "invalid-request"}
      <3>1. effects[c] = 0 /\ ~Undecided(c)
        BY <1>0, <1>8, <2>2, <2>7 DEF Verdicts, True, Final, Undecided, Emit, Legs
      <3> QED
        BY <2>2, <2>4, <2>7, <3>1 DEF Command!Refuse, Command!Refusal
    <2>8. CASE p \in {"timeout", "unavailable", "bridge-error"}
      BY <2>2, <2>4, <2>8 DEF Command!GiveUp, Command!Unclear
    <2> QED
      BY <2>2, <2>5, <2>6, <2>7, <2>8 DEF Answer
  <1>9. CASE Disconnect \/ Close \/ Tick \/ UNCHANGED vars
    <2>1. UNCHANGED <<cli, outcome, code, effects, work, ext>>
      BY <1>9 DEF Disconnect, Close, Tick, vars
    <2>2. \A c \in Client : (conn[c] # "none")' = (conn[c] # "none")
      BY <1>0, <1>9 DEF Disconnect, Close, Tick, vars, Types
    <2> QED
      BY <2>1, <2>2 DEF Command!vars, Undecided
  <1> QED
    <2>1. ASSUME NEW c \in Client, Quiet(c) PROVE [Command!Next]_(Command!vars)
      BY <1>0, <2>1, QuietStep
    <2>2. ASSUME NEW c \in Client,
                 Command!Act(c) \/ Command!Succeed(c) \/ Command!Refuse(c) \/ Command!GiveUp(c)
          PROVE  [Command!Next]_(Command!vars)
      BY <2>2 DEF Command!Next
    <2> QED
      BY <1>1, <1>2, <1>3, <1>4, <1>5, <1>6, <1>7, <1>8, <1>9, <2>1, <2>2 DEF Next, Run

(* A client, a host and an extension with two time limits, any of which    *)
(* may be late or leave, keep the promise of a single command: at most     *)
(* once, and truly told (client.py:50-98, 179-202, host.py:68-157).        *)
THEOREM CommandIsKept == Spec => ImplementsCommand
  BY CommandInit, CommandStep, InvAlways, PTL DEF Spec, ImplementsCommand
=============================================================================
