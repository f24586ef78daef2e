------------------------- MODULE NativeBridge_proofs -------------------------
(***************************************************************************)
(* TLAPS proofs about NativeBridge, for every set of threads, ids and      *)
(* pairs and every bound.  The properties are not inductive one by one:    *)
(* they rest on each other and on the facts below about what a thread      *)
(* holds at each point (Shape), how generations are handed out             *)
(* (Generations), and which frame an answer belongs to (Frames).  From the *)
(* same invariant follows that NativeBridge implements BridgeService.      *)
(***************************************************************************)
EXTENDS NativeBridge, TLAPS

Begun(w) == pc[w] \in {"send", "wait", "pop", "judge"}

(* The ways request itself fails.                                          *)
WaitFailure == {Failed(e) : e \in {"unavailable", "timeout", "bridge-error"}}

Shape ==
    \A w \in Worker :
        /\ pc[w] = "refuse" => req[w].action = "malformed"
        /\ pc[w] = "check" => req[w] \in Request /\ req[w].action = "activate"
        /\ pc[w] = "register" \/ Begun(w) => req[w] \in Request /\ req[w].action \in Framed
        /\ InRequest(w) => rid[w] \in RequestId
        /\ pc[w] = "pop" => result[w] \in Item \cup WaitFailure
        /\ pc[w] = "judge" => result[w] \in Item
        /\ pc[w] = "done" => result[w] \in Failure \cup Success

Generations ==
    /\ snapshot_generation <= request_generation
    /\ \A w \in Worker : gen[w] <= request_generation
    /\ \A w \in Worker : Begun(w) => gen[w] # NoEntry /\ gen[w] # snapshot_generation
    /\ \A v, w \in Worker : v # w /\ gen[v] # NoEntry => gen[v] # gen[w]

Frames ==
    /\ ~TokenRepeats => \A f \in sent : pending[f.id] \in {NoEntry, f.gen}
    /\ hand \in Item /\ ~TokenRepeats => hand.frame = hand.gen

IInv ==
    /\ TypeOK
    /\ Shape
    /\ Generations
    /\ PendingIsOutstanding
    /\ Frames
    /\ NoStrandedWaiter
    /\ AnswerIsOwn
    /\ NewestWins

-----------------------------------------------------------------------------
(* Facts about the data.                                                   *)

(* What a queue or a result may hold is told apart by its tag.             *)
LEMMA Tags ==
    /\ \A x \in Item : x.tag = "item" /\ x.gen \in Nat /\ x.frame \in Nat /\ x.msg \in Answer
    /\ Empty.tag = "empty" /\ Gone.tag = "gone"
    /\ \A x \in Failure : x.tag = "failed"
    /\ \A x \in Success : x.tag \in {"ok", "tabs"} /\ (x.tag = "tabs" => x.tabs \in Snapshots)
    /\ \A e \in ErrorCode : Failed(e) \in Failure
    /\ WaitFailure \subseteq Failure
  BY DEF Item, Empty, Gone, Failure, Success, Failed, WaitFailure, ErrorCode

(* The lists the extension may report, and the only answers with a list.   *)
LEMMA Lists ==
    /\ \A a \in Framed : AnswerTo(a) \subseteq Answer
    /\ \A m \in Answer : m.type = "tabs.result" => m.tabs \in Snapshots
  BY DEF Framed, Answer, AnswerTo, TabsAnswer, ActivateAnswer, OpenAnswer, Unexpected

(* What a client is told about an answer that is no tab list.              *)
LEMMA Verdicts ==
    ASSUME NEW a, NEW m
    PROVE  Verdict(a, m) \in Failure \cup Success /\ Verdict(a, m).tag # "tabs"
  <1>1. {"unavailable", "bridge-error", "stale-tab"} \cup OPEN_ERRORS \subseteq ErrorCode
    BY DEF ErrorCode
  <1>2. [tag |-> "ok"] \in Success
    BY DEF Success
  <1> QED
    BY <1>1, <1>2 DEF Verdict, Failed, Failure

(* put_nowait touches only queues of the generation it was meant for.      *)
LEMMA PutShape ==
    ASSUME TypeOK, NEW g \in Nat, NEW x \in Item \cup {Gone}, PutNoWait(g, x)
    PROVE  /\ box' \in [Worker -> Item \cup {Empty, Gone}]
           /\ \A w \in Worker : box'[w] = IF Waiting(w) /\ gen[w] = g /\ box[w] = Empty
                                          THEN x ELSE box[w]
  BY DEF PutNoWait, TypeOK

-----------------------------------------------------------------------------
(* The invariant holds initially.                                          *)

LEMMA InitInv == Init => IInv
  <1> SUFFICES ASSUME Init PROVE IInv
    OBVIOUS
  <1>1. TypeOK
    BY DEF Init, TypeOK, NoEntry, PC
  <1>2. Shape
    BY DEF Init, Shape, Begun, InRequest
  <1>3. Generations
    BY DEF Init, Generations, Begun, NoEntry
  <1>4. PendingIsOutstanding /\ Frames /\ AnswerIsOwn
    BY Tags DEF Init, PendingIsOutstanding, Frames, AnswerIsOwn, InRequest, Waiting
  <1>5. NoStrandedWaiter /\ NewestWins
    BY DEF Init, NoStrandedWaiter, NewestWins
  <1> QED
    BY <1>1, <1>2, <1>3, <1>4, <1>5 DEF IInv

-----------------------------------------------------------------------------
(* Every step keeps the types.                                             *)

LEMMA TypeStep ==
    ASSUME TypeOK, Shape, [Next]_vars
    PROVE  TypeOK'
  <1> USE Tags, Lists DEF TypeOK, PC
  <1>1. ASSUME NEW w \in Worker, Accept(w) PROVE TypeOK'
    BY <1>1 DEF Accept, Goto, FirstStep, bridge, threads
  <1>2. ASSUME NEW w \in Worker, Refuse(w) PROVE TypeOK'
    <2>1. Failed("invalid-request") \in Failure
      BY DEF ErrorCode
    <2> QED
      BY <1>2, <2>1 DEF Refuse, Respond, Goto, bridge, threads
  <1>3. ASSUME NEW w \in Worker, CheckAllowed(w) PROVE TypeOK'
    <2>1. Failed("stale-tab") \in Failure
      BY DEF ErrorCode
    <2> QED
      BY <1>3, <2>1 DEF CheckAllowed, Respond, Goto, bridge, threads
  <1>4. ASSUME NEW w \in Worker, Register(w) PROVE TypeOK'
    <2>1. Failed("unavailable") \in Failure
      BY DEF ErrorCode
    <2> QED
      BY <1>4, <2>1 DEF Register, Respond, Goto, threads
  <1>5. ASSUME NEW w \in Worker, Send(w) PROVE TypeOK'
    <2>1. \A e \in {"unavailable", "bridge-error"} : Failed(e) \in Failure
      BY DEF ErrorCode
    <2>2. rid[w] \in RequestId /\ req[w].action \in Framed
      BY <1>5 DEF Send, Shape, InRequest, Begun
    <2> QED
      BY <1>5, <2>1, <2>2 DEF Send, Goto, bridge, threads
  <1>6. ASSUME NEW w \in Worker, Take(w) PROVE TypeOK'
    <2>1. Failed("unavailable") \in Failure
      BY DEF ErrorCode
    <2> QED
      BY <1>6, <2>1 DEF Take, Goto, bridge, threads
  <1>7. ASSUME NEW w \in Worker, TimeOut(w) PROVE TypeOK'
    <2>1. Failed("timeout") \in Failure
      BY DEF ErrorCode
    <2> QED
      BY <1>7, <2>1 DEF TimeOut, Goto, bridge, threads
  <1>8. ASSUME NEW w \in Worker, Pop(w) PROVE TypeOK'
    BY <1>8 DEF Pop, PopEntry, Goto, threads, NoEntry
  <1>9. ASSUME NEW w \in Worker, Judge(w) PROVE TypeOK'
    BY <1>9, Verdicts, SnapshotAssumption DEF Judge, Respond, Goto, threads, Shape, Success
  <1>10. ASSUME NEW w \in Worker, Return(w) PROVE TypeOK'
    BY <1>10 DEF Return, Goto, bridge, threads, NoEntry
  <1>11. CASE Receive
    BY <1>11 DEF Receive, bridge, client, Item
  <1>12. CASE Deliver
    BY <1>12, PutShape DEF Deliver, bridge
  <1>13. ASSUME NEW t \in Closer, Disconnect(t) PROVE TypeOK'
    <2>1. Outstanding \in SUBSET Nat
      BY DEF Outstanding
    <2> QED
      BY <1>13, <2>1 DEF Disconnect, client
  <1>14. ASSUME NEW t \in Closer, Wake(t) PROVE TypeOK'
    BY <1>14, PutShape DEF Wake, bridge
  <1>15. CASE UNCHANGED vars
    BY <1>15 DEF vars, bridge, client, threads
  <1> QED
    BY <1>1, <1>2, <1>3, <1>4, <1>5, <1>6, <1>7, <1>8, <1>9, <1>10, <1>11,
       <1>12, <1>13, <1>14, <1>15 DEF Next, ClientStep

-----------------------------------------------------------------------------
(* Every step keeps what a thread holds at each point.                     *)

LEMMA ShapeStep ==
    ASSUME TypeOK, Shape, [Next]_vars
    PROVE  Shape'
  <1> USE Tags DEF Shape, Begun, InRequest
  <1>1. ASSUME NEW w \in Worker, Accept(w) PROVE Shape'
    <2>1. PICK r \in Request : /\ req' = [req EXCEPT ![w] = r]
                               /\ pc' = [pc EXCEPT ![w] = FirstStep(r.action)]
      BY <1>1 DEF Accept, Goto
    <2>2. r.action \in {"tabs", "open", "malformed", "activate"}
      BY DEF Request
    <2> QED
      BY <1>1, <2>1, <2>2 DEF Accept, FirstStep, Framed, TypeOK
  <1>2. ASSUME NEW w \in Worker, Refuse(w) PROVE Shape'
    <2>1. Failed("invalid-request") \in Failure
      BY DEF ErrorCode
    <2> QED
      BY <1>2, <2>1 DEF Refuse, Respond, Goto, TypeOK
  <1>3. ASSUME NEW w \in Worker, CheckAllowed(w) PROVE Shape'
    <2>1. Failed("stale-tab") \in Failure
      BY DEF ErrorCode
    <2> QED
      BY <1>3, <2>1 DEF CheckAllowed, Respond, Goto, Framed, TypeOK
  <1>4. ASSUME NEW w \in Worker, Register(w) PROVE Shape'
    <2>1. Failed("unavailable") \in Failure
      BY DEF ErrorCode
    <2> QED
      BY <1>4, <2>1 DEF Register, Respond, Goto, TypeOK
  <1>5. ASSUME NEW w \in Worker, Send(w) PROVE Shape'
    <2>1. \A e \in {"unavailable", "bridge-error"} : Failed(e) \in WaitFailure
      BY DEF WaitFailure
    <2> QED
      BY <1>5, <2>1 DEF Send, Goto, TypeOK
  <1>6. ASSUME NEW w \in Worker, Take(w) PROVE Shape'
    <2>1. Failed("unavailable") \in WaitFailure
      BY DEF WaitFailure
    <2> QED
      BY <1>6, <2>1 DEF Take, Goto, TypeOK
  <1>7. ASSUME NEW w \in Worker, TimeOut(w) PROVE Shape'
    <2>1. Failed("timeout") \in WaitFailure
      BY DEF WaitFailure
    <2> QED
      BY <1>7, <2>1 DEF TimeOut, Goto, TypeOK
  <1>8. ASSUME NEW w \in Worker, Pop(w) PROVE Shape'
    BY <1>8 DEF Pop, Goto, TypeOK
  <1>9. ASSUME NEW w \in Worker, Judge(w) PROVE Shape'
    BY <1>9, Verdicts, Lists DEF Judge, Respond, Goto, Success, TypeOK
  <1>10. ASSUME NEW w \in Worker, Return(w) PROVE Shape'
    BY <1>10 DEF Return, Goto, TypeOK
  <1>11. CASE Receive
    BY <1>11 DEF Receive, client
  <1>12. CASE Deliver
    BY <1>12 DEF Deliver
  <1>13. ASSUME NEW t \in Closer, Disconnect(t) PROVE Shape'
    BY <1>13 DEF Disconnect, client
  <1>14. ASSUME NEW t \in Closer, Wake(t) PROVE Shape'
    BY <1>14 DEF Wake
  <1>15. CASE UNCHANGED vars
    BY <1>15 DEF vars, client
  <1> QED
    BY <1>1, <1>2, <1>3, <1>4, <1>5, <1>6, <1>7, <1>8, <1>9, <1>10, <1>11,
       <1>12, <1>13, <1>14, <1>15 DEF Next, ClientStep

-----------------------------------------------------------------------------
(* Generations are handed out once, in order, and an answer not yet judged *)
(* is not the one the allowlist came from.                                 *)

LEMMA GenerationsStep ==
    ASSUME TypeOK, Shape, Generations, [Next]_vars
    PROVE  Generations'
  <1> USE DEF Generations, Begun, NoEntry
  <1>1. ASSUME NEW w \in Worker, Accept(w) PROVE Generations'
    BY <1>1 DEF Accept, Goto, FirstStep, bridge, TypeOK
  <1>2. ASSUME NEW w \in Worker, Refuse(w) \/ CheckAllowed(w) PROVE Generations'
    BY <1>2 DEF Refuse, CheckAllowed, Respond, Goto, bridge, TypeOK
  <1>3. ASSUME NEW w \in Worker, Register(w) PROVE Generations'
    <2>1. CASE connected
      BY <1>3, <2>1 DEF Register, Admitted, Goto, TypeOK
    <2>2. CASE ~connected
      BY <1>3, <2>2 DEF Register, Admitted, Respond, Goto, TypeOK
    <2> QED
      BY <2>1, <2>2 DEF TypeOK
  <1>4. ASSUME NEW w \in Worker, Send(w) \/ Take(w) \/ TimeOut(w) \/ Pop(w)
        PROVE  Generations'
    BY <1>4 DEF Send, Take, TimeOut, Pop, Goto, bridge, TypeOK
  <1>5. ASSUME NEW w \in Worker, Judge(w) PROVE Generations'
    BY <1>5 DEF Judge, Respond, Goto, TypeOK
  <1>6. ASSUME NEW w \in Worker, Return(w) PROVE Generations'
    BY <1>6 DEF Return, Goto, bridge, TypeOK
  <1>7. CASE Receive \/ Deliver
    BY <1>7 DEF Receive, Deliver, bridge, client
  <1>8. ASSUME NEW t \in Closer, Disconnect(t) \/ Wake(t) PROVE Generations'
    BY <1>8 DEF Disconnect, Wake, bridge, client
  <1>9. CASE UNCHANGED vars
    BY <1>9 DEF vars, bridge, client
  <1> QED
    BY <1>1, <1>2, <1>3, <1>4, <1>5, <1>6, <1>7, <1>8, <1>9 DEF Next, ClientStep

-----------------------------------------------------------------------------
(* The table of pending requests.  Two frames in flight never share an id, *)
(* because their entries carry different generations.                      *)

LEMMA OwnIds ==
    ASSUME Generations, PendingIsOutstanding,
           NEW v \in Worker, NEW w \in Worker, v # w, InRequest(v), InRequest(w)
    PROVE  rid[v] # rid[w]
  BY DEF Generations, PendingIsOutstanding, InRequest, Begun

LEMMA PendingStep ==
    ASSUME TypeOK, Shape, Generations, PendingIsOutstanding, [Next]_vars
    PROVE  PendingIsOutstanding'
  <1> USE DEF PendingIsOutstanding
  <1>1. ASSUME NEW w \in Worker,
               Accept(w) \/ Refuse(w) \/ CheckAllowed(w) \/ Judge(w) \/ Return(w)
        PROVE  PendingIsOutstanding'
    <2>1. /\ UNCHANGED pending
          /\ \A v \in Worker : /\ InRequest(v)' <=> InRequest(v)
                               /\ InRequest(v) => UNCHANGED <<rid[v], gen[v]>>
      BY <1>1 DEF Accept, Refuse, CheckAllowed, Judge, Return, Respond, Goto, FirstStep,
                  bridge, TypeOK, InRequest
    <2> QED
      BY <2>1
  <1>2. ASSUME NEW w \in Worker, Register(w) PROVE PendingIsOutstanding'
    <2>1. CASE connected
      <3>1. PICK id \in RequestId :
               /\ pending[id] = NoEntry
               /\ rid' = [rid EXCEPT ![w] = id]
               /\ pending' = [pending EXCEPT ![id] = request_generation']
        BY <1>2, <2>1 DEF Register, Admitted, FreeId
      <3>2. /\ gen' = [gen EXCEPT ![w] = request_generation']
            /\ pc[w] = "register" /\ pc' = [pc EXCEPT ![w] = "send"]
            /\ request_generation' \in Nat \ {NoEntry}
        BY <1>2, <2>1 DEF Register, Admitted, Goto, TypeOK, NoEntry
      <3>3. \A v \in Worker : InRequest(v) => v # w /\ rid[v] # id
        BY <3>1, <3>2 DEF InRequest, Begun, Generations
      <3>4. \A v \in Worker : InRequest(v)' => pending'[rid'[v]] = gen'[v]
        BY <3>1, <3>2, <3>3 DEF InRequest, TypeOK, Shape
      <3>5. ASSUME NEW j \in RequestId, pending'[j] # NoEntry
            PROVE  \E v \in Worker : InRequest(v)' /\ rid'[v] = j
        BY <3>1, <3>2, <3>5 DEF InRequest, TypeOK
      <3> QED
        BY <3>4, <3>5
    <2>2. CASE ~connected
      BY <1>2, <2>2 DEF Register, Admitted, Respond, Goto, InRequest, TypeOK
    <2> QED
      BY <2>1, <2>2 DEF TypeOK
  <1>3. ASSUME NEW w \in Worker, Send(w) \/ Take(w) \/ TimeOut(w)
        PROVE  PendingIsOutstanding'
    BY <1>3 DEF Send, Take, TimeOut, Goto, bridge, TypeOK, InRequest
  <1>4. ASSUME NEW w \in Worker, Pop(w) PROVE PendingIsOutstanding'
    <2>1. /\ pending' = [pending EXCEPT ![rid[w]] = NoEntry]
          /\ pc[w] = "pop" /\ UNCHANGED <<rid, gen>>
          /\ pc'[w] \in {"judge", "done"} /\ \A v \in Worker \ {w} : pc'[v] = pc[v]
      BY <1>4 DEF Pop, PopEntry, Goto, TypeOK
    <2>2. rid[w] \in RequestId /\ InRequest(w)
      BY <2>1 DEF Shape, InRequest
    <2>3. \A v \in Worker : InRequest(v)' <=> v # w /\ InRequest(v)
      BY <2>1 DEF InRequest
    <2>4. \A v \in Worker : v # w /\ InRequest(v) => rid[v] # rid[w]
      BY <2>2, OwnIds
    <2>5. \A v \in Worker : InRequest(v)' => pending'[rid'[v]] = gen'[v]
      BY <2>1, <2>3, <2>4 DEF Shape, TypeOK
    <2>6. \A j \in RequestId : pending'[j] # NoEntry => pending[j] # NoEntry /\ j # rid[w]
      BY <2>1, <2>2 DEF TypeOK
    <2> QED
      BY <2>1, <2>3, <2>5, <2>6
  <1>5. CASE Receive \/ Deliver
    BY <1>5 DEF Receive, Deliver, bridge, client, InRequest
  <1>6. ASSUME NEW t \in Closer, Disconnect(t) \/ Wake(t) PROVE PendingIsOutstanding'
    BY <1>6 DEF Disconnect, Wake, bridge, client, InRequest
  <1>7. CASE UNCHANGED vars
    BY <1>7 DEF vars, bridge, client, InRequest
  <1> QED
    BY <1>1, <1>2, <1>3, <1>4, <1>5, <1>6, <1>7 DEF Next, ClientStep

-----------------------------------------------------------------------------
(* Answers stay with the frame they answer.                                *)

LEMMA FramesStep ==
    ASSUME TypeOK, Shape, PendingIsOutstanding, Frames, [Next]_vars
    PROVE  Frames'
  <1> USE Tags DEF Frames
  <1>1. ASSUME NEW w \in Worker,
               Accept(w) \/ Refuse(w) \/ CheckAllowed(w) \/ Take(w) \/ TimeOut(w)
                  \/ Judge(w) \/ Return(w)
        PROVE  Frames'
    BY <1>1 DEF Accept, Refuse, CheckAllowed, Take, TimeOut, Judge, Return, bridge, threads
  <1>2. ASSUME NEW w \in Worker, Register(w) PROVE Frames'
    <2>1. CASE connected
      <3>1. PICK id \in RequestId :
               /\ FreeId(id)
               /\ pending' = [pending EXCEPT ![id] = request_generation']
        BY <1>2, <2>1 DEF Register, Admitted
      <3>2. UNCHANGED <<sent, hand>>
        BY <1>2 DEF Register, threads
      <3> QED
        BY <3>1, <3>2 DEF FreeId, TypeOK
    <2>2. CASE ~connected
      BY <1>2, <2>2 DEF Register, Admitted, threads
    <2> QED
      BY <2>1, <2>2 DEF TypeOK
  <1>3. ASSUME NEW w \in Worker, Send(w) PROVE Frames'
    <2>1. pending[rid[w]] = gen[w]
      BY <1>3 DEF Send, PendingIsOutstanding, InRequest
    <2> QED
      BY <1>3, <2>1 DEF Send, bridge, threads
  <1>4. ASSUME NEW w \in Worker, Pop(w) PROVE Frames'
    BY <1>4 DEF Pop, PopEntry, threads, TypeOK
  <1>5. CASE Receive
    <2>1. PICK f \in sent : /\ pending[f.id] # NoEntry
                            /\ \E m \in AnswerTo(f.action) :
                                  hand' = [tag |-> "item", gen |-> pending[f.id],
                                           frame |-> f.gen, msg |-> m]
      BY <1>5 DEF Receive
    <2> QED
      BY <1>5, <2>1 DEF Receive, bridge
  <1>6. CASE Deliver
    BY <1>6 DEF Deliver, bridge
  <1>7. ASSUME NEW t \in Closer, Disconnect(t) \/ Wake(t) PROVE Frames'
    BY <1>7 DEF Disconnect, Wake, bridge
  <1>8. CASE UNCHANGED vars
    BY <1>8 DEF vars, bridge, threads
  <1> QED
    BY <1>1, <1>2, <1>3, <1>4, <1>5, <1>6, <1>7, <1>8 DEF Next, ClientStep

-----------------------------------------------------------------------------
(* No waiting thread is forgotten by a disconnect.                         *)

LEMMA StrandedStep ==
    ASSUME TypeOK, Shape, Generations, PendingIsOutstanding, NoStrandedWaiter, [Next]_vars
    PROVE  NoStrandedWaiter'
  <1> USE Tags DEF NoStrandedWaiter, Waiting
  <1>1. ASSUME NEW w \in Worker,
               Accept(w) \/ Refuse(w) \/ CheckAllowed(w) \/ Take(w) \/ TimeOut(w)
                  \/ Pop(w) \/ Judge(w) \/ Return(w)
        PROVE  NoStrandedWaiter'
    <2>1. /\ UNCHANGED <<connected, targets>>
          /\ \A v \in Worker : Waiting(v)' => Waiting(v) /\ UNCHANGED <<box[v], gen[v]>>
      BY <1>1 DEF Accept, Refuse, CheckAllowed, Take, TimeOut, Pop, Judge, Return,
                  Respond, Goto, FirstStep, bridge, threads, TypeOK
    <2> QED
      BY <2>1
  <1>2. ASSUME NEW w \in Worker, Register(w) PROVE NoStrandedWaiter'
    BY <1>2 DEF Register, Admitted, Respond, Goto, threads, TypeOK
  <1>3. ASSUME NEW w \in Worker, Send(w) PROVE NoStrandedWaiter'
    BY <1>3 DEF Send, Goto, bridge, threads, TypeOK
  <1>4. CASE Receive
    BY <1>4 DEF Receive, bridge, client
  <1>5. CASE Deliver
    <2>1. \A v \in Worker : box'[v] = Empty => box[v] = Empty
      BY <1>5, PutShape DEF Deliver, TypeOK
    <2> QED
      BY <1>5, <2>1 DEF Deliver, bridge
  <1>6. ASSUME NEW t \in Closer, Disconnect(t) PROVE NoStrandedWaiter'
    <2>1. targets'[t] = Outstanding
      BY <1>6 DEF Disconnect, TypeOK
    <2>2. \A v \in Worker : Waiting(v) => gen[v] \in Outstanding
      BY DEF Outstanding, PendingIsOutstanding, InRequest, Shape, Generations, Begun
    <2> QED
      BY <1>6, <2>1, <2>2 DEF Disconnect, client
  <1>7. ASSUME NEW t \in Closer, Wake(t) PROVE NoStrandedWaiter'
    <2>1. PICK g \in targets[t] : /\ PutNoWait(g, Gone)
                                  /\ targets' = [targets EXCEPT ![t] = @ \ {g}]
      BY <1>7 DEF Wake
    <2>2. g \in Nat
      BY <2>1 DEF TypeOK
    <2>3. \A v \in Worker : /\ box[v] # Empty => box'[v] # Empty
                            /\ Waiting(v) /\ gen[v] = g => box'[v] # Empty
      BY <2>1, <2>2, PutShape
    <2>4. \A s \in Closer : targets[s] \ {g} \subseteq targets'[s]
      BY <2>1 DEF TypeOK
    <2>5. UNCHANGED <<connected, pc, gen>>
      BY <1>7 DEF Wake, bridge
    <2> QED
      BY <2>3, <2>4, <2>5
  <1>8. CASE UNCHANGED vars
    BY <1>8 DEF vars, bridge, client, threads
  <1> QED
    BY <1>1, <1>2, <1>3, <1>4, <1>5, <1>6, <1>7, <1>8 DEF Next, ClientStep

-----------------------------------------------------------------------------
(* What is in a thread's queue answers that thread's frame.                *)

LEMMA OwnStep ==
    ASSUME TypeOK, Frames, AnswerIsOwn, [Next]_vars
    PROVE  AnswerIsOwn'
  <1> USE Tags DEF AnswerIsOwn, Waiting
  <1>1. ASSUME NEW w \in Worker,
               Accept(w) \/ Refuse(w) \/ CheckAllowed(w) \/ Take(w) \/ TimeOut(w)
                  \/ Pop(w) \/ Judge(w) \/ Return(w)
        PROVE  AnswerIsOwn'
    <2>1. \A v \in Worker : Waiting(v)' => Waiting(v) /\ UNCHANGED <<box[v], gen[v]>>
      BY <1>1 DEF Accept, Refuse, CheckAllowed, Take, TimeOut, Pop, Judge, Return,
                  Respond, Goto, FirstStep, TypeOK
    <2> QED
      BY <2>1
  <1>2. ASSUME NEW w \in Worker, Register(w) PROVE AnswerIsOwn'
    BY <1>2 DEF Register, Respond, Goto, TypeOK
  <1>3. ASSUME NEW w \in Worker, Send(w) PROVE AnswerIsOwn'
    BY <1>3 DEF Send, Goto, TypeOK
  <1>4. CASE Receive
    BY <1>4 DEF Receive, client
  <1>5. CASE Deliver
    <2>1. hand \in Item
      BY <1>5 DEF Deliver, TypeOK
    <2>2. \A v \in Worker : box'[v] = box[v] \/ (box'[v] = hand /\ gen[v] = hand.gen)
      BY <1>5, <2>1, PutShape DEF Deliver
    <2> QED
      BY <1>5, <2>1, <2>2 DEF Deliver, Frames
  <1>6. ASSUME NEW t \in Closer, Disconnect(t) PROVE AnswerIsOwn'
    BY <1>6 DEF Disconnect, client
  <1>7. ASSUME NEW t \in Closer, Wake(t) PROVE AnswerIsOwn'
    <2>1. \A v \in Worker : box'[v] = box[v] \/ box'[v] = Gone
      BY <1>7, PutShape DEF Wake, TypeOK
    <2> QED
      BY <1>7, <2>1 DEF Wake
  <1>8. CASE UNCHANGED vars
    BY <1>8 DEF vars, client
  <1> QED
    BY <1>1, <1>2, <1>3, <1>4, <1>5, <1>6, <1>7, <1>8 DEF Next, ClientStep

-----------------------------------------------------------------------------
(* The allowlist only moves forward.                                       *)

LEMMA NewestStep ==
    ASSUME TypeOK, Shape, Generations, NewestWins, [Next]_vars
    PROVE  NewestWins'
  <1> USE Tags DEF NewestWins
  <1>1. ASSUME NEW w \in Worker,
               \/ Accept(w) \/ Refuse(w) \/ CheckAllowed(w) \/ Register(w) \/ Send(w)
               \/ Take(w) \/ TimeOut(w) \/ Return(w)
        PROVE  NewestWins'
    <2>1. UNCHANGED <<snapshot_ids, snapshot_generation>>
      BY <1>1 DEF Accept, Refuse, CheckAllowed, Register, Send, Take, TimeOut, Return, bridge
    <2>2. \A v \in Worker \ {w} : UNCHANGED <<pc[v], result[v], gen[v]>>
      BY <1>1 DEF Accept, Refuse, CheckAllowed, Register, Send, Take, TimeOut, Return,
                  Respond, Goto, TypeOK
    <2>3. pc'[w] = "done" => result'[w].tag # "tabs"
      <3>1. CASE Accept(w) \/ Send(w) \/ Take(w) \/ TimeOut(w) \/ Return(w)
        BY <3>1 DEF Accept, Send, Take, TimeOut, Return, Goto, FirstStep, TypeOK
      <3>2. CASE Refuse(w) \/ CheckAllowed(w) \/ Register(w)
        BY <3>2 DEF Refuse, CheckAllowed, Register, Respond, Goto, Failed, TypeOK
      <3> QED
        BY <1>1, <3>1, <3>2
    <2> QED
      BY <2>1, <2>2, <2>3
  <1>2. ASSUME NEW w \in Worker, Pop(w) PROVE NewestWins'
    <2>1. pc[w] = "pop" /\ result[w].tag # "tabs"
      BY <1>2 DEF Pop, Shape
    <2> QED
      BY <1>2, <2>1 DEF Pop, Goto, TypeOK
  <1>3. ASSUME NEW w \in Worker, Judge(w) PROVE NewestWins'
    <2> DEFINE m == result[w].msg
               listed == req[w].action = "tabs" /\ m.type = "tabs.result"
    <2>1. /\ UNCHANGED gen /\ pc[w] = "judge"
          /\ \A v \in Worker \ {w} : UNCHANGED <<pc[v], result[v]>>
          /\ result'[w] = IF listed THEN [tag |-> "tabs", tabs |-> m.tabs]
                                    ELSE Verdict(req[w].action, m)
      BY <1>3 DEF Judge, Respond, Goto, TypeOK
    <2>2. CASE listed /\ gen[w] > snapshot_generation
      <3>1. snapshot_ids' = m.tabs /\ snapshot_generation' = gen[w]
        BY <1>3, <2>2 DEF Judge, Newer
      <3> QED
        BY <2>1, <2>2, <3>1 DEF TypeOK
    <2>3. CASE ~(listed /\ gen[w] > snapshot_generation)
      <3>1. UNCHANGED <<snapshot_ids, snapshot_generation>>
        BY <1>3, <2>3 DEF Judge, Newer
      <3>2. gen[w] # snapshot_generation /\ gen[w] \in Nat /\ snapshot_generation \in Nat
        BY <2>1 DEF Generations, Begun, TypeOK
      <3>3. result'[w].tag = "tabs" => gen[w] < snapshot_generation
        BY <2>1, <2>3, <3>2, Verdicts
      <3> QED
        BY <2>1, <3>1, <3>2, <3>3
    <2> QED
      BY <2>2, <2>3
  <1>4. CASE Receive \/ Deliver
    BY <1>4 DEF Receive, Deliver, bridge, client
  <1>5. ASSUME NEW t \in Closer, Disconnect(t) \/ Wake(t) PROVE NewestWins'
    BY <1>5 DEF Disconnect, Wake, bridge, client
  <1>6. CASE UNCHANGED vars
    BY <1>6 DEF vars, bridge, client
  <1> QED
    BY <1>1, <1>2, <1>3, <1>4, <1>5, <1>6 DEF Next, ClientStep

-----------------------------------------------------------------------------
(* The theorems.                                                           *)

LEMMA Invariance == Spec => []IInv
  <1>1. IInv /\ [Next]_vars => IInv'
    BY TypeStep, ShapeStep, GenerationsStep, PendingStep, FramesStep, StrandedStep,
       OwnStep, NewestStep DEF IInv
  <1> QED
    BY InitInv, <1>1, PTL DEF Spec

(* Every variable of the bridge stays in its type; in particular no client *)
(* is ever told an error the protocol does not list (host.py:24-26, 155).  *)
THEOREM TypeCorrect == Spec => []TypeOK
  <1>1. IInv => TypeOK
    BY DEF IInv
  <1> QED
    BY Invariance, <1>1, PTL

(* The table of pending requests holds the frames in flight and no other   *)
(* (request, host.py:70-90).                                               *)
THEOREM NoLeakedEntry == Spec => []PendingIsOutstanding
  <1>1. IInv => PendingIsOutstanding
    BY DEF IInv
  <1> QED
    BY Invariance, <1>1, PTL

(* A disconnect overlooks no waiting thread (host.py:58-82).               *)
THEOREM DisconnectWakesAll == Spec => []NoStrandedWaiter
  <1>1. IInv => NoStrandedWaiter
    BY DEF IInv
  <1> QED
    BY Invariance, <1>1, PTL

(* If ids do not repeat, an answer only reaches the thread whose frame it  *)
(* answers (receive, host.py:45-56).                                       *)
THEOREM Correlation == Spec => []AnswerIsOwn
  <1>1. IInv => AnswerIsOwn
    BY DEF IInv
  <1> QED
    BY Invariance, <1>1, PTL

(* No client holds a tab list newer than the allowlist (host.py:108-112).  *)
THEOREM AllowlistIsNewest == Spec => []NewestWins
  <1>1. IInv => NewestWins
    BY DEF IInv
  <1> QED
    BY Invariance, <1>1, PTL

-----------------------------------------------------------------------------
(* NativeBridge implements BridgeService.  Most steps of the threads       *)
(* change nothing the service shows; the others are one step of the        *)
(* service each.                                                           *)

(* Both modules speak of the same requests and responses.                  *)
LEMMA SameWords ==
    /\ Service!Request = Request
    /\ Service!NoRequest = NoRequest
    /\ Service!Nothing = Empty
    /\ \A e : Service!Failed(e) = Failed(e)
  BY DEF Service!Request, Request, Service!NoRequest, NoRequest, Service!Nothing, Empty,
         Service!Failed, Failed

(* How the mapped variables follow a step of one thread.                   *)
LEMMA StagesFollow ==
    ASSUME TypeOK, NEW w \in Worker, NEW l \in PC, Goto(w, l)
    PROVE  Stages' = [Stages EXCEPT ![w] = StageAt(l)]
  BY DEF TypeOK, Goto, Stages

LEMMA StagesStay ==
    ASSUME TypeOK, NEW w \in Worker, NEW l \in PC, Goto(w, l), StageAt(l) = StageAt(pc[w])
    PROVE  Stages' = Stages
  BY DEF TypeOK, Goto, Stages

LEMMA RepliesStay ==
    ASSUME TypeOK, NEW w \in Worker, NEW l \in PC \ {"done"}, pc[w] # "done", Goto(w, l),
           \A v \in Worker \ {w} : UNCHANGED result[v]
    PROVE  Replies' = Replies
  BY DEF TypeOK, Goto, Replies

LEMMA RepliesFollow ==
    ASSUME TypeOK, NEW w \in Worker, Goto(w, "done"),
           \A v \in Worker \ {w} : UNCHANGED result[v]
    PROVE  Replies' = [Replies EXCEPT ![w] = result'[w]]
  BY DEF TypeOK, Goto, Replies

(* Responding is telling the client.                                       *)
LEMMA Telling ==
    ASSUME TypeOK, NEW w \in Worker, NEW r, Respond(w, r)
    PROVE  Service!Tell(w, r)
  <1>1. Goto(w, "done") /\ result' = [result EXCEPT ![w] = r]
    BY DEF Respond
  <1>2. result'[w] = r /\ \A v \in Worker \ {w} : UNCHANGED result[v]
    BY <1>1 DEF TypeOK
  <1>3. Stages' = [Stages EXCEPT ![w] = "done"]
    BY <1>1, StagesFollow DEF PC, StageAt
  <1>4. Replies' = [Replies EXCEPT ![w] = r]
    BY <1>1, <1>2, RepliesFollow
  <1> QED
    BY <1>3, <1>4 DEF Service!Tell, Service!Enter

(* The initial states map to the initial state of the service.             *)
LEMMA RefinesInit == Init => Service!Init
  <1> SUFFICES ASSUME Init PROVE Service!Init
    OBVIOUS
  <1>1. \A w \in Worker : pc[w] = "idle"
    BY DEF Init
  <1>2. Stages = [w \in Worker |-> "idle"]
    BY <1>1 DEF Stages, StageAt
  <1>3. Replies = [w \in Worker |-> Service!Nothing]
    BY <1>1 DEF Replies, Empty, Service!Nothing
  <1> QED
    BY <1>2, <1>3, SameWords DEF Init, Service!Init, NoEntry

(* Every step maps to a step of the service or to none.                    *)
LEMMA RefinesStep ==
    ASSUME IInv, [Next]_vars
    PROVE  [Service!Next]_(Service!vars)
  <1> USE SameWords DEF IInv
  <1> DEFINE Quiet == UNCHANGED Service!vars
  <1>1. ASSUME NEW w \in Worker, Accept(w) PROVE Service!Ask(w)
    <2>1. PICK r \in Request : /\ req' = [req EXCEPT ![w] = r]
                               /\ Goto(w, FirstStep(r.action))
      BY <1>1 DEF Accept
    <2>2. r.action \in {"tabs", "open", "malformed", "activate"}
      BY DEF Request
    <2>3. FirstStep(r.action) \in PC \ {"done"}
      BY DEF FirstStep, PC
    <2>4. pc[w] = "idle" /\ Stages[w] = "idle"
      BY <1>1 DEF Accept, Stages, StageAt
    <2>5. Stages' = [Stages EXCEPT ![w] = StageAt(FirstStep(r.action))]
      BY <2>1, <2>3, StagesFollow
    <2>6. StageAt(FirstStep(r.action)) = IF r.action \in {"tabs", "open"} THEN "cleared" ELSE "asked"
      BY <2>2 DEF StageAt, FirstStep
    <2>7. Replies' = Replies
      BY <1>1, <2>1, <2>3, <2>4, RepliesStay DEF Accept
    <2> QED
      BY <1>1, <2>1, <2>4, <2>5, <2>6, <2>7
         DEF Accept, bridge, Service!Ask, Service!Enter, Service!allowlist
  <1>2. ASSUME NEW w \in Worker, Refuse(w) PROVE Service!Reject(w)
    <2>1. Stages[w] = "asked" /\ req[w].action = "malformed"
      BY <1>2 DEF Refuse, Stages, StageAt, Shape
    <2>2. Service!Tell(w, Failed("invalid-request"))
      BY <1>2, Telling DEF Refuse
    <2> QED
      BY <1>2, <2>1, <2>2 DEF Refuse, bridge, Service!Reject, Service!allowlist
  <1>3. ASSUME NEW w \in Worker, CheckAllowed(w) PROVE Service!Clear(w) \/ Service!Reject(w)
    <2>1. pc[w] = "check" /\ Stages[w] = "asked" /\ req[w].action = "activate"
      BY <1>3 DEF CheckAllowed, Stages, StageAt, Shape
    <2>2. CASE req[w].pair \in snapshot_ids
      <3>1. Goto(w, "register") /\ UNCHANGED result
        BY <1>3, <2>2 DEF CheckAllowed
      <3>2. Stages' = [Stages EXCEPT ![w] = "cleared"] /\ Replies' = Replies
        BY <2>1, <3>1, StagesFollow, RepliesStay DEF PC, StageAt
      <3> QED
        BY <1>3, <2>1, <2>2, <3>2
           DEF CheckAllowed, bridge, Service!Clear, Service!Enter, Service!allowlist
    <2>3. CASE req[w].pair \notin snapshot_ids
      <3>1. Service!Tell(w, Failed("stale-tab"))
        BY <1>3, <2>3, Telling DEF CheckAllowed
      <3> QED
        BY <1>3, <2>1, <2>3, <3>1 DEF CheckAllowed, bridge, Service!Reject, Service!allowlist
    <2> QED
      BY <2>2, <2>3
  <1>4. ASSUME NEW w \in Worker, Register(w) PROVE Service!Begin(w) \/ Service!Reject(w)
    <2>1. pc[w] = "register" /\ Stages[w] = "cleared"
      BY <1>4 DEF Register, Stages, StageAt
    <2>2. CASE connected
      <3>1. Goto(w, "send") /\ UNCHANGED result
        BY <1>4, <2>2 DEF Register, Admitted
      <3>2. Stages' = [Stages EXCEPT ![w] = "begun"] /\ Replies' = Replies
        BY <2>1, <3>1, StagesFollow, RepliesStay DEF PC, StageAt
      <3> QED
        BY <1>4, <2>1, <2>2, <3>2
           DEF Register, Admitted, Service!Begin, Service!Enter, Service!allowlist
    <2>3. CASE ~connected
      <3>1. Service!Tell(w, Failed("unavailable"))
        BY <1>4, <2>3, Telling DEF Register, Admitted
      <3> QED
        BY <1>4, <2>1, <2>3, <3>1
           DEF Register, Admitted, Service!Reject, Service!allowlist
    <2> QED
      BY <2>2, <2>3
  <1>5. ASSUME NEW w \in Worker, Send(w) \/ Take(w) \/ TimeOut(w) PROVE Quiet
    <2>1. PICK l \in {"wait", "pop"} : Goto(w, l)
      BY <1>5 DEF Send, Take, TimeOut
    <2>2. pc[w] \in {"send", "wait"}
      BY <1>5 DEF Send, Take, TimeOut
    <2>3. \A v \in Worker \ {w} : UNCHANGED result[v]
      BY <1>5 DEF Send, Take, TimeOut, TypeOK
    <2>4. Stages' = Stages /\ Replies' = Replies
      BY <2>1, <2>2, <2>3, StagesStay, RepliesStay DEF PC, StageAt
    <2> QED
      BY <1>5, <2>4 DEF Send, Take, TimeOut, bridge, Service!vars, Service!allowlist
  <1>6. ASSUME NEW w \in Worker, Pop(w) PROVE Quiet \/ Service!Fail(w)
    <2>1. pc[w] = "pop" /\ Stages[w] = "begun" /\ UNCHANGED result
      BY <1>6 DEF Pop, Stages, StageAt
    <2>2. CASE result[w].tag = "item"
      <3>1. Goto(w, "judge")
        BY <1>6, <2>2 DEF Pop
      <3>2. Stages' = Stages /\ Replies' = Replies
        BY <2>1, <3>1, StagesStay, RepliesStay DEF PC, StageAt
      <3> QED
        BY <1>6, <3>2 DEF Pop, Service!vars, Service!allowlist
    <2>3. CASE result[w].tag # "item"
      <3>1. Goto(w, "done")
        BY <1>6, <2>3 DEF Pop
      <3>2. PICK e \in {"unavailable", "timeout", "bridge-error"} : result[w] = Failed(e)
        BY <2>1, <2>3, Tags DEF Shape, WaitFailure
      <3>3. Stages' = [Stages EXCEPT ![w] = "done"]
        BY <3>1, StagesFollow DEF PC, StageAt
      <3>4. Replies' = [Replies EXCEPT ![w] = Failed(e)]
        BY <2>1, <3>1, <3>2, RepliesFollow
      <3> QED
        BY <1>6, <2>1, <3>3, <3>4
           DEF Pop, Service!Fail, Service!Tell, Service!Enter, Service!allowlist
    <2> QED
      BY <2>2, <2>3
  <1>7. ASSUME NEW w \in Worker, Judge(w)
        PROVE  Service!List(w) \/ Service!Succeed(w) \/ Service!Fail(w)
    <2> DEFINE m == result[w].msg
               action == req[w].action
               listed == action = "tabs" /\ m.type = "tabs.result"
    <2>1. /\ pc[w] = "judge" /\ Stages[w] = "begun"
          /\ m \in Answer /\ action \in Framed
          /\ UNCHANGED <<connected, request_generation, req, gen>>
      BY <1>7, Tags DEF Judge, Stages, StageAt, Shape, Begun
    <2>2. Service!Tell(w, IF listed THEN [tag |-> "tabs", tabs |-> m.tabs] ELSE Verdict(action, m))
      BY <1>7, Telling DEF Judge
    <2>3. CASE listed
      <3>1. m.tabs \in Snapshots
        BY <2>1, <2>3, Lists
      <3>2. Service!Tell(w, [tag |-> "tabs", tabs |-> m.tabs])
        BY <2>2, <2>3
      <3>3. Service!allowlist' = IF gen[w] > snapshot_generation THEN <<m.tabs, gen[w]>>
                                 ELSE Service!allowlist
        BY <1>7, <2>3 DEF Judge, Newer, Service!allowlist
      <3> QED
        BY <2>1, <2>3, <3>1, <3>2, <3>3 DEF Service!List
    <2>4. CASE ~listed
      <3>1. Service!Tell(w, Verdict(action, m)) /\ UNCHANGED Service!allowlist
        BY <1>7, <2>2, <2>4 DEF Judge, Service!allowlist
      <3>2. CASE Accepted(action, m)
        <4>1. Verdict(action, m) = [tag |-> "ok"] /\ action \in {"activate", "open"}
          BY <3>2 DEF Verdict, Accepted
        <4> QED
          BY <2>1, <3>1, <4>1 DEF Service!Succeed
      <3>3. CASE ~Accepted(action, m) /\ action = "open" /\ m.error \in OPEN_ERRORS
                   /\ m.type = "tabs.opened"
        <4>1. Verdict(action, m) = Failed(m.error)
          BY <3>3 DEF Verdict
        <4> QED
          BY <2>1, <3>1, <3>3, <4>1 DEF Service!Fail
      <3>4. CASE ~Accepted(action, m)
                   /\ ~(action = "open" /\ m.error \in OPEN_ERRORS /\ m.type = "tabs.opened")
        <4>1. Verdict(action, m) = Failed("bridge-error")
          BY <3>4 DEF Verdict
        <4> QED
          BY <2>1, <3>1, <4>1 DEF Service!Fail
      <3> QED
        BY <3>2, <3>3, <3>4
    <2> QED
      BY <2>3, <2>4
  <1>8. ASSUME NEW w \in Worker, Return(w) PROVE Service!Leave(w)
    <2>1. pc[w] = "done" /\ Stages[w] = "done" /\ Goto(w, "idle")
      BY <1>8 DEF Return, Stages, StageAt
    <2>2. Stages' = [Stages EXCEPT ![w] = "idle"]
      BY <2>1, StagesFollow DEF PC, StageAt
    <2>3. pc'[w] = "idle" /\ \A v \in Worker \ {w} : UNCHANGED <<pc[v], result[v]>>
      BY <1>8 DEF Return, Goto, TypeOK
    <2>4. Replies' = [Replies EXCEPT ![w] = Service!Nothing]
      BY <2>3 DEF Replies, Empty, Service!Nothing
    <2> QED
      BY <1>8, <2>1, <2>2, <2>4
         DEF Return, bridge, NoEntry, Service!Leave, Service!Enter, Service!allowlist
  <1>9. ASSUME Receive \/ Deliver \/ (\E t \in Closer : Wake(t)) \/ UNCHANGED vars
        PROVE  Quiet
    BY <1>9 DEF Receive, Deliver, Wake, vars, bridge, client, Stages, Replies,
                Service!vars, Service!allowlist
  <1>10. ASSUME NEW t \in Closer, Disconnect(t) PROVE Service!Down
    BY <1>10 DEF Disconnect, client, Stages, Replies, Service!Down, Service!allowlist
  <1> QED
    BY <1>1, <1>2, <1>3, <1>4, <1>5, <1>6, <1>7, <1>8, <1>9, <1>10
       DEF Next, ClientStep, Service!Next, Service!Progress

(* NativeBridge keeps every promise of BridgeService about what a step may *)
(* do: requests refused for the listed reasons only, tickets in order, no  *)
(* request begun after the disconnect, an allowlist that moves forward.    *)
THEOREM Refinement == Spec => ImplementsService
  <1>1. IInv /\ [Next]_vars => [Service!Next]_(Service!vars)
    BY RefinesStep
  <1> QED
    BY RefinesInit, Invariance, <1>1, PTL DEF Spec, ImplementsService
=============================================================================
