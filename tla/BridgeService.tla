---------------------------- MODULE BridgeService ----------------------------
(***************************************************************************)
(* What NativeBridge promises to the clients of the socket, with no word   *)
(* on threads, queues, ids or frames.  A request is refused, or it begins  *)
(* by taking the next ticket and is answered once.  Requests overlap and   *)
(* are answered in any order, yet the allowlist only moves forward: a tab  *)
(* list becomes the allowlist if its ticket is newer than the list's.      *)
(* After the extension is gone no request begins.                          *)
(***************************************************************************)
EXTENDS BridgeMessages

CONSTANT Worker

VARIABLES connected, request_generation, snapshot_ids, snapshot_generation,
          stage, req, gen, reply

allowlist == <<snapshot_ids, snapshot_generation>>
vars == <<connected, request_generation, allowlist, stage, req, gen, reply>>

Nothing == [tag |-> "empty"]

Init ==
    /\ connected = TRUE
    /\ request_generation = 0
    /\ snapshot_ids = {}
    /\ snapshot_generation = 0
    /\ stage = [w \in Worker |-> "idle"]
    /\ req = [w \in Worker |-> NoRequest]
    /\ gen = [w \in Worker |-> 0]
    /\ reply = [w \in Worker |-> Nothing]

Enter(w, s) == stage' = [stage EXCEPT ![w] = s]

(* tabs and open need no clearance, activate does.                         *)
Ask(w) ==
    /\ stage[w] = "idle"
    /\ \E r \in Request : /\ req' = [req EXCEPT ![w] = r]
                          /\ Enter(w, IF r.action \in {"tabs", "open"} THEN "cleared" ELSE "asked")
    /\ UNCHANGED <<connected, request_generation, allowlist, gen, reply>>

Clear(w) ==
    /\ stage[w] = "asked"
    /\ req[w].action = "activate"
    /\ req[w].pair \in snapshot_ids
    /\ Enter(w, "cleared")
    /\ UNCHANGED <<connected, request_generation, allowlist, req, gen, reply>>

Begin(w) ==
    /\ stage[w] = "cleared"
    /\ connected
    /\ request_generation' = request_generation + 1
    /\ gen' = [gen EXCEPT ![w] = request_generation']
    /\ Enter(w, "begun")
    /\ UNCHANGED <<connected, allowlist, req, reply>>

Tell(w, r) == Enter(w, "done") /\ reply' = [reply EXCEPT ![w] = r]

(* Without a ticket: the only reasons to refuse a request.                 *)
Reject(w) ==
    /\ \/ /\ stage[w] = "asked" /\ req[w].action = "malformed"
          /\ Tell(w, Failed("invalid-request"))
       \/ /\ stage[w] = "asked" /\ req[w].action = "activate"
          /\ req[w].pair \notin snapshot_ids
          /\ Tell(w, Failed("stale-tab"))
       \/ /\ stage[w] = "cleared" /\ ~connected
          /\ Tell(w, Failed("unavailable"))
    /\ UNCHANGED <<connected, request_generation, allowlist, req, gen>>

Fail(w) ==
    /\ stage[w] = "begun"
    /\ \E e \in {"unavailable", "timeout", "bridge-error"}
                  \cup (IF req[w].action = "open" THEN OPEN_ERRORS ELSE {}) :
          Tell(w, Failed(e))
    /\ UNCHANGED <<connected, request_generation, allowlist, req, gen>>

Succeed(w) ==
    /\ stage[w] = "begun"
    /\ req[w].action \in {"activate", "open"}
    /\ Tell(w, [tag |-> "ok"])
    /\ UNCHANGED <<connected, request_generation, allowlist, req, gen>>

List(w) ==
    /\ stage[w] = "begun"
    /\ req[w].action = "tabs"
    /\ \E S \in Snapshots :
          /\ Tell(w, [tag |-> "tabs", tabs |-> S])
          /\ allowlist' = IF gen[w] > snapshot_generation THEN <<S, gen[w]>> ELSE allowlist
    /\ UNCHANGED <<connected, request_generation, req, gen>>

Leave(w) ==
    /\ stage[w] = "done"
    /\ Enter(w, "idle")
    /\ req' = [req EXCEPT ![w] = NoRequest]
    /\ gen' = [gen EXCEPT ![w] = 0]
    /\ reply' = [reply EXCEPT ![w] = Nothing]
    /\ UNCHANGED <<connected, request_generation, allowlist>>

Down ==
    /\ connected' = FALSE
    /\ UNCHANGED <<request_generation, allowlist, stage, req, gen, reply>>

Progress(w) ==
    \/ Clear(w) \/ Begin(w) \/ Reject(w) \/ Fail(w) \/ Succeed(w) \/ List(w) \/ Leave(w)

Next == (\E w \in Worker : Ask(w) \/ Progress(w)) \/ Down

Spec == Init /\ [][Next]_vars /\ \A w \in Worker : WF_vars(Progress(w))
=============================================================================
