---------------------------- MODULE RemoteCommand ----------------------------
(***************************************************************************)
(* What a command promises to whoever runs it: the browser does what it    *)
(* asks for at most once, and what the command says of that is true.       *)
(* Success means that it was done, a refusal that it was not done and is   *)
(* not going to be; any other answer leaves it open, and then the browser  *)
(* may still do it when the command is long gone.                          *)
(***************************************************************************)
EXTENDS Integers

CONSTANT Client    \* commands

Refusal == {"refused", "invalid-request"}
Unclear == {"timeout", "unavailable", "bridge-error"}

VARIABLES
    open,       \* it may still be done
    effects,    \* how often it was done
    told,       \* what the command said of it
    code        \* its exit code

vars == <<open, effects, told, code>>

Init ==
    /\ open = [c \in Client |-> TRUE]
    /\ effects = [c \in Client |-> 0]
    /\ told = [c \in Client |-> "none"]
    /\ code = [c \in Client |-> -1]

Act(c) ==
    /\ open[c]
    /\ open' = [open EXCEPT ![c] = FALSE]
    /\ effects' = [effects EXCEPT ![c] = @ + 1]
    /\ UNCHANGED <<told, code>>

Withdraw(c) ==
    /\ open[c]
    /\ open' = [open EXCEPT ![c] = FALSE]
    /\ UNCHANGED <<effects, told, code>>

Say(c, r, k) ==
    /\ told[c] = "none"
    /\ told' = [told EXCEPT ![c] = r]
    /\ code' = [code EXCEPT ![c] = k]
    /\ UNCHANGED <<open, effects>>

Succeed(c) == effects[c] = 1 /\ Say(c, "ok", 0)

Refuse(c) ==
    /\ effects[c] = 0 /\ ~open[c]
    /\ \E r \in Refusal, k \in {2, 3} : Say(c, r, k)

GiveUp(c) == \E r \in Unclear, k \in {2, 3} : Say(c, r, k)

Next == \E c \in Client : Act(c) \/ Withdraw(c) \/ Succeed(c) \/ Refuse(c) \/ GiveUp(c)

Spec == Init /\ [][Next]_vars
==============================================================================
