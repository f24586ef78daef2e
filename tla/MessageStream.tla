---------------------------- MODULE MessageStream ----------------------------
(***************************************************************************)
(* What native messaging promises: messages come out whole and in the      *)
(* order they were put in.  Those that were put in last may be lost when   *)
(* one end goes away.                                                      *)
(***************************************************************************)
EXTENDS Integers, Sequences

CONSTANT Message

VARIABLES in, out

vars == <<in, out>>

Init == in = << >> /\ out = << >>

Put ==
    /\ \E m \in Message : in' = Append(in, m)
    /\ UNCHANGED out

Get ==
    /\ Len(out) < Len(in)
    /\ out' = Append(out, in[Len(out) + 1])
    /\ UNCHANGED in

Next == Put \/ Get

Spec == Init /\ [][Next]_vars
==============================================================================
