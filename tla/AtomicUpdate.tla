----------------------------- MODULE AtomicUpdate -----------------------------
(***************************************************************************)
(* What the installer promises to whoever looks at the tree when no run is *)
(* under way: a run replaces all of it or none of it.  Entries, directory  *)
(* and the saved copies change together, in the one step Commit; after it  *)
(* only copies go, and the run ends well once they are gone.  A run that   *)
(* ends before changes nothing.                                            *)
(*                                                                         *)
(* There are two exceptions.  A run that was broken off in its rollback    *)
(* may leave any mixture of old, new and absent entries, some only in      *)
(* part, but each old one is there or saved.  And the hook is written by   *)
(* another program: once a run has lost sight of it (astray), nothing is   *)
(* promised of the hook until a later run begins without one.              *)
(***************************************************************************)
EXTENDS Integers

CONSTANTS
    Entry,
    Active,     \* the entries of the product; the others are removed
    Hook,
    Fragile     \* what may be there in part

VARIABLES
    run,        \* how many runs there were
    state,      \* of the last one
    entry,      \* what every entry holds: 0 is nothing, r + 1 is of run r
    dir,
    saved,      \* the copy of an entry that the last run keeps
    astray      \* somebody else may be writing the hook

vars == <<run, state, entry, dir, saved, astray>>

Partial == -1
Nothing == [e \in Entry |-> 0]
Product == [e \in Entry |-> IF e \in Active THEN run + 1 ELSE 0]

(* The same but for a hook that somebody else may be writing.              *)
Agree(f, g) == \A e \in Entry : f[e] = g[e] \/ (e = Hook /\ astray')

Init ==
    /\ run = 0
    /\ state = "idle"
    /\ entry \in [Entry -> {0, 1}]
    /\ dir \in {"missing", "loose", "0700"}
    /\ saved = Nothing
    /\ astray = FALSE

Begin ==
    /\ state \notin {"open", "committed"}
    /\ run' = run + 1
    /\ state' = "open"
    /\ saved' = Nothing
    /\ astray' \in {astray, FALSE}
    /\ UNCHANGED <<entry, dir>>

Commit ==
    /\ state = "open"
    /\ state' = "committed"
    /\ entry' = Product
    /\ dir' = "0700"
    /\ Agree(saved', entry)
    /\ UNCHANGED <<run, astray>>

(* A copy goes at once or file by file.                                    *)
CleanUp(e) ==
    /\ state = "committed"
    /\ saved[e] # 0
    /\ \E x \in {0, Partial} : saved' = [saved EXCEPT ![e] = x]
    /\ UNCHANGED <<run, state, entry, dir, astray>>

Succeed ==
    /\ state = "committed" /\ saved = Nothing
    /\ state' = "succeeded"
    /\ UNCHANGED <<run, entry, dir, saved, astray>>

Stop ==
    /\ state = "committed"
    /\ state' = "stopped"
    /\ UNCHANGED <<run, entry, dir, saved, astray>>

Abort ==
    /\ state = "open"
    /\ state' = "unchanged"
    /\ Agree(entry', entry)
    /\ dir' = dir \/ astray
    /\ UNCHANGED <<run, saved, astray>>

Break ==
    /\ state = "open"
    /\ state' = "broken"
    /\ astray => astray'
    /\ \A e \in Entry : e # Hook \/ ~astray' =>
          /\ entry'[e] \in {entry[e], 0, Product[e]} \cup (IF e \in Fragile THEN {Partial} ELSE {})
          /\ saved'[e] \in {0, entry[e]}
          /\ entry[e] \in {0, entry'[e], saved'[e]}
    /\ dir' \in {dir, "0700"} \/ astray'
    /\ UNCHANGED run

(* A run loses sight of its hook command.                                  *)
Lose ==
    /\ state = "open"
    /\ astray' = TRUE
    /\ UNCHANGED <<run, state, entry, dir, saved>>

(* The hook command writes, and makes the directory if there is none.      *)
Intrude ==
    /\ astray
    /\ Agree(entry', entry)
    /\ dir' \in {dir, "loose"} /\ (dir # "missing" => dir' = dir)
    /\ UNCHANGED <<run, state, saved, astray>>

Next ==
    \/ Begin \/ Commit \/ Succeed \/ Stop \/ Abort \/ Break \/ Lose \/ Intrude
    \/ \E e \in Entry : CleanUp(e)

Spec == Init /\ [][Next]_vars
===============================================================================
