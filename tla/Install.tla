------------------------------- MODULE Install -------------------------------
(***************************************************************************)
(* The transaction of install.sh (install_transaction and rollback): four  *)
(* entries are replaced, three of an older product are removed, all or     *)
(* none.  Any step may fail and SIGINT or SIGTERM may arrive between any   *)
(* two; both are exceptions, and the handler rolls back.  A second one may *)
(* hit the handler itself, and SIGKILL ends everything at once.            *)
(*                                                                         *)
(* An flock admits one installer at a time, so one run follows another.    *)
(* The hook is put into place by another program, which the lock does not  *)
(* know of and which the end of the installer does not end.                *)
(*                                                                         *)
(* What an entry holds is 0 when it is absent, 1 for what was there before *)
(* the first run, r + 1 for what run r installs, and Partial for something *)
(* that is not all there: half written, or half removed.                   *)
(***************************************************************************)
EXTENDS Integers, Sequences

CONSTANTS
    Entry,      \* what is replaced or removed
    Files,      \* active entries that are renamed into place, in order
    Hook,       \* the one "omarchy hook install" puts into place
    Legacy,     \* entries of the older product
    Trees,      \* the ones of Files that are directories
    MaxRuns     \* bound: runs of the installer

Order  == Files \o <<Hook>> \o Legacy      \* active, then legacy
Active == {Files[n] : n \in 1..Len(Files)} \cup {Hook}

Partial == -1
Content == {Partial} \cup 0..MaxRuns + 1

ASSUME InstallAssumption ==
    /\ MaxRuns \in Nat
    /\ Files \in Seq(Entry) /\ Files # << >>
    /\ Hook \in Entry
    /\ Legacy \in Seq(Entry)
    /\ Trees \subseteq {Files[n] : n \in 1..Len(Files)}
    /\ \A e \in Entry : \E n \in 1..Len(Order) : Order[n] = e
    /\ \A m, n \in 1..Len(Order) : Order[m] = Order[n] => m = n

VARIABLES
    run,
    pc, i,         \* where the run is, and at which entry of its loop
    entry,         \* what every entry holds
    dir,           \* the directory they are in: "missing", "loose" or "0700"
    dirChange,     \* created_parents and mode_changes
    note,          \* states: "none", "absent" or "backup"
    backup,        \* what the backup of an entry holds
    stage,         \* the staged entries that are on disk
    stages,        \* the handler knows of them
    committed,
    commands,      \* runs whose "omarchy hook install" is at work
    disturbed,     \* history: something went wrong in the handler, or between
                   \* the making of a thing and its record
    astray,        \* history: during the run a hook command was at work that
                   \* the run did not wait for
    prior          \* history: entries and directory when the run began

tree    == <<entry, dir>>
records == <<dirChange, note, backup, stage, stages>>
hooks   == <<commands, astray>>
vars    == <<run, pc, i, tree, records, committed, hooks, disturbed, prior>>

New == run + 1

Init ==
    /\ run = 0
    /\ pc = "idle"
    /\ i = 0
    /\ entry \in [Entry -> {0, 1}]
    /\ dir \in {"missing", "loose", "0700"}
    /\ dir = "missing" => \A e \in Entry : entry[e] = 0
    /\ dirChange = "none"
    /\ note = [e \in Entry |-> "none"]
    /\ backup = [e \in Entry |-> 0]
    /\ stage = {}
    /\ stages = FALSE
    /\ committed = FALSE
    /\ commands = {}
    /\ disturbed = FALSE
    /\ astray = FALSE
    /\ prior = [entry |-> entry, dir |-> dir]

At(l, n) == pc' = l /\ i' = n

-----------------------------------------------------------------------------
(* install_transaction, up to the commit.                                  *)

(* Under the lock.  What an earlier run left behind is nothing to this     *)
(* one: its backups and stages have names of their own.                    *)
Start ==
    /\ pc \in {"idle", "success", "failed", "killed"}
    /\ run < MaxRuns
    /\ run' = run + 1
    /\ At("dirs", 0)
    /\ dirChange' = "none"
    /\ note' = [e \in Entry |-> "none"]
    /\ backup' = [e \in Entry |-> 0]
    /\ stage' = {}
    /\ stages' = FALSE
    /\ committed' = FALSE
    /\ disturbed' = FALSE
    /\ astray' = (commands # {})
    /\ prior' = [entry |-> entry, dir |-> dir]
    /\ UNCHANGED <<tree, commands>>

(* A mode is recorded before it is changed, a new directory after it was   *)
(* made.                                                                   *)
MakeDirectory ==
    /\ pc = "dirs"
    /\ dir' = "0700"
    /\ dirChange' = IF dir = "loose" THEN "mode" ELSE "none"
    /\ At(IF dir = "missing" THEN "record" ELSE "stage", 0)
    /\ UNCHANGED <<run, entry, note, backup, stage, stages, committed, hooks, disturbed, prior>>

RecordDirectory ==
    /\ pc = "record"
    /\ dirChange' = "created"
    /\ At("stage", 0)
    /\ UNCHANGED <<run, tree, note, backup, stage, stages, committed, hooks, disturbed, prior>>

(* stage_artifacts returns.                                                *)
StageArtifacts ==
    /\ pc = "stage"
    /\ stage' = Active
    /\ At("assign", 0)
    /\ UNCHANGED <<run, tree, dirChange, note, backup, stages, committed, hooks, disturbed, prior>>

(* The handler learns of the stages.                                       *)
AssignStages ==
    /\ pc = "assign"
    /\ stages' = TRUE
    /\ At("note", 1)
    /\ UNCHANGED <<run, tree, dirChange, note, backup, stage, committed, hooks, disturbed, prior>>

Note(e) == note' = [note EXCEPT ![e] = IF entry[e] = 0 THEN "absent" ELSE "backup"]

NoteEntry ==
    /\ pc = "note"
    /\ Note(Order[i])
    /\ At("move", i)
    /\ UNCHANGED <<run, tree, dirChange, backup, stage, stages, committed, hooks, disturbed, prior>>

MoveAway ==
    /\ pc = "move"
    /\ \/ /\ note[Order[i]] = "backup"
          /\ backup' = [backup EXCEPT ![Order[i]] = entry[Order[i]]]
          /\ entry' = [entry EXCEPT ![Order[i]] = 0]
       \/ note[Order[i]] = "absent" /\ UNCHANGED <<backup, entry>>
    /\ IF i < Len(Order) THEN At("note", i + 1) ELSE At("publish", 1)
    /\ UNCHANGED <<run, dir, dirChange, note, stage, stages, committed, hooks, disturbed, prior>>

Publish ==
    /\ pc = "publish"
    /\ entry' = [entry EXCEPT ![Files[i]] = New]
    /\ stage' = stage \ {Files[i]}
    /\ IF i < Len(Files) THEN At("publish", i + 1) ELSE At("hook", 0)
    /\ UNCHANGED <<run, dir, dirChange, note, backup, stages, committed, hooks, disturbed, prior>>

(* subprocess.run starts "omarchy hook install"...                         *)
StartHook ==
    /\ pc = "hook"
    /\ commands' = commands \cup {run}
    /\ At("wait", 0)
    /\ UNCHANGED <<run, tree, records, committed, disturbed, astray, prior>>

(* ... and waits for its end.                                              *)
HookInstalled ==
    /\ pc = "wait"
    /\ run \notin commands
    /\ At("verify", 0)
    /\ UNCHANGED <<run, tree, records, committed, hooks, disturbed, prior>>

(* Mutant: the transaction commits before the hook is there.               *)
VerifyEarly == pc = "hook"

Verify ==
    /\ pc = "verify"
    /\ \A e \in Entry : entry[e] = IF e \in Active THEN New ELSE 0
    /\ dir = "0700"

Commit ==
    /\ Verify
    /\ committed' = TRUE
    /\ At("clean", 1)
    /\ UNCHANGED <<run, tree, records, hooks, disturbed, prior>>

(* A backup that is a directory goes file by file.                         *)
RemoveBackup ==
    /\ pc = "clean"
    /\ \/ /\ backup' = [backup EXCEPT ![Order[i]] = 0]
          /\ IF i < Len(Order) THEN At("clean", i + 1) ELSE At("finish", 0)
       \/ /\ Order[i] \in Active /\ backup[Order[i]] # 0
          /\ backup' = [backup EXCEPT ![Order[i]] = Partial]
          /\ UNCHANGED <<pc, i>>
    /\ UNCHANGED <<run, tree, dirChange, note, stage, stages, committed, hooks, disturbed, prior>>

Finish ==
    /\ pc = "finish"
    /\ stage' = {}
    /\ At("success", 0)
    /\ UNCHANGED <<run, tree, dirChange, note, backup, stages, committed, hooks, disturbed, prior>>

-----------------------------------------------------------------------------
(* The hook command: it makes a copy of the staged hook, and the directory *)
(* when there is none.  It may fail at any point, and nobody but its own   *)
(* run waits for it.                                                       *)

CopyHook(r) ==
    /\ r \in commands
    /\ \E x \in {Partial, r + 1} : entry' = [entry EXCEPT ![Hook] = x]
    /\ dir' = IF dir = "missing" THEN "loose" ELSE dir
    /\ UNCHANGED <<run, pc, i, records, committed, hooks, disturbed, prior>>

EndHook(r) ==
    /\ r \in commands
    /\ commands' = commands \ {r}
    /\ UNCHANGED <<run, pc, i, tree, records, committed, disturbed, astray, prior>>

-----------------------------------------------------------------------------
(* The exception handler.                                                  *)

(* Mutant: what was committed is rolled back too.                          *)
CaughtAnywhere == At("rollback", Len(Order))

Caught == IF committed THEN At("unstage", 0) ELSE At("rollback", Len(Order))

(* A step fails, with or without having had its effect, or a signal        *)
(* arrives.  subprocess.run then kills the command it waits for, but not   *)
(* what that one has started itself.                                       *)
Raise ==
    /\ pc \in {"dirs", "record", "assign", "note", "move", "publish", "hook", "wait", "verify",
               "clean", "finish"}
    /\ Caught
    /\ disturbed' = (pc \in {"record", "assign"})
    /\ commands' \in {commands, commands \ {run}}
    /\ astray' = (astray \/ run \in commands')
    /\ UNCHANGED <<run, tree, records, committed, prior>>

(* stage_artifacts fails with some of its stages made...                   *)
StagingFails ==
    /\ pc = "stage"
    /\ stage' \in SUBSET Active
    /\ At("abandon", 0)
    /\ UNCHANGED <<run, tree, dirChange, note, backup, stages, committed, hooks, disturbed, prior>>

(* Mutant: stages are left behind.                                         *)
KeepStages == UNCHANGED stage

CleanupStages == stage' = {}

(* ... and removes them before the handler knows of any.                   *)
Abandon ==
    /\ pc = "abandon"
    /\ CleanupStages
    /\ Caught
    /\ UNCHANGED <<run, tree, dirChange, note, backup, stages, committed, hooks, disturbed, prior>>

NextBack == IF i > 1 THEN At("rollback", i - 1) ELSE At("modes", 0)

(* Mutant: whatever is at the place of a recorded entry is removed.        *)
RemoveAll(e) == note[e] # "none"

(* The entry was absent, or its backup exists: what is there is not the    *)
(* prior one.                                                              *)
Replaced(e) == note[e] = "absent" \/ (note[e] = "backup" /\ backup[e] # 0)

(* rollback, from the last entry to the first: first what is there is      *)
(* removed.                                                                *)
RollBack ==
    /\ pc = "rollback"
    /\ \/ /\ Replaced(Order[i])
          /\ entry' = [entry EXCEPT ![Order[i]] = 0]
          /\ IF backup[Order[i]] # 0 THEN At("restore", i) ELSE NextBack
       \/ /\ ~Replaced(Order[i])
          /\ NextBack
          /\ UNCHANGED entry
    /\ UNCHANGED <<run, dir, records, committed, hooks, disturbed, prior>>

(* rmtree is not done yet.                                                 *)
Dismantle ==
    /\ pc = "rollback"
    /\ Replaced(Order[i])
    /\ Order[i] \in Trees /\ entry[Order[i]] # 0
    /\ entry' = [entry EXCEPT ![Order[i]] = Partial]
    /\ UNCHANGED <<run, pc, i, dir, records, committed, hooks, disturbed, prior>>

Restore ==
    /\ pc = "restore"
    /\ entry' = [entry EXCEPT ![Order[i]] = backup[Order[i]]]
    /\ backup' = [backup EXCEPT ![Order[i]] = 0]
    /\ NextBack
    /\ UNCHANGED <<run, dir, dirChange, note, stage, stages, committed, hooks, disturbed, prior>>

RestoreModes ==
    /\ pc = "modes"
    /\ dir' = IF dirChange = "mode" THEN "loose" ELSE dir
    /\ At("unstage", 0)
    /\ UNCHANGED <<run, entry, records, committed, hooks, disturbed, prior>>

AfterUnstage == IF committed THEN At("failed", 0) ELSE At("rmdirs", 0)

Unstage ==
    /\ pc = "unstage"
    /\ IF stages THEN CleanupStages ELSE UNCHANGED stage
    /\ AfterUnstage
    /\ UNCHANGED <<run, tree, dirChange, note, backup, stages, committed, hooks, disturbed, prior>>

Empty == stage = {} /\ \A e \in Entry : entry[e] = 0 /\ backup[e] = 0

(* remove_created_directories; one that is not empty stays.                *)
RemoveDirectories ==
    /\ pc = "rmdirs"
    /\ dir' = IF dirChange = "created" /\ Empty THEN "missing" ELSE dir
    /\ At("failed", 0)
    /\ UNCHANGED <<run, entry, records, committed, hooks, disturbed, prior>>

(* The handler's own step fails, or another signal arrives.  In the        *)
(* rollback an entry is given up, or the loop is; of the other clauses     *)
(* each is run whatever became of the one before.                          *)
Disturb ==
    /\ \/ pc \in {"rollback", "restore"} /\ (NextBack \/ At("modes", 0)) /\ UNCHANGED stage
       \/ pc = "modes" /\ At("unstage", 0) /\ UNCHANGED stage
       \/ pc = "unstage" /\ AfterUnstage /\ stage' \in SUBSET stage
       \/ pc = "abandon" /\ Caught /\ stage' \in SUBSET stage
       \/ pc = "rmdirs" /\ At("failed", 0) /\ UNCHANGED stage
    /\ disturbed' = TRUE
    /\ UNCHANGED <<run, tree, dirChange, note, backup, stages, committed, hooks, prior>>

(* SIGKILL, or the machine goes down: the command goes on, or does not.    *)
Kill ==
    /\ pc \notin {"idle", "success", "failed", "killed"}
    /\ At("killed", 0)
    /\ astray' = (astray \/ run \in commands)
    /\ UNCHANGED <<run, tree, records, committed, commands, disturbed, prior>>

-----------------------------------------------------------------------------

Transaction ==
    \/ MakeDirectory \/ RecordDirectory \/ StageArtifacts \/ AssignStages \/ NoteEntry \/ MoveAway
    \/ Publish \/ StartHook \/ HookInstalled \/ Commit \/ RemoveBackup \/ Finish

Handler ==
    \/ Abandon \/ RollBack \/ Dismantle \/ Restore \/ RestoreModes \/ Unstage
    \/ RemoveDirectories

Next ==
    \/ Start \/ Transaction \/ Raise \/ StagingFails \/ Handler \/ Disturb \/ Kill
    \/ \E r \in commands : CopyHook(r) \/ EndHook(r)

Spec == Init /\ [][Next]_vars

-----------------------------------------------------------------------------

(* Types, and that a backup is always one that was recorded.               *)
TypeOK ==
    /\ run \in 0..MaxRuns
    /\ pc \in {"idle", "dirs", "record", "stage", "assign", "note", "move", "publish", "hook", "wait",
               "verify", "clean", "finish",
               "abandon", "rollback", "restore", "modes", "unstage", "rmdirs",
               "success", "failed", "killed"}
    /\ i \in 0..Len(Order)
    /\ entry \in [Entry -> Content]
    /\ dir \in {"missing", "loose", "0700"}
    /\ dirChange \in {"none", "created", "mode"}
    /\ note \in [Entry -> {"none", "absent", "backup"}]
    /\ backup \in [Entry -> Content]
    /\ stage \subseteq Active
    /\ {stages, committed, disturbed, astray} \subseteq BOOLEAN
    /\ commands \subseteq 1..run
    /\ prior \in [entry : [Entry -> Content],
                  dir : {"missing", "loose", "0700"}]
    /\ \A e \in Entry : backup[e] # 0 => note[e] = "backup"

(* A hook command that a run does not wait for, one that an earlier run    *)
(* left behind or one that outlived its own, may write the hook whenever   *)
(* it likes.                                                               *)
Minded(e) == e # Hook \/ ~astray

(* Whatever failed and wherever the signal fell, a run that ends before    *)
(* its commit leaves the exact tree it found; only a failure of the        *)
(* handler itself, or a signal between the making of a directory or the    *)
(* stages and their record, may leave more, and a hook command gone astray *)
(* more of the hook (install.sh:241-244, 489-501, 554, 600-623).           *)
RollbackRestores ==
    pc = "failed" /\ ~committed /\ ~disturbed =>
        /\ \A e \in Entry : backup[e] = 0 /\ (Minded(e) => entry[e] = prior.entry[e])
        /\ ~astray => dir = prior.dir
        /\ stage = {}

(* From the commit on the whole product is in place and the older one is   *)
(* gone, even if the cleaning up fails or the installer is killed in it;   *)
(* a run that succeeds leaves nothing else behind (install.sh:594-599).    *)
CommittedIsComplete ==
    /\ committed => \A e \in Entry : Minded(e) => entry[e] = IF e \in Active THEN New ELSE 0
    /\ pc = "success" => committed /\ stage = {} /\ \A e \in Entry : backup[e] = 0

(* Until the commit nothing is lost that was there before, neither to      *)
(* SIGKILL nor to a second signal in the middle of the rollback: it is in  *)
(* its place or in a backup beside it (install.sh:489-501, 560-571).       *)
NothingLost ==
    ~committed =>
        \A e \in Entry : prior.entry[e] # 0 /\ Minded(e) =>
            prior.entry[e] \in {entry[e], backup[e]}

-----------------------------------------------------------------------------
(* The promise.  Until it ends or commits a run is seen as if it had not   *)
(* touched the tree yet.                                                   *)

Phase ==
    CASE pc = "idle" -> "idle"
      [] pc = "success" -> "succeeded"
      [] pc \in {"failed", "killed"} /\ committed -> "stopped"
      [] pc = "failed" /\ ~committed /\ ~disturbed -> "unchanged"
      [] pc \in {"failed", "killed"} /\ ~committed /\ (disturbed \/ pc = "killed") -> "broken"
      [] OTHER -> IF committed THEN "committed" ELSE "open"

Update == INSTANCE AtomicUpdate WITH
    run   <- run,
    state <- Phase,
    entry <- IF Phase = "open" THEN prior.entry ELSE entry,
    dir   <- IF Phase = "open" THEN prior.dir ELSE dir,
    saved <- IF Phase = "open" THEN [e \in Entry |-> 0] ELSE backup,
    Fragile <- Trees \cup {Hook}

(* All the steps of the program together replace the tree at once or not   *)
(* at all, and once it is replaced only backups go: no failure, signal or  *)
(* kill between two of them shows anything else, except to the rollback    *)
(* itself (install.sh:489-501, 560-623).                                   *)
ImplementsUpdate == Update!Spec
=============================================================================
