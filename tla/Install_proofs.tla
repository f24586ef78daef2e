--------------------------- MODULE Install_proofs ---------------------------
(***************************************************************************)
(* TLAPS proofs about Install, for any list of entries, any length of it   *)
(* and any number of runs.  The argument: at every step of the transaction *)
(* the record of an entry says truly how to get the prior one back, and    *)
(* the rollback, going backwards, has restored what lies behind it.        *)
(***************************************************************************)
EXTENDS Install, SequenceTheorems, TLAPS

(* What the proofs use of the list of entries.                             *)
LEMMA OrderFacts ==
    /\ Len(Order) \in Nat \ {0} /\ Len(Files) \in Nat \ {0} /\ Len(Files) < Len(Order)
    /\ MaxRuns \in Nat
    /\ \A n \in 1..Len(Order) : Order[n] \in Entry
    /\ \A e \in Entry : \E n \in 1..Len(Order) : Order[n] = e
    /\ \A m, n \in 1..Len(Order) : Order[m] = Order[n] => m = n
    /\ \A n \in 1..Len(Files) : Files[n] \in Entry /\ Files[n] \in Active
    /\ Hook \in Entry
  <1>1. Files \in Seq(Entry) /\ <<Hook>> \in Seq(Entry) /\ Legacy \in Seq(Entry)
    BY InstallAssumption
  <1>2. (Files \o <<Hook>>) \in Seq(Entry)
    BY <1>1, ConcatProperties
  <1>3. Order \in Seq(Entry) /\ Len(Order) = Len(Files \o <<Hook>>) + Len(Legacy)
    BY <1>1, <1>2, ConcatProperties DEF Order
  <1>4. Len(Files \o <<Hook>>) = Len(Files) + 1
    BY <1>1, ConcatProperties
  <1>5. Len(Files) \in Nat \ {0} /\ Len(Legacy) \in Nat
    BY <1>1, InstallAssumption, EmptySeq, LenProperties
  <1>6. Len(Order) \in Nat \ {0} /\ Len(Files) < Len(Order)
    BY <1>3, <1>4, <1>5
  <1>7. \A n \in 1..Len(Order) : Order[n] \in Entry
    BY <1>3, ElementOfSeq
  <1>8. \A n \in 1..Len(Files) : Files[n] \in Entry /\ Files[n] \in Active
    BY <1>1, ElementOfSeq DEF Active
  <1> QED
    BY <1>5, <1>6, <1>7, <1>8, InstallAssumption

(* What the proofs use of the contents.                                    *)
LEMMA ContentFacts ==
    /\ 0 \in Content /\ Partial \in Content /\ Partial # 0
    /\ \A r \in 0..MaxRuns : r + 1 \in Content /\ r + 1 # 0
  BY InstallAssumption DEF Content, Partial

-----------------------------------------------------------------------------
(* The inductive invariant.                                                *)

Place ==
    /\ pc # "idle" => run # 0
    /\ pc \in {"note", "move", "clean", "rollback", "restore"} => i \in 1..Len(Order)
    /\ pc = "publish" => i \in 1..Len(Files)
    /\ pc \in {"dirs", "record", "stage", "assign", "note", "move", "publish", "hook", "wait", "verify",
               "abandon", "rollback", "restore", "modes", "rmdirs"} => ~committed
    /\ pc \in {"clean", "finish", "success"} => committed
    /\ pc \in {"dirs", "record", "stage", "assign", "note", "move", "publish", "hook", "wait", "verify",
               "abandon"} => ~disturbed

(* Who may be writing the hook.                                            *)
Hooks ==
    /\ ~astray /\ pc # "wait" => commands = {}
    /\ ~astray /\ pc = "wait" => commands \subseteq {run}

(* The record of an entry says truly how to get the prior one back.        *)
Recoverable(e) ==
    /\ prior.entry[e] = 0 => backup[e] = 0 /\ note[e] # "backup"
    /\ prior.entry[e] # 0 => /\ note[e] # "absent"
                             /\ backup[e] \in {0, prior.entry[e]}
                             /\ backup[e] = 0 => entry[e] = prior.entry[e]
    /\ note[e] = "none" => entry[e] = prior.entry[e] /\ backup[e] = 0

Moved(e) == note[e] # "none" /\ (prior.entry[e] = 0 \/ backup[e] # 0)

(* How far the transaction has come.                                       *)
Forward ==
    /\ ~committed => \A e \in Entry : Minded(e) => Recoverable(e)
    /\ pc \in {"dirs", "record", "stage", "assign", "abandon"} => \A e \in Entry : note[e] = "none"
    /\ pc \in {"note", "move"} => \A n \in 1..Len(Order) :
          /\ n < i /\ Minded(Order[n]) => Moved(Order[n])
          /\ n > i => note[Order[n]] = "none"
    /\ pc = "note" => note[Order[i]] = "none"
    /\ pc = "move" => /\ note[Order[i]] # "none" /\ backup[Order[i]] = 0
                      /\ Minded(Order[i]) => entry[Order[i]] = prior.entry[Order[i]]
    /\ pc \in {"publish", "hook", "wait", "verify"} => \A e \in Entry : Minded(e) => Moved(e)

Restored(e) == backup[e] = 0 /\ (Minded(e) => entry[e] = prior.entry[e])

(* How far the rollback has come.                                          *)
Backward ==
    /\ pc = "restore" => /\ backup[Order[i]] # 0
                         /\ Minded(Order[i]) => entry[Order[i]] = 0
    /\ ~committed /\ ~disturbed =>
          /\ pc \in {"rollback", "restore"} =>
                \A n \in 1..Len(Order) : n > i => Restored(Order[n])
          /\ pc \in {"modes", "unstage", "rmdirs", "failed"} =>
                \A e \in Entry : Restored(e)

(* Stages that are on disk are known to the handler.                       *)
Stages ==
    /\ pc = "rollback" /\ ~disturbed /\ ~stages => stage = {}
    /\ pc \in {"restore", "modes", "unstage"} /\ ~committed /\ ~disturbed /\ ~stages => stage = {}
    /\ pc \in {"dirs", "record", "stage"} => stage = {} /\ ~stages
    /\ pc \in {"note", "move", "publish", "hook", "wait", "verify"} => stages
    /\ pc \in {"rmdirs", "failed"} /\ ~committed /\ ~disturbed => stage = {}

(* The directory and the record of its change.                             *)
Directory ==
    /\ dir = "missing" => /\ prior.dir = "missing"
                         /\ \A e \in Entry : entry[e] = 0 /\ backup[e] = 0
    /\ prior.dir = "missing" => \A e \in Entry : prior.entry[e] = 0
    /\ dirChange = "created" => prior.dir = "missing"
    /\ pc = "dirs" => dirChange = "none" /\ (~astray => dir = prior.dir)
    /\ pc = "record" => prior.dir = "missing"
    /\ pc \in {"record", "stage", "assign", "abandon", "note", "move", "publish", "hook", "wait",
               "verify", "clean", "finish"}
          => dir = "0700"
    /\ ~committed /\ ~disturbed /\ ~astray =>
          /\ pc \in {"stage", "assign", "abandon", "note", "move", "publish", "hook", "wait", "verify",
                     "rollback", "restore", "modes"} =>
                \/ dirChange = "none" /\ dir = prior.dir
                \/ dirChange = "mode" /\ prior.dir = "loose"
                \/ dirChange = "created"
          /\ pc \in {"unstage", "rmdirs"} => dirChange = "created" \/ dir = prior.dir
          /\ pc = "failed" => dir = prior.dir

(* After the commit.                                                       *)
Settled ==
    /\ committed => \A e \in Entry : Minded(e) => entry[e] = IF e \in Active THEN New ELSE 0
    /\ pc = "clean" => \A n \in 1..Len(Order) : n < i => backup[Order[n]] = 0
    /\ pc \in {"finish", "success"} => \A e \in Entry : backup[e] = 0
    /\ pc = "success" => stage = {}

Inv == TypeOK /\ Place /\ Hooks /\ Forward /\ Backward /\ Stages /\ Directory /\ Settled

LEMMA InvInit == Init => Inv
  <1> SUFFICES ASSUME Init PROVE Inv
    OBVIOUS
  <1>1. TypeOK
    <2>1. /\ run \in 0..MaxRuns /\ i \in 0..Len(Order) /\ commands \subseteq 1..run
          /\ entry \in [Entry -> Content] /\ backup \in [Entry -> Content]
      BY OrderFacts DEF Init, Content
    <2> QED
      BY <2>1 DEF Init, TypeOK
  <1>2. Place /\ Hooks /\ Forward /\ Backward
    BY <1>1 DEF Init, Place, Hooks, Forward, Backward, Recoverable, TypeOK
  <1>3. Stages /\ Directory /\ Settled
    BY <1>1 DEF Init, Stages, Directory, Settled, TypeOK
  <1> QED
    BY <1>1, <1>2, <1>3 DEF Inv

-----------------------------------------------------------------------------
(* Steps.                                                                  *)

(* Every step keeps the types.                                             *)
LEMMA TypeOKStep ==
    ASSUME Inv, [Next]_vars
    PROVE  TypeOK'
  <1> USE OrderFacts, ContentFacts DEF Inv, TypeOK, Place, At, tree, records, hooks, vars
  <1>1. CASE Start
    <2>1. run' \in 0..MaxRuns /\ commands' \subseteq 1..run'
      BY <1>1 DEF Start
    <2>2. backup' \in [Entry -> Content] /\ \A e \in Entry : backup'[e] = 0
      BY <1>1 DEF Start
    <2>3. prior' \in [entry : [Entry -> Content], dir : {"missing", "loose", "0700"}]
      BY <1>1 DEF Start
    <2>4. /\ pc' = "dirs" /\ i' = 0 /\ dirChange' = "none" /\ stage' = {}
          /\ note' \in [Entry -> {"none", "absent", "backup"}]
          /\ UNCHANGED tree
      BY <1>1 DEF Start
    <2>5. {stages', committed', disturbed', astray'} \subseteq BOOLEAN
      BY <1>1 DEF Start
    <2>6. i' \in 0..Len(Order) /\ stage' \subseteq Active
      BY <2>4
    <2> QED
      BY ONLY TypeOK, <2>1, <2>2, <2>3, <2>4, <2>5, <2>6 DEF TypeOK, tree
  <1>2. CASE MakeDirectory
    BY <1>2 DEF MakeDirectory
  <1>3. CASE RecordDirectory
    BY <1>3 DEF RecordDirectory
  <1>4. CASE StageArtifacts
    BY <1>4 DEF StageArtifacts
  <1>25. CASE AssignStages
    BY <1>25 DEF AssignStages
  <1>5. CASE NoteEntry
    <2>1. Order[i] \in Entry /\ backup[Order[i]] = 0
      BY <1>5 DEF NoteEntry, Forward
    <2>2. note' \in [Entry -> {"none", "absent", "backup"}]
      BY <1>5 DEF NoteEntry, Note
    <2>3. \A e \in Entry : backup'[e] # 0 => note'[e] = "backup"
      BY <1>5, <2>1 DEF NoteEntry, Note
    <2> QED
      BY <1>5, <2>2, <2>3 DEF NoteEntry
  <1>6. CASE MoveAway
    <2>1. Order[i] \in Entry /\ i \in 1..Len(Order)
      BY <1>6 DEF MoveAway
    <2>2. entry' \in [Entry -> Content]
      BY <1>6, <2>1 DEF MoveAway
    <2>3. backup' \in [Entry -> Content]
      BY <1>6, <2>1 DEF MoveAway
    <2>4. \A e \in Entry : backup'[e] # 0 => note'[e] = "backup"
      BY <1>6, <2>1 DEF MoveAway
    <2>5. i' \in 0..Len(Order) /\ pc' \in {"note", "publish"}
      BY <1>6, <2>1 DEF MoveAway
    <2> QED
      BY <1>6, <2>2, <2>3, <2>4, <2>5 DEF MoveAway
  <1>7. CASE Publish
    <2>1. Files[i] \in Entry /\ New \in Content /\ i \in 1..Len(Files)
      BY <1>7 DEF Publish, New
    <2>2. entry' \in [Entry -> Content]
      BY <1>7, <2>1 DEF Publish
    <2>3. i' \in 0..Len(Order) /\ pc' \in {"publish", "hook"} /\ stage' \subseteq Active
      BY <1>7, <2>1 DEF Publish
    <2> QED
      BY <1>7, <2>2, <2>3 DEF Publish
  <1>8. CASE StartHook
    <2>1. run \in 1..run
      BY <1>8 DEF StartHook
    <2>2. commands' \subseteq 1..run'
      BY <1>8, <2>1 DEF StartHook
    <2> QED
      BY <1>8, <2>2 DEF StartHook
  <1>26. CASE HookInstalled
    BY <1>26 DEF HookInstalled
  <1>9. CASE Commit
    BY <1>9 DEF Commit, Verify
  <1>10. CASE RemoveBackup
    <2>1. Order[i] \in Entry /\ i \in 1..Len(Order)
      BY <1>10 DEF RemoveBackup
    <2>2. backup' \in [Entry -> Content]
      BY <1>10, <2>1 DEF RemoveBackup
    <2>3. \A e \in Entry : backup'[e] # 0 => backup[e] # 0
      BY <1>10, <2>1 DEF RemoveBackup
    <2>4. i' \in 0..Len(Order) /\ pc' \in {"clean", "finish"}
      BY <1>10, <2>1 DEF RemoveBackup
    <2> QED
      BY <1>10, <2>2, <2>3, <2>4 DEF RemoveBackup
  <1>11. CASE Finish
    BY <1>11 DEF Finish
  <1>12. CASE Raise
    <2>1. i' \in 0..Len(Order) /\ pc' \in {"unstage", "rollback"}
      BY <1>12 DEF Raise, Caught
    <2>2. commands' \subseteq 1..run' /\ {disturbed', astray'} \subseteq BOOLEAN
      BY <1>12 DEF Raise
    <2> QED
      BY <1>12, <2>1, <2>2 DEF Raise
  <1>13. CASE RollBack \/ Dismantle
    <2>1. /\ i' \in 0..Len(Order) /\ pc' \in {"rollback", "restore", "modes"}
          /\ UNCHANGED <<run, dir, records, committed, hooks, disturbed, prior>>
      BY <1>13 DEF RollBack, Dismantle, NextBack
    <2>2. \/ entry' = entry
          \/ entry' = [entry EXCEPT ![Order[i]] = 0]
          \/ entry' = [entry EXCEPT ![Order[i]] = Partial]
      BY <1>13 DEF RollBack, Dismantle
    <2>3. entry' \in [Entry -> Content]
      BY <2>2
    <2> QED
      BY <2>1, <2>3
  <1>14. CASE Restore
    <2>1. Order[i] \in Entry /\ i \in 1..Len(Order)
      BY <1>14 DEF Restore
    <2>2. entry' \in [Entry -> Content] /\ backup' \in [Entry -> Content]
      BY <1>14, <2>1 DEF Restore
    <2>3. \A e \in Entry : backup'[e] # 0 => backup[e] # 0
      BY <1>14, <2>1 DEF Restore
    <2>4. i' \in 0..Len(Order) /\ pc' \in {"rollback", "modes"}
      BY <1>14, <2>1 DEF Restore, NextBack
    <2> QED
      BY <1>14, <2>2, <2>3, <2>4 DEF Restore
  <1>15. CASE RestoreModes
    BY <1>15 DEF RestoreModes
  <1>16. CASE Unstage
    BY <1>16 DEF Unstage, CleanupStages, AfterUnstage
  <1>17. CASE RemoveDirectories
    BY <1>17 DEF RemoveDirectories
  <1>18. CASE Disturb
    <2>1. i' \in 0..Len(Order) /\ pc' \in {"rollback", "modes", "unstage", "failed", "rmdirs"}
      BY <1>18 DEF Disturb, NextBack, AfterUnstage, Caught
    <2>2. stage' \subseteq Active
      BY <1>18 DEF Disturb
    <2> QED
      BY <1>18, <2>1, <2>2 DEF Disturb
  <1>19. CASE Kill
    BY <1>19 DEF Kill
  <1>21. CASE StagingFails
    BY <1>21 DEF StagingFails
  <1>22. CASE Abandon
    BY <1>22 DEF Abandon, CleanupStages, Caught
  <1>23. ASSUME NEW r \in commands, CopyHook(r) PROVE TypeOK'
    <2>1. r + 1 \in Content
      BY <1>23
    <2>2. entry' \in [Entry -> Content]
      BY <1>23, <2>1 DEF CopyHook
    <2> QED
      BY <1>23, <2>2 DEF CopyHook
  <1>24. ASSUME NEW r \in commands, EndHook(r) PROVE TypeOK'
    BY <1>24 DEF EndHook
  <1>20. CASE UNCHANGED vars
    BY <1>20
  <1> QED
    BY <1>1, <1>2, <1>3, <1>4, <1>5, <1>6, <1>7, <1>8, <1>9, <1>10, <1>11, <1>12, <1>13, <1>14, <1>15, <1>16, <1>17, <1>18, <1>19, <1>20, <1>21, <1>22, <1>23, <1>24, <1>25, <1>26
       DEF Next, Transaction, Handler

(* Every step keeps the loops in range and the commit in its place.        *)
LEMMA PlaceStep ==
    ASSUME Inv, [Next]_vars
    PROVE  Place'
  <1> USE OrderFacts DEF Inv, Place, At, tree, records, hooks, vars
  <1>1. CASE Start
    BY <1>1 DEF Start, TypeOK
  <1>2. CASE MakeDirectory
    BY <1>2 DEF MakeDirectory
  <1>3. CASE RecordDirectory
    BY <1>3 DEF RecordDirectory
  <1>4. CASE StageArtifacts \/ AssignStages
    BY <1>4 DEF StageArtifacts, AssignStages
  <1>5. CASE NoteEntry
    BY <1>5 DEF NoteEntry, Note
  <1>6. CASE MoveAway
    BY <1>6 DEF MoveAway
  <1>7. CASE Publish
    BY <1>7 DEF Publish, New
  <1>8. CASE StartHook \/ HookInstalled
    BY <1>8 DEF StartHook, HookInstalled
  <1>9. CASE Commit
    BY <1>9 DEF Commit, Verify, New
  <1>10. CASE RemoveBackup
    BY <1>10 DEF RemoveBackup
  <1>11. CASE Finish
    BY <1>11 DEF Finish
  <1>12. CASE Raise
    BY <1>12 DEF Raise, Caught
  <1>13. CASE RollBack
    BY <1>13 DEF RollBack, Replaced, NextBack
  <1>14. CASE Restore
    BY <1>14 DEF Restore, NextBack
  <1>15. CASE RestoreModes
    BY <1>15 DEF RestoreModes
  <1>16. CASE Unstage
    BY <1>16 DEF Unstage, CleanupStages, AfterUnstage
  <1>17. CASE RemoveDirectories
    BY <1>17 DEF RemoveDirectories, Empty
  <1>18. CASE Disturb
    BY <1>18 DEF Disturb, NextBack, AfterUnstage, Caught
  <1>19. CASE Kill
    BY <1>19 DEF Kill
  <1>21. CASE StagingFails \/ Abandon
    BY <1>21 DEF StagingFails, Abandon, CleanupStages, Caught
  <1>22. CASE Dismantle
    BY <1>22 DEF Dismantle
  <1>23. ASSUME NEW r \in commands, CopyHook(r) PROVE Place'
    BY <1>23 DEF CopyHook
  <1>24. ASSUME NEW r \in commands, EndHook(r) PROVE Place'
    BY <1>24 DEF EndHook
  <1>20. CASE UNCHANGED vars
    BY <1>20
  <1> QED
    BY <1>1, <1>2, <1>3, <1>4, <1>5, <1>6, <1>7, <1>8, <1>9, <1>10, <1>11, <1>12, <1>13, <1>14, <1>15, <1>16, <1>17, <1>18, <1>19, <1>20, <1>21, <1>22, <1>23, <1>24 DEF Next, Transaction, Handler

(* Who may be writing the hook stays known.                                *)
LEMMA HooksStep ==
    ASSUME Inv, [Next]_vars
    PROVE  Hooks'
  <1> USE DEF Inv, TypeOK, Place, Hooks, At, tree, records, hooks, vars
  <1>1. CASE Start
    BY <1>1 DEF Start
  <1>2. CASE Transaction /\ ~StartHook /\ ~HookInstalled
    <2>1. UNCHANGED hooks /\ pc # "wait" /\ pc' # "wait"
      BY <1>2 DEF Transaction, MakeDirectory, RecordDirectory, StageArtifacts, AssignStages, NoteEntry,
           MoveAway, Publish, Commit, Verify, RemoveBackup, Finish
    <2> QED
      BY <2>1
  <1>3. CASE StartHook
    BY <1>3 DEF StartHook
  <1>9. CASE HookInstalled
    <2>1. UNCHANGED <<run, commands, astray>> /\ pc = "wait" /\ pc' = "verify" /\ run \notin commands
      BY <1>9 DEF HookInstalled
    <2>2. ~astray => commands = {}
      BY <2>1
    <2> QED
      BY <2>1, <2>2
  <1>4. CASE Raise
    <2>1. commands' \subseteq commands /\ pc' # "wait"
      BY <1>4 DEF Raise, Caught
    <2>2. ~astray' => ~astray /\ run \notin commands'
      BY <1>4 DEF Raise
    <2>3. ~astray => commands \subseteq {run}
      OBVIOUS
    <2>4. ~astray' => commands' = {}
      BY <2>1, <2>2, <2>3
    <2> QED
      BY <2>1, <2>4
  <1>5. CASE StagingFails \/ Handler \/ Disturb
    <2>1. UNCHANGED hooks /\ pc # "wait" /\ pc' # "wait"
      BY <1>5 DEF StagingFails, Handler, Abandon, RollBack, Dismantle, Restore, RestoreModes, Unstage,
           RemoveDirectories, Disturb, NextBack, AfterUnstage, Caught
    <2> QED
      BY <2>1
  <1>6. CASE Kill
    <2>1. /\ commands' = commands /\ pc' # "wait"
          /\ ~astray' => ~astray /\ run \notin commands
      BY <1>6 DEF Kill
    <2> QED
      BY <2>1
  <1>7. ASSUME NEW r \in commands, CopyHook(r) \/ EndHook(r) PROVE Hooks'
    BY <1>7 DEF CopyHook, EndHook
  <1>8. CASE UNCHANGED vars
    BY <1>8
  <1> QED
    BY <1>1, <1>2, <1>3, <1>4, <1>5, <1>6, <1>7, <1>8, <1>9 DEF Next

(* The stages on disk stay known.                                          *)
LEMMA StagesStep ==
    ASSUME Inv, [Next]_vars
    PROVE  Stages'
  <1> USE DEF Inv, Place, Stages, At, tree, records, hooks, vars
  <1>1. CASE Start
    BY <1>1 DEF Start
  <1>2. CASE Transaction
    BY <1>2 DEF Transaction, MakeDirectory, RecordDirectory, StageArtifacts, AssignStages, NoteEntry,
         MoveAway, Publish, StartHook, HookInstalled, Commit, Verify, RemoveBackup, Finish
  <1>3. CASE Raise \/ StagingFails
    BY <1>3 DEF Raise, StagingFails, Caught
  <1>4. CASE Handler
    BY <1>4 DEF Handler, Abandon, RollBack, Dismantle, Restore, RestoreModes, Unstage, CleanupStages,
         RemoveDirectories, NextBack, AfterUnstage, Caught
  <1>5. CASE Disturb \/ Kill
    BY <1>5 DEF Disturb, Kill, NextBack, AfterUnstage, Caught
  <1>6. ASSUME NEW r \in commands, CopyHook(r) \/ EndHook(r) PROVE Stages'
    BY <1>6 DEF CopyHook, EndHook
  <1>7. CASE UNCHANGED vars
    BY <1>7
  <1> QED
    BY <1>1, <1>2, <1>3, <1>4, <1>5, <1>6, <1>7 DEF Next

(* Every step keeps the records true.                                      *)
LEMMA ForwardStep ==
    ASSUME Inv, [Next]_vars
    PROVE  Forward'
  <1> USE OrderFacts DEF Inv, TypeOK, Hooks, Minded, Place, Forward, Recoverable, Moved, Backward, At, tree, records, hooks, vars
  <1>1. CASE Start
    BY <1>1 DEF Start
  <1>2. CASE MakeDirectory
    BY <1>2 DEF MakeDirectory
  <1>3. CASE RecordDirectory
    BY <1>3 DEF RecordDirectory
  <1>4. CASE StageArtifacts \/ AssignStages
    BY <1>4 DEF StageArtifacts, AssignStages
  <1>5. CASE NoteEntry
    BY <1>5 DEF NoteEntry, Note
  <1>6. CASE MoveAway
    <2>0. i \in 1..Len(Order) /\ Order[i] \in Entry
      BY <1>6 DEF MoveAway
    <2> PICK o \in Entry : o = Order[i]
      BY <2>0
    <2>1. /\ ~committed /\ note[o] # "none" /\ backup[o] = 0
          /\ Minded(o) => entry[o] = prior.entry[o] /\ Recoverable(o)
      BY <1>6 DEF MoveAway
    <2>2. UNCHANGED <<note, prior, committed, astray>>
      BY <1>6 DEF MoveAway
    <2>3. \A e \in Entry : e # o => entry'[e] = entry[e] /\ backup'[e] = backup[e]
      BY <1>6, <2>0 DEF MoveAway
    <2>4. Minded(o) => Moved(o)' /\ Recoverable(o)'
      <3>1. CASE note[o] = "backup"
        <4>1. entry'[o] = 0 /\ backup'[o] = entry[o]
          BY <1>6, <2>0, <3>1 DEF MoveAway
        <4> QED
          BY <2>1, <2>2, <3>1, <4>1
      <3>2. CASE note[o] = "absent"
        <4>1. entry'[o] = entry[o] /\ backup'[o] = backup[o]
          BY <1>6, <3>2 DEF MoveAway
        <4> QED
          BY <2>1, <2>2, <3>2, <4>1
      <3> QED
        BY <2>1, <3>1, <3>2
    <2>5. \A e \in Entry : Minded(e)' => Recoverable(e)'
      BY <2>1, <2>2, <2>3, <2>4
    <2>6. \A n \in 1..Len(Order) :
             /\ n <= i /\ Minded(Order[n])' => Moved(Order[n])'
             /\ n > i => note'[Order[n]] = "none"
      <3> TAKE n \in 1..Len(Order)
      <3>1. CASE n < i
        <4>1. Order[n] \in Entry /\ Order[n] # o /\ (Minded(Order[n]) => Moved(Order[n]))
          BY <1>6, <2>0, <3>1 DEF MoveAway
        <4> QED
          BY <2>2, <2>3, <3>1, <4>1
      <3>2. CASE n = i
        BY <2>0, <2>2, <2>4, <3>2
      <3>3. CASE n > i
        BY <1>6, <2>0, <2>2, <3>3 DEF MoveAway
      <3> QED
        BY <2>0, <3>1, <3>2, <3>3
    <2>7. CASE i < Len(Order)
      <3>1. pc' = "note" /\ i' = i + 1 /\ i + 1 \in 1..Len(Order)
        BY <1>6, <2>0, <2>7 DEF MoveAway
      <3>2. /\ \A n \in 1..Len(Order) :
                  /\ n < i' /\ Minded(Order[n])' => Moved(Order[n])'
                  /\ n > i' => note'[Order[n]] = "none"
            /\ note'[Order[i']] = "none"
        BY <2>0, <2>6, <3>1
      <3> HIDE DEF Minded, Recoverable, Moved
      <3> QED
        BY <2>2, <2>5, <3>1, <3>2
    <2>8. CASE i = Len(Order)
      <3>1. pc' = "publish"
        BY <1>6, <2>8 DEF MoveAway
      <3>2. ASSUME NEW e \in Entry, Minded(e)' PROVE Moved(e)'
        <4> PICK n \in 1..Len(Order) : Order[n] = e
          BY ONLY OrderFacts, <3>2
        <4>1. n <= i
          BY <2>8
        <4> QED
          BY <2>6, <3>2, <4>1
      <3> HIDE DEF Minded, Recoverable, Moved
      <3> QED
        BY <2>5, <3>1, <3>2
    <2> QED
      BY <2>0, <2>7, <2>8
  <1>7. CASE Publish
    BY <1>7 DEF Publish, New
  <1>8. CASE StartHook \/ HookInstalled
    BY <1>8 DEF StartHook, HookInstalled
  <1>9. CASE Commit
    BY <1>9 DEF Commit, Verify, New
  <1>10. CASE RemoveBackup
    BY <1>10 DEF RemoveBackup
  <1>11. CASE Finish
    BY <1>11 DEF Finish
  <1>12. CASE Raise
    BY <1>12 DEF Raise, Caught
  <1>13. CASE RollBack \/ Dismantle
    <2>0. i \in 1..Len(Order) /\ Order[i] \in Entry
      BY <1>13 DEF RollBack, Dismantle
    <2> PICK o \in Entry : o = Order[i]
      BY <2>0
    <2>1. /\ ~committed /\ (Minded(o) => Recoverable(o))
          /\ UNCHANGED <<note, backup, prior, committed, astray>>
          /\ pc' \in {"restore", "rollback", "modes"}
      BY <1>13 DEF RollBack, Dismantle, NextBack
    <2>2. \/ entry' = entry
          \/ Replaced(o) /\ \A e \in Entry : e # o => entry'[e] = entry[e]
      BY <1>13 DEF RollBack, Dismantle
    <2>3. Minded(o) => (Recoverable(o)' \/ entry' = entry)
      BY <2>1, <2>2 DEF Replaced
    <2>4. \A e \in Entry : Minded(e)' => Recoverable(e)'
      BY <2>1, <2>2, <2>3
    <2> QED
      BY <2>1, <2>4
  <1>14. CASE Restore
    BY SMTT(30), <1>14 DEF Restore, NextBack
  <1>15. CASE RestoreModes
    BY <1>15 DEF RestoreModes
  <1>16. CASE Unstage
    BY <1>16 DEF Unstage, CleanupStages, AfterUnstage
  <1>17. CASE RemoveDirectories
    BY <1>17 DEF RemoveDirectories, Empty
  <1>18. CASE Disturb
    BY <1>18 DEF Disturb, NextBack, AfterUnstage, Caught
  <1>19. CASE Kill
    BY <1>19 DEF Kill
  <1>21. CASE StagingFails \/ Abandon
    BY <1>21 DEF StagingFails, Abandon, CleanupStages, Caught
  <1>23. ASSUME NEW r \in commands, CopyHook(r) PROVE Forward'
    BY <1>23 DEF CopyHook
  <1>24. ASSUME NEW r \in commands, EndHook(r) PROVE Forward'
    BY <1>24 DEF EndHook
  <1>20. CASE UNCHANGED vars
    BY <1>20
  <1> QED
    BY <1>1, <1>2, <1>3, <1>4, <1>5, <1>6, <1>7, <1>8, <1>9, <1>10, <1>11, <1>12, <1>13, <1>14, <1>15, <1>16, <1>17, <1>18, <1>19, <1>20, <1>21, <1>23, <1>24 DEF Next, Transaction, Handler

(* Every step keeps what is restored.                                      *)
LEMMA BackwardStep ==
    ASSUME Inv, [Next]_vars
    PROVE  Backward'
  <1> USE OrderFacts DEF Inv, TypeOK, Hooks, Minded, Place, Forward, Recoverable, Backward, Restored, At, tree, records, hooks, vars
  <1>1. CASE Start
    BY <1>1 DEF Start
  <1>2. CASE MakeDirectory
    BY <1>2 DEF MakeDirectory
  <1>3. CASE RecordDirectory
    BY <1>3 DEF RecordDirectory
  <1>4. CASE StageArtifacts \/ AssignStages
    BY <1>4 DEF StageArtifacts, AssignStages
  <1>5. CASE NoteEntry
    BY <1>5 DEF NoteEntry, Note
  <1>6. CASE MoveAway
    BY <1>6 DEF MoveAway
  <1>7. CASE Publish
    BY <1>7 DEF Publish, New
  <1>8. CASE StartHook \/ HookInstalled
    BY <1>8 DEF StartHook, HookInstalled
  <1>9. CASE Commit
    BY <1>9 DEF Commit, Verify, New
  <1>10. CASE RemoveBackup
    BY <1>10 DEF RemoveBackup
  <1>11. CASE Finish
    BY <1>11 DEF Finish
  <1>12. CASE Raise
    BY <1>12 DEF Raise, Caught
  <1>13. CASE RollBack
    <2>0. i \in 1..Len(Order) /\ Order[i] \in Entry
      BY <1>13 DEF RollBack
    <2> PICK o \in Entry : o = Order[i]
      BY <2>0
    <2>1. /\ ~committed /\ (Minded(o) => Recoverable(o))
          /\ UNCHANGED <<note, backup, prior, committed, disturbed, stage, astray>>
      BY <1>13 DEF RollBack
    <2>2. CASE Replaced(o) /\ backup[o] # 0
      <3>1. pc' = "restore" /\ i' = i /\ entry' = [entry EXCEPT ![o] = 0]
        BY <1>13, <2>2 DEF RollBack
      <3>2. entry'[o] = 0 /\ \A e \in Entry : e # o => entry'[e] = entry[e]
        BY <2>0, <3>1
      <3>3. ASSUME ~disturbed, NEW n \in 1..Len(Order), n > i PROVE Restored(Order[n])'
        <4>1. Order[n] # o /\ Order[n] \in Entry /\ Restored(Order[n])
          BY <1>13, <2>0, <2>1, <3>3 DEF RollBack
        <4> QED
          BY <2>1, <3>2, <4>1
      <3>4. backup'[Order[i']] # 0 /\ entry'[Order[i']] = 0
        BY <2>0, <2>1, <2>2, <3>1, <3>2
      <3> HIDE DEF Restored, Minded, Recoverable
      <3> QED
        BY <2>1, <3>1, <3>3, <3>4
    <2>3. CASE ~(Replaced(o) /\ backup[o] # 0)
      <3>1. NextBack
        BY <1>13, <2>3 DEF RollBack
      <3>2. Restored(o)'
        <4>1. backup[o] = 0
          BY <1>13, <2>1, <2>3 DEF RollBack, Replaced
        <4>2. Minded(o) => entry'[o] = prior.entry[o]
          BY <1>13, <2>0, <2>1, <2>3, <4>1 DEF RollBack, Replaced
        <4> QED
          BY <2>1, <4>1, <4>2
      <3>3. \A e \in Entry : e # o => entry'[e] = entry[e]
        BY SMTT(30), <1>13, <2>1 DEF RollBack
      <3>4. ASSUME ~disturbed, NEW n \in 1..Len(Order), n >= i PROVE Restored(Order[n])'
        <4>1. CASE n = i
          BY <3>2, <4>1
        <4>2. CASE n > i
          <5>1. Order[n] # o /\ Order[n] \in Entry /\ Restored(Order[n])
            BY <1>13, <2>0, <2>1, <3>4, <4>2 DEF RollBack
          <5> QED
            BY <2>1, <3>3, <5>1
        <4> QED
          BY <2>1, <3>4, <4>1, <4>2
      <3>5. CASE i > 1
        <4>1. pc' = "rollback" /\ i' = i - 1
          BY <3>1, <3>5 DEF NextBack
        <4>2. ~disturbed => \A n \in 1..Len(Order) : n > i' => Restored(Order[n])'
          BY <2>0, <3>4, <4>1
        <4> HIDE DEF Restored, Minded, Recoverable
        <4> QED
          BY <2>1, <4>1, <4>2
      <3>6. CASE i = 1
        <4>1. ~disturbed => \A e \in Entry : Restored(e)'
          BY <3>4, <3>6
        <4> QED
          BY <2>0, <2>1, <3>1, <3>6, <4>1 DEF NextBack
      <3> QED
        BY <2>0, <3>5, <3>6
    <2> QED
      BY <2>2, <2>3
  <1>14. CASE Restore
    <2>0. i \in 1..Len(Order) /\ Order[i] \in Entry
      BY <1>14 DEF Restore
    <2> PICK o \in Entry : o = Order[i]
      BY <2>0
    <2>1. /\ ~committed /\ backup[o] # 0 /\ (Minded(o) => Recoverable(o))
          /\ UNCHANGED <<note, prior, committed, disturbed, stage, astray>> /\ NextBack
      BY <1>14 DEF Restore
    <2>2. /\ entry'[o] = backup[o] /\ backup'[o] = 0
          /\ \A e \in Entry : e # o => entry'[e] = entry[e] /\ backup'[e] = backup[e]
      BY <1>14, <2>0 DEF Restore
    <2>3. Restored(o)'
      BY <2>1, <2>2
    <2>4. ASSUME ~disturbed, NEW n \in 1..Len(Order), n >= i PROVE Restored(Order[n])'
      <3>1. CASE n = i
        BY <2>3, <3>1
      <3>2. CASE n > i
        <4>1. Order[n] # o /\ Order[n] \in Entry /\ Restored(Order[n])
          BY <1>14, <2>0, <2>1, <2>4, <3>2 DEF Restore
        <4> QED
          BY <2>1, <2>2, <4>1
      <3> QED
        BY <2>0, <2>4, <3>1, <3>2
    <2>5. CASE i > 1
      BY <2>0, <2>1, <2>4, <2>5 DEF NextBack
    <2>6. CASE i = 1
      <3>1. ~disturbed => \A e \in Entry : Restored(e)'
        BY <2>4, <2>6
      <3> QED
        BY <2>0, <2>1, <2>6, <3>1 DEF NextBack
    <2> QED
      BY <2>0, <2>5, <2>6
  <1>15. CASE RestoreModes
    BY <1>15 DEF RestoreModes
  <1>16. CASE Unstage
    BY <1>16 DEF Unstage, CleanupStages, AfterUnstage
  <1>17. CASE RemoveDirectories
    BY <1>17 DEF RemoveDirectories, Empty
  <1>18. CASE Disturb
    BY <1>18 DEF Disturb, NextBack, AfterUnstage, Caught
  <1>19. CASE Kill
    BY <1>19 DEF Kill
  <1>21. CASE StagingFails \/ Abandon
    BY <1>21 DEF StagingFails, Abandon, CleanupStages, Caught
  <1>22. CASE Dismantle
    BY <1>22 DEF Dismantle
  <1>23. ASSUME NEW r \in commands, CopyHook(r) PROVE Backward'
    BY <1>23 DEF CopyHook
  <1>24. ASSUME NEW r \in commands, EndHook(r) PROVE Backward'
    BY <1>24 DEF EndHook
  <1>20. CASE UNCHANGED vars
    BY <1>20
  <1> QED
    BY <1>1, <1>2, <1>3, <1>4, <1>5, <1>6, <1>7, <1>8, <1>9, <1>10, <1>11, <1>12, <1>13, <1>14, <1>15, <1>16, <1>17, <1>18, <1>19, <1>20, <1>21, <1>22, <1>23, <1>24 DEF Next, Transaction, Handler

(* Every step keeps the record of the directory true.                      *)
LEMMA DirectoryStep ==
    ASSUME Inv, [Next]_vars
    PROVE  Directory'
  <1> USE OrderFacts DEF Inv, TypeOK, Hooks, Minded, Place, Forward, Recoverable, Backward, Restored, Directory, At, tree, records, hooks, vars
  <1>1. CASE Start
    BY <1>1 DEF Start
  <1>2. CASE MakeDirectory
    BY <1>2 DEF MakeDirectory
  <1>3. CASE RecordDirectory
    BY <1>3 DEF RecordDirectory
  <1>4. CASE StageArtifacts \/ AssignStages
    BY <1>4 DEF StageArtifacts, AssignStages
  <1>5. CASE NoteEntry
    BY <1>5 DEF NoteEntry, Note
  <1>6. CASE MoveAway
    BY <1>6 DEF MoveAway
  <1>7. CASE Publish
    BY <1>7 DEF Publish, New
  <1>8. CASE StartHook \/ HookInstalled
    BY <1>8 DEF StartHook, HookInstalled
  <1>9. CASE Commit
    BY <1>9 DEF Commit, Verify, New
  <1>10. CASE RemoveBackup
    BY <1>10 DEF RemoveBackup
  <1>11. CASE Finish
    BY <1>11 DEF Finish
  <1>12. CASE Raise
    <2>1. /\ pc' = IF committed THEN "unstage" ELSE "rollback"
          /\ UNCHANGED <<entry, dir, dirChange, backup, prior, committed>>
      BY <1>12 DEF Raise, Caught
    <2>2. /\ ~disturbed' => pc \notin {"record", "assign"}
          /\ ~astray' => ~astray
      BY <1>12 DEF Raise
    <2>3. CASE committed
      BY <2>1, <2>3
    <2>4. CASE ~committed /\ pc \in {"record", "assign"}
      BY <2>1, <2>2, <2>4
    <2>5. CASE ~committed /\ pc \notin {"record", "assign"}
      <3>1. pc \in {"dirs", "note", "move", "publish", "hook", "wait", "verify"} /\ ~disturbed
        BY <1>12, <2>5 DEF Raise
      <3> QED
        BY <2>1, <2>2, <2>5, <3>1
    <2> QED
      BY <2>3, <2>4, <2>5
  <1>13. CASE RollBack
    <2>1. /\ UNCHANGED <<dir, dirChange, backup, prior, committed, disturbed, astray>>
          /\ pc' \in {"rollback", "restore", "modes"}
      BY <1>13 DEF RollBack, NextBack
    <2>2. entry' = entry \/ entry' = [entry EXCEPT ![Order[i]] = 0]
      BY <1>13 DEF RollBack
    <2>3. (\A e \in Entry : entry[e] = 0) => \A e \in Entry : entry'[e] = 0
      BY <2>2
    <2>4. pc = "rollback" /\ ~committed
      BY <1>13 DEF RollBack
    <2> QED
      BY <2>1, <2>3, <2>4
  <1>14. CASE Restore
    <2>1. /\ UNCHANGED <<dir, dirChange, prior, committed, disturbed, astray>>
          /\ pc' \in {"rollback", "modes"}
      BY <1>14 DEF Restore, NextBack
    <2>2. pc = "restore" /\ ~committed /\ dir # "missing"
      BY <1>14 DEF Restore
    <2> QED
      BY <2>1, <2>2
  <1>15. CASE RestoreModes
    BY <1>15 DEF RestoreModes
  <1>16. CASE Unstage
    BY <1>16 DEF Unstage, AfterUnstage
  <1>17. CASE RemoveDirectories
    <2>1. /\ UNCHANGED <<entry, dirChange, backup, prior, committed, disturbed, astray>>
          /\ pc = "rmdirs" /\ pc' = "failed" /\ ~committed
          /\ dir' = IF dirChange = "created" /\ Empty THEN "missing" ELSE dir
      BY <1>17 DEF RemoveDirectories
    <2>2. dirChange = "created" /\ ~disturbed /\ ~astray => Empty
      <3>1. SUFFICES ASSUME dirChange = "created", ~disturbed, ~astray PROVE Empty
        OBVIOUS
      <3>2. stage = {}
        BY <2>1, <3>1 DEF Stages
      <3>3. \A e \in Entry : Restored(e)
        BY <2>1, <3>1
      <3> QED
        BY <3>1, <3>2, <3>3 DEF Empty
    <2>3. Empty => \A e \in Entry : entry[e] = 0 /\ backup[e] = 0
      BY DEF Empty
    <2> QED
      BY <2>1, <2>2, <2>3
  <1>18. CASE Disturb
    BY <1>18 DEF Disturb, NextBack, AfterUnstage, Caught
  <1>19. CASE Kill
    BY <1>19 DEF Kill
  <1>21. CASE StagingFails \/ Abandon
    BY <1>21 DEF StagingFails, Abandon, CleanupStages, Caught
  <1>22. CASE Dismantle
    <2>1. /\ UNCHANGED <<pc, dir, dirChange, backup, prior, committed, disturbed, astray>>
          /\ pc = "rollback" /\ dir # "missing"
      BY <1>22 DEF Dismantle
    <2> QED
      BY <2>1
  <1>23. ASSUME NEW r \in commands, CopyHook(r) PROVE Directory'
    BY <1>23 DEF CopyHook
  <1>24. ASSUME NEW r \in commands, EndHook(r) PROVE Directory'
    BY <1>24 DEF EndHook
  <1>20. CASE UNCHANGED vars
    BY <1>20
  <1> QED
    BY <1>1, <1>2, <1>3, <1>4, <1>5, <1>6, <1>7, <1>8, <1>9, <1>10, <1>11, <1>12, <1>13, <1>14, <1>15, <1>16, <1>17, <1>18, <1>19, <1>20, <1>21, <1>22, <1>23, <1>24 DEF Next, Transaction, Handler

(* Every step keeps what was committed.                                    *)
LEMMA SettledStep ==
    ASSUME Inv, [Next]_vars
    PROVE  Settled'
  <1> USE OrderFacts DEF Inv, TypeOK, Hooks, Minded, Place, Settled, New, At, tree, records, hooks, vars
  <1>1. CASE Start
    BY <1>1 DEF Start
  <1>2. CASE MakeDirectory
    BY <1>2 DEF MakeDirectory
  <1>3. CASE RecordDirectory
    BY <1>3 DEF RecordDirectory
  <1>4. CASE StageArtifacts \/ AssignStages
    BY <1>4 DEF StageArtifacts, AssignStages
  <1>5. CASE NoteEntry
    BY <1>5 DEF NoteEntry, Note
  <1>6. CASE MoveAway
    BY <1>6 DEF MoveAway
  <1>7. CASE Publish
    BY <1>7 DEF Publish, New
  <1>8. CASE StartHook \/ HookInstalled
    BY <1>8 DEF StartHook, HookInstalled
  <1>9. CASE Commit
    BY <1>9 DEF Commit, Verify, New
  <1>10. CASE RemoveBackup
    <2>1. /\ Order[i] \in Entry /\ i \in 1..Len(Order) /\ pc = "clean"
          /\ UNCHANGED <<run, entry, stage, committed, astray>>
      BY <1>10 DEF RemoveBackup
    <2>2. \A n \in 1..Len(Order) : n < i => backup'[Order[n]] = 0
      BY <1>10, <2>1 DEF RemoveBackup
    <2>3. CASE pc' = "clean" /\ i' = i
      BY <2>1, <2>2, <2>3
    <2>4. CASE i < Len(Order) /\ pc' = "clean" /\ i' = i + 1 /\ backup' = [backup EXCEPT ![Order[i]] = 0]
      <3>1. \A n \in 1..Len(Order) : n < i' => n < i \/ n = i
        BY <2>1, <2>4
      <3>2. \A n \in 1..Len(Order) : n < i' => backup'[Order[n]] = 0
        BY <2>1, <2>2, <2>4, <3>1
      <3> QED
        BY <2>1, <2>4, <3>2
    <2>5. CASE i = Len(Order) /\ pc' = "finish" /\ backup' = [backup EXCEPT ![Order[i]] = 0]
      <3>1. \A n \in 1..Len(Order) : n < i \/ n = i
        BY <2>1, <2>5
      <3>2. \A n \in 1..Len(Order) : backup'[Order[n]] = 0
        BY <2>1, <2>2, <2>5, <3>1
      <3>3. \A e \in Entry : backup'[e] = 0
        BY <3>2
      <3> QED
        BY <2>1, <2>5, <3>3
    <2> QED
      BY <1>10, <2>1, <2>3, <2>4, <2>5 DEF RemoveBackup
  <1>11. CASE Finish
    BY <1>11 DEF Finish
  <1>12. CASE Raise
    BY <1>12 DEF Raise, Caught
  <1>13. CASE RollBack
    BY <1>13 DEF RollBack, Replaced, NextBack
  <1>14. CASE Restore
    BY <1>14 DEF Restore, NextBack
  <1>15. CASE RestoreModes
    BY <1>15 DEF RestoreModes
  <1>16. CASE Unstage
    BY <1>16 DEF Unstage, CleanupStages, AfterUnstage
  <1>17. CASE RemoveDirectories
    BY <1>17 DEF RemoveDirectories, Empty
  <1>18. CASE Disturb
    BY <1>18 DEF Disturb, NextBack, AfterUnstage, Caught
  <1>19. CASE Kill
    BY <1>19 DEF Kill
  <1>21. CASE StagingFails \/ Abandon
    BY <1>21 DEF StagingFails, Abandon, CleanupStages, Caught
  <1>22. CASE Dismantle
    BY <1>22 DEF Dismantle
  <1>23. ASSUME NEW r \in commands, CopyHook(r) PROVE Settled'
    BY <1>23 DEF CopyHook
  <1>24. ASSUME NEW r \in commands, EndHook(r) PROVE Settled'
    BY <1>24 DEF EndHook
  <1>20. CASE UNCHANGED vars
    BY <1>20
  <1> QED
    BY <1>1, <1>2, <1>3, <1>4, <1>5, <1>6, <1>7, <1>8, <1>9, <1>10, <1>11, <1>12, <1>13, <1>14, <1>15, <1>16, <1>17, <1>18, <1>19, <1>20, <1>21, <1>22, <1>23, <1>24 DEF Next, Transaction, Handler

LEMMA InvStep ==
    ASSUME Inv, [Next]_vars
    PROVE  Inv'
  BY TypeOKStep, PlaceStep, HooksStep, ForwardStep, BackwardStep, StagesStep, DirectoryStep, SettledStep
     DEF Inv

LEMMA InvAlways == Spec => []Inv
  BY InvInit, InvStep, PTL DEF Spec

-----------------------------------------------------------------------------
(* The theorems.                                                           *)

(* All variables have their types; a backup is always a recorded one.      *)
THEOREM InstallIsTyped == Spec => []TypeOK
  <1>1. Inv => TypeOK
    BY DEF Inv
  <1> QED
    BY <1>1, InvAlways, PTL

(* A run that ends before its commit leaves the exact tree it found, for   *)
(* any number of entries (install.sh:489-501, 600-623).                    *)
THEOREM RollbackIsExact == Spec => []RollbackRestores
  <1>1. ASSUME Inv PROVE RollbackRestores
    <2>1. ASSUME pc = "failed", ~committed, ~disturbed
          PROVE  /\ \A e \in Entry : Restored(e)
                 /\ ~astray => dir = prior.dir
                 /\ stage = {}
      BY <1>1, <2>1 DEF Inv, Backward, Directory, Stages
    <2> QED
      BY <2>1 DEF Restored, RollbackRestores
  <1> QED
    BY <1>1, InvAlways, PTL

(* From the commit on the product is complete, whatever happens            *)
(* (install.sh:594-599).                                                   *)
THEOREM CommitIsComplete == Spec => []CommittedIsComplete
  <1>1. Inv => CommittedIsComplete
    BY DEF Inv, Place, Settled, CommittedIsComplete
  <1> QED
    BY <1>1, InvAlways, PTL

(* Until the commit no prior entry is lost, to whatever failure, signal or *)
(* kill (install.sh:489-501, 560-571).                                     *)
THEOREM InstallLosesNothing == Spec => []NothingLost
  <1>1. Inv => NothingLost
    BY DEF Inv, Forward, Recoverable, NothingLost
  <1> QED
    BY <1>1, InvAlways, PTL

-----------------------------------------------------------------------------
(* The refinement: the run is an atomic update of the tree.                *)

(* Until the commit every entry is as it was, absent or as it will be, and *)
(* the directory as it was or closed.                                      *)
Mixture ==
    /\ ~committed => \A e \in Entry : Minded(e) =>
          entry[e] \in {prior.entry[e], 0, IF e \in Active THEN New ELSE 0}
                          \cup (IF e \in Trees \cup {Hook} THEN {Partial} ELSE {})
    /\ ~committed /\ ~astray => dir \in {prior.dir, "0700"}
    /\ dirChange = "mode" /\ ~astray => prior.dir = "loose"

LEMMA MixtureStep ==
    ASSUME Inv, Mixture, [Next]_vars
    PROVE  Mixture'
  <1> USE OrderFacts DEF Inv, TypeOK, Hooks, Minded, Place, Mixture, New, At, tree, records, hooks, vars
  <1>1. CASE Start
    BY <1>1 DEF Start
  <1>2. CASE MakeDirectory
    BY <1>2 DEF MakeDirectory, Directory
  <1>3. CASE RecordDirectory
    BY <1>3 DEF RecordDirectory
  <1>4. CASE StageArtifacts \/ AssignStages
    BY <1>4 DEF StageArtifacts, AssignStages
  <1>5. CASE NoteEntry
    BY <1>5 DEF NoteEntry, Note
  <1>6. CASE MoveAway
    BY <1>6 DEF MoveAway
  <1>7. CASE Publish
    BY <1>7 DEF Publish
  <1>8. CASE StartHook \/ HookInstalled
    BY <1>8 DEF StartHook, HookInstalled
  <1>9. CASE Commit
    BY <1>9 DEF Commit
  <1>10. CASE RemoveBackup
    BY <1>10 DEF RemoveBackup
  <1>11. CASE Finish
    BY <1>11 DEF Finish
  <1>12. CASE Raise
    BY <1>12 DEF Raise
  <1>13. CASE RollBack
    <2>1. entry' = entry \/ entry' = [entry EXCEPT ![Order[i]] = 0]
      BY <1>13 DEF RollBack
    <2>2. \A e \in Entry : entry'[e] \in {entry[e], 0}
      BY <2>1
    <2>3. UNCHANGED <<run, dir, dirChange, committed, astray, prior>>
      BY <1>13 DEF RollBack
    <2> QED
      BY <2>2, <2>3
  <1>14. CASE Restore
    <2>1. /\ Order[i] \in Entry /\ backup[Order[i]] # 0 /\ ~committed
          /\ Minded(Order[i]) => backup[Order[i]] = prior.entry[Order[i]]
      BY <1>14 DEF Restore, Backward, Forward, Recoverable
    <2>2. /\ UNCHANGED <<run, dir, dirChange, committed, astray, prior>>
          /\ entry'[Order[i]] = backup[Order[i]]
          /\ \A e \in Entry : e # Order[i] => entry'[e] = entry[e]
      BY <1>14, <2>1 DEF Restore
    <2> QED
      BY <2>1, <2>2
  <1>15. CASE RestoreModes
    BY <1>15 DEF RestoreModes
  <1>16. CASE Unstage
    BY <1>16 DEF Unstage
  <1>17. CASE RemoveDirectories
    BY <1>17 DEF RemoveDirectories, Directory
  <1>18. CASE Disturb
    BY <1>18 DEF Disturb
  <1>19. CASE Kill
    BY <1>19 DEF Kill
  <1>21. CASE StagingFails \/ Abandon
    BY <1>21 DEF StagingFails, Abandon, CleanupStages, Caught
  <1>22. CASE Dismantle
    <2>1. /\ UNCHANGED <<run, dir, dirChange, committed, astray, prior>>
          /\ Order[i] \in Trees
          /\ \A e \in Entry : entry'[e] = entry[e] \/ (e = Order[i] /\ entry'[e] = Partial)
      BY <1>22 DEF Dismantle
    <2> QED
      BY <2>1
  <1>23. ASSUME NEW r \in commands, CopyHook(r) PROVE Mixture'
    <2>1. /\ UNCHANGED <<run, dirChange, committed, astray, prior>>
          /\ \A e \in Entry : e # Hook => entry'[e] = entry[e]
          /\ entry'[Hook] \in {Partial, r + 1}
      BY <1>23 DEF CopyHook
    <2>2. ~astray => r = run /\ pc = "wait"
      BY <1>23
    <2>3. ~astray => dir' = dir
      BY <1>23, <2>2 DEF CopyHook, Directory
    <2>4. Hook \in Active
      BY DEF Active
    <2> QED
      BY <2>1, <2>2, <2>3, <2>4
  <1>24. ASSUME NEW r \in commands, EndHook(r) PROVE Mixture'
    BY <1>24 DEF EndHook
  <1>20. CASE UNCHANGED vars
    BY <1>20
  <1> QED
    BY <1>1, <1>2, <1>3, <1>4, <1>5, <1>6, <1>7, <1>8, <1>9, <1>10, <1>11, <1>12, <1>13, <1>14, <1>15, <1>16, <1>17, <1>18, <1>19, <1>20, <1>21, <1>22, <1>23, <1>24 DEF Next, Transaction, Handler

(* What is seen of the tree, by the phase of the run.                      *)
LEMMA Seen ==
    /\ Phase = "open" <=> pc \notin {"idle", "success", "failed", "killed"} /\ ~committed
    /\ Phase = "committed" <=> pc \notin {"idle", "success", "failed", "killed"} /\ committed
    /\ pc \in {"failed", "killed"} /\ committed => Phase = "stopped"
    /\ pc \in {"failed", "killed"} /\ ~committed =>
          Phase = IF pc = "failed" /\ ~disturbed THEN "unchanged" ELSE "broken"
    /\ pc = "success" => Phase = "succeeded"
    /\ pc = "idle" => Phase = "idle"
  BY DEF Phase

LEMMA UpdateInit ==
    ASSUME Init
    PROVE  Update!Init
  BY Seen DEF Init, Update!Init, Update!Nothing

(* A step that leaves the phase open is not seen, except when the run      *)
(* loses sight of its hook command.                                        *)
LEMMA Unseen ==
    ASSUME Phase = "open", Phase' = "open", UNCHANGED <<run, prior>>, astray' = astray \/ astray' = TRUE
    PROVE  [Update!Next]_(Update!vars)
  <1>1. CASE astray' = astray
    BY <1>1 DEF Update!vars
  <1>2. CASE astray' = TRUE
    <2>1. Update!Lose
      BY <1>2 DEF Update!Lose
    <2> QED
      BY <2>1 DEF Update!Next
  <1> QED
    BY <1>1, <1>2

(* A run that ends before its commit has changed nothing, or its rollback  *)
(* was broken off.                                                         *)
LEMMA EndsUncommitted ==
    ASSUME Inv, Inv', Mixture', Phase = "open",
           UNCHANGED <<run, prior, committed>>, astray => astray',
           \/ pc' = "killed"
           \/ pc' = "failed" /\ astray' = astray
    PROVE  Update!Abort \/ Update!Break
  <1>1. ~committed /\ ~committed'
    BY Seen
  <1>2. CASE pc' = "failed" /\ ~disturbed'
    <2>1. Phase' = "unchanged"
      BY <1>1, <1>2 DEF Phase
    <2>2. (\A e \in Entry : Restored(e))' /\ (~astray' => dir' = prior.dir)
      BY <1>1, <1>2 DEF Inv, Backward, Directory
    <2>3. backup' = [e \in Entry |-> 0]
      BY <2>2 DEF Restored, Inv, TypeOK
    <2>4. \A e \in Entry : entry'[e] = prior.entry[e] \/ (e = Hook /\ astray')
      BY <2>2 DEF Restored, Minded
    <2>5. astray' = astray
      BY <1>2
    <2> QED
      BY <2>1, <2>2, <2>3, <2>4, <2>5 DEF Update!Abort, Update!Agree
  <1>3. CASE ~(pc' = "failed" /\ ~disturbed')
    <2>1. Phase' = "broken"
      BY <1>1, <1>3 DEF Phase
    <2>2. ASSUME NEW e \in Entry, e # Hook \/ ~astray'
          PROVE  /\ entry'[e] \in {prior.entry[e], 0, Update!Product[e]}
                                   \cup (IF e \in Trees \cup {Hook} THEN {Partial} ELSE {})
                 /\ backup'[e] \in {0, prior.entry[e]}
                 /\ prior.entry[e] \in {0, entry'[e], backup'[e]}
      <3>1. Recoverable(e)'
        BY <1>1, <2>2 DEF Inv, Forward, Minded
      <3>2. entry'[e] \in {prior.entry[e], 0, IF e \in Active THEN run + 1 ELSE 0}
                             \cup (IF e \in Trees \cup {Hook} THEN {Partial} ELSE {})
        BY <1>1, <2>2 DEF Mixture, Minded, New
      <3>3. Update!Product[e] = IF e \in Active THEN run + 1 ELSE 0
        BY <2>2 DEF Update!Product
      <3> QED
        BY <3>1, <3>2, <3>3 DEF Recoverable
    <2>3. dir' \in {prior.dir, "0700"} \/ astray'
      BY <1>1 DEF Mixture
    <2> QED
      BY <2>1, <2>2, <2>3 DEF Update!Break, Update!Partial, Partial
  <1> QED
    BY <1>2, <1>3

(* After the commit the run only stops.                                    *)
LEMMA EndsCommitted ==
    ASSUME Phase = "committed", committed', pc' \in {"failed", "killed"},
           UNCHANGED <<run, tree, backup, astray>>
    PROVE  Update!Stop
  <1>1. Phase' = "stopped"
    BY DEF Phase
  <1> QED
    BY <1>1 DEF Update!Stop, tree

(* The hook command is seen once the run is over, and only one that the    *)
(* run did not wait for is still at work then.                             *)
LEMMA CommandIsUnseen ==
    ASSUME Inv, NEW r \in commands, CopyHook(r) \/ EndHook(r)
    PROVE  [Update!Next]_(Update!vars)
  <1>1. UNCHANGED <<run, pc, i, records, committed, astray, disturbed, prior>>
    <2>1. CASE CopyHook(r)
      BY <2>1 DEF CopyHook, hooks
    <2>2. CASE EndHook(r)
      BY <2>2 DEF EndHook
    <2> QED
      BY <2>1, <2>2
  <1>2. Phase' = Phase
    BY <1>1 DEF Phase
  <1>3. CASE Phase = "open"
    BY <1>1, <1>2, <1>3 DEF Update!vars
  <1>4. CASE Phase # "open" /\ CopyHook(r)
    <2>1. astray
      BY <1>4, Seen DEF Inv, Hooks, Place
    <2>2. \A e \in Entry : entry'[e] = entry[e] \/ e = Hook
      BY <1>4 DEF CopyHook, Inv, TypeOK
    <2>3. dir' \in {dir, "loose"} /\ (dir # "missing" => dir' = dir)
      BY <1>4 DEF CopyHook
    <2>4. Update!Intrude
      BY <1>1, <1>2, <1>4, <2>1, <2>2, <2>3 DEF Update!Intrude, Update!Agree, records
    <2> QED
      BY <2>4 DEF Update!Next
  <1>5. CASE Phase # "open" /\ EndHook(r)
    BY <1>1, <1>2, <1>5 DEF EndHook, Update!vars, tree, records
  <1> QED
    BY <1>3, <1>4, <1>5

(* Every other step is one of the update or is not seen.                   *)
LEMMA UpdateStep ==
    ASSUME Inv, Inv', Mixture', [Next]_vars
    PROVE  [Update!Next]_(Update!vars)
  <1> USE DEF Inv, Place, At, vars
  <1> DEFINE Over == {"idle", "success", "failed", "killed"}
  <1> DEFINE Ordinary == Transaction /\ ~Commit /\ ~RemoveBackup /\ ~Finish
  <1>1. CASE Start
    <2>1. /\ Phase' = "open" /\ Phase \notin {"open", "committed"}
      BY <1>1, Seen DEF Start, Phase
    <2>2. /\ run' = run + 1 /\ prior' = [entry |-> entry, dir |-> dir]
      BY <1>1 DEF Start
    <2>3. astray' \in {astray, FALSE}
      <3>1. astray' = (commands # {}) /\ pc # "wait"
        BY <1>1 DEF Start
      <3>2. CASE commands = {}
        BY <3>1, <3>2
      <3>3. CASE commands # {}
        <4>1. astray = TRUE
          BY <3>1, <3>3 DEF Hooks, TypeOK
        <4> QED
          BY <3>1, <3>3, <4>1
      <3> QED
        BY <3>2, <3>3
    <2> QED
      BY <2>1, <2>2, <2>3 DEF Update!Next, Update!Begin, Update!Nothing
  <1>2. CASE UNCHANGED vars
    <2>1. Phase' = Phase
      BY <1>2 DEF Phase
    <2> QED
      BY <1>2, <2>1 DEF Update!vars, tree, records, hooks
  <1>3. CASE Commit
    <2>1. Phase = "open" /\ Phase' = "committed"
      BY <1>3 DEF Commit, Verify, Phase
    <2>2. entry' = Update!Product /\ dir' = "0700"
      BY <1>3 DEF Commit, Verify, New, Update!Product, TypeOK, tree
    <2>3. ASSUME NEW e \in Entry PROVE backup'[e] = prior.entry[e] \/ (e = Hook /\ astray')
      BY <1>3, <2>3 DEF Commit, Verify, Forward, Moved, Recoverable, Minded, records, hooks
    <2>4. UNCHANGED <<run, astray>>
      BY <1>3 DEF Commit, hooks
    <2>5. Update!Commit
      BY <2>1, <2>2, <2>3, <2>4 DEF Update!Commit, Update!Agree
    <2> QED
      BY <2>5 DEF Update!Next
  <1>4. CASE RemoveBackup
    <2>1. Phase = "committed" /\ Phase' = "committed"
      BY <1>4 DEF RemoveBackup, Phase
    <2> DEFINE o == Order[i]
    <2>2. o \in Entry
      BY <1>4, OrderFacts DEF RemoveBackup
    <2>3. UNCHANGED <<run, entry, dir, astray>>
      BY <1>4 DEF RemoveBackup, tree, hooks
    <2>4. CASE backup[o] # 0
      <3>1. \E x \in {0, Partial} : backup' = [backup EXCEPT ![o] = x]
        BY <1>4 DEF RemoveBackup
      <3>2. Update!CleanUp(o)
        BY <2>1, <2>3, <2>4, <3>1 DEF Update!CleanUp, Update!Partial, Partial
      <3> QED
        BY <2>2, <3>2 DEF Update!Next
    <2>5. CASE backup[o] = 0
      <3>1. backup' = [backup EXCEPT ![o] = 0]
        BY <1>4, <2>5 DEF RemoveBackup
      <3>2. backup' = backup
        BY <2>2, <2>5, <3>1 DEF TypeOK
      <3> QED
        BY <2>1, <2>3, <3>2 DEF Update!vars
    <2> QED
      BY <2>4, <2>5
  <1>5. CASE Finish
    <2>1. Phase = "committed" /\ Phase' = "succeeded"
      BY <1>5 DEF Finish, Phase
    <2>2. backup = [e \in Entry |-> 0]
      BY <1>5 DEF Finish, Settled, TypeOK
    <2> QED
      BY <1>5, <2>1, <2>2 DEF Finish, tree, hooks, Update!Next, Update!Succeed, Update!Nothing
  <1>6. CASE Ordinary \/ Raise \/ StagingFails \/ Handler \/ Disturb \/ Kill
    <2>1. /\ UNCHANGED <<run, prior, committed>>
          /\ pc \notin Over /\ pc' \notin {"idle", "success"}
      <3>1. CASE Ordinary
        BY <3>1 DEF Transaction, MakeDirectory, RecordDirectory, StageArtifacts, AssignStages, NoteEntry,
             MoveAway, Publish, StartHook, HookInstalled
      <3>2. CASE Raise \/ StagingFails
        BY <3>2 DEF Raise, StagingFails, Caught
      <3>3. CASE Handler
        BY <3>3 DEF Handler, Abandon, RollBack, Dismantle, Restore, RestoreModes, Unstage,
             RemoveDirectories, NextBack, AfterUnstage, Caught
      <3>4. CASE Disturb
        BY <3>4 DEF Disturb, NextBack, AfterUnstage, Caught
      <3>5. CASE Kill
        BY <3>5 DEF Kill
      <3> QED
        BY <1>6, <3>1, <3>2, <3>3, <3>4, <3>5
    <2>2. /\ astray' = astray \/ (astray' = TRUE /\ run \in commands)
          /\ pc' = "failed" => astray' = astray
      <3>1. CASE Ordinary
        BY <3>1 DEF Transaction, MakeDirectory, RecordDirectory, StageArtifacts, AssignStages, NoteEntry,
             MoveAway, Publish, StartHook, HookInstalled, hooks
      <3>2. CASE StagingFails \/ Disturb
        BY <3>2 DEF StagingFails, Disturb, hooks
      <3>3. CASE Handler
        BY <3>3 DEF Handler, Abandon, RollBack, Dismantle, Restore, RestoreModes, Unstage,
             RemoveDirectories, hooks
      <3>4. CASE Raise
        <4>1. /\ astray' = (astray \/ run \in commands') /\ commands' \subseteq commands
              /\ pc' # "failed"
          BY <3>4 DEF Raise, Caught
        <4> QED
          BY <4>1 DEF TypeOK
      <3>5. CASE Kill
        <4>1. astray' = (astray \/ run \in commands) /\ pc' # "failed"
          BY <3>5 DEF Kill
        <4> QED
          BY <4>1 DEF TypeOK
      <3> QED
        BY <1>6, <3>1, <3>2, <3>3, <3>4, <3>5
    <2>3. CASE ~committed
      <3>1. Phase = "open"
        BY <2>1, <2>3, Seen
      <3>2. CASE pc' \in {"failed", "killed"}
        BY <2>1, <2>2, <3>1, <3>2, EndsUncommitted DEF Update!Next
      <3>3. CASE pc' \notin {"failed", "killed"}
        <4>1. Phase' = "open"
          BY <2>1, <2>3, <3>3 DEF Phase
        <4> QED
          BY <2>1, <2>2, <3>1, <4>1, Unseen
      <3> QED
        BY <3>2, <3>3
    <2>4. CASE committed
      <3>1. Phase = "committed"
        BY <2>1, <2>4, Seen
      <3>2. astray' = astray
        BY <2>2, <2>4 DEF Hooks, TypeOK
      <3>3. UNCHANGED <<tree, backup>>
        <4>1. CASE Ordinary
          BY <2>4, <4>1 DEF Transaction, MakeDirectory, RecordDirectory, StageArtifacts, AssignStages,
               NoteEntry, MoveAway, Publish, StartHook, HookInstalled
        <4>2. CASE Raise \/ StagingFails \/ Disturb \/ Kill
          BY <4>2 DEF Raise, StagingFails, Disturb, Kill, records
        <4>3. CASE Handler
          BY <2>4, <4>3 DEF Handler, Abandon, RollBack, Dismantle, Restore, RestoreModes, Unstage,
               RemoveDirectories
        <4> QED
          BY <1>6, <4>1, <4>2, <4>3
      <3>4. CASE pc' \in {"failed", "killed"}
        BY <2>1, <2>4, <3>1, <3>2, <3>3, <3>4, EndsCommitted DEF Update!Next
      <3>5. CASE pc' \notin {"failed", "killed"}
        <4>1. Phase' = "committed"
          BY <2>1, <2>4, <3>5 DEF Phase
        <4> QED
          BY <2>1, <3>1, <3>2, <3>3, <4>1 DEF Update!vars, tree
      <3> QED
        BY <3>4, <3>5
    <2> QED
      BY <2>3, <2>4
  <1>7. ASSUME NEW r \in commands, CopyHook(r) \/ EndHook(r) PROVE [Update!Next]_(Update!vars)
    BY <1>7, CommandIsUnseen
  <1> QED
    BY <1>1, <1>2, <1>3, <1>4, <1>5, <1>6, <1>7 DEF Next

(* The installer implements an update that replaces the whole tree or none *)
(* of it, for any product and any number of runs (install.sh:489-501,      *)
(* 560-623).                                                               *)
THEOREM InstallIsAtomic == Spec => ImplementsUpdate
  <1>1. Init => Mixture
    BY DEF Init, Mixture
  <1>2. Spec => []Mixture
    BY <1>1, MixtureStep, InvAlways, PTL DEF Spec
  <1> QED
    BY <1>2, UpdateInit, UpdateStep, InvAlways, PTL DEF Spec, ImplementsUpdate, Update!Spec
=============================================================================
