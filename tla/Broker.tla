-------------------------------- MODULE Broker --------------------------------
(***************************************************************************)
(* The extension's side of the bridge: handleNativeMessage and the per-    *)
(* window grouping queues of broker.js, running against a Firefox that its *)
(* user keeps working with.  A handler suspends at every await, so other   *)
(* handlers, grouping jobs and the user run between its steps; each call   *)
(* of the browser API takes effect at once and its answer may be stale     *)
(* when the handler goes on.                                               *)
(***************************************************************************)
EXTENDS Integers, FiniteSets, Sequences, Functions

CONSTANTS
    Window, Tab, Group,   \* ids Firefox hands out
    Title,                \* group titles clients ask for
    Caption,              \* window captions, as the desktop sees them
    Message,              \* frames of the host
    None,                 \* no window, tab, group or title
    MaxMoves,             \* bound: how often the user acts
    Asked,                \* bound: the tabs that activations are for
    Present,              \* the tabs open at the start...
    Here, Grouped         \* ... and the windows and groups they may be in

ASSUME BrokerAssumption ==
    /\ None \notin Window \cup Tab \cup Group \cup Title
    /\ MaxMoves \in Nat
    /\ Asked \subseteq Tab
    /\ Present \subseteq Tab /\ Here \subseteq Window /\ Grouped \subseteq Group

(* The frames of the host.  "title" is None when no group is asked for; a malformed    *)
(* open carries a URL, caption or group the extension refuses.             *)
Frame ==
         [type : {"theme", "tabs.list", "malformed"}]
    \cup [type : {"tabs.activate"}, window : Window, tab : Asked]
    \cup [type : {"tabs.open"}, caption : Caption, title : Title \cup {None}]

VARIABLES
    tabWindow,   \* where a tab is; None when it does not exist
    tabGroup,    \* the group it is in
    groupWindow, groupTitle,
    caption,     \* the title of the active tab of a window, with its suffix
    at,          \* where the handler of a message is
    frame, window, made,   \* its message, correlated window and new tab
    reply,       \* what it answered
    queue,       \* groupQueues: the messages whose tab a window has still to group
    job,         \* where the grouping job of a message is
    target,      \* the group it works on
    meddled,     \* history: the user moved or closed a tab
    moves        \* how often the user acted

tabs    == <<tabWindow, tabGroup>>
groups  == <<groupWindow, groupTitle>>
handler == <<at, frame, window, made, reply>>
jobs    == <<queue, job, target>>
vars    == <<tabs, groups, caption, handler, jobs, meddled, moves>>

NoReply == [type |-> "none"]

(* A group has tabs, and all of them are in its window.                    *)
Housed ==
    /\ \A g \in Group : groupWindow[g] # None <=> \E t \in Tab : tabGroup[t] = g
    /\ \A t \in Tab : tabGroup[t] # None => tabWindow[t] = groupWindow[tabGroup[t]]

Init ==
    /\ tabWindow \in [Tab -> Here \cup {None}]
    /\ \A t \in Tab : tabWindow[t] # None <=> t \in Present
    /\ tabGroup \in [Tab -> Grouped \cup {None}]
    /\ groupWindow \in [Group -> Window \cup {None}]
    /\ Housed
    /\ groupTitle \in [Group -> Title \cup {None}]
    /\ \A g \in Group : groupWindow[g] = None => groupTitle[g] = None
    /\ caption \in [Window -> Caption]
    /\ at = [m \in Message |-> "idle"]
    /\ frame = [m \in Message |-> NoReply]
    /\ window = [m \in Message |-> None]
    /\ made = [m \in Message |-> None]
    /\ reply = [m \in Message |-> NoReply]
    /\ queue = [w \in Window |-> << >>]
    /\ job = [m \in Message |-> "query"]
    /\ target = [m \in Message |-> None]
    /\ meddled = FALSE
    /\ moves = 0

Goto(m, l) == at' = [at EXCEPT ![m] = l]
Respond(m, r) == Goto(m, "done") /\ reply' = [reply EXCEPT ![m] = r]
Opened(e) == [type |-> "tabs.opened", error |-> e]

(* Firefox drops a group with its last tab.                                *)
Settle(tg, gw) == groupWindow' = [g \in Group |->
                      IF \E t \in Tab : tg[t] = g THEN gw[g] ELSE None]

-----------------------------------------------------------------------------
(* handleNativeMessage.                                                    *)

FirstStep(type) == IF type = "tabs.activate" THEN "get"
                   ELSE IF type = "tabs.open" THEN "correlate"
                   ELSE IF type = "tabs.list" THEN "list"
                   ELSE IF type = "theme" THEN "theme" ELSE "refuse"

Receive(m) ==
    /\ at[m] = "idle"
    /\ \E f \in Frame : /\ frame' = [frame EXCEPT ![m] = f]
                        /\ Goto(m, FirstStep(f.type))
    /\ UNCHANGED <<tabs, groups, caption, window, made, reply, jobs, meddled, moves>>

Refuse(m) ==
    /\ at[m] = "refuse"
    /\ Respond(m, Opened("invalid-request"))
    /\ UNCHANGED <<tabs, groups, caption, frame, window, made, jobs, meddled, moves>>

(* theme.update, which nobody answers.                                     *)
ApplyTheme(m) ==
    /\ at[m] = "theme"
    /\ Goto(m, "done")
    /\ UNCHANGED <<tabs, groups, caption, frame, window, made, reply, jobs, meddled, moves>>

(* tabs.query and projectTabs; an empty list answers for a failure.        *)
List(m) ==
    /\ at[m] = "list"
    /\ \E S \in {{}, {<<tabWindow[t], t>> : t \in {u \in Tab : tabWindow[u] # None}}} :
          Respond(m, [type |-> "tabs.result", tabs |-> S])
    /\ UNCHANGED <<tabs, groups, caption, frame, window, made, jobs, meddled, moves>>

Activated(ok) == [type |-> "tabs.activated", ok |-> ok]

(* tabs.get, then the window is compared.                                  *)
GetTab(m) ==
    /\ at[m] = "get"
    /\ IF tabWindow[frame[m].tab] = frame[m].window
       THEN Goto(m, "update") /\ UNCHANGED reply
       ELSE Respond(m, Activated(FALSE))
    /\ UNCHANGED <<tabs, groups, caption, frame, window, made, jobs, meddled, moves>>

(* tabs.update makes the tab active wherever it is, or the tab is gone.    *)
UpdateTab(m) ==
    /\ at[m] = "update"
    /\ Respond(m, Activated(tabWindow[frame[m].tab] # None))
    /\ UNCHANGED <<tabs, groups, caption, frame, window, made, jobs, meddled, moves>>

(* correlateWindow: exactly one window may bear the caption.  A query that *)
(* is rejected, or answers with no list or no usable id, finds no window.  *)
Correlate(m) ==
    LET matches == {w \in Window : caption[w] = frame[m].caption}
    IN  /\ at[m] = "correlate"
        /\ \/ /\ Cardinality(matches) = 1
              /\ \E w \in matches : window' = [window EXCEPT ![m] = w]
              /\ Goto(m, "create")
              /\ UNCHANGED reply
           \/ /\ Cardinality(matches) # 1
              /\ Respond(m, Opened(IF matches = {} THEN "no-window" ELSE "ambiguous-window"))
              /\ UNCHANGED window
           \/ Respond(m, Opened("no-window")) /\ UNCHANGED window
        /\ UNCHANGED <<tabs, groups, caption, frame, made, jobs, meddled, moves>>

(* A tab id that was never used before.                                    *)
Unused(t) == t \notin Present /\ \A n \in Message : made[n] # t

(* tabs.create, which may fail; the answer goes out before the grouping is *)
(* queued, in the same turn of the event loop.                             *)
CreateTab(m) ==
    /\ at[m] = "create"
    /\ \/ /\ \E t \in Tab :
                /\ Unused(t)
                /\ tabWindow' = [tabWindow EXCEPT ![t] = window[m]]
                /\ made' = [made EXCEPT ![m] = t]
          /\ Respond(m, Opened("none"))
          /\ queue' = IF frame[m].title = None THEN queue
                      ELSE [queue EXCEPT ![window[m]] = Append(@, m)]
       \/ /\ Respond(m, Opened("create-failed"))
          /\ UNCHANGED <<tabWindow, made, queue>>
    /\ UNCHANGED <<tabGroup, groups, caption, frame, window, job, target, meddled, moves>>

-----------------------------------------------------------------------------
(* attachToGroup, one job of a window at a time (enqueueGroup).            *)

Queued(m) == window[m] # None /\ m \in Range(queue[window[m]])

(* Mutant: a job starts when it is made.                                   *)
TurnAtOnce(m) == Queued(m)

(* A job starts when the one before it in its window has settled.          *)
Turn(m) == Queued(m) /\ Head(queue[window[m]]) = m

(* Mutant: the job after one that threw is never started.                  *)
SettleJammed(m) == IF target[m] # None /\ groupWindow[target[m]] = None
                   THEN queue ELSE [queue EXCEPT ![window[m]] = Tail(@)]

(* Resolved or rejected: the queue goes on.                                *)
Settled(m) == [queue EXCEPT ![window[m]] = Tail(@)]

(* The job ends: as its code has it ("settled"), or because Firefox        *)
(* rejected one of its calls ("refused").                                  *)
Finish(m, l) ==
    /\ queue' = Settled(m)
    /\ job' = [job EXCEPT ![m] = l]
    /\ UNCHANGED target

Continue(m, l, g) ==
    /\ job' = [job EXCEPT ![m] = l]
    /\ target' = [target EXCEPT ![m] = g]
    /\ UNCHANGED queue

(* Mutant: the query is not restricted to the window.                      *)
TitledAnywhere(w, s) == {g \in Group : groupWindow[g] # None /\ groupTitle[g] = s}

Titled(w, s) == {g \in Group : groupWindow[g] = w /\ groupTitle[g] = s}

(* tabGroups.query, which may be rejected: leave two groups of that title  *)
(* alone, join one, make one if there is none.                             *)
QueryGroups(m) ==
    LET matches == Titled(window[m], frame[m].title)
    IN  /\ job[m] = "query"
        /\ Turn(m)
        /\ \/ Cardinality(matches) > 1 /\ Finish(m, "settled")
           \/ Cardinality(matches) = 1 /\ \E g \in matches : Continue(m, "join", g)
           \/ matches = {} /\ Continue(m, "group", None)
           \/ Finish(m, "refused")
        /\ UNCHANGED <<tabs, groups, caption, handler, meddled, moves>>

Exists(t) == tabWindow[t] # None

(* tabs.group puts the tab in g, in the window of g.                       *)
PutIn(t, g, w) ==
    /\ tabWindow' = [tabWindow EXCEPT ![t] = w]
    /\ tabGroup' = [tabGroup EXCEPT ![t] = g]
    /\ Settle(tabGroup', [groupWindow EXCEPT ![g] = w])

(* tabs.group with a groupId; rejected when tab or group is gone, if not   *)
(* for another reason.                                                     *)
JoinGroup(m) ==
    /\ job[m] = "join"
    /\ \/ /\ Exists(made[m]) /\ groupWindow[target[m]] # None
          /\ PutIn(made[m], target[m], groupWindow[target[m]])
          /\ Finish(m, "settled")
       \/ Finish(m, "refused") /\ UNCHANGED <<tabs, groupWindow>>
    /\ UNCHANGED <<groupTitle, caption, handler, meddled, moves>>

(* The id of a new group is one that Firefox never gave out.               *)
Fresh(g) == g \notin Grouped /\ groupWindow[g] = None /\ \A n \in Message : target[n] # g

(* tabs.group with createProperties: a new group without a title, unless   *)
(* the tab is gone or the call is rejected.                                *)
MakeGroup(m) ==
    /\ job[m] = "group"
    /\ \/ /\ Exists(made[m])
          /\ \E g \in Group :
                /\ Fresh(g)
                /\ PutIn(made[m], g, window[m])
                /\ groupTitle' = [groupTitle EXCEPT ![g] = None]
                /\ Continue(m, "title", g)
       \/ Finish(m, "refused") /\ UNCHANGED <<tabs, groups>>
    /\ UNCHANGED <<caption, handler, meddled, moves>>

(* tabGroups.update; rejected when the group is gone, if not for another   *)
(* reason: then the group stays without a title.                           *)
TitleGroup(m) ==
    /\ job[m] = "title"
    /\ \/ /\ groupWindow[target[m]] # None
          /\ groupTitle' = [groupTitle EXCEPT ![target[m]] = frame[m].title]
          /\ Finish(m, "settled")
       \/ Finish(m, "refused") /\ UNCHANGED groupTitle
    /\ UNCHANGED <<tabs, groupWindow, caption, handler, meddled, moves>>

-----------------------------------------------------------------------------
(* The user of Firefox (outside the repository).                           *)

(* Bound: the user acts MaxMoves times.                                    *)
CountMove == moves < MaxMoves /\ moves' = moves + 1

MoveTab(t, w) ==
    /\ tabWindow[t] \notin {None, w}
    /\ tabWindow' = [tabWindow EXCEPT ![t] = w]
    /\ tabGroup' = [tabGroup EXCEPT ![t] = None]
    /\ Settle(tabGroup', groupWindow)
    /\ meddled' = TRUE
    /\ CountMove
    /\ UNCHANGED <<groupTitle, caption, handler, jobs>>

CloseTab(t) ==
    /\ tabWindow[t] # None
    /\ tabWindow' = [tabWindow EXCEPT ![t] = None]
    /\ tabGroup' = [tabGroup EXCEPT ![t] = None]
    /\ Settle(tabGroup', groupWindow)
    /\ meddled' = TRUE
    /\ CountMove
    /\ UNCHANGED <<groupTitle, caption, handler, jobs>>

ChangeCaption(w) ==
    /\ \E c \in Caption \ {caption[w]} : caption' = [caption EXCEPT ![w] = c]
    /\ CountMove
    /\ UNCHANGED <<tabs, groups, handler, jobs, meddled>>

-----------------------------------------------------------------------------

Handle(m) ==
    \/ Refuse(m) \/ ApplyTheme(m) \/ List(m) \/ GetTab(m) \/ UpdateTab(m) \/ Correlate(m) \/ CreateTab(m)

Attach(m) == QueryGroups(m) \/ JoinGroup(m) \/ MakeGroup(m) \/ TitleGroup(m)

Next ==
    \/ \E m \in Message : Receive(m) \/ Handle(m) \/ Attach(m)
    \/ \E w \in Window : ChangeCaption(w)
    \/ \E t \in Tab : CloseTab(t) \/ \E w \in Window : MoveTab(t, w)

(* Firefox settles every promise and runs every continuation.              *)
Fairness == \A m \in Message : WF_vars(Handle(m)) /\ WF_vars(Attach(m))

Spec == Init /\ [][Next]_vars /\ Fairness

-----------------------------------------------------------------------------

(* Types, that a group has tabs and all its tabs are in its window, and    *)
(* that a job leaves its queue when it settles.                            *)
TypeOK ==
    /\ tabWindow \in [Tab -> Window \cup {None}]
    /\ tabGroup \in [Tab -> Group \cup {None}]
    /\ groupWindow \in [Group -> Window \cup {None}]
    /\ groupTitle \in [Group -> Title \cup {None}]
    /\ caption \in [Window -> Caption]
    /\ meddled \in BOOLEAN
    /\ moves \in 0..MaxMoves
    /\ at \in [Message -> {"idle", "theme", "list", "get", "update", "correlate",
                           "create", "refuse", "done"}]
    /\ frame \in [Message -> Frame \cup {NoReply}]
    /\ window \in [Message -> Window \cup {None}]
    /\ made \in [Message -> Tab \cup {None}]
    /\ job \in [Message -> {"query", "join", "group", "title", "settled", "refused"}]
    /\ target \in [Message -> Group \cup {None}]
    /\ queue \in [Window -> Seq(Message)]
    /\ \A m \in Message : Queued(m) => job[m] \notin {"settled", "refused"}
    /\ Housed

(* Opens that ask for the same group in the same window share one, however *)
(* their answers, their grouping and the user's own moves interleave: the  *)
(* query of one never runs between the query and the titling of another    *)
(* (broker.js:200-226).  Only groups that were there before may be double. *)
UniqueTitledGroup ==
    \A g, h \in Group :
        /\ groupWindow[g] = groupWindow[h] /\ groupWindow[g] # None
        /\ groupTitle[g] = groupTitle[h] /\ groupTitle[g] # None
        => g = h \/ {g, h} \subseteq Grouped

(* A job that throws, because the user closed its tab or its group or      *)
(* Firefox rejects a call, does not keep the later opens of the window     *)
(* from being grouped (broker.js:221-226).                                 *)
QueueDrains == \A m \in Message : Queued(m) ~> ~Queued(m)

(* If the user keeps his hands off, the tab of every open that was         *)
(* answered with success ends up in a group of the title it asked for, in  *)
(* the window that was correlated (broker.js:200-219, 307-321), unless     *)
(* Firefox rejects a call of its job or the window had two such groups.    *)
Filed(m) ==
    /\ made[m] # None
    /\ LET g == tabGroup[made[m]] IN
        /\ tabWindow[made[m]] = window[m]
        /\ g # None /\ groupTitle[g] = frame[m].title
Doubled(m) ==
    /\ made[m] # None
    /\ \E g, h \in Titled(window[m], frame[m].title) : g # h
EveryOpenFiled == []~meddled =>
    \A m \in Message : Queued(m) ~> [](Filed(m) \/ Doubled(m) \/ job[m] = "refused")

(* What makes it so: the moment its job settles the tab is filed, and it   *)
(* stays so whatever other opens do to the window's groups                 *)
(* (broker.js:200-226).                                                    *)
SettledIsFiled == ~meddled =>
    \A m \in Message : job[m] = "settled" => Filed(m) \/ Doubled(m)
=============================================================================
