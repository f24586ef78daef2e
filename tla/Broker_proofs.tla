---------------------------- MODULE Broker_proofs ----------------------------
(***************************************************************************)
(* TLAPS proofs about Broker, for any number of windows, tabs, groups and  *)
(* frames and whatever the user does.  The argument: the one job of a      *)
(* window that is past its query is the head of the window's queue, so     *)
(* nobody else titles a group of that window between its query, which      *)
(* found none of its title, and its own titling; and a job that titles has *)
(* made its group itself, so no other job titles it.                       *)
(* Of an undisturbed open more is true: at every place of its job its tab  *)
(* and its group are where the next call wants them, so when the job has   *)
(* settled the tab is filed, or two groups of its title stood in the way.  *)
(***************************************************************************)
EXTENDS Broker, FiniteSetTheorems, TLAPS

(* What a handler has found out by the time it gets to its place.          *)
Handling ==
    \A m \in Message :
        /\ at[m] \in {"correlate", "create"} => frame[m].type = "tabs.open"
        /\ at[m] = "create" => window[m] \in Window
        /\ at[m] # "done" => job[m] = "query" /\ made[m] = None

(* A message in the queue of w.                                            *)
Waits(m, w) ==
    /\ window[m] = w
    /\ at[m] = "done"
    /\ made[m] \in Tab
    /\ job[m] \notin {"settled", "refused"}
    /\ frame[m].title \in Title

(* Nobody is in a queue twice.                                             *)
Queues ==
    \A w \in Window : \A i, j \in 1..Len(queue[w]) :
        /\ Waits(queue[w][i], w)
        /\ queue[w][i] = queue[w][j] => i = j

(* A job past its query is the head of its queue.                          *)
Turns ==
    \A m \in Message :
        /\ job[m] \in {"join", "group", "title"} => Turn(m)
        /\ job[m] \in {"join", "title"} => target[m] \in Group

(* One that found no group of its title still finds none, and the group it *)
(* made is untitled.                                                       *)
Found ==
    \A m \in Message :
        /\ job[m] \in {"group", "title"} => Titled(window[m], frame[m].title) = {}
        /\ job[m] = "title" => /\ groupWindow[target[m]] \in {window[m], None}
                               /\ groupTitle[target[m]] = None

Targets ==
    \A m, n \in Message :
        job[m] = "title" /\ job[n] = "title" /\ target[m] = target[n] => m = n

(* A tab that was never made is nowhere.                                   *)
Tabs == \A t \in Tab : Unused(t) => tabWindow[t] = None

IInv ==
    /\ TypeOK /\ Handling /\ Queues /\ Turns /\ Found /\ Targets /\ Tabs
    /\ UniqueTitledGroup

-----------------------------------------------------------------------------

LEMMA OpensAsk ==
    ASSUME NEW f \in Frame, f.type = "tabs.open"
    PROVE  f.title \in Title \cup {None}
  BY DEF Frame

(* The place of m in its queue.                                            *)
LEMMA Place ==
    ASSUME IInv, NEW m \in Message, Queued(m)
    PROVE  /\ window[m] \in Window
           /\ \E i \in 1..Len(queue[window[m]]) : queue[window[m]][i] = m
           /\ Waits(m, window[m])
  <1>1. window[m] \in Window /\ queue[window[m]] \in Seq(Message)
    BY DEF IInv, TypeOK, Queued
  <1>2. PICK i \in DOMAIN queue[window[m]] : queue[window[m]][i] = m
    BY DEF Queued, Range
  <1>3. i \in 1..Len(queue[window[m]])
    BY <1>1, <1>2
  <1> QED
    BY <1>1, <1>2, <1>3 DEF IInv, Queues

(* Whose turn it is.                                                       *)
LEMMA TurnFacts ==
    ASSUME IInv, NEW m \in Message, Turn(m)
    PROVE  /\ window[m] \in Window
           /\ Waits(m, window[m])
           /\ queue[window[m]] \in Seq(Message) /\ queue[window[m]] # << >>
           /\ queue[window[m]][1] = m
  <1>1. Queued(m) /\ Head(queue[window[m]]) = m
    BY DEF Turn
  <1>2. PICK i \in 1..Len(queue[window[m]]) : queue[window[m]][i] = m
    BY <1>1, Place
  <1>3. queue[window[m]] \in Seq(Message) /\ window[m] \in Window
    BY <1>1, Place DEF IInv, TypeOK
  <1> QED
    BY <1>1, <1>2, <1>3, Place

(* The queues say that nobody in them has settled.                         *)
LEMMA QueuesUnsettled ==
    ASSUME Queues', queue' \in [Window -> Seq(Message)],
           window' \in [Message -> Window \cup {None}]
    PROVE  \A m \in Message : Queued(m)' => job'[m] \notin {"settled", "refused"}
  <1> SUFFICES ASSUME NEW m \in Message, Queued(m)' PROVE job'[m] \notin {"settled", "refused"}
    OBVIOUS
  <1>1. window'[m] \in Window /\ queue'[window'[m]] \in Seq(Message)
    BY DEF Queued
  <1>2. PICK i \in DOMAIN queue'[window'[m]] : queue'[window'[m]][i] = m
    BY DEF Queued, Range
  <1> QED
    BY <1>1, <1>2 DEF Queues, Waits

(* Whose job is past its query has been answered.                          *)
LEMMA PastQuery ==
    ASSUME IInv, NEW m \in Message, job[m] # "query"
    PROVE  at[m] = "done"
  BY DEF IInv, Handling

LEMMA InitInv == Init => IInv
  <1> SUFFICES ASSUME Init PROVE IInv
    OBVIOUS
  <1>1. TypeOK
    <2>1. \A w \in Window : queue[w] = << >>
      BY DEF Init
    <2>2. queue \in [Window -> Seq(Message)]
      BY DEF Init
    <2>3. tabWindow \in [Tab -> Window \cup {None}] /\ tabGroup \in [Tab -> Group \cup {None}]
      BY BrokerAssumption DEF Init
    <2>4. moves \in 0..MaxMoves
      BY BrokerAssumption DEF Init
    <2> QED
      BY <2>1, <2>2, <2>3, <2>4 DEF Init, TypeOK
  <1>2. Queues
    BY DEF Init, Queues
  <1>3. \A g \in Group : groupWindow[g] # None => g \in Grouped
    BY BrokerAssumption DEF Init, Housed
  <1> QED
    BY <1>1, <1>2, <1>3, BrokerAssumption
       DEF Init, IInv, Handling, Turns, Found, Targets, Tabs, Unused, UniqueTitledGroup

-----------------------------------------------------------------------------
(* The handlers.                                                           *)

(* A handler moves on without touching tabs, groups or jobs.               *)
LEMMA HandlerKeeps ==
    ASSUME IInv, NEW m \in Message, at[m] # "done",
           NEW l \in {"theme", "list", "get", "update", "correlate", "create", "refuse", "done"},
           at' = [at EXCEPT ![m] = l],
           UNCHANGED <<tabs, groups, made, jobs, meddled, moves>>, caption' = caption,
           frame' \in [Message -> Frame \cup {NoReply}],
           window' \in [Message -> Window \cup {None}],
           \A n \in Message \ {m} : frame'[n] = frame[n] /\ window'[n] = window[n],
           l \in {"correlate", "create"} => frame'[m].type = "tabs.open",
           l = "create" => window'[m] \in Window
    PROVE  IInv'
  <1> USE DEF IInv, tabs, groups, jobs
  <1>1. job[m] = "query"
    BY DEF Handling
  <1>2. /\ queue' \in [Window -> Seq(Message)]
        /\ window' \in [Message -> Window \cup {None}]
        /\ at' \in [Message -> {"idle", "theme", "list", "get", "update", "correlate",
                               "create", "refuse", "done"}]
    BY DEF TypeOK
  <1>3. Queues'
    <2> SUFFICES ASSUME NEW w \in Window, NEW i \in 1..Len(queue[w]), NEW j \in 1..Len(queue[w])
                 PROVE  /\ Waits(queue[w][i], w)'
                        /\ queue[w][i] = queue[w][j] => i = j
      BY DEF Queues
    <2>1. Waits(queue[w][i], w) /\ (queue[w][i] = queue[w][j] => i = j)
      BY DEF Queues
    <2>2. queue[w][i] \in Message \ {m}
      BY <2>1 DEF TypeOK, Waits
    <2> QED
      BY <2>1, <2>2 DEF TypeOK, Waits
  <1>4. \A n \in Message : Queued(n)' => job'[n] \notin {"settled", "refused"}
    BY <1>2, <1>3, QueuesUnsettled
  <1>5. TypeOK'
    BY <1>2, <1>4 DEF TypeOK, Housed
  <1>6. Handling'
    BY <1>1 DEF Handling, TypeOK
  <1>7. Turns' /\ Found'
    <2> SUFFICES ASSUME NEW n \in Message, job[n] # "query"
                 PROVE  /\ job[n] \in {"join", "group", "title"} => Turn(n)'
                        /\ job[n] \in {"join", "title"} => target[n] \in Group
                        /\ job[n] \in {"group", "title"} => (Titled(window[n], frame[n].title) = {})'
                        /\ job[n] = "title" => /\ groupWindow[target[n]] \in {window'[n], None}
                                               /\ groupTitle[target[n]] = None
      BY DEF Turns, Found
    <2>1. n # m
      BY <1>1
    <2>2. frame'[n] = frame[n] /\ window'[n] = window[n]
      BY <2>1
    <2> QED
      BY <2>2 DEF Turns, Found, Turn, Queued, Titled
  <1>8. Targets'
    BY DEF Targets
  <1>9. Tabs'
    BY DEF Tabs, Unused
  <1>10. UniqueTitledGroup'
    BY DEF UniqueTitledGroup
  <1> QED
    BY <1>3, <1>5, <1>6, <1>7, <1>8, <1>9, <1>10

(* tabs.create: the tab is new and in no group, and m joins the queue.     *)
LEMMA CreateTabKeeps ==
    ASSUME IInv, NEW m \in Message, CreateTab(m)
    PROVE  IInv'
  <1> USE DEF IInv
  <1>1. /\ at[m] = "create" /\ job[m] = "query" /\ window[m] \in Window
        /\ frame[m].type = "tabs.open" /\ frame[m] \in Frame
    BY DEF CreateTab, Handling, TypeOK, NoReply
  <1>2. /\ at' = [at EXCEPT ![m] = "done"]
        /\ UNCHANGED <<tabGroup, groupWindow, groupTitle, caption, frame, window, job, target, meddled, moves>>
    BY DEF CreateTab, Respond, Goto, groups
  <1>3. CASE UNCHANGED <<tabWindow, made, queue>>
    BY <1>1, <1>2, <1>3, HandlerKeeps DEF TypeOK, tabs, groups, jobs
  <1>4. ASSUME NEW t \in Tab, Unused(t),
               tabWindow' = [tabWindow EXCEPT ![t] = window[m]],
               made' = [made EXCEPT ![m] = t],
               queue' = IF frame[m].title = None THEN queue
                        ELSE [queue EXCEPT ![window[m]] = Append(@, m)]
        PROVE  IInv'
    <2>1. tabWindow[t] = None /\ tabGroup[t] = None
      <3>1. tabWindow[t] = None
        BY <1>4 DEF Tabs
      <3> QED
        BY <3>1 DEF TypeOK, Housed
    <2>2. frame[m].title \in Title \cup {None}
      BY <1>1, OpensAsk
    <2>3. queue' \in [Window -> Seq(Message)]
      BY <1>1, <1>4 DEF TypeOK
    <2>4. \A w \in Window : \A n \in Message : Waits(n, w) => Waits(n, w)' /\ n # m
      <3> SUFFICES ASSUME NEW w \in Window, NEW n \in Message, Waits(n, w)
                   PROVE  Waits(n, w)' /\ n # m
        OBVIOUS
      <3>1. n # m
        BY <1>1 DEF Waits
      <3> QED
        BY <1>2, <1>4, <3>1 DEF Waits, TypeOK
    <2>5. Queues'
      <3>1. CASE frame[m].title = None
        <4>1. queue' = queue
          BY <1>4, <3>1
        <4> SUFFICES ASSUME NEW w \in Window, NEW i \in 1..Len(queue[w]), NEW j \in 1..Len(queue[w])
                     PROVE  /\ Waits(queue[w][i], w)'
                            /\ queue[w][i] = queue[w][j] => i = j
          BY <4>1 DEF Queues
        <4>2. PICK n \in Message : n = queue[w][i]
          BY DEF TypeOK
        <4>3. Waits(n, w)'
          BY <2>4, <4>2 DEF Queues
        <4> QED
          BY <4>1, <4>2, <4>3 DEF Queues
      <3>2. CASE frame[m].title \in Title
        <4>1. queue' = [queue EXCEPT ![window[m]] = Append(queue[window[m]], m)]
          BY <1>4, <3>2, BrokerAssumption
        <4>2. \A w \in Window : w = window[m] => Waits(m, w)'
          BY <1>1, <1>2, <1>4, <3>2 DEF Waits, TypeOK
        <4> SUFFICES ASSUME NEW w \in Window, NEW i \in 1..Len(queue'[w]), NEW j \in 1..Len(queue'[w])
                     PROVE  /\ Waits(queue[w][i], w)'
                            /\ queue'[w][i] = queue'[w][j] => i = j
          BY DEF Queues
        <4>3. CASE w # window[m]
          <5>1. queue'[w] = queue[w]
            BY <4>1, <4>3 DEF TypeOK
          <5>2. PICK n \in Message : n = queue[w][i]
            BY <5>1 DEF TypeOK
          <5>3. Waits(n, w)'
            BY <2>4, <5>1, <5>2 DEF Queues
          <5> QED
            BY <5>1, <5>2, <5>3 DEF Queues
        <4>4. CASE w = window[m]
          <5>1. queue'[w] = Append(queue[w], m) /\ queue[w] \in Seq(Message)
            BY <1>1, <4>1, <4>4 DEF TypeOK
          <5>2. Len(queue'[w]) = Len(queue[w]) + 1
            BY <5>1
          <5>3. \A k \in 1..Len(queue'[w]) :
                   queue'[w][k] = IF k = Len(queue[w]) + 1 THEN m ELSE queue[w][k]
            BY <5>1, <5>2
          <5>4. i = Len(queue[w]) + 1 \/ i \in 1..Len(queue[w])
            BY <5>2, <5>1
          <5>5. j = Len(queue[w]) + 1 \/ j \in 1..Len(queue[w])
            BY <5>2, <5>1
          <5>6. \A k \in 1..Len(queue[w]) : queue[w][k] \in Message /\ Waits(queue[w][k], w)
            BY <5>1 DEF Queues
          <5>7. PICK n \in Message : n = queue'[w][i]
            BY <5>3, <5>4, <5>6
          <5>8. Waits(n, w)'
            BY <2>4, <4>2, <4>4, <5>3, <5>4, <5>6, <5>7
          <5>9. queue'[w][i] = queue'[w][j] => i = j
            BY <2>4, <5>3, <5>4, <5>5, <5>6 DEF Queues
          <5> QED
            BY <5>7, <5>8, <5>9
        <4> QED
          BY <4>3, <4>4
      <3> QED
        BY <2>2, <3>1, <3>2
    <2>6. \A n \in Message : Queued(n)' => job'[n] \notin {"settled", "refused"}
      BY <1>2, <2>3, <2>5, QueuesUnsettled DEF TypeOK
    <2>7. TypeOK'
      <3>1. /\ tabWindow' \in [Tab -> Window \cup {None}]
            /\ made' \in [Message -> Tab \cup {None}]
            /\ at' \in [Message -> {"idle", "theme", "list", "get", "update", "correlate",
                                   "create", "refuse", "done"}]
        BY <1>1, <1>2, <1>4 DEF TypeOK
      <3>2. \A u \in Tab : tabGroup[u] # None => tabWindow'[u] = groupWindow[tabGroup[u]]
        BY <1>4, <2>1 DEF TypeOK, Housed
      <3> QED
        BY <1>2, <2>3, <2>6, <3>1, <3>2 DEF TypeOK, Housed
    <2>8. Handling'
      BY <1>1, <1>2, <1>4 DEF Handling, TypeOK
    <2>9. Turns' /\ Found'
      <3> SUFFICES ASSUME NEW n \in Message, job[n] \in {"join", "group", "title"}
                   PROVE  Turn(n)'
        BY <1>2 DEF Turns, Found, Titled
      <3>1. Turn(n)
        BY DEF Turns
      <3>2. /\ window[n] \in Window /\ queue[window[n]] \in Seq(Message)
            /\ queue[window[n]] # << >> /\ queue[window[n]][1] = n
        BY <3>1, TurnFacts
      <3>3. /\ queue'[window[n]] \in Seq(Message) /\ queue'[window[n]] # << >>
            /\ queue'[window[n]][1] = n
        <4>1. CASE queue'[window[n]] = queue[window[n]]
          BY <3>2, <4>1
        <4>2. CASE queue'[window[n]] = Append(queue[window[n]], m)
          BY <3>2, <4>2
        <4> QED
          BY <1>1, <1>4, <3>2, <4>1, <4>2 DEF TypeOK
      <3>4. 1 \in DOMAIN queue'[window[n]]
        BY <3>3
      <3> QED
        BY <1>2, <3>2, <3>3, <3>4, BrokerAssumption DEF Turn, Queued, Range
    <2>10. Targets'
      BY <1>2 DEF Targets
    <2>11. Tabs'
      <3> SUFFICES ASSUME NEW u \in Tab, Unused(u)' PROVE tabWindow'[u] = None
        BY DEF Tabs
      <3>1. u # t /\ Unused(u)
        <4>1. made'[m] = t
          BY <1>4 DEF TypeOK
        <4>2. u # t
          BY <4>1 DEF Unused
        <4>3. \A n \in Message : made[n] # u
          <5> SUFFICES ASSUME NEW n \in Message PROVE made[n] # u
            OBVIOUS
          <5>1. CASE n # m
            BY <1>4, <5>1 DEF Unused, TypeOK
          <5>2. CASE n = m
            BY <5>2, <1>1, BrokerAssumption DEF Handling
          <5> QED
            BY <5>1, <5>2
        <4> QED
          BY <4>2, <4>3 DEF Unused
      <3> QED
        BY <1>4, <3>1 DEF Tabs, TypeOK
    <2>12. UniqueTitledGroup'
      BY <1>2 DEF UniqueTitledGroup
    <2> QED
      BY <2>5, <2>7, <2>8, <2>9, <2>10, <2>11, <2>12
  <1> QED
    BY <1>3, <1>4 DEF CreateTab

LEMMA HandlersKeep ==
    ASSUME IInv, NEW m \in Message, Receive(m) \/ Handle(m)
    PROVE  IInv'
  <1> USE DEF IInv, Goto, Respond
  <1>1. CASE Receive(m)
    <2>1. PICK f \in Frame : /\ frame' = [frame EXCEPT ![m] = f]
                             /\ at' = [at EXCEPT ![m] = FirstStep(f.type)]
      BY <1>1 DEF Receive
    <2>2. /\ at[m] = "idle"
          /\ UNCHANGED <<tabs, groups, caption, window, made, jobs, meddled, moves>>
      BY <1>1 DEF Receive
    <2>3. frame' \in [Message -> Frame \cup {NoReply}]
      BY <2>1 DEF TypeOK
    <2>4. \A n \in Message \ {m} : frame'[n] = frame[n]
      BY <2>1 DEF TypeOK
    <2>5. FirstStep(f.type) = "correlate" => frame'[m].type = "tabs.open"
      BY <2>1 DEF TypeOK, FirstStep
    <2>6. FirstStep(f.type) \in {"theme", "list", "get", "correlate", "refuse"}
      BY DEF FirstStep
    <2> QED
      BY <2>1, <2>2, <2>3, <2>4, <2>5, <2>6, HandlerKeeps DEF TypeOK
  <1>2. CASE Refuse(m) \/ ApplyTheme(m) \/ List(m) \/ GetTab(m) \/ UpdateTab(m)
    <2>1. PICK l \in {"update", "done"} : at' = [at EXCEPT ![m] = l]
      BY <1>2 DEF Refuse, ApplyTheme, List, GetTab, UpdateTab
    <2>2. /\ at[m] # "done"
          /\ UNCHANGED <<tabs, groups, caption, frame, window, made, jobs, meddled, moves>>
      BY <1>2 DEF Refuse, ApplyTheme, List, GetTab, UpdateTab
    <2> QED
      BY <2>1, <2>2, HandlerKeeps DEF TypeOK
  <1>3. CASE Correlate(m)
    <2>1. PICK l \in {"create", "done"} : at' = [at EXCEPT ![m] = l]
      BY <1>3 DEF Correlate
    <2>2. /\ at[m] = "correlate" /\ frame[m].type = "tabs.open"
          /\ UNCHANGED <<tabs, groups, caption, frame, made, jobs, meddled, moves>>
      BY <1>3 DEF Correlate, Handling
    <2>3. \/ at'[m] = "create" /\ \E w \in Window : window' = [window EXCEPT ![m] = w]
          \/ at'[m] = "done" /\ UNCHANGED window
      BY <1>3 DEF Correlate, TypeOK
    <2>4. /\ window' \in [Message -> Window \cup {None}]
          /\ \A n \in Message \ {m} : window'[n] = window[n]
          /\ l = "create" => window'[m] \in Window
      BY <2>1, <2>3 DEF TypeOK
    <2> QED
      BY <2>1, <2>2, <2>4, HandlerKeeps DEF TypeOK
  <1>4. CASE CreateTab(m)
    BY <1>4, CreateTabKeeps
  <1> QED
    BY <1>1, <1>2, <1>3, <1>4 DEF Handle

-----------------------------------------------------------------------------
(* The tabs and groups of Firefox.                                         *)

(* Tabs whose groups are where they are keep that when Firefox drops the   *)
(* groups that have become empty.                                          *)
LEMMA SettleKeeps ==
    ASSUME NEW gw \in [Group -> Window \cup {None}],
           tabGroup' \in [Tab -> Group \cup {None}],
           \A t \in Tab : tabGroup'[t] # None =>
               tabWindow'[t] = gw[tabGroup'[t]] /\ gw[tabGroup'[t]] # None,
           Settle(tabGroup', gw)
    PROVE  /\ groupWindow' \in [Group -> Window \cup {None}]
           /\ \A g \in Group : groupWindow'[g] \in {gw[g], None}
           /\ Housed'
  <1>1. /\ groupWindow' \in [Group -> Window \cup {None}]
        /\ \A g \in Group : groupWindow'[g] =
              IF \E t \in Tab : tabGroup'[t] = g THEN gw[g] ELSE None
    BY DEF Settle
  <1>2. \A g \in Group : groupWindow'[g] # None <=> \E t \in Tab : tabGroup'[t] = g
    BY <1>1, BrokerAssumption
  <1>3. \A t \in Tab : tabGroup'[t] # None => tabWindow'[t] = groupWindow'[tabGroup'[t]]
    BY <1>1
  <1> QED
    BY <1>1, <1>2, <1>3 DEF Housed

(* Groups that only disappear give nobody a double.                        *)
LEMMA ShrinkKeeps ==
    ASSUME IInv, UNCHANGED groupTitle,
           \A g \in Group : groupWindow'[g] \in {groupWindow[g], None}
    PROVE  UniqueTitledGroup'
  BY DEF IInv, UniqueTitledGroup

LEMMA MovesBounded ==
    ASSUME TypeOK, CountMove
    PROVE  moves' \in 0..MaxMoves
  BY BrokerAssumption DEF TypeOK, CountMove

(* The user moves or closes a tab.                                         *)
LEMMA UserKeeps ==
    ASSUME IInv, NEW t \in Tab, NEW w \in Window \cup {None},
           tabWindow[t] # None,
           tabWindow' = [tabWindow EXCEPT ![t] = w],
           tabGroup' = [tabGroup EXCEPT ![t] = None],
           Settle(tabGroup', groupWindow),
           meddled' = TRUE, CountMove,
           UNCHANGED <<groupTitle, caption, handler, jobs>>
    PROVE  IInv'
  <1> USE DEF IInv, handler, jobs
  <1>1. /\ tabWindow' \in [Tab -> Window \cup {None}]
        /\ tabGroup' \in [Tab -> Group \cup {None}]
        /\ groupWindow \in [Group -> Window \cup {None}]
    BY DEF TypeOK
  <1>2. \A u \in Tab : tabGroup'[u] # None =>
            tabWindow'[u] = groupWindow[tabGroup'[u]] /\ groupWindow[tabGroup'[u]] # None
    BY DEF TypeOK, Housed
  <1>3. /\ groupWindow' \in [Group -> Window \cup {None}]
        /\ \A g \in Group : groupWindow'[g] \in {groupWindow[g], None}
        /\ Housed'
    BY <1>1, <1>2, SettleKeeps
  <1>4. \A n \in Message : Queued(n)' => job'[n] \notin {"settled", "refused"}
    BY DEF TypeOK, Queued
  <1>5. TypeOK'
    BY <1>1, <1>3, <1>4, MovesBounded DEF TypeOK, Housed
  <1>6. Handling' /\ Queues' /\ Turns' /\ Targets'
    BY DEF Handling, Queues, Turns, Targets, Waits, Turn, Queued
  <1>7. Found'
    <2> SUFFICES ASSUME NEW n \in Message, job[n] \in {"group", "title"}
                 PROVE  /\ (Titled(window[n], frame[n].title) = {})'
                        /\ job[n] = "title" => /\ groupWindow'[target[n]] \in {window[n], None}
                                               /\ groupTitle[target[n]] = None
      BY DEF Found
    <2>1. window[n] \in Window
      BY TurnFacts DEF Turns
    <2> QED
      BY <1>3, <2>1, BrokerAssumption DEF Found, Titled, Turns
  <1>8. Tabs'
    <2>1. ~Unused(t)
      BY DEF Tabs
    <2> QED
      BY <2>1 DEF Tabs, Unused, TypeOK
  <1> QED
    BY <1>3, <1>5, <1>6, <1>7, <1>8, ShrinkKeeps

-----------------------------------------------------------------------------
(* The grouping jobs.                                                      *)

(* Two jobs past their queries are jobs of two windows.                    *)
LEMMA Apart ==
    ASSUME IInv, NEW m \in Message, NEW n \in Message, Turn(m), Turn(n), m # n
    PROVE  window[m] # window[n]
  BY TurnFacts

(* The job of m settles and leaves the queue.                              *)
LEMMA FinishKeeps ==
    ASSUME IInv, NEW m \in Message, Turn(m), NEW l \in {"settled", "refused"},
           Finish(m, l), UNCHANGED handler
    PROVE  /\ queue' \in [Window -> Seq(Message)]
           /\ job' \in [Message -> {"query", "join", "group", "title", "settled", "refused"}]
           /\ \A n \in Message : Queued(n)' => job'[n] \notin {"settled", "refused"}
           /\ Handling' /\ Queues' /\ Turns' /\ Targets'
  <1> USE DEF IInv, handler
  <1>1. /\ window[m] \in Window /\ queue[window[m]] \in Seq(Message)
        /\ queue[window[m]] # << >> /\ queue[window[m]][1] = m
        /\ Waits(m, window[m])
    BY TurnFacts
  <1>2. /\ queue' = [queue EXCEPT ![window[m]] = Tail(queue[window[m]])]
        /\ job' = [job EXCEPT ![m] = l]
        /\ target' = target
    BY DEF Finish, Settled
  <1>3. /\ Tail(queue[window[m]]) \in Seq(Message)
        /\ Len(Tail(queue[window[m]])) = Len(queue[window[m]]) - 1
        /\ \A i \in 1..Len(Tail(queue[window[m]])) :
              /\ Tail(queue[window[m]])[i] = queue[window[m]][i + 1]
              /\ i + 1 \in 1..Len(queue[window[m]])
    BY <1>1
  <1>4. queue' \in [Window -> Seq(Message)]
    BY <1>1, <1>2, <1>3 DEF TypeOK
  <1>5. job' \in [Message -> {"query", "join", "group", "title", "settled", "refused"}]
    BY <1>2 DEF TypeOK
  <1>6. \A n \in Message, w \in Window : Waits(n, w) /\ n # m => Waits(n, w)'
    BY <1>2 DEF Waits, TypeOK
  <1>7. Queues'
    <2> SUFFICES ASSUME NEW w \in Window, NEW i \in 1..Len(queue'[w]), NEW j \in 1..Len(queue'[w])
                 PROVE  /\ Waits(queue[w][i], w)'
                        /\ queue'[w][i] = queue'[w][j] => i = j
      BY DEF Queues
    <2>1. PICK n \in Message : n = queue'[w][i]
      BY <1>4
    <2>2. CASE w # window[m]
      <3>1. queue'[w] = queue[w]
        BY <1>2, <2>2 DEF TypeOK
      <3>2. Waits(n, w)
        BY <2>1, <3>1 DEF Queues
      <3>3. n # m
        BY <2>2, <3>2 DEF Waits
      <3> QED
        BY <1>6, <2>1, <3>1, <3>2, <3>3 DEF Queues
    <2>3. CASE w = window[m]
      <3>1. queue'[w] = Tail(queue[w])
        BY <1>1, <1>2, <2>3 DEF TypeOK
      <3>2. /\ queue'[w][i] = queue[w][i + 1] /\ i + 1 \in 1..Len(queue[w])
            /\ queue'[w][j] = queue[w][j + 1] /\ j + 1 \in 1..Len(queue[w])
        BY <1>3, <2>3, <3>1
      <3>3. Waits(n, w)
        BY <2>1, <3>2 DEF Queues
      <3>4. n # m
        <4>1. 1 \in 1..Len(queue[w]) /\ queue[w][1] = m
          BY <1>1, <2>3
        <4>2. i + 1 # 1
          BY <1>4
        <4> QED
          BY <2>1, <3>2, <4>1, <4>2 DEF Queues
      <3>5. queue'[w][i] = queue'[w][j] => i = j
        <4>1. queue[w][i + 1] = queue[w][j + 1] => i + 1 = j + 1
          BY <3>2 DEF Queues
        <4>2. i \in Int /\ j \in Int
          BY <1>4
        <4> QED
          BY <3>2, <4>1, <4>2
      <3> QED
        BY <1>6, <2>1, <3>3, <3>4, <3>5
    <2> QED
      BY <2>2, <2>3
  <1>8. \A n \in Message : Queued(n)' => job'[n] \notin {"settled", "refused"}
    BY <1>4, <1>7, QueuesUnsettled DEF TypeOK
  <1>9. Handling'
    BY <1>1, <1>2 DEF Handling, Waits, TypeOK
  <1>10. Turns'
    <2> SUFFICES ASSUME NEW n \in Message, job'[n] \in {"join", "group", "title"}
                 PROVE  Turn(n)' /\ (job'[n] \in {"join", "title"} => target[n] \in Group)
      BY <1>2 DEF Turns
    <2>1. n # m /\ job[n] = job'[n]
      BY <1>2 DEF TypeOK
    <2>2. Turn(n)
      BY <2>1 DEF Turns
    <2>3. window[n] # window[m] /\ window[n] \in Window
      BY <2>1, <2>2, Apart, TurnFacts
    <2>4. queue'[window[n]] = queue[window[n]]
      BY <1>2, <2>3 DEF TypeOK
    <2> QED
      BY <2>1, <2>2, <2>4 DEF Turn, Queued, Turns
  <1>11. Targets'
    BY <1>2 DEF Targets, TypeOK
  <1> QED
    BY <1>4, <1>5, <1>7, <1>8, <1>9, <1>10, <1>11

(* The job of m goes on to its next call.                                  *)
LEMMA ContinueKeeps ==
    ASSUME IInv, NEW m \in Message, Turn(m), NEW l \in {"join", "group", "title"},
           NEW g \in Group \cup {None}, Continue(m, l, g), UNCHANGED handler,
           l \in {"join", "title"} => g \in Group,
           l = "title" => \A n \in Message : target[n] # g
    PROVE  /\ queue' \in [Window -> Seq(Message)]
           /\ job' \in [Message -> {"query", "join", "group", "title", "settled", "refused"}]
           /\ target' \in [Message -> Group \cup {None}]
           /\ \A n \in Message : Queued(n)' => job'[n] \notin {"settled", "refused"}
           /\ Handling' /\ Queues' /\ Turns' /\ Targets'
  <1> USE DEF IInv, handler
  <1>1. Waits(m, window[m])
    BY TurnFacts
  <1>2. /\ job' = [job EXCEPT ![m] = l]
        /\ target' = [target EXCEPT ![m] = g]
        /\ queue' = queue
    BY DEF Continue
  <1>3. \A n \in Message, w \in Window : Waits(n, w) => Waits(n, w)'
    BY <1>2 DEF Waits, TypeOK
  <1>4. Queues'
    <2> SUFFICES ASSUME NEW w \in Window, NEW i \in 1..Len(queue[w]), NEW j \in 1..Len(queue[w])
                 PROVE  /\ Waits(queue[w][i], w)'
                        /\ queue[w][i] = queue[w][j] => i = j
      BY <1>2 DEF Queues
    <2>1. PICK n \in Message : n = queue[w][i]
      BY DEF TypeOK
    <2> QED
      BY <1>2, <1>3, <2>1 DEF Queues
  <1>5. \A n \in Message : Queued(n)' => job'[n] \notin {"settled", "refused"}
    BY <1>2 DEF TypeOK, Queued
  <1>6. Handling'
    BY <1>1, <1>2 DEF Handling, Waits, TypeOK
  <1>7. Turns'
    BY <1>2 DEF Turns, Turn, Queued, TypeOK
  <1>8. Targets'
    BY <1>2 DEF Targets, TypeOK
  <1> QED
    BY <1>2, <1>4, <1>5, <1>6, <1>7, <1>8 DEF TypeOK

LEMMA QueryGroupsKeeps ==
    ASSUME IInv, NEW m \in Message, QueryGroups(m)
    PROVE  IInv'
  <1> USE DEF IInv
  <1>1. /\ Turn(m)
        /\ UNCHANGED <<tabWindow, tabGroup, groupWindow, groupTitle, caption, handler, meddled, moves>>
        /\ UNCHANGED <<at, frame, window, made>>
    BY DEF QueryGroups, tabs, groups, handler
  <1>2. Tabs' /\ UniqueTitledGroup'
    BY <1>1 DEF Tabs, Unused, UniqueTitledGroup
  <1>3. ASSUME NEW l \in {"settled", "refused"}, Finish(m, l)
        PROVE  IInv'
    <2>1. job' = [job EXCEPT ![m] = l] /\ target' = target
      BY <1>3 DEF Finish
    <2>2. TypeOK'
      BY <1>1, <1>3, <2>1, FinishKeeps DEF TypeOK, Housed
    <2>3. Found'
      BY <1>1, <2>1 DEF Found, Titled, TypeOK
    <2> QED
      BY <1>1, <1>2, <1>3, <2>2, <2>3, FinishKeeps
  <1>4. ASSUME NEW g \in Group, Continue(m, "join", g)
        PROVE  IInv'
    <2>1. job' = [job EXCEPT ![m] = "join"] /\ target' = [target EXCEPT ![m] = g]
      BY <1>4 DEF Continue
    <2>2. TypeOK'
      BY <1>1, <1>4, <2>1, ContinueKeeps DEF TypeOK, Housed
    <2>3. Found'
      BY <1>1, <2>1 DEF Found, Titled, TypeOK
    <2> QED
      BY <1>1, <1>2, <1>4, <2>2, <2>3, ContinueKeeps
  <1>5. CASE Titled(window[m], frame[m].title) = {} /\ Continue(m, "group", None)
    <2>1. job' = [job EXCEPT ![m] = "group"] /\ target' = [target EXCEPT ![m] = None]
      BY <1>5 DEF Continue
    <2>2. TypeOK'
      BY <1>1, <1>5, <2>1, ContinueKeeps DEF TypeOK, Housed
    <2>3. Found'
      BY <1>1, <1>5, <2>1 DEF Found, Titled, TypeOK
    <2> QED
      BY <1>1, <1>2, <1>5, <2>2, <2>3, ContinueKeeps
  <1> QED
    BY <1>3, <1>4, <1>5 DEF QueryGroups, Titled

LEMMA TitleGroupKeeps ==
    ASSUME IInv, NEW m \in Message, TitleGroup(m)
    PROVE  IInv'
  <1> USE DEF IInv
  <1>1. /\ job[m] = "title" /\ Turn(m) /\ target[m] \in Group
        /\ groupWindow[target[m]] \in {window[m], None}
        /\ Titled(window[m], frame[m].title) = {}
        /\ window[m] \in Window /\ frame[m].title \in Title
    BY TurnFacts DEF TitleGroup, Turns, Found, Waits
  <1>2. PICK l \in {"settled", "refused"} :
        /\ UNCHANGED <<tabWindow, tabGroup, groupWindow, caption, handler, meddled, moves>>
        /\ UNCHANGED <<at, frame, window, made>>
        /\ Finish(m, l)
        /\ job' = [job EXCEPT ![m] = l] /\ target' = target
        /\ \/ UNCHANGED groupTitle
           \/ groupTitle' = [groupTitle EXCEPT ![target[m]] = frame[m].title]
    BY DEF TitleGroup, tabs, handler, Finish
  <1>3. TypeOK'
    <2>1. groupTitle' \in [Group -> Title \cup {None}]
      BY <1>1, <1>2 DEF TypeOK
    <2> QED
      BY <1>1, <1>2, <2>1, FinishKeeps DEF TypeOK, Housed
  <1>4. Found'
    <2> SUFFICES ASSUME NEW n \in Message, job'[n] \in {"group", "title"}
                 PROVE  /\ (Titled(window[n], frame[n].title) = {})'
                        /\ job'[n] = "title" => /\ groupWindow[target[n]] \in {window[n], None}
                                                /\ groupTitle'[target[n]] = None
      BY <1>2 DEF Found
    <2>1. n # m /\ job[n] = job'[n]
      BY <1>2 DEF TypeOK
    <2>2. Turn(n) /\ window[n] \in Window
      BY <2>1, TurnFacts DEF Turns
    <2>3. window[n] # window[m]
      BY <1>1, <2>1, <2>2, Apart
    <2>4. \A g \in Group : groupWindow[g] = window[n] => groupTitle'[g] = groupTitle[g]
      BY <1>1, <1>2, <2>2, <2>3, BrokerAssumption DEF TypeOK
    <2>5. (Titled(window[n], frame[n].title) = {})'
      BY <1>2, <2>1, <2>4 DEF Found, Titled
    <2>6. job'[n] = "title" => target[n] # target[m] /\ target[n] \in Group
      BY <1>1, <2>1 DEF Targets, Turns
    <2>7. job'[n] = "title" => /\ groupWindow[target[n]] \in {window[n], None}
                              /\ groupTitle'[target[n]] = None
      <3>1. job'[n] = "title" => groupTitle'[target[n]] = groupTitle[target[n]]
        BY <1>2, <2>6 DEF TypeOK
      <3> QED
        BY <2>1, <3>1 DEF Found
    <2> QED
      BY <2>5, <2>7
  <1>5. UniqueTitledGroup'
    BY <1>1, <1>2, BrokerAssumption DEF UniqueTitledGroup, Titled, TypeOK
  <1>6. Tabs'
    BY <1>2 DEF Tabs, Unused
  <1> QED
    BY <1>1, <1>2, <1>3, <1>4, <1>5, <1>6, FinishKeeps

(* A tab goes into group g, in w.                                          *)
LEMMA PutInKeeps ==
    ASSUME IInv, NEW t \in Tab, NEW g \in Group, NEW w \in Window,
           PutIn(t, g, w), groupWindow[g] \in {None, w}
    PROVE  /\ tabWindow' \in [Tab -> Window \cup {None}]
           /\ tabGroup' \in [Tab -> Group \cup {None}]
           /\ groupWindow' \in [Group -> Window \cup {None}]
           /\ Housed'
           /\ groupWindow'[g] = w
           /\ \A h \in Group \ {g} : groupWindow'[h] \in {groupWindow[h], None}
  <1> USE DEF IInv
  <1>1. /\ tabWindow' = [tabWindow EXCEPT ![t] = w]
        /\ tabGroup' = [tabGroup EXCEPT ![t] = g]
        /\ Settle(tabGroup', [groupWindow EXCEPT ![g] = w])
    BY DEF PutIn
  <1>2. /\ tabWindow' \in [Tab -> Window \cup {None}]
        /\ tabGroup' \in [Tab -> Group \cup {None}]
        /\ [groupWindow EXCEPT ![g] = w] \in [Group -> Window \cup {None}]
    BY <1>1 DEF TypeOK
  <1>3. PICK gw \in [Group -> Window \cup {None}] : gw = [groupWindow EXCEPT ![g] = w]
    BY <1>2
  <1>4. gw[g] = w /\ \A h \in Group \ {g} : gw[h] = groupWindow[h]
    BY <1>3 DEF TypeOK
  <1>5. \A u \in Tab : tabGroup'[u] # None =>
            tabWindow'[u] = gw[tabGroup'[u]] /\ gw[tabGroup'[u]] # None
    <2> SUFFICES ASSUME NEW u \in Tab, tabGroup'[u] # None
                 PROVE  tabWindow'[u] = gw[tabGroup'[u]] /\ gw[tabGroup'[u]] # None
      OBVIOUS
    <2>1. CASE u = t
      BY <1>1, <1>4, <2>1, BrokerAssumption DEF TypeOK
    <2>2. CASE u # t
      <3>1. tabGroup'[u] = tabGroup[u] /\ tabWindow'[u] = tabWindow[u] /\ tabGroup[u] \in Group
        BY <1>1, <2>2 DEF TypeOK
      <3>2. /\ tabWindow[u] = groupWindow[tabGroup[u]]
            /\ groupWindow[tabGroup[u]] # None
        BY <3>1 DEF TypeOK, Housed
      <3> QED
        BY <1>4, <3>1, <3>2
    <2> QED
      BY <2>1, <2>2
  <1>6. /\ groupWindow' \in [Group -> Window \cup {None}]
        /\ \A h \in Group : groupWindow'[h] \in {gw[h], None}
        /\ Housed'
    <2>1. Settle(tabGroup', gw)
      BY <1>1, <1>3
    <2> QED
      BY <1>2, <1>5, <2>1, SettleKeeps
  <1>7. groupWindow'[g] = w
    <2>1. tabGroup'[t] = g
      BY <1>1 DEF TypeOK
    <2> QED
      BY <1>4, <1>6, <2>1, BrokerAssumption DEF Housed
  <1> QED
    BY <1>2, <1>4, <1>6, <1>7

(* A tab that was made is not one that was not.                            *)
LEMMA TabsKeep ==
    ASSUME IInv, NEW m \in Message, made[m] \in Tab, NEW w,
           tabWindow' = [tabWindow EXCEPT ![made[m]] = w], made' = made
    PROVE  Tabs'
  BY DEF IInv, Tabs, Unused, TypeOK

LEMMA JoinGroupKeeps ==
    ASSUME IInv, NEW m \in Message, JoinGroup(m)
    PROVE  IInv'
  <1> USE DEF IInv
  <1>1. /\ job[m] = "join" /\ Turn(m) /\ target[m] \in Group /\ made[m] \in Tab
    BY TurnFacts DEF JoinGroup, Turns, Waits
  <1>2. PICK l \in {"settled", "refused"} :
        /\ UNCHANGED <<groupTitle, caption, handler, meddled, moves>>
        /\ UNCHANGED <<at, frame, window, made>>
        /\ Finish(m, l)
        /\ job' = [job EXCEPT ![m] = l] /\ target' = target
    BY DEF JoinGroup, handler, Finish
  <1>3. /\ tabWindow' \in [Tab -> Window \cup {None}]
        /\ tabGroup' \in [Tab -> Group \cup {None}]
        /\ groupWindow' \in [Group -> Window \cup {None}]
        /\ Housed' /\ Tabs'
        /\ \A h \in Group : groupWindow'[h] \in {groupWindow[h], None}
    <2>1. CASE groupWindow[target[m]] # None /\ PutIn(made[m], target[m], groupWindow[target[m]])
      <3>1. PICK w \in Window : w = groupWindow[target[m]]
        BY <1>1, <2>1 DEF TypeOK
      <3>2. PutIn(made[m], target[m], w) /\ groupWindow[target[m]] \in {None, w}
        BY <2>1, <3>1
      <3>3. tabWindow' = [tabWindow EXCEPT ![made[m]] = w]
        BY <3>2 DEF PutIn
      <3> QED
        BY <1>1, <1>2, <3>1, <3>2, <3>3, PutInKeeps, TabsKeep
    <2>2. CASE UNCHANGED <<tabs, groupWindow>>
      BY <1>2, <2>2 DEF tabs, TypeOK, Housed, Tabs, Unused
    <2> QED
      BY <2>1, <2>2 DEF JoinGroup
  <1>4. TypeOK'
    BY <1>1, <1>2, <1>3, FinishKeeps DEF TypeOK, Housed
  <1>5. Found'
    <2> SUFFICES ASSUME NEW n \in Message, job'[n] \in {"group", "title"}
                 PROVE  /\ (Titled(window[n], frame[n].title) = {})'
                        /\ job'[n] = "title" => /\ groupWindow'[target[n]] \in {window[n], None}
                                                /\ groupTitle[target[n]] = None
      BY <1>2 DEF Found
    <2>1. job[n] = job'[n]
      BY <1>2 DEF TypeOK
    <2>2. window[n] \in Window
      BY <2>1, TurnFacts DEF Turns
    <2> QED
      BY <1>2, <1>3, <2>1, <2>2, BrokerAssumption DEF Found, Titled, Turns
  <1>6. UniqueTitledGroup'
    BY <1>2, <1>3, ShrinkKeeps
  <1> QED
    BY <1>1, <1>2, <1>3, <1>4, <1>5, <1>6, FinishKeeps

LEMMA MakeGroupKeeps ==
    ASSUME IInv, NEW m \in Message, MakeGroup(m)
    PROVE  IInv'
  <1> USE DEF IInv
  <1>1. /\ job[m] = "group" /\ Turn(m) /\ made[m] \in Tab /\ window[m] \in Window
        /\ Titled(window[m], frame[m].title) = {} /\ frame[m].title \in Title
    BY TurnFacts DEF MakeGroup, Turns, Found, Waits
  <1>2. /\ UNCHANGED <<caption, handler, meddled, moves>>
        /\ UNCHANGED <<at, frame, window, made>>
    BY DEF MakeGroup, handler
  <1>3. CASE Finish(m, "refused") /\ UNCHANGED <<tabs, groups>>
    <2>1. /\ job' = [job EXCEPT ![m] = "refused"] /\ target' = target
          /\ UNCHANGED <<tabWindow, tabGroup, groupWindow, groupTitle>>
      BY <1>3 DEF Finish, tabs, groups
    <2>2. TypeOK'
      BY <1>1, <1>2, <1>3, <2>1, FinishKeeps DEF TypeOK, Housed
    <2>3. Found' /\ Tabs' /\ UniqueTitledGroup'
      BY <1>2, <2>1 DEF Found, Titled, TypeOK, Tabs, Unused, UniqueTitledGroup
    <2> QED
      BY <1>1, <1>2, <1>3, <2>2, <2>3, FinishKeeps
  <1>4. ASSUME NEW g \in Group, groupWindow[g] = None, \A n \in Message : target[n] # g,
               PutIn(made[m], g, window[m]),
               groupTitle' = [groupTitle EXCEPT ![g] = None],
               Continue(m, "title", g)
        PROVE  IInv'
    <2>1. /\ job' = [job EXCEPT ![m] = "title"] /\ target' = [target EXCEPT ![m] = g]
          /\ tabWindow' = [tabWindow EXCEPT ![made[m]] = window[m]]
      BY <1>4 DEF Continue, PutIn
    <2>2. /\ tabWindow' \in [Tab -> Window \cup {None}]
          /\ tabGroup' \in [Tab -> Group \cup {None}]
          /\ groupWindow' \in [Group -> Window \cup {None}]
          /\ Housed'
          /\ groupWindow'[g] = window[m]
          /\ \A h \in Group \ {g} : groupWindow'[h] \in {groupWindow[h], None}
      BY <1>1, <1>4, PutInKeeps
    <2>3. Tabs'
      BY <1>1, <1>2, <2>1, TabsKeep
    <2>4. groupTitle' \in [Group -> Title \cup {None}]
      BY <1>4 DEF TypeOK
    <2>5. TypeOK'
      BY <1>1, <1>2, <1>4, <2>2, <2>4, ContinueKeeps DEF TypeOK, Housed
    <2>6. \A h \in Group, w \in Window, s \in Title :
             groupWindow'[h] = w /\ groupTitle'[h] = s => groupWindow[h] = w /\ groupTitle[h] = s
      BY <1>4, <2>2, BrokerAssumption DEF TypeOK
    <2>7. Found'
      <3> SUFFICES ASSUME NEW n \in Message, job'[n] \in {"group", "title"}
                   PROVE  /\ (Titled(window[n], frame[n].title) = {})'
                          /\ job'[n] = "title" => /\ groupWindow'[target'[n]] \in {window[n], None}
                                                  /\ groupTitle'[target'[n]] = None
        BY <1>2 DEF Found
      <3>1. job[n] \in {"group", "title"}
        BY <1>1, <2>1 DEF TypeOK
      <3>2. window[n] \in Window /\ frame[n].title \in Title
        BY <3>1, TurnFacts DEF Turns, Waits
      <3>3. (Titled(window[n], frame[n].title) = {})'
        BY <1>2, <2>6, <3>1, <3>2 DEF Found, Titled
      <3>4. CASE n = m
        BY <1>4, <2>1, <2>2, <3>3, <3>4 DEF TypeOK
      <3>5. CASE n # m
        <4>1. job'[n] = job[n] /\ target'[n] = target[n] /\ target[n] # g
          BY <1>4, <2>1, <3>5
        <4> QED
          BY <1>4, <2>2, <3>3, <4>1 DEF Found, Turns, TypeOK
      <3> QED
        BY <3>4, <3>5
    <2>8. UniqueTitledGroup'
      <3> SUFFICES ASSUME NEW h \in Group, NEW k \in Group,
                          groupWindow'[h] = groupWindow'[k], groupWindow'[h] # None,
                          groupTitle'[h] = groupTitle'[k], groupTitle'[h] # None
                   PROVE  h = k \/ {h, k} \subseteq Grouped
        BY DEF UniqueTitledGroup
      <3>1. h # g /\ k # g
        BY <1>4 DEF TypeOK
      <3>2. /\ groupTitle[h] = groupTitle[k] /\ groupTitle[h] # None
            /\ groupWindow[h] = groupWindow[k] /\ groupWindow[h] # None
        BY <1>4, <2>2, <3>1 DEF TypeOK
      <3> QED
        BY <3>2 DEF UniqueTitledGroup
    <2> QED
      BY <1>1, <1>2, <1>4, <2>3, <2>5, <2>7, <2>8, ContinueKeeps
  <1> QED
    BY <1>3, <1>4 DEF MakeGroup, Fresh

-----------------------------------------------------------------------------

LEMMA StepInv ==
    ASSUME IInv, [Next]_vars
    PROVE  IInv'
  <1>1. ASSUME NEW m \in Message, Receive(m) \/ Handle(m) PROVE IInv'
    BY <1>1, HandlersKeep
  <1>2. ASSUME NEW m \in Message, Attach(m) PROVE IInv'
    BY <1>2, QueryGroupsKeeps, JoinGroupKeeps, MakeGroupKeeps, TitleGroupKeeps DEF Attach
  <1>3. ASSUME NEW w \in Window, ChangeCaption(w) PROVE IInv'
    <2>1. /\ caption' \in [Window -> Caption]
          /\ UNCHANGED <<tabWindow, tabGroup, groupWindow, groupTitle, at, frame, window,
                         made, queue, job, target, meddled>>
          /\ moves' \in 0..MaxMoves
      BY <1>3, MovesBounded DEF ChangeCaption, IInv, TypeOK, tabs, groups, handler, jobs
    <2> QED
      BY <2>1 DEF IInv, TypeOK, Housed, Handling, Queues, Waits, Turns, Turn, Queued, Found, Titled,
                  Targets, Tabs, Unused, UniqueTitledGroup
  <1>4. ASSUME NEW t \in Tab, CloseTab(t) PROVE IInv'
    BY <1>4, UserKeeps DEF CloseTab
  <1>5. ASSUME NEW t \in Tab, NEW w \in Window, MoveTab(t, w) PROVE IInv'
    BY <1>5, UserKeeps DEF MoveTab
  <1>6. CASE UNCHANGED vars
    BY <1>6 DEF vars, tabs, groups, handler, jobs, IInv, TypeOK, Housed, Handling, Queues, Waits, Turns,
                Turn, Queued, Found, Titled, Targets, Tabs, Unused, UniqueTitledGroup
  <1> QED
    BY <1>1, <1>2, <1>3, <1>4, <1>5, <1>6 DEF Next

LEMMA Invariance == Spec => []IInv
  BY InitInv, StepInv, PTL DEF Spec

(* Types, that a group is where its tabs are and is gone when they are,    *)
(* and that no settled job stays in a queue (broker.js:200-226).           *)
THEOREM BrokerIsTyped == Spec => []TypeOK
  <1>1. IInv => TypeOK
    BY DEF IInv
  <1> QED
    BY Invariance, <1>1, PTL

(* Never two groups of one title in a window, however many opens, windows  *)
(* and groups there are and whatever the user does (broker.js:200-226).    *)
THEOREM OneGroupPerTitle == Spec => []UniqueTitledGroup
  <1>1. IInv => UniqueTitledGroup
    BY DEF IInv
  <1> QED
    BY Invariance, <1>1, PTL

-----------------------------------------------------------------------------
(* As long as the user keeps his hands off, every tab gets into its group. *)

(* No two opens made the same tab.                                         *)
Distinct == \A m, n \in Message : made[m] = made[n] /\ made[m] # None => m = n

(* How far an open that waits for its grouping has come.                   *)
OnItsWay(m) ==
    /\ tabWindow[made[m]] = window[m]
    /\ job[m] \in {"query", "join", "group"} => tabGroup[made[m]] = None
    /\ job[m] = "join" => /\ groupWindow[target[m]] = window[m]
                          /\ groupTitle[target[m]] = frame[m].title
    /\ job[m] = "title" => tabGroup[made[m]] = target[m]

(* One that waits is on its way, one whose job has settled is there or was *)
(* left alone.                                                             *)
Tended(m) ==
    /\ Queued(m) => OnItsWay(m)
    /\ job[m] = "settled" =>
          /\ made[m] \in Tab /\ window[m] \in Window /\ frame[m].title \in Title
          /\ Filed(m) \/ Doubled(m)

Filing == Distinct /\ (~meddled => \A m \in Message : Tended(m))

LEMMA FilingInit == Init => Filing
  BY BrokerAssumption DEF Init, Filing, Distinct, Tended, Queued, Range

(* Who is in a queue has been answered.                                    *)
LEMMA QueuedFacts ==
    ASSUME IInv, NEW m \in Message, NEW w \in Window, m \in Range(queue[w])
    PROVE  Waits(m, w)
  <1>1. PICK k \in DOMAIN queue[w] : queue[w][k] = m
    BY DEF Range
  <1>2. k \in 1..Len(queue[w])
    BY <1>1 DEF IInv, TypeOK
  <1> QED
    BY <1>1, <1>2 DEF IInv, Queues

(* An open is tended as long as nothing touches its tab or a group that    *)
(* has a title.                                                            *)
LEMMA OthersKeep ==
    ASSUME IInv, NEW n \in Message, Tended(n),
           Queued(n)' => Queued(n),
           UNCHANGED <<window[n], frame[n], made[n], job[n], target[n]>>,
           UNCHANGED <<tabWindow[made[n]], tabGroup[made[n]]>>,
           \A h \in Group : groupWindow[h] # None /\ groupTitle[h] # None =>
               groupWindow'[h] = groupWindow[h] /\ groupTitle'[h] = groupTitle[h]
    PROVE  Tended(n)'
  <1>1. ASSUME Queued(n)' PROVE OnItsWay(n)'
    <2>1. Queued(n) /\ OnItsWay(n)
      BY <1>1 DEF Tended
    <2>2. window[n] \in Window /\ frame[n].title \in Title
      BY <2>1, Place DEF Waits
    <2>3. job[n] = "join" => target[n] \in Group
      BY DEF IInv, Turns
    <2>4. job[n] = "join" => groupWindow'[target[n]] = window[n] /\ groupTitle'[target[n]] = frame[n].title
      BY <2>1, <2>2, <2>3, BrokerAssumption DEF OnItsWay
    <2> QED
      BY <2>1, <2>4 DEF OnItsWay
  <1>2. ASSUME job'[n] = "settled"
        PROVE  /\ made'[n] \in Tab /\ window'[n] \in Window /\ frame'[n].title \in Title
               /\ Filed(n)' \/ Doubled(n)'
    <2>1. /\ made[n] \in Tab /\ window[n] \in Window /\ frame[n].title \in Title
          /\ Filed(n) \/ Doubled(n)
      BY <1>2 DEF Tended
    <2>2. CASE Filed(n)
      <3>1. tabGroup[made[n]] \in Group
        BY <2>1, <2>2 DEF Filed, IInv, TypeOK
      <3>2. groupWindow[tabGroup[made[n]]] # None /\ groupTitle[tabGroup[made[n]]] # None
        BY <2>1, <2>2, <3>1, BrokerAssumption DEF Filed, IInv, TypeOK, Housed
      <3> QED
        BY <2>1, <2>2, <3>1, <3>2 DEF Filed
    <2>3. CASE Doubled(n)
      <3>1. \A g \in Titled(window[n], frame[n].title) : g \in Titled(window[n], frame[n].title)'
        BY <2>1, BrokerAssumption DEF Titled
      <3> QED
        BY <2>1, <2>3, <3>1 DEF Doubled
    <2> QED
      BY <2>1, <2>2, <2>3
  <1> QED
    BY <1>1, <1>2 DEF Tended

(* A handler that makes no tab touches nothing of an open that waits.      *)
LEMMA HandlersTend ==
    ASSUME IInv, Filing, NEW m \in Message, Receive(m) \/ Handle(m)
    PROVE  Filing'
  <1>1. CASE ~CreateTab(m)
    <2>1. /\ at[m] # "done"
          /\ UNCHANGED <<tabWindow, tabGroup, groupWindow, groupTitle, made, queue, job, target, meddled>>
          /\ \A n \in Message \ {m} : frame'[n] = frame[n] /\ window'[n] = window[n]
          /\ window' \in [Message -> Window \cup {None}]
      <3>1. frame \in [Message -> Frame \cup {NoReply}] /\ window \in [Message -> Window \cup {None}]
        BY DEF IInv, TypeOK
      <3>2. CASE Receive(m)
        BY <3>1, <3>2 DEF Receive, tabs, groups, jobs
      <3>3. CASE Correlate(m)
        BY <3>1, <3>3 DEF Correlate, tabs, groups, jobs
      <3>4. CASE Refuse(m) \/ ApplyTheme(m) \/ List(m) \/ GetTab(m) \/ UpdateTab(m)
        BY <3>1, <3>4 DEF Refuse, ApplyTheme, List, GetTab, UpdateTab, tabs, groups, jobs
      <3> QED
        BY <1>1, <3>2, <3>3, <3>4 DEF Handle
    <2>2. job[m] = "query"
      BY <2>1 DEF IInv, Handling
    <2>3. ~Queued(m)'
      BY <2>1, QueuedFacts DEF Queued, Waits
    <2>4. ASSUME ~meddled, NEW n \in Message PROVE Tended(n)'
      <3>1. CASE n = m
        BY <2>1, <2>2, <2>3, <3>1 DEF Tended
      <3>2. CASE n # m
        BY <2>1, <2>4, <3>2, OthersKeep DEF Filing, Queued
      <3> QED
        BY <3>1, <3>2
    <2> QED
      BY <2>1, <2>4 DEF Filing, Distinct
  <1>2. CASE CreateTab(m)
    <2>1. /\ at[m] = "create" /\ job[m] = "query" /\ window[m] \in Window
          /\ UNCHANGED <<tabGroup, groupWindow, groupTitle, frame, window, job, target, meddled>>
      BY <1>2 DEF CreateTab, IInv, Handling, groups
    <2>2. CASE UNCHANGED <<tabWindow, made, queue>>
      <3>1. \A n \in Message : Tended(n) => Tended(n)'
        BY <2>1, <2>2 DEF Tended, Queued, OnItsWay, Filed, Doubled, Titled
      <3> QED
        BY <2>1, <2>2, <3>1 DEF Filing, Distinct
    <2>3. ASSUME NEW t \in Tab, Unused(t),
                 tabWindow' = [tabWindow EXCEPT ![t] = window[m]],
                 made' = [made EXCEPT ![m] = t],
                 queue' = IF frame[m].title = None THEN queue
                          ELSE [queue EXCEPT ![window[m]] = Append(@, m)]
          PROVE  Filing'
      <3>1. made'[m] = t /\ \A n \in Message \ {m} : made'[n] = made[n] /\ made[n] # t
        BY <2>3 DEF Unused, IInv, TypeOK
      <3>2. Distinct'
        BY <3>1 DEF Filing, Distinct
      <3>3. tabWindow'[t] = window[m] /\ tabGroup[t] = None
        BY <2>3 DEF IInv, TypeOK, Housed, Tabs
      <3>4. ASSUME ~meddled PROVE Tended(m)'
        BY <2>1, <3>1, <3>3 DEF Tended, OnItsWay
      <3>5. ASSUME NEW n \in Message \ {m}, Queued(n)' PROVE Queued(n)
        <4>1. window[n] \in Window /\ queue[window[n]] \in Seq(Message)
          BY <2>1, <3>5, BrokerAssumption DEF Queued, IInv, TypeOK
        <4>2. queue'[window[n]] \in {queue[window[n]], Append(queue[window[n]], m)}
          BY <2>1, <2>3, <4>1 DEF IInv, TypeOK
        <4>3. PICK i \in DOMAIN queue'[window[n]] : queue'[window[n]][i] = n
          BY <2>1, <3>5 DEF Queued, Range
        <4>4. i \in DOMAIN queue[window[n]] /\ queue[window[n]][i] = n
          BY <3>5, <4>1, <4>2, <4>3
        <4> QED
          BY <4>1, <4>4, BrokerAssumption DEF Queued, Range
      <3>6. ASSUME ~meddled, NEW n \in Message \ {m} PROVE Tended(n)'
        <4>1. tabWindow'[made[n]] = tabWindow[made[n]]
          BY <2>3, <3>1 DEF IInv, TypeOK
        <4> QED
          BY <2>1, <3>1, <3>5, <3>6, <4>1, OthersKeep DEF Filing
      <3> QED
        BY <2>1, <3>2, <3>4, <3>6 DEF Filing
    <2> QED
      BY <1>2, <2>2, <2>3 DEF CreateTab
  <1> QED
    BY <1>1, <1>2

(* A job leaves the queue when it settles; the others stay.                *)
LEMMA FinishLeaves ==
    ASSUME IInv, NEW m \in Message, Turn(m), NEW l, Finish(m, l), window' = window
    PROVE  /\ ~Queued(m)'
           /\ \A n \in Message \ {m} : Queued(n)' <=> Queued(n)
  <1>1. /\ window[m] \in Window /\ queue[window[m]] \in Seq(Message)
        /\ queue[window[m]] # << >> /\ queue[window[m]][1] = m
    BY TurnFacts
  <1>2. queue' = [queue EXCEPT ![window[m]] = Tail(queue[window[m]])]
    BY DEF Finish, Settled
  <1> DEFINE q == queue[window[m]]
  <1>3. /\ Len(q) \in Nat \ {0} /\ Len(Tail(q)) = Len(q) - 1
        /\ \A i \in 1..Len(Tail(q)) : Tail(q)[i] = q[i + 1]
        /\ DOMAIN q = 1..Len(q) /\ DOMAIN Tail(q) = 1..Len(Tail(q))
    BY <1>1
  <1>4. ASSUME NEW n \in Message
        PROVE  n \in Range(Tail(q)) <=> n \in Range(q) /\ n # m
    <2>1. ASSUME n \in Range(Tail(q)) PROVE n \in Range(q) /\ n # m
      <3>1. PICK i \in 1..Len(Tail(q)) : Tail(q)[i] = n
        BY <1>3, <2>1 DEF Range
      <3>2. i + 1 \in 1..Len(q) /\ q[i + 1] = n /\ i + 1 # 1
        BY <1>3, <3>1
      <3>3. 1 \in 1..Len(q) /\ q[1] # q[i + 1]
        BY <1>1, <1>3, <3>2 DEF IInv, Queues
      <3> QED
        BY <1>1, <1>3, <3>2, <3>3 DEF Range
    <2>2. ASSUME n \in Range(q), n # m PROVE n \in Range(Tail(q))
      <3>1. PICK i \in 1..Len(q) : q[i] = n
        BY <1>3, <2>2 DEF Range
      <3>2. i # 1
        BY <1>1, <2>2, <3>1
      <3>3. i - 1 \in 1..Len(Tail(q)) /\ Tail(q)[i - 1] = q[(i - 1) + 1] /\ (i - 1) + 1 = i
        BY <1>3, <3>1, <3>2
      <3> QED
        BY <1>3, <3>1, <3>3 DEF Range
    <2> QED
      BY <2>1, <2>2
  <1>5. \A w \in Window : queue'[w] = IF w = window[m] THEN Tail(q) ELSE queue[w]
    BY <1>1, <1>2 DEF IInv, TypeOK
  <1>6. \A n \in Message : window[n] \in Window \cup {None}
    BY DEF IInv, TypeOK
  <1> HIDE DEF q
  <1>7. ~Queued(m)'
    BY <1>1, <1>4, <1>5 DEF Queued
  <1>8. ASSUME NEW n \in Message \ {m} PROVE Queued(n)' <=> Queued(n)
    <2>1. CASE window[n] = None
      BY <2>1 DEF Queued
    <2>2. CASE window[n] = window[m]
      BY <1>1, <1>4, <1>5, <2>2 DEF Queued, q
    <2>3. CASE window[n] \in Window \ {window[m]}
      BY <1>5, <2>3 DEF Queued
    <2> QED
      BY <1>6, <2>1, <2>2, <2>3
  <1> QED
    BY <1>7, <1>8

LEMMA QueryGroupsTends ==
    ASSUME IInv, Filing, NEW m \in Message, QueryGroups(m)
    PROVE  Filing'
  <1>1. /\ job[m] = "query" /\ Turn(m) /\ Queued(m)
        /\ window[m] \in Window /\ frame[m].title \in Title
        /\ UNCHANGED <<tabWindow, tabGroup, groupWindow, groupTitle, frame, window, made, meddled>>
    BY TurnFacts DEF QueryGroups, Turn, Waits, tabs, groups, handler
  <1> DEFINE matches == Titled(window[m], frame[m].title)
  <1>2. ASSUME ~meddled, NEW n \in Message PROVE Tended(n)'
    <2>1. tabWindow[made[m]] = window[m] /\ tabGroup[made[m]] = None /\ made[m] \in Tab
      BY <1>1, <1>2, TurnFacts DEF Filing, Tended, OnItsWay, Waits
    <2>2. ASSUME NEW l \in {"join", "group"}, NEW g \in Group \cup {None},
                 Continue(m, l, g), l = "join" => g \in matches
          PROVE  Tended(n)'
      <3>1. /\ queue' = queue /\ job'[m] = l /\ target'[m] = g
            /\ \A k \in Message \ {m} : job'[k] = job[k] /\ target'[k] = target[k]
        BY <2>2 DEF Continue, IInv, TypeOK
      <3>2. CASE n = m
        BY <1>1, <2>1, <2>2, <3>1, <3>2 DEF Tended, OnItsWay, Titled
      <3>3. CASE n # m
        BY <1>1, <1>2, <3>1, <3>3, OthersKeep DEF Filing, Queued
      <3> QED
        BY <3>2, <3>3
    <2>3. ASSUME NEW l \in {"settled", "refused"}, Finish(m, l), l = "settled" => Doubled(m)
          PROVE  Tended(n)'
      <3>1. /\ job'[m] = l /\ target' = target /\ ~Queued(m)'
            /\ \A k \in Message \ {m} : job'[k] = job[k] /\ (Queued(k)' <=> Queued(k))
        BY <1>1, <2>3, FinishLeaves DEF Finish, IInv, TypeOK
      <3>2. CASE n = m
        BY <1>1, <2>1, <2>3, <3>1, <3>2 DEF Tended, Doubled, Titled
      <3>3. CASE n # m
        BY <1>1, <1>2, <3>1, <3>3, OthersKeep DEF Filing
      <3> QED
        BY <3>2, <3>3
    <2>4. Cardinality(matches) > 1 => Doubled(m)
      <3> SUFFICES ASSUME ~Doubled(m) PROVE Cardinality(matches) \in {0, 1}
        OBVIOUS
      <3>1. matches = {} \/ \E g \in Group : matches = {g}
        BY <1>1, <2>1, BrokerAssumption DEF Doubled, Titled
      <3> QED
        BY <3>1, FS_EmptySet, FS_Singleton
    <2>5. CASE Cardinality(matches) > 1 /\ Finish(m, "settled")
      BY <2>3, <2>4, <2>5
    <2>6. CASE \E g \in matches : Continue(m, "join", g)
      BY <2>2, <2>6 DEF Titled
    <2>7. CASE Continue(m, "group", None)
      BY <2>2, <2>7
    <2>8. CASE Finish(m, "refused")
      BY <2>3, <2>8
    <2> QED
      BY <2>5, <2>6, <2>7, <2>8 DEF QueryGroups
  <1> QED
    BY <1>1, <1>2 DEF Filing, Distinct

(* A tab that was in no group takes no group's last tab with it.           *)
LEMMA PutInFree ==
    ASSUME IInv, NEW t \in Tab, NEW g \in Group, NEW w \in Window,
           tabGroup[t] = None, PutIn(t, g, w), groupWindow[g] \in {None, w}
    PROVE  /\ tabWindow' = [tabWindow EXCEPT ![t] = w] /\ tabGroup' = [tabGroup EXCEPT ![t] = g]
           /\ groupWindow'[g] = w
           /\ \A h \in Group : groupWindow[h] # None => groupWindow'[h] = groupWindow[h]
  <1>1. /\ tabWindow' = [tabWindow EXCEPT ![t] = w]
        /\ tabGroup' = [tabGroup EXCEPT ![t] = g]
        /\ groupWindow' = [h \in Group |-> IF \E u \in Tab : tabGroup'[u] = h
                                           THEN [groupWindow EXCEPT ![g] = w][h] ELSE None]
    BY DEF PutIn, Settle
  <1>2. \A u \in Tab \ {t} : tabGroup'[u] = tabGroup[u]
    BY <1>1 DEF IInv, TypeOK
  <1>3. tabGroup'[t] = g
    BY <1>1 DEF IInv, TypeOK
  <1>4. groupWindow'[g] = w
    BY <1>1, <1>3 DEF IInv, TypeOK
  <1>5. ASSUME NEW h \in Group, groupWindow[h] # None PROVE groupWindow'[h] = groupWindow[h]
    <2>1. CASE h = g
      BY <1>4, <1>5, <2>1
    <2>2. CASE h # g
      <3>1. PICK u \in Tab : tabGroup[u] = h
        BY <1>5 DEF IInv, TypeOK, Housed
      <3>2. tabGroup'[u] = h
        BY <1>2, <3>1, BrokerAssumption
      <3> QED
        BY <1>1, <2>2, <3>2 DEF IInv, TypeOK
    <2> QED
      BY <2>1, <2>2
  <1> QED
    BY <1>1, <1>4, <1>5

(* What the other opens see of a step that puts m's tab somewhere.         *)
LEMMA ElsewhereKeeps ==
    ASSUME IInv, Filing, ~meddled, NEW m \in Message, NEW n \in Message \ {m}, made[m] \in Tab,
           UNCHANGED <<frame, window, made, job[n], target[n]>>,
           Queued(n)' => Queued(n),
           \A u \in Tab \ {made[m]} : tabWindow'[u] = tabWindow[u] /\ tabGroup'[u] = tabGroup[u],
           \A h \in Group : groupWindow[h] # None /\ groupTitle[h] # None =>
               groupWindow'[h] = groupWindow[h] /\ groupTitle'[h] = groupTitle[h]
    PROVE  Tended(n)'
  <1>1. CASE made[n] = None
    <2>1. ~Queued(n)
      <3>1. Queued(n) => made[n] \in Tab
        BY Place DEF Waits
      <3> QED
        BY <1>1, <3>1, BrokerAssumption
    <2>2. job[n] # "settled"
      BY <1>1, BrokerAssumption DEF Filing, Tended
    <2> QED
      BY <2>1, <2>2 DEF Tended
  <1>2. CASE made[n] # None
    <2>1. made[n] \in Tab \ {made[m]}
      BY <1>2 DEF Filing, Distinct, IInv, TypeOK
    <2>2. Tended(n)
      BY DEF Filing
    <2> QED
      BY <2>1, <2>2, OthersKeep
  <1> QED
    BY <1>1, <1>2

(* A job that Firefox refuses a call leaves everything as it is.           *)
LEMMA RefusedTends ==
    ASSUME IInv, Filing, NEW m \in Message, Turn(m), Finish(m, "refused"),
           UNCHANGED <<tabs, groups, handler, meddled>>
    PROVE  Filing'
  <1>1. UNCHANGED <<tabWindow, tabGroup, groupWindow, groupTitle, frame, window, made>>
    BY DEF tabs, groups, handler
  <1>2. /\ job'[m] = "refused" /\ target' = target /\ ~Queued(m)'
        /\ \A n \in Message \ {m} : job'[n] = job[n] /\ (Queued(n)' <=> Queued(n))
    BY <1>1, FinishLeaves DEF Finish, IInv, TypeOK
  <1>3. ASSUME ~meddled, NEW n \in Message PROVE Tended(n)'
    <2>1. CASE n = m
      BY <1>2, <2>1 DEF Tended
    <2>2. CASE n # m
      BY <1>1, <1>2, <1>3, <2>2, OthersKeep DEF Filing
    <2> QED
      BY <2>1, <2>2
  <1> QED
    BY <1>1, <1>3 DEF Filing, Distinct

LEMMA JoinGroupTends ==
    ASSUME IInv, Filing, NEW m \in Message, JoinGroup(m)
    PROVE  Filing'
  <1>1. /\ job[m] = "join" /\ Turn(m) /\ Queued(m) /\ target[m] \in Group /\ made[m] \in Tab
        /\ window[m] \in Window /\ frame[m].title \in Title
        /\ UNCHANGED <<groupTitle, frame, window, made, meddled, handler>>
    BY TurnFacts DEF JoinGroup, IInv, Turns, Turn, Waits, handler
  <1>2. CASE Finish(m, "refused") /\ UNCHANGED <<tabs, groupWindow>>
    BY <1>1, <1>2, RefusedTends DEF groups
  <1>3. CASE Finish(m, "settled") /\ PutIn(made[m], target[m], groupWindow[target[m]])
    <2>1. /\ job'[m] = "settled" /\ target' = target /\ ~Queued(m)'
          /\ \A n \in Message \ {m} : job'[n] = job[n] /\ (Queued(n)' <=> Queued(n))
      BY <1>1, <1>3, FinishLeaves DEF Finish, IInv, TypeOK
    <2>2. ASSUME ~meddled PROVE \A n \in Message : Tended(n)'
      <3>1. /\ tabWindow[made[m]] = window[m] /\ tabGroup[made[m]] = None
            /\ groupWindow[target[m]] = window[m] /\ groupTitle[target[m]] = frame[m].title
        BY <1>1, <2>2 DEF Filing, Tended, OnItsWay
      <3>2. /\ tabWindow' = [tabWindow EXCEPT ![made[m]] = window[m]]
            /\ tabGroup' = [tabGroup EXCEPT ![made[m]] = target[m]]
            /\ \A h \in Group : groupWindow[h] # None => groupWindow'[h] = groupWindow[h]
        BY <1>1, <1>3, <3>1, PutInFree
      <3>3. /\ tabWindow'[made[m]] = window[m] /\ tabGroup'[made[m]] = target[m]
            /\ \A u \in Tab \ {made[m]} : tabWindow'[u] = tabWindow[u] /\ tabGroup'[u] = tabGroup[u]
        BY <1>1, <3>2 DEF IInv, TypeOK
      <3>4. Tended(m)'
        BY <1>1, <2>1, <3>1, <3>3, BrokerAssumption DEF Tended, Filed
      <3>5. ASSUME NEW n \in Message \ {m} PROVE Tended(n)'
        BY <1>1, <2>1, <2>2, <3>2, <3>3, ElsewhereKeeps
      <3> QED
        BY <3>4, <3>5
    <2> QED
      BY <1>1, <2>2 DEF Filing, Distinct
  <1> QED
    BY <1>2, <1>3 DEF JoinGroup

LEMMA MakeGroupTends ==
    ASSUME IInv, Filing, NEW m \in Message, MakeGroup(m)
    PROVE  Filing'
  <1>1. /\ job[m] = "group" /\ Turn(m) /\ Queued(m) /\ made[m] \in Tab
        /\ window[m] \in Window
        /\ UNCHANGED <<frame, window, made, meddled, handler>>
    BY TurnFacts DEF MakeGroup, IInv, Turns, Turn, Waits, handler
  <1>2. CASE Finish(m, "refused") /\ UNCHANGED <<tabs, groups>>
    BY <1>1, <1>2, RefusedTends
  <1>3. ASSUME NEW g \in Group, groupWindow[g] = None,
               PutIn(made[m], g, window[m]),
               groupTitle' = [groupTitle EXCEPT ![g] = None],
               Continue(m, "title", g)
        PROVE  Filing'
    <2>1. /\ queue' = queue
          /\ job'[m] = "title" /\ target'[m] = g
          /\ \A n \in Message \ {m} : job'[n] = job[n] /\ target'[n] = target[n]
      BY <1>3 DEF Continue, IInv, TypeOK
    <2>2. ASSUME ~meddled PROVE \A n \in Message : Tended(n)'
      <3>1. tabWindow[made[m]] = window[m] /\ tabGroup[made[m]] = None
        BY <1>1, <2>2 DEF Filing, Tended, OnItsWay
      <3>2. /\ tabWindow' = [tabWindow EXCEPT ![made[m]] = window[m]]
            /\ tabGroup' = [tabGroup EXCEPT ![made[m]] = g]
            /\ \A h \in Group : groupWindow[h] # None => groupWindow'[h] = groupWindow[h]
        BY <1>1, <1>3, <3>1, PutInFree
      <3>3. /\ tabWindow'[made[m]] = window[m] /\ tabGroup'[made[m]] = g
            /\ \A u \in Tab \ {made[m]} : tabWindow'[u] = tabWindow[u] /\ tabGroup'[u] = tabGroup[u]
        BY <1>1, <3>2 DEF IInv, TypeOK
      <3>4. Tended(m)'
        BY <1>1, <2>1, <3>3 DEF Tended, OnItsWay
      <3>5. \A h \in Group : groupWindow[h] # None =>
               groupWindow'[h] = groupWindow[h] /\ groupTitle'[h] = groupTitle[h]
        BY <1>3, <3>2 DEF IInv, TypeOK
      <3>6. ASSUME NEW n \in Message \ {m} PROVE Tended(n)'
        <4>1. Queued(n)' => Queued(n)
          BY <1>1, <2>1 DEF Queued
        <4> QED
          BY <1>1, <2>1, <2>2, <3>3, <3>5, <4>1, ElsewhereKeeps
      <3> QED
        BY <3>4, <3>6
    <2> QED
      BY <1>1, <2>2 DEF Filing, Distinct
  <1> QED
    BY <1>2, <1>3 DEF MakeGroup, Fresh

LEMMA TitleGroupTends ==
    ASSUME IInv, Filing, NEW m \in Message, TitleGroup(m)
    PROVE  Filing'
  <1>1. /\ job[m] = "title" /\ Turn(m) /\ Queued(m) /\ target[m] \in Group /\ made[m] \in Tab
        /\ window[m] \in Window /\ frame[m].title \in Title
        /\ groupTitle[target[m]] = None
        /\ UNCHANGED <<tabWindow, tabGroup, groupWindow, frame, window, made, meddled>>
        /\ UNCHANGED <<tabs, handler>>
    BY TurnFacts DEF TitleGroup, IInv, Turns, Found, Turn, Waits, handler, tabs
  <1>2. CASE Finish(m, "refused") /\ UNCHANGED groupTitle
    BY <1>1, <1>2, RefusedTends DEF groups
  <1>3. CASE /\ Finish(m, "settled")
             /\ groupTitle' = [groupTitle EXCEPT ![target[m]] = frame[m].title]
    <2>1. /\ job'[m] = "settled" /\ target' = target /\ ~Queued(m)'
          /\ \A n \in Message \ {m} : job'[n] = job[n] /\ (Queued(n)' <=> Queued(n))
      BY <1>1, <1>3, FinishLeaves DEF Finish, IInv, TypeOK
    <2>2. groupTitle'[target[m]] = frame[m].title
          /\ \A h \in Group \ {target[m]} : groupTitle'[h] = groupTitle[h]
      BY <1>1, <1>3 DEF IInv, TypeOK
    <2>3. ASSUME ~meddled PROVE \A n \in Message : Tended(n)'
      <3>1. tabWindow[made[m]] = window[m] /\ tabGroup[made[m]] = target[m]
        BY <1>1, <2>3 DEF Filing, Tended, OnItsWay
      <3>2. Tended(m)'
        BY <1>1, <2>1, <2>2, <3>1, BrokerAssumption DEF Tended, Filed
      <3>3. ASSUME NEW n \in Message \ {m} PROVE Tended(n)'
        BY <1>1, <2>1, <2>2, <2>3, ElsewhereKeeps
      <3> QED
        BY <3>2, <3>3
    <2> QED
      BY <1>1, <2>3 DEF Filing, Distinct
  <1> QED
    BY <1>2, <1>3 DEF TitleGroup

LEMMA FilingStep ==
    ASSUME IInv, Filing, [Next]_vars
    PROVE  Filing'
  <1>1. ASSUME NEW m \in Message, Receive(m) \/ Handle(m) PROVE Filing'
    BY <1>1, HandlersTend
  <1>2. ASSUME NEW m \in Message, Attach(m) PROVE Filing'
    BY <1>2, QueryGroupsTends, JoinGroupTends, MakeGroupTends, TitleGroupTends DEF Attach
  <1>3. ASSUME NEW t \in Tab, CloseTab(t) \/ \E w \in Window : MoveTab(t, w) PROVE Filing'
    BY <1>3 DEF CloseTab, MoveTab, Filing, Distinct, handler
  <1>4. CASE UNCHANGED <<tabs, groups, handler, jobs, meddled>>
    BY <1>4 DEF tabs, groups, handler, jobs, Filing, Distinct, Tended, Queued, OnItsWay, Filed, Doubled, Titled
  <1> QED
    BY <1>1, <1>2, <1>3, <1>4 DEF Next, ChangeCaption, vars

(* Until the user moves or closes a tab, every open whose grouping has     *)
(* settled is in a group of its title in its window, whatever the others   *)
(* do, for any number of them (broker.js:200-226).                         *)
THEOREM SettledMeansFiled == Spec => []SettledIsFiled
  <1>1. Spec => []Filing
    BY FilingInit, FilingStep, Invariance, PTL DEF Spec
  <1>2. Filing => SettledIsFiled
    BY DEF Filing, Tended, SettledIsFiled
  <1> QED
    BY <1>1, <1>2, PTL

(* Only by its end does a job leave its queue, and it stays at its end.    *)
LEMMA LeavesEnded ==
    ASSUME IInv, NEW m \in Message, Queued(m) \/ job[m] \in {"settled", "refused"}, [Next]_vars
    PROVE  /\ Queued(m) => Queued(m)' \/ job'[m] \in {"settled", "refused"}
           /\ job[m] \in {"settled", "refused"} => job'[m] = job[m]
  <1>1. at[m] = "done"
    <2>1. Queued(m) => at[m] = "done"
      BY Place DEF Waits
    <2> QED
      BY <2>1, PastQuery
  <1>2. ASSUME NEW n \in Message, Receive(n) \/ (Handle(n) /\ ~CreateTab(n))
        PROVE  UNCHANGED <<queue, job, window[m]>>
    <2>1. at[n] # "done"
      BY <1>2 DEF Receive, Handle, Refuse, ApplyTheme, List, GetTab, UpdateTab, Correlate
    <2> QED
      BY <1>1, <1>2, <2>1 DEF Receive, Handle, Refuse, ApplyTheme, List, GetTab, UpdateTab, Correlate,
           jobs, IInv, TypeOK
  <1>3. ASSUME NEW n \in Message, CreateTab(n)
        PROVE  /\ UNCHANGED <<job, window>>
               /\ Queued(m) => Queued(m)'
    <2>1. UNCHANGED <<job, window>>
      BY <1>3 DEF CreateTab
    <2>2. ASSUME Queued(m) PROVE Queued(m)'
      <3>1. window[m] \in Window /\ queue[window[m]] \in Seq(Message)
        BY <2>2, Place DEF IInv, TypeOK
      <3>2. window[n] \in Window
        BY <1>3 DEF CreateTab, IInv, Handling
      <3>3. queue'[window[m]] \in {queue[window[m]], Append(queue[window[m]], n)}
        BY <1>3, <3>1, <3>2 DEF CreateTab, IInv, TypeOK
      <3>4. PICK i \in 1..Len(queue[window[m]]) : queue[window[m]][i] = m
        BY <2>2, Place
      <3>5. i \in DOMAIN queue'[window[m]] /\ queue'[window[m]][i] = m
        BY <3>1, <3>3, <3>4
      <3> QED
        BY <2>1, <3>1, <3>5, BrokerAssumption DEF Queued, Range
    <2> QED
      BY <2>1, <2>2
  <1>4. ASSUME NEW n \in Message, Attach(n)
        PROVE  /\ window' = window
               /\ \/ /\ queue' = queue /\ job[n] \notin {"settled", "refused"}
                     /\ \A k \in Message \ {n} : job'[k] = job[k]
                  \/ Turn(n) /\ \E l \in {"settled", "refused"} : Finish(n, l)
    BY <1>4 DEF Attach, QueryGroups, JoinGroup, MakeGroup, TitleGroup, Continue, handler, IInv, Turns, TypeOK
  <1>5. ASSUME NEW n \in Message, Attach(n)
        PROVE  /\ Queued(m) => Queued(m)' \/ job'[m] \in {"settled", "refused"}
               /\ job[m] \in {"settled", "refused"} => job'[m] = job[m]
    <2>1. CASE /\ queue' = queue /\ job[n] \notin {"settled", "refused"}
               /\ \A k \in Message \ {n} : job'[k] = job[k]
      BY <1>4, <1>5, <2>1 DEF Queued
    <2>2. ASSUME NEW l \in {"settled", "refused"}, Turn(n), Finish(n, l)
          PROVE  /\ Queued(m) => Queued(m)' \/ job'[m] \in {"settled", "refused"}
                 /\ job[m] \in {"settled", "refused"} => job'[m] = job[m]
      <3>1. job'[n] = l /\ \A k \in Message \ {n} : job'[k] = job[k]
        BY <2>2 DEF Finish, IInv, TypeOK
      <3>2. job[n] \notin {"settled", "refused"}
        BY <2>2, TurnFacts DEF Waits
      <3>3. \A k \in Message \ {n} : Queued(k)' <=> Queued(k)
        BY <1>4, <1>5, <2>2, FinishLeaves
      <3> QED
        BY <3>1, <3>2, <3>3
    <2> QED
      BY <1>4, <1>5, <2>1, <2>2
  <1>6. CASE UNCHANGED <<queue, job, window>>
    BY <1>6 DEF Queued
  <1>7. ASSUME NEW n \in Message, Receive(n) \/ Handle(n)
        PROVE  /\ Queued(m) => Queued(m)' \/ job'[m] \in {"settled", "refused"}
               /\ job[m] \in {"settled", "refused"} => job'[m] = job[m]
    BY <1>2, <1>3, <1>7 DEF Queued
  <1>8. ASSUME NEW t \in Tab, CloseTab(t) \/ \E w \in Window : MoveTab(t, w)
        PROVE  UNCHANGED <<queue, job, window>>
    BY <1>8 DEF CloseTab, MoveTab, jobs, handler
  <1>9. ASSUME NEW w \in Window, ChangeCaption(w) PROVE UNCHANGED <<queue, job, window>>
    BY <1>9 DEF ChangeCaption, jobs, handler
  <1>10. CASE UNCHANGED vars
    BY <1>10, <1>6 DEF vars, jobs, handler
  <1> QED
    BY <1>5, <1>6, <1>7, <1>8, <1>9, <1>10 DEF Next

(* What the fairness of the browser has to give is that queues drain: that *)
(* every open of an undisturbed user ends up filed, for good, follows      *)
(* (broker.js:200-226, 307-321).                                           *)
THEOREM DrainedMeansFiled == Spec /\ QueueDrains => EveryOpenFiled
  <1>1. ASSUME NEW m \in Message
        PROVE  Spec /\ (Queued(m) ~> ~Queued(m)) /\ []~meddled =>
                   (Queued(m) ~> [](Filed(m) \/ Doubled(m) \/ job[m] = "refused"))
    <2>1. IInv /\ [Next]_vars /\ Queued(m) =>
              Queued(m)' \/ (job[m] = "settled")' \/ (job[m] = "refused")'
      BY LeavesEnded
    <2>2. IInv /\ [Next]_vars /\ job[m] = "settled" => (job[m] = "settled")'
      BY LeavesEnded
    <2>3. IInv /\ [Next]_vars /\ job[m] = "refused" => (job[m] = "refused")'
      BY LeavesEnded
    <2>4. Filing /\ ~meddled /\ job[m] = "settled" => Filed(m) \/ Doubled(m)
      BY DEF Filing, Tended
    <2>5. Spec => []Filing
      BY FilingInit, FilingStep, Invariance, PTL DEF Spec
    <2> QED
      BY <2>1, <2>2, <2>3, <2>4, <2>5, Invariance, PTL DEF Spec
  <1> QED
    BY <1>1 DEF QueueDrains, EveryOpenFiled
=============================================================================
