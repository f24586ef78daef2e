----------------------------- MODULE Background -----------------------------
(***************************************************************************)
(* The extension's background script (background.js): the native port to   *)
(* the host, the reconnect alarm with its backoff, and the message         *)
(* handlers that may outlive the port they were called for.                *)
(*                                                                         *)
(* Event listeners run to completion, one at a time; only handleMessage    *)
(* awaits.  Firefox suspends the page when it is idle without a port, and  *)
(* loads the script anew when the alarm goes off: the variables start      *)
(* over, the alarm does not.                                               *)
(***************************************************************************)
EXTENDS Integers, FiniteSets

CONSTANTS
    Port,          \* identities of native ports, reused once forgotten
    None,          \* no port
    MaxHandling    \* bound: handlers of one port at a time

ASSUME BackgroundAssumption == None \notin Port /\ MaxHandling \in Nat

FirstBackoff == 1000
MAX_BACKOFF_MS == 60000
NoAlarm == 0
Smaller(a, b) == IF a < b THEN a ELSE b

(* Bound: failures are counted until the backoff cannot grow any more.     *)
Saturated == 6
OneMore(n) == Smaller(n + 1, Saturated)

VARIABLES
    page,       \* the script is loaded: "up" or "suspended"
    port,
    live,       \* ports whose host runs
    handling,   \* handlers waiting for the browser, by their sourcePort
    alarm,      \* delay of the pending reconnect alarm in ms
    backoffMs,
    failures    \* history: failures since the script was loaded or a message of
                \* the current port was handled

vars == <<page, port, live, handling, alarm, backoffMs, failures>>

-----------------------------------------------------------------------------
(* Mutant: a failed connection waits for the next start of Firefox.        *)
ScheduleNothing == UNCHANGED <<alarm, backoffMs>> /\ failures' = OneMore(failures)

(* An alarm of the same name replaces the pending one.                     *)
ScheduleReconnect ==
    /\ alarm' = backoffMs
    /\ backoffMs' = Smaller(backoffMs * 2, MAX_BACKOFF_MS)
    /\ failures' = OneMore(failures)

(* Mutant: connect does not look for a port that is already there.         *)
MayConnectAgain == TRUE

MayConnect == port = None

(* Firefox starts the host and returns a port.                             *)
Connected(pending) ==
    /\ \E p \in Port : /\ p # port /\ p \notin live /\ handling[p] = 0
                       /\ port' = p
                       /\ live' = live \cup {p}
    /\ alarm' = pending
    /\ UNCHANGED <<backoffMs, failures>>

(* connect: nothing to do, a new port, or connectNative throws.            *)
Connect(pending) ==
    \/ /\ ~MayConnect
       /\ alarm' = pending
       /\ UNCHANGED <<port, live, backoffMs, failures>>
    \/ MayConnect /\ Connected(pending)
    \/ MayConnect /\ ScheduleReconnect /\ UNCHANGED <<port, live>>

(* The script was just loaded and has called connect.                      *)
Init ==
    /\ page = "up"
    /\ \/ port = None /\ live = {} /\ alarm = FirstBackoff
          /\ backoffMs = 2 * FirstBackoff /\ failures = 1
       \/ port \in Port /\ live = {port} /\ alarm = NoAlarm
          /\ backoffMs = FirstBackoff /\ failures = 0
    /\ handling = [p \in Port |-> 0]

-----------------------------------------------------------------------------
(* onStartup and onInstalled.                                              *)
Startup ==
    /\ page = "up"
    /\ Connect(alarm)
    /\ UNCHANGED <<page, handling>>

(* The alarm goes off.  A suspended page is loaded first, and loading      *)
(* connects; its listener then finds a port or tries again, like Startup.  *)
AlarmFires ==
    /\ alarm # NoAlarm
    /\ page' = "up"
    /\ Connect(NoAlarm)
    /\ UNCHANGED handling

(* The host's process ends; Firefox has still to tell the script.          *)
HostEnds(p) ==
    /\ p \in live
    /\ live' = live \ {p}
    /\ UNCHANGED <<page, port, handling, alarm, backoffMs, failures>>

(* Mutant: the variable keeps the port that is gone.                       *)
HandleDisconnectKept(p) ==
    /\ p = port /\ p \notin live
    /\ ScheduleReconnect
    /\ UNCHANGED <<page, port, live, handling>>

(* onDisconnect of the port.                                               *)
HandleDisconnect(p) ==
    /\ p = port /\ p \notin live
    /\ port' = None
    /\ ScheduleReconnect
    /\ UNCHANGED <<page, live, handling>>

(* A message of the host: the handler starts and awaits the browser.       *)
HandleMessage(p) ==
    /\ p = port /\ p \in live
    /\ handling[p] < MaxHandling
    /\ handling' = [handling EXCEPT ![p] = @ + 1]
    /\ UNCHANGED <<page, port, live, alarm, backoffMs, failures>>

(* Mutant: any handled message resets the backoff.                         *)
CurrentAny(p) == TRUE

Current(p) == port = p

(* The handler goes on: the message was handled, or it was not one for the *)
(* broker, or the broker threw.                                            *)
Handled(p) ==
    /\ handling[p] > 0
    /\ handling' = [handling EXCEPT ![p] = @ - 1]
    /\ \/ /\ Current(p)
          /\ backoffMs' = FirstBackoff
          /\ failures' = IF port = p THEN 0 ELSE failures
       \/ UNCHANGED <<backoffMs, failures>>
    /\ UNCHANGED <<page, port, live, alarm>>

(* Firefox suspends the idle page.                                         *)
Suspend ==
    /\ page = "up"
    /\ port = None
    /\ \A p \in Port : handling[p] = 0
    /\ page' = "suspended"
    /\ backoffMs' = FirstBackoff
    /\ failures' = 0
    /\ UNCHANGED <<port, live, handling, alarm>>

-----------------------------------------------------------------------------

Next ==
    \/ Startup \/ AlarmFires \/ Suspend
    \/ \E p \in Port : \/ HostEnds(p) \/ HandleDisconnect(p)
                       \/ HandleMessage(p) \/ Handled(p)

(* Firefox delivers alarms, disconnects and results.  That the host can be *)
(* started every now and then is a premise about the installation.         *)
HostStarts == SF_vars(AlarmFires /\ port' # None)

Spec ==
    /\ Init /\ [][Next]_vars
    /\ WF_vars(AlarmFires)
    /\ \A p \in Port : WF_vars(HandleDisconnect(p)) /\ WF_vars(Handled(p))

RetrySpec == Spec /\ HostStarts

-----------------------------------------------------------------------------

(* Types, and that a suspended page has no port and no handler.            *)
TypeOK ==
    /\ page \in {"up", "suspended"}
    /\ port \in Port \cup {None}
    /\ live \subseteq Port
    /\ handling \in [Port -> 0..MaxHandling]
    /\ alarm \in Nat /\ alarm <= MAX_BACKOFF_MS
    /\ backoffMs \in FirstBackoff..MAX_BACKOFF_MS
    /\ failures \in 0..Saturated
    /\ page = "suspended" => port = None /\ \A p \in Port : handling[p] = 0

(* Without a port there is an alarm that will ask for one, whichever of    *)
(* the disconnect, a throwing connectNative, Firefox's own start-up events *)
(* and the suspension of the page came last (background.js:8-19, 36-56).   *)
NeverStranded == port = None => alarm # NoAlarm

(* The script never runs two hosts: the start-up events and a late alarm   *)
(* find the port that is there (background.js:37).                         *)
OneHost == live \subseteq {port}

(* The delay doubles with every failure since the last message of the      *)
(* current host, up to the maximum; the late end of a handler for a host   *)
(* that is gone does not start the doubling over (background.js:10, 30).   *)
Doubled[n \in Nat] ==
    IF n = 0 THEN FirstBackoff ELSE Smaller(2 * Doubled[n - 1], MAX_BACKOFF_MS)
BackoffCountsFailures == backoffMs = Doubled[failures]

(* Whenever the host is gone the extension gets another                    *)
(* (background.js:8-19, 36-56).                                            *)
Reconnects == (live = {}) ~> (live # {})
=============================================================================
