--------------------------- MODULE BridgeMessages ---------------------------
(***************************************************************************)
(* What local clients ask of the native host, what it tells them, and what *)
(* the extension answers to its frames: the vocabulary of host.py.  URLs,  *)
(* titles and group names never decide what the host does once they are    *)
(* valid, so a request is its action and, for activate, the pair it names. *)
(***************************************************************************)
EXTENDS Integers

CONSTANTS
    Pair,         \* (windowId, tabId) pairs
    Snapshots,    \* the tab lists the extension may report, as sets of pairs
    OPEN_ERRORS   \* errors of tabs.open that are relayed to the client

ASSUME SnapshotAssumption == Snapshots \subseteq SUBSET Pair

(* What a client asks.  "malformed" is every request whose action, fields  *)
(* or values the handler refuses before it touches any state.              *)
Request ==
    [action : {"tabs", "open", "malformed"}] \cup [action : {"activate"}, pair : Pair]

NoRequest == [action |-> "none"]

(* What the extension may answer to a frame.  "unexpected" is any message  *)
(* of another type, and a tabs.result whose list validate_snapshot refuses.*)
TabsAnswer     == [type : {"tabs.result"}, tabs : Snapshots]
ActivateAnswer == [type : {"tabs.activated"}, ok : BOOLEAN]
OpenAnswer     == [type : {"tabs.opened"}, error : OPEN_ERRORS \cup {"none", "unlisted"}]
Unexpected     == [type : {"unexpected"}]

Answer == TabsAnswer \cup ActivateAnswer \cup OpenAnswer \cup Unexpected

AnswerTo(action) == Unexpected \cup IF action = "tabs" THEN TabsAnswer
                                    ELSE IF action = "open" THEN OpenAnswer
                                    ELSE ActivateAnswer

Framed == {"tabs", "activate", "open"}    \* the actions the extension hears of

(* What the client is told.                                                *)
ErrorCode == {"unavailable", "timeout", "bridge-error", "stale-tab",
              "invalid-request"} \cup OPEN_ERRORS
Failure == [tag : {"failed"}, error : ErrorCode]
Success == [tag : {"ok"}] \cup [tag : {"tabs"}, tabs : Snapshots]
Failed(e) == [tag |-> "failed", error |-> e]
=============================================================================
