----------------------------- MODULE ThemeWatch -----------------------------
(***************************************************************************)
(* How the palette on disk reaches Firefox: watch_theme and                *)
(* read_theme_message (theme.py) and push_theme (host.py).                 *)
(*                                                                         *)
(* The watcher thread runs inotifywait on Omarchy's "current" directory    *)
(* and reads its report of names through a buffered text stream.  Python's *)
(* readline empties the pipe into the stream's buffer and returns the      *)
(* first line; select, which decides whether to call readline at all, sees *)
(* the pipe only.  A reported theme arms a deadline; when it has passed    *)
(* the palette is read and sent.  The main thread pushes once at startup,  *)
(* concurrently.                                                           *)
(***************************************************************************)
EXTENDS Integers, Sequences

CONSTANTS
    OtherNames,   \* names besides "theme" that appear in the directory
    Unreadable,   \* palettes read_theme_message refuses
    QuietStart,   \* the directory is left alone until the host has started
    MaxEvents     \* bound: changes of the directory

ASSUME ThemeAssumption ==
    /\ "theme" \notin OtherNames
    /\ Unreadable \subseteq Nat
    /\ QuietStart \in BOOLEAN
    /\ MaxEvents \in Nat

NoTheme == -1    \* Firefox shows its own colors

VARIABLES
    theme,      \* the palette on disk, by its place in the history of palettes
    events,     \* changes of the directory so far
    watch,      \* inotifywait: "off", "on" or "ended"
    pipe,       \* names reported and not yet read
    buffer,     \* names read and not yet returned by readline
    deadline,   \* "none", "armed" or "past"
    push,       \* where the main thread and the watcher are in push_theme
    palette,    \* the palette each of them has read
    shown       \* the palette Firefox was sent last

disk      == <<theme, events>>
stream    == <<pipe, buffer>>
pushing   == <<push, palette, shown>>
watchVars == <<disk, watch, stream, deadline, pushing>>

WatchInit ==
    /\ theme = 0
    /\ events = 0
    /\ watch = "off"
    /\ pipe = << >>
    /\ buffer = << >>
    /\ deadline = "none"
    /\ push = [main |-> "read", watcher |-> "idle"]
    /\ palette = [main |-> NoTheme, watcher |-> NoTheme]
    /\ shown = NoTheme

Started == watch # "off" /\ push.main = "idle"

-----------------------------------------------------------------------------
(* Omarchy moves a new theme into place, or another name appears; once the *)
(* watch is established inotifywait reports it.                            *)
Appears(name) ==
    /\ events < MaxEvents
    /\ QuietStart => Started
    /\ events' = events + 1
    /\ theme' = IF name = "theme" THEN theme + 1 ELSE theme
    /\ pipe' = IF watch = "on" THEN Append(pipe, name) ELSE pipe
    /\ UNCHANGED <<watch, buffer, deadline, pushing>>

-----------------------------------------------------------------------------
(* The watcher thread.                                                     *)

(* inotifywait is started and establishes its watch, or is not installed.  *)
StartWatch ==
    /\ watch = "off"
    /\ watch' \in {"on", "ended"}
    /\ UNCHANGED <<disk, stream, deadline, pushing>>

(* inotifywait exits, the host stops, or sending fails: the thread ends.   *)
EndWatch ==
    /\ watch = "on"
    /\ watch' = "ended"
    /\ UNCHANGED <<disk, stream, deadline, pushing>>

Looping == watch = "on" /\ push.watcher = "idle"

(* Mutant: any other name cancels the push.                                *)
ArmOrDisarm(name) == deadline' = IF name = "theme" THEN "armed" ELSE "none"

Arm(name) == deadline' = IF name = "theme" THEN "armed" ELSE deadline

(* select finds the pipe readable, and readline returns one line.          *)
ReadLine ==
    /\ Looping
    /\ pipe # << >>
    /\ IF buffer # << >>
       THEN /\ Arm(Head(buffer))
            /\ buffer' = Tail(buffer)
            /\ UNCHANGED pipe
       ELSE /\ Arm(Head(pipe))
            /\ buffer' = Tail(pipe)
            /\ pipe' = << >>
    /\ UNCHANGED <<disk, watch, pushing>>

(* DEBOUNCE_SECONDS pass.                                                  *)
Elapse ==
    /\ deadline = "armed"
    /\ deadline' = "past"
    /\ UNCHANGED <<disk, watch, stream, pushing>>

Fire ==
    /\ Looping
    /\ deadline = "past"
    /\ deadline' = "none"
    /\ push' = [push EXCEPT !.watcher = "read"]
    /\ UNCHANGED <<disk, watch, stream, palette, shown>>

-----------------------------------------------------------------------------
(* push_theme, by the main thread once and by the watcher at a deadline.   *)

ReadPalette(t) ==
    /\ push[t] = "read"
    /\ palette' = [palette EXCEPT ![t] = theme]
    /\ push' = [push EXCEPT ![t] = IF theme \in Unreadable THEN "idle" ELSE "send"]
    /\ UNCHANGED <<disk, watch, stream, deadline, shown>>

(* Mutant: what was reported meanwhile is thrown away.                     *)
SendAndDrain(t) ==
    /\ push[t] = "send"
    /\ shown' = palette[t]
    /\ push' = [push EXCEPT ![t] = "idle"]
    /\ pipe' = << >>
    /\ UNCHANGED <<disk, watch, buffer, deadline, palette>>

SendPalette(t) ==
    /\ push[t] = "send"
    /\ shown' = palette[t]
    /\ push' = [push EXCEPT ![t] = "idle"]
    /\ UNCHANGED <<disk, watch, stream, deadline, palette>>

-----------------------------------------------------------------------------

Pusher == {"main", "watcher"}

WatchNext ==
    \/ \E name \in {"theme"} \cup OtherNames : Appears(name)
    \/ StartWatch \/ EndWatch \/ ReadLine \/ Elapse \/ Fire
    \/ \E t \in Pusher : ReadPalette(t) \/ SendPalette(t)

(* Both threads are scheduled and time passes.                             *)
Fairness ==
    /\ WF_watchVars(StartWatch) /\ WF_watchVars(ReadLine) /\ WF_watchVars(Elapse) /\ WF_watchVars(Fire)
    /\ \A t \in Pusher : WF_watchVars(ReadPalette(t)) /\ WF_watchVars(SendPalette(t))

WatchSpec == WatchInit /\ [][WatchNext]_watchVars /\ Fairness

-----------------------------------------------------------------------------

(* Types, and that only palettes that could be read are sent.              *)
WatchTypeOK ==
    /\ theme \in 0..MaxEvents
    /\ events \in 0..MaxEvents
    /\ watch \in {"off", "on", "ended"}
    /\ {pipe, buffer} \subseteq Seq({"theme"} \cup OtherNames)
    /\ deadline \in {"none", "armed", "past"}
    /\ push \in [Pusher -> {"idle", "read", "send"}]
    /\ palette \in [Pusher -> Nat \cup {NoTheme}]
    /\ shown \in (Nat \cup {NoTheme}) \ Unreadable
    /\ \A t \in Pusher : push[t] = "send" => palette[t] \notin Unreadable

InSync == theme \in Unreadable \/ shown = theme

(* The watcher has nothing left to read, to wait for or to send.           *)
AtRest ==
    /\ watch = "on" /\ pipe = << >> /\ buffer = << >>
    /\ deadline = "none" /\ \A t \in Pusher : push[t] = "idle"

(* When the host comes to rest Firefox shows the palette on disk: no       *)
(* change slips between the reading of a palette and its sending, and no   *)
(* deadline is dropped while another push is under way (theme.py:51-65,    *)
(* host.py:195-203).                                                       *)
RestIsSynchronized == QuietStart /\ AtRest => InSync

(* The debounce loses nothing: however changes fell between the reading of *)
(* a palette and its sending, Firefox ends up with the palette on disk,    *)
(* unless a report stays in the text stream's buffer for good              *)
(* (theme.py:51-65).                                                       *)
SynchronizedWhenRead ==
    QuietStart /\ [](watch # "ended") /\ <>[](buffer = << >>) => <>[]InSync

(* Firefox ends up with the colors of the current theme, as README.md:4    *)
(* and README.md:139-140 say, as long as the watcher lives.                *)
Synchronized == [](watch # "ended") => <>[]InSync
=============================================================================
