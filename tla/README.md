# A TLA+ model of Omarchy Firefox Bridge

This directory holds TLA+ modules that model the bridge between Firefox and the
Omarchy desktop, TLC configurations that check them on small instances, and
TLAPS proofs of the properties that matter most, for every size of the system.
File and line numbers refer to the repository; `host.py` and the other Python
files are under `src/omarchy_firefox_bridge/`, `broker.js` and `background.js`
under `extension/`.

## The system

| Part | State it keeps | Operations | Talks to |
|---|---|---|---|
| Background script (`background.js`) | native port, backoff, reconnect alarm | connect, disconnect, alarm, message | Firefox; host over the native port |
| Broker (`broker.js`) | one queue of grouping jobs per window | `tabs.list`, `tabs.activate`, `tabs.open`, `theme` | browser API; answers through the background script |
| Host: `NativeBridge` (`host.py`) | pending requests, generation counter, activation allowlist, connected flag | `receive`, `disconnect`, `request`, `handle_client` | extension over stdin/stdout; clients over the socket server |
| Host: `BridgeSocketServer` (`socket_server.py`) | listening socket, clients, workers, permits, lifecycle lock, socket file | constructor, `serve_forever`, `close` | local programs; other host instances through the runtime directory |
| Host: theme watcher (`theme.py`, `push_theme`) | debounce deadline, buffered reports | `watch_theme`, `read_theme_message` | `inotifywait`, the palette on disk, the native port |
| Host: `main`, `native_reader` | the stop event and the threads | start, end of file, shutdown | all of the above |
| Framing (`framing.py`) | the write lock | `read_message`, `NativeWriter.send` | stdin/stdout |
| Protocol (`protocol.py`) | none | validation of snapshots and requests | called by the host |
| Client (`client.py`) | none | one request with a 500 ms deadline | the socket |
| Colors (`colors.py`) | none | palette conversion | called by the watcher |
| Installer (`install.sh`) | staged and backed-up entries, a lock | install transaction, rollback | the home directory |
| Hook, launcher, sandbox, probe, manifests | none that matters at run time | set up processes and files | |

What is hard here:

- **threads**: up to eight client threads, the reader, the main thread and the
  watcher share the host; two of them disconnect and close at the same time;
- **time-outs against late answers**: the host gives up on a frame after 400 ms
  while Firefox may still answer it, or answer twice;
- **order**: answers come back in any order, and two threads push palettes;
- **awaits**: every handler of the extension suspends at each browser call, and
  other handlers and the user run meanwhile;
- **processes**: Firefox may start a host while an older one is closing, has
  been killed or is being torn down; a socket file may be left behind;
- **pieces**: a pipe takes and gives a few bytes at a time, and either end may
  go away in the middle of a frame;
- **two deadlines**: the client's 500 ms and the host's 400 ms run separately,
  and the extension acts whenever it gets to it;
- **a transaction over files**: the installer may fail or be signalled at any
  step, again in its rollback, or be killed.

What makes each part correct, in short: a request is answered once, with an
answer to its own frame, and no request is left waiting or leaked; the
allowlist never goes back to an older list; the server never loses a permit,
closes for good and in bounded time; at most one host serves, under its own
socket file, and one always can; the last palette reaches Firefox; one group
per title and window, and every open filed; the extension always has a host or
an alarm that will start one; messages arrive whole and in order; what a client
prints is true of the browser; the process ends and leaves nothing behind; an
installation happens entirely or not at all. `PROJECT.json` lists the hazards
at their lines.

## Modules

| Module | Models | Runs |
|---|---|---|
| `BridgeMessages` | the requests, answers and responses that decide what the host does | |
| `BridgeService` | abstract specification: tickets, answers, an allowlist that moves forward | |
| `NativeBridge` | class `NativeBridge`, with client, reader and main threads; implements `BridgeService` | `MCNativeBridge`: `bridge_safety`, `bridge_live` |
| `NativeBridge_proofs` | inductive invariant, safety theorems, and the proof that `BridgeService` is implemented | |
| `SocketServer` | the threads of one `BridgeSocketServer` | as part of `Host` |
| `Host` | `main`, `native_reader` and the watcher's life, around `SocketServer` | `host` |
| `Host_proofs` | theorems about server and process, any number of connections and permits, and about `ThemeWatch` | |
| `ServerLifecycle` | several instances over one runtime directory | `lifecycle` |
| `ServerLifecycle_proofs` | theorems about any number of instances | |
| `ThemeWatch` | watcher, `inotifywait`, text stream, both pushers | `theme`, `theme_buffered`, `theme_startup` |
| `MessageStream` | abstract specification: what is put in comes out, in order | |
| `NativeWire` | `NativeWriter` and `read_message` over a pipe; implements `MessageStream` | `MCNativeWire`: `wire` |
| `NativeWire_proofs` | theorems about any threads, sizes, limits and pipe, and the proof that `MessageStream` is implemented | |
| `Broker` | handlers and grouping queues in a Firefox its user works with | `broker` |
| `Broker_proofs` | theorems about any number of windows, groups, titles and frames | |
| `Background` | port, alarm, backoff, late handlers, page suspension | `background` |
| `Background_proofs` | theorems about any number of ports and handlers | |
| `RemoteCommand` | abstract specification: done at most once, and truly told | |
| `EndToEnd` | a command from its command line to the browser and back; implements `RemoteCommand` | `end_to_end` |
| `EndToEnd_proofs` | theorems about any number of clients and workers, and the proof that `RemoteCommand` is implemented | |
| `AtomicUpdate` | abstract specification: the whole tree at once, or nothing | |
| `Install` | the transaction of `install.sh` and its rollback; implements `AtomicUpdate` | `MCInstall`: `install` |
| `Install_proofs` | theorems about any list of entries and any number of runs, and the proof that `AtomicUpdate` is implemented | |

`Host` extends `SocketServer`: every step of the process is a step of the server
or leaves it alone. `EndToEnd` composes what `SocketServer`, `NativeBridge` and
`Broker` do for one command, with the detail that does not reach the client left
out. The other modules meet at the points their headers name: `Background`
starts hosts as `ServerLifecycle` assumes, and `NativeWire` is the stream that
`NativeBridge` and `ThemeWatch` take as one step.

### NativeBridge

A step is the code between two points at which another thread can run. For a
client thread `w`, `pc[w]` names the place: `check` is the allowlist lookup
(`host.py:118-121`), `register` the first critical section of `request`
(70-79), `send` and `wait` lines 81 and 82, `pop` the `finally` clause (88-90),
`judge` what `handle_client` does with an answer. `pending` maps an id to the
generation of its entry, 0 when there is none; the entry's queue is the `box`
of the thread with that generation. `hand` is what the reader looked up in
`receive` and has not put yet, `targets[t]` what thread `t` has still to wake
in `disconnect`. The history variable `sent` holds the frames on the wire, and
Firefox may answer any of them, at any time, any number of times, with any
answer of its type or an unexpected one. A response of `tabs` also stands for
the empty list that the extension sends when its query fails.

Requests are reduced to action and pair: URLs, titles and groups decide only
whether a request is refused (`malformed`), never what the host does.

### BridgeService

The client's view: `Ask`, then `Clear` for an activation in the allowlist,
`Begin` with a ticket, and one of `Fail`, `Succeed`, `List`; `Reject` gives the
only reasons to refuse a request without a ticket. The refinement mapping maps
`check` and `refuse` to `asked`, `register` to `cleared`, `send` to `judge` to
`begun`. The service has neither ids nor queues nor time; that the
implementation needs them and gets them right is the theorem.

### SocketServer and Host

`SocketServer` is one instance from `listen` on: the main thread in
`serve_forever` and `_start_client`, a worker per connection, and `close`
entered by reader and main thread. Steps are critical sections of
`_state_lock`, system calls and joins. `_clients` and `_workers` change
together under the lock and are one set.

`Host` adds the rest of the process. `life` is the place of the main thread in
`main` (`host.py:186-213`), from `reader` (the reader is started) to `exited`;
`reader` and `watcher` are the two other threads. Any step of the start may
raise, and `KeyboardInterrupt` may end `serve_forever`; both go through the
`finally` clause: stop, disconnect, close, join the reader, join the watcher.
The start of a thread and the note of it (`reader_started`, `watcher_started`;
here `started`) are two steps, and only threads with a note are joined. What still runs when `main` returns are daemon threads and die with it, except
`inotifywait`, which is a process.

Time matters in one place, the last join: `WATCHER_JOIN` (1.5 s) against the
watcher's look at `stop` every `SELECT_WAIT` (0.1 s) and the `TERM_WAIT` (1 s)
it gives `inotifywait`. It is counted in tenths while `main` waits there. A
push that Firefox holds up (`held`) may outlast the join: the pipe may be full.
And an interrupt right between `watcher.start()` and its note
(`host.py:201-202`, `unflagged`) leaves a watcher that nobody joins. Both are
real, and `NoOrphan` makes an exception of both. `HostEnds` is about a pipe that
Firefox reads at first: a first push that never returns keeps `main` for good.

### ServerLifecycle

It covers what `SocketServer` leaves out: each system call of the constructor
and of `_release_lifecycle` on the lock, the socket file and the sockets, for
several instances. A killed process is `dying` while the kernel closes its
descriptors, in any order. A socket file's identity is its inode number, which
may be reused once no name and no socket refers to it; device, type and owner
never differ for conforming instances, and the checks on them only refuse files
of others, which the class docstring puts outside its boundary.

### ThemeWatch

The palette on disk is its place in the history of palettes. `pipe` is what
`inotifywait` has written, `buffer` what Python's text stream has read ahead:
`select` sees the first, `readline` serves the second first. `Elapse` is the
passing of the debounce time. Firefox processes what it is sent in order, so
`shown` is the palette sent last. Two properties remain true of the code in
spite of findings 1 and 2. `RestIsSynchronized`: when nothing is left to read,
to wait for or to send, Firefox shows the palette on disk. `SynchronizedWhenRead`:
a watcher that gets to read everything comes to that.

### NativeWire

One direction of the stream. A frame is `HEADER` units and a body of `Size[t]`;
`stream` is everything ever written, tagged with the frame it belongs to, and
the pipe holds at most `Capacity` units of it. A writer takes the lock, writes
in any pieces and releases it. `sys.stdout.buffer` is a buffered writer, so
`write` returns only when it has taken everything: the "no progress" error of
`framing.py` belongs to raw streams and is not reachable here, and a failed
write fails for good, because the reader is gone. The process may end in the
middle of a frame (`Exit`), the reader may leave (`Leave`). The two directions
of the real stream have different limits; `WRITE_MAX` and `READ_MAX` are
independent. An oversized frame ends the reading, as the repository's
README.md:386 says. Every thread sends one message: the lock is all that two
messages of one thread would share.

### Broker and Background

In `Broker` a handler is at one of its awaits. Browser calls are external: they
take effect at once, and any of them may be rejected. A query of the tabs that
is, or that answers with nothing usable, finds no window; a call of a grouping
job ends the job (`refused`), and `tabs.group` and `tabGroups.update` always
reject when tab or group is gone. Firefox drops a group with its last tab.
`Present` are the tabs open at the start, `Here` and `Grouped` the windows and
groups they may be in; of these groups two may have one title, and then the code
leaves both alone. The user may move and close tabs and change captions, `MaxMoves` times in all. He
neither gives groups a title nor moves them: that can make two groups of one
title at any moment, which no code of the extension is there to prevent. Whether
a request is malformed is a property of the frame. Ids of tabs are not used
twice, ids of groups only once nobody refers to them.

In `Background` event listeners are atomic and only a message handler is
suspended. `failures` is a history variable. Firefox may suspend the page when
it has neither port nor handler: the variables start over, the alarm stays.

### EndToEnd

One invocation of the client is one command with one connection. `cli` is the
client, `work` its worker in the host, `ext` its frame in the extension,
`effects` how often the browser did what it asks for. Time is in tenths of a
second, 5 for the client and 4 for the host, and a tick may fall between any
two steps; `delayed` remembers that it fell while somebody who works for the
client had something to do. `refused` stands for `stale-tab`, `no-window`,
`ambiguous-window` and `create-failed`. A socket that cannot be made, a refused
connect and a full backlog, for which a Unix socket with a timeout does not
wait, are `unavailable` (`client.py:63`, 94-95). Only `timeout`, `unavailable` and
`bridge-error` leave open whether the browser acted: a caller that repeats an
`open` after one of these may get a second tab, after any other refusal it
cannot.

`RemoteCommand` is that promise for whoever runs the command: `Act` at most
once, `Withdraw` the possibility of it, and `Say` an answer, a success only
after `Act` and a refusal only when it can no longer come. The mapping calls a
command open as long as its request may still reach the extension or is there
undecided (`Undecided`); it is told when the process exits. A command that was
given up stays open: `Act` may follow its answer.

### Install

Entries are replaced (`Files`, then the `Hook` that Omarchy installs) or removed
(`Legacy`). An entry holds 0 for nothing, 1 for what was there before the first
run, `r + 1` for what run `r` installs, or `Partial`. `note[e]` and `backup[e]`
are the transaction's record, `stage` the staged files on disk and `stages`
whether the handler knows of them. `Raise` is an exception or a first signal at
any step, `Disturb` one in the handler or in the cleaning up of
`stage_artifacts`, `Kill` is `SIGKILL`. `Verify` compares what every entry holds
and the directory; modes, owners and bytes are part of what an entry is. All
entries share one directory: its mode or its existence changes before the first
of them. These limits of the code are part of the model:

- a second signal may end the rollback early; backups then stay on disk;
- what is a directory (`Trees`: the library) is removed file by file
  (`install.sh:320-327`), so a rollback broken off in it leaves half of the new
  library, with the old one in its backup; the same of a backup in the cleaning up;
- between `mkdir` and the record of the new directory a signal leaves an empty
  directory, against the repository's README.md:84 ("newly created parents"),
  and between the return of `stage_artifacts` and the assignment of its result
  (line 554), or in its own cleaning up (382-384), it leaves staged files, which
  are hidden. `disturbed` marks such a run;
- backups of a killed run stay, as README.md:89-95 says, and the next run does
  not use them: `NothingLost` is about one run;
- `omarchy hook install` is another program. It writes the hook in any number of
  pieces (`CopyHook`) and may fail at each. When the installer is killed it may
  go on, and when the installer kills it, what it started itself may; it then
  writes the hook after the rollback, or in the next run (`commands`, `astray`).
  Nothing in `install.sh` could undo that, so the properties and the abstract
  specification promise nothing of the hook, nor of a directory the command made,
  in a run with such a command at work, and everything of the other entries.

`AtomicUpdate` is what a run promises to whoever looks at the tree when none is
under way. `Commit` replaces entries and directory in one step and saves the old
ones; from then on only copies go (`CleanUp`), until the run succeeds or stops.
A run that ends before has changed nothing (`Abort`). Only a run that was killed
or `disturbed` may end with a mixture (`Break`), and of that the service says
what is left: every entry is the old one, absent, the new one or, if it is one
of `Fragile` (library and hook), there in part; and each old one is in its place
or saved. `Lose` and `Intrude` are the hook command that nobody waits for. The
mapping shows an open run the tree it found (`prior`): the states between are
covered by `NothingLost` and by `Break`.

## Runs

Twelve runs; all pass unless marked, each within three minutes on two
cores.

| Run | Instance | Shows |
|---|---|---|
| `bridge_safety` | 2 clients, 3 frames, 3 ids, 1 pair | `NoStrandedWaiter`, `AnswerIsOwn`, `NewestWins` |
| `bridge_live` | 2 clients, 2 frames | `PendingIsOutstanding`; `BridgeService` is implemented; `EveryRequestAnswered` |
| `host` | 3 connections, 2 permits | `PermitsConserved`, `ClosedMeansShut`, `CloseMeansReleased`; `ExitReleases`, `NoOrphan`; `CloseReturns` and `HostEnds` although handlers may hang; `EveryClientEnds` if they do not |
| `lifecycle` | 3 instances, 4 inodes, 3 faults | `AtMostOneServer`, `ServedPathIsOwn`, `ServiceResumes` |
| `theme` | 5 changes, 3 names, 1 unreadable palette | `RestIsSynchronized`, `SynchronizedWhenRead` |
| `theme_buffered` | 2 changes, 2 names | violated: the second line of one read waits in the stream |
| `theme_startup` | 1 change during start-up | violated: missed before the watch exists, or overwritten by the initial push |
| `broker` | 2 frames, 2 windows, 1 title, 2 open tabs in groups or not, calls that are rejected, a user who moves or closes a tab or changes a page once | `UniqueTitledGroup`, `QueueDrains`, `EveryOpenFiled` |
| `background` | 3 ports, 2 handlers each | `NeverStranded`, `OneHost`, `BackoffCountsFailures`, `Reconnects` |
| `wire` | 4 threads, frames of 3 to 5 units, a pipe of 3 | `EofMeansComplete`, `ErrorMeansTorn`; `MessageStream` is implemented; `SendReturns` and `Delivered` if the other end reads |
| `end_to_end` | 2 clients, 1 worker | `RefusalIsFinal`, `SuccessIsTrue`, `HostAnswersFirst`, `ClientEnds`; `RemoteCommand` is implemented |
| `install` | 2 files, the hook, 1 entry of the older product, 2 runs | `RollbackRestores`, `CommittedIsComplete`, `NothingLost`; `AtomicUpdate` is implemented |

No run checks types: every `TypeOK` is proved, as a theorem or as part of an
inductive invariant.

### Bounds, and why they are enough

- Two client threads show every race of two requests; with three generations,
  two lists can be judged out of order while the answer to a third, timed-out
  frame is late. `MaxGen` bounds the frames; once disconnected, requests are
  unlimited because they are refused. The theorems have no such bound.
  Refinement and progress are checked with two frames and ids that do not
  repeat; the refinement's proof covers ids that do.
- Two permits and three connections make the server refuse, reuse a permit, and
  close with one connection in each state.
- Three instances allow one dying, one closing and one starting; `MaxFaults`
  bounds crashes, failures and shutdowns, and the theorems do not need it.
- `MaxEvents` changes are enough for a change before, during and after a push.
- Two opens for one title in one window are enough to make two groups when they
  race without the queue; a user needs one step between two of theirs
  (`MaxMoves`). The tabs open at the start are in one window (`Here`), with
  every placing: no group, one, or two with or without the title that is asked
  for; the other window has none. There is one title, because a group without
  one stands for a group of another, and activations are for one tab (`Asked`).
  The theorems have none of these bounds.
- `Saturated` failures are those after which the backoff stays at its maximum.
- The pipe is smaller than the larger frames, and pieces are of any size, so that
  any frame may be torn anywhere; one frame is larger than `WRITE_MAX`, one
  larger than `READ_MAX` only.
- Two clients and one worker: the second is refused, or takes the permit after
  the first was given up while its frame is still in the extension.
- `MaxRuns`: a run that fails, is disturbed or is killed, and one on what it
  left, with the hook command of the first perhaps still at work.

Symmetry is used in runs without liveness only (`MCNativeBridge`), over sets
whose members the specification does not tell apart.

### Fairness

- `NativeBridge`: threads that can run are scheduled, a thread in `queue.get`
  always can because of its timeout, and `writer.send` comes back: Firefox
  reads its end of the pipe. That last one is a premise about Firefox: the
  400 ms do not cover the write. Clients, answers and disconnects are not fair.
- `Host`: the main thread, closers, reader and watcher run when they can, and
  time passes. Handlers, the stream's end and a push that Firefox holds up are
  not fair; the first push, which `main` makes itself, comes back. That a
  handler returns is a premise of `EveryClientEnds` only;
  `EveryRequestAnswered` is what discharges it.
- `ServerLifecycle`: a process that can run proceeds, and an instance is
  started again when it ended, as `background.js` does (`Reconnects`). Faults
  are not fair, and finite.
- `ThemeWatch`: both threads run and time passes. Convergence is claimed
  only while the watcher lives.
- `NativeWire`: the threads run. That the other end reads is the premise
  `ReaderReads` of the two properties that need it.
- `Broker`: Firefox settles promises and runs continuations.
- `Background`: Firefox delivers alarms, disconnects and results. `Reconnects`
  also needs that a host can be started again and again (strong fairness of a
  successful `connectNative`).
- `EndToEnd`: the client runs and time passes; host and extension may hang.

## Proofs

`tlapm` checks all proofs; the assumptions are the named `ASSUME`s of the
modules (ids and `None` are different from everything else, counters are
numbers, an entry is listed once, `theme` is no other name). Only `Host_proofs` needs a finite set: the
clients, because permits are counted.

**NativeBridge.** `IInv` is the conjunction of `TypeOK`, `Shape` (what a
thread's variables hold at each place), `Generations` (generations are
positive, at most the counter, and no two threads share one), the four safety
properties and `Frames` (a frame on the wire has a generation no newer than
the counter, and, if ids do not repeat, an id determines its frame). The
properties are not inductive alone: that an entry belongs to one thread needs
unique generations; that an answer is the thread's own needs that the frame of
an entry is the only one with its id; that a stranded waiter does not exist
needs that the list of targets is taken from a table that is exact. Theorems:
`TypeCorrect`, `NoLeakedEntry`, `DisconnectWakesAll`, `Correlation`,
`AllowlistIsNewest`. `Correlation` assumes what 128 random bits give in
practice, `TokenRepeats = FALSE`; `NoLeakedEntry` and the refinement hold
without it.

**Refinement.** From the same invariant, `Refinement` shows
`Spec => ImplementsService`: the initial states map to initial states and each
action to an action of `BridgeService` or to a stutter.

**Host.** `SafeInv` says with whom a connection is (`Owned`: the main thread, its
worker, or closed) and how far `close` has come (`Closing`: what is open is
still to be shut, and one thread at a time works on it). Permits are counted on
top of that: a permit is free, with the connection the main thread is starting,
or with a worker that has not given it back. It is proved for the server on its
own (`ServerIsSafe`) and carried over to the process, which adds `Ending` (where
`main` is says who has closed), `Flagged` (`main` has a note of every
watcher there is, but for the one interrupt) and `Hurrying` (how many tenths the watcher still
needs is at most what is left of the join, unless it is held up). Theorems:
`HostIsTyped`, `HostConservesPermits`, `HostShutsClients`, `HostCloses`,
`HostReleases`, `HostLeavesNoOrphan`, and `HostImplementsServer`: `Host` hides
nothing of `SocketServer`, every step of the process is one of its server or
leaves it alone.

**ThemeWatch** (the last part of `Host_proofs`). While the watcher runs, one of
these holds: Firefox shows the palette on disk, a report of `theme` is still in
pipe or buffer, the deadline is set, or a push is on its way that has yet to
read the palette or has read the one on disk (`Expected`); and the main
thread's push is over before anything changes (`Followed`, under
`QuietStart`: finding 2 is what happens otherwise). At rest only the first is
left. Theorems: `ThemeIsTyped`, `ThemeRestsInSync`, for any names and any number
of changes.

**ServerLifecycle.** The strengthening says that whoever is past the flock
holds the lock, and that an instance about to change the file or to listen has
established, under the lock, that nobody else listens. A listener that lost its
lock to the kernel still has its file, and the next holder's probe finds it
answering and gives up. Theorems: `SingleServer`, `ServedPath`.

**NativeWire.** Every unit of the stream is in its place in a whole frame, as far
as the stream goes, and every frame follows the last unit of the frame sent
before it (`Frames`); only the thread that holds the lock has a frame that is
begun and not finished, and it is the last (`Order`, `Front`). So what follows
the last unit of one message is the header of the next, and the reader, behind
one or the other (`Reader`), can only read what was sent next; when the stream
ends short of what it wants, the frame that is cut is the one being written.
Theorems: `WireIsTyped`, `EofIsComplete`, `ErrorIsTorn`,
`WireImplementsStream` (every step maps to a step of `MessageStream` or a
stutter).

**Broker.** The one job of a window that is past its query is the head of the
window's queue (`Turns`), so nobody else titles a group of that window between
the query that found none and the titling (`Found`); and a job that titles has
made its group itself, so no other job titles it (`Targets`). The user does not
disturb this: moving a tab takes it out of its group, and closing can only
remove groups. Two groups of one title can only both be from before.
Theorems: `BrokerIsTyped`, `OneGroupPerTitle`.

That an undisturbed open ends up filed has a safety part and a liveness part.
The safety part is `SettledIsFiled`: an open whose job has settled, and was not
refused a call, is in a group of its title in its window, or the window has two
such groups from before (`Doubled`). It is not inductive, because it says nothing of the
jobs under way: `Filing` adds that every open in a queue is on its way (its tab
is ungrouped until the job joins or makes a group, the group to be joined has
its title and is in its window, the group to be titled is the one its tab is in)
and that no two opens made one tab. Other opens disturb this only if they touch
the tab, or a group with a title (`OthersKeep`): an ungrouped tab takes no
group's last tab with it (`PutInFree`), and a settling job takes itself and
nobody else out of the queue, where each open is once (`FinishLeaves`).
`SettledMeansFiled` states it for any number of opens, windows and groups.
`DrainedMeansFiled` adds what remains: `Spec /\ QueueDrains => EveryOpenFiled`. A
job leaves its queue only by its end and does not come back (`LeavesEnded`), so
with `Filing` the draining of the queues is the only thing TLC has to show of
the fairness of the browser. No run lists `SettledIsFiled`; it is the state that
`EveryOpenFiled` leads to.

**Background.** `AlarmOrPort` and `OneHostAtATime` follow from an invariant of
types, alarm and host; no bound on ports or handlers. `BackoffDoubles` shows that
the delay is what the number of failures in a row makes of it. Its reference is
a recursive function, and that the equation defines a function at all has to be
shown first (`DoubledEquation`, from the closed form of the doubling up to the
maximum); then one more failure is one more doubling (`OneMoreDoubles`).

**EndToEnd.** One client at a time: `Legs` says how far a command has come at
client, connection, worker and extension, `Verdicts` that whatever is on its way
to the user is true of the browser, and `Timely` couples the two clocks: unless
the client was `delayed`, the worker's clock runs with the client's. Theorems:
`EndToEndIsTyped`, `RefusalsAreFinal`, `SuccessesAreTrue`, `HostIsFirst` (an
action property), and `CommandIsKept`: each step of the composition is a step
of one command of `RemoteCommand`, or none.

**Install.** At every step the record of an entry says truly how to get the
prior one back (`Recoverable`, `Forward`), and the rollback, going backwards,
has restored what lies behind it (`Backward`); `Directory` does the same for
the directory, and `Stages` for the staged files and what the handler knows of
them. `Hooks` says when a hook command is at work: only between its start and
its end, or `astray`; all that the others say of an entry they say of one that is
`Minded`. Theorems: `InstallIsTyped`, `RollbackIsExact`,
`CommitIsComplete`, `InstallLosesNothing`. For the refinement, `Mixture` adds
that no entry ever holds anything but the old content, nothing, the new or, for
library and hook, a part, and `InstallIsAtomic` shows every step of the transaction and its handler to be a
step of `AtomicUpdate` or invisible in it.

Only model-checked is what needs fairness: `EveryRequestAnswered`; `CloseReturns`,
`EveryClientEnds` and `HostEnds`; `ServiceResumes`; `SynchronizedWhenRead`;
`QueueDrains`; `Reconnects`; `SendReturns` and `Delivered`; `ClientEnds`.
Liveness is out of the prover's reach; of `EveryOpenFiled` it is proved that it
follows from `QueueDrains`. Every invariant and every
action property that a run checks is a theorem.

## Findings

1. `theme.py:55-62`, run `theme_buffered`: a report that was read ahead into the
   text stream is invisible to `select`; the theme is not pushed until another
   name appears.
2. `host.py:200-203`, run `theme_startup`: changes between the initial read and
   the watch are missed, and the initial push may overwrite a newer one.

## Known races

Three places where the repository's README says more than the code can hold;
the models contain them, and no property excludes them.

- `host.py:118-125`: the allowlist is read under its lock and the frame is sent
  after it, so an activation may leave for a pair of a list that is no longer
  the latest, against README.md:214. The extension's own check of the tab
  bounds the consequence. `BridgeService` has the two steps too (`Clear`,
  `Begin`).
- `broker.js:257-260`: the tab's window is checked before an await; a tab moved
  in between is activated in its new window and reported as done, against
  README.md:388. Firefox offers no call that does both.
- `broker.js:180-200`: the window was found by the title of its active tab; the
  title may change before `tabs.create` answers. The tab is still opened in the
  window that matched when it was looked up.

README.md:216-217 also still says that no command accepts a URL, although the
same file documents `open` further down.

## Not modelled

- **Data**: bytes, JSON and wording; the projection of tabs, colours and
  bounded strings; the sizes of frames except against the limits.
- **Protocol**: what `validate_snapshot` and the parsers refuse is one value of
  the vocabulary (`BridgeMessages`, `malformed`, `invalid-request`). The checks
  of single fields keep no state and depend on no order; unit tests reach them.
- **Colors**: a pure conversion of a palette.
- **Installer, before the transaction**: ownership, modes and inventory checks
  only refuse to start; `Install` begins under the lock.
- **Hook, launcher, sandbox, probe, manifests**: they set up files and processes
  and keep no state at run time.
- `KeyboardInterrupt` inside `serve_forever` is taken in `accept` only, where
  the main thread spends its time; a second one inside the `finally` clause of
  `main` is not modelled.
- That an unreadable palette is never sent (`theme.py:23`) is part of the types
  of `ThemeWatch` (`ThemeIsTyped`); no run asks more of it.
- Several native connections at once, and what `Background` and
  `ServerLifecycle` assume of each other, are argued above and not composed in
  one module.
