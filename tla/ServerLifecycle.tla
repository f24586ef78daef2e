--------------------------- MODULE ServerLifecycle ---------------------------
(***************************************************************************)
(* Which host instance owns bridge.sock.  Firefox may start a host while   *)
(* an older one is still closing, has been killed, or is being torn down   *)
(* by the kernel; every instance runs the constructor and close of         *)
(* BridgeSocketServer (socket_server.py) on the same directory, guarded by *)
(* an flock that dies with its holder.                                     *)
(*                                                                         *)
(* A step is one system call on the shared directory, lock or sockets.     *)
(* Inode numbers are reused once no name and no socket refers to them.     *)
(***************************************************************************)
EXTENDS Integers

CONSTANTS
    Proc,       \* host instances; a process that ended may be started again
    Inode,      \* inode numbers of socket files
    None,       \* no file, no holder, no identity
    MaxFaults   \* bound: crashes, failed constructors and shutdowns together

ASSUME LifecycleAssumption ==
    /\ None \notin Proc \cup Inode
    /\ MaxFaults \in Nat

VARIABLES
    file,       \* the inode bridge.sock names
    lock,       \* holder of the flock on the lock file
    pc,         \* where every instance is
    seen,       \* identity the stale check noted
    own,        \* _socket_identity
    bound,      \* the inode an instance's socket is bound to
    listening,  \* its socket accepts connections
    faults

vars == <<file, lock, pc, seen, own, bound, listening, faults>>

Init ==
    /\ file \in Inode \cup {None}      \* an earlier session may have left one
    /\ lock = None
    /\ pc = [p \in Proc |-> "off"]
    /\ seen = [p \in Proc |-> None]
    /\ own = [p \in Proc |-> None]
    /\ bound = [p \in Proc |-> None]
    /\ listening = [p \in Proc |-> FALSE]
    /\ faults = 0

Goto(p, l) == pc' = [pc EXCEPT ![p] = l]

Fault == faults < MaxFaults /\ faults' = faults + 1

-----------------------------------------------------------------------------
(* The constructor.                                                        *)

Start(p) ==
    /\ pc[p] = "off"
    /\ Goto(p, "flock")
    /\ UNCHANGED <<file, lock, seen, own, bound, listening, faults>>

(* Mutant: the lock is taken without looking who has it.                   *)
LockFreeAlways == TRUE

LockFree == lock = None

(* _open_lifecycle_lock: without blocking, or "already active".            *)
Flock(p) ==
    /\ pc[p] = "flock"
    /\ IF LockFree THEN lock' = p /\ Goto(p, "stat")
                   ELSE Goto(p, "off") /\ UNCHANGED lock
    /\ UNCHANGED <<file, seen, own, bound, listening, faults>>

(* _remove_stale_socket: is there a socket file, and which.                *)
Stat(p) ==
    /\ pc[p] = "stat"
    /\ seen' = [seen EXCEPT ![p] = file]
    /\ Goto(p, IF file = None THEN "bind" ELSE "probe")
    /\ UNCHANGED <<file, lock, own, bound, listening, faults>>

Answers(i) == \E q \in Proc : listening[q] /\ bound[q] = i

(* connect: someone answers and the constructor gives up, or the           *)
(* connection is refused and the file looks stale.                         *)
Probe(p) ==
    /\ pc[p] = "probe"
    /\ Goto(p, IF file # None /\ Answers(file) THEN "shut" ELSE "restat")
    /\ UNCHANGED <<file, lock, seen, own, bound, listening, faults>>

(* Is it still the same file?                                              *)
Restat(p) ==
    /\ pc[p] = "restat"
    /\ Goto(p, IF file = None THEN "bind" ELSE IF file = seen[p] THEN "unstale" ELSE "shut")
    /\ UNCHANGED <<file, lock, seen, own, bound, listening, faults>>

(* Mutant: the stale file is left where it is.                             *)
KeepStale == UNCHANGED file

RemoveStale == file' = None

Unstale(p) ==
    /\ pc[p] = "unstale"
    /\ RemoveStale
    /\ Goto(p, IF file = None THEN "shut" ELSE "bind")
    /\ UNCHANGED <<lock, seen, own, bound, listening, faults>>

FreshInode(i) == i # file /\ \A q \in Proc : bound[q] # i

(* bind creates the socket file, or fails with EADDRINUSE.                 *)
Bind(p) ==
    /\ pc[p] = "bind"
    /\ IF file = None
       THEN \E i \in Inode : /\ FreshInode(i)
                             /\ file' = i
                             /\ bound' = [bound EXCEPT ![p] = i]
                             /\ Goto(p, "identify")
       ELSE Goto(p, "shut") /\ UNCHANGED <<file, bound>>
    /\ UNCHANGED <<lock, seen, own, listening, faults>>

(* The identity of the new file is read back through its name.             *)
Identify(p) ==
    /\ pc[p] = "identify"
    /\ own' = [own EXCEPT ![p] = file]
    /\ Goto(p, IF file = None THEN "shut" ELSE "listen")
    /\ UNCHANGED <<file, lock, seen, bound, listening, faults>>

(* chmod and listen; from here on serve_forever runs.                      *)
Listen(p) ==
    /\ pc[p] = "listen"
    /\ listening' = [listening EXCEPT ![p] = TRUE]
    /\ Goto(p, "serving")
    /\ UNCHANGED <<file, lock, seen, own, bound, faults>>

(* A constructor step raises for a reason of its own: no memory, no        *)
(* descriptor, a failed chmod.                                             *)
Raise(p) ==
    /\ pc[p] \in {"stat", "probe", "restat", "unstale", "bind", "identify", "listen"}
    /\ Fault
    /\ Goto(p, "shut")
    /\ UNCHANGED <<file, lock, seen, own, bound, listening>>

-----------------------------------------------------------------------------
(* close, and the constructor's exception path, which end the same way.    *)

Close(p) ==
    /\ pc[p] = "serving"
    /\ Fault
    /\ Goto(p, "shut")
    /\ UNCHANGED <<file, lock, seen, own, bound, listening>>

ShutSocket(p) ==
    /\ pc[p] = "shut"
    /\ listening' = [listening EXCEPT ![p] = FALSE]
    /\ bound' = [bound EXCEPT ![p] = None]
    /\ Goto(p, "check")
    /\ UNCHANGED <<file, lock, seen, own, faults>>

(* Mutant: the lock is dropped before the socket file is removed.          *)
UnlockEarly(p) == lock' = IF lock = p THEN None ELSE lock

HoldLock(p) == UNCHANGED lock

(* _remove_bound_socket: is the file under our name ours?                  *)
Check(p) ==
    /\ pc[p] = "check"
    /\ HoldLock(p)
    /\ Goto(p, IF own[p] # None /\ file = own[p] THEN "unlink" ELSE "unlock")
    /\ UNCHANGED <<file, seen, own, bound, listening, faults>>

Unlink(p) ==
    /\ pc[p] = "unlink"
    /\ file' = None
    /\ Goto(p, "unlock")
    /\ UNCHANGED <<lock, seen, own, bound, listening, faults>>

Forget(p) ==
    /\ seen' = [seen EXCEPT ![p] = None]
    /\ own' = [own EXCEPT ![p] = None]

(* _close_descriptors, and the process ends.                               *)
Unlock(p) ==
    /\ pc[p] = "unlock"
    /\ lock' = IF lock = p THEN None ELSE lock
    /\ Forget(p)
    /\ Goto(p, "off")
    /\ UNCHANGED <<file, bound, listening, faults>>

-----------------------------------------------------------------------------
(* The process is killed at any point; the kernel closes its descriptors   *)
(* one by one, in an order nothing guarantees.                             *)

Kill(p) ==
    /\ pc[p] \notin {"off", "dying"}
    /\ Fault
    /\ Forget(p)
    /\ Goto(p, "dying")
    /\ UNCHANGED <<file, lock, bound, listening>>

KernelUnlocks(p) ==
    /\ pc[p] = "dying"
    /\ lock = p
    /\ lock' = None
    /\ UNCHANGED <<file, pc, seen, own, bound, listening, faults>>

KernelShuts(p) ==
    /\ pc[p] = "dying"
    /\ bound[p] # None
    /\ listening' = [listening EXCEPT ![p] = FALSE]
    /\ bound' = [bound EXCEPT ![p] = None]
    /\ UNCHANGED <<file, lock, pc, seen, own, faults>>

Reap(p) ==
    /\ pc[p] = "dying"
    /\ lock # p /\ bound[p] = None
    /\ Goto(p, "off")
    /\ UNCHANGED <<file, lock, seen, own, bound, listening, faults>>

-----------------------------------------------------------------------------

Running(p) ==
    \/ Start(p) \/ Flock(p) \/ Stat(p) \/ Probe(p) \/ Restat(p) \/ Unstale(p)
    \/ Bind(p) \/ Identify(p) \/ Listen(p)
    \/ ShutSocket(p) \/ Check(p) \/ Unlink(p) \/ Unlock(p)
    \/ KernelUnlocks(p) \/ KernelShuts(p) \/ Reap(p)

Next == \E p \in Proc : Running(p) \/ Raise(p) \/ Close(p) \/ Kill(p)

(* The background script starts a host again after every disconnect, and   *)
(* the operating system lets a process that can run proceed.               *)
Spec == Init /\ [][Next]_vars /\ \A p \in Proc : WF_vars(Running(p))

-----------------------------------------------------------------------------

(* Types, and that an instance has a socket exactly where its code does.   *)
TypeOK ==
    /\ file \in Inode \cup {None}
    /\ lock \in Proc \cup {None}
    /\ pc \in [Proc -> {"off", "flock", "stat", "probe", "restat", "unstale", "bind",
                        "identify", "listen", "serving", "shut", "check", "unlink",
                        "unlock", "dying"}]
    /\ seen \in [Proc -> Inode \cup {None}]
    /\ own \in [Proc -> Inode \cup {None}]
    /\ bound \in [Proc -> Inode \cup {None}]
    /\ listening \in [Proc -> BOOLEAN]
    /\ faults \in 0..MaxFaults
    /\ \A p \in Proc :
          /\ listening[p] => bound[p] # None /\ pc[p] \in {"serving", "shut", "dying"}
          /\ pc[p] \in {"identify", "listen"} => bound[p] # None
          /\ bound[p] # None => pc[p] \in {"identify", "listen", "serving", "shut", "dying"}

(* Two instances never accept connections at the same time, not even while *)
(* one of them is being torn down after its lock is gone.                  *)
AtMostOneServer == \A p, q \in Proc : listening[p] /\ listening[q] => p = q

(* The socket a client finds under bridge.sock is the one that is served:  *)
(* neither a starting nor a closing instance ever removes or replaces the  *)
(* socket file of another that listens (socket_server.py:211-251).         *)
ServedPathIsOwn == \A p \in Proc : listening[p] => file = bound[p]

(* Whatever was left behind, by whatever crash, a host comes up again: a   *)
(* stale socket file or a lock nobody holds never keeps the bridge down.   *)
ServiceResumes == []<>(\E p \in Proc : pc[p] = "serving")
=============================================================================
