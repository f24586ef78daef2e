----------------------- MODULE ServerLifecycle_proofs -----------------------
(***************************************************************************)
(* TLAPS proofs about ServerLifecycle, for every set of instances and      *)
(* inode numbers and any number of faults.  The argument: only the holder  *)
(* of the lock changes the file or starts to listen, and whoever is about  *)
(* to do so has made sure, under the lock, that nobody listens; a listener *)
(* that lost its lock (it is dying) still has its file, because the next   *)
(* holder finds it answering and gives up.                                 *)
(***************************************************************************)
EXTENDS ServerLifecycle, TLAPS

Locked == {"stat", "probe", "restat", "unstale", "bind", "identify", "listen",
           "serving", "shut", "check", "unlink", "unlock"}

LockHeld == \A p \in Proc : pc[p] \in Locked => lock = p

(* Nobody but p listens.                                                   *)
Alone(p) == \A q \in Proc \ {p} : ~listening[q]

Sockets ==
    \A p \in Proc :
        /\ pc[p] \in {"identify", "listen"} => file = bound[p]
        /\ own[p] # None => pc[p] \in {"listen", "serving", "shut", "check", "unlink", "unlock"}
        /\ pc[p] \in {"restat", "unstale", "bind", "identify", "listen", "unlink", "serving"}
              => Alone(p)
        /\ pc[p] \in {"shut", "check"} /\ own[p] # None => Alone(p)

IInv == TypeOK /\ LockHeld /\ Sockets /\ AtMostOneServer /\ ServedPathIsOwn

LEMMA InitInv == Init => IInv
  BY LifecycleAssumption
     DEF Init, IInv, TypeOK, LockHeld, Locked, Sockets, Alone, AtMostOneServer, ServedPathIsOwn

(* Every step keeps the types.                                             *)
LEMMA TypeStep ==
    ASSUME TypeOK, [Next]_vars
    PROVE  TypeOK'
  <1> USE LifecycleAssumption DEF TypeOK, Goto, Fault, Forget
  <1>1. ASSUME NEW p \in Proc, Start(p) PROVE TypeOK'
    BY <1>1 DEF Start
  <1>2. ASSUME NEW p \in Proc, Flock(p) PROVE TypeOK'
    BY <1>2 DEF Flock, LockFree
  <1>3. ASSUME NEW p \in Proc, Stat(p) PROVE TypeOK'
    BY <1>3 DEF Stat
  <1>4. ASSUME NEW p \in Proc, Probe(p) PROVE TypeOK'
    BY <1>4 DEF Probe
  <1>5. ASSUME NEW p \in Proc, Restat(p) PROVE TypeOK'
    BY <1>5 DEF Restat
  <1>6. ASSUME NEW p \in Proc, Unstale(p) PROVE TypeOK'
    BY <1>6 DEF Unstale, RemoveStale
  <1>7. ASSUME NEW p \in Proc, Bind(p) PROVE TypeOK'
    BY <1>7 DEF Bind, FreshInode
  <1>8. ASSUME NEW p \in Proc, Identify(p) PROVE TypeOK'
    BY <1>8 DEF Identify
  <1>9. ASSUME NEW p \in Proc, Listen(p) PROVE TypeOK'
    BY <1>9 DEF Listen
  <1>10. ASSUME NEW p \in Proc, ShutSocket(p) PROVE TypeOK'
    BY <1>10 DEF ShutSocket
  <1>11. ASSUME NEW p \in Proc, Check(p) PROVE TypeOK'
    BY <1>11 DEF Check, HoldLock
  <1>12. ASSUME NEW p \in Proc, Unlink(p) PROVE TypeOK'
    BY <1>12 DEF Unlink
  <1>13. ASSUME NEW p \in Proc, Unlock(p) PROVE TypeOK'
    BY <1>13 DEF Unlock
  <1>14. ASSUME NEW p \in Proc, KernelUnlocks(p) PROVE TypeOK'
    BY <1>14 DEF KernelUnlocks
  <1>15. ASSUME NEW p \in Proc, KernelShuts(p) PROVE TypeOK'
    BY <1>15 DEF KernelShuts
  <1>16. ASSUME NEW p \in Proc, Reap(p) PROVE TypeOK'
    BY <1>16 DEF Reap
  <1>17. ASSUME NEW p \in Proc, Raise(p) PROVE TypeOK'
    BY <1>17 DEF Raise
  <1>18. ASSUME NEW p \in Proc, Close(p) PROVE TypeOK'
    BY <1>18 DEF Close
  <1>19. ASSUME NEW p \in Proc, Kill(p) PROVE TypeOK'
    BY <1>19 DEF Kill
  <1>20. CASE UNCHANGED vars
    BY <1>20 DEF vars
  <1> QED
    BY <1>1, <1>2, <1>3, <1>4, <1>5, <1>6, <1>7, <1>8, <1>9, <1>10, <1>11, <1>12, <1>13, <1>14, <1>15, <1>16, <1>17, <1>18, <1>19, <1>20
       DEF Next, Running

(* Whoever is past the flock holds the lock.                               *)
LEMMA LockStep ==
    ASSUME TypeOK, LockHeld, [Next]_vars
    PROVE  LockHeld'
  <1> USE LifecycleAssumption DEF TypeOK, LockHeld, Locked, Goto, Fault, Forget
  <1>1. ASSUME NEW p \in Proc, Start(p) PROVE LockHeld'
    BY <1>1 DEF Start
  <1>2. ASSUME NEW p \in Proc, Flock(p) PROVE LockHeld'
    BY <1>2 DEF Flock, LockFree
  <1>3. ASSUME NEW p \in Proc, Stat(p) PROVE LockHeld'
    BY <1>3 DEF Stat
  <1>4. ASSUME NEW p \in Proc, Probe(p) PROVE LockHeld'
    BY <1>4 DEF Probe, Answers
  <1>5. ASSUME NEW p \in Proc, Restat(p) PROVE LockHeld'
    BY <1>5 DEF Restat
  <1>6. ASSUME NEW p \in Proc, Unstale(p) PROVE LockHeld'
    BY <1>6 DEF Unstale, RemoveStale
  <1>7. ASSUME NEW p \in Proc, Bind(p) PROVE LockHeld'
    BY <1>7 DEF Bind, FreshInode
  <1>8. ASSUME NEW p \in Proc, Identify(p) PROVE LockHeld'
    BY <1>8 DEF Identify
  <1>9. ASSUME NEW p \in Proc, Listen(p) PROVE LockHeld'
    BY <1>9 DEF Listen
  <1>10. ASSUME NEW p \in Proc, ShutSocket(p) PROVE LockHeld'
    BY <1>10 DEF ShutSocket
  <1>11. ASSUME NEW p \in Proc, Check(p) PROVE LockHeld'
    BY <1>11 DEF Check, HoldLock
  <1>12. ASSUME NEW p \in Proc, Unlink(p) PROVE LockHeld'
    BY <1>12 DEF Unlink
  <1>13. ASSUME NEW p \in Proc, Unlock(p) PROVE LockHeld'
    BY <1>13 DEF Unlock
  <1>14. ASSUME NEW p \in Proc, KernelUnlocks(p) PROVE LockHeld'
    BY <1>14 DEF KernelUnlocks
  <1>15. ASSUME NEW p \in Proc, KernelShuts(p) PROVE LockHeld'
    BY <1>15 DEF KernelShuts
  <1>16. ASSUME NEW p \in Proc, Reap(p) PROVE LockHeld'
    BY <1>16 DEF Reap
  <1>17. ASSUME NEW p \in Proc, Raise(p) PROVE LockHeld'
    BY <1>17 DEF Raise
  <1>18. ASSUME NEW p \in Proc, Close(p) PROVE LockHeld'
    BY <1>18 DEF Close
  <1>19. ASSUME NEW p \in Proc, Kill(p) PROVE LockHeld'
    BY <1>19 DEF Kill
  <1>20. CASE UNCHANGED vars
    BY <1>20 DEF vars
  <1> QED
    BY <1>1, <1>2, <1>3, <1>4, <1>5, <1>6, <1>7, <1>8, <1>9, <1>10, <1>11, <1>12, <1>13, <1>14, <1>15, <1>16, <1>17, <1>18, <1>19, <1>20
       DEF Next, Running

(* Whoever is about to change the file or to listen is alone.              *)
LEMMA SocketsStep ==
    ASSUME TypeOK, LockHeld, Sockets, ServedPathIsOwn, [Next]_vars
    PROVE  Sockets'
  <1> USE LifecycleAssumption
      DEF TypeOK, LockHeld, Locked, Sockets, ServedPathIsOwn, Alone, Goto, Fault, Forget
  <1>1. ASSUME NEW p \in Proc, Start(p) PROVE Sockets'
    BY <1>1 DEF Start
  <1>2. ASSUME NEW p \in Proc, Flock(p) PROVE Sockets'
    BY <1>2 DEF Flock, LockFree
  <1>3. ASSUME NEW p \in Proc, Stat(p) PROVE Sockets'
    BY <1>3 DEF Stat
  <1>4. ASSUME NEW p \in Proc, Probe(p) PROVE Sockets'
    BY <1>4 DEF Probe, Answers
  <1>5. ASSUME NEW p \in Proc, Restat(p) PROVE Sockets'
    BY <1>5 DEF Restat
  <1>6. ASSUME NEW p \in Proc, Unstale(p) PROVE Sockets'
    BY <1>6 DEF Unstale, RemoveStale
  <1>7. ASSUME NEW p \in Proc, Bind(p) PROVE Sockets'
    BY <1>7 DEF Bind, FreshInode
  <1>8. ASSUME NEW p \in Proc, Identify(p) PROVE Sockets'
    BY <1>8 DEF Identify
  <1>9. ASSUME NEW p \in Proc, Listen(p) PROVE Sockets'
    BY <1>9 DEF Listen
  <1>10. ASSUME NEW p \in Proc, ShutSocket(p) PROVE Sockets'
    BY <1>10 DEF ShutSocket
  <1>11. ASSUME NEW p \in Proc, Check(p) PROVE Sockets'
    BY <1>11 DEF Check, HoldLock
  <1>12. ASSUME NEW p \in Proc, Unlink(p) PROVE Sockets'
    BY <1>12 DEF Unlink
  <1>13. ASSUME NEW p \in Proc, Unlock(p) PROVE Sockets'
    BY <1>13 DEF Unlock
  <1>14. ASSUME NEW p \in Proc, KernelUnlocks(p) PROVE Sockets'
    BY <1>14 DEF KernelUnlocks
  <1>15. ASSUME NEW p \in Proc, KernelShuts(p) PROVE Sockets'
    BY <1>15 DEF KernelShuts
  <1>16. ASSUME NEW p \in Proc, Reap(p) PROVE Sockets'
    BY <1>16 DEF Reap
  <1>17. ASSUME NEW p \in Proc, Raise(p) PROVE Sockets'
    BY <1>17 DEF Raise
  <1>18. ASSUME NEW p \in Proc, Close(p) PROVE Sockets'
    BY <1>18 DEF Close
  <1>19. ASSUME NEW p \in Proc, Kill(p) PROVE Sockets'
    BY <1>19 DEF Kill
  <1>20. CASE UNCHANGED vars
    BY <1>20 DEF vars
  <1> QED
    BY <1>1, <1>2, <1>3, <1>4, <1>5, <1>6, <1>7, <1>8, <1>9, <1>10, <1>11, <1>12, <1>13, <1>14, <1>15, <1>16, <1>17, <1>18, <1>19, <1>20
       DEF Next, Running

(* A new listener comes when nobody else listens.                          *)
LEMMA OneServerStep ==
    ASSUME TypeOK, Sockets, AtMostOneServer, [Next]_vars
    PROVE  AtMostOneServer'
  <1> USE DEF TypeOK, Sockets, Alone, AtMostOneServer
  <1>1. ASSUME NEW p \in Proc, Start(p) PROVE AtMostOneServer'
    BY <1>1 DEF Start
  <1>2. ASSUME NEW p \in Proc, Flock(p) PROVE AtMostOneServer'
    BY <1>2 DEF Flock, LockFree
  <1>3. ASSUME NEW p \in Proc, Stat(p) PROVE AtMostOneServer'
    BY <1>3 DEF Stat
  <1>4. ASSUME NEW p \in Proc, Probe(p) PROVE AtMostOneServer'
    BY <1>4 DEF Probe, Answers
  <1>5. ASSUME NEW p \in Proc, Restat(p) PROVE AtMostOneServer'
    BY <1>5 DEF Restat
  <1>6. ASSUME NEW p \in Proc, Unstale(p) PROVE AtMostOneServer'
    BY <1>6 DEF Unstale, RemoveStale
  <1>7. ASSUME NEW p \in Proc, Bind(p) PROVE AtMostOneServer'
    BY <1>7 DEF Bind, FreshInode
  <1>8. ASSUME NEW p \in Proc, Identify(p) PROVE AtMostOneServer'
    BY <1>8 DEF Identify
  <1>9. ASSUME NEW p \in Proc, Listen(p) PROVE AtMostOneServer'
    BY <1>9 DEF Listen
  <1>10. ASSUME NEW p \in Proc, ShutSocket(p) PROVE AtMostOneServer'
    BY <1>10 DEF ShutSocket
  <1>11. ASSUME NEW p \in Proc, Check(p) PROVE AtMostOneServer'
    BY <1>11 DEF Check, HoldLock
  <1>12. ASSUME NEW p \in Proc, Unlink(p) PROVE AtMostOneServer'
    BY <1>12 DEF Unlink
  <1>13. ASSUME NEW p \in Proc, Unlock(p) PROVE AtMostOneServer'
    BY <1>13 DEF Unlock
  <1>14. ASSUME NEW p \in Proc, KernelUnlocks(p) PROVE AtMostOneServer'
    BY <1>14 DEF KernelUnlocks
  <1>15. ASSUME NEW p \in Proc, KernelShuts(p) PROVE AtMostOneServer'
    BY <1>15 DEF KernelShuts
  <1>16. ASSUME NEW p \in Proc, Reap(p) PROVE AtMostOneServer'
    BY <1>16 DEF Reap
  <1>17. ASSUME NEW p \in Proc, Raise(p) PROVE AtMostOneServer'
    BY <1>17 DEF Raise
  <1>18. ASSUME NEW p \in Proc, Close(p) PROVE AtMostOneServer'
    BY <1>18 DEF Close
  <1>19. ASSUME NEW p \in Proc, Kill(p) PROVE AtMostOneServer'
    BY <1>19 DEF Kill
  <1>20. CASE UNCHANGED vars
    BY <1>20 DEF vars
  <1> QED
    BY <1>1, <1>2, <1>3, <1>4, <1>5, <1>6, <1>7, <1>8, <1>9, <1>10, <1>11, <1>12, <1>13, <1>14, <1>15, <1>16, <1>17, <1>18, <1>19, <1>20
       DEF Next, Running

(* The file is only changed when nobody listens.                           *)
LEMMA ServedPathStep ==
    ASSUME TypeOK, LockHeld, Sockets, ServedPathIsOwn, [Next]_vars
    PROVE  ServedPathIsOwn'
  <1> USE LifecycleAssumption
      DEF TypeOK, LockHeld, Locked, Sockets, Alone, ServedPathIsOwn
  <1>1. ASSUME NEW p \in Proc, Start(p) PROVE ServedPathIsOwn'
    BY <1>1 DEF Start
  <1>2. ASSUME NEW p \in Proc, Flock(p) PROVE ServedPathIsOwn'
    BY <1>2 DEF Flock, LockFree
  <1>3. ASSUME NEW p \in Proc, Stat(p) PROVE ServedPathIsOwn'
    BY <1>3 DEF Stat
  <1>4. ASSUME NEW p \in Proc, Probe(p) PROVE ServedPathIsOwn'
    BY <1>4 DEF Probe, Answers
  <1>5. ASSUME NEW p \in Proc, Restat(p) PROVE ServedPathIsOwn'
    BY <1>5 DEF Restat
  <1>6. ASSUME NEW p \in Proc, Unstale(p) PROVE ServedPathIsOwn'
    BY <1>6 DEF Unstale, RemoveStale
  <1>7. ASSUME NEW p \in Proc, Bind(p) PROVE ServedPathIsOwn'
    BY <1>7 DEF Bind, FreshInode
  <1>8. ASSUME NEW p \in Proc, Identify(p) PROVE ServedPathIsOwn'
    BY <1>8 DEF Identify
  <1>9. ASSUME NEW p \in Proc, Listen(p) PROVE ServedPathIsOwn'
    BY <1>9 DEF Listen
  <1>10. ASSUME NEW p \in Proc, ShutSocket(p) PROVE ServedPathIsOwn'
    BY <1>10 DEF ShutSocket
  <1>11. ASSUME NEW p \in Proc, Check(p) PROVE ServedPathIsOwn'
    BY <1>11 DEF Check, HoldLock
  <1>12. ASSUME NEW p \in Proc, Unlink(p) PROVE ServedPathIsOwn'
    BY <1>12 DEF Unlink
  <1>13. ASSUME NEW p \in Proc, Unlock(p) PROVE ServedPathIsOwn'
    BY <1>13 DEF Unlock
  <1>14. ASSUME NEW p \in Proc, KernelUnlocks(p) PROVE ServedPathIsOwn'
    BY <1>14 DEF KernelUnlocks
  <1>15. ASSUME NEW p \in Proc, KernelShuts(p) PROVE ServedPathIsOwn'
    BY <1>15 DEF KernelShuts
  <1>16. ASSUME NEW p \in Proc, Reap(p) PROVE ServedPathIsOwn'
    BY <1>16 DEF Reap
  <1>17. ASSUME NEW p \in Proc, Raise(p) PROVE ServedPathIsOwn'
    BY <1>17 DEF Raise
  <1>18. ASSUME NEW p \in Proc, Close(p) PROVE ServedPathIsOwn'
    BY <1>18 DEF Close
  <1>19. ASSUME NEW p \in Proc, Kill(p) PROVE ServedPathIsOwn'
    BY <1>19 DEF Kill
  <1>20. CASE UNCHANGED vars
    BY <1>20 DEF vars
  <1> QED
    BY <1>1, <1>2, <1>3, <1>4, <1>5, <1>6, <1>7, <1>8, <1>9, <1>10, <1>11, <1>12, <1>13, <1>14, <1>15, <1>16, <1>17, <1>18, <1>19, <1>20
       DEF Next, Running

LEMMA Invariance == Spec => []IInv
  <1>1. IInv /\ [Next]_vars => IInv'
    BY TypeStep, LockStep, SocketsStep, OneServerStep, ServedPathStep DEF IInv
  <1> QED
    BY InitInv, <1>1, PTL DEF Spec

(* For any number of instances and crashes, at most one accepts            *)
(* connections (socket_server.py:91-108, 211-237).                         *)
THEOREM SingleServer == Spec => []AtMostOneServer
  <1>1. IInv => AtMostOneServer
    BY DEF IInv
  <1> QED
    BY Invariance, <1>1, PTL

(* The socket file of a listening instance is never removed or replaced by *)
(* another (socket_server.py:211-251, 263-269).                            *)
THEOREM ServedPath == Spec => []ServedPathIsOwn
  <1>1. IInv => ServedPathIsOwn
    BY DEF IInv
  <1> QED
    BY Invariance, <1>1, PTL
=============================================================================
