-------------------------- MODULE Background_proofs --------------------------
(***************************************************************************)
(* TLAPS proofs about Background, for every set of ports and any number of *)
(* handlers.  The argument: the only step that gives up the port sets the  *)
(* alarm, the only step that spends the alarm asks for a port, and a host  *)
(* is only started when there is no port, which is when no host runs.      *)
(* That the backoff is the doubled one needs the recursive Doubled to be   *)
(* what its equation says: a closed form of it shows that the equation has *)
(* a solution.                                                             *)
(***************************************************************************)
EXTENDS Background, TLAPS

IInv == TypeOK /\ NeverStranded /\ OneHost /\ BackoffCountsFailures

-----------------------------------------------------------------------------
(* The reference for the backoff.                                          *)

(* A closed form of Doubled.                                               *)
Closed(n) ==
    CASE n = 0 -> 1000 [] n = 1 -> 2000 [] n = 2 -> 4000 [] n = 3 -> 8000
      [] n = 4 -> 16000 [] n = 5 -> 32000 [] OTHER -> 60000

(* Doubled satisfies the equation that defines it.                         *)
LEMMA DoubledEquation ==
    Doubled = [n \in Nat |->
        IF n = 0 THEN FirstBackoff ELSE Smaller(2 * Doubled[n - 1], MAX_BACKOFF_MS)]
  <1> DEFINE f == [n \in Nat |-> Closed(n)]
             Solves(g) == g = [n \in Nat |->
                 IF n = 0 THEN FirstBackoff ELSE Smaller(2 * g[n - 1], MAX_BACKOFF_MS)]
  <1>1. ASSUME NEW n \in Nat
        PROVE  f[n] = IF n = 0 THEN FirstBackoff ELSE Smaller(2 * f[n - 1], MAX_BACKOFF_MS)
    <2>1. CASE n = 0
      BY <2>1 DEF Closed, FirstBackoff
    <2>2. CASE n # 0
      <3>1. n - 1 \in Nat
        BY <2>2
      <3> HIDE DEF f
      <3>2. f[n] = Closed(n) /\ f[n - 1] = Closed(n - 1)
        BY <3>1 DEF f
      <3>3. Closed(n) = Smaller(2 * Closed(n - 1), MAX_BACKOFF_MS)
        BY <2>2 DEF Closed, Smaller, MAX_BACKOFF_MS
      <3> QED
        BY <2>2, <3>2, <3>3
    <2> QED
      BY <2>1, <2>2
  <1>2. Solves(f)
    BY <1>1
  <1>3. Doubled = CHOOSE g : Solves(g)
    BY DEF Doubled
  <1> HIDE DEF f, Solves
  <1>4. Solves(Doubled)
    BY <1>2, <1>3, Zenon
  <1> QED
    BY <1>4 DEF Solves

(* One failure more doubles the delay, and once as many failures are       *)
(* counted as are told apart, the delay has reached its maximum.           *)
LEMMA OneMoreDoubles ==
    /\ Doubled[0] = FirstBackoff
    /\ \A n \in 0..Saturated : Smaller(Doubled[n] * 2, MAX_BACKOFF_MS) = Doubled[OneMore(n)]
  <1>1. Doubled[0] = 1000
    BY DoubledEquation DEF FirstBackoff
  <1>2. \A n \in Nat : Doubled[n + 1] = Smaller(2 * Doubled[n], 60000)
    BY DoubledEquation DEF MAX_BACKOFF_MS
  <1>3. /\ Doubled[1] = 2000 /\ Doubled[2] = 4000 /\ Doubled[3] = 8000
        /\ Doubled[4] = 16000 /\ Doubled[5] = 32000 /\ Doubled[6] = 60000
    <2>1. /\ Doubled[0 + 1] = Smaller(2 * Doubled[0], 60000)
          /\ Doubled[1 + 1] = Smaller(2 * Doubled[1], 60000)
          /\ Doubled[2 + 1] = Smaller(2 * Doubled[2], 60000)
          /\ Doubled[3 + 1] = Smaller(2 * Doubled[3], 60000)
          /\ Doubled[4 + 1] = Smaller(2 * Doubled[4], 60000)
          /\ Doubled[5 + 1] = Smaller(2 * Doubled[5], 60000)
      BY <1>2
    <2> QED
      BY <1>1, <2>1 DEF Smaller
  <1>4. ASSUME NEW n \in 0..6
        PROVE  Smaller(Doubled[n] * 2, 60000) = Doubled[Smaller(n + 1, 6)]
    <2>1. CASE n = 6
      BY <1>3, <2>1 DEF Smaller
    <2>2. CASE n \in 0..5
      <3>1. n \in Nat /\ Smaller(n + 1, 6) = n + 1
        BY <2>2 DEF Smaller
      <3>2. Doubled[n] \in Nat
        BY <1>1, <1>3, <2>2
      <3> QED
        BY <1>2, <3>1, <3>2 DEF Smaller
    <2> QED
      BY <2>1, <2>2
  <1> QED
    BY <1>1, <1>4 DEF FirstBackoff, MAX_BACKOFF_MS, OneMore, Saturated

-----------------------------------------------------------------------------
(* Steps.                                                                  *)

(* The alarm is set within its limits, and the backoff stays within them.  *)
LEMMA ScheduleKeeps ==
    ASSUME TypeOK, ScheduleReconnect
    PROVE  /\ backoffMs' \in FirstBackoff..MAX_BACKOFF_MS
           /\ alarm' \in Nat /\ alarm' <= MAX_BACKOFF_MS /\ alarm' # NoAlarm
           /\ failures' \in 0..Saturated
           /\ BackoffCountsFailures => BackoffCountsFailures'
  <1>1. backoffMs \in Nat /\ FirstBackoff <= backoffMs /\ backoffMs <= MAX_BACKOFF_MS
    BY DEF TypeOK, FirstBackoff, MAX_BACKOFF_MS
  <1>2. alarm' \in Nat /\ alarm' <= MAX_BACKOFF_MS /\ alarm' # NoAlarm
    BY <1>1 DEF ScheduleReconnect, NoAlarm, FirstBackoff
  <1>3. backoffMs' \in FirstBackoff..MAX_BACKOFF_MS
    BY <1>1 DEF ScheduleReconnect, Smaller, FirstBackoff, MAX_BACKOFF_MS
  <1>4. failures' \in 0..Saturated
    BY DEF TypeOK, ScheduleReconnect, OneMore, Smaller, Saturated
  <1>5. BackoffCountsFailures => BackoffCountsFailures'
    <2>1. failures \in 0..Saturated
      BY DEF TypeOK
    <2> QED
      BY <2>1, OneMoreDoubles DEF BackoffCountsFailures, ScheduleReconnect
  <1> QED
    BY <1>2, <1>3, <1>4, <1>5

(* connect asks for a port or leaves the one there is.                     *)
LEMMA ConnectKeeps ==
    ASSUME IInv, NEW pending \in Nat, pending <= MAX_BACKOFF_MS,
           pending = alarm \/ pending = NoAlarm, Connect(pending)
    PROVE  /\ port' \in Port \cup {None}
           /\ live' \subseteq Port
           /\ alarm' \in Nat /\ alarm' <= MAX_BACKOFF_MS
           /\ backoffMs' \in FirstBackoff..MAX_BACKOFF_MS
           /\ failures' \in 0..Saturated
           /\ port' = None => alarm' # NoAlarm
           /\ live' \subseteq {port'}
           /\ BackoffCountsFailures'
  <1> USE BackgroundAssumption DEF IInv, TypeOK, NeverStranded, OneHost, NoAlarm
  <1>1. CASE /\ ~MayConnect
             /\ alarm' = pending
             /\ UNCHANGED <<port, live, backoffMs, failures>>
    BY <1>1 DEF MayConnect, BackoffCountsFailures
  <1>2. CASE MayConnect /\ Connected(pending)
    <2>1. live = {}
      BY <1>2 DEF MayConnect
    <2> QED
      BY <1>2, <2>1 DEF MayConnect, Connected, BackoffCountsFailures
  <1>3. CASE MayConnect /\ ScheduleReconnect /\ UNCHANGED <<port, live>>
    <2>1. /\ backoffMs' \in FirstBackoff..MAX_BACKOFF_MS
          /\ alarm' \in Nat /\ alarm' <= MAX_BACKOFF_MS /\ alarm' # NoAlarm
          /\ failures' \in 0..Saturated
          /\ BackoffCountsFailures'
      BY <1>3, ScheduleKeeps
    <2> QED
      BY <1>3, <2>1
  <1> QED
    BY ONLY Connect(pending), <1>1, <1>2, <1>3, Zenon DEF Connect

LEMMA InitInv == Init => IInv
  <1> SUFFICES ASSUME Init PROVE IInv
    OBVIOUS
  <1>1. TypeOK /\ NeverStranded /\ OneHost
    BY BackgroundAssumption
       DEF Init, TypeOK, NeverStranded, OneHost, FirstBackoff, MAX_BACKOFF_MS, NoAlarm,
           Saturated
  <1>2. BackoffCountsFailures
    <2>1. Doubled[0] = 1000 /\ Doubled[1] = Smaller(Doubled[0] * 2, 60000)
      <3>1. 0 \in 0..Saturated /\ OneMore(0) = 1
        BY DEF OneMore, Smaller, Saturated
      <3> QED
        BY <3>1, OneMoreDoubles DEF FirstBackoff, MAX_BACKOFF_MS
    <2> QED
      BY <2>1 DEF Init, BackoffCountsFailures, Smaller, FirstBackoff
  <1> QED
    BY <1>1, <1>2 DEF IInv

LEMMA StepInv ==
    ASSUME IInv, [Next]_vars
    PROVE  IInv'
  <1> USE BackgroundAssumption DEF IInv
  <1>1. CASE Startup
    BY <1>1, ConnectKeeps
       DEF Startup, TypeOK, NeverStranded, OneHost, BackoffCountsFailures
  <1>2. CASE AlarmFires
    BY <1>2, ConnectKeeps
       DEF AlarmFires, TypeOK, NeverStranded, OneHost, BackoffCountsFailures, NoAlarm, MAX_BACKOFF_MS
  <1>3. CASE Suspend
    <2>1. BackoffCountsFailures'
      BY <1>3, OneMoreDoubles DEF Suspend, BackoffCountsFailures
    <2> QED
      BY <1>3, <2>1
         DEF Suspend, TypeOK, NeverStranded, OneHost, FirstBackoff, MAX_BACKOFF_MS, Saturated
  <1>4. ASSUME NEW p \in Port, HostEnds(p) PROVE IInv'
    BY <1>4 DEF HostEnds, TypeOK, NeverStranded, OneHost, BackoffCountsFailures
  <1>5. ASSUME NEW p \in Port, HandleDisconnect(p) PROVE IInv'
    <2>1. live = {} /\ page = "up"
      BY <1>5 DEF HandleDisconnect, TypeOK, OneHost
    <2>2. ScheduleReconnect
      BY <1>5 DEF HandleDisconnect
    <2> QED
      BY <1>5, <2>1, <2>2, ScheduleKeeps
         DEF HandleDisconnect, TypeOK, NeverStranded, OneHost
  <1>6. ASSUME NEW p \in Port, HandleMessage(p) PROVE IInv'
    BY <1>6 DEF HandleMessage, TypeOK, NeverStranded, OneHost, BackoffCountsFailures
  <1>7. ASSUME NEW p \in Port, Handled(p) PROVE IInv'
    <2>1. page = "up"
      BY <1>7 DEF Handled, TypeOK
    <2>2. handling' \in [Port -> 0..MaxHandling]
      BY <1>7 DEF Handled, TypeOK
    <2>3. backoffMs' \in FirstBackoff..MAX_BACKOFF_MS /\ failures' \in 0..Saturated
      <3>1. backoffMs' \in {FirstBackoff, backoffMs} /\ failures' \in {0, failures}
        BY <1>7 DEF Handled
      <3>2. FirstBackoff \in FirstBackoff..MAX_BACKOFF_MS /\ 0 \in 0..Saturated
        BY DEF FirstBackoff, MAX_BACKOFF_MS, Saturated
      <3> QED
        BY <3>1, <3>2 DEF TypeOK
    <2>4. BackoffCountsFailures'
      BY <1>7, OneMoreDoubles DEF Handled, Current, BackoffCountsFailures
    <2> QED
      BY <1>7, <2>1, <2>2, <2>3, <2>4 DEF Handled, TypeOK, NeverStranded, OneHost
  <1>8. CASE UNCHANGED vars
    BY <1>8 DEF vars, TypeOK, NeverStranded, OneHost, BackoffCountsFailures
  <1> QED
    BY <1>1, <1>2, <1>3, <1>4, <1>5, <1>6, <1>7, <1>8 DEF Next

LEMMA Invariance == Spec => []IInv
  BY InitInv, StepInv, PTL DEF Spec

(* The extension is never left without a host and without an alarm to ask  *)
(* for one (background.js:8-19, 36-56).                                    *)
THEOREM AlarmOrPort == Spec => []NeverStranded
  <1>1. IInv => NeverStranded
    BY DEF IInv
  <1> QED
    BY Invariance, <1>1, PTL

(* The extension never has two hosts (background.js:36-49).                *)
THEOREM OneHostAtATime == Spec => []OneHost
  <1>1. IInv => OneHost
    BY DEF IInv
  <1> QED
    BY Invariance, <1>1, PTL

(* The delay before the next attempt is the doubled one, however often     *)
(* hosts failed and whichever handlers of older hosts end late             *)
(* (background.js:10, 30).                                                 *)
THEOREM BackoffDoubles == Spec => []BackoffCountsFailures
  <1>1. IInv => BackoffCountsFailures
    BY DEF IInv
  <1> QED
    BY Invariance, <1>1, PTL
=============================================================================
