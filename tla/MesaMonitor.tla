---------------------------- MODULE MesaMonitor ----------------------------
(***************************************************************************)
(* What threads/synch.h promises of semaphores, locks and condition        *)
(* variables, with no scheduler and no queue: the operations return in one *)
(* step, and who is served first is left open.                             *)
(***************************************************************************)
EXTENDS Naturals

CONSTANTS Threads, Semaphores, Locks, Conditions, InitialValue, NULL

VARIABLES
  value,     (* of each semaphore                                          *)
  holder,    (* of each lock, NULL when it is FREE                         *)
  sleepers   (* threads in Wait on each condition and not yet signalled    *)

vars == <<value, holder, sleepers>>

Init ==
  /\ value = InitialValue
  /\ holder = [l \in Locks |-> NULL]
  /\ sleepers = [c \in Conditions |-> {}]

Asleep(t) == \E c \in Conditions : t \in sleepers[c]

(* P returns: "waits until value > 0, then decrement".                     *)
P(t, s) ==
  /\ ~ Asleep(t) /\ value[s] > 0
  /\ value' = [value EXCEPT ![s] = @ - 1]
  /\ UNCHANGED <<holder, sleepers>>

V(s) ==
  /\ value' = [value EXCEPT ![s] = @ + 1]
  /\ UNCHANGED <<holder, sleepers>>

(* Acquire returns, or Wait does: "wait until the lock is FREE, then set   *)
(* it to BUSY".                                                            *)
Acquire(t, l) ==
  /\ ~ Asleep(t) /\ holder[l] = NULL
  /\ holder' = [holder EXCEPT ![l] = t]
  /\ UNCHANGED <<value, sleepers>>

Release(t, l) ==
  /\ ~ Asleep(t) /\ holder[l] = t
  /\ holder' = [holder EXCEPT ![l] = NULL]
  /\ UNCHANGED <<value, sleepers>>

(* "releasing the lock and going to sleep are *atomic* in Wait()".         *)
Wait(t, c, l) ==
  /\ ~ Asleep(t) /\ holder[l] = t
  /\ holder' = [holder EXCEPT ![l] = NULL]
  /\ sleepers' = [sleepers EXCEPT ![c] = @ \union {t}]
  /\ UNCHANGED value

(* "conditionLock must be held by the currentThread".                      *)
Signal(t, c, l) ==
  /\ ~ Asleep(t) /\ holder[l] = t
  /\ \E woken \in sleepers[c] :
       sleepers' = [sleepers EXCEPT ![c] = @ \ {woken}]
  /\ UNCHANGED <<value, holder>>

Broadcast(t, c, l) ==
  /\ ~ Asleep(t) /\ holder[l] = t
  /\ sleepers' = [sleepers EXCEPT ![c] = {}]
  /\ UNCHANGED <<value, holder>>

Next ==
  \/ \E s \in Semaphores : V(s)
  \/ \E t \in Threads :
       \/ \E s \in Semaphores : P(t, s)
       \/ \E l \in Locks :
            \/ Acquire(t, l)
            \/ Release(t, l)
            \/ \E c \in Conditions :
                 Wait(t, c, l) \/ Signal(t, c, l) \/ Broadcast(t, c, l)

Spec == Init /\ [][Next]_vars

=============================================================================
