------------------------------- MODULE Barrier -------------------------------
(***************************************************************************)
(* The Barrier of threads/synch.cc over the thread kernel: a lock lk, a    *)
(* condition cv and a count.  The constructor means to make the count 0    *)
(* and assigns its parameter instead, so the first value is whatever was   *)
(* in the heap, which firstCount remembers.  A step is one kernel          *)
(* operation with the assignments up to it; between steps the thread can   *)
(* be preempted.                                                           *)
(***************************************************************************)
EXTENDS NachosSync

CONSTANTS
  threshold,
  InitialCounts,  (* what the heap may hold                                *)
  Rounds,         (* bound: how often a thread calls Wait                  *)
  lk, cv

BarrierAssumption ==
  /\ threshold \in Nat \ {0} /\ Rounds \in Nat \ {0}
  /\ InitialCounts # {} /\ InitialCounts \subseteq Int
  /\ Locks = {lk} /\ cv \in Conditions
  /\ Semaphores = {} /\ Devices = {}

VARIABLES
  count,
  firstCount, (* history: what the heap held                            *)
  pc,
  arrived  (* Waits a thread has called, as far as the barrier has counted *)

barrierVars == <<vars, count, firstCount, pc, arrived>>

BarrierTypeOK ==
  /\ TypeOK
  /\ count \in {c \in Int : c < threshold} \union InitialCounts
  /\ firstCount \in InitialCounts
  /\ pc \in [Threads -> {"out", "in", "leave", "gone"}]
  /\ arrived \in [Threads -> 0..Rounds]

BarrierInit ==
  /\ Init
  /\ count \in InitialCounts /\ firstCount = count
  /\ pc = [t \in Threads |-> "out"]
  /\ arrived = [t \in Threads |-> 0]

Go(t, from, to) == pc[t] = from /\ pc' = [pc EXCEPT ![t] = to]

(* Mutant: the thread that opens the barrier wakes one of the others.      *)
CountSignals(t) ==
  /\ Go(t, "in", "leave")
  /\ arrived' = [arrived EXCEPT ![t] = @ + 1]
  /\ \/ count + 1 < threshold /\ count' = count + 1 /\ Wait(t, cv, lk)
     \/ count + 1 >= threshold /\ count' = 0 /\ Signal(t, cv, lk)

(* Mutant: the count is not reset for the next use of the barrier.         *)
CountOnce(t) ==
  /\ Go(t, "in", "leave")
  /\ arrived' = [arrived EXCEPT ![t] = @ + 1]
  /\ count' = count + 1
  /\ \/ count + 1 < threshold /\ Wait(t, cv, lk)
     \/ count + 1 >= threshold /\ Broadcast(t, cv, lk)

(* Inside the lock: sleep, or be the last and wake the others.             *)
Count(t) ==
  /\ Go(t, "in", "leave")
  /\ arrived' = [arrived EXCEPT ![t] = @ + 1]
  /\ \/ count + 1 < threshold /\ count' = count + 1 /\ Wait(t, cv, lk)
     \/ count + 1 >= threshold /\ count' = 0 /\ Broadcast(t, cv, lk)

(* Barrier::Wait.                                                          *)
BarrierWait(t) ==
  \/ /\ Go(t, "out", "in") /\ arrived[t] < Rounds
     /\ P(t, lk) /\ UNCHANGED <<count, arrived>>
  \/ Count(t)
  \/ Go(t, "leave", "out") /\ Release(t, lk) /\ UNCHANGED <<count, arrived>>

(* Main forks the other threads and then uses the barrier like them.       *)
User(t) ==
  \/ /\ t = MainThread /\ \E new \in Threads : Fork(t, new)
     /\ UNCHANGED <<count, pc, arrived>>
  \/ /\ t = MainThread => \A new \in Threads : life[new] # "new"
     /\ BarrierWait(t)
  \/ /\ arrived[t] = Rounds /\ Go(t, "out", "gone")
     /\ Finish(t) /\ UNCHANGED <<count, arrived>>

System ==
  /\ Dispatch \/ Idle \/ \E t \in Threads : Resume(t)
  /\ UNCHANGED <<count, pc, arrived>>

(* The time slicer: the running thread yields anywhere.                    *)
Preempt ==
  (\E t \in Threads : Yield(t)) /\ UNCHANGED <<count, firstCount, pc, arrived>>

Progress ==
  (System \/ \E t \in Threads : User(t)) /\ UNCHANGED firstCount

BarrierSpec == BarrierInit /\ [][Progress \/ Preempt]_barrierVars

-----------------------------------------------------------------------------
(* Properties.                                                             *)

Passed(t) == arrived[t] - IF pc[t] = "leave" THEN 1 ELSE 0

(* Those who have yet to call a Wait that t has returned from.             *)
Behind(t) == {u \in Threads : arrived[u] < Passed(t)}

(* As many as the heap counted before anybody came.                        *)
NeverCame == IF firstCount > 0 THEN firstCount ELSE 0

(* With as many threads as the threshold, nobody is ever through a Wait    *)
(* that more threads have yet to call than the heap counted at first: the  *)
(* surplus opens the barrier early once, and those it leaves behind stay   *)
(* one round behind the others for ever.  From a count of 0 or less that   *)
(* is none, the first time or any later time.                              *)
BarrierHolds == \A t \in Threads : Cardinality(Behind(t)) <= NeverCame

(* Everybody has got through every round.                                  *)
AllPassed == \A t \in Threads : pc[t] = "gone"

=============================================================================
