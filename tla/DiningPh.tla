------------------------------ MODULE DiningPh ------------------------------
(***************************************************************************)
(* The dining philosophers of threads/diningph.cc as threadtest.cc runs    *)
(* them, over the thread kernel: DiningPh is a monitor made of the lock dp *)
(* and a condition for each philosopher.  pc names the statement a thread  *)
(* executes next; a step is one kernel operation and the assignments up to *)
(* it, and between steps the thread can be preempted.                      *)
(***************************************************************************)
EXTENDS NachosSync

CONSTANTS
  N,      (* philosophers, 5 in the code                                   *)
  Meals,  (* turns of the loop of Philo, 10 in the code                    *)
  dp      (* the lock                                                      *)

Philosophers == 0..(N - 1)

TableAssumption ==
  /\ N \in Nat \ {0, 1} /\ Meals \in Nat \ {0}
  /\ Threads = Philosophers \union {MainThread} /\ MainThread \notin Philosophers
  /\ Philosophers \subseteq Conditions /\ Locks = {dp}
  /\ Semaphores = {} /\ Devices = {}

VARIABLES
  state,  (* what DiningPh knows of each philosopher                       *)
  pc, meals

tableVars == <<vars, state, pc, meals>>

Points == {"first", "pickup", "test", "wait", "taken", "eats", "putdown",
           "left", "right", "put", "thinks", "end", "gone"}

DiningTypeOK ==
  /\ TypeOK
  /\ state \in [Philosophers -> {"Thinking", "Hungry", "Eating"}]
  /\ pc \in [Philosophers -> Points]
  /\ meals \in [Philosophers -> 0..Meals]

DiningInit ==
  /\ Init
  /\ state = [i \in Philosophers |-> "Thinking"]
  /\ pc = [i \in Philosophers |-> "first"]
  /\ meals = [i \in Philosophers |-> 0]

Left(i) == (i + N - 1) % N
Right(i) == (i + 1) % N

Go(i, from, to) == pc[i] = from /\ pc' = [pc EXCEPT ![i] = to]

-----------------------------------------------------------------------------
(* DiningPh::test, by thread t holding dp, on the states st that t has     *)
(* just assigned.                                                          *)

(* Mutant: test looks at one neighbour only.                               *)
MayEatRight(st, i) == st[i] = "Hungry" /\ st[Right(i)] # "Eating"

MayEat(st, i) ==
  st[Left(i)] # "Eating" /\ st[i] = "Hungry" /\ st[Right(i)] # "Eating"

Test(t, i, st) ==
  \/ /\ MayEat(st, i)
     /\ state' = [st EXCEPT ![i] = "Eating"]
     /\ Signal(t, i, dp)
  \/ /\ ~ MayEat(st, i) /\ Running(t)
     /\ state' = st
     /\ UNCHANGED vars

(* DiningPh::pickup: Acquire; state and test; if still Hungry, Wait (with  *)
(* an `if`: whoever signals has already made the state Eating); Release.   *)
Pickup(i) ==
  \/ Go(i, "pickup", "test") /\ P(i, dp) /\ UNCHANGED <<state, meals>>
  \/ /\ Go(i, "test", "wait")
     /\ Test(i, i, [state EXCEPT ![i] = "Hungry"])
     /\ UNCHANGED meals
  \/ /\ state[i] = "Hungry" /\ Go(i, "wait", "taken")
     /\ Wait(i, i, dp)
     /\ UNCHANGED <<state, meals>>
  \/ /\ \/ state[i] # "Hungry" /\ Go(i, "wait", "eats")
        \/ Go(i, "taken", "eats")
     /\ Release(i, dp)
     /\ UNCHANGED <<state, meals>>

(* DiningPh::putdown: Acquire; state and the test of one neighbour; of the *)
(* other; Release.                                                         *)
Putdown(i) ==
  \/ Go(i, "putdown", "left") /\ P(i, dp) /\ UNCHANGED <<state, meals>>
  \/ /\ Go(i, "left", "right")
     /\ Test(i, Left(i), [state EXCEPT ![i] = "Thinking"])
     /\ UNCHANGED meals
  \/ Go(i, "right", "put") /\ Test(i, Right(i), state) /\ UNCHANGED meals
  \/ Go(i, "put", "thinks") /\ Release(i, dp) /\ UNCHANGED <<state, meals>>

-----------------------------------------------------------------------------
(* threadtest.cc.                                                          *)

(* An explicit Yield: with nobody ready it returns at once.                *)
YieldNow(t) ==
  \/ Yield(t)
  \/ Running(t) /\ readyList = <<>> /\ UNCHANGED vars

(* Philo: a Yield, then Meals times pickup, Yield, putdown, Yield.         *)
Philo(i) ==
  \/ Pickup(i)
  \/ Putdown(i)
  \/ /\ Go(i, "first", "pickup") \/ Go(i, "eats", "putdown")
     /\ YieldNow(i)
     /\ UNCHANGED <<state, meals>>
  \/ /\ Go(i, "thinks", IF meals[i] + 1 < Meals THEN "pickup" ELSE "end")
     /\ meals' = [meals EXCEPT ![i] = @ + 1]
     /\ YieldNow(i)
     /\ UNCHANGED state
  \/ Go(i, "end", "gone") /\ Finish(i) /\ UNCHANGED <<state, meals>>

(* ThreadTest forks the philosophers in turn; main.cc then finishes.       *)
ThreadTest ==
  /\ \/ \E k \in Philosophers :
          /\ \A j \in Philosophers : life[j] = "new" <=> j >= k
          /\ Fork(MainThread, k)
     \/ /\ \A j \in Philosophers : life[j] # "new"
        /\ Finish(MainThread)
  /\ UNCHANGED <<state, pc, meals>>

(* The rest of the kernel, with no device in this system.                  *)
System ==
  /\ Dispatch \/ Idle \/ \E t \in Threads : Resume(t)
  /\ UNCHANGED <<state, pc, meals>>

(* The time slicer (-p, -rs): the running thread yields anywhere.          *)
Preempt == (\E t \in Threads : Yield(t)) /\ UNCHANGED <<state, pc, meals>>

Progress == System \/ ThreadTest \/ \E i \in Philosophers : Philo(i)

DiningNext == Progress \/ Preempt

DiningSpec == DiningInit /\ [][DiningNext]_tableVars

-----------------------------------------------------------------------------
(* Properties.                                                             *)

(* Between the return of pickup and the assignment in putdown.             *)
Dines(i) == pc[i] \in {"eats", "putdown", "left"}

(* The point of the monitor: two neighbours never dine together, however   *)
(* the one that was signalled and the lock's newcomers are interleaved.    *)
NeighboursApart == \A i \in Philosophers : ~ (Dines(i) /\ Dines(Right(i)))

(* Everybody has eaten Meals times.                                        *)
AllDined == \A i \in Philosophers : meals[i] = Meals

=============================================================================
