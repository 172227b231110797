----------------------------- MODULE NachosSync -----------------------------
(***************************************************************************)
(* The NachOS thread kernel: the scheduler, the thread life cycle, and the *)
(* semaphores, locks and condition variables of threads/synch.cc.          *)
(*                                                                         *)
(* One processor.  An operation runs with interrupts off, so it is atomic  *)
(* up to the point where it puts the caller to sleep; what is left of it   *)
(* then runs, still with interrupts off, when the caller is dispatched.    *)
(* `on[t]` is that continuation: the semaphore in whose P loop t is.       *)
(* With interrupts on, the running thread may be preempted anywhere (-p    *)
(* and -rs) and device handlers may run.                                   *)
(***************************************************************************)
EXTENDS Integers, Sequences, FiniteSets, Functions

CONSTANTS
  Threads,     (* the Thread objects                                       *)
  MainThread,  (* the one that Initialize makes, running from the start    *)
  Semaphores,  (* stand-alone semaphores                                   *)
  Devices,     (* those that an interrupt handler signals                  *)
  Locks,       (* locks; each is identified with its own semaphore         *)
  Conditions,  (* condition variables                                      *)
  InitialValue,(* the value each stand-alone semaphore is made with        *)
  MaxValue,    (* bound: a semaphore's value plus its pending interrupts   *)
  NULL

Sems == Semaphores \union Locks

ASSUME KernelAssumption ==
  /\ IsFiniteSet(Threads) /\ MainThread \in Threads
  /\ Semaphores \intersect Locks = {}
  /\ Devices \subseteq Semaphores
  /\ InitialValue \in [Semaphores -> 0..MaxValue]
  /\ MaxValue \in Nat \ {0}
  /\ NULL \notin Threads /\ NULL \notin Sems

VARIABLES
  currentThread, status, readyList,       (* scheduler                     *)
  life, threadToBeDestroyed,              (* thread objects                *)
  on,                                     (* what a thread has yet to P    *)
  value, queue,                           (* semaphores, the locks' too    *)
  holder, waitQueue,                      (* locks, conditions             *)
  mode, pending                           (* the machine and its devices   *)

threadVars == <<currentThread, status, readyList, life, threadToBeDestroyed>>
synchVars  == <<on, value, queue, holder, waitQueue>>
machVars   == <<mode, pending>>
vars == <<threadVars, synchVars, machVars>>

TypeOK ==
  /\ currentThread \in Threads
  /\ status \in [Threads -> {"JUST_CREATED", "READY", "RUNNING", "BLOCKED"}]
  /\ readyList \in Seq(Threads)
  /\ life \in [Threads -> {"new", "forked", "started", "finished", "deleted"}]
  /\ threadToBeDestroyed \in Threads \union {NULL}
  /\ on \in [Threads -> Sems \union {NULL}]
  /\ value \in [Sems -> Nat]
  /\ queue \in [Sems -> Seq(Threads)]
  /\ holder \in [Locks -> Threads \union {NULL}]
  /\ waitQueue \in [Conditions -> Seq(Threads)]
  /\ mode \in {"SystemMode", "IdleMode", "Halted"}
  /\ pending \in [Devices -> Nat]

Init ==
  /\ currentThread = MainThread
  /\ status = [t \in Threads |->
                 IF t = MainThread THEN "RUNNING" ELSE "JUST_CREATED"]
  /\ readyList = <<>>
  /\ life = [t \in Threads |-> IF t = MainThread THEN "started" ELSE "new"]
  /\ threadToBeDestroyed = NULL
  /\ on = [t \in Threads |-> NULL]
  /\ value = [s \in Sems |-> IF s \in Locks THEN 1 ELSE InitialValue[s]]
  /\ queue = [s \in Sems |-> <<>>]
  /\ holder = [l \in Locks |-> NULL]
  /\ waitQueue = [c \in Conditions |-> <<>>]
  /\ mode = "SystemMode"
  /\ pending = [d \in Devices |-> 0]

(* The current thread executes with interrupts on: it may call an          *)
(* operation, be preempted or be interrupted.                              *)
Running(t) ==
  /\ t = currentThread /\ status[t] = "RUNNING" /\ on[t] = NULL
  /\ mode = "SystemMode"

(* The current thread is inside Thread::Sleep, looking for a successor; in *)
(* the idle loop an interrupt may make ready the very thread that idles.   *)
Sleeping == status[currentThread] = "BLOCKED" \/ mode = "IdleMode"

-----------------------------------------------------------------------------
(* Scheduler.                                                              *)

(* The context switch of Scheduler::Run.  A thread that ran before returns *)
(* from SWITCH into the tail of Run and deletes the finished thread; a     *)
(* fresh one begins in ThreadRoot and does not.                            *)
SwitchTo(next) ==
  /\ currentThread' = next
  /\ IF life[next] = "forked"
     THEN /\ life' = [life EXCEPT ![next] = "started"]
          /\ UNCHANGED threadToBeDestroyed
     ELSE /\ life' = [t \in Threads |-> IF t = threadToBeDestroyed
                                        THEN "deleted" ELSE life[t]]
          /\ threadToBeDestroyed' = NULL

(* Mutant: the yielding thread goes to the front of the ready list.        *)
YieldToFront(t) ==
  /\ Running(t) /\ readyList # <<>>
  /\ SwitchTo(Head(readyList))
  /\ status' = [status EXCEPT ![t] = "READY", ![Head(readyList)] = "RUNNING"]
  /\ readyList' = <<t>> \o Tail(readyList)
  /\ UNCHANGED <<synchVars, machVars>>

(* Thread::Yield, called by the program or by the time slicer.             *)
Yield(t) ==
  /\ Running(t) /\ readyList # <<>>
  /\ SwitchTo(Head(readyList))
  /\ status' = [status EXCEPT ![t] = "READY", ![Head(readyList)] = "RUNNING"]
  /\ readyList' = Append(Tail(readyList), t)
  /\ UNCHANGED <<synchVars, machVars>>

(* The end of Thread::Sleep: a successor is there.                         *)
Dispatch ==
  /\ Sleeping /\ readyList # <<>>
  /\ SwitchTo(Head(readyList))
  /\ status' = [status EXCEPT ![Head(readyList)] = "RUNNING"]
  /\ readyList' = Tail(readyList)
  /\ mode' = "SystemMode"
  /\ UNCHANGED <<synchVars, pending>>

(* Interrupt::Idle, nobody to run: wait for a device, or halt.  Sleep      *)
(* calls it again when the interrupts that fired made nobody ready.        *)
Idle ==
  /\ Sleeping /\ readyList = <<>>
  /\ IF \E d \in Devices : pending[d] > 0
     THEN mode = "SystemMode" /\ mode' = "IdleMode"
     ELSE mode # "Halted" /\ mode' = "Halted"
  /\ UNCHANGED <<threadVars, synchVars, pending>>

-----------------------------------------------------------------------------
(* Thread life cycle.                                                      *)

Fork(t, new) ==
  /\ Running(t) /\ life[new] = "new"
  /\ life' = [life EXCEPT ![new] = "forked"]
  /\ status' = [status EXCEPT ![new] = "READY"]
  /\ readyList' = Append(readyList, new)
  /\ UNCHANGED <<currentThread, threadToBeDestroyed, synchVars, machVars>>

(* Mutant: Finish does not sleep.                                          *)
FinishAwake(t) ==
  /\ Running(t)
  /\ life' = [life EXCEPT ![t] = "finished"]
  /\ threadToBeDestroyed' = t
  /\ UNCHANGED <<currentThread, status, readyList, synchVars, machVars>>

Finish(t) ==
  /\ Running(t)
  /\ life' = [life EXCEPT ![t] = "finished"]
  /\ threadToBeDestroyed' = t
  /\ status' = [status EXCEPT ![t] = "BLOCKED"]
  /\ UNCHANGED <<currentThread, readyList, synchVars, machVars>>

-----------------------------------------------------------------------------
(* Semaphores.                                                             *)

(* Mutant: P tests the value once, with if instead of while.               *)
TryPOnce(t, s) ==
  \/ /\ value[s] = 0 /\ on[t] = NULL
     /\ queue' = [queue EXCEPT ![s] = Append(@, t)]
     /\ status' = [status EXCEPT ![t] = "BLOCKED"]
     /\ on' = [on EXCEPT ![t] = s]
     /\ UNCHANGED <<value, holder>>
  \/ /\ value[s] > 0 \/ on[t] = s
     /\ value' = [value EXCEPT ![s] = @ - 1]
     /\ on' = [on EXCEPT ![t] = NULL]
     /\ holder' = [l \in Locks |-> IF l = s THEN t ELSE holder[l]]
     /\ UNCHANGED <<queue, status>>

(* One turn of the P loop of thread t, current and with interrupts off.    *)
(* On success Lock::Acquire records the holder.                            *)
TryP(t, s) ==
  \/ /\ value[s] = 0
     /\ queue' = [queue EXCEPT ![s] = Append(@, t)]
     /\ status' = [status EXCEPT ![t] = "BLOCKED"]
     /\ on' = [on EXCEPT ![t] = s]
     /\ UNCHANGED <<value, holder>>
  \/ /\ value[s] > 0
     /\ value' = [value EXCEPT ![s] = @ - 1]
     /\ on' = [on EXCEPT ![t] = NULL]
     /\ holder' = [l \in Locks |-> IF l = s THEN t ELSE holder[l]]
     /\ UNCHANGED <<queue, status>>

(* Semaphore::P and, on a lock, Lock::Acquire.                             *)
P(t, s) ==
  /\ Running(t) /\ TryP(t, s)
  /\ UNCHANGED <<currentThread, readyList, life, threadToBeDestroyed,
                 waitQueue, machVars>>

(* A dispatched thread goes round the P loop, or, back from its sleep in   *)
(* Condition::Wait, enters that of the lock.                               *)
Resume(t) ==
  /\ t = currentThread /\ status[t] = "RUNNING" /\ on[t] # NULL
  /\ TryP(t, on[t])
  /\ UNCHANGED <<currentThread, readyList, life, threadToBeDestroyed,
                 waitQueue, machVars>>

(* Mutant: V wakes a thread only when the value was zero.                  *)
WokenIfZero(s) ==
  IF queue[s] = <<>> \/ value[s] > 0 THEN <<>> ELSE <<Head(queue[s])>>

Listed(t, seq) == \E i \in DOMAIN seq : seq[i] = t

(* Threads woken by V(s): the longest waiting one, if any.                 *)
Woken(s) == IF queue[s] = <<>> THEN <<>> ELSE <<Head(queue[s])>>

Ready(st, woken) ==
  [t \in Threads |-> IF Listed(t, woken) THEN "READY" ELSE st[t]]

VBody(s) ==
  /\ value' = [value EXCEPT ![s] = @ + 1]
  /\ queue' = [queue EXCEPT ![s] = IF Woken(s) = <<>> THEN @ ELSE Tail(@)]
  /\ readyList' = readyList \o Woken(s)

(* Semaphore::V called by a thread; a lock's V is Lock::Release.           *)
V(t, s) ==
  /\ Running(t)
  /\ value[s] + (IF s \in Devices THEN pending[s] ELSE 0) < MaxValue
  /\ VBody(s)
  /\ status' = Ready(status, Woken(s))
  /\ UNCHANGED <<currentThread, life, threadToBeDestroyed, on, holder,
                 waitQueue, machVars>>

-----------------------------------------------------------------------------
(* Locks and conditions.                                                   *)

Release(t, l) ==
  /\ Running(t) /\ holder[l] = t
  /\ holder' = [holder EXCEPT ![l] = NULL]
  /\ VBody(l)
  /\ status' = Ready(status, Woken(l))
  /\ UNCHANGED <<currentThread, life, threadToBeDestroyed, on, waitQueue,
                 machVars>>

(* Mutant: Wait Vs the lock's semaphore and leaves the holder in place.    *)
WaitKeepsHolder(t, c, l) ==
  /\ Running(t) /\ holder[l] = t
  /\ VBody(l)
  /\ status' = [Ready(status, Woken(l)) EXCEPT ![t] = "BLOCKED"]
  /\ waitQueue' = [waitQueue EXCEPT ![c] = Append(@, t)]
  /\ on' = [on EXCEPT ![t] = l]
  /\ UNCHANGED <<currentThread, life, threadToBeDestroyed, holder, machVars>>

(* Release the lock and go to sleep in one step; the lock is what the      *)
(* thread will have to acquire when it is woken.                           *)
Wait(t, c, l) ==
  /\ Running(t) /\ holder[l] = t
  /\ holder' = [holder EXCEPT ![l] = NULL]
  /\ VBody(l)
  /\ status' = [Ready(status, Woken(l)) EXCEPT ![t] = "BLOCKED"]
  /\ waitQueue' = [waitQueue EXCEPT ![c] = Append(@, t)]
  /\ on' = [on EXCEPT ![t] = l]
  /\ UNCHANGED <<currentThread, life, threadToBeDestroyed, machVars>>

Signal(t, c, l) ==
  /\ Running(t) /\ holder[l] = t
  /\ LET woken == IF waitQueue[c] = <<>> THEN <<>> ELSE <<Head(waitQueue[c])>>
     IN  /\ readyList' = readyList \o woken
         /\ status' = Ready(status, woken)
  /\ waitQueue' = [waitQueue EXCEPT ![c] = IF @ = <<>> THEN <<>> ELSE Tail(@)]
  /\ UNCHANGED <<currentThread, life, threadToBeDestroyed, on, value, queue,
                 holder, machVars>>

(* Mutant: Broadcast goes through the queue without emptying it.           *)
BroadcastKeepsQueue(t, c, l) ==
  /\ Running(t) /\ holder[l] = t
  /\ readyList' = readyList \o waitQueue[c]
  /\ status' = Ready(status, waitQueue[c])
  /\ UNCHANGED <<currentThread, life, threadToBeDestroyed, on, value, queue,
                 waitQueue, holder, machVars>>

Broadcast(t, c, l) ==
  /\ Running(t) /\ holder[l] = t
  /\ readyList' = readyList \o waitQueue[c]
  /\ status' = Ready(status, waitQueue[c])
  /\ waitQueue' = [waitQueue EXCEPT ![c] = <<>>]
  /\ UNCHANGED <<currentThread, life, threadToBeDestroyed, on, value, queue,
                 holder, machVars>>

-----------------------------------------------------------------------------
(* Devices.                                                                *)

(* A thread starts an operation of device d (Interrupt::Schedule).         *)
Request(t, d) ==
  /\ Running(t) /\ value[d] + pending[d] < MaxValue
  /\ pending' = [pending EXCEPT ![d] = @ + 1]
  /\ UNCHANGED <<threadVars, synchVars, mode>>

(* Its interrupt: the handler Vs the semaphore, over a running thread or   *)
(* in the idle loop.                                                       *)
Interrupt(d) ==
  /\ Running(currentThread) \/ mode = "IdleMode"
  /\ pending[d] > 0
  /\ pending' = [pending EXCEPT ![d] = @ - 1]
  /\ VBody(d)
  /\ status' = Ready(status, Woken(d))
  /\ UNCHANGED <<currentThread, life, threadToBeDestroyed, on, holder,
                 waitQueue, mode>>

-----------------------------------------------------------------------------
(* The kernel under programs that call anything legal in any order.        *)

Call(t) ==
  \/ \E new \in Threads : Fork(t, new)
  \/ Finish(t)
  \/ \E s \in Sems : P(t, s)
  \/ \E s \in Semaphores : V(t, s)
  \/ \E d \in Devices : Request(t, d)
  \/ \E l \in Locks :
       \/ Release(t, l)
       \/ \E c \in Conditions :
            Wait(t, c, l) \/ Signal(t, c, l) \/ Broadcast(t, c, l)

Kernel ==
  \/ Dispatch
  \/ Idle
  \/ \E t \in Threads : Resume(t) \/ Yield(t)
  \/ \E d \in Devices : Interrupt(d)

Next == Kernel \/ \E t \in Threads : Call(t)

(* The dispatcher is ordinary sequential code and devices answer.  The     *)
(* time slicer makes a running thread yield again and again.               *)
Fairness ==
  /\ WF_vars(Dispatch) /\ WF_vars(Idle)
  /\ \A t \in Threads : WF_vars(Resume(t))
  /\ \A d \in Devices : WF_vars(Interrupt(d))
  /\ WF_vars(\E t \in Threads : Yield(t))

Spec == Init /\ [][Next]_vars

FairSpec == Spec /\ Fairness

-----------------------------------------------------------------------------
(* Properties.                                                             *)

Dead(t) == life[t] \in {"finished", "deleted"}

ReadyInv ==
  /\ IsInjective(readyList)
  /\ \A t \in Threads : status[t] = "READY" <=> Listed(t, readyList)

RunningInv ==
  \A t \in Threads : status[t] = "RUNNING" => t = currentThread

QueueInv ==
  \A s \in Sems :
    /\ IsInjective(queue[s])
    /\ \A t \in Threads : Listed(t, queue[s]) => status[t] = "BLOCKED" /\ on[t] = s

WaitInv ==
  \A c \in Conditions :
    /\ IsInjective(waitQueue[c])
    /\ \A t \in Threads : Listed(t, waitQueue[c]) =>
         /\ status[t] = "BLOCKED" /\ on[t] \in Locks
         /\ \A s \in Sems : ~ Listed(t, queue[s])
         /\ \A d \in Conditions \ {c} : ~ Listed(t, waitQueue[d])

BlockedInv ==
  \A t \in Threads : status[t] = "BLOCKED" /\ ~ Dead(t) =>
    \/ \E s \in Sems : Listed(t, queue[s])
    \/ \E c \in Conditions : Listed(t, waitQueue[c])

(* Every thread is in exactly one place: it is the running one, or once in *)
(* the ready list, or once in one wait queue of the object it waits for,   *)
(* or not yet forked or dead and in none.  A thread in two queues would    *)
(* run twice, one in none would never run again.                           *)
OnePlace == ReadyInv /\ RunningInv /\ QueueInv /\ WaitInv /\ BlockedInv

(* The kernel keeps no pointer to a Thread object that Run deleted: it is  *)
(* in no list, and the thread under whose feet Run works is not deleted.   *)
NoDanglingThread ==
  /\ life[currentThread] # "deleted"
  /\ threadToBeDestroyed # NULL => life[threadToBeDestroyed] = "finished"
  /\ \A t \in Threads : Dead(t) =>
       /\ ~ Listed(t, readyList)
       /\ \A s \in Sems : ~ Listed(t, queue[s])
       /\ \A c \in Conditions : ~ Listed(t, waitQueue[c])

(* A lock's semaphore and its holder never disagree: Acquire, Release and  *)
(* the release inside Wait keep the pair in step, so that at most one      *)
(* thread is between Acquire and Release.                                  *)
LockExclusion ==
  \A l \in Locks : value[l] = IF holder[l] = NULL THEN 1 ELSE 0

(* Threads woken for s that have not yet looked at its value again.        *)
Awake(s) == {t \in Threads : on[t] = s /\ status[t] \in {"READY", "RUNNING"}}

(* No lost wakeup.  P of a newcomer can take the unit a V woke somebody    *)
(* for; even so, while threads wait in a semaphore's queue every unit of   *)
(* its value has an awake thread that will come for it.                    *)
NoLostWakeup ==
  \A s \in Sems : queue[s] # <<>> => Cardinality(Awake(s)) >= value[s]

(* What synch.h says P, V, Acquire, Release, Wait, Signal and Broadcast do.*)
Monitor == INSTANCE MesaMonitor WITH
  value <- [s \in Semaphores |-> value[s]],
  sleepers <- [c \in Conditions |-> Range(waitQueue[c])]

MonitorSpec == Monitor!Spec

(* Round robin: whatever the others call, a ready thread gets the CPU.     *)
ReadyRuns ==
  \A t \in Threads : status[t] = "READY" ~> status[t] = "RUNNING"

(* A semaphore does not stay positive over waiting threads: the wakeups V  *)
(* gives out are used.                                                     *)
WakeupsUsed ==
  \A s \in Sems :
    value[s] > 0 /\ queue[s] # <<>> ~> value[s] = 0 \/ queue[s] = <<>>

=============================================================================
