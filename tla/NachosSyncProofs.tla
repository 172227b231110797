-------------------------- MODULE NachosSyncProofs --------------------------
(***************************************************************************)
(* Proofs about NachosSync for every set of threads, semaphores, locks and *)
(* conditions.                                                             *)
(***************************************************************************)
EXTENDS NachosSync, SequenceTheorems, FiniteSetTheorems, TLAPS

USE KernelAssumption

-----------------------------------------------------------------------------
(* Type correctness.                                                       *)

(* Threads woken by V or Broadcast become READY; nothing else changes.     *)
LEMMA ReadyType ==
  ASSUME NEW st \in [Threads -> {"JUST_CREATED", "READY", "RUNNING", "BLOCKED"}],
         NEW woken
  PROVE  Ready(st, woken) \in [Threads -> {"JUST_CREATED", "READY", "RUNNING", "BLOCKED"}]
BY DEF Ready

LEMMA WokenType ==
  ASSUME TypeOK, NEW s \in Sems
  PROVE  Woken(s) \in Seq(Threads)
<1>1. queue[s] \in Seq(Threads)
  BY DEF TypeOK
<1>2. QED
  BY <1>1, HeadTailProperties DEF Woken

LEMMA VBodyType ==
  ASSUME TypeOK, NEW s \in Sems, VBody(s)
  PROVE  /\ value' \in [Sems -> Nat]
         /\ queue' \in [Sems -> Seq(Threads)]
         /\ readyList' \in Seq(Threads)
<1>1. Woken(s) \in Seq(Threads)
  BY WokenType
<1>2. queue[s] \in Seq(Threads) /\ (Woken(s) # <<>> => queue[s] # <<>>)
  BY DEF TypeOK, Woken
<1>3. (IF Woken(s) = <<>> THEN queue[s] ELSE Tail(queue[s])) \in Seq(Threads)
  BY <1>2, HeadTailProperties
<1>4. readyList' \in Seq(Threads)
  BY <1>1, ConcatProperties DEF TypeOK, VBody
<1>5. QED
  BY <1>3, <1>4 DEF TypeOK, VBody

LEMMA TryPType ==
  ASSUME TypeOK, NEW t \in Threads, NEW s \in Sems, TryP(t, s)
  PROVE  /\ value' \in [Sems -> Nat]
         /\ queue' \in [Sems -> Seq(Threads)]
         /\ status' \in [Threads -> {"JUST_CREATED", "READY", "RUNNING", "BLOCKED"}]
         /\ on' \in [Threads -> Sems \union {NULL}]
         /\ holder' \in [Locks -> Threads \union {NULL}]
<1>1. CASE value[s] = 0
  <2>1. /\ queue' = [queue EXCEPT ![s] = Append(queue[s], t)]
        /\ status' = [status EXCEPT ![t] = "BLOCKED"]
        /\ on' = [on EXCEPT ![t] = s]
        /\ value' = value /\ holder' = holder
    BY <1>1 DEF TryP
  <2>2. Append(queue[s], t) \in Seq(Threads)
    BY AppendProperties DEF TypeOK
  <2>3. queue' \in [Sems -> Seq(Threads)]
    BY <2>1, <2>2 DEF TypeOK
  <2>4. QED
    BY <2>1, <2>3 DEF TypeOK
<1>2. CASE value[s] # 0
  <2>1. /\ value[s] > 0
        /\ value' = [value EXCEPT ![s] = value[s] - 1]
        /\ on' = [on EXCEPT ![t] = NULL]
        /\ holder' = [l \in Locks |-> IF l = s THEN t ELSE holder[l]]
        /\ queue' = queue /\ status' = status
    BY <1>2 DEF TryP
  <2>2. value[s] - 1 \in Nat
    BY <2>1 DEF TypeOK
  <2>3. holder' \in [Locks -> Threads \union {NULL}]
    BY <2>1 DEF TypeOK
  <2>4. QED
    BY <2>1, <2>2, <2>3 DEF TypeOK
<1>3. QED
  BY <1>1, <1>2

LEMMA SwitchType ==
  ASSUME TypeOK, readyList # <<>>, SwitchTo(Head(readyList))
  PROVE  /\ Head(readyList) \in Threads
         /\ Tail(readyList) \in Seq(Threads)
         /\ currentThread' \in Threads
         /\ life' \in [Threads -> {"new", "forked", "started", "finished", "deleted"}]
         /\ threadToBeDestroyed' \in Threads \union {NULL}
<1>1. Head(readyList) \in Threads /\ Tail(readyList) \in Seq(Threads)
  BY HeadTailProperties DEF TypeOK
<1>2. QED
  BY <1>1 DEF TypeOK, SwitchTo

LEMMA TypeStep == TypeOK /\ [Next]_vars => TypeOK'
<1> SUFFICES ASSUME TypeOK, [Next]_vars PROVE TypeOK'
  OBVIOUS
<1> USE DEF synchVars, machVars, threadVars
<1>1. CASE Dispatch
  BY <1>1, SwitchType DEF Dispatch, TypeOK
<1>2. CASE Idle
  BY <1>2 DEF Idle, TypeOK
<1>3. ASSUME NEW t \in Threads, Resume(t) PROVE TypeOK'
  <2>1. on[t] \in Sems
    BY <1>3 DEF Resume, TypeOK
  <2>2. QED
    BY <1>3, <2>1, TryPType DEF Resume, TypeOK
<1>4. ASSUME NEW t \in Threads, Yield(t) PROVE TypeOK'
  <2>1. Head(readyList) \in Threads /\ Append(Tail(readyList), t) \in Seq(Threads)
    BY <1>4, SwitchType, AppendProperties DEF Yield
  <2>2. QED
    BY <1>4, <2>1, SwitchType DEF Yield, TypeOK
<1>5. ASSUME NEW d \in Devices, Interrupt(d) PROVE TypeOK'
  <2>1. d \in Sems
    BY DEF Sems
  <2>2. /\ VBody(d) /\ status' = Ready(status, Woken(d))
        /\ pending' = [pending EXCEPT ![d] = pending[d] - 1] /\ pending[d] > 0
        /\ UNCHANGED <<currentThread, life, threadToBeDestroyed, on, holder,
                       waitQueue, mode>>
    BY <1>5 DEF Interrupt
  <2>3. pending' \in [Devices -> Nat]
    BY <2>2 DEF TypeOK
  <2>4. status' \in [Threads -> {"JUST_CREATED", "READY", "RUNNING", "BLOCKED"}]
    BY <2>2, ReadyType DEF TypeOK
  <2>5. QED
    BY <2>1, <2>2, <2>3, <2>4, VBodyType DEF TypeOK
<1>6. ASSUME NEW t \in Threads, NEW new \in Threads, Fork(t, new) PROVE TypeOK'
  <2>1. Append(readyList, new) \in Seq(Threads)
    BY AppendProperties DEF TypeOK
  <2>2. QED
    BY <1>6, <2>1 DEF Fork, TypeOK
<1>7. ASSUME NEW t \in Threads, Finish(t) PROVE TypeOK'
  BY <1>7 DEF Finish, TypeOK
<1>8. ASSUME NEW t \in Threads, NEW s \in Sems, P(t, s) PROVE TypeOK'
  BY <1>8, TryPType DEF P, TypeOK
<1>9. ASSUME NEW t \in Threads, NEW s \in Semaphores, V(t, s) PROVE TypeOK'
  <2>1. s \in Sems
    BY DEF Sems
  <2>2. QED
    BY <1>9, <2>1, VBodyType, ReadyType DEF V, TypeOK
<1>10. ASSUME NEW t \in Threads, NEW d \in Devices, Request(t, d) PROVE TypeOK'
  BY <1>10 DEF Request, TypeOK
<1>11. ASSUME NEW t \in Threads, NEW l \in Locks, Release(t, l) PROVE TypeOK'
  <2>1. l \in Sems
    BY DEF Sems
  <2>2. QED
    BY <1>11, <2>1, VBodyType, ReadyType DEF Release, TypeOK
<1>12. ASSUME NEW t \in Threads, NEW l \in Locks, NEW c \in Conditions, Wait(t, c, l)
       PROVE TypeOK'
  <2>1. l \in Sems
    BY DEF Sems
  <2>2. Append(waitQueue[c], t) \in Seq(Threads)
    BY AppendProperties DEF TypeOK
  <2>3. Ready(status, Woken(l)) \in [Threads -> {"JUST_CREATED", "READY", "RUNNING", "BLOCKED"}]
    BY ReadyType DEF TypeOK
  <2>4. QED
    BY <1>12, <2>1, <2>2, <2>3, VBodyType DEF Wait, TypeOK
<1>13. ASSUME NEW t \in Threads, NEW l \in Locks, NEW c \in Conditions, Signal(t, c, l)
       PROVE TypeOK'
  <2> DEFINE woken == IF waitQueue[c] = <<>> THEN <<>> ELSE <<Head(waitQueue[c])>>
             rest  == IF waitQueue[c] = <<>> THEN <<>> ELSE Tail(waitQueue[c])
  <2>1. woken \in Seq(Threads) /\ rest \in Seq(Threads)
    BY HeadTailProperties DEF TypeOK
  <2>2. readyList \o woken \in Seq(Threads)
    BY <2>1, ConcatProperties DEF TypeOK
  <2>3. Ready(status, woken) \in [Threads -> {"JUST_CREATED", "READY", "RUNNING", "BLOCKED"}]
    BY ReadyType DEF TypeOK
  <2>4. readyList' = readyList \o woken /\ status' = Ready(status, woken)
    BY <1>13 DEF Signal
  <2>5. waitQueue' \in [Conditions -> Seq(Threads)]
    BY <1>13, <2>1 DEF Signal, TypeOK
  <2> HIDE DEF woken, rest
  <2>6. QED
    BY <1>13, <2>2, <2>3, <2>4, <2>5 DEF Signal, TypeOK
<1>14. ASSUME NEW t \in Threads, NEW l \in Locks, NEW c \in Conditions, Broadcast(t, c, l)
       PROVE TypeOK'
  <2>1. readyList \o waitQueue[c] \in Seq(Threads)
    BY ConcatProperties DEF TypeOK
  <2>2. waitQueue' \in [Conditions -> Seq(Threads)]
    BY <1>14, EmptySeq DEF Broadcast, TypeOK
  <2>3. QED
    BY <1>14, <2>1, <2>2, ReadyType DEF Broadcast, TypeOK
<1>15. CASE UNCHANGED vars
  BY <1>15 DEF vars, TypeOK
<1>16. QED
  BY <1>1, <1>2, <1>3, <1>4, <1>5, <1>6, <1>7, <1>8, <1>9, <1>10, <1>11, <1>12,
     <1>13, <1>14, <1>15 DEF Next, Kernel, Call

(* Every variable keeps its type; of a semaphore's value that is the       *)
(* "always >= 0" of synch.h:52, which rests on the loop in P.              *)
THEOREM TypeCorrect == Spec => []TypeOK
<1>1. Init => TypeOK
  BY EmptySeq DEF Init, TypeOK, Sems
<1>2. QED
  BY <1>1, TypeStep, PTL DEF Spec

-----------------------------------------------------------------------------
(* Locks.                                                                  *)

(* A P loop that gets through takes the unit of a free lock.               *)
LEMMA TryPLock ==
  ASSUME TypeOK, LockExclusion, NEW t \in Threads, NEW s \in Sems, TryP(t, s)
  PROVE  LockExclusion'
<1>1. CASE value[s] = 0
  BY <1>1 DEF TryP, LockExclusion
<1>2. CASE value[s] # 0
  <2>1. /\ value' = [value EXCEPT ![s] = value[s] - 1]
        /\ holder' = [l \in Locks |-> IF l = s THEN t ELSE holder[l]]
    BY <1>2 DEF TryP
  <2>2. \A l \in Locks : l \in Sems
    BY DEF Sems
  <2>3. QED
    BY <1>2, <2>1, <2>2 DEF LockExclusion, TypeOK
<1>3. QED
  BY <1>1, <1>2

(* The V of a semaphore that is not a lock's leaves every lock alone.      *)
LEMMA VBodyLock ==
  ASSUME TypeOK, LockExclusion, NEW s \in Semaphores, VBody(s), UNCHANGED holder
  PROVE  LockExclusion'
<1>1. \A l \in Locks : l \in Sems /\ l # s
  BY DEF Sems
<1>2. QED
  BY <1>1 DEF VBody, LockExclusion, TypeOK, Sems

(* Clearing the holder and V of the lock's semaphore go together.          *)
LEMMA ReleaseLock ==
  ASSUME TypeOK, LockExclusion, NEW l \in Locks, holder[l] # NULL, VBody(l),
         holder' = [holder EXCEPT ![l] = NULL]
  PROVE  LockExclusion'
<1>1. \A k \in Locks : k \in Sems
  BY DEF Sems
<1>2. QED
  BY <1>1 DEF VBody, LockExclusion, TypeOK

LEMMA LockStep == TypeOK /\ LockExclusion /\ [Next]_vars => LockExclusion'
<1> SUFFICES ASSUME TypeOK, LockExclusion, [Next]_vars PROVE LockExclusion'
  OBVIOUS
<1> USE DEF synchVars, machVars, threadVars
<1>1. ASSUME NEW t \in Threads, Resume(t) PROVE LockExclusion'
  BY <1>1, TryPLock DEF Resume, TypeOK
<1>2. ASSUME NEW t \in Threads, NEW s \in Sems, P(t, s) PROVE LockExclusion'
  BY <1>2, TryPLock DEF P
<1>3. ASSUME NEW d \in Devices, Interrupt(d) PROVE LockExclusion'
  BY <1>3, VBodyLock DEF Interrupt
<1>4. ASSUME NEW t \in Threads, NEW s \in Semaphores, V(t, s) PROVE LockExclusion'
  BY <1>4, VBodyLock DEF V
<1>5. ASSUME NEW t \in Threads, NEW l \in Locks, Release(t, l) PROVE LockExclusion'
  BY <1>5, ReleaseLock DEF Release
<1>6. ASSUME NEW t \in Threads, NEW l \in Locks, NEW c \in Conditions, Wait(t, c, l)
      PROVE LockExclusion'
  BY <1>6, ReleaseLock DEF Wait
<1>7. CASE UNCHANGED <<value, holder>>
  BY <1>7 DEF LockExclusion
<1>8. QED
  BY <1>1, <1>2, <1>3, <1>4, <1>5, <1>6, <1>7
     DEF Next, Kernel, Call, vars, Dispatch, Idle, Yield, Fork, Finish, Request,
         Signal, Broadcast

(* Mutual exclusion: a lock's semaphore is 1 exactly while it has no       *)
(* holder, so Acquire succeeds for one thread at a time (synch.cc:130-152).*)
THEOREM LockExclusionHolds == Spec => []LockExclusion
<1>1. Init => LockExclusion
  BY DEF Init, LockExclusion, Sems
<1>2. QED
  BY <1>1, LockStep, TypeCorrect, PTL DEF Spec

-----------------------------------------------------------------------------
(* Lists of threads, seen as sets without repetition.                      *)

LEMMA ListedAppend ==
  ASSUME NEW seq \in Seq(Threads), NEW t \in Threads
  PROVE  /\ \A x : Listed(x, Append(seq, t)) <=> Listed(x, seq) \/ x = t
         /\ IsInjective(seq) /\ ~ Listed(t, seq) => IsInjective(Append(seq, t))
<1> DEFINE app == Append(seq, t)
<1>1. /\ DOMAIN seq = 1 .. Len(seq) /\ Len(seq) \in Nat
      /\ DOMAIN app = 1 .. Len(seq) + 1
      /\ \A i \in 1 .. Len(seq) : app[i] = seq[i]
      /\ app[Len(seq) + 1] = t
  BY AppendProperties, LenProperties
<1> HIDE DEF app
<1>2. \A x : Listed(x, app) <=> Listed(x, seq) \/ x = t
  BY <1>1 DEF Listed
<1>3. IsInjective(seq) /\ ~ Listed(t, seq) => IsInjective(app)
  BY <1>1 DEF Listed, IsInjective
<1>4. QED
  BY <1>2, <1>3 DEF app

LEMMA ListedTail ==
  ASSUME NEW seq \in Seq(Threads), seq # <<>>
  PROVE  /\ Listed(Head(seq), seq)
         /\ \A x : Listed(x, Tail(seq)) => Listed(x, seq)
         /\ \A x : Listed(x, seq) => x = Head(seq) \/ Listed(x, Tail(seq))
         /\ IsInjective(seq) => IsInjective(Tail(seq)) /\ ~ Listed(Head(seq), Tail(seq))
<1>1. /\ Len(seq) \in Nat \ {0} /\ DOMAIN seq = 1 .. Len(seq)
      /\ Tail(seq) \in Seq(Threads) /\ Len(Tail(seq)) = Len(seq) - 1
      /\ \A i \in 1 .. Len(Tail(seq)) : Tail(seq)[i] = seq[i + 1]
  BY HeadTailProperties, EmptySeq, LenProperties
<1>2. DOMAIN Tail(seq) = 1 .. Len(seq) - 1
  BY <1>1, LenProperties
<1>3. Head(seq) = seq[1]
  OBVIOUS
<1>4. Listed(Head(seq), seq)
  BY <1>1, <1>3 DEF Listed
<1>5. \A x : Listed(x, Tail(seq)) => Listed(x, seq)
  BY <1>1, <1>2 DEF Listed
<1>6. ASSUME NEW x, Listed(x, seq), x # Head(seq) PROVE Listed(x, Tail(seq))
  <2>1. PICK i \in 1 .. Len(seq) : seq[i] = x
    BY <1>1, <1>6 DEF Listed
  <2>2. i - 1 \in 1 .. Len(seq) - 1 /\ Tail(seq)[i - 1] = x
    BY <1>1, <1>3, <1>6, <2>1
  <2>3. QED
    BY <1>2, <2>2 DEF Listed
<1>7. ASSUME IsInjective(seq)
      PROVE  IsInjective(Tail(seq)) /\ ~ Listed(Head(seq), Tail(seq))
  BY <1>1, <1>2, <1>3, <1>7 DEF IsInjective, Listed
<1>8. QED
  BY <1>4, <1>5, <1>6, <1>7

LEMMA ListedConcat ==
  ASSUME NEW a \in Seq(Threads), NEW b \in Seq(Threads)
  PROVE  /\ \A x : Listed(x, a \o b) <=> Listed(x, a) \/ Listed(x, b)
         /\ IsInjective(a) /\ IsInjective(b)
              /\ (\A x \in Threads : ~ (Listed(x, a) /\ Listed(x, b)))
            => IsInjective(a \o b)
<1> DEFINE ab == a \o b
<1>1. /\ Len(a) \in Nat /\ Len(b) \in Nat
      /\ DOMAIN a = 1 .. Len(a) /\ DOMAIN b = 1 .. Len(b)
      /\ DOMAIN ab = 1 .. Len(a) + Len(b)
      /\ \A i \in 1 .. Len(a) : a[i] \in Threads
      /\ \A i \in 1 .. Len(a) + Len(b) :
           ab[i] = IF i <= Len(a) THEN a[i] ELSE b[i - Len(a)]
  BY ConcatProperties, LenProperties, ElementOfSeq
<1> HIDE DEF ab
<1>2. ASSUME NEW x, Listed(x, ab) PROVE Listed(x, a) \/ Listed(x, b)
  <2>1. PICK i \in 1 .. Len(a) + Len(b) : ab[i] = x
    BY <1>1, <1>2 DEF Listed
  <2>2. CASE i <= Len(a)
    <3>1. i \in 1 .. Len(a) /\ a[i] = x
      BY <1>1, <2>1, <2>2
    <3>2. QED
      BY <1>1, <3>1 DEF Listed
  <2>3. CASE i > Len(a)
    <3>1. i - Len(a) \in 1 .. Len(b) /\ b[i - Len(a)] = x
      BY <1>1, <2>1, <2>3
    <3>2. QED
      BY <1>1, <3>1 DEF Listed
  <2>4. QED
    BY <1>1, <2>1, <2>2, <2>3
<1>3. ASSUME NEW x, Listed(x, a) PROVE Listed(x, ab)
  <2>1. PICK i \in 1 .. Len(a) : a[i] = x
    BY <1>1, <1>3 DEF Listed
  <2>2. i \in 1 .. Len(a) + Len(b) /\ ab[i] = x
    BY <1>1, <2>1
  <2>3. QED
    BY <1>1, <2>2 DEF Listed
<1>4. ASSUME NEW x, Listed(x, b) PROVE Listed(x, ab)
  <2>1. PICK i \in 1 .. Len(b) : b[i] = x
    BY <1>1, <1>4 DEF Listed
  <2>2. Len(a) + i \in 1 .. Len(a) + Len(b) /\ ab[Len(a) + i] = x
    BY <1>1, <2>1
  <2>3. QED
    BY <1>1, <2>2 DEF Listed
<1>5. ASSUME IsInjective(a), IsInjective(b),
             \A x \in Threads : ~ (Listed(x, a) /\ Listed(x, b))
      PROVE  IsInjective(ab)
  <2> SUFFICES ASSUME NEW i \in 1 .. Len(a) + Len(b), NEW j \in 1 .. Len(a) + Len(b),
                      ab[i] = ab[j]
               PROVE  i = j
    BY <1>1 DEF IsInjective
  <2>1. CASE i <= Len(a) /\ j <= Len(a)
    BY <1>1, <1>5, <2>1 DEF IsInjective
  <2>2. CASE i > Len(a) /\ j > Len(a)
    <3>1. i - Len(a) \in 1 .. Len(b) /\ j - Len(a) \in 1 .. Len(b)
      BY <1>1, <2>2
    <3>2. b[i - Len(a)] = b[j - Len(a)]
      BY <1>1, <2>2
    <3>3. i - Len(a) = j - Len(a)
      BY <1>1, <1>5, <3>1, <3>2 DEF IsInjective
    <3>4. QED
      BY <1>1, <3>3
  <2>3. \A m \in 1 .. Len(a), n \in 1 .. Len(b) : a[m] # b[n]
    BY <1>1, <1>5 DEF Listed
  <2>4. CASE i <= Len(a) /\ j > Len(a)
    BY <1>1, <2>3, <2>4
  <2>5. CASE i > Len(a) /\ j <= Len(a)
    BY <1>1, <2>3, <2>5
  <2>6. QED
    BY <1>1, <2>1, <2>2, <2>4, <2>5
<1>6. QED
  BY <1>2, <1>3, <1>4, <1>5 DEF ab

-----------------------------------------------------------------------------
(* Every thread in one place.                                              *)

(* The strengthening of OnePlace that is inductive: a thread that was not  *)
(* forked or is dead is in no list, and the idle loop has no running       *)
(* thread.                                                                 *)
NewInv == \A t \in Threads : life[t] = "new" <=> status[t] = "JUST_CREATED"

DeadInv ==
  /\ \A t \in Threads : Dead(t) => status[t] = "BLOCKED" /\ on[t] = NULL
  /\ threadToBeDestroyed # NULL => life[threadToBeDestroyed] = "finished"
  /\ life[currentThread] # "deleted"

IdleInv == mode = "IdleMode" => status[currentThread] # "RUNNING"

ThreadInv == OnePlace /\ NewInv /\ DeadInv /\ IdleInv

(* V moves the head of s's queue, if any, to the end of the ready list.    *)
LEMMA VBodyLists ==
  ASSUME TypeOK, ReadyInv, QueueInv, NEW s \in Sems, VBody(s)
  PROVE  /\ Woken(s) \in Seq(Threads)
         /\ \A x \in Threads : Listed(x, Woken(s)) => Listed(x, queue[s])
         /\ IsInjective(readyList')
         /\ \A x \in Threads :
              Listed(x, readyList') <=> Listed(x, readyList) \/ Listed(x, Woken(s))
         /\ \A r \in Sems : IsInjective(queue'[r])
         /\ \A r \in Sems, x \in Threads :
              Listed(x, queue'[r]) <=> Listed(x, queue[r]) /\ ~ Listed(x, Woken(s))
<1>1. Woken(s) \in Seq(Threads)
  BY WokenType
<1>2. queue[s] \in Seq(Threads) /\ IsInjective(queue[s])
  BY DEF TypeOK, QueueInv
<1>3. queue' = [queue EXCEPT ![s] = IF Woken(s) = <<>> THEN queue[s] ELSE Tail(queue[s])]
  BY DEF VBody
<1>4. \A x : ~ Listed(x, <<>>)
  BY DEF Listed
<1>5. IsInjective(<<>>)
  BY DEF IsInjective
<1>6. CASE queue[s] = <<>>
  <2>1. Woken(s) = <<>>
    BY <1>6 DEF Woken
  <2>2. readyList' = readyList /\ queue' = queue
    BY <1>3, <2>1 DEF VBody, TypeOK
  <2>3. QED
    BY <1>1, <1>4, <2>1, <2>2 DEF ReadyInv, QueueInv
<1>7. CASE queue[s] # <<>>
  <2> DEFINE h == Head(queue[s])
  <2>1. Woken(s) = <<h>> /\ Woken(s) # <<>>
    BY <1>7 DEF Woken
  <2>2. \A x : Listed(x, Woken(s)) <=> x = h
    BY <2>1 DEF Listed
  <2>3. IsInjective(Woken(s))
    BY <2>1 DEF IsInjective
  <2>4. /\ Listed(h, queue[s])
        /\ \A x : Listed(x, queue[s]) <=> x = h \/ Listed(x, Tail(queue[s]))
        /\ IsInjective(Tail(queue[s])) /\ ~ Listed(h, Tail(queue[s]))
    BY <1>2, <1>7, ListedTail
  <2>5. h \in Threads
    BY <1>2, <1>7, HeadTailProperties
  <2>6. \A r \in Sems : queue'[r] = IF r = s THEN Tail(queue[s]) ELSE queue[r]
    BY <1>3, <2>1 DEF TypeOK
  <2> HIDE DEF h
  <2>7. ~ Listed(h, readyList)
    BY <2>4, <2>5 DEF ReadyInv, QueueInv
  <2>8. \A x \in Threads : ~ (Listed(x, readyList) /\ Listed(x, Woken(s)))
    BY <2>2, <2>7
  <2>9. /\ IsInjective(readyList')
        /\ \A x \in Threads :
             Listed(x, readyList') <=> Listed(x, readyList) \/ Listed(x, Woken(s))
    BY <1>1, <2>3, <2>8, ListedConcat DEF VBody, ReadyInv, TypeOK
  <2>10. \A r \in Sems : IsInjective(queue'[r])
    BY <2>4, <2>6 DEF QueueInv
  <2>11. \A r \in Sems : r # s => ~ Listed(h, queue[r])
    BY <2>4, <2>5 DEF QueueInv
  <2>12. \A r \in Sems, x \in Threads :
           Listed(x, queue'[r]) <=> Listed(x, queue[r]) /\ ~ Listed(x, Woken(s))
    BY <2>2, <2>4, <2>6, <2>11
  <2>13. QED
    BY <1>1, <2>2, <2>4, <2>9, <2>10, <2>12
<1>8. QED
  BY <1>6, <1>7

(* V by a thread or by an interrupt handler, and the V inside Release.     *)
LEMMA VBodyThread ==
  ASSUME TypeOK, ThreadInv, NEW s \in Sems, VBody(s),
         status' = Ready(status, Woken(s)), mode' = mode,
         UNCHANGED <<currentThread, life, threadToBeDestroyed, on, waitQueue>>
  PROVE  ThreadInv'
<1>1. \A x \in Threads :
        status'[x] = IF Listed(x, Woken(s)) THEN "READY" ELSE status[x]
  BY DEF Ready
<1>2. /\ \A x \in Threads : Listed(x, Woken(s)) => Listed(x, queue[s])
      /\ IsInjective(readyList')
      /\ \A x \in Threads :
           Listed(x, readyList') <=> Listed(x, readyList) \/ Listed(x, Woken(s))
      /\ \A r \in Sems : IsInjective(queue'[r])
      /\ \A r \in Sems, x \in Threads :
           Listed(x, queue'[r]) <=> Listed(x, queue[r]) /\ ~ Listed(x, Woken(s))
  BY VBodyLists DEF ThreadInv, OnePlace
<1>3. \A x \in Threads : Listed(x, Woken(s)) =>
        /\ status[x] = "BLOCKED" /\ on[x] = s /\ ~ Dead(x)
        /\ \A c \in Conditions : ~ Listed(x, waitQueue[c])
  BY <1>2 DEF ThreadInv, OnePlace, QueueInv, WaitInv, DeadInv
<1>4. \A x \in Threads : Dead(x)' <=> Dead(x)
  BY DEF Dead
<1>5. ReadyInv'
  BY <1>1, <1>2 DEF ThreadInv, OnePlace, ReadyInv
<1>6. RunningInv'
  BY <1>1 DEF ThreadInv, OnePlace, RunningInv
<1>7. QueueInv'
  BY <1>1, <1>2 DEF ThreadInv, OnePlace, QueueInv
<1>8. WaitInv'
  BY <1>1, <1>2, <1>3 DEF ThreadInv, OnePlace, WaitInv
<1>9. BlockedInv'
  BY <1>1, <1>2, <1>4 DEF ThreadInv, OnePlace, BlockedInv
<1>10. NewInv' /\ DeadInv' /\ IdleInv'
  BY <1>1, <1>3, <1>4 DEF ThreadInv, NewInv, DeadInv, IdleInv, TypeOK
<1>11. QED
  BY <1>5, <1>6, <1>7, <1>8, <1>9, <1>10 DEF ThreadInv, OnePlace

(* A turn of the P loop by the running thread.                             *)
LEMMA TryPThread ==
  ASSUME TypeOK, ThreadInv, NEW t \in Threads, NEW s \in Sems, TryP(t, s),
         t = currentThread, status[t] = "RUNNING", mode' = mode,
         UNCHANGED <<currentThread, readyList, life, threadToBeDestroyed, waitQueue>>
  PROVE  ThreadInv'
<1>1. /\ ~ Dead(t) /\ life[t] # "new" /\ mode # "IdleMode"
      /\ ~ Listed(t, readyList)
      /\ \A r \in Sems : ~ Listed(t, queue[r])
      /\ \A c \in Conditions : ~ Listed(t, waitQueue[c])
  BY DEF ThreadInv, OnePlace, ReadyInv, QueueInv, WaitInv, NewInv, DeadInv, IdleInv
<1>2. \A x \in Threads : Dead(x)' <=> Dead(x)
  BY DEF Dead
<1>3. CASE value[s] = 0
  <2>1. /\ \A r \in Sems : queue'[r] = IF r = s THEN Append(queue[s], t) ELSE queue[r]
        /\ \A x \in Threads : status'[x] = IF x = t THEN "BLOCKED" ELSE status[x]
        /\ \A x \in Threads : on'[x] = IF x = t THEN s ELSE on[x]
    BY <1>3 DEF TryP, TypeOK
  <2>2. queue[s] \in Seq(Threads)
    BY DEF TypeOK
  <2>3. /\ \A x \in Threads : Listed(x, queue'[s]) <=> Listed(x, queue[s]) \/ x = t
        /\ IsInjective(queue'[s])
    BY <1>1, <2>1, <2>2, ListedAppend DEF ThreadInv, OnePlace, QueueInv
  <2>4. ReadyInv' /\ RunningInv'
    BY <1>1, <2>1 DEF ThreadInv, OnePlace, ReadyInv, RunningInv
  <2>5. QueueInv'
    BY <1>1, <2>1, <2>3 DEF ThreadInv, OnePlace, QueueInv
  <2>6. WaitInv'
    BY <1>1, <2>1, <2>3 DEF ThreadInv, OnePlace, WaitInv
  <2>7. BlockedInv'
    BY <1>1, <1>2, <2>1, <2>3 DEF ThreadInv, OnePlace, BlockedInv
  <2>8. NewInv' /\ DeadInv' /\ IdleInv'
    BY <1>1, <1>2, <2>1 DEF ThreadInv, NewInv, DeadInv, IdleInv, TypeOK
  <2>9. QED
    BY <2>4, <2>5, <2>6, <2>7, <2>8 DEF ThreadInv, OnePlace
<1>4. CASE value[s] # 0
  <2>1. /\ queue' = queue /\ status' = status
        /\ \A x \in Threads : on'[x] = IF x = t THEN NULL ELSE on[x]
    BY <1>4 DEF TryP, TypeOK
  <2>2. OnePlace'
    BY <1>1, <1>2, <2>1
       DEF ThreadInv, OnePlace, ReadyInv, RunningInv, QueueInv, WaitInv, BlockedInv
  <2>3. NewInv' /\ DeadInv' /\ IdleInv'
    BY <1>2, <2>1 DEF ThreadInv, NewInv, DeadInv, IdleInv, TypeOK
  <2>4. QED
    BY <2>2, <2>3 DEF ThreadInv
<1>5. QED
  BY <1>3, <1>4

(* Wait: the V inside Release, then the caller joins the wait queue.       *)
LEMMA WaitThread ==
  ASSUME TypeOK, ThreadInv, NEW t \in Threads, NEW c \in Conditions, NEW l \in Locks,
         Wait(t, c, l)
  PROVE  ThreadInv'
<1>1. /\ l \in Sems /\ VBody(l) /\ t = currentThread /\ status[t] = "RUNNING"
      /\ mode' = mode /\ mode = "SystemMode"
      /\ UNCHANGED <<currentThread, life, threadToBeDestroyed>>
  BY DEF Wait, Running, Sems, machVars
<1>2. /\ ~ Dead(t) /\ life[t] # "new"
      /\ ~ Listed(t, readyList)
      /\ \A r \in Sems : ~ Listed(t, queue[r])
      /\ \A d \in Conditions : ~ Listed(t, waitQueue[d])
  BY <1>1 DEF ThreadInv, OnePlace, ReadyInv, QueueInv, WaitInv, NewInv, DeadInv
<1>3. /\ \A x \in Threads : status'[x] = IF x = t THEN "BLOCKED"
                                         ELSE IF Listed(x, Woken(l)) THEN "READY"
                                         ELSE status[x]
      /\ \A x \in Threads : on'[x] = IF x = t THEN l ELSE on[x]
      /\ \A d \in Conditions :
           waitQueue'[d] = IF d = c THEN Append(waitQueue[c], t) ELSE waitQueue[d]
  BY DEF Wait, Ready, TypeOK
<1>4. /\ \A x \in Threads : Listed(x, Woken(l)) => Listed(x, queue[l])
      /\ IsInjective(readyList')
      /\ \A x \in Threads :
           Listed(x, readyList') <=> Listed(x, readyList) \/ Listed(x, Woken(l))
      /\ \A r \in Sems : IsInjective(queue'[r])
      /\ \A r \in Sems, x \in Threads :
           Listed(x, queue'[r]) <=> Listed(x, queue[r]) /\ ~ Listed(x, Woken(l))
  BY <1>1, VBodyLists DEF ThreadInv, OnePlace
<1>5. waitQueue[c] \in Seq(Threads)
  BY DEF TypeOK
<1>6. /\ \A x \in Threads : Listed(x, waitQueue'[c]) <=> Listed(x, waitQueue[c]) \/ x = t
      /\ IsInjective(waitQueue'[c])
  BY <1>2, <1>3, <1>5, ListedAppend DEF ThreadInv, OnePlace, WaitInv
<1>7. \A x \in Threads : Listed(x, Woken(l)) =>
        /\ x # t /\ status[x] = "BLOCKED" /\ on[x] = l /\ ~ Dead(x)
        /\ \A d \in Conditions : ~ Listed(x, waitQueue[d])
  BY <1>1, <1>2, <1>4 DEF ThreadInv, OnePlace, QueueInv, WaitInv, DeadInv
<1>8. \A x \in Threads : Dead(x)' <=> Dead(x)
  BY <1>1 DEF Dead
<1>9. ReadyInv' /\ RunningInv'
  BY <1>1, <1>2, <1>3, <1>4, <1>7 DEF ThreadInv, OnePlace, ReadyInv, RunningInv
<1>10. QueueInv'
  BY <1>2, <1>3, <1>4 DEF ThreadInv, OnePlace, QueueInv
<1>11. WaitInv'
  <2>1. \A d \in Conditions : d # c => waitQueue'[d] = waitQueue[d]
    BY <1>3
  <2>2. \A d \in Conditions, x \in Threads :
          Listed(x, waitQueue'[d]) <=> Listed(x, waitQueue[d]) \/ (d = c /\ x = t)
    BY <1>6, <2>1
  <2>3. \A d \in Conditions : IsInjective(waitQueue'[d])
    BY <1>6, <2>1 DEF ThreadInv, OnePlace, WaitInv
  <2>4. \A d \in Conditions, x \in Threads : Listed(x, waitQueue'[d]) =>
          /\ status'[x] = "BLOCKED" /\ on'[x] \in Locks
          /\ \A r \in Sems : ~ Listed(x, queue'[r])
    BY <1>2, <1>3, <1>4, <1>7, <2>2 DEF ThreadInv, OnePlace, WaitInv
  <2>5. \A d \in Conditions, x \in Threads : Listed(x, waitQueue'[d]) =>
          \A e \in Conditions \ {d} : ~ Listed(x, waitQueue'[e])
    BY <1>2, <2>2 DEF ThreadInv, OnePlace, WaitInv
  <2>6. QED
    BY <2>3, <2>4, <2>5 DEF WaitInv
<1>12. BlockedInv'
  <2> SUFFICES ASSUME NEW x \in Threads, status'[x] = "BLOCKED", ~ Dead(x)'
               PROVE  \/ \E r \in Sems : Listed(x, queue'[r])
                      \/ \E d \in Conditions : Listed(x, waitQueue'[d])
    BY DEF BlockedInv
  <2>1. CASE x = t
    BY <1>6, <2>1
  <2>2. CASE x # t
    <3>1. status[x] = "BLOCKED" /\ ~ Dead(x) /\ ~ Listed(x, Woken(l))
      BY <1>3, <1>8, <2>2
    <3>2. \/ \E r \in Sems : Listed(x, queue[r])
          \/ \E d \in Conditions : Listed(x, waitQueue[d])
      BY <3>1 DEF ThreadInv, OnePlace, BlockedInv
    <3>3. QED
      BY <1>3, <1>4, <1>6, <3>1, <3>2
  <2>3. QED
    BY <2>1, <2>2
<1>13. NewInv' /\ DeadInv' /\ IdleInv'
  BY <1>1, <1>2, <1>3, <1>7, <1>8 DEF ThreadInv, NewInv, DeadInv, IdleInv, TypeOK
<1>14. QED
  BY <1>9, <1>10, <1>11, <1>12, <1>13 DEF ThreadInv, OnePlace

(* Signal and Broadcast move the threads `woken`, taken off one condition's*)
(* queue, to the end of the ready list.                                    *)
LEMMA WakeThread ==
  ASSUME TypeOK, ThreadInv, NEW c \in Conditions,
         NEW woken \in Seq(Threads), NEW rest \in Seq(Threads),
         IsInjective(woken), IsInjective(rest),
         \A x \in Threads : Listed(x, waitQueue[c]) <=> Listed(x, woken) \/ Listed(x, rest),
         \A x \in Threads : ~ (Listed(x, woken) /\ Listed(x, rest)),
         readyList' = readyList \o woken, status' = Ready(status, woken),
         waitQueue' = [waitQueue EXCEPT ![c] = rest], mode' = mode,
         UNCHANGED <<currentThread, life, threadToBeDestroyed, on, queue>>
  PROVE  ThreadInv'
<1>1. \A x \in Threads :
        status'[x] = IF Listed(x, woken) THEN "READY" ELSE status[x]
  BY DEF Ready
<1>2. \A x \in Threads : Listed(x, woken) =>
        /\ status[x] = "BLOCKED" /\ ~ Listed(x, readyList) /\ ~ Dead(x)
        /\ \A r \in Sems : ~ Listed(x, queue[r])
        /\ \A d \in Conditions : d # c => ~ Listed(x, waitQueue[d])
  BY KernelAssumption DEF ThreadInv, OnePlace, ReadyInv, WaitInv, DeadInv, Sems
<1>3. /\ IsInjective(readyList')
      /\ \A x \in Threads :
           Listed(x, readyList') <=> Listed(x, readyList) \/ Listed(x, woken)
  BY <1>2, ListedConcat DEF ThreadInv, OnePlace, ReadyInv, TypeOK
<1>4. \A d \in Conditions : waitQueue'[d] = IF d = c THEN rest ELSE waitQueue[d]
  BY DEF TypeOK
<1>5. \A d \in Conditions, x \in Threads :
        Listed(x, waitQueue'[d]) <=> Listed(x, waitQueue[d]) /\ ~ Listed(x, woken)
  BY <1>2, <1>4
<1>6. \A x \in Threads : Dead(x)' <=> Dead(x)
  BY DEF Dead
<1>7. ReadyInv' /\ RunningInv'
  BY <1>1, <1>3 DEF ThreadInv, OnePlace, ReadyInv, RunningInv
<1>8. QueueInv'
  BY <1>1, <1>2 DEF ThreadInv, OnePlace, QueueInv
<1>9. WaitInv'
  <2>1. \A d \in Conditions : IsInjective(waitQueue'[d])
    BY <1>4 DEF ThreadInv, OnePlace, WaitInv
  <2>2. \A d \in Conditions, x \in Threads : Listed(x, waitQueue'[d]) =>
          /\ status'[x] = "BLOCKED" /\ on'[x] \in Locks
          /\ \A r \in Sems : ~ Listed(x, queue'[r])
    BY <1>1, <1>5 DEF ThreadInv, OnePlace, WaitInv
  <2>3. \A d \in Conditions, x \in Threads : Listed(x, waitQueue'[d]) =>
          \A e \in Conditions \ {d} : ~ Listed(x, waitQueue'[e])
    BY <1>5 DEF ThreadInv, OnePlace, WaitInv
  <2>4. QED
    BY <2>1, <2>2, <2>3 DEF WaitInv
<1>10. BlockedInv'
  BY <1>1, <1>5, <1>6 DEF ThreadInv, OnePlace, BlockedInv
<1>11. NewInv' /\ DeadInv' /\ IdleInv'
  BY <1>1, <1>2, <1>6 DEF ThreadInv, NewInv, DeadInv, IdleInv, TypeOK
<1>12. QED
  BY <1>7, <1>8, <1>9, <1>10, <1>11 DEF ThreadInv, OnePlace

LEMMA SignalThread ==
  ASSUME TypeOK, ThreadInv, NEW t \in Threads, NEW c \in Conditions, NEW l \in Locks,
         Signal(t, c, l)
  PROVE  ThreadInv'
<1> DEFINE q == waitQueue[c]
           woken == IF q = <<>> THEN <<>> ELSE <<Head(q)>>
           rest  == IF q = <<>> THEN <<>> ELSE Tail(q)
<1>1. q \in Seq(Threads) /\ IsInjective(q)
  BY DEF TypeOK, ThreadInv, OnePlace, WaitInv
<1>2. \A x : ~ Listed(x, <<>>)
  BY DEF Listed
<1>3. IsInjective(<<>>)
  BY DEF IsInjective
<1>4. /\ readyList' = readyList \o woken /\ status' = Ready(status, woken)
      /\ waitQueue' = [waitQueue EXCEPT ![c] = rest] /\ mode' = mode
      /\ UNCHANGED <<currentThread, life, threadToBeDestroyed, on, queue>>
  BY DEF Signal, machVars
<1>5. CASE q = <<>>
  <2>1. woken = <<>> /\ rest = <<>> /\ <<>> \in Seq(Threads)
    BY <1>1, <1>5
  <2>2. QED
    BY <1>2, <1>3, <1>4, <1>5, <2>1, WakeThread
<1>6. CASE q # <<>>
  <2>1. Head(q) \in Threads /\ Tail(q) \in Seq(Threads)
    BY <1>1, <1>6, HeadTailProperties
  <2>2. woken = <<Head(q)>> /\ rest = Tail(q) /\ woken \in Seq(Threads)
    BY <1>6, <2>1
  <2>3. IsInjective(woken) /\ \A x : Listed(x, woken) <=> x = Head(q)
    BY <2>2 DEF IsInjective, Listed
  <2>4. /\ \A x : Listed(x, q) <=> x = Head(q) \/ Listed(x, Tail(q))
        /\ IsInjective(Tail(q)) /\ ~ Listed(Head(q), Tail(q))
    BY <1>1, <1>6, ListedTail
  <2>5. /\ rest \in Seq(Threads) /\ IsInjective(rest)
        /\ \A x \in Threads : Listed(x, q) <=> Listed(x, woken) \/ Listed(x, rest)
        /\ \A x \in Threads : ~ (Listed(x, woken) /\ Listed(x, rest))
    BY <2>1, <2>2, <2>3, <2>4
  <2> HIDE DEF woken, rest
  <2>6. QED
    BY <1>4, <2>2, <2>3, <2>5, WakeThread
<1>7. QED
  BY <1>5, <1>6

LEMMA BroadcastThread ==
  ASSUME TypeOK, ThreadInv, NEW t \in Threads, NEW c \in Conditions, NEW l \in Locks,
         Broadcast(t, c, l)
  PROVE  ThreadInv'
<1>1. waitQueue[c] \in Seq(Threads) /\ IsInjective(waitQueue[c])
  BY DEF TypeOK, ThreadInv, OnePlace, WaitInv
<1>2. <<>> \in Seq(Threads) /\ IsInjective(<<>>) /\ \A x : ~ Listed(x, <<>>)
  BY DEF IsInjective, Listed
<1>3. /\ readyList' = readyList \o waitQueue[c]
      /\ status' = Ready(status, waitQueue[c])
      /\ waitQueue' = [waitQueue EXCEPT ![c] = <<>>] /\ mode' = mode
      /\ UNCHANGED <<currentThread, life, threadToBeDestroyed, on, queue>>
  BY DEF Broadcast, machVars
<1>4. QED
  BY <1>1, <1>2, <1>3, WakeThread

(* The context switch gives the CPU to the head of the ready list.         *)
LEMMA SwitchThread ==
  ASSUME TypeOK, ThreadInv, readyList # <<>>, SwitchTo(Head(readyList))
  PROVE  LET next == Head(readyList)
         IN  /\ next \in Threads /\ status[next] = "READY" /\ ~ Dead(next)
             /\ currentThread' = next
             /\ \A x \in Threads : Dead(x)' <=> Dead(x)
             /\ \A x \in Threads : x # next => (life'[x] = "new" <=> life[x] = "new")
             /\ life'[next] \notin {"new", "finished", "deleted"}
             /\ threadToBeDestroyed' # NULL => life'[threadToBeDestroyed'] = "finished"
             /\ IsInjective(Tail(readyList)) /\ ~ Listed(next, Tail(readyList))
             /\ \A x : Listed(x, readyList) <=> x = next \/ Listed(x, Tail(readyList))
<1> DEFINE next == Head(readyList)
<1>1. next \in Threads /\ Tail(readyList) \in Seq(Threads)
  BY SwitchType
<1>2. /\ IsInjective(Tail(readyList)) /\ ~ Listed(next, Tail(readyList))
      /\ \A x : Listed(x, readyList) <=> x = next \/ Listed(x, Tail(readyList))
  BY ListedTail DEF TypeOK, ThreadInv, OnePlace, ReadyInv
<1>3. status[next] = "READY" /\ ~ Dead(next) /\ life[next] # "new"
  BY <1>1, <1>2 DEF ThreadInv, OnePlace, ReadyInv, DeadInv, NewInv
<1>4. CASE life[next] = "forked"
  <2>1. /\ currentThread' = next /\ threadToBeDestroyed' = threadToBeDestroyed
        /\ \A x \in Threads : life'[x] = IF x = next THEN "started" ELSE life[x]
    BY <1>1, <1>4 DEF SwitchTo, TypeOK
  <2>2. QED
    BY <1>1, <1>2, <1>3, <1>4, <2>1 DEF Dead, ThreadInv, DeadInv, TypeOK
<1>5. CASE life[next] # "forked"
  <2>1. /\ currentThread' = next /\ threadToBeDestroyed' = NULL
        /\ \A x \in Threads : life'[x] = IF x = threadToBeDestroyed THEN "deleted" ELSE life[x]
    BY <1>1, <1>5 DEF SwitchTo
  <2>2. threadToBeDestroyed \in Threads => Dead(threadToBeDestroyed)
    BY KernelAssumption DEF Dead, ThreadInv, DeadInv
  <2>3. QED
    BY <1>1, <1>2, <1>3, <1>5, <2>1, <2>2 DEF Dead
<1>6. QED
  BY <1>4, <1>5

LEMMA YieldThread ==
  ASSUME TypeOK, ThreadInv, NEW t \in Threads, Yield(t)
  PROVE  ThreadInv'
<1> DEFINE next == Head(readyList)
<1>1. /\ next \in Threads /\ status[next] = "READY" /\ ~ Dead(next)
      /\ currentThread' = next
      /\ \A x \in Threads : Dead(x)' <=> Dead(x)
      /\ \A x \in Threads : x # next => (life'[x] = "new" <=> life[x] = "new")
      /\ life'[next] \notin {"new", "finished", "deleted"}
      /\ threadToBeDestroyed' # NULL => life'[threadToBeDestroyed'] = "finished"
      /\ IsInjective(Tail(readyList)) /\ ~ Listed(next, Tail(readyList))
      /\ \A x : Listed(x, readyList) <=> x = next \/ Listed(x, Tail(readyList))
  BY SwitchThread DEF Yield
<1>2. /\ t = currentThread /\ status[t] = "RUNNING" /\ mode = "SystemMode" /\ mode' = mode
      /\ readyList' = Append(Tail(readyList), t)
      /\ status' = [status EXCEPT ![t] = "READY", ![next] = "RUNNING"]
      /\ UNCHANGED <<on, queue, waitQueue>>
  BY DEF Yield, Running, synchVars, machVars
<1>3. next # t /\ Tail(readyList) \in Seq(Threads) /\ ~ Listed(t, Tail(readyList))
  BY <1>1, <1>2, SwitchType DEF Yield, ThreadInv, OnePlace, ReadyInv
<1>4. /\ IsInjective(readyList')
      /\ \A x : Listed(x, readyList') <=> Listed(x, Tail(readyList)) \/ x = t
  BY <1>1, <1>2, <1>3, ListedAppend
<1> HIDE DEF next
<1>5. \A x \in Threads : status'[x] = IF x = next THEN "RUNNING"
                                      ELSE IF x = t THEN "READY" ELSE status[x]
  BY <1>1, <1>2, <1>3 DEF TypeOK
<1>6. ReadyInv'
  BY <1>1, <1>3, <1>4, <1>5 DEF ThreadInv, OnePlace, ReadyInv
<1>6a. RunningInv'
  BY <1>1, <1>2, <1>5 DEF ThreadInv, OnePlace, RunningInv
<1>7. \A x \in Threads : status[x] = "BLOCKED" <=> status'[x] = "BLOCKED"
  BY <1>1, <1>2, <1>5
<1>7a. QueueInv'
  BY <1>2, <1>7 DEF ThreadInv, OnePlace, QueueInv
<1>7b. WaitInv'
  BY <1>2, <1>7 DEF ThreadInv, OnePlace, WaitInv
<1>8. BlockedInv'
  BY <1>1, <1>2, <1>7 DEF ThreadInv, OnePlace, BlockedInv
<1>9. NewInv'
  BY <1>1, <1>2, <1>5 DEF ThreadInv, NewInv
<1>10. DeadInv' /\ IdleInv'
  BY <1>1, <1>2, <1>5 DEF ThreadInv, DeadInv, IdleInv
<1>11. QED
  BY <1>6, <1>6a, <1>7a, <1>7b, <1>8, <1>9, <1>10 DEF ThreadInv, OnePlace

LEMMA DispatchThread ==
  ASSUME TypeOK, ThreadInv, Dispatch
  PROVE  ThreadInv'
<1> DEFINE next == Head(readyList)
<1>1. /\ next \in Threads /\ status[next] = "READY" /\ ~ Dead(next)
      /\ currentThread' = next
      /\ \A x \in Threads : Dead(x)' <=> Dead(x)
      /\ \A x \in Threads : x # next => (life'[x] = "new" <=> life[x] = "new")
      /\ life'[next] \notin {"new", "finished", "deleted"}
      /\ threadToBeDestroyed' # NULL => life'[threadToBeDestroyed'] = "finished"
      /\ IsInjective(Tail(readyList)) /\ ~ Listed(next, Tail(readyList))
      /\ \A x : Listed(x, readyList) <=> x = next \/ Listed(x, Tail(readyList))
  BY SwitchThread DEF Dispatch
<1>2. /\ status[currentThread] = "BLOCKED" \/ mode = "IdleMode"
      /\ mode' = "SystemMode" /\ readyList' = Tail(readyList)
      /\ status' = [status EXCEPT ![next] = "RUNNING"]
      /\ UNCHANGED <<on, queue, waitQueue>>
  BY DEF Dispatch, Sleeping, synchVars
<1> HIDE DEF next
<1>3. \A x \in Threads : status'[x] = IF x = next THEN "RUNNING" ELSE status[x]
  BY <1>1, <1>2 DEF TypeOK
<1>4. \A x \in Threads : status[x] # "RUNNING"
  BY <1>2 DEF ThreadInv, OnePlace, RunningInv, IdleInv
<1>5. ReadyInv' /\ RunningInv'
  BY <1>1, <1>2, <1>3, <1>4 DEF ThreadInv, OnePlace, ReadyInv, RunningInv
<1>6. QueueInv' /\ WaitInv'
  BY <1>1, <1>2, <1>3 DEF ThreadInv, OnePlace, QueueInv, WaitInv
<1>7. BlockedInv'
  BY <1>1, <1>2, <1>3 DEF ThreadInv, OnePlace, BlockedInv
<1>8. NewInv'
  BY <1>1, <1>3 DEF ThreadInv, NewInv
<1>9. DeadInv' /\ IdleInv'
  BY <1>1, <1>2, <1>3 DEF ThreadInv, DeadInv, IdleInv
<1>10. QED
  BY <1>5, <1>6, <1>7, <1>8, <1>9 DEF ThreadInv, OnePlace

LEMMA ForkedThread ==
  ASSUME TypeOK, ThreadInv, NEW t \in Threads, NEW new \in Threads, Fork(t, new)
  PROVE  ThreadInv'
<1>1. /\ life[new] = "new" /\ status[new] = "JUST_CREATED"
      /\ currentThread' = currentThread /\ threadToBeDestroyed' = threadToBeDestroyed
      /\ status[currentThread] = "RUNNING" /\ mode = "SystemMode" /\ mode' = mode
      /\ UNCHANGED <<on, queue, waitQueue>>
      /\ readyList' = Append(readyList, new)
      /\ \A x \in Threads : life'[x] = IF x = new THEN "forked" ELSE life[x]
      /\ \A x \in Threads : status'[x] = IF x = new THEN "READY" ELSE status[x]
  BY DEF Fork, Running, ThreadInv, NewInv, TypeOK, synchVars, machVars
<1>2. ~ Listed(new, readyList)
  BY <1>1 DEF ThreadInv, OnePlace, ReadyInv
<1>3. /\ IsInjective(readyList')
      /\ \A x : Listed(x, readyList') <=> Listed(x, readyList) \/ x = new
  BY <1>1, <1>2, ListedAppend DEF TypeOK, ThreadInv, OnePlace, ReadyInv
<1>4. \A x \in Threads : Dead(x)' <=> Dead(x)
  BY <1>1 DEF Dead
<1>5. ReadyInv' /\ RunningInv'
  BY <1>1, <1>3 DEF ThreadInv, OnePlace, ReadyInv, RunningInv
<1>6. QueueInv' /\ WaitInv'
  BY <1>1 DEF ThreadInv, OnePlace, QueueInv, WaitInv
<1>7. BlockedInv'
  BY <1>1, <1>4 DEF ThreadInv, OnePlace, BlockedInv
<1>8. NewInv' /\ DeadInv' /\ IdleInv'
  BY <1>1, <1>4 DEF ThreadInv, NewInv, DeadInv, IdleInv, TypeOK, Dead
<1>9. QED
  BY <1>5, <1>6, <1>7, <1>8 DEF ThreadInv, OnePlace

LEMMA FinishedThread ==
  ASSUME TypeOK, ThreadInv, NEW t \in Threads, Finish(t)
  PROVE  ThreadInv'
<1>1. /\ t = currentThread /\ status[t] = "RUNNING" /\ on[t] = NULL
      /\ currentThread' = t /\ threadToBeDestroyed' = t
      /\ UNCHANGED <<on, queue, waitQueue, readyList, mode>>
      /\ \A x \in Threads : life'[x] = IF x = t THEN "finished" ELSE life[x]
      /\ \A x \in Threads : status'[x] = IF x = t THEN "BLOCKED" ELSE status[x]
  BY DEF Finish, Running, TypeOK, synchVars, machVars
<1>2. life[t] # "new"
  BY <1>1 DEF ThreadInv, NewInv
<1>3. \A x \in Threads : Dead(x)' <=> Dead(x) \/ x = t
  BY <1>1 DEF Dead
<1>4. ReadyInv' /\ RunningInv'
  BY <1>1 DEF ThreadInv, OnePlace, ReadyInv, RunningInv
<1>5. QueueInv' /\ WaitInv'
  BY <1>1 DEF ThreadInv, OnePlace, QueueInv, WaitInv
<1>6. BlockedInv'
  BY <1>1, <1>3 DEF ThreadInv, OnePlace, BlockedInv
<1>7. NewInv' /\ DeadInv' /\ IdleInv'
  BY <1>1, <1>2, <1>3 DEF ThreadInv, NewInv, DeadInv, IdleInv, TypeOK
<1>8. QED
  BY <1>4, <1>5, <1>6, <1>7 DEF ThreadInv, OnePlace

LEMMA ThreadInvStep == TypeOK /\ ThreadInv /\ [Next]_vars => ThreadInv'
<1> SUFFICES ASSUME TypeOK, ThreadInv, [Next]_vars PROVE ThreadInv'
  OBVIOUS
<1>1. CASE Idle
  <2>1. /\ UNCHANGED <<currentThread, status, readyList, life, threadToBeDestroyed,
                       on, queue, waitQueue>>
        /\ status[currentThread] = "BLOCKED" \/ mode = "IdleMode"
    BY <1>1 DEF Idle, Sleeping, threadVars, synchVars
  <2>2. OnePlace' /\ NewInv' /\ DeadInv'
    BY <2>1 DEF ThreadInv, OnePlace, ReadyInv, RunningInv, QueueInv, WaitInv, BlockedInv,
                NewInv, DeadInv, Dead
  <2>3. IdleInv'
    BY <2>1 DEF ThreadInv, IdleInv
  <2>4. QED
    BY <2>2, <2>3 DEF ThreadInv
<1>2. ASSUME NEW t \in Threads, Resume(t) PROVE ThreadInv'
  BY <1>2, TryPThread DEF Resume, TypeOK, machVars
<1>3. ASSUME NEW t \in Threads, NEW s \in Sems, P(t, s) PROVE ThreadInv'
  BY <1>3, TryPThread DEF P, Running, machVars
<1>4. ASSUME NEW d \in Devices, Interrupt(d) PROVE ThreadInv'
  BY <1>4, VBodyThread DEF Interrupt, Sems
<1>5. ASSUME NEW t \in Threads, NEW s \in Semaphores, V(t, s) PROVE ThreadInv'
  BY <1>5, VBodyThread DEF V, Sems, machVars
<1>6. ASSUME NEW t \in Threads, NEW l \in Locks, Release(t, l) PROVE ThreadInv'
  BY <1>6, VBodyThread DEF Release, Sems, machVars
<1>7. CASE /\ UNCHANGED <<currentThread, status, readyList, life, threadToBeDestroyed,
                          on, queue, waitQueue, mode>>
  BY <1>7 DEF ThreadInv, OnePlace, ReadyInv, RunningInv, QueueInv, WaitInv, BlockedInv,
              NewInv, DeadInv, IdleInv, Dead
<1>8. QED
  BY <1>1, <1>2, <1>3, <1>4, <1>5, <1>6, <1>7, DispatchThread, YieldThread, ForkedThread,
     FinishedThread, WaitThread, SignalThread, BroadcastThread
     DEF Next, Kernel, Call, vars, threadVars, synchVars, machVars, Request

LEMMA ThreadInvInit == Init => ThreadInv
<1> SUFFICES ASSUME Init PROVE ThreadInv
  OBVIOUS
<1>1. /\ readyList = <<>> /\ \A s \in Sems : queue[s] = <<>>
      /\ \A c \in Conditions : waitQueue[c] = <<>>
      /\ currentThread = MainThread /\ mode = "SystemMode" /\ threadToBeDestroyed = NULL
      /\ \A t \in Threads : /\ status[t] \in {"RUNNING", "JUST_CREATED"}
                            /\ status[t] = "RUNNING" <=> t = MainThread
                            /\ life[t] = IF t = MainThread THEN "started" ELSE "new"
  BY DEF Init
<1>2. IsInjective(<<>>) /\ \A x : ~ Listed(x, <<>>)
  BY DEF IsInjective, Listed
<1>3. QED
  BY <1>1, <1>2, KernelAssumption
     DEF ThreadInv, OnePlace, ReadyInv, RunningInv, QueueInv, WaitInv, BlockedInv, NewInv,
         DeadInv, IdleInv, Dead

LEMMA ThreadInvHolds == Spec => []ThreadInv
<1> QED
  BY ThreadInvInit, ThreadInvStep, TypeCorrect, PTL DEF Spec

(* Whatever the programs call and however they are preempted, each thread  *)
(* is in one place: running, once in the ready list, or once in one queue. *)
THEOREM OnePlaceHolds == Spec => []OnePlace
<1>1. ThreadInv => OnePlace
  BY DEF ThreadInv
<1>2. QED
  BY <1>1, ThreadInvHolds, PTL

(* No list of the kernel holds a finished or deleted Thread, and Run never *)
(* deletes the thread it is working for (scheduler.cc:107-110).            *)
THEOREM NoDanglingThreadHolds == Spec => []NoDanglingThread
<1>1. ThreadInv => NoDanglingThread
  <2>1. \A l \in Locks : l # NULL
    BY KernelAssumption DEF Sems
  <2>2. QED
    BY <2>1, KernelAssumption
       DEF ThreadInv, NoDanglingThread, OnePlace, ReadyInv, QueueInv, WaitInv, DeadInv
<1>2. QED
  BY <1>1, ThreadInvHolds, PTL

-----------------------------------------------------------------------------
(* No lost wakeup.                                                         *)

LEMMA AwakeFinite ==
  ASSUME NEW A, A \subseteq Threads, NEW B, B \subseteq A
  PROVE  /\ Cardinality(A) \in Nat /\ Cardinality(B) \in Nat
         /\ Cardinality(B) <= Cardinality(A)
         /\ \A t \in A : Cardinality(A \ {t}) = Cardinality(A) - 1
         /\ \A t : t \in A /\ t \notin B => Cardinality(B) + 1 <= Cardinality(A)
<1>1. IsFiniteSet(A)
  BY KernelAssumption, FS_Subset
<1>2. IsFiniteSet(B) /\ Cardinality(B) <= Cardinality(A)
  BY <1>1, FS_Subset
<1>3. Cardinality(A) \in Nat /\ Cardinality(B) \in Nat
  BY <1>1, <1>2, FS_CardinalityType
<1>4. \A t \in A : Cardinality(A \ {t}) = Cardinality(A) - 1
  BY <1>1, FS_RemoveElement
<1>5. ASSUME NEW t, t \in A, t \notin B PROVE Cardinality(B) + 1 <= Cardinality(A)
  <2>1. Cardinality(A \ {t}) = Cardinality(A) - 1
    BY <1>4, <1>5
  <2>2. B \subseteq A \ {t} /\ IsFiniteSet(A \ {t})
    BY <1>1, <1>5, FS_RemoveElement
  <2>3. Cardinality(B) <= Cardinality(A \ {t})
    BY <2>2, FS_Subset
  <2>4. QED
    BY <1>3, <2>1, <2>3
<1>6. QED
  BY <1>2, <1>3, <1>4, <1>5

(* For a semaphore whose value does not grow it is enough that no thread   *)
(* stops being awake for it.                                               *)
LEMMA AwakeKept ==
  ASSUME TypeOK, NoLostWakeup, NEW s \in Sems,
         queue'[s] # <<>> => queue[s] # <<>>, value'[s] = value[s],
         Awake(s) \subseteq Awake(s)'
  PROVE  queue'[s] # <<>> => Cardinality(Awake(s))' >= value'[s]
<1>1. Awake(s)' \subseteq Threads
  BY DEF Awake
<1>2. Cardinality(Awake(s)) <= Cardinality(Awake(s)')
  BY <1>1, AwakeFinite
<1>3. /\ Cardinality(Awake(s)) \in Nat /\ Cardinality(Awake(s)') \in Nat
  BY <1>1, AwakeFinite
<1>4. value[s] \in Nat
  BY DEF TypeOK
<1>5. QED
  BY <1>2, <1>3, <1>4 DEF NoLostWakeup

LEMMA TryPWakeup ==
  ASSUME TypeOK, ThreadInv, NoLostWakeup, NEW t \in Threads, NEW s \in Sems, TryP(t, s),
         status[t] = "RUNNING", on[t] \in {s, NULL}
  PROVE  NoLostWakeup'
<1> SUFFICES ASSUME NEW r \in Sems, queue'[r] # <<>>
             PROVE  Cardinality(Awake(r))' >= value'[r]
  BY DEF NoLostWakeup
<1>0. NULL \notin Sems
  BY KernelAssumption
<1>1. Awake(r) \subseteq Threads /\ Awake(r)' \subseteq Threads
  BY DEF Awake
<1>2. value[r] \in Nat /\ value[s] \in Nat
  BY DEF TypeOK
<1>3. CASE value[s] = 0
  <2>1. /\ value' = value
        /\ \A x \in Threads : status'[x] = IF x = t THEN "BLOCKED" ELSE status[x]
        /\ \A x \in Threads : on'[x] = IF x = t THEN s ELSE on[x]
        /\ \A q \in Sems : q # s => queue'[q] = queue[q]
    BY <1>3 DEF TryP, TypeOK
  <2>2. CASE r = s
    <3>1. value'[r] = 0 /\ Cardinality(Awake(r)') \in Nat
      BY <1>1, <1>3, <2>1, <2>2, AwakeFinite
    <3>2. QED
      BY <3>1
  <2>3. CASE r # s
    <3>1. Awake(r) \subseteq Awake(r)'
      BY <1>0, <2>1, <2>3 DEF Awake
    <3>2. QED
      BY <2>1, <2>3, <3>1, AwakeKept
  <2>4. QED
    BY <2>2, <2>3
<1>4. CASE value[s] # 0
  <2>1. /\ queue' = queue /\ status' = status
        /\ \A x \in Threads : on'[x] = IF x = t THEN NULL ELSE on[x]
        /\ \A q \in Sems : value'[q] = IF q = s THEN value[s] - 1 ELSE value[q]
    BY <1>4 DEF TryP, TypeOK
  <2>2. CASE r = s
    <3>1. Awake(r)' = Awake(r) \ {t}
      BY <1>0, <2>1, <2>2 DEF Awake
    <3>2. Cardinality(Awake(r)) >= value[r]
      BY <2>1 DEF NoLostWakeup
    <3>3. Cardinality(Awake(r)) \in Nat /\ Cardinality(Awake(r)') \in Nat
      BY <1>1, AwakeFinite
    <3>4. CASE t \in Awake(r)
      <4>1. Cardinality(Awake(r)') = Cardinality(Awake(r)) - 1
        BY <1>1, <3>1, <3>4, AwakeFinite
      <4>2. QED
        BY <1>2, <2>1, <2>2, <3>2, <3>3, <4>1
    <3>5. CASE t \notin Awake(r)
      <4>1. Awake(r)' = Awake(r)
        BY <3>1, <3>5
      <4>2. QED
        BY <1>2, <2>1, <2>2, <3>2, <3>3, <4>1
    <3>6. QED
      BY <3>4, <3>5
  <2>3. CASE r # s
    <3>1. Awake(r) \subseteq Awake(r)'
      BY <1>0, <2>1, <2>3 DEF Awake
    <3>2. QED
      BY <2>1, <2>3, <3>1, AwakeKept
  <2>4. QED
    BY <2>2, <2>3
<1>5. QED
  BY <1>3, <1>4

(* The thread that V takes off the queue comes on top of those that were   *)
(* awake already.  `t` is a thread that goes to sleep in the same step.    *)
LEMMA VBodyWakeup ==
  ASSUME TypeOK, ThreadInv, NoLostWakeup, NEW s \in Sems, VBody(s),
         NEW t \in Threads \union {NULL}, t \in Threads => on[t] = NULL /\ status[t] = "RUNNING",
         \A x \in Threads : x # t => on'[x] = on[x],
         \A x \in Threads : x # t => status'[x] = Ready(status, Woken(s))[x]
  PROVE  NoLostWakeup'
<1> SUFFICES ASSUME NEW r \in Sems, queue'[r] # <<>>
             PROVE  Cardinality(Awake(r))' >= value'[r]
  BY DEF NoLostWakeup
<1>0. NULL \notin Sems /\ NULL \notin Threads
  BY KernelAssumption
<1>1. Awake(r) \subseteq Threads /\ Awake(r)' \subseteq Threads
  BY DEF Awake
<1>2. \A x \in Awake(r) : x # t
  BY <1>0 DEF Awake
<1>3. Awake(r) \subseteq Awake(r)'
  BY <1>2 DEF Awake, Ready
<1>4. /\ queue' = [queue EXCEPT ![s] = IF Woken(s) = <<>> THEN queue[s] ELSE Tail(queue[s])]
      /\ value' = [value EXCEPT ![s] = value[s] + 1]
  BY DEF VBody
<1>5. CASE r # s
  <2>1. queue'[r] = queue[r] /\ value'[r] = value[r]
    BY <1>4, <1>5 DEF TypeOK
  <2>2. QED
    BY <1>3, <2>1, AwakeKept
<1>6. CASE r = s
  <2>1. queue[s] # <<>>
    BY <1>4, <1>6 DEF Woken, TypeOK
  <2> DEFINE h == Head(queue[s])
  <2>2. h \in Threads /\ Listed(h, queue[s])
    BY <2>1, HeadTailProperties, ListedTail DEF TypeOK
  <2>3. status[h] = "BLOCKED" /\ on[h] = s
    BY <2>2 DEF ThreadInv, OnePlace, QueueInv
  <2>4. Listed(h, Woken(s))
    BY <2>1 DEF Woken, Listed
  <2>5. h # t
    BY <2>2, <2>3
  <2>6. h \in Awake(r)' /\ h \notin Awake(r)
    BY <1>6, <2>2, <2>3, <2>4, <2>5 DEF Awake, Ready
  <2> HIDE DEF h
  <2>7. Cardinality(Awake(r)) + 1 <= Cardinality(Awake(r)')
    BY <1>1, <1>3, <2>6, AwakeFinite
  <2>8. Cardinality(Awake(r)) \in Nat /\ Cardinality(Awake(r)') \in Nat
    BY <1>1, AwakeFinite
  <2>9. Cardinality(Awake(r)) >= value[r] /\ value'[r] = value[r] + 1 /\ value[r] \in Nat
    BY <1>4, <1>6, <2>1 DEF NoLostWakeup, TypeOK
  <2>10. QED
    BY <2>7, <2>8, <2>9
<1>7. QED
  BY <1>5, <1>6

LEMMA WakeupStep == TypeOK /\ ThreadInv /\ NoLostWakeup /\ [Next]_vars => NoLostWakeup'
<1> SUFFICES ASSUME TypeOK, ThreadInv, NoLostWakeup, [Next]_vars PROVE NoLostWakeup'
  OBVIOUS
<1>0. NULL \notin Sems /\ NULL \notin Threads
  BY KernelAssumption
<1>1. ASSUME queue' = queue, value' = value, \A s \in Sems : Awake(s) \subseteq Awake(s)'
      PROVE  NoLostWakeup'
  BY <1>1, AwakeKept DEF NoLostWakeup
<1>2. ASSUME NEW t \in Threads, Resume(t) PROVE NoLostWakeup'
  <2>1. on[t] \in Sems
    BY <1>2 DEF Resume, TypeOK
  <2>2. QED
    BY <1>2, <2>1, TryPWakeup DEF Resume
<1>3. ASSUME NEW t \in Threads, NEW s \in Sems, P(t, s) PROVE NoLostWakeup'
  BY <1>3, TryPWakeup DEF P, Running
<1>4. ASSUME NEW d \in Devices, Interrupt(d) PROVE NoLostWakeup'
  <2>1. d \in Sems /\ on' = on /\ status' = Ready(status, Woken(d)) /\ VBody(d)
    BY <1>4 DEF Interrupt, Sems
  <2>2. QED
    BY <1>0, <2>1, VBodyWakeup
<1>5. ASSUME NEW t \in Threads, NEW s \in Semaphores, V(t, s) PROVE NoLostWakeup'
  <2>1. s \in Sems /\ on' = on /\ status' = Ready(status, Woken(s)) /\ VBody(s)
    BY <1>5 DEF V, Sems
  <2>2. QED
    BY <1>0, <2>1, VBodyWakeup
<1>6. ASSUME NEW t \in Threads, NEW l \in Locks, Release(t, l) PROVE NoLostWakeup'
  <2>1. l \in Sems /\ on' = on /\ status' = Ready(status, Woken(l)) /\ VBody(l)
    BY <1>6 DEF Release, Sems
  <2>2. QED
    BY <1>0, <2>1, VBodyWakeup
<1>7. ASSUME NEW t \in Threads, NEW l \in Locks, NEW c \in Conditions, Wait(t, c, l)
      PROVE  NoLostWakeup'
  <2>1. /\ l \in Sems /\ VBody(l) /\ on[t] = NULL /\ status[t] = "RUNNING"
        /\ \A x \in Threads : x # t => on'[x] = on[x]
        /\ \A x \in Threads : x # t => status'[x] = Ready(status, Woken(l))[x]
    BY <1>7 DEF Wait, Running, Sems, TypeOK, Ready
  <2>2. QED
    BY <2>1, VBodyWakeup
<1>8. ASSUME NEW t \in Threads, NEW l \in Locks, NEW c \in Conditions,
             Signal(t, c, l) \/ Broadcast(t, c, l)
      PROVE  NoLostWakeup'
  <2>1. /\ queue' = queue /\ value' = value /\ on' = on
        /\ \A x \in Threads : status'[x] \in {"READY", status[x]}
    BY <1>8 DEF Signal, Broadcast, Ready
  <2>2. \A s \in Sems : Awake(s) \subseteq Awake(s)'
    BY <2>1 DEF Awake
  <2>3. QED
    BY <1>1, <2>1, <2>2
<1>9. ASSUME NEW t \in Threads, Yield(t) PROVE NoLostWakeup'
  <2>1. /\ queue' = queue /\ value' = value /\ on' = on
        /\ \A x \in Threads : status'[x] \in {"READY", "RUNNING", status[x]}
    BY <1>9 DEF Yield, synchVars, TypeOK
  <2>2. \A s \in Sems : Awake(s) \subseteq Awake(s)'
    BY <2>1 DEF Awake
  <2>3. QED
    BY <1>1, <2>1, <2>2
<1>10. CASE Dispatch
  <2>1. /\ queue' = queue /\ value' = value /\ on' = on
        /\ \A x \in Threads : status'[x] \in {"RUNNING", status[x]}
    BY <1>10 DEF Dispatch, synchVars, TypeOK
  <2>2. \A s \in Sems : Awake(s) \subseteq Awake(s)'
    BY <2>1 DEF Awake
  <2>3. QED
    BY <1>1, <2>1, <2>2
<1>11. ASSUME NEW t \in Threads, NEW new \in Threads, Fork(t, new) PROVE NoLostWakeup'
  <2>1. /\ queue' = queue /\ value' = value /\ on' = on
        /\ \A x \in Threads : status'[x] \in {"READY", status[x]}
    BY <1>11 DEF Fork, synchVars, TypeOK
  <2>2. \A s \in Sems : Awake(s) \subseteq Awake(s)'
    BY <2>1 DEF Awake
  <2>3. QED
    BY <1>1, <2>1, <2>2
<1>12. ASSUME NEW t \in Threads, Finish(t) PROVE NoLostWakeup'
  <2>1. /\ queue' = queue /\ value' = value /\ on' = on /\ on[t] = NULL
        /\ \A x \in Threads : x # t => status'[x] = status[x]
    BY <1>12 DEF Finish, Running, synchVars, TypeOK
  <2>2. \A s \in Sems : Awake(s) \subseteq Awake(s)'
    BY <1>0, <2>1 DEF Awake
  <2>3. QED
    BY <1>1, <2>1, <2>2
<1>13. CASE UNCHANGED <<status, on, value, queue>>
  <2>1. \A s \in Sems : Awake(s)' = Awake(s)
    BY <1>13 DEF Awake
  <2>2. QED
    BY <1>1, <1>13, <2>1
<1>14. QED
  BY <1>2, <1>3, <1>4, <1>5, <1>6, <1>7, <1>8, <1>9, <1>10, <1>11, <1>12, <1>13
     DEF Next, Kernel, Call, vars, threadVars, synchVars, Idle, Request

(* While threads wait for a semaphore, every unit of its value has an      *)
(* awake thread that will come for it, however newcomers overtake the      *)
(* woken (Semaphore::P, synch.cc:62-92).                                   *)
THEOREM NoLostWakeupHolds == Spec => []NoLostWakeup
<1>1. Init => NoLostWakeup
  BY DEF Init, NoLostWakeup
<1>2. QED
  BY <1>1, WakeupStep, TypeCorrect, ThreadInvHolds, PTL DEF Spec

-----------------------------------------------------------------------------
(* Refinement of MesaMonitor.                                              *)

LEMMA RangeListed ==
  \A seq : \A x : x \in Range(seq) <=> Listed(x, seq)
BY DEF Range, Listed

(* A running thread is in Wait on no condition.                            *)
LEMMA RunningAwake ==
  ASSUME ThreadInv, NEW t \in Threads, status[t] = "RUNNING"
  PROVE  ~ Monitor!Asleep(t)
BY RangeListed DEF ThreadInv, OnePlace, WaitInv, Monitor!Asleep

LEMMA TryPRefines ==
  ASSUME TypeOK, ThreadInv, LockExclusion, NEW t \in Threads, NEW s \in Sems, TryP(t, s),
         status[t] = "RUNNING", waitQueue' = waitQueue
  PROVE  [Monitor!Next]_(Monitor!vars)
<1>1. ~ Monitor!Asleep(t)
  BY RunningAwake
<1>2. CASE value[s] = 0
  <2>1. value' = value /\ holder' = holder
    BY <1>2 DEF TryP, TypeOK
  <2>2. QED
    BY <2>1 DEF Monitor!vars
<1>3. CASE value[s] # 0
  <2>1. /\ value[s] > 0
        /\ value' = [value EXCEPT ![s] = value[s] - 1]
        /\ holder' = [l \in Locks |-> IF l = s THEN t ELSE holder[l]]
    BY <1>3 DEF TryP, TypeOK
  <2>2. CASE s \in Locks
    <3>1. holder[s] = NULL
      BY <1>3, <2>2 DEF LockExclusion
    <3>2. [q \in Semaphores |-> value'[q]] = [q \in Semaphores |-> value[q]]
      BY <2>1, <2>2, KernelAssumption DEF TypeOK, Sems
    <3>3. holder' = [holder EXCEPT ![s] = t]
      BY <2>1, <2>2 DEF TypeOK
    <3>4. Monitor!Acquire(t, s)
      BY <1>1, <3>1, <3>2, <3>3 DEF Monitor!Acquire
    <3>5. QED
      BY <2>2, <3>4 DEF Monitor!Next
  <2>3. CASE s \in Semaphores
    <3>1. [q \in Semaphores |-> value'[q]]
            = [[q \in Semaphores |-> value[q]] EXCEPT ![s] = value[s] - 1]
      BY <2>1, <2>3 DEF TypeOK, Sems
    <3>2. holder' = holder
      BY <2>1, <2>3, KernelAssumption DEF TypeOK
    <3>3. Monitor!P(t, s)
      BY <1>1, <2>1, <2>3, <3>1, <3>2 DEF Monitor!P
    <3>4. QED
      BY <2>3, <3>3 DEF Monitor!Next
  <2>4. QED
    BY <2>2, <2>3 DEF Sems
<1>4. QED
  BY <1>2, <1>3

LEMMA VRefines ==
  ASSUME TypeOK, NEW s \in Semaphores, VBody(s), holder' = holder, waitQueue' = waitQueue
  PROVE  Monitor!Next
<1>1. [q \in Semaphores |-> value'[q]]
        = [[q \in Semaphores |-> value[q]] EXCEPT ![s] = value[s] + 1]
  BY DEF VBody, TypeOK, Sems
<1>2. Monitor!V(s)
  BY <1>1 DEF Monitor!V
<1>3. QED
  BY <1>2 DEF Monitor!Next

LEMMA RefinementStep ==
  TypeOK /\ ThreadInv /\ LockExclusion /\ [Next]_vars => [Monitor!Next]_(Monitor!vars)
<1> SUFFICES ASSUME TypeOK, ThreadInv, LockExclusion, [Next]_vars
             PROVE  [Monitor!Next]_(Monitor!vars)
  OBVIOUS
<1>1. ASSUME NEW t \in Threads, Resume(t) PROVE [Monitor!Next]_(Monitor!vars)
  <2>1. on[t] \in Sems
    BY <1>1 DEF Resume, TypeOK
  <2>2. QED
    BY <1>1, <2>1, TryPRefines DEF Resume
<1>2. ASSUME NEW t \in Threads, NEW s \in Sems, P(t, s) PROVE [Monitor!Next]_(Monitor!vars)
  BY <1>2, TryPRefines DEF P, Running
<1>3. ASSUME NEW d \in Devices, Interrupt(d) PROVE Monitor!Next
  BY <1>3, VRefines DEF Interrupt
<1>4. ASSUME NEW t \in Threads, NEW s \in Semaphores, V(t, s) PROVE Monitor!Next
  BY <1>4, VRefines DEF V
<1>5. ASSUME NEW l \in Locks, VBody(l)
      PROVE  [s \in Semaphores |-> value'[s]] = [s \in Semaphores |-> value[s]]
  BY <1>5, KernelAssumption DEF VBody, TypeOK, Sems
<1>6. ASSUME NEW t \in Threads, NEW l \in Locks, Release(t, l) PROVE Monitor!Next
  <2>1. /\ ~ Monitor!Asleep(t) /\ holder[l] = t
        /\ holder' = [holder EXCEPT ![l] = NULL] /\ VBody(l) /\ waitQueue' = waitQueue
    BY <1>6, RunningAwake DEF Release, Running
  <2>2. Monitor!Release(t, l)
    BY <1>5, <2>1 DEF Monitor!Release
  <2>3. QED
    BY <2>2 DEF Monitor!Next
<1>7. ASSUME NEW t \in Threads, NEW l \in Locks, NEW c \in Conditions, Wait(t, c, l)
      PROVE  Monitor!Next
  <2>1. /\ ~ Monitor!Asleep(t) /\ holder[l] = t
        /\ holder' = [holder EXCEPT ![l] = NULL] /\ VBody(l)
        /\ \A d \in Conditions :
             waitQueue'[d] = IF d = c THEN Append(waitQueue[c], t) ELSE waitQueue[d]
    BY <1>7, RunningAwake DEF Wait, Running, TypeOK
  <2>2. waitQueue[c] \in Seq(Threads)
    BY DEF TypeOK
  <2>3. Range(Append(waitQueue[c], t)) = Range(waitQueue[c]) \union {t}
    BY <2>2, RangeListed, ListedAppend
  <2>4. [d \in Conditions |-> Range(waitQueue'[d])]
          = [[d \in Conditions |-> Range(waitQueue[d])] EXCEPT ![c] = Range(waitQueue[c]) \union {t}]
    BY <2>1, <2>3
  <2>5. Monitor!Wait(t, c, l)
    BY <1>5, <2>1, <2>4 DEF Monitor!Wait
  <2>6. QED
    BY <2>5 DEF Monitor!Next
<1>8. ASSUME NEW t \in Threads, NEW l \in Locks, NEW c \in Conditions, Signal(t, c, l)
      PROVE  [Monitor!Next]_(Monitor!vars)
  <2>1. /\ ~ Monitor!Asleep(t) /\ holder[l] = t /\ value' = value /\ holder' = holder
        /\ \A d \in Conditions :
             waitQueue'[d] = IF d = c THEN IF waitQueue[c] = <<>> THEN <<>> ELSE Tail(waitQueue[c])
                                      ELSE waitQueue[d]
    BY <1>8, RunningAwake DEF Signal, Running, TypeOK
  <2>2. waitQueue[c] \in Seq(Threads) /\ IsInjective(waitQueue[c])
    BY DEF TypeOK, ThreadInv, OnePlace, WaitInv
  <2>3. CASE waitQueue[c] = <<>>
    <3>1. [d \in Conditions |-> Range(waitQueue'[d])] = [d \in Conditions |-> Range(waitQueue[d])]
      BY <2>1, <2>3
    <3>2. QED
      BY <2>1, <3>1 DEF Monitor!vars
  <2>4. CASE waitQueue[c] # <<>>
    <3> DEFINE h == Head(waitQueue[c])
    <3>1. /\ h \in Range(waitQueue[c])
          /\ Range(Tail(waitQueue[c])) = Range(waitQueue[c]) \ {h}
      BY <2>2, <2>4, RangeListed, ListedTail
    <3> HIDE DEF h
    <3>2. [d \in Conditions |-> Range(waitQueue'[d])]
            = [[d \in Conditions |-> Range(waitQueue[d])] EXCEPT ![c] = Range(waitQueue[c]) \ {h}]
      BY <2>1, <2>4, <3>1
    <3>3. Monitor!Signal(t, c, l)
      BY <2>1, <3>1, <3>2 DEF Monitor!Signal
    <3>4. QED
      BY <3>3 DEF Monitor!Next
  <2>5. QED
    BY <2>3, <2>4
<1>9. ASSUME NEW t \in Threads, NEW l \in Locks, NEW c \in Conditions, Broadcast(t, c, l)
      PROVE  Monitor!Next
  <2>1. /\ ~ Monitor!Asleep(t) /\ holder[l] = t /\ value' = value /\ holder' = holder
        /\ \A d \in Conditions : waitQueue'[d] = IF d = c THEN <<>> ELSE waitQueue[d]
    BY <1>9, RunningAwake DEF Broadcast, Running, TypeOK
  <2>2. Range(<<>>) = {}
    BY DEF Range
  <2>3. [d \in Conditions |-> Range(waitQueue'[d])]
          = [[d \in Conditions |-> Range(waitQueue[d])] EXCEPT ![c] = {}]
    BY <2>1, <2>2
  <2>4. Monitor!Broadcast(t, c, l)
    BY <2>1, <2>3 DEF Monitor!Broadcast
  <2>5. QED
    BY <2>4 DEF Monitor!Next
<1>10. CASE UNCHANGED <<value, holder, waitQueue>>
  BY <1>10 DEF Monitor!vars
<1>11. QED
  BY <1>1, <1>2, <1>3, <1>4, <1>6, <1>7, <1>8, <1>9, <1>10
     DEF Next, Kernel, Call, vars, threadVars, synchVars, Idle, Dispatch, Yield, Fork,
         Finish, Request

(* The code of synch.cc does what synch.h says: with the scheduler and the *)
(* queues hidden, every step is a return from P, V, Acquire, Release, Wait,*)
(* Signal or Broadcast, or is invisible.                                   *)
THEOREM ImplementsMonitor == Spec => MonitorSpec
<1>1. Init => Monitor!Init
  <2>1. Range(<<>>) = {}
    BY DEF Range
  <2>2. QED
    BY <2>1, KernelAssumption DEF Init, Monitor!Init, Sems
<1>2. QED
  BY <1>1, RefinementStep, TypeCorrect, ThreadInvHolds, LockExclusionHolds, PTL
     DEF Spec, MonitorSpec, Monitor!Spec

=============================================================================
