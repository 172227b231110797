--------------------------- MODULE ProgramsProofs ---------------------------
(***************************************************************************)
(* Proofs about the programs that Programs runs, for every number of       *)
(* philosophers, every number of threads at a barrier, and every number of *)
(* threads around a synchronised list.  Each program is an instance over   *)
(* the kernel of NachosSync; what is proved of the kernel holds under it.  *)
(***************************************************************************)
EXTENDS Programs, NachosSyncProofs

-----------------------------------------------------------------------------
(* The operations of the kernel under Table, which are those of NachosSync. *)

LEMMA TableBasics ==
  /\ Table!vars = vars
  /\ (UNCHANGED Table!vars) <=> UNCHANGED vars
  /\ Table!Init <=> Init
  /\ Table!TypeOK <=> TypeOK
  /\ \A t : Table!Running(t) <=> Running(t)
  /\ \A t, seq : Table!Listed(t, seq) <=> Listed(t, seq)
  /\ \A st, w : Table!Ready(st, w) = Ready(st, w)
  /\ \A s : Table!VBody(s) <=> VBody(s)
  /\ \A t : Table!SwitchTo(t) <=> SwitchTo(t)
<1>1. Table!vars = vars
  BY DEF Table!vars, vars, Table!threadVars, threadVars, Table!synchVars, synchVars,
         Table!machVars, machVars
<1>9. (UNCHANGED Table!vars) <=> UNCHANGED vars
  BY DEF Table!vars, vars, Table!threadVars, threadVars, Table!synchVars, synchVars,
         Table!machVars, machVars
<1>2. Table!Init <=> Init
  BY DEF Table!Init, Init, Table!Sems, Sems
<1>3. Table!TypeOK <=> TypeOK
  BY DEF Table!TypeOK, TypeOK, Table!Sems, Sems
<1>4. \A t : Table!Running(t) <=> Running(t)
  BY DEF Table!Running, Running
<1>5. \A t, seq : Table!Listed(t, seq) <=> Listed(t, seq)
  BY DEF Table!Listed, Listed
<1>6. \A st, w : Table!Ready(st, w) = Ready(st, w)
  BY DEF Table!Ready, Ready, Table!Listed, Listed
<1>7. \A s : Table!VBody(s) <=> VBody(s)
  BY DEF Table!VBody, VBody, Table!Woken, Woken
<1>8. \A t : Table!SwitchTo(t) <=> SwitchTo(t)
  BY DEF Table!SwitchTo, SwitchTo
<1> QED
  BY <1>1, <1>2, <1>3, <1>4, <1>5, <1>6, <1>7, <1>8, <1>9

LEMMA TableOperations ==
  /\ Table!Dispatch <=> Dispatch
  /\ Table!Idle <=> Idle
  /\ \A t : Table!Resume(t) <=> Resume(t)
  /\ \A t : Table!Yield(t) <=> Yield(t)
  /\ \A t, new : Table!Fork(t, new) <=> Fork(t, new)
  /\ \A t : Table!Finish(t) <=> Finish(t)
  /\ \A t, s : Table!P(t, s) <=> P(t, s)
  /\ \A t, l : Table!Release(t, l) <=> Release(t, l)
  /\ \A t, c, l : Table!Wait(t, c, l) <=> Wait(t, c, l)
  /\ \A t, c, l : Table!Signal(t, c, l) <=> Signal(t, c, l)
  /\ \A t, c, l : Table!Broadcast(t, c, l) <=> Broadcast(t, c, l)
<1>1. Table!Dispatch <=> Dispatch
  BY TableBasics DEF Table!Dispatch, Dispatch, Table!Sleeping, Sleeping,
                     Table!synchVars, synchVars
<1>2. Table!Idle <=> Idle
  BY DEF Table!Idle, Idle, Table!Sleeping, Sleeping, Table!synchVars, synchVars,
         Table!threadVars, threadVars
<1>3. \A t : Table!Resume(t) <=> Resume(t)
  BY DEF Table!Resume, Resume, Table!TryP, TryP, Table!machVars, machVars
<1>4. \A t : Table!Yield(t) <=> Yield(t)
  BY TableBasics DEF Table!Yield, Yield, Table!machVars, machVars, Table!synchVars,
                     synchVars
<1>5. \A t, new : Table!Fork(t, new) <=> Fork(t, new)
  BY TableBasics DEF Table!Fork, Fork, Table!machVars, machVars, Table!synchVars,
                     synchVars
<1>6. \A t : Table!Finish(t) <=> Finish(t)
  BY TableBasics DEF Table!Finish, Finish, Table!machVars, machVars,
                     Table!synchVars, synchVars
<1>7. \A t, s : Table!P(t, s) <=> P(t, s)
  BY TableBasics DEF Table!P, P, Table!TryP, TryP, Table!machVars, machVars
<1>8. \A t, l : Table!Release(t, l) <=> Release(t, l)
  BY TableBasics DEF Table!Release, Release, Table!Woken, Woken, Table!machVars,
                     machVars
<1>9. \A t, c, l : Table!Wait(t, c, l) <=> Wait(t, c, l)
  BY TableBasics DEF Table!Wait, Wait, Table!Woken, Woken, Table!machVars, machVars
<1>10. \A t, c, l : Table!Signal(t, c, l) <=> Signal(t, c, l)
  BY TableBasics DEF Table!Signal, Signal, Table!machVars, machVars
<1>11. \A t, c, l : Table!Broadcast(t, c, l) <=> Broadcast(t, c, l)
  BY TableBasics DEF Table!Broadcast, Broadcast, Table!machVars, machVars
<1> QED
  BY <1>1, <1>2, <1>3, <1>4, <1>5, <1>6, <1>7, <1>8, <1>9, <1>10, <1>11

-----------------------------------------------------------------------------
(* The operations of the kernel under Gate, which are those of NachosSync. *)

LEMMA GateBasics ==
  /\ Gate!vars = vars
  /\ (UNCHANGED Gate!vars) <=> UNCHANGED vars
  /\ Gate!Init <=> Init
  /\ Gate!TypeOK <=> TypeOK
  /\ \A t : Gate!Running(t) <=> Running(t)
  /\ \A t, seq : Gate!Listed(t, seq) <=> Listed(t, seq)
  /\ \A st, w : Gate!Ready(st, w) = Ready(st, w)
  /\ \A s : Gate!VBody(s) <=> VBody(s)
  /\ \A t : Gate!SwitchTo(t) <=> SwitchTo(t)
<1>1. Gate!vars = vars
  BY DEF Gate!vars, vars, Gate!threadVars, threadVars, Gate!synchVars, synchVars,
         Gate!machVars, machVars
<1>9. (UNCHANGED Gate!vars) <=> UNCHANGED vars
  BY DEF Gate!vars, vars, Gate!threadVars, threadVars, Gate!synchVars, synchVars,
         Gate!machVars, machVars
<1>2. Gate!Init <=> Init
  BY DEF Gate!Init, Init, Gate!Sems, Sems
<1>3. Gate!TypeOK <=> TypeOK
  BY DEF Gate!TypeOK, TypeOK, Gate!Sems, Sems
<1>4. \A t : Gate!Running(t) <=> Running(t)
  BY DEF Gate!Running, Running
<1>5. \A t, seq : Gate!Listed(t, seq) <=> Listed(t, seq)
  BY DEF Gate!Listed, Listed
<1>6. \A st, w : Gate!Ready(st, w) = Ready(st, w)
  BY DEF Gate!Ready, Ready, Gate!Listed, Listed
<1>7. \A s : Gate!VBody(s) <=> VBody(s)
  BY DEF Gate!VBody, VBody, Gate!Woken, Woken
<1>8. \A t : Gate!SwitchTo(t) <=> SwitchTo(t)
  BY DEF Gate!SwitchTo, SwitchTo
<1> QED
  BY <1>1, <1>2, <1>3, <1>4, <1>5, <1>6, <1>7, <1>8, <1>9

LEMMA GateOperations ==
  /\ Gate!Dispatch <=> Dispatch
  /\ Gate!Idle <=> Idle
  /\ \A t : Gate!Resume(t) <=> Resume(t)
  /\ \A t : Gate!Yield(t) <=> Yield(t)
  /\ \A t, new : Gate!Fork(t, new) <=> Fork(t, new)
  /\ \A t : Gate!Finish(t) <=> Finish(t)
  /\ \A t, s : Gate!P(t, s) <=> P(t, s)
  /\ \A t, l : Gate!Release(t, l) <=> Release(t, l)
  /\ \A t, c, l : Gate!Wait(t, c, l) <=> Wait(t, c, l)
  /\ \A t, c, l : Gate!Signal(t, c, l) <=> Signal(t, c, l)
  /\ \A t, c, l : Gate!Broadcast(t, c, l) <=> Broadcast(t, c, l)
<1>1. Gate!Dispatch <=> Dispatch
  BY GateBasics DEF Gate!Dispatch, Dispatch, Gate!Sleeping, Sleeping,
                    Gate!synchVars, synchVars
<1>2. Gate!Idle <=> Idle
  BY DEF Gate!Idle, Idle, Gate!Sleeping, Sleeping, Gate!synchVars, synchVars,
         Gate!threadVars, threadVars
<1>3. \A t : Gate!Resume(t) <=> Resume(t)
  BY DEF Gate!Resume, Resume, Gate!TryP, TryP, Gate!machVars, machVars
<1>4. \A t : Gate!Yield(t) <=> Yield(t)
  BY GateBasics DEF Gate!Yield, Yield, Gate!machVars, machVars, Gate!synchVars,
                    synchVars
<1>5. \A t, new : Gate!Fork(t, new) <=> Fork(t, new)
  BY GateBasics DEF Gate!Fork, Fork, Gate!machVars, machVars, Gate!synchVars,
                    synchVars
<1>6. \A t : Gate!Finish(t) <=> Finish(t)
  BY GateBasics DEF Gate!Finish, Finish, Gate!machVars, machVars, Gate!synchVars,
                    synchVars
<1>7. \A t, s : Gate!P(t, s) <=> P(t, s)
  BY GateBasics DEF Gate!P, P, Gate!TryP, TryP, Gate!machVars, machVars
<1>8. \A t, l : Gate!Release(t, l) <=> Release(t, l)
  BY GateBasics DEF Gate!Release, Release, Gate!Woken, Woken, Gate!machVars,
                    machVars
<1>9. \A t, c, l : Gate!Wait(t, c, l) <=> Wait(t, c, l)
  BY GateBasics DEF Gate!Wait, Wait, Gate!Woken, Woken, Gate!machVars, machVars
<1>10. \A t, c, l : Gate!Signal(t, c, l) <=> Signal(t, c, l)
  BY GateBasics DEF Gate!Signal, Signal, Gate!machVars, machVars
<1>11. \A t, c, l : Gate!Broadcast(t, c, l) <=> Broadcast(t, c, l)
  BY GateBasics DEF Gate!Broadcast, Broadcast, Gate!machVars, machVars
<1> QED
  BY <1>1, <1>2, <1>3, <1>4, <1>5, <1>6, <1>7, <1>8, <1>9, <1>10, <1>11

-----------------------------------------------------------------------------
(* The operations of the kernel under Mailbox, which are those of NachosSync. *)

LEMMA MailboxBasics ==
  /\ Mailbox!vars = vars
  /\ (UNCHANGED Mailbox!vars) <=> UNCHANGED vars
  /\ Mailbox!Init <=> Init
  /\ Mailbox!TypeOK <=> TypeOK
  /\ \A t : Mailbox!Running(t) <=> Running(t)
  /\ \A t, seq : Mailbox!Listed(t, seq) <=> Listed(t, seq)
  /\ \A st, w : Mailbox!Ready(st, w) = Ready(st, w)
  /\ \A s : Mailbox!VBody(s) <=> VBody(s)
  /\ \A t : Mailbox!SwitchTo(t) <=> SwitchTo(t)
<1>1. Mailbox!vars = vars
  BY DEF Mailbox!vars, vars, Mailbox!threadVars, threadVars, Mailbox!synchVars,
         synchVars, Mailbox!machVars, machVars
<1>9. (UNCHANGED Mailbox!vars) <=> UNCHANGED vars
  BY DEF Mailbox!vars, vars, Mailbox!threadVars, threadVars, Mailbox!synchVars,
         synchVars, Mailbox!machVars, machVars
<1>2. Mailbox!Init <=> Init
  BY DEF Mailbox!Init, Init, Mailbox!Sems, Sems
<1>3. Mailbox!TypeOK <=> TypeOK
  BY DEF Mailbox!TypeOK, TypeOK, Mailbox!Sems, Sems
<1>4. \A t : Mailbox!Running(t) <=> Running(t)
  BY DEF Mailbox!Running, Running
<1>5. \A t, seq : Mailbox!Listed(t, seq) <=> Listed(t, seq)
  BY DEF Mailbox!Listed, Listed
<1>6. \A st, w : Mailbox!Ready(st, w) = Ready(st, w)
  BY DEF Mailbox!Ready, Ready, Mailbox!Listed, Listed
<1>7. \A s : Mailbox!VBody(s) <=> VBody(s)
  BY DEF Mailbox!VBody, VBody, Mailbox!Woken, Woken
<1>8. \A t : Mailbox!SwitchTo(t) <=> SwitchTo(t)
  BY DEF Mailbox!SwitchTo, SwitchTo
<1> QED
  BY <1>1, <1>2, <1>3, <1>4, <1>5, <1>6, <1>7, <1>8, <1>9

LEMMA MailboxOperations ==
  /\ Mailbox!Dispatch <=> Dispatch
  /\ Mailbox!Idle <=> Idle
  /\ \A t : Mailbox!Resume(t) <=> Resume(t)
  /\ \A t : Mailbox!Yield(t) <=> Yield(t)
  /\ \A t, new : Mailbox!Fork(t, new) <=> Fork(t, new)
  /\ \A t : Mailbox!Finish(t) <=> Finish(t)
  /\ \A t, s : Mailbox!P(t, s) <=> P(t, s)
  /\ \A t, l : Mailbox!Release(t, l) <=> Release(t, l)
  /\ \A t, c, l : Mailbox!Wait(t, c, l) <=> Wait(t, c, l)
  /\ \A t, c, l : Mailbox!Signal(t, c, l) <=> Signal(t, c, l)
  /\ \A t, c, l : Mailbox!Broadcast(t, c, l) <=> Broadcast(t, c, l)
<1>1. Mailbox!Dispatch <=> Dispatch
  BY MailboxBasics DEF Mailbox!Dispatch, Dispatch, Mailbox!Sleeping, Sleeping,
                       Mailbox!synchVars, synchVars
<1>2. Mailbox!Idle <=> Idle
  BY DEF Mailbox!Idle, Idle, Mailbox!Sleeping, Sleeping, Mailbox!synchVars,
         synchVars, Mailbox!threadVars, threadVars
<1>3. \A t : Mailbox!Resume(t) <=> Resume(t)
  BY DEF Mailbox!Resume, Resume, Mailbox!TryP, TryP, Mailbox!machVars, machVars
<1>4. \A t : Mailbox!Yield(t) <=> Yield(t)
  BY MailboxBasics DEF Mailbox!Yield, Yield, Mailbox!machVars, machVars,
                       Mailbox!synchVars, synchVars
<1>5. \A t, new : Mailbox!Fork(t, new) <=> Fork(t, new)
  BY MailboxBasics DEF Mailbox!Fork, Fork, Mailbox!machVars, machVars,
                       Mailbox!synchVars, synchVars
<1>6. \A t : Mailbox!Finish(t) <=> Finish(t)
  BY MailboxBasics DEF Mailbox!Finish, Finish, Mailbox!machVars, machVars,
                       Mailbox!synchVars, synchVars
<1>7. \A t, s : Mailbox!P(t, s) <=> P(t, s)
  BY MailboxBasics DEF Mailbox!P, P, Mailbox!TryP, TryP, Mailbox!machVars, machVars
<1>8. \A t, l : Mailbox!Release(t, l) <=> Release(t, l)
  BY MailboxBasics DEF Mailbox!Release, Release, Mailbox!Woken, Woken,
                       Mailbox!machVars, machVars
<1>9. \A t, c, l : Mailbox!Wait(t, c, l) <=> Wait(t, c, l)
  BY MailboxBasics DEF Mailbox!Wait, Wait, Mailbox!Woken, Woken, Mailbox!machVars,
                       machVars
<1>10. \A t, c, l : Mailbox!Signal(t, c, l) <=> Signal(t, c, l)
  BY MailboxBasics DEF Mailbox!Signal, Signal, Mailbox!machVars, machVars
<1>11. \A t, c, l : Mailbox!Broadcast(t, c, l) <=> Broadcast(t, c, l)
  BY MailboxBasics DEF Mailbox!Broadcast, Broadcast, Mailbox!machVars, machVars
<1> QED
  BY <1>1, <1>2, <1>3, <1>4, <1>5, <1>6, <1>7, <1>8, <1>9, <1>10, <1>11

-----------------------------------------------------------------------------
(* The dining philosophers.                                                *)

LEMMA TableFacts ==
  ASSUME Table!TableAssumption
  PROVE  /\ N \in Nat \ {0, 1} /\ Meals \in Nat \ {0}
         /\ Threads = Table!Philosophers \union {MainThread}
         /\ Table!Philosophers \subseteq Conditions /\ Locks = {lock} /\ lock \in Sems
         /\ \A i \in Table!Philosophers :
              /\ Table!Left(i) \in Table!Philosophers /\ Table!Right(i) \in Table!Philosophers
              /\ Table!Right(i) # i /\ Table!Left(i) # i
              /\ Table!Left(Table!Right(i)) = i
<1>1. /\ N \in Nat \ {0, 1} /\ Meals \in Nat \ {0}
      /\ Threads = Table!Philosophers \union {MainThread}
      /\ Table!Philosophers \subseteq Conditions /\ Locks = {lock} /\ lock \in Sems
  BY DEF Table!TableAssumption, Sems
<1>2. ASSUME NEW i \in 0..(N - 1)
      PROVE  /\ (i + N - 1) % N = IF i = 0 THEN N - 1 ELSE i - 1
             /\ (i + 1) % N = IF i = N - 1 THEN 0 ELSE i + 1
  BY <1>1, <1>2
<1>3. Table!Philosophers = 0..(N - 1)
  BY DEF Table!Philosophers
<1>4. ASSUME NEW i \in Table!Philosophers
      PROVE  /\ Table!Left(i) = IF i = 0 THEN N - 1 ELSE i - 1
             /\ Table!Right(i) = IF i = N - 1 THEN 0 ELSE i + 1
             /\ Table!Left(i) \in Table!Philosophers /\ Table!Right(i) \in Table!Philosophers
             /\ Table!Right(i) # i /\ Table!Left(i) # i
  <2>1. i \in 0..(N - 1) /\ N \in Nat /\ N > 1
    BY <1>1, <1>3, <1>4
  <2>2. /\ Table!Left(i) = IF i = 0 THEN N - 1 ELSE i - 1
        /\ Table!Right(i) = IF i = N - 1 THEN 0 ELSE i + 1
    BY <1>2, <2>1 DEF Table!Left, Table!Right
  <2>3. /\ Table!Left(i) \in 0..(N - 1) /\ Table!Right(i) \in 0..(N - 1)
        /\ Table!Right(i) # i /\ Table!Left(i) # i
    BY <2>1, <2>2
  <2> QED
    BY <1>3, <2>2, <2>3
<1>5. ASSUME NEW i \in Table!Philosophers PROVE Table!Left(Table!Right(i)) = i
  <2>1. i \in 0..(N - 1) /\ N \in Nat /\ N > 1
    BY <1>1, <1>3, <1>5
  <2>2. Table!Right(i) = IF i = N - 1 THEN 0 ELSE i + 1
    BY <1>4, <1>5
  <2>3. /\ Table!Right(i) \in Table!Philosophers
        /\ Table!Left(Table!Right(i)) =
             IF Table!Right(i) = 0 THEN N - 1 ELSE Table!Right(i) - 1
    BY <1>4, <1>5
  <2> QED
    BY <2>1, <2>2, <2>3
<1> QED
  BY <1>1, <1>4, <1>5

(* The states that DiningPh keeps never let two neighbours eat.            *)
EatApart(st) ==
  \A i \in Table!Philosophers : ~ (st[i] = "Eating" /\ st[Table!Right(i)] = "Eating")

(* A philosopher that dines is Eating, and one that sleeps in pickup stays *)
(* in the queue of its condition until it is made so.                      *)
Seated(i) ==
  /\ Table!Dines(i) => state[i] = "Eating"
  /\ pc[i] = "wait" => state[i] \in {"Hungry", "Eating"}
  /\ pc[i] = "taken" => state[i] = "Eating" \/ Listed(i, waitQueue[i])
  /\ pc[i] \notin {"end", "gone"} => meals[i] < Meals

DiningInv ==
  /\ Table!TableAssumption /\ Table!DiningTypeOK
  /\ EatApart(state)
  /\ \A i \in Table!Philosophers : Seated(i)

LEMMA DiningOnKernel ==
  Table!TableAssumption /\ [Table!DiningNext]_(Table!tableVars) => [Next]_vars
<1> SUFFICES ASSUME Table!TableAssumption, [Table!DiningNext]_(Table!tableVars)
             PROVE  [Next]_vars
  OBVIOUS
<1> USE TableFacts, TableBasics, TableOperations
<1>1. CASE Table!System
  BY <1>1 DEF Table!System, Next, Kernel
<1>2. CASE Table!ThreadTest
  <2>1. MainThread \in Threads /\ \A k \in Table!Philosophers : k \in Threads
    BY KernelAssumption
  <2> QED
    BY <1>2, <2>1 DEF Table!ThreadTest, Next, Call
<1>3. CASE Table!Preempt
  BY <1>3 DEF Table!Preempt, Next, Kernel
<1>4. ASSUME NEW i \in Table!Philosophers, Table!Philo(i) PROVE [Next]_vars
  <2>1. i \in Threads /\ i \in Conditions /\ lock \in Locks /\ lock \in Sems
    OBVIOUS
  <2>2. ASSUME NEW j \in Table!Philosophers, NEW st, Table!Test(i, j, st) PROVE [Next]_vars
    BY <2>1, <2>2 DEF Table!Test, Next, Call
  <2>3. ASSUME Table!Pickup(i) PROVE [Next]_vars
    BY <2>1, <2>2, <2>3 DEF Table!Pickup, Next, Call
  <2>4. ASSUME Table!Putdown(i) PROVE [Next]_vars
    BY <2>1, <2>2, <2>4 DEF Table!Putdown, Next, Call
  <2>5. ASSUME Table!YieldNow(i) PROVE [Next]_vars
    BY <2>1, <2>5 DEF Table!YieldNow, Next, Kernel
  <2>6. ASSUME Finish(i) PROVE [Next]_vars
    BY <2>1, <2>6 DEF Next, Call
  <2> QED
    BY <1>4, <2>3, <2>4, <2>5, <2>6 DEF Table!Philo
<1>5. CASE UNCHANGED Table!tableVars
  BY <1>5 DEF Table!tableVars
<1> QED
  BY <1>1, <1>2, <1>3, <1>4, <1>5 DEF Table!DiningNext, Table!Progress

(* Only Wait, Signal and Broadcast touch the queue of a condition.         *)
LEMMA QueuesKept ==
  /\ Dispatch => UNCHANGED waitQueue
  /\ Idle => UNCHANGED waitQueue
  /\ \A t : Resume(t) => UNCHANGED waitQueue
  /\ \A t : Yield(t) => UNCHANGED waitQueue
  /\ \A t, new : Fork(t, new) => UNCHANGED waitQueue
  /\ \A t : Finish(t) => UNCHANGED waitQueue
  /\ \A t, s : P(t, s) => UNCHANGED waitQueue
  /\ \A t, l : Release(t, l) => UNCHANGED waitQueue
BY DEF Dispatch, Idle, Resume, Yield, Fork, Finish, P, Release, synchVars

LEMMA RunningUnlisted ==
  ASSUME WaitInv, NEW t \in Threads, Running(t), NEW c \in Conditions
  PROVE  ~ Listed(t, waitQueue[c])
BY DEF WaitInv, Running

(* Wait puts its caller into the queue of the condition and no other one.  *)
LEMMA WaitListed ==
  ASSUME TypeOK, NEW t \in Threads, NEW c \in Conditions, NEW l, Wait(t, c, l)
  PROVE  /\ waitQueue' = [waitQueue EXCEPT ![c] = Append(waitQueue[c], t)]
         /\ \A x : Listed(x, waitQueue'[c]) <=> Listed(x, waitQueue[c]) \/ x = t
         /\ \A d \in Conditions : d # c => waitQueue'[d] = waitQueue[d]
<1>1. waitQueue' = [waitQueue EXCEPT ![c] = Append(waitQueue[c], t)]
  BY DEF Wait
<1>2. waitQueue[c] \in Seq(Threads)
  BY DEF TypeOK
<1>3. waitQueue'[c] = Append(waitQueue[c], t)
  BY <1>1 DEF TypeOK
<1>4. \A d \in Conditions : d # c => waitQueue'[d] = waitQueue[d]
  BY <1>1 DEF TypeOK
<1> QED
  BY <1>1, <1>2, <1>3, <1>4, ListedAppend

LEMMA SignalOthers ==
  ASSUME TypeOK, NEW t, NEW c \in Conditions, NEW l, Signal(t, c, l)
  PROVE  \A d \in Conditions : d # c => waitQueue'[d] = waitQueue[d]
BY DEF Signal, TypeOK

(* What a test does: it may make one philosopher eat, and only that one's  *)
(* queue changes.                                                          *)
LEMMA TestIs ==
  ASSUME Table!TableAssumption, TypeOK, NEW t, NEW j \in Table!Philosophers, NEW st,
         st \in [Table!Philosophers -> {"Thinking", "Hungry", "Eating"}],
         EatApart(st), Table!Test(t, j, st)
  PROVE  /\ state' \in [Table!Philosophers -> {"Thinking", "Hungry", "Eating"}]
         /\ EatApart(state') /\ Running(t)
         /\ \A k \in Table!Philosophers :
              \/ state'[k] = st[k] /\ waitQueue'[k] = waitQueue[k]
              \/ state'[k] = "Eating"
<1>1. CASE Table!MayEat(st, j) /\ state' = [st EXCEPT ![j] = "Eating"] /\ Signal(t, j, lock)
  <2>1. \A k \in Table!Philosophers : state'[k] = IF k = j THEN "Eating" ELSE st[k]
    BY <1>1
  <2>2. st[Table!Left(j)] # "Eating" /\ st[Table!Right(j)] # "Eating"
    BY <1>1 DEF Table!MayEat
  <2>3. EatApart(state')
    <3> SUFFICES ASSUME NEW i \in Table!Philosophers, state'[i] = "Eating",
                        state'[Table!Right(i)] = "Eating"
                 PROVE  FALSE
      BY DEF EatApart
    <3>1. /\ Table!Right(i) \in Table!Philosophers /\ Table!Right(i) # i
          /\ Table!Left(Table!Right(i)) = i
      BY TableFacts
    <3>2. CASE i = j
      BY <2>1, <2>2, <3>1, <3>2
    <3>3. CASE Table!Right(i) = j
      BY <2>1, <2>2, <3>1, <3>3
    <3>4. CASE i # j /\ Table!Right(i) # j
      BY <2>1, <3>1, <3>4 DEF EatApart
    <3> QED
      BY <3>2, <3>3, <3>4
  <2>4. \A k \in Table!Philosophers : k # j => waitQueue'[k] = waitQueue[k]
    <3>1. j \in Conditions /\ Table!Philosophers \subseteq Conditions
      BY TableFacts
    <3>2. \A d \in Conditions : d # j => waitQueue'[d] = waitQueue[d]
      BY <1>1, <3>1, SignalOthers
    <3> QED
      BY <3>1, <3>2
  <2>5. Running(t)
    BY <1>1 DEF Signal
  <2> QED
    BY <1>1, <2>1, <2>3, <2>4, <2>5
<1>2. CASE Running(t) /\ state' = st /\ UNCHANGED vars
  <2>1. waitQueue' = waitQueue
    BY <1>2 DEF vars, synchVars
  <2> QED
    BY <1>2, <2>1
<1> QED
  BY <1>1, <1>2, TableBasics, TableOperations DEF Table!Test

(* A step that leaves the table alone.                                     *)
LEMMA DiningIdle ==
  ASSUME DiningInv, TypeOK', UNCHANGED <<state, pc, meals, waitQueue>>
  PROVE  DiningInv'
<1>1. Table!TypeOK'
  BY TableBasics, PTL
<1> QED
  BY <1>1 DEF DiningInv, Table!DiningTypeOK, Table!TableAssumption, EatApart, Seated,
              Table!Dines

(* A philosopher goes on; the states and the queues stay as they are.      *)
LEMMA DiningGo ==
  ASSUME DiningInv, TypeOK', WaitInv, NEW i \in Table!Philosophers, Running(i),
         NEW from, NEW to, Table!Go(i, from, to),
         UNCHANGED <<state, meals, waitQueue>>,
         <<from, to>> \in {<<"first", "pickup">>, <<"pickup", "test">>, <<"wait", "eats">>,
                           <<"taken", "eats">>, <<"eats", "putdown">>,
                           <<"putdown", "left">>, <<"right", "put">>, <<"put", "thinks">>,
                           <<"end", "gone">>},
         from = "wait" => state[i] # "Hungry"
  PROVE  DiningInv'
<1> USE DEF DiningInv
<1>1. /\ from \in {"first", "pickup", "wait", "taken", "eats", "putdown", "right", "put", "end"}
      /\ to \in {"pickup", "test", "eats", "putdown", "left", "put", "thinks", "gone"}
      /\ to \in Table!Points /\ pc[i] = from
      /\ pc' = [pc EXCEPT ![i] = to]
  BY DEF Table!Go, Table!Points
<1>2. pc'[i] = to /\ \A k \in Table!Philosophers : k # i => pc'[k] = pc[k]
  BY <1>1 DEF Table!DiningTypeOK
<1>3. Table!DiningTypeOK'
  <2>1. Table!TypeOK'
    BY TableBasics, PTL
  <2>2. pc' \in [Table!Philosophers -> Table!Points]
    BY <1>1 DEF Table!DiningTypeOK
  <2> QED
    BY <2>1, <2>2 DEF Table!DiningTypeOK
<1>4. Table!TableAssumption' /\ EatApart(state')
  BY DEF Table!TableAssumption
<1>5. ~ Listed(i, waitQueue[i])
  BY RunningUnlisted, TableFacts
<1>6. Seated(i)'
  <2>1. Seated(i)
    OBVIOUS
  <2>2. to \in {"eats", "putdown", "left"} => state[i] = "Eating"
    BY <1>1, <1>5, <2>1 DEF Seated, Table!Dines
  <2>3. to # "gone" => meals[i] < Meals
    BY <1>1, <2>1 DEF Seated
  <2> QED
    BY <1>1, <1>2, <2>2, <2>3 DEF Seated, Table!Dines
<1>7. \A k \in Table!Philosophers : Seated(k)'
  BY <1>2, <1>6 DEF Seated, Table!Dines
<1> QED
  BY <1>3, <1>4, <1>7

(* The assignment and the test in pickup and putdown.                      *)
LEMMA DiningTest ==
  ASSUME DiningInv, TypeOK', NEW i \in Table!Philosophers,
         NEW j \in Table!Philosophers, NEW from, NEW to, NEW st,
         Table!Go(i, from, to), Table!Test(i, j, st), UNCHANGED meals,
         \/ /\ from = "test" /\ to = "wait" /\ j = i
            /\ st = [state EXCEPT ![i] = "Hungry"]
         \/ /\ from = "left" /\ to = "right" /\ st = [state EXCEPT ![i] = "Thinking"]
         \/ /\ from = "right" /\ to = "put" /\ st = state
  PROVE  DiningInv'
<1> USE DEF DiningInv
<1>1. /\ pc[i] = from /\ pc' = [pc EXCEPT ![i] = to] /\ to \in Table!Points
      /\ from \in {"test", "left", "right"} /\ to \in {"wait", "right", "put"}
  BY DEF Table!Go, Table!Points
<1>2. pc'[i] = to /\ \A k \in Table!Philosophers : k # i => pc'[k] = pc[k]
  BY <1>1 DEF Table!DiningTypeOK
<1>3. /\ state \in [Table!Philosophers -> {"Thinking", "Hungry", "Eating"}]
      /\ TypeOK
  BY TableBasics DEF Table!DiningTypeOK
<1>4. /\ st \in [Table!Philosophers -> {"Thinking", "Hungry", "Eating"}]
      /\ \A k \in Table!Philosophers : k # i => st[k] = state[k]
      /\ st[i] \in {"Hungry", "Thinking", state[i]}
      /\ to = "wait" => st[i] = "Hungry"
  BY <1>3
<1>5. EatApart(st)
  <2>1. \A k \in Table!Philosophers : st[k] = "Eating" => state[k] = "Eating"
    BY <1>4
  <2> QED
    BY <2>1, TableFacts DEF EatApart
<1>6. /\ state' \in [Table!Philosophers -> {"Thinking", "Hungry", "Eating"}]
      /\ EatApart(state')
      /\ \A k \in Table!Philosophers :
           \/ state'[k] = st[k] /\ waitQueue'[k] = waitQueue[k]
           \/ state'[k] = "Eating"
  BY <1>3, <1>4, <1>5, TestIs
<1>7. Table!DiningTypeOK' /\ Table!TableAssumption'
  <2>1. Table!TypeOK'
    BY TableBasics, PTL
  <2>2. pc' \in [Table!Philosophers -> Table!Points]
    BY <1>1 DEF Table!DiningTypeOK
  <2> QED
    BY <1>6, <2>1, <2>2 DEF Table!DiningTypeOK, Table!TableAssumption
<1>8. ASSUME NEW k \in Table!Philosophers PROVE Seated(k)'
  <2>1. Seated(k)
    OBVIOUS
  <2>2. CASE k = i
    BY <1>1, <1>2, <1>4, <1>6, <2>1, <2>2 DEF Seated, Table!Dines
  <2>3. CASE k # i
    <3>1. pc'[k] = pc[k] /\ st[k] = state[k] /\ meals'[k] = meals[k]
      BY <1>2, <1>4, <2>3
    <3> QED
      BY <1>6, <2>1, <3>1 DEF Seated, Table!Dines
  <2> QED
    BY <2>2, <2>3
<1> QED
  BY <1>6, <1>7, <1>8

(* The Wait of pickup.                                                     *)
LEMMA DiningWait ==
  ASSUME DiningInv, TypeOK', NEW i \in Table!Philosophers,
         Table!Go(i, "wait", "taken"), Wait(i, i, lock), UNCHANGED <<state, meals>>
  PROVE  DiningInv'
<1> USE DEF DiningInv
<1>1. /\ pc[i] = "wait" /\ pc' = [pc EXCEPT ![i] = "taken"] /\ "taken" \in Table!Points
  BY DEF Table!Go, Table!Points
<1>2. pc'[i] = "taken" /\ \A k \in Table!Philosophers : k # i => pc'[k] = pc[k]
  BY <1>1 DEF Table!DiningTypeOK
<1>3. TypeOK /\ i \in Threads /\ i \in Conditions
  BY TableBasics, TableFacts DEF Table!DiningTypeOK
<1>4. /\ Listed(i, waitQueue'[i])
      /\ \A k \in Table!Philosophers : k # i => waitQueue'[k] = waitQueue[k]
  BY <1>3, WaitListed, TableFacts
<1>5. Table!DiningTypeOK' /\ Table!TableAssumption' /\ EatApart(state')
  <2>1. Table!TypeOK'
    BY TableBasics, PTL
  <2>2. pc' \in [Table!Philosophers -> Table!Points]
    BY <1>1 DEF Table!DiningTypeOK
  <2> QED
    BY <2>1, <2>2 DEF Table!DiningTypeOK, Table!TableAssumption
<1>6. ASSUME NEW k \in Table!Philosophers PROVE Seated(k)'
  <2>1. CASE k = i
    BY <1>1, <1>2, <1>4, <2>1 DEF Seated, Table!Dines
  <2>2. CASE k # i
    BY <1>2, <1>4, <2>2 DEF Seated, Table!Dines
  <2> QED
    BY <2>1, <2>2
<1> QED
  BY <1>5, <1>6

(* The end of a turn of Philo's loop.                                      *)
LEMMA DiningTurn ==
  ASSUME DiningInv, TypeOK', NEW i \in Table!Philosophers,
         Table!Go(i, "thinks", IF meals[i] + 1 < Meals THEN "pickup" ELSE "end"),
         meals' = [meals EXCEPT ![i] = meals[i] + 1], UNCHANGED <<state, waitQueue>>
  PROVE  DiningInv'
<1> USE DEF DiningInv
<1>1. PICK to : /\ to = IF meals[i] + 1 < Meals THEN "pickup" ELSE "end"
                /\ pc' = [pc EXCEPT ![i] = to] /\ pc[i] = "thinks"
  BY DEF Table!Go
<1>2. to \in {"pickup", "end"} /\ to \in Table!Points
  BY <1>1 DEF Table!Points
<1>3. pc'[i] = to /\ \A k \in Table!Philosophers : k # i => pc'[k] = pc[k]
  BY <1>1 DEF Table!DiningTypeOK
<1>4. meals[i] \in 0..Meals /\ meals[i] < Meals /\ Meals \in Nat
  BY <1>1, TableFacts DEF Seated, Table!DiningTypeOK
<1>5. /\ meals'[i] = meals[i] + 1 /\ meals[i] + 1 \in 0..Meals
      /\ \A k \in Table!Philosophers : k # i => meals'[k] = meals[k]
  BY <1>4 DEF Table!DiningTypeOK
<1>6. Table!DiningTypeOK' /\ Table!TableAssumption' /\ EatApart(state')
  <2>1. Table!TypeOK'
    BY TableBasics, PTL
  <2>2. pc' \in [Table!Philosophers -> Table!Points]
    BY <1>1, <1>2 DEF Table!DiningTypeOK
  <2>3. meals' \in [Table!Philosophers -> 0..Meals]
    BY <1>5 DEF Table!DiningTypeOK
  <2> QED
    BY <2>1, <2>2, <2>3 DEF Table!DiningTypeOK, Table!TableAssumption
<1>7. ASSUME NEW k \in Table!Philosophers PROVE Seated(k)'
  <2>1. CASE k = i
    BY <1>1, <1>2, <1>3, <1>5, <2>1 DEF Seated, Table!Dines
  <2>2. CASE k # i
    BY <1>3, <1>5, <2>2 DEF Seated, Table!Dines
  <2> QED
    BY <2>1, <2>2
<1> QED
  BY <1>6, <1>7

(* YieldNow of the program, in terms of the kernel.                        *)
YieldNowHere(t) == Yield(t) \/ (Running(t) /\ UNCHANGED vars)

LEMMA DiningStep ==
  DiningInv /\ ThreadInv /\ [Table!DiningNext]_(Table!tableVars) => DiningInv'
<1> SUFFICES ASSUME DiningInv, ThreadInv, [Table!DiningNext]_(Table!tableVars)
             PROVE  DiningInv'
  OBVIOUS
<1>1. TypeOK' /\ WaitInv
  <2>1. TypeOK
    BY TableBasics DEF DiningInv, Table!DiningTypeOK
  <2> QED
    BY <2>1, DiningOnKernel, TypeStep DEF DiningInv, ThreadInv, OnePlace
<1>2. CASE Table!System \/ Table!Preempt \/ Table!ThreadTest
  <2>1. UNCHANGED <<state, pc, meals, waitQueue>>
    BY <1>2, QueuesKept, TableOperations DEF Table!System, Table!Preempt, Table!ThreadTest
  <2> QED
    BY <1>1, <2>1, DiningIdle
<1>3. ASSUME NEW t, YieldNowHere(t) PROVE Running(t) /\ UNCHANGED waitQueue
  <2>1. CASE Yield(t)
    BY <2>1, QueuesKept DEF Yield
  <2>2. CASE Running(t) /\ UNCHANGED vars
    BY <2>2 DEF vars, synchVars
  <2> QED
    BY <1>3, <2>1, <2>2 DEF YieldNowHere
<1>4. ASSUME NEW i \in Table!Philosophers, Table!Philo(i) PROVE DiningInv'
  <2>1. ASSUME P(i, lock) PROVE Running(i) /\ UNCHANGED waitQueue
    BY <2>1, QueuesKept DEF P
  <2>2. ASSUME Release(i, lock) PROVE Running(i) /\ UNCHANGED waitQueue
    BY <2>2, QueuesKept DEF Release
  <2>3. ASSUME Finish(i) PROVE Running(i) /\ UNCHANGED waitQueue
    BY <2>3, QueuesKept DEF Finish
  <2>4. ASSUME Table!YieldNow(i) PROVE Running(i) /\ UNCHANGED waitQueue
    BY <1>3, <2>4, TableOperations, TableBasics DEF Table!YieldNow, YieldNowHere
  <2>5. i \in Threads /\ Table!Left(i) \in Table!Philosophers
        /\ Table!Right(i) \in Table!Philosophers
    BY TableFacts DEF DiningInv
  <2>6. ASSUME Table!Pickup(i) PROVE DiningInv'
    <3>1. CASE Table!Go(i, "pickup", "test") /\ P(i, lock) /\ UNCHANGED <<state, meals>>
      BY <1>1, <2>1, <3>1, DiningGo
    <3>2. CASE /\ Table!Go(i, "test", "wait")
               /\ Table!Test(i, i, [state EXCEPT ![i] = "Hungry"]) /\ UNCHANGED meals
      BY <1>1, <3>2, DiningTest
    <3>3. CASE Table!Go(i, "wait", "taken") /\ Wait(i, i, lock) /\ UNCHANGED <<state, meals>>
      BY <1>1, <3>3, DiningWait
    <3>4. CASE /\ state[i] # "Hungry" /\ Table!Go(i, "wait", "eats")
               /\ Release(i, lock) /\ UNCHANGED <<state, meals>>
      BY <1>1, <2>2, <3>4, DiningGo
    <3>5. CASE /\ Table!Go(i, "taken", "eats")
               /\ Release(i, lock) /\ UNCHANGED <<state, meals>>
      BY <1>1, <2>2, <3>5, DiningGo
    <3> QED
      BY <2>6, <3>1, <3>2, <3>3, <3>4, <3>5, TableOperations DEF Table!Pickup
  <2>7. ASSUME Table!Putdown(i) PROVE DiningInv'
    <3>1. CASE Table!Go(i, "putdown", "left") /\ P(i, lock) /\ UNCHANGED <<state, meals>>
      BY <1>1, <2>1, <3>1, DiningGo
    <3>2. CASE /\ Table!Go(i, "left", "right")
               /\ Table!Test(i, Table!Left(i), [state EXCEPT ![i] = "Thinking"])
               /\ UNCHANGED meals
      BY <1>1, <2>5, <3>2, DiningTest
    <3>3. CASE /\ Table!Go(i, "right", "put")
               /\ Table!Test(i, Table!Right(i), state) /\ UNCHANGED meals
      BY <1>1, <2>5, <3>3, DiningTest
    <3>4. CASE Table!Go(i, "put", "thinks") /\ Release(i, lock) /\ UNCHANGED <<state, meals>>
      BY <1>1, <2>2, <3>4, DiningGo
    <3> QED
      BY <2>7, <3>1, <3>2, <3>3, <3>4, TableOperations DEF Table!Putdown
  <2>8. CASE /\ Table!Go(i, "first", "pickup") /\ Table!YieldNow(i)
             /\ UNCHANGED <<state, meals>>
    BY <1>1, <2>4, <2>8, DiningGo
  <2>9. CASE /\ Table!Go(i, "eats", "putdown") /\ Table!YieldNow(i)
             /\ UNCHANGED <<state, meals>>
    BY <1>1, <2>4, <2>9, DiningGo
  <2>10. CASE /\ Table!Go(i, "thinks", IF meals[i] + 1 < Meals THEN "pickup" ELSE "end")
              /\ meals' = [meals EXCEPT ![i] = meals[i] + 1]
              /\ Table!YieldNow(i) /\ UNCHANGED state
    BY <1>1, <2>4, <2>10, DiningTurn
  <2>11. CASE Table!Go(i, "end", "gone") /\ Finish(i) /\ UNCHANGED <<state, meals>>
    BY <1>1, <2>3, <2>11, DiningGo
  <2> QED
    BY <1>4, <2>6, <2>7, <2>8, <2>9, <2>10, <2>11, TableOperations DEF Table!Philo
<1>5. CASE UNCHANGED Table!tableVars
  <2>1. UNCHANGED vars /\ UNCHANGED <<state, pc, meals>>
    BY <1>5, TableBasics DEF Table!tableVars
  <2>2. UNCHANGED waitQueue
    BY <2>1 DEF vars, synchVars
  <2> QED
    BY <1>1, <2>1, <2>2, DiningIdle
<1> QED
  BY <1>2, <1>4, <1>5 DEF Table!DiningNext, Table!Progress

LEMMA DiningInitInv ==
  Table!TableAssumption /\ Table!DiningInit => DiningInv /\ ThreadInv
<1> SUFFICES ASSUME Table!TableAssumption, Table!DiningInit PROVE DiningInv /\ ThreadInv
  OBVIOUS
<1>1. Init
  BY TableBasics DEF Table!DiningInit
<1>2. ThreadInv /\ TypeOK
  <2>1. TypeOK
    BY <1>1, EmptySeq, KernelAssumption DEF Init, TypeOK, Sems
  <2> QED
    BY <1>1, <2>1, ThreadInvInit
<1>3. /\ state = [i \in Table!Philosophers |-> "Thinking"]
      /\ pc = [i \in Table!Philosophers |-> "first"]
      /\ meals = [i \in Table!Philosophers |-> 0]
  BY DEF Table!DiningInit
<1>4. Table!DiningTypeOK
  BY <1>2, <1>3, TableBasics, TableFacts DEF Table!DiningTypeOK, Table!Points
<1>5. EatApart(state) /\ \A i \in Table!Philosophers : Seated(i)
  BY <1>3, TableFacts DEF EatApart, Seated, Table!Dines
<1> QED
  BY <1>2, <1>4, <1>5 DEF DiningInv

(* Two neighbours never dine together, however many philosophers there are *)
(* and however the one that was signalled, the newcomers to the lock and   *)
(* the time slicer are interleaved (diningph.cc:42-77).                    *)
THEOREM NeighboursApartHolds == ProgramsSpec => []NeighboursApart
<1> DEFINE Inv == program = "dining" => DiningInv /\ ThreadInv
<1>1. Inv => NeighboursApart
  BY TableFacts DEF DiningInv, Seated, EatApart, Table!NeighboursApart, NeighboursApart
<1>2. ProgramsInit => Inv
  BY DiningInitInv, ProgramsAssumption DEF ProgramsInit
<1>3. Inv /\ [Progress \/ Preempt]_allVars => Inv'
  <2> SUFFICES ASSUME Inv, [Progress \/ Preempt]_allVars, program' = "dining"
               PROVE  DiningInv' /\ ThreadInv'
    OBVIOUS
  <2>1. program = "dining" /\ [Table!DiningNext]_(Table!tableVars)
    BY TableBasics
       DEF Progress, Preempt, allVars, tableState, Table!DiningNext, Table!tableVars
  <2>2. TypeOK /\ Table!TableAssumption /\ DiningInv /\ ThreadInv
    BY <2>1, TableBasics DEF DiningInv, Table!DiningTypeOK
  <2> QED
    BY <2>1, <2>2, DiningStep, DiningOnKernel, ThreadInvStep
<1> QED
  BY <1>1, <1>2, <1>3, PTL DEF ProgramsSpec

-----------------------------------------------------------------------------
(* The barrier.                                                            *)

(* A barrier for all the threads.                                          *)
GateAssumption == Gate!BarrierAssumption /\ threshold = Cardinality(Threads)

(* Where a thread is in round r: those left behind, L, are one before it.  *)
Base(t, r, L) == IF t \in L THEN r - 1 ELSE r

Through(r, L) == {t \in Threads : arrived[t] = Base(t, r, L) + 1}

(* Everybody but those left behind has called Wait r or r + 1 times, and   *)
(* those one ahead are asleep in the queue.                                *)
InRound(r, L) ==
  \A t \in Threads :
    \/ arrived[t] = Base(t, r, L)
    \/ arrived[t] = Base(t, r, L) + 1 /\ pc[t] = "leave" /\ Listed(t, waitQueue[cv])

(* Until the barrier first opens the count has what the heap held as well. *)
Counted(r, L) ==
  \/ r = 0 /\ L = {} /\ count <= Cardinality(Through(r, L)) + Gate!NeverCame
  \/ Cardinality(L) <= Gate!NeverCame /\ count <= Cardinality(Through(r, L))

GateInv ==
  /\ GateAssumption /\ Gate!BarrierTypeOK
  /\ \A t \in Threads : pc[t] = "in" => arrived[t] < Rounds
  /\ \E r \in Nat, L \in SUBSET Threads : InRound(r, L) /\ Counted(r, L)

LEMMA GateFacts ==
  ASSUME GateAssumption
  PROVE  /\ lock \in Locks /\ lock \in Sems /\ cv \in Conditions
         /\ Rounds \in Nat \ {0} /\ threshold \in Nat \ {0}
         /\ threshold = Cardinality(Threads) /\ IsFiniteSet(Threads)
         /\ InitialCounts \subseteq Int
BY KernelAssumption DEF GateAssumption, Gate!BarrierAssumption, Sems

(* The size of a set under Gate.                                           *)
LEMMA GateCardinality == \A S : Gate!Cardinality(S) = Cardinality(S)
BY Zenon DEF Gate!Cardinality, Cardinality

LEMMA GateOnKernel ==
  GateAssumption /\ [Gate!Progress \/ Gate!Preempt]_(Gate!barrierVars) => [Next]_vars
<1> SUFFICES ASSUME GateAssumption, [Gate!Progress \/ Gate!Preempt]_(Gate!barrierVars)
             PROVE  [Next]_vars
  OBVIOUS
<1> USE GateFacts, GateBasics, GateOperations
<1>1. CASE Gate!System
  BY <1>1 DEF Gate!System, Next, Kernel
<1>2. CASE Gate!Preempt
  BY <1>2 DEF Gate!Preempt, Next, Kernel
<1>3. ASSUME NEW t \in Threads, Gate!User(t) PROVE [Next]_vars
  <2>1. ASSUME NEW new \in Threads, Fork(t, new) PROVE [Next]_vars
    BY <2>1 DEF Next, Call
  <2>2. ASSUME Gate!Count(t) PROVE [Next]_vars
    BY <2>2 DEF Gate!Count, Next, Call
  <2>3. ASSUME Gate!BarrierWait(t) PROVE [Next]_vars
    BY <2>2, <2>3 DEF Gate!BarrierWait, Next, Call
  <2>4. ASSUME Finish(t) PROVE [Next]_vars
    BY <2>4 DEF Next, Call
  <2> QED
    BY <1>3, <2>1, <2>3, <2>4 DEF Gate!User
<1>4. CASE UNCHANGED Gate!barrierVars
  BY <1>4 DEF Gate!barrierVars
<1> QED
  BY <1>1, <1>2, <1>3, <1>4 DEF Gate!Progress

(* A step that leaves the counts and the queue alone, made by a thread     *)
(* that is not in the queue or by the kernel.                              *)
LEMMA GateGo ==
  ASSUME GateInv, TypeOK', UNCHANGED <<count, firstCount, arrived, waitQueue>>,
         \/ UNCHANGED pc
         \/ \E t \in Threads :
              /\ ~ Listed(t, waitQueue[cv])
              /\ \/ Gate!Go(t, "out", "in") /\ arrived[t] < Rounds
                 \/ Gate!Go(t, "leave", "out") \/ Gate!Go(t, "out", "gone")
  PROVE  GateInv'
<1>1. Gate!TypeOK' /\ GateAssumption'
  <2>1. Gate!TypeOK'
    BY GateBasics, PTL
  <2> QED
    BY <2>1 DEF GateInv, GateAssumption, Gate!BarrierAssumption
<1>2. CASE UNCHANGED pc
  BY <1>1, <1>2 DEF GateInv, Gate!BarrierTypeOK, InRound, Counted, Through, Gate!NeverCame
<1>3. ASSUME NEW t \in Threads, ~ Listed(t, waitQueue[cv]),
             \/ Gate!Go(t, "out", "in") /\ arrived[t] < Rounds
             \/ Gate!Go(t, "leave", "out") \/ Gate!Go(t, "out", "gone")
      PROVE  GateInv'
  <2>1. /\ pc' \in [Threads -> {"out", "in", "leave", "gone"}]
        /\ \A x \in Threads : x # t => pc'[x] = pc[x]
        /\ pc'[t] = "in" => arrived[t] < Rounds
    BY <1>3 DEF Gate!Go, GateInv, Gate!BarrierTypeOK
  <2>2. Gate!BarrierTypeOK'
    BY <1>1, <2>1 DEF GateInv, Gate!BarrierTypeOK
  <2>3. ASSUME NEW r \in Nat, NEW L \in SUBSET Threads, InRound(r, L), Counted(r, L)
        PROVE  InRound(r, L)' /\ Counted(r, L)'
    <3>1. arrived[t] = Base(t, r, L)
      BY <1>3, <2>3 DEF InRound
    <3>2. InRound(r, L)'
      BY <2>1, <2>3, <3>1 DEF InRound, Base
    <3>3. Counted(r, L)'
      BY <2>3 DEF Counted, Through, Base, Gate!NeverCame
    <3> QED
      BY <3>2, <3>3
  <2> QED
    BY <1>1, <2>1, <2>2, <2>3 DEF GateInv
<1> QED
  BY <1>2, <1>3

(* The barrier counts a thread in, and it sleeps or wakes the others.      *)
LEMMA GateCount ==
  ASSUME GateInv, TypeOK', NEW t \in Threads, ~ Listed(t, waitQueue[cv]),
         Gate!Count(t), UNCHANGED firstCount
  PROVE  GateInv'
<1> USE GateFacts DEF GateInv
<1>1. /\ pc[t] = "in" /\ pc' = [pc EXCEPT ![t] = "leave"]
      /\ arrived' = [arrived EXCEPT ![t] = arrived[t] + 1]
  BY DEF Gate!Count, Gate!Go
<1>2. arrived \in [Threads -> 0..Rounds] /\ arrived[t] < Rounds /\ TypeOK
  BY <1>1, GateBasics DEF Gate!BarrierTypeOK
<1>3. /\ arrived' \in [Threads -> 0..Rounds] /\ arrived'[t] = arrived[t] + 1
      /\ \A x \in Threads : x # t => arrived'[x] = arrived[x]
  BY <1>1, <1>2
<1>4. /\ pc' \in [Threads -> {"out", "in", "leave", "gone"}] /\ pc'[t] = "leave"
      /\ \A x \in Threads : x # t => pc'[x] = pc[x]
  BY <1>1 DEF Gate!BarrierTypeOK
<1>5. Gate!TypeOK' /\ GateAssumption'
  <2>1. Gate!TypeOK'
    BY GateBasics, PTL
  <2> QED
    BY <2>1 DEF GateAssumption, Gate!BarrierAssumption
<1>6. \A x \in Threads : pc'[x] = "in" => arrived'[x] < Rounds
  BY <1>3, <1>4
<1>7. PICK r \in Nat, L \in SUBSET Threads : InRound(r, L) /\ Counted(r, L)
  OBVIOUS
<1> DEFINE T == Through(r, L)
<1>8. arrived[t] = Base(t, r, L) /\ t \notin T
  BY <1>7 DEF InRound, Through, Base
<1>9. T \in SUBSET (Threads \ {t}) /\ IsFiniteSet(T) /\ Cardinality(T) \in Nat
  <2>1. T \in SUBSET (Threads \ {t})
    BY <1>8 DEF Through
  <2>2. IsFiniteSet(T)
    BY <2>1, FS_Subset
  <2> QED
    BY <2>1, <2>2, FS_CardinalityType
<1>10. count \in Int /\ Gate!NeverCame \in Nat /\ Gate!NeverCame' = Gate!NeverCame
  BY DEF Gate!BarrierTypeOK, Gate!NeverCame
<1>11. CASE count + 1 < threshold /\ count' = count + 1 /\ Wait(t, cv, lock)
  <2>1. \A x : Listed(x, waitQueue'[cv]) <=> Listed(x, waitQueue[cv]) \/ x = t
    BY <1>2, <1>11, WaitListed
  <2>2. T' = T \union {t}
    BY <1>3, <1>8 DEF Through, Base
  <2>3. Cardinality(T') = Cardinality(T) + 1
    BY <1>8, <1>9, <2>2, FS_AddElement
  <2>4. ASSUME NEW x \in Threads
        PROVE  \/ arrived'[x] = Base(x, r, L)
               \/ /\ arrived'[x] = Base(x, r, L) + 1
                  /\ pc'[x] = "leave" /\ Listed(x, waitQueue'[cv])
    BY <1>3, <1>4, <1>7, <1>8, <2>1 DEF InRound
  <2>5. InRound(r, L)'
    BY <2>4 DEF InRound, Base
  <2> HIDE DEF T
  <2>6. Counted(r, L)'
    BY <1>7, <1>9, <1>10, <1>11, <2>3 DEF Counted, T
  <2>7. Gate!BarrierTypeOK'
    BY <1>3, <1>4, <1>5, <1>10, <1>11 DEF Gate!BarrierTypeOK
  <2> QED
    BY <1>5, <1>6, <2>5, <2>6, <2>7
<1>12. CASE count + 1 >= threshold /\ count' = 0
  <2> DEFINE rest == (Threads \ {t}) \ T
  <2>1. /\ IsFiniteSet(Threads \ {t})
        /\ Cardinality(Threads \ {t}) = threshold - 1
    BY FS_RemoveElement
  <2>2. /\ IsFiniteSet(rest) /\ Cardinality(rest) \in Nat
        /\ Cardinality(rest) = threshold - 1 - Cardinality(T)
    <3>1. (Threads \ {t}) \intersect T = T
      BY <1>9
    <3>2. /\ IsFiniteSet(rest)
          /\ Cardinality(rest) =
               Cardinality(Threads \ {t}) - Cardinality((Threads \ {t}) \intersect T)
      BY <2>1, FS_Difference, Zenon
    <3>3. Cardinality(rest) \in Nat
      BY <3>2, FS_CardinalityType
    <3> HIDE DEF rest, T
    <3> QED
      BY <2>1, <3>1, <3>2, <3>3
  <2> HIDE DEF T
  <2>10. PICK K \in SUBSET Threads : K = IF r = 0 /\ L = {} THEN rest ELSE L
    OBVIOUS
  <2>3. Cardinality(K) <= Gate!NeverCame /\ r + 1 \in Nat
    <3>1. CASE r = 0 /\ L = {} /\ count <= Cardinality(T) + Gate!NeverCame
      BY <1>9, <1>10, <1>12, <2>2, <2>10, <3>1
    <3>2. CASE /\ ~ (r = 0 /\ L = {})
               /\ Cardinality(L) <= Gate!NeverCame
      BY <2>10, <3>2
    <3>3. CASE r = 0 /\ L = {} /\ count <= Cardinality(T)
      BY <1>9, <1>10, <1>12, <2>2, <2>10, <3>3
    <3> QED
      BY <1>7, <3>1, <3>2, <3>3 DEF Counted, T
  <2>4. ~ (r = 0 /\ L = {}) => rest = {}
    <3> SUFFICES ASSUME ~ (r = 0 /\ L = {}) PROVE rest = {}
      OBVIOUS
    <3>1. count <= Cardinality(T)
      BY <1>7 DEF Counted, T
    <3>2. Cardinality(rest) = 0
      BY <1>9, <1>10, <1>12, <2>2, <3>1
    <3> HIDE DEF rest
    <3> QED
      BY <2>2, <3>2, FS_EmptySet
  <2>5. \A x \in Threads : arrived'[x] = Base(x, r + 1, K)
    <3> SUFFICES ASSUME NEW x \in Threads PROVE arrived'[x] = Base(x, r + 1, K)
      OBVIOUS
    <3>1. CASE r = 0 /\ L = {}
      <4>1. arrived[t] = 0 /\ \A y \in Threads : arrived[y] = IF y \in T THEN 1 ELSE 0
        BY <1>7, <1>8, <3>1 DEF InRound, Base, T, Through
      <4>2. x \in K <=> x # t /\ x \notin T
        BY <2>10, <3>1
      <4> QED
        BY <1>3, <1>8, <3>1, <4>1, <4>2 DEF Base
    <3>2. CASE ~ (r = 0 /\ L = {})
      <4>1. K = L /\ (x = t \/ x \in T)
        BY <2>4, <2>10, <3>2
      <4>2. arrived'[x] = Base(x, r, L) + 1
        BY <1>3, <1>8, <4>1 DEF T, Through
      <4> QED
        BY <4>1, <4>2 DEF Base
    <3> QED
      BY <3>1, <3>2
  <2>6. InRound(r + 1, K)'
    BY <2>5 DEF InRound, Base
  <2>7. Through(r + 1, K)' = {}
    <3>1. \A x \in Threads : Base(x, r + 1, K) \in Int
      BY DEF Base
    <3> QED
      BY <2>5, <3>1 DEF Through, Base
  <2>8. Counted(r + 1, K)'
    BY <1>10, <1>12, <2>3, <2>7, FS_EmptySet DEF Counted
  <2>9. Gate!BarrierTypeOK'
    BY <1>3, <1>4, <1>5, <1>12 DEF Gate!BarrierTypeOK
  <2> QED
    BY <1>5, <1>6, <2>3, <2>10, <2>6, <2>8, <2>9
<1> QED
  BY <1>11, <1>12, GateOperations DEF Gate!Count

LEMMA GateStep ==
  GateInv /\ ThreadInv /\ [Gate!Progress \/ Gate!Preempt]_(Gate!barrierVars) => GateInv'
<1> SUFFICES ASSUME GateInv, ThreadInv, [Gate!Progress \/ Gate!Preempt]_(Gate!barrierVars)
             PROVE  GateInv'
  OBVIOUS
<1>1. TypeOK' /\ WaitInv /\ cv \in Conditions
  <2>1. TypeOK
    BY GateBasics DEF GateInv, Gate!BarrierTypeOK
  <2> QED
    BY <2>1, GateOnKernel, TypeStep, GateFacts DEF GateInv, ThreadInv, OnePlace
<1>2. CASE (Gate!System /\ UNCHANGED firstCount) \/ Gate!Preempt
  <2>1. UNCHANGED <<count, firstCount, pc, arrived, waitQueue>>
    BY <1>2, QueuesKept, GateOperations DEF Gate!System, Gate!Preempt
  <2> QED
    BY <1>1, <2>1, GateGo
<1>3. ASSUME NEW t \in Threads, Gate!User(t), UNCHANGED firstCount PROVE GateInv'
  <2>1. ASSUME Running(t) PROVE ~ Listed(t, waitQueue[cv])
    BY <1>1, <2>1, RunningUnlisted
  <2>2. CASE (\E new \in Threads : Fork(t, new)) /\ UNCHANGED <<count, pc, arrived>>
    <3>1. UNCHANGED waitQueue
      BY <2>2, QueuesKept
    <3> QED
      BY <1>1, <1>3, <2>2, <3>1, GateGo
  <2>3. CASE /\ Gate!Go(t, "out", "in") /\ arrived[t] < Rounds
             /\ P(t, lock) /\ UNCHANGED <<count, arrived>>
    <3>1. UNCHANGED waitQueue /\ Running(t)
      BY <2>3, QueuesKept DEF P
    <3> QED
      BY <1>1, <1>3, <2>1, <2>3, <3>1, GateGo
  <2>4. CASE Gate!Count(t)
    <3>1. Running(t)
      BY <2>4, GateOperations DEF Gate!Count, Wait, Broadcast
    <3> QED
      BY <1>1, <1>3, <2>1, <2>4, <3>1, GateCount
  <2>5. CASE Gate!Go(t, "leave", "out") /\ Release(t, lock) /\ UNCHANGED <<count, arrived>>
    <3>1. UNCHANGED waitQueue /\ Running(t)
      BY <2>5, QueuesKept DEF Release
    <3> QED
      BY <1>1, <1>3, <2>1, <2>5, <3>1, GateGo
  <2>6. CASE Gate!Go(t, "out", "gone") /\ Finish(t) /\ UNCHANGED <<count, arrived>>
    <3>1. UNCHANGED waitQueue /\ Running(t)
      BY <2>6, QueuesKept DEF Finish
    <3> QED
      BY <1>1, <1>3, <2>1, <2>6, <3>1, GateGo
  <2> QED
    BY <1>3, <2>2, <2>3, <2>4, <2>5, <2>6, GateOperations DEF Gate!User, Gate!BarrierWait
<1>4. CASE UNCHANGED Gate!barrierVars
  <2>1. UNCHANGED vars /\ UNCHANGED <<count, firstCount, pc, arrived>>
    BY <1>4, GateBasics DEF Gate!barrierVars
  <2>2. UNCHANGED waitQueue
    BY <2>1 DEF vars, synchVars
  <2> QED
    BY <1>1, <2>1, <2>2, GateGo
<1> QED
  BY <1>2, <1>3, <1>4 DEF Gate!Progress

LEMMA GateInitInv ==
  GateAssumption /\ Gate!BarrierInit => GateInv /\ ThreadInv
<1> SUFFICES ASSUME GateAssumption, Gate!BarrierInit PROVE GateInv /\ ThreadInv
  OBVIOUS
<1> USE GateFacts
<1>1. Init
  BY GateBasics DEF Gate!BarrierInit
<1>2. ThreadInv /\ TypeOK
  <2>1. TypeOK
    BY <1>1, EmptySeq, KernelAssumption DEF Init, TypeOK, Sems
  <2> QED
    BY <1>1, <2>1, ThreadInvInit
<1>3. /\ pc = [t \in Threads |-> "out"] /\ arrived = [t \in Threads |-> 0]
      /\ count \in InitialCounts /\ count \in Int /\ firstCount = count
  BY DEF Gate!BarrierInit
<1>4. Gate!BarrierTypeOK
  BY <1>2, <1>3, GateBasics DEF Gate!BarrierTypeOK
<1>5. Through(0, {}) = {}
  BY <1>3 DEF Through, Base
<1>6. InRound(0, {})
  BY <1>3 DEF InRound, Base
<1>7. Counted(0, {})
  BY <1>3, <1>5, FS_EmptySet DEF Counted, Gate!NeverCame
<1> QED
  BY <1>2, <1>3, <1>4, <1>6, <1>7 DEF GateInv

(* Whatever the heap held for the count, at a barrier for all the threads  *)
(* nobody is through a Wait that more others have yet to call than that,   *)
(* and from 0 or less nobody at all, in any round and under preemption     *)
(* (synch.cc:241-274).                                                     *)
THEOREM BarrierHoldsForAll == ProgramsSpec => []BarrierHolds
<1> DEFINE Inv == program = "barrier" => GateInv /\ ThreadInv
<1>1. Inv => BarrierHolds
  <2> SUFFICES ASSUME GateInv, NEW t \in Threads
               PROVE  Cardinality(Gate!Behind(t)) <= Gate!NeverCame
    BY GateCardinality DEF BarrierHolds, Gate!BarrierHolds
  <2>1. PICK r \in Nat, L \in SUBSET Threads : InRound(r, L) /\ Counted(r, L)
    BY DEF GateInv
  <2>2. arrived \in [Threads -> 0..Rounds] /\ Rounds \in Nat
    BY GateFacts DEF GateInv, Gate!BarrierTypeOK
  <2>3. Gate!Passed(t) \in Int /\ Gate!Passed(t) <= r
    BY <2>1, <2>2 DEF InRound, Gate!Passed, Base
  <2>4. \A u \in Threads : u \notin L => arrived[u] \in Int /\ arrived[u] >= r
    BY <2>1, <2>2 DEF InRound, Base
  <2>5. Gate!Behind(t) \in SUBSET L
    BY <2>2, <2>3, <2>4 DEF Gate!Behind
  <2>6. Gate!NeverCame \in Nat /\ Cardinality(L) <= Gate!NeverCame
    <3>1. Gate!NeverCame \in Nat
      BY GateFacts DEF GateInv, Gate!BarrierTypeOK, Gate!NeverCame
    <3> QED
      BY <2>1, <3>1, FS_EmptySet DEF Counted
  <2>7. IsFiniteSet(L) /\ Cardinality(L) \in Nat
    BY GateFacts, FS_Subset, FS_CardinalityType DEF GateInv
  <2>8. Cardinality(Gate!Behind(t)) \in Nat /\ Cardinality(Gate!Behind(t)) <= Cardinality(L)
    BY <2>5, <2>7, FS_Subset, FS_CardinalityType
  <2> QED
    BY <2>6, <2>7, <2>8
<1>2. ProgramsInit => Inv
  BY GateInitInv, ProgramsAssumption DEF ProgramsInit, GateAssumption, threshold
<1>3. Inv /\ [Progress \/ Preempt]_allVars => Inv'
  <2> SUFFICES ASSUME Inv, [Progress \/ Preempt]_allVars, program' = "barrier"
               PROVE  GateInv' /\ ThreadInv'
    OBVIOUS
  <2>1. program = "barrier" /\ [Gate!Progress \/ Gate!Preempt]_(Gate!barrierVars)
    BY GateBasics DEF Progress, Preempt, allVars, barrierState, Gate!barrierVars
  <2>2. TypeOK /\ GateAssumption /\ GateInv /\ ThreadInv
    BY <2>1, GateBasics DEF GateInv, Gate!BarrierTypeOK
  <2> QED
    BY <2>1, <2>2, GateStep, GateOnKernel, ThreadInvStep
<1> QED
  BY <1>1, <1>2, <1>3, PTL DEF ProgramsSpec

-----------------------------------------------------------------------------
(* The synchronised list.                                                  *)

MailNext == Mailbox!Progress \/ Mailbox!Preempt

LEMMA MailFacts ==
  ASSUME Mailbox!ListAssumption
  PROVE  /\ Threads = Producers \union Consumers /\ Producers \intersect Consumers = {}
         /\ MainThread \in Producers /\ MaxItems \in Nat \ {0}
         /\ Sems = {lock} /\ Locks = {lock} /\ cv \in Conditions
         /\ IsFiniteSet(Threads) /\ NULL \notin Threads /\ NULL # lock
BY KernelAssumption DEF Mailbox!ListAssumption, Sems

(* What the steps of the program do to the list and to the lock.           *)
MailRest == UNCHANGED <<on, holder, waitQueue, list, pc, appended, removed>>
MailResume(t) == Resume(t) /\ UNCHANGED <<list, pc, appended, removed>>
MailEnter(t, to) ==
  Mailbox!Go(t, "out", to) /\ P(t, lock) /\ UNCHANGED <<list, appended, removed>>
MailAppend(t) ==
  /\ Mailbox!Go(t, "append", "unlock")
  /\ appended' = [appended EXCEPT ![t] = appended[t] + 1]
  /\ list' = Append(list, <<t, appended'[t]>>)
  /\ Signal(t, cv, lock) /\ UNCHANGED removed
MailLeave(t) ==
  Mailbox!Go(t, "unlock", "out") /\ Release(t, lock) /\ UNCHANGED <<list, appended, removed>>
MailFinish(t) ==
  Mailbox!Go(t, "out", "gone") /\ Finish(t) /\ UNCHANGED <<list, appended, removed>>
MailWait(t) ==
  /\ list = <<>> /\ Mailbox!Go(t, "loop", "loop")
  /\ Wait(t, cv, lock) /\ UNCHANGED <<list, appended, removed>>
MailRemove(t) ==
  /\ list # <<>> /\ Mailbox!Go(t, "loop", "out")
  /\ removed' = [removed EXCEPT ![t] = Append(removed[t], Head(list))]
  /\ list' = Tail(list)
  /\ Release(t, lock) /\ UNCHANGED appended

MailProducer(t) ==
  \/ MailEnter(t, "append") /\ appended[t] < MaxItems
  \/ MailAppend(t) \/ MailLeave(t) \/ MailFinish(t)
MailConsumer(t) == MailEnter(t, "loop") \/ MailWait(t) \/ MailRemove(t)

MailCase ==
  \/ MailRest
  \/ \E t \in Threads : MailResume(t)
  \/ \E t \in Producers : MailProducer(t)
  \/ \E t \in Consumers : MailConsumer(t)

LEMMA MailCases ==
  Mailbox!ListAssumption /\ [MailNext]_(Mailbox!synchListVars) => MailCase
<1> SUFFICES ASSUME Mailbox!ListAssumption, [MailNext]_(Mailbox!synchListVars)
             PROVE  MailCase
  OBVIOUS
<1> USE MailFacts, MailboxBasics, MailboxOperations
<1>1. CASE Mailbox!System
  BY <1>1 DEF Mailbox!System, Mailbox!listVars, MailCase, MailRest, MailResume,
              Dispatch, Idle, synchVars
<1>2. CASE Mailbox!Preempt
  BY <1>2 DEF Mailbox!Preempt, Mailbox!listVars, MailCase, MailRest, Yield, synchVars
<1>3. CASE Mailbox!ForkOthers
  BY <1>3 DEF Mailbox!ForkOthers, Mailbox!listVars, MailCase, MailRest, Fork, synchVars
<1>4. ASSUME NEW t \in Producers, Mailbox!Produce(t) PROVE MailProducer(t)
  BY <1>4 DEF Mailbox!Produce, Mailbox!ListAppend, MailProducer, MailEnter, MailAppend,
              MailLeave, MailFinish
<1>5. ASSUME NEW t \in Consumers, Mailbox!ListRemove(t) PROVE MailConsumer(t)
  <2>1. list # <<>> => Mailbox!First = Head(list) /\ Mailbox!Rest = Tail(list)
    BY DEF Mailbox!First, Mailbox!Rest
  <2> QED
    BY <1>5, <2>1 DEF Mailbox!ListRemove, MailConsumer, MailEnter, MailWait, MailRemove
<1>6. CASE UNCHANGED Mailbox!synchListVars
  <2>1. UNCHANGED vars /\ UNCHANGED <<list, pc, appended, removed>>
    BY <1>6 DEF Mailbox!synchListVars, Mailbox!listVars
  <2> QED
    BY <2>1 DEF vars, synchVars, MailCase, MailRest
<1> QED
  BY <1>1, <1>2, <1>3, <1>4, <1>5, <1>6 DEF MailNext, Mailbox!Progress, MailCase

LEMMA MailOnKernel ==
  Mailbox!ListAssumption /\ [MailNext]_(Mailbox!synchListVars) => [Next]_vars
<1> SUFFICES ASSUME Mailbox!ListAssumption, [MailNext]_(Mailbox!synchListVars)
             PROVE  [Next]_vars
  OBVIOUS
<1> USE MailFacts, MailboxBasics, MailboxOperations
<1>1. CASE Mailbox!System
  BY <1>1 DEF Mailbox!System, Next, Kernel
<1>2. CASE Mailbox!Preempt
  BY <1>2 DEF Mailbox!Preempt, Next, Kernel
<1>3. CASE Mailbox!ForkOthers
  BY <1>3 DEF Mailbox!ForkOthers, Next, Call
<1>4. ASSUME NEW t \in Producers, Mailbox!Produce(t) PROVE [Next]_vars
  <2>1. t \in Threads /\ lock \in Sems /\ lock \in Locks /\ cv \in Conditions
    OBVIOUS
  <2>2. P(t, lock) \/ Signal(t, cv, lock) \/ Release(t, lock) \/ Finish(t)
    BY <1>4 DEF Mailbox!Produce, Mailbox!ListAppend
  <2>3. Call(t)
    BY <2>1, <2>2 DEF Call
  <2> QED
    BY <2>1, <2>3 DEF Next
<1>5. ASSUME NEW t \in Consumers, Mailbox!ListRemove(t) PROVE [Next]_vars
  BY <1>5 DEF Mailbox!ListRemove, Next, Call
<1>6. CASE UNCHANGED Mailbox!synchListVars
  BY <1>6 DEF Mailbox!synchListVars
<1> QED
  BY <1>1, <1>2, <1>3, <1>4, <1>5, <1>6 DEF MailNext, Mailbox!Progress

(* A producer that is about to append has something to append.             *)
MailTyped ==
  /\ Mailbox!ListAssumption /\ Mailbox!ListTypeOK
  /\ \A t \in Producers : pc[t] = "append" => appended[t] < MaxItems

LEMMA MailTypes ==
  ASSUME MailTyped
  PROVE  /\ TypeOK /\ list \in Seq(Mailbox!Items)
         /\ pc \in [Threads -> {"out", "append", "loop", "unlock", "gone"}]
         /\ appended \in [Producers -> 0..MaxItems]
         /\ removed \in [Consumers -> Seq(Mailbox!Items)]
BY MailboxBasics DEF MailTyped, Mailbox!ListTypeOK

LEMMA MailTypedStep ==
  MailTyped /\ TypeOK' /\ MailCase => MailTyped'
<1> SUFFICES ASSUME MailTyped, TypeOK', MailCase PROVE MailTyped'
  OBVIOUS
<1>1. Mailbox!ListAssumption' /\ Mailbox!TypeOK'
  <2>1. Mailbox!TypeOK'
    BY MailboxBasics, PTL
  <2> QED
    BY <2>1 DEF MailTyped, Mailbox!ListAssumption
<1> USE MailFacts, MailTypes DEF MailTyped
<1>2. ASSUME UNCHANGED <<list, appended, removed>>,
             \/ UNCHANGED pc
             \/ \E t \in Threads : \E from, to \in {"out", "append", "loop", "unlock", "gone"} :
                  /\ Mailbox!Go(t, from, to)
                  /\ to = "append" /\ t \in Producers => appended[t] < MaxItems
      PROVE  MailTyped'
  <2>1. CASE UNCHANGED pc
    BY <1>1, <1>2, <2>1 DEF Mailbox!ListTypeOK
  <2>2. ASSUME NEW t \in Threads, NEW to \in {"out", "append", "loop", "unlock", "gone"},
               pc' = [pc EXCEPT ![t] = to],
               to = "append" /\ t \in Producers => appended[t] < MaxItems
        PROVE  MailTyped'
    <3>1. /\ pc' \in [Threads -> {"out", "append", "loop", "unlock", "gone"}]
          /\ \A x \in Threads : pc'[x] = IF x = t THEN to ELSE pc[x]
      BY <2>2
    <3> QED
      BY <1>1, <1>2, <2>2, <3>1 DEF Mailbox!ListTypeOK
  <2> QED
    BY <1>2, <2>1, <2>2 DEF Mailbox!Go
<1>3. CASE MailRest
  BY <1>2, <1>3 DEF MailRest
<1>4. ASSUME NEW t \in Threads, MailResume(t) PROVE MailTyped'
  BY <1>2, <1>4 DEF MailResume
<1>5. ASSUME NEW t \in Producers, MailProducer(t) PROVE MailTyped'
  <2>1. CASE MailAppend(t)
    <3>1. /\ pc[t] = "append" /\ pc' = [pc EXCEPT ![t] = "unlock"]
          /\ appended[t] < MaxItems
      BY <2>1 DEF MailAppend, Mailbox!Go
    <3>2. /\ appended' \in [Producers -> 0..MaxItems] /\ appended'[t] \in 1..MaxItems
          /\ \A x \in Producers : x # t => appended'[x] = appended[x]
      BY <2>1, <3>1 DEF MailAppend
    <3>3. <<t, appended'[t]>> \in Mailbox!Items
      BY <3>2 DEF Mailbox!Items
    <3>4. list' \in Seq(Mailbox!Items)
      BY <2>1, <3>3 DEF MailAppend
    <3>5. /\ pc' \in [Threads -> {"out", "append", "loop", "unlock", "gone"}]
          /\ \A x \in Threads : pc'[x] = IF x = t THEN "unlock" ELSE pc[x]
      BY <3>1
    <3>6. removed' = removed
      BY <2>1 DEF MailAppend
    <3> QED
      BY <1>1, <3>2, <3>4, <3>5, <3>6 DEF Mailbox!ListTypeOK
  <2>2. CASE MailEnter(t, "append") /\ appended[t] < MaxItems
    BY <1>2, <2>2 DEF MailEnter
  <2>3. CASE MailLeave(t) \/ MailFinish(t)
    BY <1>2, <2>3 DEF MailLeave, MailFinish
  <2> QED
    BY <1>5, <2>1, <2>2, <2>3 DEF MailProducer
<1>6. ASSUME NEW t \in Consumers, MailConsumer(t) PROVE MailTyped'
  <2>1. CASE MailEnter(t, "loop")
    BY <1>2, <2>1 DEF MailEnter
  <2>2. CASE MailWait(t)
    BY <1>2, <2>2 DEF MailWait
  <2>3. CASE MailRemove(t)
    <3>1. Head(list) \in Mailbox!Items /\ list' \in Seq(Mailbox!Items)
      BY <2>3, HeadTailProperties DEF MailRemove
    <3>2. removed' \in [Consumers -> Seq(Mailbox!Items)]
      BY <2>3, <3>1 DEF MailRemove
    <3>3. /\ pc' \in [Threads -> {"out", "append", "loop", "unlock", "gone"}]
          /\ \A x \in Threads : pc'[x] = IF x = t THEN "out" ELSE pc[x]
      BY <2>3 DEF MailRemove, Mailbox!Go
    <3>4. appended' = appended
      BY <2>3 DEF MailRemove
    <3> QED
      BY <1>1, <3>1, <3>2, <3>3, <3>4 DEF Mailbox!ListTypeOK
  <2> QED
    BY <1>6, <2>1, <2>2, <2>3 DEF MailConsumer
<1> QED
  BY <1>3, <1>4, <1>5, <1>6 DEF MailCase

(* A turn of the P loop on the lock: the thread takes it or goes to wait.  *)
LEMMA LockTurn ==
  ASSUME TypeOK, LockExclusion, lock \in Locks, NEW t \in Threads, TryP(t, lock)
  PROVE  \/ /\ on' = [on EXCEPT ![t] = lock] /\ holder' = holder
         \/ /\ on' = [on EXCEPT ![t] = NULL]
            /\ holder[lock] = NULL /\ holder'[lock] = t
<1>1. CASE value[lock] = 0
  BY <1>1 DEF TryP
<1>2. CASE value[lock] > 0
  <2>1. holder[lock] = NULL
    BY <1>2 DEF LockExclusion
  <2> QED
    BY <1>2, <2>1 DEF TryP
<1> QED
  BY <1>1, <1>2 DEF TryP

(* Consumers awake in Remove, and the one that is inside it.               *)
OnTheirWay ==
  {t \in Consumers : on[t] = lock /\ pc[t] = "loop" /\ ~ Listed(t, waitQueue[cv])}
Inside == IF holder[lock] \in Consumers THEN 1 ELSE 0

(* Only consumers in Remove sleep, and there is one awake for every item.  *)
Served ==
  /\ \A t \in Threads : Listed(t, waitQueue[cv]) => t \in Consumers /\ pc[t] = "loop"
  /\ waitQueue[cv] # <<>> => Len(list) <= Cardinality(OnTheirWay) + Inside

LEMMA OnTheirWayFinite ==
  ASSUME Mailbox!ListAssumption
  PROVE  IsFiniteSet(OnTheirWay) /\ Cardinality(OnTheirWay) \in Nat
<1>1. OnTheirWay \in SUBSET Threads
  BY MailFacts DEF OnTheirWay
<1>2. IsFiniteSet(OnTheirWay)
  BY <1>1, MailFacts, FS_Subset
<1> QED
  BY <1>2, FS_CardinalityType

(* The list and the queue are left alone: a thread takes or leaves the     *)
(* lock, or goes to wait for it.                                           *)
LEMMA ServedLock ==
  ASSUME MailTyped, WaitInv, LockExclusion, Served, NEW t \in Threads, TryP(t, lock),
         ~ Listed(t, waitQueue[cv]), UNCHANGED <<list, waitQueue>>,
         \/ UNCHANGED pc
         \/ /\ on[t] = NULL
            /\ Mailbox!Go(t, "out", "append") \/ Mailbox!Go(t, "out", "loop")
  PROVE  Served'
<1> USE MailFacts, MailTypes DEF MailTyped
<1>1. \A x \in Threads : x # t => pc'[x] = pc[x]
  BY DEF Mailbox!Go
<1>2. IsFiniteSet(OnTheirWay) /\ Cardinality(OnTheirWay) \in Nat
  BY OnTheirWayFinite
<1>3. \/ /\ on' = [on EXCEPT ![t] = lock] /\ holder' = holder
      \/ /\ on' = [on EXCEPT ![t] = NULL]
         /\ holder[lock] = NULL /\ holder'[lock] = t
  BY LockTurn
<1>4. \A x \in Threads : x # t => on'[x] = on[x]
  BY <1>3 DEF TypeOK
<1>5. Len(list) \in Nat
  OBVIOUS
<1>6. ASSUME on' = [on EXCEPT ![t] = lock], holder' = holder,
             waitQueue[cv] # <<>>
      PROVE  Len(list) <= Cardinality(OnTheirWay') + Inside'
  <2>1. on'[t] = lock
    BY <1>6 DEF TypeOK
  <2>2. CASE t \in Consumers /\ pc'[t] = "loop"
    <3>1. OnTheirWay' = OnTheirWay \union {t}
      <4>1. t \in OnTheirWay'
        BY <2>1, <2>2 DEF OnTheirWay
      <4>2. \A x \in Consumers : x # t => (x \in OnTheirWay' <=> x \in OnTheirWay)
        BY <1>1, <1>4 DEF OnTheirWay
      <4> QED
        BY <4>1, <4>2 DEF OnTheirWay
    <3>2. Cardinality(OnTheirWay \union {t}) = IF t \in OnTheirWay
                                               THEN Cardinality(OnTheirWay)
                                               ELSE Cardinality(OnTheirWay) + 1
      BY <1>2, FS_AddElement
    <3>3. Inside' = Inside /\ Inside \in {0, 1}
      BY <1>6 DEF Inside
    <3> QED
      BY <1>2, <1>5, <1>6, <3>1, <3>2, <3>3 DEF Served
  <2>3. CASE ~ (t \in Consumers /\ pc'[t] = "loop")
    <3>1. ~ (t \in Consumers /\ pc[t] = "loop")
      BY <2>3 DEF Mailbox!Go
    <3>2. OnTheirWay' = OnTheirWay
      BY <1>1, <1>4, <2>3, <3>1 DEF OnTheirWay
    <3> QED
      BY <1>6, <3>2 DEF Served, Inside
  <2> QED
    BY <2>2, <2>3
<1>7. ASSUME on' = [on EXCEPT ![t] = NULL], holder[lock] = NULL, holder'[lock] = t,
             waitQueue[cv] # <<>>
      PROVE  Len(list) <= Cardinality(OnTheirWay') + Inside'
  <2>1. OnTheirWay' = OnTheirWay \ {t}
    <3>1. on'[t] # lock
      BY <1>7 DEF TypeOK
    <3>2. \A x \in Consumers : x # t => (x \in OnTheirWay' <=> x \in OnTheirWay)
      BY <1>1, <1>4 DEF OnTheirWay
    <3> QED
      BY <3>1, <3>2 DEF OnTheirWay
  <2>2. Cardinality(OnTheirWay \ {t}) = IF t \in OnTheirWay
                                        THEN Cardinality(OnTheirWay) - 1
                                        ELSE Cardinality(OnTheirWay)
    BY <1>2, FS_RemoveElement
  <2>3. Inside = 0 /\ Inside' = IF t \in Consumers THEN 1 ELSE 0
    BY <1>7 DEF Inside
  <2>4. t \in OnTheirWay => t \in Consumers
    BY DEF OnTheirWay
  <2>5. Len(list) <= Cardinality(OnTheirWay) + Inside
    BY <1>7 DEF Served
  <2> QED
    BY <1>2, <1>5, <2>1, <2>2, <2>3, <2>4, <2>5
<1>8. \A x \in Threads : Listed(x, waitQueue'[cv]) => x \in Consumers /\ pc'[x] = "loop"
  <2>1. waitQueue'[cv] = waitQueue[cv]
    OBVIOUS
  <2> QED
    BY <1>1, <2>1 DEF Served
<1> QED
  BY <1>3, <1>6, <1>7, <1>8 DEF Served

(* Signal wakes the consumer at the head of the queue, for the new item.   *)
LEMMA ServedAppend ==
  ASSUME MailTyped, ThreadInv, LockExclusion, Served, NEW t \in Producers, MailAppend(t)
  PROVE  Served'
<1> USE MailFacts, MailTypes DEF MailTyped
<1> DEFINE q == waitQueue[cv]
<1>1. /\ pc' = [pc EXCEPT ![t] = "unlock"] /\ on' = on /\ holder' = holder
      /\ list' = Append(list, <<t, appended'[t]>>) /\ holder[lock] = t /\ pc[t] = "append"
      /\ waitQueue' = [waitQueue EXCEPT ![cv] = IF q = <<>> THEN <<>> ELSE Tail(q)]
  BY DEF MailAppend, Mailbox!Go, Signal
<1>2. t \in Threads /\ t \notin Consumers /\ \A x \in Threads : x # t => pc'[x] = pc[x]
  BY <1>1
<1>3. q \in Seq(Threads) /\ IsInjective(q)
  BY DEF TypeOK, ThreadInv, OnePlace, WaitInv
<1>4. waitQueue'[cv] = IF q = <<>> THEN <<>> ELSE Tail(q)
  BY <1>1 DEF TypeOK
<1>5. \A x \in Threads : Listed(x, waitQueue'[cv]) => Listed(x, q)
  BY <1>3, <1>4, ListedTail
<1>6. \A x \in Threads : Listed(x, waitQueue'[cv]) => x \in Consumers /\ pc'[x] = "loop"
  BY <1>1, <1>2, <1>5 DEF Served
<1>7. ASSUME waitQueue'[cv] # <<>>
      PROVE  Len(list') <= Cardinality(OnTheirWay') + Inside'
  <2> DEFINE head == Head(q)
  <2>1. q # <<>> /\ waitQueue'[cv] = Tail(q)
    BY <1>4, <1>7
  <2>2. /\ Listed(head, q) /\ ~ Listed(head, Tail(q)) /\ head \in Threads
        /\ \A x : Listed(x, q) => x = head \/ Listed(x, Tail(q))
    BY <1>3, <2>1, ListedTail, HeadTailProperties
  <2>3. on[head] = lock /\ head \in Consumers /\ pc[head] = "loop"
    <3>1. on[head] \in Locks
      BY <2>2 DEF ThreadInv, OnePlace, WaitInv
    <3> QED
      BY <2>2, <3>1 DEF Served
  <2> HIDE DEF head
  <2>4. OnTheirWay' = OnTheirWay \union {head} /\ head \notin OnTheirWay
    <3>1. head \notin OnTheirWay
      BY <2>2 DEF OnTheirWay
    <3>2. head \in OnTheirWay'
      BY <1>1, <1>2, <2>1, <2>2, <2>3 DEF OnTheirWay
    <3>3. \A x \in Consumers : x # head => (x \in OnTheirWay' <=> x \in OnTheirWay)
      BY <1>1, <1>2, <1>5, <2>1, <2>2 DEF OnTheirWay
    <3> QED
      BY <3>1, <3>2, <3>3 DEF OnTheirWay
  <2>5. IsFiniteSet(OnTheirWay) /\ Cardinality(OnTheirWay) \in Nat
    BY OnTheirWayFinite
  <2>6. Cardinality(OnTheirWay \union {head}) = Cardinality(OnTheirWay) + 1
    BY <2>4, <2>5, FS_AddElement
  <2>7. Len(list) <= Cardinality(OnTheirWay) + Inside /\ Inside = 0 /\ Inside' = 0
    BY <1>1, <1>2, <2>1 DEF Served, Inside
  <2>8. Len(list') = Len(list) + 1 /\ Len(list) \in Nat
    BY <1>1
  <2> QED
    BY <2>4, <2>5, <2>6, <2>7, <2>8
<1> QED
  BY <1>6, <1>7 DEF Served

(* The lock is released, after a producer's append or a consumer's Remove. *)
LEMMA ServedRelease ==
  ASSUME MailTyped, Served, NEW t \in Threads, holder[lock] = t, on[t] = NULL,
         holder' = [holder EXCEPT ![lock] = NULL], UNCHANGED <<on, waitQueue>>,
         ~ Listed(t, waitQueue[cv]), NEW from, NEW to, Mailbox!Go(t, from, to),
         \/ t \in Producers /\ list' = list
         \/ t \in Consumers /\ list # <<>> /\ list' = Tail(list)
  PROVE  Served'
<1> USE MailFacts, MailTypes DEF MailTyped
<1>1. \A x \in Threads : x # t => pc'[x] = pc[x]
  BY DEF Mailbox!Go
<1>2. \A x \in Threads : Listed(x, waitQueue'[cv]) => x \in Consumers /\ pc'[x] = "loop"
  BY <1>1 DEF Served
<1>3. OnTheirWay' = OnTheirWay
  <2>1. on[t] # lock
    OBVIOUS
  <2> QED
    BY <1>1, <2>1 DEF OnTheirWay
<1>4. Inside' = 0 /\ Inside = IF t \in Producers THEN 0 ELSE 1
  BY DEF Inside, TypeOK
<1>5. /\ Len(list) \in Nat
      /\ t \in Producers => Len(list') = Len(list)
      /\ t \in Consumers => Len(list') = Len(list) - 1
  BY HeadTailProperties
<1>6. Cardinality(OnTheirWay) \in Nat
  BY OnTheirWayFinite
<1> QED
  BY <1>2, <1>3, <1>4, <1>5, <1>6 DEF Served

LEMMA ServedStep ==
  MailTyped /\ ThreadInv /\ LockExclusion /\ Served /\ MailCase => Served'
<1> SUFFICES ASSUME MailTyped, ThreadInv, LockExclusion, Served, MailCase PROVE Served'
  OBVIOUS
<1> USE MailFacts, MailTypes
<1>1. Mailbox!ListAssumption /\ WaitInv
  BY DEF MailTyped, ThreadInv, OnePlace
<1>2. ASSUME NEW t \in Threads, status[t] = "RUNNING" PROVE ~ Listed(t, waitQueue[cv])
  BY <1>1, <1>2 DEF WaitInv
<1>3. CASE MailRest
  BY <1>3 DEF MailRest, Served, OnTheirWay, Inside
<1>4. ASSUME NEW t \in Threads, MailResume(t) PROVE Served'
  <2>1. /\ status[t] = "RUNNING" /\ on[t] # NULL /\ TryP(t, on[t])
        /\ UNCHANGED <<waitQueue, list, pc>>
    BY <1>4 DEF MailResume, Resume
  <2>2. on[t] = lock
    BY <1>1, <2>1 DEF TypeOK
  <2> QED
    BY <1>1, <1>2, <2>1, <2>2, ServedLock
<1>5. ASSUME NEW t \in Threads, NEW to \in {"append", "loop"}, MailEnter(t, to) PROVE Served'
  <2>1. /\ status[t] = "RUNNING" /\ on[t] = NULL /\ TryP(t, lock)
        /\ UNCHANGED <<waitQueue, list>> /\ Mailbox!Go(t, "out", to)
    BY <1>5 DEF MailEnter, P, Running
  <2> QED
    BY <1>1, <1>2, <2>1, ServedLock
<1>6. ASSUME NEW t \in Producers, MailProducer(t) PROVE Served'
  <2>1. CASE MailAppend(t)
    BY <2>1, ServedAppend
  <2>2. CASE MailLeave(t)
    <3>1. /\ status[t] = "RUNNING" /\ on[t] = NULL /\ holder[lock] = t
          /\ holder' = [holder EXCEPT ![lock] = NULL] /\ UNCHANGED <<on, waitQueue>>
          /\ Mailbox!Go(t, "unlock", "out") /\ list' = list
      BY <2>2 DEF MailLeave, Release, Running
    <3> QED
      BY <1>1, <1>2, <3>1, ServedRelease
  <2>3. CASE MailFinish(t)
    <3>1. /\ UNCHANGED <<on, holder, waitQueue, list>> /\ pc[t] = "out"
          /\ pc' = [pc EXCEPT ![t] = "gone"]
      BY <2>3 DEF MailFinish, Finish, synchVars, Mailbox!Go
    <3>2. t \notin Consumers /\ \A x \in Threads : x # t => pc'[x] = pc[x]
      BY <1>1, <3>1
    <3>3. OnTheirWay' = OnTheirWay
      BY <1>1, <3>1, <3>2 DEF OnTheirWay
    <3> QED
      BY <1>1, <3>1, <3>2, <3>3 DEF Served, Inside
  <2> QED
    BY <1>1, <1>5, <1>6, <2>1, <2>2, <2>3 DEF MailProducer
<1>7. ASSUME NEW t \in Consumers, MailConsumer(t) PROVE Served'
  <2>1. CASE MailWait(t)
    <3>1. Wait(t, cv, lock) /\ list' = <<>> /\ pc' = pc /\ pc[t] = "loop"
      BY <1>1, <2>1 DEF MailWait, Mailbox!Go
    <3>2. \A x : Listed(x, waitQueue'[cv]) <=> Listed(x, waitQueue[cv]) \/ x = t
      BY <1>1, <3>1, WaitListed
    <3>3. Cardinality(OnTheirWay') \in Nat
      <4>1. OnTheirWay' \in SUBSET Threads
        BY <1>1 DEF OnTheirWay
      <4>2. IsFiniteSet(OnTheirWay')
        BY <1>1, <4>1, FS_Subset
      <4> QED
        BY <4>2, FS_CardinalityType
    <3>4. Inside' \in {0, 1} /\ Len(list') = 0
      BY <3>1 DEF Inside
    <3> QED
      BY <3>1, <3>2, <3>3, <3>4 DEF Served
  <2>2. CASE MailRemove(t)
    <3>1. /\ status[t] = "RUNNING" /\ on[t] = NULL /\ holder[lock] = t
          /\ holder' = [holder EXCEPT ![lock] = NULL] /\ UNCHANGED <<on, waitQueue>>
          /\ Mailbox!Go(t, "loop", "out") /\ list # <<>> /\ list' = Tail(list)
      BY <2>2 DEF MailRemove, Release, Running
    <3> QED
      BY <1>1, <1>2, <3>1, ServedRelease
  <2> QED
    BY <1>1, <1>5, <1>7, <2>1, <2>2 DEF MailConsumer
<1> QED
  BY <1>3, <1>4, <1>6, <1>7 DEF MailCase

(* Items of one producer ascend along a sequence.                          *)
Ascending(seq) ==
  \A i, j \in DOMAIN seq :
    i < j /\ seq[i][1] = seq[j][1] => seq[i][2] < seq[j][2]

(* Two sequences, the items of each producer in the first before those in  *)
(* the second; and without an item in common.                              *)
Ahead(first, second) ==
  \A i \in DOMAIN first, j \in DOMAIN second :
    first[i][1] = second[j][1] => first[i][2] < second[j][2]
Apart(first, second) ==
  \A i \in DOMAIN first, j \in DOMAIN second : first[i] # second[j]

(* What was appended is in the list or was given to somebody, in order.    *)
Conveyed ==
  /\ \A x \in Mailbox!Items :
       x[2] <= appended[x[1]] <=>
         Listed(x, list) \/ \E t \in Consumers : Listed(x, removed[t])
  /\ Ascending(list)
  /\ \A t \in Consumers : Ascending(removed[t]) /\ Ahead(removed[t], list)
  /\ \A t, u \in Consumers : t # u => Apart(removed[t], removed[u])

(* Appending to a sequence an item later than all its producer has there.  *)
LEMMA AscendingAppend ==
  ASSUME NEW S, NEW seq \in Seq(S), NEW x \in S, Ascending(seq),
         \A i \in DOMAIN seq : seq[i][1] = x[1] => seq[i][2] < x[2]
  PROVE  /\ Ascending(Append(seq, x))
         /\ \A y : Listed(y, Append(seq, x)) <=> Listed(y, seq) \/ y = x
<1> DEFINE app == Append(seq, x)
<1>1. /\ DOMAIN seq = 1 .. Len(seq) /\ Len(seq) \in Nat
      /\ DOMAIN app = 1 .. Len(seq) + 1
      /\ \A i \in 1 .. Len(seq) : app[i] = seq[i]
      /\ app[Len(seq) + 1] = x
  BY AppendProperties, LenProperties
<1> HIDE DEF app
<1>2. Ascending(app)
  <2> SUFFICES ASSUME NEW i \in DOMAIN app, NEW j \in DOMAIN app, i < j,
                      app[i][1] = app[j][1]
               PROVE  app[i][2] < app[j][2]
    BY DEF Ascending
  <2>1. i \in DOMAIN seq /\ app[i] = seq[i]
    BY <1>1
  <2>2. CASE j \in DOMAIN seq
    BY <1>1, <2>1, <2>2 DEF Ascending
  <2>3. CASE j = Len(seq) + 1
    BY <1>1, <2>1, <2>3
  <2> QED
    BY <1>1, <2>2, <2>3
<1>3. ASSUME NEW y PROVE Listed(y, app) <=> Listed(y, seq) \/ y = x
  <2>1. Listed(y, app) => Listed(y, seq) \/ y = x
    BY <1>1 DEF Listed
  <2>2. Listed(y, seq) => Listed(y, app)
    BY <1>1 DEF Listed
  <2>3. y = x => Listed(y, app)
    BY <1>1 DEF Listed
  <2> QED
    BY <2>1, <2>2, <2>3
<1> QED
  BY <1>2, <1>3 DEF app

(* The head of an ascending sequence comes before what is left of it.      *)
LEMMA AscendingTail ==
  ASSUME NEW S, NEW seq \in Seq(S), seq # <<>>, Ascending(seq)
  PROVE  /\ Ascending(Tail(seq))
         /\ Head(seq) \in S /\ Tail(seq) \in Seq(S)
         /\ \A j \in DOMAIN Tail(seq) :
              /\ Tail(seq)[j] \in S /\ Listed(Tail(seq)[j], seq)
              /\ Head(seq)[1] = Tail(seq)[j][1] => Head(seq)[2] < Tail(seq)[j][2]
         /\ \A y : Listed(y, seq) <=> Listed(y, Tail(seq)) \/ y = Head(seq)
<1> DEFINE tail == Tail(seq)
<1>1. /\ DOMAIN seq = 1 .. Len(seq) /\ Len(seq) \in Nat \ {0}
      /\ Head(seq) = seq[1] /\ Head(seq) \in S
      /\ tail \in Seq(S) /\ DOMAIN tail = 1 .. Len(seq) - 1
      /\ \A j \in 1 .. Len(seq) - 1 : tail[j] = seq[j + 1]
  BY HeadTailProperties, EmptySeq, LenProperties
<1> HIDE DEF tail
<1>2. \A j \in DOMAIN tail : /\ j + 1 \in DOMAIN seq /\ tail[j] = seq[j + 1]
                             /\ 1 \in DOMAIN seq /\ 1 < j + 1 /\ tail[j] \in S
  BY <1>1, ElementOfSeq
<1>3. Ascending(tail)
  <2> SUFFICES ASSUME NEW i \in DOMAIN tail, NEW j \in DOMAIN tail, i < j,
                      tail[i][1] = tail[j][1]
               PROVE  tail[i][2] < tail[j][2]
    BY DEF Ascending
  <2>1. i + 1 \in DOMAIN seq /\ j + 1 \in DOMAIN seq /\ i + 1 < j + 1
    BY <1>1
  <2>2. tail[i] = seq[i + 1] /\ tail[j] = seq[j + 1]
    BY <1>2
  <2> QED
    BY <2>1, <2>2 DEF Ascending
<1>4. ASSUME NEW j \in DOMAIN tail
      PROVE  /\ tail[j] \in S /\ Listed(tail[j], seq)
             /\ Head(seq)[1] = tail[j][1] => Head(seq)[2] < tail[j][2]
  BY <1>1, <1>2 DEF Listed, Ascending
<1>5. ASSUME NEW y PROVE Listed(y, seq) <=> Listed(y, tail) \/ y = Head(seq)
  <2>1. ASSUME NEW i \in DOMAIN seq, seq[i] = y PROVE Listed(y, tail) \/ y = Head(seq)
    <3>1. CASE i = 1
      BY <1>1, <2>1, <3>1
    <3>2. CASE i # 1
      <4>1. i - 1 \in DOMAIN tail /\ (i - 1) + 1 = i
        BY <1>1, <3>2
      <4>2. tail[i - 1] = y
        BY <1>2, <2>1, <4>1
      <4> QED
        BY <4>1, <4>2 DEF Listed
    <3> QED
      BY <3>1, <3>2
  <2>2. Listed(y, tail) => Listed(y, seq)
    BY <1>2 DEF Listed
  <2>3. y = Head(seq) => Listed(y, seq)
    BY <1>1 DEF Listed
  <2> QED
    BY <2>1, <2>2, <2>3 DEF Listed
<1> QED
  BY <1>1, <1>3, <1>4, <1>5 DEF tail

LEMMA ConveyedAppend ==
  ASSUME MailTyped, Conveyed, NEW t \in Producers, MailAppend(t)
  PROVE  Conveyed'
<1> USE MailFacts, MailTypes DEF MailTyped
<1>1. /\ appended' = [appended EXCEPT ![t] = appended[t] + 1] /\ removed' = removed
      /\ list' = Append(list, <<t, appended'[t]>>) /\ pc[t] = "append"
  BY DEF MailAppend, Mailbox!Go
<1>2. /\ appended[t] \in Nat /\ appended[t] < MaxItems /\ appended'[t] = appended[t] + 1
      /\ \A p \in Producers : p # t => appended'[p] = appended[p]
  BY <1>1
<1> DEFINE item == <<t, appended'[t]>>
<1>3. item \in Mailbox!Items /\ item[1] = t /\ item[2] = appended[t] + 1
  BY <1>2 DEF Mailbox!Items
<1>4. list' = Append(list, item)
  BY <1>1
<1> HIDE DEF item
<1>5. ASSUME NEW y \in Mailbox!Items, y[1] = t,
             Listed(y, list) \/ \E u \in Consumers : Listed(y, removed[u])
      PROVE  y[2] < item[2]
  <2>1. y[2] <= appended[y[1]] /\ y[2] \in Nat
    BY <1>5 DEF Conveyed, Mailbox!Items
  <2> QED
    BY <1>2, <1>3, <1>5, <2>1
<1>6. \A i \in DOMAIN list : list[i] \in Mailbox!Items /\ Listed(list[i], list)
  BY DEF Listed
<1>7. ASSUME NEW u \in Consumers, NEW i \in DOMAIN removed[u]
      PROVE  removed[u][i] \in Mailbox!Items /\ Listed(removed[u][i], removed[u])
  <2>1. removed[u] \in Seq(Mailbox!Items)
    OBVIOUS
  <2> QED
    BY <1>7, <2>1 DEF Listed
<1>8. /\ Ascending(list')
      /\ \A y : Listed(y, list') <=> Listed(y, list) \/ y = item
  <2>1. \A i \in DOMAIN list : list[i][1] = item[1] => list[i][2] < item[2]
    BY <1>3, <1>5, <1>6
  <2>2. Ascending(list) /\ list \in Seq(Mailbox!Items)
    BY DEF Conveyed
  <2> QED
    BY <1>3, <1>4, <2>1, <2>2, AscendingAppend
<1>9. ASSUME NEW u \in Consumers PROVE Ascending(removed'[u]) /\ Ahead(removed'[u], list')
  <2>1. Ascending(removed[u]) /\ Ahead(removed[u], list)
    BY DEF Conveyed
  <2>2. ASSUME NEW i \in DOMAIN removed[u], NEW j \in DOMAIN list',
               removed[u][i][1] = list'[j][1]
        PROVE  removed[u][i][2] < list'[j][2]
    <3>1. /\ DOMAIN list = 1 .. Len(list) /\ Len(list) \in Nat
          /\ DOMAIN list' = 1 .. Len(list) + 1
          /\ \A k \in 1 .. Len(list) : list'[k] = list[k]
          /\ list'[Len(list) + 1] = item
      BY <1>3, <1>4, AppendProperties, LenProperties
    <3>2. CASE j \in DOMAIN list
      BY <2>1, <2>2, <3>1, <3>2 DEF Ahead
    <3>3. CASE j = Len(list) + 1
      BY <1>3, <1>5, <1>7, <2>2, <3>1, <3>3
    <3> QED
      BY <3>1, <3>2, <3>3
  <2> QED
    BY <1>1, <2>1, <2>2 DEF Ahead
<1>10. ASSUME NEW x \in Mailbox!Items
       PROVE  x[2] <= appended'[x[1]] <=>
                Listed(x, list') \/ \E u \in Consumers : Listed(x, removed'[u])
  <2>1. x[2] <= appended[x[1]] <=>
          Listed(x, list) \/ \E u \in Consumers : Listed(x, removed[u])
    BY DEF Conveyed
  <2>2. x[1] \in Producers /\ x[2] \in 1..MaxItems /\ x = <<x[1], x[2]>>
    BY DEF Mailbox!Items
  <2>3. x[2] <= appended'[x[1]] <=> x[2] <= appended[x[1]] \/ x = item
    <3>1. CASE x[1] = t
      <4>1. x = item <=> x[2] = appended[t] + 1
        BY <1>2, <2>2, <3>1 DEF item
      <4> QED
        BY <1>2, <2>2, <3>1, <4>1
    <3>2. CASE x[1] # t
      BY <1>2, <1>3, <2>2, <3>2
    <3> QED
      BY <3>1, <3>2
  <2> QED
    BY <1>1, <1>8, <2>1, <2>3
<1> QED
  BY <1>1, <1>8, <1>9, <1>10 DEF Conveyed

LEMMA ConveyedRemove ==
  ASSUME MailTyped, Conveyed, NEW t \in Consumers, MailRemove(t)
  PROVE  Conveyed'
<1> USE MailFacts, MailTypes DEF MailTyped
<1>1. /\ removed' = [removed EXCEPT ![t] = Append(removed[t], Head(list))]
      /\ list # <<>> /\ list' = Tail(list) /\ appended' = appended
  BY DEF MailRemove
<1>2. PICK item : item = Head(list)
  OBVIOUS
<1>3. /\ Ascending(list') /\ item \in Mailbox!Items /\ list' \in Seq(Mailbox!Items)
      /\ \A j \in DOMAIN list' :
           /\ list'[j] \in Mailbox!Items /\ Listed(list'[j], list)
           /\ item[1] = list'[j][1] => item[2] < list'[j][2]
      /\ \A y : Listed(y, list) <=> Listed(y, list') \/ y = item
  <2>1. list \in Seq(Mailbox!Items) /\ Ascending(list)
    BY DEF Conveyed
  <2> QED
    BY <1>1, <1>2, <2>1, AscendingTail
<1>4. PICK i0 \in DOMAIN list : list[i0] = item
  BY <1>3 DEF Listed
<1>5. /\ removed'[t] = Append(removed[t], item) /\ removed[t] \in Seq(Mailbox!Items)
      /\ \A u \in Consumers : u # t => removed'[u] = removed[u]
  BY <1>1, <1>2
<1>6. /\ Ascending(removed'[t])
      /\ \A y : Listed(y, removed'[t]) <=> Listed(y, removed[t]) \/ y = item
  <2>1. \A i \in DOMAIN removed[t] : removed[t][i][1] = item[1] => removed[t][i][2] < item[2]
    BY <1>4 DEF Conveyed, Ahead
  <2>2. Ascending(removed[t])
    BY DEF Conveyed
  <2>3. PICK given : given = removed[t]
    OBVIOUS
  <2>4. /\ given \in Seq(Mailbox!Items) /\ Ascending(given)
        /\ \A i \in DOMAIN given : given[i][1] = item[1] => given[i][2] < item[2]
    BY <1>5, <2>1, <2>2, <2>3
  <2>5. /\ Ascending(Append(given, item))
        /\ \A y : Listed(y, Append(given, item)) <=> Listed(y, given) \/ y = item
    BY <1>3, <2>4, AscendingAppend
  <2>6. removed'[t] = Append(given, item)
    BY <1>5, <2>3
  <2> QED
    BY <2>3, <2>5, <2>6
<1>7. ASSUME NEW u \in Consumers, NEW i \in DOMAIN removed[u], NEW j \in DOMAIN list',
             removed[u][i][1] = list'[j][1]
      PROVE  removed[u][i][2] < list'[j][2]
  <2>1. PICK k \in DOMAIN list : list[k] = list'[j]
    BY <1>3, <1>7 DEF Listed
  <2> QED
    BY <1>7, <2>1 DEF Conveyed, Ahead
<1>8. /\ DOMAIN removed[t] = 1 .. Len(removed[t]) /\ Len(removed[t]) \in Nat
      /\ DOMAIN removed'[t] = 1 .. Len(removed[t]) + 1
      /\ \A k \in 1 .. Len(removed[t]) : removed'[t][k] = removed[t][k]
      /\ removed'[t][Len(removed[t]) + 1] = item
  BY <1>3, <1>5, AppendProperties, LenProperties
<1>9. Ahead(removed'[t], list')
  <2> SUFFICES ASSUME NEW i \in DOMAIN removed'[t], NEW j \in DOMAIN list',
                      removed'[t][i][1] = list'[j][1]
               PROVE  removed'[t][i][2] < list'[j][2]
    BY DEF Ahead
  <2>1. CASE i \in DOMAIN removed[t]
    BY <1>7, <1>8, <2>1
  <2>2. CASE i = Len(removed[t]) + 1
    BY <1>3, <1>8, <2>2
  <2> QED
    BY <1>8, <2>1, <2>2
<1>10. ASSUME NEW u \in Consumers PROVE Ascending(removed'[u]) /\ Ahead(removed'[u], list')
  <2>1. CASE u = t
    BY <1>6, <1>9, <2>1
  <2>2. CASE u # t
    <3>1. removed'[u] = removed[u] /\ Ascending(removed[u])
      BY <1>5, <2>2 DEF Conveyed
    <3>2. Ahead(removed[u], list')
      BY <1>7 DEF Ahead
    <3> QED
      BY <3>1, <3>2
  <2> QED
    BY <2>1, <2>2
<1>11. ASSUME NEW u \in Consumers, u # t
       PROVE  Apart(removed'[t], removed'[u]) /\ Apart(removed'[u], removed'[t])
  <2>1. Apart(removed[t], removed[u]) /\ removed'[u] = removed[u]
    BY <1>5, <1>11 DEF Conveyed
  <2>2. ASSUME NEW j \in DOMAIN removed[u] PROVE removed[u][j] # item
    <3>1. removed[u][j][1] = item[1] => removed[u][j][2] < item[2]
      BY <1>4 DEF Conveyed, Ahead
    <3>2. item[2] \in Nat
      BY <1>3 DEF Mailbox!Items
    <3> QED
      BY <3>1, <3>2
  <2>3. ASSUME NEW i \in DOMAIN removed'[t], NEW j \in DOMAIN removed[u]
        PROVE  removed'[t][i] # removed[u][j]
    <3>1. CASE i \in DOMAIN removed[t]
      BY <1>8, <2>1, <2>3, <3>1 DEF Apart
    <3>2. CASE i = Len(removed[t]) + 1
      BY <1>8, <2>2, <2>3, <3>2
    <3> QED
      BY <1>8, <3>1, <3>2
  <2> QED
    BY <2>1, <2>3 DEF Apart
<1>12. \A u, w \in Consumers : u # w => Apart(removed'[u], removed'[w])
  BY <1>5, <1>11 DEF Conveyed
<1>13. ASSUME NEW x \in Mailbox!Items
       PROVE  x[2] <= appended'[x[1]] <=>
                Listed(x, list') \/ \E u \in Consumers : Listed(x, removed'[u])
  <2>1. x[2] <= appended[x[1]] <=>
          Listed(x, list) \/ \E u \in Consumers : Listed(x, removed[u])
    BY DEF Conveyed
  <2>2. (\E u \in Consumers : Listed(x, removed'[u]))
          <=> x = item \/ \E u \in Consumers : Listed(x, removed[u])
    BY <1>5, <1>6
  <2> QED
    BY <1>1, <1>3, <2>1, <2>2
<1> QED
  BY <1>3, <1>10, <1>12, <1>13 DEF Conveyed

LEMMA ConveyedStep == MailTyped /\ Conveyed /\ MailCase => Conveyed'
<1> SUFFICES ASSUME MailTyped, Conveyed, MailCase PROVE Conveyed'
  OBVIOUS
<1>1. ASSUME UNCHANGED <<list, appended, removed>> PROVE Conveyed'
  BY <1>1 DEF Conveyed, Ascending, Ahead, Apart, Listed
<1>2. CASE MailRest
  BY <1>1, <1>2 DEF MailRest
<1>3. ASSUME NEW t \in Threads, MailResume(t) PROVE Conveyed'
  BY <1>1, <1>3 DEF MailResume
<1>4. ASSUME NEW t \in Producers, MailProducer(t) PROVE Conveyed'
  <2>1. CASE MailAppend(t)
    BY <2>1, ConveyedAppend
  <2>2. CASE MailEnter(t, "append") \/ MailLeave(t) \/ MailFinish(t)
    BY <1>1, <2>2 DEF MailEnter, MailLeave, MailFinish
  <2> QED
    BY <1>4, <2>1, <2>2 DEF MailProducer
<1>5. ASSUME NEW t \in Consumers, MailConsumer(t) PROVE Conveyed'
  <2>1. CASE MailRemove(t)
    BY <2>1, ConveyedRemove
  <2>2. CASE MailEnter(t, "loop") \/ MailWait(t)
    BY <1>1, <2>2 DEF MailEnter, MailWait
  <2> QED
    BY <1>5, <2>1, <2>2 DEF MailConsumer
<1> QED
  BY <1>2, <1>3, <1>4, <1>5 DEF MailCase

LEMMA ItemsFinite ==
  ASSUME Mailbox!ListAssumption
  PROVE  IsFiniteSet(Mailbox!Items) /\ Cardinality(Mailbox!Items) \in Nat
<1>1. IsFiniteSet(Producers)
  <2>1. Producers \in SUBSET Threads
    BY MailFacts
  <2> QED
    BY <2>1, MailFacts, FS_Subset
<1>2. IsFiniteSet(1..MaxItems)
  <2>1. MaxItems \in Int /\ 1 \in Int
    BY MailFacts
  <2> QED
    BY <2>1, FS_Interval
<1>3. IsFiniteSet(Producers \X (1..MaxItems))
  BY <1>1, <1>2, FS_Product
<1> QED
  BY <1>3, FS_CardinalityType DEF Mailbox!Items

(* A sequence that ascends is no longer than there are items.              *)
LEMMA AscendingBounded ==
  ASSUME Mailbox!ListAssumption, NEW seq \in Seq(Mailbox!Items), Ascending(seq)
  PROVE  /\ \A i, j \in DOMAIN seq : seq[i] = seq[j] => i = j
         /\ DOMAIN seq \subseteq 1..Cardinality(Mailbox!Items)
<1>1. /\ DOMAIN seq = 1 .. Len(seq) /\ Len(seq) \in Nat
      /\ \A i \in 1 .. Len(seq) : seq[i] \in Mailbox!Items
      /\ seq \in [1 .. Len(seq) -> Mailbox!Items]
  BY LenProperties, ElementOfSeq
<1>2. ASSUME NEW i \in DOMAIN seq, NEW j \in DOMAIN seq, seq[i] = seq[j] PROVE i = j
  <2>1. seq[i][2] \in Nat
    BY <1>1 DEF Mailbox!Items
  <2>2. ~ (i < j) /\ ~ (j < i)
    BY <1>2, <2>1 DEF Ascending
  <2> QED
    BY <1>1, <2>2
<1>3. seq \in Injection(1 .. Len(seq), Mailbox!Items)
  BY <1>1, <1>2 DEF Injection, IsInjective
<1>4. Cardinality(1 .. Len(seq)) <= Cardinality(Mailbox!Items)
  BY <1>3, ItemsFinite, FS_Injection
<1>5. Cardinality(1 .. Len(seq)) = Len(seq)
  <2>1. 1 \in Int /\ Len(seq) \in Int
    BY <1>1
  <2>2. Cardinality(1 .. Len(seq)) = IF 1 > Len(seq) THEN 0 ELSE Len(seq) - 1 + 1
    BY <2>1, FS_Interval
  <2> QED
    BY <1>1, <2>2
<1> QED
  BY <1>1, <1>2, <1>4, <1>5, ItemsFinite

LEMMA MailboxCardinality == \A S : Mailbox!Cardinality(S) = Cardinality(S)
BY DEF Mailbox!Cardinality, Cardinality

LEMMA ConveyedOnce ==
  MailTyped /\ Conveyed => Mailbox!ExactlyOnceInOrder
<1> SUFFICES ASSUME MailTyped, Conveyed PROVE Mailbox!ExactlyOnceInOrder
  OBVIOUS
<1> USE MailTypes DEF MailTyped
<1>1. ASSUME NEW item \in Mailbox!Items
      PROVE  Mailbox!Places(item) = IF item[2] <= appended[item[1]] THEN 1 ELSE 0
  <2> DEFINE here == {i \in DOMAIN list : list[i] = item}
             gone == {p \in Consumers \X (1..Cardinality(Mailbox!Items)) :
                        /\ p[2] \in DOMAIN removed[p[1]]
                        /\ removed[p[1]][p[2]] = item}
  <2>1. Mailbox!Places(item) = Cardinality(here) + Cardinality(gone)
    BY MailboxCardinality DEF Mailbox!Places
  <2>2. item[2] \in Nat /\ ~ (item[2] < item[2])
    BY DEF Mailbox!Items
  <2>3. Cardinality({}) = 0 /\ (\A x : Cardinality({x}) = 1)
    BY FS_EmptySet, FS_Singleton
  <2>4. CASE Listed(item, list)
    <3>1. PICK i \in DOMAIN list : list[i] = item
      BY <2>4 DEF Listed
    <3>2. \A j \in DOMAIN list : list[j] = item => j = i
      BY <3>1, AscendingBounded DEF Conveyed
    <3>3. here = {i}
      BY <3>1, <3>2
    <3>4. gone = {}
      BY <2>2, <3>1 DEF Conveyed, Ahead
    <3>5. item[2] <= appended[item[1]]
      BY <2>4 DEF Conveyed
    <3> HIDE DEF here, gone
    <3> QED
      <4>1. Cardinality(here) = 1 /\ Cardinality(gone) = 0
        BY <2>3, <3>3, <3>4
      <4> QED
        BY <2>1, <3>5, <4>1
  <2>5. ASSUME NEW t \in Consumers, Listed(item, removed[t])
        PROVE  Mailbox!Places(item) = 1 /\ item[2] <= appended[item[1]]
    <3>1. PICK i \in DOMAIN removed[t] : removed[t][i] = item
      BY <2>5 DEF Listed
    <3>2. /\ \A j \in DOMAIN removed[t] : removed[t][j] = item => j = i
          /\ i \in 1..Cardinality(Mailbox!Items)
      <4>1. removed[t] \in Seq(Mailbox!Items) /\ Ascending(removed[t])
        BY DEF Conveyed
      <4> QED
        BY <3>1, <4>1, AscendingBounded
    <3>3. here = {}
      BY <2>2, <3>1 DEF Conveyed, Ahead
    <3>4. \A u \in Consumers : u # t => ~ \E j \in DOMAIN removed[u] : removed[u][j] = item
      BY <3>1 DEF Conveyed, Apart
    <3>5. gone = {<<t, i>>}
      BY <3>1, <3>2, <3>4
    <3>6. item[2] <= appended[item[1]]
      BY <2>5 DEF Conveyed
    <3> HIDE DEF here, gone
    <3> QED
      <4>1. Cardinality(here) = 0 /\ Cardinality(gone) = 1
        BY <2>3, <3>3, <3>5
      <4> QED
        BY <2>1, <3>6, <4>1
  <2>6. CASE ~ Listed(item, list) /\ \A t \in Consumers : ~ Listed(item, removed[t])
    <3>1. here = {} /\ gone = {}
      BY <2>6 DEF Listed
    <3>2. ~ (item[2] <= appended[item[1]])
      BY <2>6 DEF Conveyed
    <3> HIDE DEF here, gone
    <3> QED
      BY <2>1, <2>3, <3>1, <3>2
  <2> QED
    BY <2>4, <2>5, <2>6
<1>2. \A t \in Consumers : \A i, j \in DOMAIN removed[t] :
        i < j /\ removed[t][i][1] = removed[t][j][1] =>
          removed[t][i][2] < removed[t][j][2]
  BY DEF Conveyed, Ascending
<1> QED
  BY <1>1, <1>2 DEF Mailbox!ExactlyOnceInOrder

MailInv == MailTyped /\ Served /\ Conveyed

LEMMA MailInitInv ==
  Mailbox!ListAssumption /\ Mailbox!ListInit => MailInv /\ ThreadInv /\ LockExclusion
<1> SUFFICES ASSUME Mailbox!ListAssumption, Mailbox!ListInit
             PROVE  MailInv /\ ThreadInv /\ LockExclusion
  OBVIOUS
<1>1. Init
  BY MailboxBasics DEF Mailbox!ListInit
<1>2. TypeOK /\ ThreadInv /\ LockExclusion
  <2>1. TypeOK
    BY <1>1, EmptySeq, KernelAssumption DEF Init, TypeOK, Sems
  <2>2. LockExclusion
    BY <1>1 DEF Init, LockExclusion, Sems
  <2> QED
    BY <1>1, <2>1, <2>2, ThreadInvInit
<1>3. /\ list = <<>> /\ pc = [t \in Threads |-> "out"]
      /\ appended = [t \in Producers |-> 0] /\ removed = [t \in Consumers |-> <<>>]
  BY DEF Mailbox!ListInit
<1>4. MailTyped
  <2>1. list \in Seq(Mailbox!Items) /\ removed \in [Consumers -> Seq(Mailbox!Items)]
    BY <1>3, EmptySeq
  <2> QED
    BY <1>2, <1>3, <2>1, MailboxBasics, MailFacts DEF MailTyped, Mailbox!ListTypeOK
<1>5. Served
  <2>1. waitQueue[cv] = <<>>
    BY <1>1, MailFacts DEF Init
  <2> QED
    BY <2>1 DEF Served, Listed
<1>6. Conveyed
  <2>1. \A x : ~ Listed(x, <<>>)
    BY DEF Listed
  <2>2. \A x \in Mailbox!Items : ~ (x[2] <= appended[x[1]])
    BY <1>3, MailFacts DEF Mailbox!Items
  <2>3. \A t \in Consumers : removed[t] = <<>>
    BY <1>3
  <2> QED
    BY <1>3, <2>1, <2>2, <2>3 DEF Conveyed, Ascending, Ahead, Apart
<1> QED
  BY <1>2, <1>4, <1>5, <1>6 DEF MailInv

LEMMA MailStep ==
  MailInv /\ ThreadInv /\ LockExclusion /\ [MailNext]_(Mailbox!synchListVars)
  => MailInv' /\ ThreadInv' /\ LockExclusion'
<1> SUFFICES ASSUME MailInv, ThreadInv, LockExclusion,
                    [MailNext]_(Mailbox!synchListVars)
             PROVE  MailInv' /\ ThreadInv' /\ LockExclusion'
  OBVIOUS
<1>1. TypeOK /\ Mailbox!ListAssumption
  BY MailTypes DEF MailInv, MailTyped
<1>2. [Next]_vars /\ MailCase
  BY <1>1, MailOnKernel, MailCases
<1>3. TypeOK' /\ ThreadInv' /\ LockExclusion'
  BY <1>1, <1>2, TypeStep, ThreadInvStep, LockStep
<1> QED
  BY <1>2, <1>3, MailTypedStep, ServedStep, ConveyedStep DEF MailInv

ListInv == program = "list" => MailInv /\ ThreadInv /\ LockExclusion

LEMMA ListInvHolds == ProgramsSpec => []ListInv
<1>1. ProgramsInit => ListInv
  BY MailInitInv, ProgramsAssumption DEF ProgramsInit, ListInv
<1>2. ListInv /\ [Progress \/ Preempt]_allVars => ListInv'
  <2> SUFFICES ASSUME ListInv, [Progress \/ Preempt]_allVars, program' = "list"
               PROVE  MailInv' /\ ThreadInv' /\ LockExclusion'
    BY DEF ListInv
  <2>1. program = "list" /\ [MailNext]_(Mailbox!synchListVars)
    BY MailboxBasics
       DEF Progress, Preempt, allVars, listState, MailNext, Mailbox!synchListVars,
           Mailbox!listVars
  <2> QED
    BY <2>1, MailStep DEF ListInv
<1> QED
  BY <1>1, <1>2, PTL DEF ProgramsSpec

(* While a consumer sleeps on an unlocked list there is an awake consumer  *)
(* for every item in it, for any number of threads and of items: no item   *)
(* is stranded by newcomers that take what a sleeper was signalled for     *)
(* (synchlist.h:82-111).                                                   *)
THEOREM NoStrandedItemHolds == ProgramsSpec => []NoStrandedItem
<1>1. MailInv => Mailbox!NoStrandedItem
  <2> SUFFICES ASSUME MailInv, holder[lock] = NULL, waitQueue[cv] # <<>>
               PROVE  Len(list) <= Cardinality(Mailbox!Coming)
    BY MailboxCardinality DEF Mailbox!NoStrandedItem
  <2>1. Mailbox!Coming = OnTheirWay
    BY MailboxBasics DEF Mailbox!Coming, OnTheirWay
  <2>2. Inside = 0 /\ Cardinality(OnTheirWay) \in Nat
    BY MailFacts, OnTheirWayFinite DEF MailInv, MailTyped, Inside
  <2> QED
    BY <2>1, <2>2 DEF MailInv, Served
<1>2. ListInv => NoStrandedItem
  BY <1>1 DEF ListInv, NoStrandedItem
<1> QED
  BY <1>2, ListInvHolds, PTL

(* Every item appended is in the list or was given to exactly one consumer *)
(* exactly once, and a consumer gets the items of a producer in their      *)
(* order, for any number of threads and of items (synchlist.h:82-111).     *)
THEOREM ExactlyOnceInOrderHolds == ProgramsSpec => []ExactlyOnceInOrder
<1>1. ListInv => ExactlyOnceInOrder
  BY ConveyedOnce DEF MailInv, ListInv, ExactlyOnceInOrder
<1> QED
  BY <1>1, ListInvHolds, PTL
=============================================================================
