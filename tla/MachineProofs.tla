---------------------------- MODULE MachineProofs ----------------------------
(***************************************************************************)
(* Proofs about Machine for any threads, any delays of the timer, the disk *)
(* and the console, and any number of characters.                          *)
(***************************************************************************)
EXTENDS Machine, NachosSyncProofs

-----------------------------------------------------------------------------
(* The inductive invariant.                                                *)

(* What a thread waits for is what the statement it is at waits for; who   *)
(* is at the disk or the console has been forked and is alive.             *)
Placed ==
  \A t \in Threads :
    /\ pc[t] \in IF t = Echo THEN {"console", "char", "put", "shown"}
                             ELSE {"user", "request", "sleep", "release"}
    /\ on[t] = DiskLock => pc[t] = "request"
    /\ on[t] = DiskDone => pc[t] = "release"
    /\ on[t] = ReadAvail => pc[t] = "put"
    /\ on[t] = WriteDone => pc[t] = "char"
    /\ life[t] = "new" \/ Dead(t) => pc[t] \in {"user", "console"}

(* OneTick runs under a thread that runs, Idle under none.                 *)
Phases ==
  /\ phase \in {"tick", "check"} =>
       /\ status[currentThread] = "RUNNING" /\ on[currentThread] = NULL
       /\ mode = "SystemMode"
  /\ phase = "drain" => mode = "IdleMode"

(* The disk's lock is held from the return of Acquire to the Release.      *)
AtDisk(t) == pc[t] \in {"request", "sleep", "release"} /\ on[t] # DiskLock

(* A thread has a request that it has not been told the end of.            *)
Using(t) == pc[t] = "sleep" \/ (pc[t] = "release" /\ on[t] = DiskDone)

Bit(b) == IF b THEN 1 ELSE 0

(* The request is either with the disk or in its semaphore.                *)
DiskInv ==
  /\ \A t \in Threads : holder[DiskLock] = t <=> AtDisk(t)
  /\ Bit(active) + value[DiskDone] = Bit(\E t \in Threads : Using(t))

(* A character in the buffer is in the semaphore of the reader or is being *)
(* taken; one that is being shown is with the console or in the semaphore  *)
(* of the writer.                                                          *)
ConsoleInv ==
  /\ Bit(incoming # 0) = value[ReadAvail] + Bit(pc[Echo] = "put" /\ on[Echo] = NULL)
  /\ Bit(putBusy) + value[WriteDone] =
       Bit(pc[Echo] = "shown" \/ (pc[Echo] = "char" /\ on[Echo] = WriteDone))
  /\ incoming # 0 => incoming = typed
  /\ EchoInOrder

(* No two pending interrupts are of one type.                              *)
Once(seq) == \A i, j \in DOMAIN seq : seq[i].type = seq[j].type => i = j

Has(seq, type) == \E i \in DOMAIN seq : seq[i].type = type

PendingInv ==
  /\ Once(list)
  /\ Has(list, "DiskInt") <=> active
  /\ Has(list, "ConsoleWriteInt") <=> putBusy
  /\ Has(list, "ConsoleReadInt") <=> pc[Echo] # "console"

(* A machine that has halted goes on no more, and has left nobody.         *)
HaltInv ==
  mode = "Halted" =>
    /\ readyList = <<>> /\ status[currentThread] # "RUNNING"
    /\ phase \in {"run", "idle"} /\ HaltLeavesNobody

MachineInv ==
  /\ MachineTypeOK /\ ~ crashed
  /\ ThreadInv /\ LockExclusion /\ NoLostWakeup
  /\ Placed /\ Phases /\ DiskInv /\ ConsoleInv /\ PendingInv /\ HaltInv

-----------------------------------------------------------------------------
(* Constants and kernel.                                                   *)

LEMMA Constants ==
  /\ Sems = {DiskDone, ReadAvail, WriteDone, DiskLock} /\ Locks = {DiskLock}
  /\ Semaphores = {DiskDone, ReadAvail, WriteDone} /\ Conditions = {}
  /\ DiskDone # ReadAvail /\ DiskDone # WriteDone /\ ReadAvail # WriteDone
  /\ DiskLock \notin Semaphores /\ NULL \notin Sems /\ NULL \notin Threads
  /\ Echo \in Threads /\ Echo # MainThread /\ MainThread \in Threads
  /\ IsFiniteSet(Threads) /\ MaxChars \in Nat
BY KernelAssumption, MachineAssumption DEF Sems

KernelInv == TypeOK /\ ThreadInv /\ LockExclusion /\ NoLostWakeup

LEMMA KernelStep ==
  ASSUME KernelInv, [Next]_vars PROVE KernelInv'
BY TypeStep, ThreadInvStep, LockStep, WakeupStep DEF KernelInv

(* A handler's V is no call of a thread, but moves threads as V does.      *)
LEMMA HandlerStep ==
  ASSUME KernelInv, NEW d \in Semaphores, HandlerV(d)
  PROVE  KernelInv'
<1>1. /\ d \in Sems /\ VBody(d) /\ status' = Ready(status, Woken(d))
      /\ UNCHANGED <<currentThread, life, threadToBeDestroyed, on, holder, waitQueue,
                     mode, pending>>
  BY DEF HandlerV, Sems, machVars
<1>2. TypeOK'
  BY <1>1, VBodyType, ReadyType DEF TypeOK, KernelInv
<1>3. ThreadInv'
  BY <1>1, VBodyThread DEF KernelInv
<1>4. LockExclusion'
  BY <1>1, VBodyLock DEF KernelInv
<1>5. NoLostWakeup'
  <2>1. /\ NULL \notin Threads /\ \A x \in Threads : on'[x] = on[x]
        /\ \A x \in Threads : status'[x] = Ready(status, Woken(d))[x]
    BY <1>1, Constants
  <2> QED
    BY <1>1, <2>1, VBodyWakeup DEF KernelInv
<1> QED
  BY <1>2, <1>3, <1>4, <1>5 DEF KernelInv

(* The idle loop only changes the mode.                                    *)
LEMMA IdleStep ==
  ASSUME KernelInv, Sleeping, UNCHANGED <<threadVars, synchVars, pending>>,
         mode' \in {"IdleMode", "Halted"}
  PROVE  KernelInv'
<1>1. UNCHANGED <<currentThread, status, readyList, life, threadToBeDestroyed,
                  on, value, queue, holder, waitQueue, pending>>
  BY DEF threadVars, synchVars
<1>2. TypeOK' /\ LockExclusion' /\ NoLostWakeup'
  BY <1>1 DEF KernelInv, TypeOK, LockExclusion, NoLostWakeup, Awake
<1>3. OnePlace' /\ NewInv' /\ DeadInv'
  BY <1>1 DEF KernelInv, ThreadInv, OnePlace, ReadyInv, RunningInv, QueueInv, WaitInv,
              BlockedInv, NewInv, DeadInv, Dead, Listed
<1>4. status[currentThread] # "RUNNING"
  BY DEF Sleeping, KernelInv, ThreadInv, IdleInv
<1> QED
  BY <1>1, <1>2, <1>3, <1>4 DEF KernelInv, ThreadInv, IdleInv

-----------------------------------------------------------------------------
(* The list of pending interrupts.                                         *)

Pending == [type : Types, in : Int]

Sorted(seq) == \A i, j \in DOMAIN seq : i < j => seq[i].in <= seq[j].in

LEMMA Inserted ==
  ASSUME NEW S, NEW seq \in Seq(S), NEW item \in S, NEW p \in 1..Len(seq) + 1
  PROVE  LET r == InsertAt(seq, p, item) IN
         /\ r \in Seq(S) /\ Len(r) = Len(seq) + 1
         /\ \A i \in 1..Len(seq) + 1 :
              r[i] = IF i < p THEN seq[i] ELSE IF i = p THEN item ELSE seq[i - 1]
<1> DEFINE a == SubSeq(seq, 1, p - 1)
           b == SubSeq(seq, p, Len(seq))
           ai == a \o <<item>>
           r == ai \o b
<1>1. Len(seq) \in Nat /\ p \in Nat /\ p >= 1 /\ p - 1 <= Len(seq)
  BY LenProperties
<1>2. a \in Seq(S) /\ Len(a) = p - 1 /\ \A i \in 1..(p - 1) : a[i] = seq[i]
  <2>1. /\ a \in Seq(S)
        /\ Len(a) = IF 1 <= p - 1 THEN (p - 1) - 1 + 1 ELSE 0
        /\ \A i \in 1 .. (p - 1) - 1 + 1 : a[i] = seq[1 + i - 1]
    <3>1. \A i \in 1..(p - 1) : i \in 1..Len(seq)
      BY <1>1
    <3> QED
      BY <1>1, <3>1, SubSeqProperties, ElementOfSeq
  <2> QED
    BY <1>1, <2>1
<1>3. /\ b \in Seq(S) /\ Len(b) = Len(seq) - p + 1
      /\ \A i \in 1..(Len(seq) - p + 1) : b[i] = seq[p + i - 1]
  BY <1>1, SubSeqProperties, ElementOfSeq
<1>4. /\ ai \in Seq(S) /\ Len(ai) = p /\ ai[p] = item
      /\ \A i \in 1..(p - 1) : ai[i] = seq[i]
  <2>1. <<item>> \in Seq(S) /\ Len(<<item>>) = 1 /\ <<item>>[1] = item
    OBVIOUS
  <2> QED
    BY <1>1, <1>2, <2>1, ConcatProperties
<1>5. /\ r \in Seq(S) /\ Len(r) = Len(seq) + 1
      /\ \A i \in 1..p : r[i] = ai[i]
      /\ \A i \in 1..Len(seq) + 1 : i > p => r[i] = b[i - p]
  <2> HIDE DEF a, b, ai
  <2>1. /\ r \in Seq(S) /\ Len(r) = Len(ai) + Len(b)
        /\ \A i \in 1..Len(ai) + Len(b) : r[i] = IF i <= Len(ai) THEN ai[i] ELSE b[i - Len(ai)]
    BY <1>3, <1>4, ConcatProperties, Zenon
  <2> HIDE DEF r
  <2> QED
    BY <1>1, <1>3, <1>4, <2>1
<1>6. r = InsertAt(seq, p, item)
  BY DEF InsertAt
<1> HIDE DEF a, b, ai, r
<1>7. ASSUME NEW i \in 1..Len(seq) + 1
      PROVE  r[i] = IF i < p THEN seq[i] ELSE IF i = p THEN item ELSE seq[i - 1]
  <2>1. CASE i <= p
    BY <1>1, <1>4, <1>5, <2>1
  <2>2. CASE i > p
    <3>1. i - p \in 1..(Len(seq) - p + 1) /\ p + (i - p) - 1 = i - 1
      BY <1>1, <2>2
    <3> QED
      BY <1>1, <1>3, <1>5, <2>2, <3>1
  <2> QED
    BY <1>1, <2>1, <2>2
<1> QED
  BY <1>5, <1>6, <1>7

LEMMA Listing ==
  ASSUME NEW seq \in Seq(Pending)
  PROVE  /\ Len(seq) \in Nat /\ DOMAIN seq = 1..Len(seq)
         /\ \A i \in DOMAIN seq : seq[i] \in Pending /\ seq[i].in \in Int
<1>1. \A e \in Pending : e.in \in Int
  BY DEF Pending
<1>2. Len(seq) \in Nat /\ DOMAIN seq = 1..Len(seq)
  BY LenProperties
<1>3. \A i \in 1..Len(seq) : seq[i] \in Pending
  BY ElementOfSeq
<1> QED
  BY <1>1, <1>2, <1>3

(* SortedInsert keeps the list sorted and adds the one interrupt to it.    *)
LEMMA SortedInserted ==
  ASSUME NEW seq \in Seq(Pending), Sorted(seq), NEW item \in Pending
  PROVE  LET r == SortedInsert(seq, item) IN
         /\ r \in Seq(Pending) /\ Sorted(r)
         /\ \A type : Has(r, type) <=> Has(seq, type) \/ type = item.type
         /\ Once(seq) /\ ~ Has(seq, item.type) => Once(r)
<1> DEFINE bigger == {i \in DOMAIN seq : seq[i].in > item.in}
           place == IF bigger = {} THEN Len(seq) + 1
                    ELSE CHOOSE i \in bigger : \A j \in bigger : i <= j
<1>1. /\ Len(seq) \in Nat /\ DOMAIN seq = 1..Len(seq) /\ item.in \in Int
      /\ \A i \in 1..Len(seq) : seq[i] \in Pending /\ seq[i].in \in Int
  BY Listing DEF Pending
<1>2. /\ place \in 1..Len(seq) + 1
      /\ \A i \in 1..Len(seq) : i < place => seq[i].in <= item.in
      /\ \A i \in 1..Len(seq) : i >= place => seq[i].in > item.in
  <2>1. CASE bigger = {}
    <3>1. place = Len(seq) + 1
      BY <2>1
    <3>2. \A i \in 1..Len(seq) : seq[i].in <= item.in
      BY <1>1, <2>1
    <3> QED
      BY <1>1, <3>1, <3>2
  <2>2. CASE bigger # {}
    <3>1. bigger \subseteq Nat /\ bigger \subseteq 1..Len(seq)
      BY <1>1
    <3>2. \E x \in bigger : \A y \in bigger : x <= y
      <4> DEFINE R == {ss \in Nat \X Nat : ss[1] < ss[2]}
      <4>1. IsWellFoundedOn(R, Nat)
        BY NatLessThanWellFounded DEF OpToRel
      <4>2. \A y, x \in Nat : <<y, x>> \in R <=> y < x
        OBVIOUS
      <4> HIDE DEF R, bigger
      <4>3. PICK x \in bigger : \A y \in bigger : ~ (<<y, x>> \in R)
        BY <2>2, <3>1, <4>1, WFMin, Zenon
      <4>4. x \in Nat /\ \A y \in bigger : y \in Nat
        BY <3>1, <4>3
      <4>5. \A y \in bigger : ~ (y < x)
        BY <4>2, <4>3, <4>4
      <4> QED
        BY <4>3, <4>4, <4>5
    <3>3. place \in bigger /\ \A j \in bigger : place <= j
      BY <2>2, <3>2
    <3>6. /\ seq[place].in > item.in /\ place \in 1..Len(seq)
          /\ \A i \in 1..Len(seq) : i \notin bigger => seq[i].in <= item.in
      BY <1>1, <3>1, <3>3
    <3> HIDE DEF bigger, place
    <3>4. \A i \in 1..Len(seq) : i < place => i \notin bigger
      BY <3>1, <3>3
    <3>5. \A i \in 1..Len(seq) : i >= place => seq[i].in >= seq[place].in
      <4> SUFFICES ASSUME NEW i \in 1..Len(seq), i >= place
                   PROVE  seq[i].in >= seq[place].in
        OBVIOUS
      <4>1. i = place \/ place < i
        BY <1>1, <3>6
      <4> QED
        BY <1>1, <3>6, <4>1 DEF Sorted
    <3>7. \A i \in 1..Len(seq) : i >= place => seq[i].in > item.in
      BY <1>1, <3>5, <3>6
    <3> QED
      BY <1>1, <3>4, <3>6, <3>7
  <2> QED
    BY <2>1, <2>2
<1> DEFINE r == InsertAt(seq, place, item)
<1>3. r = SortedInsert(seq, item)
  BY DEF SortedInsert
<1> HIDE DEF bigger, place
<1>4. /\ r \in Seq(Pending) /\ Len(r) = Len(seq) + 1
      /\ \A i \in 1..Len(seq) + 1 :
           r[i] = IF i < place THEN seq[i] ELSE IF i = place THEN item ELSE seq[i - 1]
  <2>1. place \in 1..Len(seq) + 1
    BY <1>2
  <2> QED
    BY <2>1, Inserted
<1> HIDE DEF r
<1>5. DOMAIN r = 1..Len(seq) + 1
  BY <1>4, LenProperties
<1>6. /\ \A i \in 1..Len(seq) + 1 : i < place => i \in 1..Len(seq) /\ r[i] = seq[i]
      /\ \A i \in 1..Len(seq) + 1 : i > place => i - 1 \in 1..Len(seq) /\ r[i] = seq[i - 1]
      /\ r[place] = item
  BY <1>1, <1>2, <1>4
<1>7. Sorted(r)
  <2> SUFFICES ASSUME NEW i \in 1..Len(seq) + 1, NEW j \in 1..Len(seq) + 1, i < j
               PROVE  r[i].in <= r[j].in
    BY <1>5 DEF Sorted
  <2>1. CASE j < place
    BY <1>1, <1>2, <1>6, <2>1 DEF Sorted
  <2>2. CASE j = place
    BY <1>1, <1>2, <1>6, <2>2
  <2>3. CASE j > place /\ i < place
    <3>1. j - 1 \in 1..Len(seq) /\ j - 1 >= place /\ i \in 1..Len(seq)
      BY <1>1, <1>2, <1>6, <2>3
    <3>2. seq[j - 1].in > item.in /\ seq[i].in <= item.in
      BY <1>2, <2>3, <3>1
    <3> QED
      BY <1>1, <1>6, <2>3, <3>1, <3>2
  <2>4. CASE i = place
    <3>1. j - 1 \in 1..Len(seq) /\ j - 1 >= place
      BY <1>1, <1>2, <1>6, <2>4
    <3>2. seq[j - 1].in > item.in
      BY <1>2, <3>1
    <3> QED
      BY <1>1, <1>2, <1>6, <2>4, <3>1, <3>2
  <2>5. CASE i > place
    <3>1. i - 1 \in 1..Len(seq) /\ j - 1 \in 1..Len(seq) /\ i - 1 < j - 1 /\ j > place
      BY <1>1, <1>2, <1>6, <2>5
    <3> QED
      BY <1>1, <1>6, <2>5, <3>1 DEF Sorted
  <2> QED
    BY <1>1, <1>2, <2>1, <2>2, <2>3, <2>4, <2>5
<1>8. \A i \in 1..Len(seq) : \E j \in 1..Len(seq) + 1 : j # place /\ r[j] = seq[i]
  <2> SUFFICES ASSUME NEW i \in 1..Len(seq)
               PROVE  \E j \in 1..Len(seq) + 1 : j # place /\ r[j] = seq[i]
    OBVIOUS
  <2>1. CASE i < place
    BY <1>1, <1>2, <1>6, <2>1
  <2>2. CASE i >= place
    <3>1. PICK j : j = i + 1
      OBVIOUS
    <3>2. j \in 1..Len(seq) + 1 /\ j > place /\ j # place /\ j - 1 = i
      BY <1>1, <1>2, <2>2, <3>1
    <3>3. r[j] = seq[i]
      BY <1>6, <3>2
    <3> QED
      BY <3>2, <3>3
  <2> QED
    BY <1>1, <1>2, <2>1, <2>2
<1>9. \A type : Has(r, type) <=> Has(seq, type) \/ type = item.type
  <2> SUFFICES ASSUME NEW type
               PROVE  Has(r, type) <=> Has(seq, type) \/ type = item.type
    OBVIOUS
  <2>1. ASSUME NEW i \in 1..Len(seq) + 1, r[i].type = type
        PROVE  Has(seq, type) \/ type = item.type
    <3>1. i < place \/ i = place \/ i > place
      BY <1>1, <1>2
    <3> QED
      BY <1>1, <1>6, <2>1, <3>1 DEF Has
  <2>2. Has(seq, type) => Has(r, type)
    BY <1>1, <1>5, <1>8 DEF Has
  <2>3. type = item.type => Has(r, type)
    BY <1>2, <1>5, <1>6 DEF Has
  <2> QED
    BY <1>5, <2>1, <2>2, <2>3 DEF Has
<1>10. ASSUME Once(seq), ~ Has(seq, item.type)
       PROVE  Once(r)
  <2>1. \A i \in 1..Len(seq) + 1 : i # place => r[i].type # item.type
    <3> SUFFICES ASSUME NEW i \in 1..Len(seq) + 1, i # place PROVE r[i].type # item.type
      OBVIOUS
    <3>1. i < place \/ i > place
      BY <1>1, <1>2
    <3> QED
      BY <1>1, <1>6, <1>10, <3>1 DEF Has
  <2> SUFFICES ASSUME NEW i \in 1..Len(seq) + 1, NEW j \in 1..Len(seq) + 1,
                      r[i].type = r[j].type, i < j
               PROVE  FALSE
    BY <1>1, <1>5 DEF Once
  <2>2. i # place /\ j # place
    BY <1>1, <1>2, <1>6, <2>1
  <2>3. CASE i < place /\ j < place
    BY <1>1, <1>6, <1>10, <2>3 DEF Once
  <2>4. CASE i < place /\ j > place
    <3>1. i \in 1..Len(seq) /\ j - 1 \in 1..Len(seq) /\ i # j - 1
      BY <1>1, <1>2, <1>6, <2>4
    <3>2. seq[i].type = seq[j - 1].type
      BY <1>6, <2>4
    <3> QED
      BY <1>1, <1>10, <3>1, <3>2 DEF Once
  <2>5. CASE i > place /\ j > place
    <3>1. i - 1 \in 1..Len(seq) /\ j - 1 \in 1..Len(seq) /\ i - 1 # j - 1
      BY <1>1, <1>2, <1>6, <2>5
    <3>2. seq[i - 1].type = seq[j - 1].type
      BY <1>6, <2>5
    <3> QED
      BY <1>1, <1>10, <3>1, <3>2 DEF Once
  <2> QED
    BY <1>1, <1>2, <2>2, <2>3, <2>4, <2>5
<1> QED
  BY <1>3, <1>4, <1>7, <1>9, <1>10

(* What is left when the first interrupt is taken off.                     *)
LEMMA Removed ==
  ASSUME NEW seq \in Seq(Pending), Sorted(seq), Once(seq), seq # <<>>
  PROVE  /\ Head(seq) \in Pending /\ Has(seq, Head(seq).type)
         /\ Tail(seq) \in Seq(Pending) /\ Sorted(Tail(seq)) /\ Once(Tail(seq))
         /\ \A type : Has(Tail(seq), type) <=> Has(seq, type) /\ type # Head(seq).type
<1> DEFINE u == Tail(seq)
<1>1. /\ Len(seq) \in Nat /\ Len(seq) > 0 /\ DOMAIN seq = 1..Len(seq)
      /\ Head(seq) = seq[1] /\ Head(seq) \in Pending
      /\ u \in Seq(Pending) /\ DOMAIN u = 1..Len(seq) - 1
      /\ \A i \in 1..Len(seq) - 1 : u[i] = seq[i + 1]
  <2>1. Len(seq) \in Nat /\ seq # <<>> => Len(seq) > 0
    BY EmptySeq, LenProperties
  <2>2. /\ u \in Seq(Pending) /\ Len(u) = Len(seq) - 1
        /\ \A i \in 1..Len(u) : u[i] = seq[i + 1]
        /\ Head(seq) = seq[1] /\ Head(seq) \in Pending
    BY HeadTailProperties, <2>1, ElementOfSeq
  <2> HIDE DEF u
  <2> QED
    BY <2>1, <2>2, LenProperties
<1> HIDE DEF u
<1>2. \A i \in 1..Len(seq) - 1 : i + 1 \in 1..Len(seq) /\ i + 1 # 1
  BY <1>1
<1>3. Sorted(u) /\ Once(u)
  <2>1. ASSUME NEW i \in 1..Len(seq) - 1, NEW j \in 1..Len(seq) - 1
        PROVE  /\ i < j => u[i].in <= u[j].in
               /\ u[i].type = u[j].type => i = j
    <3>1. PICK k, l : k = i + 1 /\ l = j + 1
      OBVIOUS
    <3>2. /\ k \in DOMAIN seq /\ l \in DOMAIN seq /\ (i < j => k < l) /\ (k = l => i = j)
      BY <1>1, <1>2, <2>1, <3>1
    <3>3. u[i] = seq[k] /\ u[j] = seq[l]
      BY <1>1, <3>1
    <3> QED
      BY <3>2, <3>3 DEF Sorted, Once
  <2> QED
    BY <1>1, <2>1 DEF Sorted, Once
<1>4. \A i \in 1..Len(seq) : i # 1 => i - 1 \in 1..Len(seq) - 1 /\ u[i - 1] = seq[i]
  <2>1. \A i \in 1..Len(seq) : i # 1 => i - 1 \in 1..Len(seq) - 1 /\ (i - 1) + 1 = i
    BY <1>1
  <2> QED
    BY <1>1, <2>1
<1>5. 1 \in 1..Len(seq)
  BY <1>1
<1>6. ASSUME NEW type
      PROVE  Has(u, type) <=> Has(seq, type) /\ type # Head(seq).type
  <2>1. ASSUME NEW i \in 1..Len(seq) - 1, u[i].type = type
        PROVE  Has(seq, type) /\ type # Head(seq).type
    <3>1. PICK k : k = i + 1
      OBVIOUS
    <3>2. k \in DOMAIN seq /\ k # 1 /\ seq[k].type = type
      BY <1>1, <1>2, <2>1, <3>1
    <3> QED
      BY <1>1, <1>5, <3>2 DEF Has, Once
  <2>2. ASSUME NEW i \in 1..Len(seq), seq[i].type = type, type # Head(seq).type
        PROVE  Has(u, type)
    <3>1. PICK k : k = i - 1
      OBVIOUS
    <3>2. k \in DOMAIN u /\ u[k] = seq[i]
      BY <1>1, <1>4, <2>2, <3>1
    <3> QED
      BY <2>2, <3>2 DEF Has
  <2> QED
    BY <1>1, <2>1, <2>2 DEF Has
<1> QED
  BY <1>1, <1>3, <1>5, <1>6 DEF u, Has

(* Time passes for all of them alike.                                      *)
LEMMA Elapsed ==
  ASSUME NEW seq \in Seq(Pending), Sorted(seq), Once(seq), NEW ticks \in Int
  PROVE  LET r == Elapse(seq, ticks) IN
         /\ r \in Seq(Pending) /\ Sorted(r) /\ Once(r)
         /\ \A type : Has(r, type) <=> Has(seq, type)
<1> DEFINE r == Elapse(seq, ticks)
<1>1. /\ Len(seq) \in Nat /\ DOMAIN seq = 1..Len(seq)
      /\ \A i \in 1..Len(seq) : seq[i] \in Pending /\ seq[i].in \in Int
  BY Listing
<1>2. /\ DOMAIN r = 1..Len(seq)
      /\ \A i \in 1..Len(seq) :
           r[i] \in Pending /\ r[i].in = seq[i].in - ticks /\ r[i].type = seq[i].type
  <2>1. \A i \in 1..Len(seq) : r[i] = [seq[i] EXCEPT !.in = seq[i].in - ticks]
    BY <1>1 DEF Elapse
  <2>2. DOMAIN r = 1..Len(seq)
    BY <1>1 DEF Elapse
  <2> HIDE DEF r
  <2> QED
    BY <1>1, <2>1, <2>2 DEF Pending
<1>3. r \in Seq(Pending)
  <2>1. r = [i \in 1..Len(seq) |-> r[i]]
    BY <1>1 DEF Elapse
  <2>2. \A n \in Nat : \A f \in [1..n -> Pending] : f \in Seq(Pending)
    BY SeqDef
  <2>3. r \in [1..Len(seq) -> Pending]
    <3> HIDE DEF r
    <3> QED
      BY <1>2, <2>1
  <2> QED
    BY <1>1, <2>2, <2>3
<1> HIDE DEF r
<1>4. Sorted(r)
  <2>1. ASSUME NEW i \in 1..Len(seq), NEW j \in 1..Len(seq), i < j
        PROVE  r[i].in <= r[j].in
    <3>1. /\ seq[i].in <= seq[j].in /\ seq[i].in \in Int /\ seq[j].in \in Int
          /\ r[i].in = seq[i].in - ticks /\ r[j].in = seq[j].in - ticks
      BY <1>1, <1>2, <2>1 DEF Sorted
    <3> QED
      BY <3>1
  <2> QED
    BY <1>2, <2>1 DEF Sorted
<1>5. Once(r) /\ \A type : Has(r, type) <=> Has(seq, type)
  BY <1>1, <1>2 DEF Once, Has
<1> QED
  BY <1>3, <1>4, <1>5 DEF r

(* Putting the first interrupt back loses nothing.                         *)
LEMMA PutBackKeeps ==
  ASSUME list \in Seq(Pending), Sorted(list), Once(list)
  PROVE  /\ PutBack \in Seq(Pending) /\ Sorted(PutBack) /\ Once(PutBack)
         /\ \A type : Has(PutBack, type) <=> Has(list, type)
<1>1. CASE list = <<>>
  BY <1>1 DEF PutBack
<1>2. CASE list # <<>>
  <2>1. PutBack = SortedInsert(Tail(list), Head(list))
    BY <1>2 DEF PutBack
  <2>2. /\ Head(list) \in Pending /\ Has(list, Head(list).type)
        /\ Tail(list) \in Seq(Pending) /\ Sorted(Tail(list)) /\ Once(Tail(list))
        /\ \A type : Has(Tail(list), type) <=> Has(list, type) /\ type # Head(list).type
    BY <1>2, Removed
  <2>3. /\ PutBack \in Seq(Pending) /\ Sorted(PutBack)
        /\ \A type : Has(PutBack, type) <=> Has(Tail(list), type) \/ type = Head(list).type
        /\ Once(Tail(list)) /\ ~ Has(Tail(list), Head(list).type) => Once(PutBack)
    BY <2>1, <2>2, SortedInserted
  <2> QED
    BY <2>2, <2>3
<1> QED
  BY <1>1, <1>2

-----------------------------------------------------------------------------
(* The machine's own invariants.                                           *)

Places == {"user", "request", "sleep", "release", "console", "char", "put", "shown"}

OwnTypes ==
  /\ list \in Seq(Pending) /\ Sorted(list)
  /\ phase \in {"run", "tick", "check", "drain", "idle"}
  /\ yieldOnReturn \in BOOLEAN /\ pc \in [Threads -> Places]
  /\ active \in BOOLEAN /\ putBusy \in BOOLEAN /\ crashed \in BOOLEAN
  /\ incoming \in 0..MaxChars /\ typed \in 0..MaxChars
  /\ screen \in Seq(1..MaxChars)

LEMMA TypeParts == MachineTypeOK <=> TypeOK /\ OwnTypes
BY DEF MachineTypeOK, OwnTypes, Pending, Sorted, Places

LEMMA TypePartsNext == MachineTypeOK' <=> TypeOK' /\ OwnTypes'
BY TypeParts, PTL

Own == Placed /\ DiskInv /\ ConsoleInv /\ PendingInv

LEMMA Parts ==
  MachineInv <=> KernelInv /\ OwnTypes /\ ~ crashed /\ Own /\ Phases /\ HaltInv
BY TypeParts DEF MachineInv, KernelInv, Own

LEMMA PartsNext ==
  MachineInv' <=>
    KernelInv' /\ OwnTypes' /\ ~ crashed' /\ Own' /\ Phases' /\ HaltInv'
BY Parts, PTL

LEMMA KernelTypes ==
  ASSUME KernelInv
  PROVE  /\ currentThread \in Threads
         /\ \A s \in Sems : value[s] \in Nat
         /\ \A t \in Threads : on[t] \in Sems \union {NULL}
         /\ holder[DiskLock] \in Threads \union {NULL}
         /\ value[DiskLock] = IF holder[DiskLock] = NULL THEN 1 ELSE 0
         /\ value \in [Sems -> Nat] /\ on \in [Threads -> Sems \union {NULL}]
         /\ holder \in [Locks -> Threads \union {NULL}]
BY Constants DEF KernelInv, TypeOK, LockExclusion

(* Who runs is alive.                                                      *)
LEMMA RunnerAlive ==
  ASSUME KernelInv, NEW t \in Threads, status[t] = "RUNNING"
  PROVE  /\ ~ Dead(t) /\ life[t] # "new" /\ t = currentThread
         /\ \A s \in Sems : ~ Listed(t, queue[s])
<1>1. t = currentThread /\ \A s \in Sems : ~ Listed(t, queue[s])
  BY DEF KernelInv, ThreadInv, OnePlace, RunningInv, QueueInv
<1>2. life[t] # "new"
  BY DEF KernelInv, ThreadInv, NewInv
<1>3. ~ Dead(t)
  BY DEF KernelInv, ThreadInv, DeadInv
<1> QED
  BY <1>1, <1>2, <1>3

(* At the disk there is only one thread, the one that has the lock.        *)
LEMMA OneAtDisk ==
  ASSUME Placed, DiskInv, NEW t \in Threads
  PROVE  /\ Using(t) => AtDisk(t)
         /\ AtDisk(t) => \A x \in Threads : x # t => ~ AtDisk(x) /\ ~ Using(x)
<1>1. \A x \in Threads : Using(x) => AtDisk(x)
  BY Constants DEF Using, AtDisk, Placed
<1> QED
  BY <1>1 DEF DiskInv

(* What a thread does to the semaphore it waits for, going in or woken.    *)
AtP(t, s, to) ==
  \/ s = DiskLock /\ to = "request" /\ pc[t] = IF on[t] = NULL THEN "user" ELSE to
  \/ s = DiskDone /\ to = "release" /\ pc[t] = IF on[t] = NULL THEN "sleep" ELSE to
  \/ s = ReadAvail /\ to = "put" /\ pc[t] = IF on[t] = NULL THEN "char" ELSE to
  \/ s = WriteDone /\ to = "char" /\ pc[t] = IF on[t] = NULL THEN "shown" ELSE to

LEMMA TryPOwn ==
  ASSUME KernelInv, OwnTypes, Own, NEW t \in Threads, NEW s \in Sems, NEW to,
         status[t] = "RUNNING", TryP(t, s), on[t] \in {s, NULL}, AtP(t, s, to),
         pc' = [pc EXCEPT ![t] = to],
         UNCHANGED <<life, list, active, incoming, putBusy, typed, screen>>
  PROVE  Own'
<1> USE Constants
<1>1. /\ \A x \in Threads : pc'[x] = IF x = t THEN to ELSE pc[x]
      /\ ~ Dead(t) /\ life[t] # "new"
      /\ DiskLock \in Sems /\ DiskDone \in Sems /\ ReadAvail \in Sems /\ WriteDone \in Sems
  BY RunnerAlive DEF OwnTypes
<1>2. \/ /\ value[s] = 0 /\ value' = value /\ holder' = holder
         /\ \A x \in Threads : on'[x] = IF x = t THEN s ELSE on[x]
      \/ /\ value[s] > 0 /\ \A r \in Sems : value'[r] = IF r = s THEN value[s] - 1 ELSE value[r]
         /\ \A x \in Threads : on'[x] = IF x = t THEN NULL ELSE on[x]
         /\ holder'[DiskLock] = IF s = DiskLock THEN t ELSE holder[DiskLock]
  BY KernelTypes DEF TryP
<1>3. \A x \in Threads : on'[x] = on[x] \/ (x = t /\ on'[x] \in {s, NULL})
  BY <1>2
<1>4. Placed'
  <2> SUFFICES ASSUME NEW x \in Threads
               PROVE  /\ pc'[x] \in IF x = Echo THEN {"console", "char", "put", "shown"}
                                    ELSE {"user", "request", "sleep", "release"}
                      /\ on'[x] = DiskLock => pc'[x] = "request"
                      /\ on'[x] = DiskDone => pc'[x] = "release"
                      /\ on'[x] = ReadAvail => pc'[x] = "put"
                      /\ on'[x] = WriteDone => pc'[x] = "char"
                      /\ life[x] = "new" \/ Dead(x) => pc'[x] \in {"user", "console"}
    BY DEF Placed, Dead
  <2>1. CASE x # t
    BY <1>1, <1>3, <2>1 DEF Own, Placed
  <2>2. CASE x = t
    BY <1>1, <1>3, <2>2 DEF Own, Placed, AtP
  <2> QED
    BY <2>1, <2>2
<1>5. DiskInv'
  <2>1. \A x \in Threads : x # t => (AtDisk(x)' <=> AtDisk(x)) /\ (Using(x)' <=> Using(x))
    BY <1>1, <1>3 DEF AtDisk, Using
  <2>2. CASE s = DiskLock
    <3>1. ~ AtDisk(t) /\ ~ Using(t) /\ ~ Using(t)' /\ (AtDisk(t)' <=> on'[t] = NULL)
      BY <1>1, <1>3, <2>2 DEF AtP, AtDisk, Using
    <3>2. value'[DiskDone] = value[DiskDone]
      BY <1>1, <1>2, <2>2
    <3>3. \A x \in Threads : holder'[DiskLock] = x <=> AtDisk(x)'
      BY <1>2, <2>1, <2>2, <3>1, KernelTypes DEF Own, DiskInv
    <3>4. (\E x \in Threads : Using(x)') <=> (\E x \in Threads : Using(x))
      BY <2>1, <3>1
    <3> QED
      BY <3>2, <3>3, <3>4 DEF Own, DiskInv, Bit
  <2>3. CASE s = DiskDone
    <3>1. AtDisk(t) /\ Using(t) /\ AtDisk(t)' /\ (Using(t)' <=> on'[t] = DiskDone)
      BY <1>1, <1>3, <2>3 DEF AtP, AtDisk, Using
    <3>2. holder'[DiskLock] = holder[DiskLock]
      BY <1>2, <2>3
    <3>3. \A x \in Threads : holder'[DiskLock] = x <=> AtDisk(x)'
      BY <2>1, <3>1, <3>2 DEF Own, DiskInv
    <3>4. \A x \in Threads : x # t => ~ Using(x)'
      BY <2>1, <3>1, OneAtDisk DEF Own
    <3>5. Bit(active) + value[DiskDone] = 1 /\ Bit(active) \in {0, 1}
      BY <3>1 DEF Own, DiskInv, Bit
    <3>6. Bit(\E x \in Threads : Using(x)') = Bit(on'[t] = DiskDone)
      BY <3>1, <3>4 DEF Bit
    <3>7. Bit(active) + value'[DiskDone] = Bit(on'[t] = DiskDone)
      BY <1>1, <1>2, <2>3, <3>5, KernelTypes DEF Bit
    <3> QED
      BY <3>3, <3>6, <3>7 DEF DiskInv, Bit
  <2>4. CASE s \in {ReadAvail, WriteDone}
    <3>1. /\ ~ AtDisk(t) /\ ~ Using(t) /\ ~ Using(t)' /\ ~ AtDisk(t)'
      BY <1>1, <2>4 DEF AtP, AtDisk, Using
    <3>2. holder'[DiskLock] = holder[DiskLock] /\ value'[DiskDone] = value[DiskDone]
      BY <1>1, <1>2, <2>4
    <3>3. (\E x \in Threads : Using(x)') <=> (\E x \in Threads : Using(x))
      BY <2>1, <3>1
    <3> QED
      BY <2>1, <3>1, <3>2, <3>3 DEF Own, DiskInv, Bit
  <2> QED
    BY <2>2, <2>3, <2>4
<1>6. ConsoleInv'
  <2>1. t = Echo <=> s \in {ReadAvail, WriteDone}
    BY DEF AtP, Own, Placed
  <2>2. CASE t # Echo
    <3>1. /\ value'[ReadAvail] = value[ReadAvail] /\ value'[WriteDone] = value[WriteDone]
          /\ pc'[Echo] = pc[Echo] /\ on'[Echo] = on[Echo]
      BY <1>1, <1>2, <2>1, <2>2
    <3> QED
      BY <3>1 DEF Own, ConsoleInv, EchoInOrder
  <2>3. CASE s = ReadAvail
    <3>1. /\ t = Echo /\ value'[WriteDone] = value[WriteDone]
          /\ pc'[Echo] = "put" /\ on'[Echo] \in {ReadAvail, NULL}
          /\ pc[Echo] = IF on[Echo] = NULL THEN "char" ELSE "put"
          /\ on[Echo] \in {ReadAvail, NULL}
      BY <1>1, <1>2, <1>3, <2>1, <2>3 DEF AtP
    <3>2. value[ReadAvail] = Bit(incoming # 0)
      BY <3>1, KernelTypes DEF Own, ConsoleInv, Bit
    <3>3. value'[ReadAvail] = value[ReadAvail] - Bit(on'[Echo] = NULL)
      BY <1>1, <1>2, <2>3, <3>1, KernelTypes DEF Bit
    <3>4. /\ Bit(pc'[Echo] = "put" /\ on'[Echo] = NULL) = Bit(on'[Echo] = NULL)
          /\ Bit(pc'[Echo] = "shown" \/ (pc'[Echo] = "char" /\ on'[Echo] = WriteDone)) = 0
          /\ Bit(pc[Echo] = "shown" \/ (pc[Echo] = "char" /\ on[Echo] = WriteDone)) = 0
      BY <3>1 DEF Bit
    <3>5. /\ Bit(incoming # 0) = value'[ReadAvail] + Bit(pc'[Echo] = "put" /\ on'[Echo] = NULL)
          /\ Bit(putBusy) + value'[WriteDone] =
               Bit(pc'[Echo] = "shown" \/ (pc'[Echo] = "char" /\ on'[Echo] = WriteDone))
      BY <3>1, <3>2, <3>3, <3>4, KernelTypes DEF Own, ConsoleInv, Bit
    <3> QED
      BY <3>5 DEF Own, ConsoleInv, EchoInOrder
  <2>4. CASE s = WriteDone
    <3>1. /\ t = Echo /\ value'[ReadAvail] = value[ReadAvail]
          /\ pc'[Echo] = "char" /\ on'[Echo] \in {WriteDone, NULL}
          /\ pc[Echo] = IF on[Echo] = NULL THEN "shown" ELSE "char"
          /\ on[Echo] \in {WriteDone, NULL}
      BY <1>1, <1>2, <1>3, <2>1, <2>4 DEF AtP
    <3>2. Bit(putBusy) + value[WriteDone] = 1 /\ Bit(putBusy) \in {0, 1}
      BY <3>1, KernelTypes DEF Own, ConsoleInv, Bit
    <3>3. value'[WriteDone] = value[WriteDone] - Bit(on'[Echo] = NULL)
      BY <1>1, <1>2, <2>4, <3>1, KernelTypes DEF Bit
    <3>4. /\ Bit(pc'[Echo] = "put" /\ on'[Echo] = NULL) = 0
          /\ Bit(pc[Echo] = "put" /\ on[Echo] = NULL) = 0
          /\ Bit(pc'[Echo] = "shown" \/ (pc'[Echo] = "char" /\ on'[Echo] = WriteDone))
               = 1 - Bit(on'[Echo] = NULL)
      BY <3>1 DEF Bit
    <3>5. /\ Bit(incoming # 0) = value'[ReadAvail] + Bit(pc'[Echo] = "put" /\ on'[Echo] = NULL)
          /\ Bit(putBusy) + value'[WriteDone] =
               Bit(pc'[Echo] = "shown" \/ (pc'[Echo] = "char" /\ on'[Echo] = WriteDone))
      BY <3>1, <3>2, <3>3, <3>4, KernelTypes DEF Own, ConsoleInv, Bit
    <3> QED
      BY <3>5 DEF Own, ConsoleInv, EchoInOrder
  <2> QED
    BY <2>1, <2>2, <2>3, <2>4
<1>7. PendingInv'
  <2>1. pc'[Echo] # "console" <=> pc[Echo] # "console"
    BY <1>1 DEF AtP
  <2> QED
    BY <2>1 DEF Own, PendingInv, Once, Has
<1> QED
  BY <1>4, <1>5, <1>6, <1>7 DEF Own

(* What leaves the places, the counts and the kinds of the pending         *)
(* interrupts as they were; a thread that finishes is at no device.        *)
LEMMA OwnFrame ==
  ASSUME Own, UNCHANGED <<pc, on, value, holder, active, incoming, putBusy, typed, screen>>,
         Once(list'), \A type : Has(list', type) <=> Has(list, type),
         \A x \in Threads : /\ life'[x] = "new" => life[x] = "new"
                            /\ Dead(x)' => Dead(x) \/ pc[x] \in {"user", "console"}
  PROVE  Own'
<1>1. Placed'
  BY DEF Own, Placed
<1>2. DiskInv' /\ ConsoleInv' /\ PendingInv'
  BY DEF Own, DiskInv, ConsoleInv, PendingInv, EchoInOrder, AtDisk, Using
<1> QED
  BY <1>1, <1>2 DEF Own

(* A call ends with interrupts about to be enabled, or in Sleep.           *)
LEMMA CallPhases ==
  ASSUME NEW t, t = currentThread, currentThread' = currentThread, AfterCall(t),
         mode' = "SystemMode", status'[t] = "RUNNING" => on'[t] = NULL
  PROVE  Phases' /\ HaltInv'
BY DEF AfterCall, Phases, HaltInv

LEMMA TryPAfter ==
  ASSUME KernelInv, NEW t \in Threads, NEW s \in Sems, TryP(t, s)
  PROVE  status'[t] = "RUNNING" => on'[t] = NULL
BY KernelTypes DEF TryP, KernelInv, TypeOK

LEMMA ForkThreadStep ==
  ASSUME MachineInv, NEW t \in Threads, NEW new \in Threads, ForkThread(t, new)
  PROVE  MachineInv'
<1>1. /\ KernelInv /\ OwnTypes /\ ~ crashed /\ Own /\ Running(t) /\ Fork(t, new)
      /\ UNCHANGED <<list, yieldOnReturn, pc, active, incoming, putBusy, typed, screen, crashed>>
  BY Parts DEF ForkThread, Executing, diskVars, consoleVars
<1>2. KernelInv'
  BY <1>1, KernelStep DEF Next, Call
<1>3. /\ life' = [life EXCEPT ![new] = "forked"] /\ currentThread' = currentThread
      /\ UNCHANGED <<on, value, holder>> /\ mode' = "SystemMode"
      /\ t = currentThread /\ on[t] = NULL
  BY <1>1 DEF Fork, Running, synchVars, machVars
<1>4. OwnTypes'
  BY <1>1 DEF OwnTypes, ForkThread, AfterCall
<1>5. Own'
  <2>1. life \in [Threads -> {"new", "forked", "started", "finished", "deleted"}]
    BY <1>1 DEF KernelInv, TypeOK
  <2>2. \A x \in Threads : /\ life'[x] = "new" => life[x] = "new"
                           /\ Dead(x)' => Dead(x)
    BY <1>3, <2>1 DEF Dead
  <2>3. Once(list)
    BY <1>1 DEF Own, PendingInv
  <2> QED
    BY <1>1, <1>3, <2>2, <2>3, OwnFrame
<1>6. Phases' /\ HaltInv'
  BY <1>3, CallPhases DEF ForkThread
<1> QED
  BY <1>1, <1>2, <1>4, <1>5, <1>6, PartsNext

LEMMA FinishThreadStep ==
  ASSUME MachineInv, NEW t \in Threads, FinishThread(t)
  PROVE  MachineInv'
<1>1. /\ KernelInv /\ OwnTypes /\ ~ crashed /\ Own /\ Running(t) /\ Finish(t)
      /\ pc[t] = "user"
      /\ UNCHANGED <<list, yieldOnReturn, pc, active, incoming, putBusy, typed, screen, crashed>>
  BY Parts DEF FinishThread, Executing, diskVars, consoleVars
<1>2. KernelInv'
  BY <1>1, KernelStep DEF Next, Call
<1>3. /\ life' = [life EXCEPT ![t] = "finished"] /\ currentThread' = currentThread
      /\ UNCHANGED <<on, value, holder>> /\ mode' = "SystemMode"
      /\ t = currentThread /\ on[t] = NULL
  BY <1>1 DEF Finish, Running, synchVars, machVars
<1>4. OwnTypes'
  BY <1>1 DEF OwnTypes, FinishThread, AfterCall
<1>5. Own'
  <2>1. life \in [Threads -> {"new", "forked", "started", "finished", "deleted"}]
    BY <1>1 DEF KernelInv, TypeOK
  <2>2. \A x \in Threads : /\ life'[x] = "new" => life[x] = "new"
                           /\ Dead(x)' => Dead(x) \/ pc[x] = "user"
    BY <1>1, <1>3, <2>1 DEF Dead
  <2>3. Once(list)
    BY <1>1 DEF Own, PendingInv
  <2> QED
    BY <1>1, <1>3, <2>2, <2>3, OwnFrame
<1>6. Phases' /\ HaltInv'
  BY <1>3, CallPhases DEF FinishThread
<1> QED
  BY <1>1, <1>2, <1>4, <1>5, <1>6, PartsNext

(* A turn of a P loop, by a call of P or of one who was woken.             *)
LEMMA TurnStep ==
  ASSUME MachineInv, NEW t \in Threads, NEW s \in Sems, NEW to \in Places,
         KernelInv', mode = "SystemMode", t = currentThread, status[t] = "RUNNING", TryP(t, s),
         on[t] \in {s, NULL}, AtP(t, s, to), pc' = [pc EXCEPT ![t] = to], AfterCall(t),
         UNCHANGED <<currentThread, life, mode, list, yieldOnReturn, active,
                     incoming, putBusy, typed, screen, crashed>>
  PROVE  MachineInv'
<1>1. KernelInv /\ OwnTypes /\ ~ crashed /\ Own
  BY Parts
<1>2. OwnTypes'
  BY <1>1 DEF OwnTypes, AfterCall
<1>3. Own'
  BY <1>1, TryPOwn
<1>4. Phases' /\ HaltInv'
  BY <1>1, TryPAfter, CallPhases
<1> QED
  BY <1>1, <1>2, <1>3, <1>4, PartsNext

LEMMA GoOnStep ==
  ASSUME MachineInv, NEW t \in Threads, GoOn(t)
  PROVE  MachineInv'
<1>1. /\ KernelInv /\ OwnTypes /\ Own /\ HaltInv /\ Resume(t) /\ AfterCall(t)
      /\ UNCHANGED <<list, yieldOnReturn, pc, active, incoming, putBusy, typed, screen, crashed>>
  BY Parts DEF GoOn, diskVars, consoleVars
<1>2. PICK s : s = on[t]
  OBVIOUS
<1>3. s \in Sems /\ s # NULL /\ TryP(t, s) /\ t = currentThread /\ status[t] = "RUNNING"
      /\ UNCHANGED <<currentThread, life, mode>>
  BY <1>1, <1>2, KernelTypes, Constants DEF Resume, machVars
<1>4. KernelInv'
  BY <1>1, KernelStep DEF Next, Kernel
<1>5. mode = "SystemMode"
  BY <1>1, <1>3 DEF HaltInv, KernelInv, ThreadInv, IdleInv, TypeOK
<1>6. PICK to : to = pc[t]
  OBVIOUS
<1>7. to \in Places /\ pc' = [pc EXCEPT ![t] = to]
  BY <1>1, <1>6 DEF OwnTypes
<1>8. AtP(t, s, to)
  BY <1>1, <1>2, <1>3, <1>6, Constants DEF AtP, Own, Placed
<1> QED
  BY <1>1, <1>2, <1>3, <1>4, <1>5, <1>7, <1>8, TurnStep

(* The same by a call of P.                                                *)
LEMMA CallPStep ==
  ASSUME MachineInv, NEW t \in Threads, NEW s \in Sems, NEW from, NEW to \in Places,
         Step(t, from, to), P(t, s), AfterCall(t), on[t] = NULL => AtP(t, s, to),
         UNCHANGED <<list, yieldOnReturn, active, incoming, putBusy, typed, screen, crashed>>
  PROVE  MachineInv'
<1>1. /\ KernelInv /\ TryP(t, s) /\ on[t] = NULL /\ mode = "SystemMode"
      /\ t = currentThread /\ status[t] = "RUNNING" /\ pc' = [pc EXCEPT ![t] = to]
      /\ UNCHANGED <<currentThread, life, mode>>
  BY Parts DEF P, Running, machVars, Step
<1>2. KernelInv'
  BY <1>1, KernelStep DEF Next, Call
<1> QED
  BY <1>1, <1>2, TurnStep

LEMMA WaitsStep ==
  ASSUME MachineInv, NEW t \in Threads,
         AcquireDisk(t) \/ AwaitDisk(t) \/ AwaitChar(t) \/ AwaitShown(t)
  PROVE  MachineInv'
<1> USE DEF diskVars, consoleVars, Places
<1>1. CASE AcquireDisk(t)
  <2>1. DiskLock \in Sems /\ (on[t] = NULL => AtP(t, DiskLock, "request"))
    BY <1>1, Constants DEF AcquireDisk, Step, AtP
  <2> QED
    BY <1>1, <2>1, CallPStep DEF AcquireDisk
<1>2. CASE AwaitDisk(t)
  <2>1. DiskDone \in Sems /\ (on[t] = NULL => AtP(t, DiskDone, "release"))
    BY <1>2, Constants DEF AwaitDisk, Step, AtP
  <2> QED
    BY <1>2, <2>1, CallPStep DEF AwaitDisk
<1>3. CASE AwaitChar(t)
  <2>1. ReadAvail \in Sems /\ (on[t] = NULL => AtP(t, ReadAvail, "put"))
    BY <1>3, Constants DEF AwaitChar, Step, AtP
  <2> QED
    BY <1>3, <2>1, CallPStep DEF AwaitChar
<1>4. CASE AwaitShown(t)
  <2>1. WriteDone \in Sems /\ (on[t] = NULL => AtP(t, WriteDone, "char"))
    BY <1>4, Constants DEF AwaitShown, Step, AtP
  <2> QED
    BY <1>4, <2>1, CallPStep DEF AwaitShown
<1> QED
  BY <1>1, <1>2, <1>3, <1>4

(* The context switch of Yield and of the end of Sleep.                    *)
LEMMA SwitchStep ==
  ASSUME MachineInv, KernelInv', readyList # <<>>, SwitchTo(Head(readyList)),
         status'[Head(readyList)] = "RUNNING", phase' = Entry(Head(readyList)),
         mode' = "SystemMode", yieldOnReturn' \in BOOLEAN,
         UNCHANGED <<on, value, holder, pc, active, incoming, putBusy, typed, screen, crashed>>,
         list' \in Seq(Pending), Sorted(list'), Once(list'),
         \A type : Has(list', type) <=> Has(list, type)
  PROVE  MachineInv'
<1>1. KernelInv /\ OwnTypes /\ ~ crashed /\ Own
  BY Parts
<1>2. OwnTypes'
  BY <1>1 DEF OwnTypes, Entry
<1>3. Own'
  <2>1. /\ life \in [Threads -> {"new", "forked", "started", "finished", "deleted"}]
        /\ threadToBeDestroyed # NULL => life[threadToBeDestroyed] = "finished"
        /\ NULL \notin Threads
    BY <1>1, Constants DEF KernelInv, TypeOK, ThreadInv, DeadInv
  <2>2. \A x \in Threads : /\ life'[x] = "new" => life[x] = "new"
                           /\ Dead(x)' => Dead(x)
    BY <2>1 DEF SwitchTo, Dead
  <2> QED
    BY <1>1, <2>2, OwnFrame
<1>4. Phases' /\ HaltInv'
  BY DEF SwitchTo, Entry, Phases, HaltInv
<1> QED
  BY <1>1, <1>2, <1>3, <1>4, PartsNext

LEMMA ListKept ==
  ASSUME OwnTypes, Own
  PROVE  list \in Seq(Pending) /\ Sorted(list) /\ Once(list)
BY DEF OwnTypes, Own, PendingInv

LEMMA GiveProcessorStep ==
  ASSUME MachineInv, GiveProcessor
  PROVE  MachineInv'
<1>1. /\ KernelInv /\ OwnTypes /\ Own /\ Dispatch /\ phase' = Entry(Head(readyList))
      /\ UNCHANGED <<list, yieldOnReturn, pc, active, incoming, putBusy, typed, screen, crashed>>
  BY Parts DEF GiveProcessor, diskVars, consoleVars
<1>2. KernelInv'
  BY <1>1, KernelStep DEF Next, Kernel
<1>3. /\ readyList # <<>> /\ SwitchTo(Head(readyList)) /\ mode' = "SystemMode"
      /\ status' = [status EXCEPT ![Head(readyList)] = "RUNNING"]
      /\ UNCHANGED <<on, value, holder>>
  BY <1>1 DEF Dispatch, synchVars
<1>4. status'[Head(readyList)] = "RUNNING"
  BY <1>1, <1>3, SwitchType DEF KernelInv, TypeOK
<1>5. yieldOnReturn' \in BOOLEAN
  BY <1>1 DEF OwnTypes
<1> QED
  BY <1>1, <1>2, <1>3, <1>4, <1>5, ListKept, SwitchStep

LEMMA EndTickStep ==
  ASSUME MachineInv, EndTick
  PROVE  MachineInv'
<1>1. /\ KernelInv /\ OwnTypes /\ ~ crashed /\ Own /\ Phases /\ HaltInv
      /\ phase = "check" /\ list' = PutBack /\ yieldOnReturn' = FALSE
      /\ UNCHANGED <<pc, active, incoming, putBusy, typed, screen, crashed>>
  BY Parts DEF EndTick, diskVars, consoleVars
<1>2. /\ list' \in Seq(Pending) /\ Sorted(list') /\ Once(list')
      /\ \A type : Has(list', type) <=> Has(list, type)
  <2>1. list \in Seq(Pending) /\ Sorted(list) /\ Once(list)
    BY <1>1, ListKept
  <2> QED
    BY <1>1, <2>1, PutBackKeeps
<1>3. /\ status[currentThread] = "RUNNING" /\ on[currentThread] = NULL /\ mode = "SystemMode"
  BY <1>1 DEF Phases
<1>4. CASE ~ yieldOnReturn \/ readyList = <<>>
  <2>1. phase' \in {"run", "tick"} /\ UNCHANGED vars
    BY <1>4 DEF EndTick
  <2>2. UNCHANGED <<currentThread, status, on, value, holder, life, mode>>
    BY <2>1 DEF vars, threadVars, synchVars, machVars
  <2>3. KernelInv'
    BY <1>1, <2>1, KernelStep
  <2>4. OwnTypes'
    BY <1>1, <1>2, <2>1 DEF OwnTypes
  <2>5. Own'
    BY <1>1, <1>2, <2>2, OwnFrame DEF Dead
  <2>6. Phases' /\ HaltInv'
    BY <1>3, <2>1, <2>2 DEF Phases, HaltInv
  <2> QED
    BY <1>1, <2>3, <2>4, <2>5, <2>6, PartsNext
<1>5. CASE yieldOnReturn /\ readyList # <<>>
  <2>1. phase' = Entry(Head(readyList)) /\ Yield(currentThread)
    BY <1>5 DEF EndTick
  <2>2. KernelInv'
    BY <1>1, <2>1, KernelStep, KernelTypes DEF Next, Kernel
  <2>3. /\ SwitchTo(Head(readyList)) /\ UNCHANGED <<on, value, holder>> /\ mode' = "SystemMode"
        /\ status' = [status EXCEPT ![currentThread] = "READY", ![Head(readyList)] = "RUNNING"]
    BY <1>3, <2>1 DEF Yield, synchVars, machVars
  <2>4. status'[Head(readyList)] = "RUNNING"
    BY <1>1, <1>5, <2>3, SwitchType, KernelTypes DEF KernelInv, TypeOK
  <2>5. yieldOnReturn' \in BOOLEAN
    BY <1>1
  <2> QED
    BY <1>1, <1>2, <1>5, <2>1, <2>2, <2>3, <2>4, <2>5, SwitchStep
<1> QED
  BY <1>4, <1>5

(* Steps of the clock alone: neither threads nor devices change.           *)
LEMMA ClockStep ==
  ASSUME MachineInv, UNCHANGED <<vars, pc, active, incoming, putBusy, typed, screen, crashed>>,
         list' \in Seq(Pending), Sorted(list'), Once(list'),
         \A type : Has(list', type) <=> Has(list, type),
         yieldOnReturn' \in BOOLEAN, mode # "Halted",
         phase' = phase \/ phase' = "idle" \/ (phase = "tick" /\ phase' = "check")
  PROVE  MachineInv'
<1>1. KernelInv /\ OwnTypes /\ ~ crashed /\ Own /\ Phases
  BY Parts
<1>2. UNCHANGED <<currentThread, status, on, value, holder, life, mode>>
  BY DEF vars, threadVars, synchVars, machVars
<1>3. KernelInv'
  BY <1>1, KernelStep
<1>4. OwnTypes'
  BY <1>1 DEF OwnTypes
<1>5. Own'
  BY <1>1, <1>2, OwnFrame DEF Dead
<1>6. Phases' /\ HaltInv'
  BY <1>1, <1>2 DEF Phases, HaltInv
<1> QED
  BY <1>1, <1>3, <1>4, <1>5, <1>6, PartsNext

LEMMA OneTickStep ==
  ASSUME MachineInv, OneTick
  PROVE  MachineInv'
<1>1. OwnTypes /\ Own /\ Phases
  BY Parts
<1>2. list \in Seq(Pending) /\ Sorted(list) /\ Once(list) /\ SystemTick \in Int
  BY <1>1, ListKept, MachineAssumption
<1>3. /\ list' = Elapse(list, SystemTick) /\ phase = "tick" /\ phase' = "check"
      /\ UNCHANGED <<vars, yieldOnReturn, pc, active, incoming, putBusy, typed, screen, crashed>>
  BY DEF OneTick, diskVars, consoleVars
<1>4. /\ list' \in Seq(Pending) /\ Sorted(list') /\ Once(list')
      /\ \A type : Has(list', type) <=> Has(list, type)
  BY <1>2, <1>3, Elapsed
<1>5. yieldOnReturn' \in BOOLEAN /\ mode # "Halted"
  BY <1>1, <1>3 DEF OwnTypes, Phases
<1> QED
  BY <1>3, <1>4, <1>5, ClockStep

LEMMA EndIdleStep ==
  ASSUME MachineInv, EndIdle
  PROVE  MachineInv'
<1>1. OwnTypes /\ Own /\ Phases
  BY Parts
<1>2. list \in Seq(Pending) /\ Sorted(list) /\ Once(list)
  BY <1>1, ListKept
<1>3. /\ list' = PutBack /\ phase = "drain" /\ phase' = "idle" /\ yieldOnReturn' = FALSE
      /\ UNCHANGED <<vars, pc, active, incoming, putBusy, typed, screen, crashed>>
  BY DEF EndIdle, diskVars, consoleVars
<1>4. /\ list' \in Seq(Pending) /\ Sorted(list') /\ Once(list')
      /\ \A type : Has(list', type) <=> Has(list, type)
  BY <1>2, <1>3, PutBackKeeps
<1>5. yieldOnReturn' \in BOOLEAN /\ mode # "Halted"
  BY <1>1, <1>3 DEF Phases
<1> QED
  BY <1>3, <1>4, <1>5, ClockStep

(* An interrupt is served under a thread that runs, or in the idle loop.   *)
LEMMA Served ==
  ASSUME MachineInv, NEW type, Serve(type)
  PROVE  /\ phase \in {"check", "drain"} /\ mode # "Halted"
         /\ list # <<>> /\ Head(list).type = type /\ Has(list, type)
         /\ Tail(list) \in Seq(Pending) /\ Sorted(Tail(list)) /\ Once(Tail(list))
         /\ \A other : Has(Tail(list), other) <=> Has(list, other) /\ other # type
<1>1. OwnTypes /\ Own /\ HaltInv
  BY Parts
<1>2. list \in Seq(Pending) /\ Sorted(list) /\ Once(list)
  BY <1>1, ListKept
<1>3. phase \in {"check", "drain"} /\ list # <<>> /\ Head(list).type = type
  BY DEF Serve, Due
<1> QED
  BY <1>1, <1>2, <1>3, Removed DEF HaltInv

(* Schedule of an interrupt of a type that is not pending.                 *)
LEMMA Scheduled ==
  ASSUME NEW seq \in Seq(Pending), Sorted(seq), Once(seq), NEW type \in Types,
         NEW fromNow \in Int, ~ Has(seq, type)
  PROVE  LET r == Schedule(seq, type, fromNow) IN
         /\ r \in Seq(Pending) /\ Sorted(r) /\ Once(r)
         /\ \A other : Has(r, other) <=> Has(seq, other) \/ other = type
<1> DEFINE item == [type |-> type, in |-> fromNow]
<1>1. item \in Pending /\ item.type = type
  BY DEF Pending
<1>2. Schedule(seq, type, fromNow) = SortedInsert(seq, item)
  BY DEF Schedule
<1> HIDE DEF item
<1> QED
  BY <1>1, <1>2, SortedInserted

LEMMA TimerExpiredStep ==
  ASSUME MachineInv, TimerExpired
  PROVE  MachineInv'
<1>1. /\ Serve("TimerInt") /\ yieldOnReturn' \in BOOLEAN /\ phase' = phase
      /\ UNCHANGED <<vars, pc, active, incoming, putBusy, typed, screen, crashed>>
  BY DEF TimerExpired, diskVars, consoleVars
<1>2. PICK d \in TimerDelays : list' = Schedule(Tail(list), "TimerInt", d)
  BY DEF TimerExpired
<1>3. d \in Int /\ "TimerInt" \in Types
  BY MachineAssumption DEF Types
<1>4. /\ list' \in Seq(Pending) /\ Sorted(list') /\ Once(list')
      /\ \A type : Has(list', type) <=> Has(list, type)
  BY <1>1, <1>2, <1>3, Served, Scheduled
<1> QED
  BY <1>1, <1>4, Served, ClockStep

-----------------------------------------------------------------------------
(* The steps that the devices are in.                                      *)

(* A step of a thread between two calls.                                   *)
LEMMA BetweenCalls ==
  ASSUME MachineInv, NEW t \in Threads, NEW from, NEW to, Step(t, from, to),
         UNCHANGED <<vars, phase>>
  PROVE  /\ KernelInv' /\ Phases' /\ HaltInv'
         /\ UNCHANGED <<on, value, holder, life>> /\ on[t] = NULL /\ pc[t] = from
         /\ \A x \in Threads : pc'[x] = IF x = t THEN to ELSE pc[x]
         /\ ~ Dead(t) /\ life[t] # "new" /\ (to \in Places => pc' \in [Threads -> Places])
<1>1. KernelInv /\ OwnTypes
  BY Parts
<1>2. /\ phase = "run" /\ mode = "SystemMode" /\ status[t] = "RUNNING" /\ on[t] = NULL
      /\ pc' = [pc EXCEPT ![t] = to] /\ pc[t] = from
  BY DEF Step, Executing, Running
<1>3. UNCHANGED <<on, value, holder, life, mode>>
  BY DEF vars, threadVars, synchVars, machVars
<1>4. KernelInv'
  BY <1>1, KernelStep
<1>5. Phases' /\ HaltInv'
  BY <1>2, <1>3 DEF Phases, HaltInv
<1> QED
  BY <1>1, <1>2, <1>3, <1>4, <1>5, RunnerAlive DEF OwnTypes

(* Placed, for a thread that goes on while it waits for nothing.           *)
LEMMA PlacedStep ==
  ASSUME Placed, NEW t \in Threads, NEW to, UNCHANGED <<on, life>>, on[t] = NULL,
         \A x \in Threads : pc'[x] = IF x = t THEN to ELSE pc[x],
         to \in IF t = Echo THEN {"console", "char", "put", "shown"}
                            ELSE {"user", "request", "sleep", "release"},
         ~ Dead(t), life[t] # "new"
  PROVE  Placed'
BY Constants DEF Placed, Dead

LEMMA DiskRequestStep ==
  ASSUME MachineInv, NEW t \in Threads, DiskRequest(t)
  PROVE  MachineInv'
<1> USE Constants
<1>1. KernelInv /\ OwnTypes /\ ~ crashed /\ Own
  BY Parts
<1>2. /\ Step(t, "request", "sleep")
      /\ UNCHANGED <<vars, phase, yieldOnReturn, incoming, putBusy, typed, screen>>
  BY DEF DiskRequest, consoleVars
<1>3. /\ KernelInv' /\ Phases' /\ HaltInv'
      /\ UNCHANGED <<on, value, holder, life>> /\ on[t] = NULL /\ pc[t] = "request"
      /\ \A x \in Threads : pc'[x] = IF x = t THEN "sleep" ELSE pc[x]
      /\ ~ Dead(t) /\ life[t] # "new" /\ pc' \in [Threads -> Places]
  BY <1>2, BetweenCalls DEF Places
<1>4. t # Echo /\ AtDisk(t) /\ ~ Using(t)
  BY <1>1, <1>3 DEF Own, Placed, AtDisk, Using
<1>5. \A x \in Threads : ~ Using(x)
  BY <1>1, <1>4, OneAtDisk DEF Own
<1>6. ~ active /\ value[DiskDone] = 0
  BY <1>1, <1>5, KernelTypes DEF Own, DiskInv, Bit
<1>7. PICK ticks \in Latencies : list' = Schedule(list, "DiskInt", ticks)
  BY <1>6 DEF DiskRequest
<1>8. active' = TRUE /\ crashed' = crashed
  BY <1>6 DEF DiskRequest
<1>9. ~ Has(list, "DiskInt") /\ ticks \in Int /\ "DiskInt" \in Types
  BY <1>1, <1>6, MachineAssumption DEF Own, PendingInv, Types
<1>10. /\ list' \in Seq(Pending) /\ Sorted(list') /\ Once(list')
       /\ \A other : Has(list', other) <=> Has(list, other) \/ other = "DiskInt"
  BY <1>1, <1>7, <1>9, ListKept, Scheduled
<1>11. OwnTypes'
  BY <1>1, <1>2, <1>3, <1>8, <1>10 DEF OwnTypes
<1>12. Placed'
  BY <1>1, <1>3, <1>4, PlacedStep DEF Own
<1>13. DiskInv'
  <2>1. \A x \in Threads : AtDisk(x)' <=> AtDisk(x)
    BY <1>3 DEF AtDisk
  <2>2. Using(t)'
    BY <1>3 DEF Using
  <2>3. Bit(active)' = 1 /\ Bit(\E x \in Threads : Using(x)') = 1
    BY <1>8, <2>2 DEF Bit
  <2> QED
    BY <1>1, <1>3, <1>6, <2>1, <2>3 DEF Own, DiskInv, Bit
<1>14. ConsoleInv'
  BY <1>1, <1>2, <1>3, <1>4 DEF Own, ConsoleInv, EchoInOrder
<1>15. PendingInv'
  <2>1. pc'[Echo] = pc[Echo] /\ putBusy' = putBusy
    BY <1>2, <1>3, <1>4
  <2> QED
    BY <1>1, <1>8, <1>10, <2>1 DEF Own, PendingInv
<1> QED
  BY <1>1, <1>3, <1>8, <1>11, <1>12, <1>13, <1>14, <1>15, PartsNext DEF Own

LEMMA ReleaseDiskStep ==
  ASSUME MachineInv, NEW t \in Threads, ReleaseDisk(t)
  PROVE  MachineInv'
<1> USE Constants
<1>1. KernelInv /\ OwnTypes /\ ~ crashed /\ Own
  BY Parts
<1>2. /\ Release(t, DiskLock) /\ AfterCall(t) /\ Executing(t) /\ pc[t] = "release"
      /\ pc' = [pc EXCEPT ![t] = "user"]
      /\ UNCHANGED <<list, yieldOnReturn, active, incoming, putBusy, typed, screen, crashed>>
  BY DEF ReleaseDisk, Step, diskVars, consoleVars
<1>3. KernelInv'
  BY <1>1, <1>2, KernelStep DEF Next, Call
<1>4. /\ t = currentThread /\ currentThread' = currentThread /\ mode' = "SystemMode"
      /\ status[t] = "RUNNING" /\ UNCHANGED <<on, life>> /\ on[t] = NULL
      /\ holder[DiskLock] = t /\ holder' = [holder EXCEPT ![DiskLock] = NULL]
      /\ value' = [value EXCEPT ![DiskLock] = value[DiskLock] + 1]
  BY <1>2 DEF Release, Running, VBody, machVars, Executing
<1>5. /\ \A x \in Threads : pc'[x] = IF x = t THEN "user" ELSE pc[x]
      /\ \A s \in Sems : s # DiskLock => value'[s] = value[s]
      /\ holder'[DiskLock] = NULL
  BY <1>1, <1>2, <1>4, KernelTypes DEF OwnTypes
<1>6. ~ Dead(t) /\ life[t] # "new" /\ t # Echo
  BY <1>1, <1>2, <1>4, RunnerAlive DEF Own, Placed
<1>7. OwnTypes'
  <2>1. pc' \in [Threads -> Places]
    BY <1>1, <1>2 DEF OwnTypes, Places
  <2> QED
    BY <1>1, <1>2, <2>1 DEF OwnTypes, AfterCall
<1>8. Placed'
  BY <1>1, <1>4, <1>5, <1>6, PlacedStep DEF Own
<1>9. DiskInv'
  <2>1. AtDisk(t) /\ ~ Using(t) /\ ~ Using(t)' /\ ~ AtDisk(t)'
    BY <1>2, <1>4, <1>5 DEF AtDisk, Using
  <2>2. \A x \in Threads : x # t => ~ AtDisk(x)
    BY <1>1, <2>1, OneAtDisk DEF Own
  <2>3. \A x \in Threads : x # t => (AtDisk(x)' <=> AtDisk(x)) /\ (Using(x)' <=> Using(x))
    BY <1>4, <1>5 DEF AtDisk, Using
  <2>4. \A x \in Threads : holder'[DiskLock] = x <=> AtDisk(x)'
    BY <1>5, <2>1, <2>2, <2>3
  <2>5. (\E x \in Threads : Using(x)') <=> (\E x \in Threads : Using(x))
    BY <2>1, <2>3
  <2> QED
    BY <1>1, <1>2, <1>5, <2>4, <2>5 DEF Own, DiskInv, Bit
<1>10. ConsoleInv'
  <2>1. /\ value'[ReadAvail] = value[ReadAvail] /\ value'[WriteDone] = value[WriteDone]
        /\ pc'[Echo] = pc[Echo]
    BY <1>5, <1>6
  <2> QED
    BY <1>1, <1>2, <1>4, <2>1 DEF Own, ConsoleInv, EchoInOrder
<1>11. PendingInv'
  <2>1. pc'[Echo] = pc[Echo]
    BY <1>5, <1>6
  <2> QED
    BY <1>1, <1>2, <2>1 DEF Own, PendingInv
<1>12. Phases' /\ HaltInv'
  BY <1>2, <1>4, CallPhases
<1> QED
  BY <1>1, <1>2, <1>3, <1>7, <1>8, <1>9, <1>10, <1>11, <1>12, PartsNext DEF Own

LEMMA NewConsoleStep ==
  ASSUME MachineInv, NEW t \in Threads, NewConsole(t)
  PROVE  MachineInv'
<1> USE Constants
<1>1. KernelInv /\ OwnTypes /\ ~ crashed /\ Own
  BY Parts
<1>2. /\ Step(t, "console", "char") /\ list' = Schedule(list, "ConsoleReadInt", ConsoleTime)
      /\ UNCHANGED <<vars, phase, yieldOnReturn, active, incoming, putBusy, typed, screen,
                     crashed>>
  BY DEF NewConsole, consoleVars, diskVars
<1>3. /\ KernelInv' /\ Phases' /\ HaltInv'
      /\ UNCHANGED <<on, value, holder, life>> /\ on[t] = NULL /\ pc[t] = "console"
      /\ \A x \in Threads : pc'[x] = IF x = t THEN "char" ELSE pc[x]
      /\ ~ Dead(t) /\ life[t] # "new" /\ pc' \in [Threads -> Places]
  BY <1>2, BetweenCalls DEF Places
<1>4. t = Echo
  BY <1>1, <1>3 DEF Own, Placed
<1>5. ~ Has(list, "ConsoleReadInt") /\ ConsoleTime \in Int /\ "ConsoleReadInt" \in Types
  BY <1>1, <1>3, <1>4, MachineAssumption DEF Own, PendingInv, Types
<1>6. /\ list' \in Seq(Pending) /\ Sorted(list') /\ Once(list')
      /\ \A other : Has(list', other) <=> Has(list, other) \/ other = "ConsoleReadInt"
  BY <1>1, <1>2, <1>5, ListKept, Scheduled
<1>7. OwnTypes'
  BY <1>1, <1>2, <1>3, <1>6 DEF OwnTypes
<1>8. Placed'
  BY <1>1, <1>3, <1>4, PlacedStep DEF Own
<1>9. DiskInv'
  <2>1. \A x \in Threads : (AtDisk(x)' <=> AtDisk(x)) /\ (Using(x)' <=> Using(x))
    BY <1>3 DEF AtDisk, Using
  <2> QED
    BY <1>1, <1>2, <1>3, <2>1 DEF Own, DiskInv
<1>10. ConsoleInv'
  <2>1. pc'[Echo] = "char" /\ pc[Echo] = "console" /\ on[Echo] = NULL
    BY <1>3, <1>4
  <2> QED
    BY <1>1, <1>2, <1>3, <2>1 DEF Own, ConsoleInv, EchoInOrder, Bit
<1>11. PendingInv'
  <2>1. pc'[Echo] = "char"
    BY <1>3, <1>4
  <2> QED
    BY <1>1, <1>2, <1>6, <2>1 DEF Own, PendingInv
<1> QED
  BY <1>1, <1>2, <1>3, <1>7, <1>8, <1>9, <1>10, <1>11, PartsNext DEF Own

LEMMA GetAndPutStep ==
  ASSUME MachineInv, NEW t \in Threads, GetAndPut(t)
  PROVE  MachineInv'
<1> USE Constants
<1>1. KernelInv /\ OwnTypes /\ ~ crashed /\ Own
  BY Parts
<1>2. /\ Step(t, "put", "shown") /\ incoming' = 0
      /\ UNCHANGED <<vars, phase, yieldOnReturn, active, typed>>
  BY DEF GetAndPut, diskVars
<1>3. /\ KernelInv' /\ Phases' /\ HaltInv'
      /\ UNCHANGED <<on, value, holder, life>> /\ on[t] = NULL /\ pc[t] = "put"
      /\ \A x \in Threads : pc'[x] = IF x = t THEN "shown" ELSE pc[x]
      /\ ~ Dead(t) /\ life[t] # "new" /\ pc' \in [Threads -> Places]
  BY <1>2, BetweenCalls DEF Places
<1>4. t = Echo
  BY <1>1, <1>3 DEF Own, Placed
<1>5. value[ReadAvail] \in Nat /\ value[WriteDone] \in Nat
  BY <1>1, KernelTypes
<1>6. /\ incoming # 0 /\ value[ReadAvail] = 0 /\ incoming = typed
      /\ ~ putBusy /\ value[WriteDone] = 0
  BY <1>1, <1>3, <1>4, <1>5 DEF Own, ConsoleInv, Bit
<1>7. /\ screen' = Append(screen, incoming) /\ putBusy' = TRUE /\ crashed' = crashed
      /\ list' = Schedule(list, "ConsoleWriteInt", ConsoleTime)
  BY <1>6 DEF GetAndPut
<1>8. ~ Has(list, "ConsoleWriteInt") /\ ConsoleTime \in Int /\ "ConsoleWriteInt" \in Types
  BY <1>1, <1>6, MachineAssumption DEF Own, PendingInv, Types
<1>9. /\ list' \in Seq(Pending) /\ Sorted(list') /\ Once(list')
      /\ \A other : Has(list', other) <=> Has(list, other) \/ other = "ConsoleWriteInt"
  BY <1>1, <1>7, <1>8, ListKept, Scheduled
<1>10. /\ screen' \in Seq(1..MaxChars) /\ Len(screen') = Len(screen) + 1
       /\ Len(screen) \in Nat /\ DOMAIN screen = 1..Len(screen)
       /\ DOMAIN screen' = 1..Len(screen) + 1
       /\ \A i \in 1..Len(screen) : screen'[i] = screen[i]
       /\ screen'[Len(screen) + 1] = incoming
  <2>1. incoming \in 1..MaxChars /\ screen \in Seq(1..MaxChars)
    BY <1>1, <1>6 DEF OwnTypes
  <2> QED
    BY <1>7, <2>1, AppendProperties, LenProperties
<1>11. OwnTypes'
  BY <1>1, <1>2, <1>3, <1>7, <1>9, <1>10 DEF OwnTypes
<1>12. Placed'
  BY <1>1, <1>3, <1>4, PlacedStep DEF Own
<1>13. DiskInv'
  <2>1. \A x \in Threads : (AtDisk(x)' <=> AtDisk(x)) /\ (Using(x)' <=> Using(x))
    BY <1>3 DEF AtDisk, Using
  <2> QED
    BY <1>1, <1>2, <1>3, <2>1 DEF Own, DiskInv
<1>14. ConsoleInv'
  <2>1. pc'[Echo] = "shown"
    BY <1>3, <1>4
  <2>2. EchoInOrder'
    <3>1. typed = Len(screen) + 1 /\ typed' = typed
      BY <1>1, <1>2, <1>6, <1>10 DEF Own, ConsoleInv, EchoInOrder
    <3>2. \A i \in 1..Len(screen) : screen[i] = i
      BY <1>1, <1>10 DEF Own, ConsoleInv, EchoInOrder
    <3>3. \A i \in 1..Len(screen) + 1 : screen'[i] = i
      BY <1>6, <1>10, <3>1, <3>2
    <3> QED
      BY <1>2, <1>10, <3>1, <3>3 DEF EchoInOrder
  <2>3. Bit(incoming' # 0) = 0 /\ Bit(putBusy)' = 1
    BY <1>2, <1>7 DEF Bit
  <2> QED
    BY <1>2, <1>3, <1>6, <2>1, <2>2, <2>3 DEF ConsoleInv, Bit
<1>15. PendingInv'
  <2>1. pc'[Echo] = "shown" /\ pc[Echo] = "put"
    BY <1>3, <1>4
  <2> QED
    BY <1>1, <1>2, <1>7, <1>9, <2>1 DEF Own, PendingInv
<1> QED
  BY <1>1, <1>3, <1>7, <1>11, <1>12, <1>13, <1>14, <1>15, PartsNext DEF Own

-----------------------------------------------------------------------------
(* The interrupt handlers.                                                 *)

(* A handler's V does not touch who runs, who has the lock and who waits   *)
(* for what.                                                               *)
LEMMA HandlerKeeps ==
  ASSUME MachineInv, NEW type, Serve(type), NEW d \in Semaphores, HandlerV(d),
         UNCHANGED <<phase, pc>>
  PROVE  /\ KernelInv' /\ Phases' /\ HaltInv' /\ Placed'
         /\ UNCHANGED <<on, holder, life>>
         /\ \A s \in Sems : value'[s] = IF s = d THEN value[s] + 1 ELSE value[s]
         /\ \A x \in Threads : (AtDisk(x)' <=> AtDisk(x)) /\ (Using(x)' <=> Using(x))
<1> USE Constants
<1>1. KernelInv /\ OwnTypes /\ Own /\ Phases
  BY Parts
<1>2. phase \in {"check", "drain"} /\ mode # "Halted"
  BY Served
<1>3. /\ d \in Sems /\ VBody(d) /\ status' = Ready(status, Woken(d))
      /\ UNCHANGED <<currentThread, life, on, holder, mode>>
  BY DEF HandlerV, machVars
<1>4. KernelInv'
  BY <1>1, HandlerStep
<1>5. \A s \in Sems : value'[s] = IF s = d THEN value[s] + 1 ELSE value[s]
  BY <1>1, <1>3, KernelTypes DEF VBody
<1>6. status[currentThread] = "RUNNING" => status'[currentThread] = "RUNNING"
  <2>1. /\ \A x \in Threads : Listed(x, Woken(d)) => Listed(x, queue[d])
        /\ currentThread \in Threads
        /\ \A x \in Threads : Listed(x, queue[d]) => status[x] = "BLOCKED"
    BY <1>1, <1>3, VBodyLists DEF KernelInv, ThreadInv, OnePlace, QueueInv, TypeOK
  <2> QED
    BY <1>3, <2>1 DEF Ready
<1>7. Phases' /\ HaltInv'
  BY <1>1, <1>2, <1>3, <1>6 DEF Phases, HaltInv
<1>8. Placed'
  BY <1>1, <1>3 DEF Own, Placed, Dead
<1>9. \A x \in Threads : (AtDisk(x)' <=> AtDisk(x)) /\ (Using(x)' <=> Using(x))
  BY <1>3 DEF AtDisk, Using
<1> QED
  BY <1>3, <1>4, <1>5, <1>7, <1>8, <1>9

LEMMA DiskInterruptStep ==
  ASSUME MachineInv, DiskInterrupt
  PROVE  MachineInv'
<1> USE Constants
<1>1. KernelInv /\ OwnTypes /\ ~ crashed /\ Own
  BY Parts
<1>2. /\ Serve("DiskInt") /\ list' = Tail(list) /\ active' = FALSE /\ HandlerV(DiskDone)
      /\ UNCHANGED <<phase, yieldOnReturn, pc, incoming, putBusy, typed, screen, crashed>>
  BY DEF DiskInterrupt, consoleVars
<1>3. /\ KernelInv' /\ Phases' /\ HaltInv' /\ Placed'
      /\ UNCHANGED <<on, holder, life>>
      /\ \A s \in Sems : value'[s] = IF s = DiskDone THEN value[s] + 1 ELSE value[s]
      /\ \A x \in Threads : (AtDisk(x)' <=> AtDisk(x)) /\ (Using(x)' <=> Using(x))
  BY <1>2, HandlerKeeps
<1>4. /\ Has(list, "DiskInt") /\ list' \in Seq(Pending) /\ Sorted(list') /\ Once(list')
      /\ \A other : Has(list', other) <=> Has(list, other) /\ other # "DiskInt"
  BY <1>2, Served
<1>5. active
  BY <1>1, <1>4 DEF Own, PendingInv
<1>6. OwnTypes'
  BY <1>1, <1>2, <1>4 DEF OwnTypes
<1>7. DiskInv'
  <2>1. value'[DiskDone] = value[DiskDone] + 1 /\ value[DiskDone] \in Nat
    BY <1>1, <1>3, KernelTypes
  <2>2. (\E x \in Threads : Using(x)') <=> (\E x \in Threads : Using(x))
    BY <1>3
  <2>3. Bit(active)' = 0 /\ Bit(active) = 1
    BY <1>2, <1>5 DEF Bit
  <2>4. 1 + value[DiskDone] = Bit(\E x \in Threads : Using(x))
    BY <1>1, <2>3 DEF Own, DiskInv
  <2>5. /\ \E x \in Threads : Using(x)
        /\ value[DiskDone] = 0
    BY <2>1, <2>4 DEF Bit
  <2>6. \A x \in Threads : holder'[DiskLock] = x <=> AtDisk(x)'
    BY <1>1, <1>3 DEF Own, DiskInv
  <2>7. value'[DiskDone] = 1 /\ active' = FALSE /\ \E x \in Threads : Using(x)'
    BY <1>2, <2>1, <2>2, <2>5
  <2> QED
    BY <2>6, <2>7 DEF DiskInv, Bit
<1>8. ConsoleInv'
  <2>1. value'[ReadAvail] = value[ReadAvail] /\ value'[WriteDone] = value[WriteDone]
    BY <1>3
  <2> QED
    BY <1>1, <1>2, <1>3, <2>1 DEF Own, ConsoleInv, EchoInOrder
<1>9. PendingInv'
  BY <1>1, <1>2, <1>4 DEF Own, PendingInv
<1> QED
  BY <1>1, <1>2, <1>3, <1>6, <1>7, <1>8, <1>9, PartsNext DEF Own

LEMMA CheckCharAvailStep ==
  ASSUME MachineInv, CheckCharAvail
  PROVE  MachineInv'
<1> USE Constants
<1>1. KernelInv /\ OwnTypes /\ ~ crashed /\ Own
  BY Parts
<1>2. /\ Serve("ConsoleReadInt") /\ list' = Schedule(Tail(list), "ConsoleReadInt", ConsoleTime)
      /\ UNCHANGED <<phase, yieldOnReturn, pc, active, putBusy, screen, crashed>>
  BY DEF CheckCharAvail, diskVars
<1>3. /\ Has(list, "ConsoleReadInt") /\ mode # "Halted"
      /\ Tail(list) \in Seq(Pending) /\ Sorted(Tail(list)) /\ Once(Tail(list))
      /\ \A other : Has(Tail(list), other) <=> Has(list, other) /\ other # "ConsoleReadInt"
  BY <1>2, Served
<1>4. ConsoleTime \in Int /\ "ConsoleReadInt" \in Types
  BY MachineAssumption DEF Types
<1>5. /\ list' \in Seq(Pending) /\ Sorted(list') /\ Once(list')
      /\ \A other : Has(list', other) <=> Has(Tail(list), other) \/ other = "ConsoleReadInt"
  BY <1>2, <1>3, <1>4, Scheduled
<1>6. \A other : Has(list', other) <=> Has(list, other)
  BY <1>3, <1>5
<1>7. CASE UNCHANGED <<vars, typed, incoming>>
  <2>1. yieldOnReturn' \in BOOLEAN
    BY <1>1, <1>2 DEF OwnTypes
  <2> QED
    BY <1>2, <1>3, <1>5, <1>6, <1>7, <2>1, ClockStep
<1>8. CASE /\ CanRead /\ typed' = typed + 1 /\ incoming' = typed + 1
           /\ HandlerV(ReadAvail)
  <2>1. /\ KernelInv' /\ Phases' /\ HaltInv' /\ Placed'
        /\ UNCHANGED <<on, holder, life>>
        /\ \A s \in Sems : value'[s] = IF s = ReadAvail THEN value[s] + 1 ELSE value[s]
        /\ \A x \in Threads : (AtDisk(x)' <=> AtDisk(x)) /\ (Using(x)' <=> Using(x))
    BY <1>2, <1>8, HandlerKeeps
  <2>2. incoming = 0 /\ typed \in 0..MaxChars /\ typed < MaxChars
    BY <1>1, <1>8 DEF CanRead, OwnTypes
  <2>3. OwnTypes'
    BY <1>1, <1>2, <1>5, <1>8, <2>2 DEF OwnTypes
  <2>4. DiskInv'
    BY <1>1, <1>2, <2>1 DEF Own, DiskInv
  <2>5. ConsoleInv'
    <3>1. /\ value'[ReadAvail] = value[ReadAvail] + 1 /\ value'[WriteDone] = value[WriteDone]
          /\ value[ReadAvail] \in Nat /\ value[WriteDone] \in Nat
      BY <1>1, <2>1, KernelTypes
    <3>2. incoming' # 0 /\ incoming' = typed' /\ Len(screen) \in Nat
      <4>1. screen \in Seq(1..MaxChars)
        BY <1>1 DEF OwnTypes
      <4> QED
        BY <1>8, <2>2, <4>1, LenProperties
    <3>3. Bit(incoming # 0) = 0 /\ Bit(incoming' # 0) = 1
      BY <2>2, <3>2 DEF Bit
    <3>4. EchoInOrder'
      BY <1>1, <1>2, <1>8, <2>2, <3>2 DEF Own, ConsoleInv, EchoInOrder
    <3>5. /\ value[ReadAvail] = 0
          /\ Bit(pc[Echo] = "put" /\ on[Echo] = NULL) = 0
      BY <1>1, <3>1, <3>3 DEF Own, ConsoleInv, Bit
    <3> QED
      BY <1>1, <1>2, <2>1, <3>1, <3>2, <3>3, <3>4, <3>5 DEF Own, ConsoleInv
  <2>6. PendingInv'
    BY <1>1, <1>2, <1>5, <1>6 DEF Own, PendingInv
  <2> QED
    BY <1>1, <1>2, <2>1, <2>3, <2>4, <2>5, <2>6, PartsNext DEF Own
<1> QED
  BY <1>7, <1>8 DEF CheckCharAvail

LEMMA ConsoleWrittenStep ==
  ASSUME MachineInv, ConsoleWritten
  PROVE  MachineInv'
<1> USE Constants
<1>1. KernelInv /\ OwnTypes /\ ~ crashed /\ Own
  BY Parts
<1>2. /\ Serve("ConsoleWriteInt") /\ list' = Tail(list) /\ putBusy' = FALSE
      /\ HandlerV(WriteDone)
      /\ UNCHANGED <<phase, yieldOnReturn, pc, active, incoming, typed, screen, crashed>>
  BY DEF ConsoleWritten, diskVars
<1>3. /\ KernelInv' /\ Phases' /\ HaltInv' /\ Placed'
      /\ UNCHANGED <<on, holder, life>>
      /\ \A s \in Sems : value'[s] = IF s = WriteDone THEN value[s] + 1 ELSE value[s]
      /\ \A x \in Threads : (AtDisk(x)' <=> AtDisk(x)) /\ (Using(x)' <=> Using(x))
  BY <1>2, HandlerKeeps
<1>4. /\ Has(list, "ConsoleWriteInt") /\ list' \in Seq(Pending) /\ Sorted(list') /\ Once(list')
      /\ \A other : Has(list', other) <=> Has(list, other) /\ other # "ConsoleWriteInt"
  BY <1>2, Served
<1>5. putBusy
  BY <1>1, <1>4 DEF Own, PendingInv
<1>6. OwnTypes'
  BY <1>1, <1>2, <1>4 DEF OwnTypes
<1>7. DiskInv'
  BY <1>1, <1>2, <1>3 DEF Own, DiskInv
<1>8. ConsoleInv'
  <2>1. /\ value'[ReadAvail] = value[ReadAvail] /\ value'[WriteDone] = value[WriteDone] + 1
        /\ value[WriteDone] \in Nat
    BY <1>1, <1>3, KernelTypes
  <2>2. Bit(putBusy) = 1 /\ Bit(putBusy') = 0
    BY <1>2, <1>5 DEF Bit
  <2>3. EchoInOrder'
    BY <1>1, <1>2 DEF Own, ConsoleInv, EchoInOrder
  <2> QED
    BY <1>1, <1>2, <1>3, <2>1, <2>2, <2>3 DEF Own, ConsoleInv
<1>9. PendingInv'
  BY <1>1, <1>2, <1>4 DEF Own, PendingInv
<1> QED
  BY <1>1, <1>2, <1>3, <1>6, <1>7, <1>8, <1>9, PartsNext DEF Own

-----------------------------------------------------------------------------
(* The end.                                                                *)

(* When nobody is ready and nothing but the timer is pending, whoever is   *)
(* not dead waits in the queue of a semaphore for a device that is quiet,  *)
(* or for a lock whose holder does; and there is no such wait.             *)
LEMMA NobodyLeft ==
  ASSUME MachineInv, Sleeping, readyList = <<>>, list = <<>> \/ OnlyTheTimer
  PROVE  \A t \in Threads : life[t] \notin {"forked", "started"}
<1> USE Constants
<1>1. KernelInv /\ OwnTypes /\ Own
  BY Parts
<1>2. \A type : Has(list, type) => type = "TimerInt"
  <2>1. CASE list = <<>>
    BY <2>1 DEF Has
  <2>2. CASE OnlyTheTimer /\ list # <<>>
    <3>1. \A type : ~ Has(Tail(list), type)
      BY <2>2 DEF OnlyTheTimer, Has
    <3> QED
      BY <1>1, <2>2, <3>1, ListKept, Removed DEF OnlyTheTimer
  <2> QED
    BY <2>1, <2>2
<1>3. ~ active /\ pc[Echo] = "console"
  BY <1>1, <1>2 DEF Own, PendingInv
<1>4. \A t \in Threads : status[t] \notin {"READY", "RUNNING"}
  <2>1. \A t \in Threads : ~ Listed(t, readyList)
    BY DEF Listed
  <2>2. status[currentThread] # "RUNNING"
    BY <1>1 DEF Sleeping, KernelInv, ThreadInv, IdleInv
  <2> QED
    BY <1>1, <2>1, <2>2 DEF KernelInv, ThreadInv, OnePlace, ReadyInv, RunningInv
<1>5. \A s \in Sems : queue[s] # <<>> => value[s] = 0
  <2>1. \A s \in Sems : Awake(s) = {}
    BY <1>4 DEF Awake
  <2>2. Cardinality({}) = 0
    BY FS_EmptySet
  <2>3. \A s \in Sems : queue[s] # <<>> => 0 >= value[s]
    BY <1>1, <2>1, <2>2 DEF KernelInv, NoLostWakeup
  <2> QED
    BY <1>1, <2>3, KernelTypes
<1>6. \A t \in Threads : life[t] \notin {"new", "finished", "deleted"} =>
        on[t] \in Sems /\ value[on[t]] = 0
  <2> SUFFICES ASSUME NEW t \in Threads, life[t] \notin {"new", "finished", "deleted"}
               PROVE  on[t] \in Sems /\ value[on[t]] = 0
    OBVIOUS
  <2>1. status[t] = "BLOCKED" /\ ~ Dead(t)
    BY <1>1, <1>4 DEF KernelInv, TypeOK, ThreadInv, NewInv, Dead
  <2>2. PICK s \in Sems : Listed(t, queue[s])
    BY <1>1, <2>1 DEF KernelInv, ThreadInv, OnePlace, BlockedInv
  <2>3. on[t] = s /\ queue[s] # <<>>
    BY <1>1, <2>2 DEF KernelInv, ThreadInv, OnePlace, QueueInv, Listed
  <2> QED
    BY <1>5, <2>3
<1>7. \A t \in Threads : life[t] \notin {"new", "finished", "deleted"} => on[t] = DiskLock
  <2> SUFFICES ASSUME NEW t \in Threads, life[t] \notin {"new", "finished", "deleted"},
                      on[t] # DiskLock
               PROVE  FALSE
    OBVIOUS
  <2>1. on[t] \in {DiskDone, ReadAvail, WriteDone} /\ value[on[t]] = 0
    BY <1>6
  <2>2. CASE on[t] = DiskDone
    <3>1. Using(t)
      BY <1>1, <2>2 DEF Own, Placed, Using
    <3> QED
      BY <1>1, <1>3, <2>1, <2>2, <3>1 DEF Own, DiskInv, Bit
  <2>3. CASE on[t] # DiskDone
    BY <1>1, <1>3, <2>1, <2>3 DEF Own, Placed
  <2> QED
    BY <2>2, <2>3
<1>8. \A t \in Threads : life[t] \in {"new", "finished", "deleted"}
  <2> SUFFICES ASSUME NEW t \in Threads, life[t] \notin {"new", "finished", "deleted"}
               PROVE  FALSE
    OBVIOUS
  <2>1. value[DiskLock] = 0
    BY <1>6, <1>7
  <2>2. PICK h \in Threads : holder[DiskLock] = h
    BY <1>1, <2>1, KernelTypes
  <2>3. AtDisk(h)
    BY <1>1, <2>2 DEF Own, DiskInv
  <2>4. life[h] \notin {"new", "finished", "deleted"}
    BY <1>1, <2>3 DEF Own, Placed, AtDisk, Dead
  <2> QED
    BY <1>7, <2>3, <2>4 DEF AtDisk
<1> QED
  BY <1>8

LEMMA IdleLoopStep ==
  ASSUME MachineInv, IdleLoop
  PROVE  MachineInv'
<1>1. KernelInv /\ OwnTypes /\ ~ crashed /\ Own
  BY Parts
<1>2. /\ Sleeping /\ readyList = <<>> /\ phase \in {"run", "idle"}
      /\ UNCHANGED <<threadVars, synchVars, pending, yieldOnReturn, pc, active,
                     incoming, putBusy, typed, screen, crashed>>
  BY DEF IdleLoop, diskVars, consoleVars
<1>3. UNCHANGED <<currentThread, status, readyList, life, on, value, holder>>
  BY <1>2 DEF threadVars, synchVars
<1>4. CASE list = <<>> \/ OnlyTheTimer
  <2>1. mode' = "Halted" /\ list' = list /\ phase' = phase
    BY <1>4 DEF IdleLoop
  <2>2. KernelInv'
    BY <1>1, <1>2, <2>1, IdleStep
  <2>3. OwnTypes'
    BY <1>1, <1>2, <2>1 DEF OwnTypes
  <2>4. Own'
    <3>1. Once(list)
      BY <1>1 DEF Own, PendingInv
    <3> QED
      BY <1>1, <1>2, <1>3, <2>1, <3>1, OwnFrame DEF Dead
  <2>5. Phases'
    BY <1>2, <2>1 DEF Phases
  <2>6. status[currentThread] # "RUNNING"
    BY <1>1, <1>2 DEF Sleeping, KernelInv, ThreadInv, IdleInv
  <2>7. HaltInv'
    BY <1>2, <1>3, <1>4, <2>1, <2>6, NobodyLeft DEF HaltInv, HaltLeavesNobody
  <2> QED
    BY <1>1, <1>2, <2>2, <2>3, <2>4, <2>5, <2>7, PartsNext
<1>5. CASE ~ (list = <<>> \/ OnlyTheTimer)
  <2>1. /\ mode' = "IdleMode" /\ phase' = "drain"
        /\ list' = IF Due THEN list ELSE Elapse(list, Head(list).in)
    BY <1>5 DEF IdleLoop
  <2>2. list \in Seq(Pending) /\ Sorted(list) /\ Once(list)
    BY <1>1, ListKept
  <2>3. /\ list' \in Seq(Pending) /\ Sorted(list') /\ Once(list')
        /\ \A type : Has(list', type) <=> Has(list, type)
    <3>1. CASE Due
      BY <2>1, <2>2, <3>1
    <3>2. CASE ~ Due
      <4>1. PICK ticks : ticks = Head(list).in
        OBVIOUS
      <4>2. ticks \in Int
        BY <1>5, <2>2, <4>1, Removed DEF Pending
      <4>3. list' = Elapse(list, ticks)
        BY <2>1, <3>2, <4>1
      <4> QED
        BY <2>2, <4>2, <4>3, Elapsed
    <3> QED
      BY <3>1, <3>2
  <2>4. KernelInv'
    BY <1>1, <1>2, <2>1, IdleStep
  <2>5. OwnTypes'
    BY <1>1, <1>2, <2>1, <2>3 DEF OwnTypes
  <2>6. Own'
    BY <1>1, <1>2, <1>3, <2>3, OwnFrame DEF Dead
  <2>7. Phases' /\ HaltInv'
    BY <2>1 DEF Phases, HaltInv
  <2> QED
    BY <1>1, <1>2, <2>4, <2>5, <2>6, <2>7, PartsNext
<1> QED
  BY <1>4, <1>5

-----------------------------------------------------------------------------
(* The theorems.                                                           *)

LEMMA MachineInitInv == MachineInit => MachineInv
<1> SUFFICES ASSUME MachineInit PROVE MachineInv
  OBVIOUS
<1> USE Constants
<1>1. Init
  BY DEF MachineInit
<1>2. KernelInv
  <2>1. TypeOK
    BY <1>1, EmptySeq, KernelAssumption DEF Init, TypeOK, Sems
  <2>2. LockExclusion /\ NoLostWakeup
    BY <1>1 DEF Init, LockExclusion, Sems, NoLostWakeup
  <2> QED
    BY <1>1, <2>1, <2>2, ThreadInvInit DEF KernelInv
<1>3. /\ list \in Seq(Pending) /\ Sorted(list) /\ Once(list)
      /\ \A type : Has(list, type) => type = "TimerInt"
  <2>1. /\ <<>> \in Seq(Pending) /\ Sorted(<<>>) /\ Once(<<>>)
        /\ \A type : ~ Has(<<>>, type)
    BY EmptySeq DEF Sorted, Once, Has
  <2>2. CASE list = <<>>
    BY <2>1, <2>2
  <2>3. ASSUME NEW d \in TimerDelays, list = Schedule(<<>>, "TimerInt", d)
        PROVE  /\ list \in Seq(Pending) /\ Sorted(list) /\ Once(list)
               /\ \A type : Has(list, type) => type = "TimerInt"
    <3>1. d \in Int /\ "TimerInt" \in Types
      BY MachineAssumption DEF Types
    <3> QED
      BY <2>1, <2>3, <3>1, Scheduled
  <2> QED
    BY <2>2, <2>3 DEF MachineInit
<1>4. /\ pc = [t \in Threads |-> IF t = Echo THEN "console" ELSE "user"]
      /\ phase = "run" /\ yieldOnReturn = FALSE
      /\ active = FALSE /\ incoming = 0 /\ putBusy = FALSE
      /\ typed = 0 /\ screen = <<>> /\ crashed = FALSE
  BY DEF MachineInit
<1>5. OwnTypes
  <2>1. <<>> \in Seq(1..MaxChars) /\ 0 \in 0..MaxChars
    BY EmptySeq
  <2>2. pc \in [Threads -> Places]
    BY <1>4 DEF Places
  <2> QED
    BY <1>3, <1>4, <2>1, <2>2 DEF OwnTypes
<1>6. /\ \A t \in Threads : on[t] = NULL
      /\ holder[DiskLock] = NULL /\ mode = "SystemMode"
      /\ value[DiskDone] = 0 /\ value[ReadAvail] = 0 /\ value[WriteDone] = 0
  <2>1. \A d \in {DiskDone, ReadAvail, WriteDone} : InitialValue[d] = 0 /\ d \notin Locks
    BY MachineAssumption
  <2> QED
    BY <1>1, <2>1 DEF Init
<1>7. Placed
  BY <1>4, <1>6 DEF Placed
<1>8. DiskInv
  <2>1. \A t \in Threads : ~ AtDisk(t) /\ ~ Using(t)
    BY <1>4 DEF AtDisk, Using
  <2> QED
    BY <1>4, <1>6, <2>1 DEF DiskInv, Bit
<1>9. ConsoleInv
  BY <1>4, <1>6, EmptySeq DEF ConsoleInv, EchoInOrder, Bit
<1>10. PendingInv
  BY <1>3, <1>4 DEF PendingInv
<1>11. Phases /\ HaltInv
  BY <1>4, <1>6 DEF Phases, HaltInv
<1> QED
  BY <1>2, <1>4, <1>5, <1>7, <1>8, <1>9, <1>10, <1>11, Parts DEF Own

LEMMA MachineInvStep == MachineInv /\ [MachineNext]_machineVars => MachineInv'
<1> SUFFICES ASSUME MachineInv, [MachineNext]_machineVars PROVE MachineInv'
  OBVIOUS
<1>1. ASSUME NEW t \in Threads, ThreadStep(t) PROVE MachineInv'
  BY <1>1, ForkThreadStep, FinishThreadStep, GoOnStep, WaitsStep, DiskRequestStep,
     ReleaseDiskStep, NewConsoleStep, GetAndPutStep DEF ThreadStep
<1>2. CASE UNCHANGED machineVars
  <2>1. UNCHANGED <<vars, list, phase, yieldOnReturn, pc, active, incoming, putBusy,
                    typed, screen, crashed>>
    BY <1>2 DEF machineVars, ownVars, diskVars, consoleVars
  <2>2. KernelInv /\ OwnTypes /\ ~ crashed /\ Own /\ Phases /\ HaltInv
    BY Parts
  <2>3. UNCHANGED <<currentThread, status, readyList, life, on, value, holder, mode>>
    BY <2>1 DEF vars, threadVars, synchVars, machVars
  <2>4. KernelInv'
    BY <2>1, <2>2, KernelStep
  <2>5. OwnTypes' /\ Phases' /\ HaltInv'
    BY <2>1, <2>2, <2>3 DEF OwnTypes, Phases, HaltInv, HaltLeavesNobody
  <2>6. Own'
    BY <2>1, <2>2, <2>3, ListKept, OwnFrame DEF Dead
  <2> QED
    BY <2>1, <2>2, <2>4, <2>5, <2>6, PartsNext
<1> QED
  BY <1>1, <1>2, GiveProcessorStep, OneTickStep, EndTickStep, IdleLoopStep, EndIdleStep,
     TimerExpiredStep, DiskInterruptStep, CheckCharAvailStep, ConsoleWrittenStep
     DEF MachineNext

LEMMA MachineInvHolds == MachineSpec => []MachineInv
BY MachineInitInv, MachineInvStep, PTL DEF MachineSpec

(* The list of pending interrupts stays sorted by the time they are due    *)
(* under every Schedule, CheckIfDue and put-back of interrupt.cc, and      *)
(* every variable of the machine keeps its type.                           *)
THEOREM MachineTypeCorrect == MachineSpec => []MachineTypeOK
<1>1. MachineInv => MachineTypeOK
  BY DEF MachineInv
<1> QED
  BY <1>1, MachineInvHolds, PTL

(* How many are pending of a type of which there are never two.            *)
LEMMA Counted ==
  ASSUME OwnTypes, Own, NEW type
  PROVE  Count(type) = IF Has(list, type) THEN 1 ELSE 0
<1> DEFINE those == {i \in DOMAIN list : list[i].type = type}
<1>1. Count(type) = Cardinality(those)
  BY DEF Count
<1>2. CASE Has(list, type)
  <2>1. PICK i \in DOMAIN list : list[i].type = type
    BY <1>2 DEF Has
  <2>2. those = {i}
    BY <2>1 DEF Own, PendingInv, Once
  <2> QED
    BY <1>1, <1>2, <2>2, FS_Singleton
<1>3. CASE ~ Has(list, type)
  <2>1. those = {}
    BY <1>3 DEF Has
  <2> QED
    BY <1>1, <1>3, <2>1, FS_EmptySet
<1> QED
  BY <1>2, <1>3

LEMMA ProtocolKept == MachineInv => DeviceProtocol
<1> SUFFICES ASSUME MachineInv PROVE DeviceProtocol
  OBVIOUS
<1> USE Constants
<1>1. KernelInv /\ OwnTypes /\ ~ crashed /\ Own
  BY Parts
<1>2. /\ Count("DiskInt") = IF active THEN 1 ELSE 0
      /\ Count("ConsoleWriteInt") = IF putBusy THEN 1 ELSE 0
  BY <1>1, Counted DEF Own, PendingInv
<1>3. ASSUME NEW t \in Threads, pc[t] = "release", on[t] = NULL
      PROVE  ~ active /\ value[DiskDone] = 0 /\ holder[DiskLock] = t
  <2>1. AtDisk(t) /\ ~ Using(t)
    BY <1>3 DEF AtDisk, Using
  <2>2. \A x \in Threads : ~ Using(x)
    BY <1>1, <2>1, OneAtDisk DEF Own
  <2>3. ~ active /\ value[DiskDone] = 0
    BY <1>1, <2>2, KernelTypes DEF Own, DiskInv, Bit
  <2> QED
    BY <1>1, <2>1, <2>3 DEF Own, DiskInv
<1> QED
  BY <1>1, <1>2, <1>3 DEF DeviceProtocol

(* Over any threads preempted anywhere, the ASSERTs of Disk::ReadRequest,  *)
(* Disk::WriteRequest and Console::PutChar never fail, a busy device has   *)
(* one interrupt pending, and who returns from the wait of SynchDisk was   *)
(* woken by its own request.                                               *)
THEOREM DeviceProtocolHolds == MachineSpec => []DeviceProtocol
BY MachineInvHolds, ProtocolKept, PTL

(* Whatever the timer does, ConsoleTest shows each character that is typed *)
(* once, in the order of typing.                                           *)
THEOREM EchoInOrderHolds == MachineSpec => []EchoInOrder
<1>1. MachineInv => EchoInOrder
  BY DEF MachineInv, ConsoleInv
<1> QED
  BY <1>1, MachineInvHolds, PTL

(* Interrupt::Idle never halts the machine over a thread that waits for    *)
(* the disk, its lock or the console.                                      *)
THEOREM HaltLeavesNobodyHolds == MachineSpec => []HaltLeavesNobody
<1>1. MachineInv => HaltLeavesNobody
  BY DEF MachineInv, HaltInv, HaltLeavesNobody
<1> QED
  BY <1>1, MachineInvHolds, PTL
=============================================================================
