--------------------------- MODULE ExecJoinProofs ---------------------------
(***************************************************************************)
(* Proofs about ExecJoin for every set of threads and every size of the    *)
(* table: the system calls are steps of the kernel, and Exec, Fork, Join   *)
(* and Exit keep the entry of a thread until it has been asked for.        *)
(***************************************************************************)
EXTENDS ExecJoin, NachosSyncProofs, NaturalsInduction, WellFoundedInduction

USE TableAssumption

-----------------------------------------------------------------------------
(* The inductive invariant.                                                *)

(* A thread from the check of its parent on.                               *)
ReachedExit(c) == pc[c].at \in {"check", "leave", "end", "gone"}

(* The status of an Exec'd thread is in its entry, as long as it has one.  *)
Told(c) ==
  /\ ReachedExit(c) /\ kind[c] = "USR_EXEC"
  /\ Owns(c) => table[threadId[c]].exitStatus = c

Joining(t) == pc[t].at \in {"join", "joined"}

(* In the middle of a system call that no thread switch interrupts.        *)
Atomic(t) == pc[t].at \in {"exec", "signal", "check"}

(* A thread with an id is in its slot until it leaves.                     *)
SlotInv == \A t \in Threads : InProgram(t) /\ threadId[t] # -1 => Owns(t)

KindInv ==
  \A t \in Threads :
    /\ pc[t].at = "absent" => kind[t] = "MAIN" /\ children[t] = {}
    /\ pc[t].at \in {"load", "signal", "check"} => kind[t] = "USR_EXEC"
    /\ threadId[t] = -1 => kind[t] = "USR_FORK"
    /\ kind[t] = "USR_EXEC" /\ parentId[t] = -1 =>
         \E u \in Threads : kind[u] = "USR_FORK" /\ threadId[u] = -1

AtomicInv == \A t \in Threads : Atomic(t) => Running(t)

(* Between the two halves of Exec the new thread is its caller's alone.    *)
ExecingInv ==
  \A t \in Threads : pc[t].at = "exec" =>
    /\ pc[t].arg \in Threads /\ pc[pc[t].arg].at = "load"
    /\ parentId[pc[t].arg] = threadId[t]
    /\ \A u \in Threads : pc[t].arg \notin Unjoined(u)

JoiningInv ==
  \A t \in Threads : Joining(t) =>
    pc[t].arg \in Threads /\ pc[t].arg \notin children[t]

(* What links a parent to a child it may still join.                       *)
Linked(t, child) ==
  /\ kind[child] = "USR_EXEC" /\ parentId[child] = threadId[t]
  /\ \A u \in Threads : child \in Unjoined(u) => u = t
  /\ InProgram(t) => Owns(child)

FamilyInv == \A t \in Threads : \A child \in Unjoined(t) : Linked(t, child)

(* The semaphore of a thread's entry is positive only after its Exit, and  *)
(* a parent gets past it only then.                                        *)
SemInv ==
  \A t \in Threads :
    /\ value[t] > 0 => Told(t)
    /\ pc[t].at = "signal" => table[threadId[t]].exitStatus = t
    /\ on[t] # NULL => pc[t].at = "joined" /\ on[t] = pc[t].arg
    /\ pc[t].at = "joined" /\ on[t] = NULL => Told(pc[t].arg)

ExecInv ==
  /\ ExecTypeOK /\ SlotInv /\ KindInv /\ AtomicInv /\ ExecingInv
  /\ JoiningInv /\ FamilyInv /\ SemInv /\ JoinExact /\ NoCrash

-----------------------------------------------------------------------------
(* Facts about one state.                                                  *)

LEMMA Constants ==
  /\ Sems = Threads /\ NULL \notin Threads /\ NULL \notin Entries
  /\ Ids \subseteq Nat /\ 0 \in Ids /\ -1 \notin Ids /\ MainThread \in Threads
  /\ \A t \in Threads, x \in Threads \union {0} :
       [thread |-> t, exitStatus |-> x] \in Entries
BY KernelAssumption, TableAssumption DEF Sems, Ids, Entries

LEMMA Types ==
  ASSUME ExecTypeOK
  PROVE  /\ \A i \in Ids : table[i] # NULL =>
              table[i].thread \in Threads /\ table[i].exitStatus \in Threads \union {0}
         /\ \A t \in Threads : threadId[t] \in Ids \union {-1}
         /\ \A t \in Threads : kind[t] = "USR_EXEC" => threadId[t] \in Ids
         /\ \A t \in Threads : children[t] \subseteq Threads
         /\ \A t \in Threads : on[t] \in Threads \union {NULL} /\ value[t] \in Nat
<1>1. \A i \in Ids : table[i] \in Entries \union {NULL}
  BY DEF ExecTypeOK
<1>2. \A e \in Entries : e.thread \in Threads /\ e.exitStatus \in Threads \union {0}
  BY DEF Entries
<1>3. Sems = Threads
  BY Constants
<1> QED
  BY <1>1, <1>2, <1>3 DEF ExecTypeOK, TypeOK

(* BitMap::Find: -1 when every slot is taken, and else one that is free.   *)
LEMMA FirstFreeIs ==
  /\ FreeIds = {} => FirstFree = -1
  /\ FreeIds # {} => FirstFree \in FreeIds
<1>1. ASSUME FreeIds # {} PROVE FirstFree \in FreeIds
  <2>1. FreeIds \in SUBSET Nat
    BY Constants DEF FreeIds
  <2> DEFINE R == {ss \in Nat \X Nat : ss[1] < ss[2]}
  <2>2. IsWellFoundedOn(R, Nat)
    BY NatLessThanWellFounded DEF OpToRel
  <2>3. \A y, x \in Nat : <<y, x>> \in R <=> y < x
    OBVIOUS
  <2> HIDE DEF R
  <2>4. \E x \in FreeIds : \A y \in FreeIds : ~ (<<y, x>> \in R)
    BY <1>1, <2>1, <2>2, WFMin
  <2>5. PICK x \in FreeIds : \A y \in FreeIds : ~ (<<y, x>> \in R)
    BY <2>4
  <2>6. \A y \in FreeIds : y \in Nat /\ x \in Nat /\ ~ (y < x)
    BY <2>1, <2>3, <2>5
  <2>7. \A y \in FreeIds : x <= y
    BY <2>6
  <2>8. \E i \in FreeIds : \A j \in FreeIds : i <= j
    BY <2>7
  <2> QED
    BY <1>1, <2>8, Zenon DEF FirstFree
<1> QED
  BY <1>1 DEF FirstFree

(* Two threads that are in the table have two slots.                       *)
LEMMA OwnSlots ==
  ASSUME NEW t \in Threads, NEW u \in Threads, Owns(t), Owns(u), t # u
  PROVE  threadId[t] # threadId[u]
BY DEF Owns

(* A child that may be joined is an Exec'd thread with an id.              *)
LEMMA UnjoinedIs ==
  ASSUME ExecTypeOK, JoiningInv, FamilyInv,
         NEW t \in Threads, NEW child \in Unjoined(t)
  PROVE  /\ child \in Threads /\ kind[child] = "USR_EXEC" /\ threadId[child] \in Ids
         /\ Linked(t, child)
<1>1. child \in Threads
  BY Types DEF Unjoined, JoiningInv, Joining
<1>2. Linked(t, child)
  BY DEF FamilyInv
<1> QED
  BY <1>1, <1>2, Types DEF Linked

(* Nobody else is in the middle of a call while t runs.                    *)
LEMMA AloneInCall ==
  ASSUME AtomicInv, NEW t \in Threads, Running(t)
  PROVE  \A u \in Threads : u # t => ~ Atomic(u)
BY DEF AtomicInv, Running

-----------------------------------------------------------------------------
(* The system calls run on the kernel.                                     *)

(* Join and Exit P and V the semaphore of the child that they mean.        *)
LEMMA JoinedEntry ==
  ASSUME ExecTypeOK, JoiningInv, FamilyInv, NEW t \in Threads, Joining(t)
  PROVE  /\ pc[t].arg \in Unjoined(t) /\ pc[t].arg \in Threads
         /\ threadId[pc[t].arg] \in Ids /\ Owns(pc[t].arg)
<1>1. pc[t].arg \in Unjoined(t) /\ InProgram(t)
  BY DEF Unjoined, Joining, InProgram
<1> QED
  BY <1>1, UnjoinedIs DEF Linked

LEMMA SignalEntry ==
  ASSUME ExecTypeOK, SlotInv, KindInv, NEW t \in Threads,
         pc[t].at \in {"load", "signal", "check"}
  PROVE  kind[t] = "USR_EXEC" /\ threadId[t] \in Ids /\ Owns(t)
<1>1. kind[t] = "USR_EXEC"
  BY DEF KindInv
<1>2. threadId[t] \in Ids
  BY <1>1, Types
<1>3. InProgram(t) /\ threadId[t] # -1
  BY <1>2, Constants DEF InProgram
<1> QED
  BY <1>1, <1>2, <1>3 DEF SlotInv

LEMMA JoinPStep ==
  ASSUME ExecTypeOK, JoiningInv, FamilyInv, NEW t \in Threads, JoinP(t)
  PROVE  P(t, pc[t].arg) /\ crashed' = crashed
<1>1. Joining(t)
  BY DEF JoinP, Go, Joining
<1>2. Owns(pc[t].arg)
  BY <1>1, JoinedEntry
<1> QED
  BY <1>2 DEF JoinP, Owns

LEMMA ExitSignalStep ==
  ASSUME ExecTypeOK, SlotInv, KindInv, NEW t \in Threads, ExitSignal(t)
  PROVE  V(t, t) /\ crashed' = crashed
<1>1. Owns(t)
  BY SignalEntry DEF ExitSignal, Go
<1> QED
  BY <1>1 DEF ExitSignal, Owns

(* Every step of the system is a step of the kernel, or none.              *)
LEMMA KernelUnder == ExecInv /\ [ExecNext]_execVars => [Next]_vars
<1> SUFFICES ASSUME ExecInv, [ExecNext]_execVars PROVE [Next]_vars
  OBVIOUS
<1> USE DEF ExecInv
<1>1. CASE System
  BY <1>1 DEF System, Next, Kernel
<1>2. ASSUME NEW t \in Threads, YieldNow(t) PROVE [Next]_vars
  BY <1>2 DEF YieldNow, Local, Next, Kernel
<1>3. ASSUME NEW t \in Threads, Local(t) PROVE [Next]_vars
  BY <1>3 DEF Local
<1>4. ASSUME NEW t \in Threads, NEW new \in Threads, Fork(t, new) PROVE [Next]_vars
  BY <1>4 DEF Next, Call
<1>5. ASSUME NEW t \in Threads, Finish(t) PROVE [Next]_vars
  BY <1>5 DEF Next, Call
<1>6. ASSUME NEW t \in Threads, JoinP(t) PROVE [Next]_vars
  <2>1. P(t, pc[t].arg) /\ pc[t].arg \in Sems
    BY <1>6, JoinPStep, JoinedEntry, Constants DEF JoinP, Go, Joining
  <2> QED
    BY <2>1 DEF Next, Call
<1>7. ASSUME NEW t \in Threads, ExitSignal(t) PROVE [Next]_vars
  BY <1>7, ExitSignalStep DEF Next, Call
<1>8. ASSUME NEW t \in Threads, ExecFork(t) PROVE [Next]_vars
  BY <1>8, <1>4 DEF ExecFork, Go, ExecingInv
<1>9. ASSUME NEW t \in Threads, UserCall(t) PROVE [Next]_vars
  <2>1. \A new \in Fresh : new \in Threads
    BY DEF Fresh
  <2> QED
    BY <1>9, <1>2, <1>3, <1>4, <2>1
       DEF UserCall, Exec, ForkCall, Join, Exit, UserYield
<1>10. ASSUME NEW t \in Threads, KernelStep(t) PROVE [Next]_vars
  BY <1>10, <1>2, <1>3, <1>5, <1>6, <1>7, <1>8
     DEF KernelStep, ExecYield, Execute, JoinReturn, ExitCheck, ExitYield, ExitFinish
<1>11. CASE UNCHANGED execVars
  BY <1>11 DEF execVars
<1> QED
  BY <1>1, <1>9, <1>10, <1>11 DEF ExecNext

-----------------------------------------------------------------------------
(* Steps that leave the table and the families as they are.                *)

(* What the kernel alone does keeps the invariant.                         *)
LEMMA SystemStep ==
  ASSUME ExecInv, TypeOK', System
  PROVE  ExecInv'
<1> USE DEF ExecInv
<1>1. UNCHANGED <<table, threadId, parentId, kind, children, pc, answer, crashed>>
  BY DEF System, userVars
<1>2. ExecTypeOK' /\ JoinExact' /\ NoCrash'
  BY <1>1 DEF ExecTypeOK, JoinExact, NoCrash
<1>3. SlotInv' /\ KindInv' /\ ExecingInv' /\ JoiningInv'
  BY <1>1 DEF SlotInv, KindInv, ExecingInv, JoiningInv, InProgram, Owns, Unjoined,
              Joining
<1>4. FamilyInv'
  BY <1>1 DEF FamilyInv, Linked, InProgram, Owns, Unjoined
<1>5. AtomicInv'
  <2>1. \A t \in Threads : ~ Running(t)
    BY DEF System, Dispatch, Idle, Sleeping, Resume, Running
  <2> QED
    BY <1>1, <2>1 DEF AtomicInv, Atomic
<1>6. SemInv'
  <2>1. \A c : Told(c)' <=> Told(c)
    BY <1>1 DEF Told, ReachedExit, Owns
  <2>2. CASE UNCHANGED <<value, on>>
    BY <1>1, <2>1, <2>2 DEF SemInv
  <2>3. ASSUME NEW t \in Threads, Resume(t) PROVE SemInv'
    <3>1. on[t] \in Threads /\ pc[t].at = "joined" /\ on[t] = pc[t].arg
      BY <2>3, Types DEF Resume, SemInv
    <3>2. TryP(t, on[t])
      BY <2>3 DEF Resume
    <3>3. CASE value[on[t]] = 0
      <4>1. value' = value /\ on' = [on EXCEPT ![t] = on[t]]
        BY <3>2, <3>3 DEF TryP
      <4>2. on' = on
        BY <4>1 DEF ExecTypeOK, TypeOK
      <4> QED
        BY <2>2, <4>1, <4>2
    <3>4. CASE value[on[t]] > 0
      <4>1. /\ value' = [value EXCEPT ![on[t]] = value[on[t]] - 1]
            /\ on' = [on EXCEPT ![t] = NULL]
        BY <3>2, <3>4 DEF TryP
      <4>2. \A u \in Threads : value'[u] > 0 => value[u] > 0
        <5>1. value \in [Threads -> Nat]
          BY Constants DEF ExecTypeOK, TypeOK
        <5> QED
          BY <3>1, <4>1, <5>1
      <4>3. \A u \in Threads : on'[u] = IF u = t THEN NULL ELSE on[u]
        BY <4>1 DEF ExecTypeOK, TypeOK
      <4>4. Told(pc[t].arg)
        BY <3>1, <3>4 DEF SemInv
      <4> QED
        BY <1>1, <2>1, <4>2, <4>3, <4>4 DEF SemInv
    <3> QED
      BY <3>1, <3>3, <3>4, Types
  <2> QED
    BY <2>2, <2>3 DEF System, Dispatch, Idle, synchVars
<1> QED
  BY <1>2, <1>3, <1>4, <1>5, <1>6

(* A thread that goes on in its program, or out of it, and no more.        *)
Onward(t, from, to) ==
  /\ pc[t].at = from /\ pc' = [pc EXCEPT ![t] = At(to, NULL)]
  /\ <<from, to>> \in {<<"yield", "user">>, <<"leave", "end">>, <<"user", "user">>,
                       <<"end", "gone">>, <<"load", "user">>, <<"load", "end">>}

LEMMA OnwardStep ==
  ASSUME ExecInv, TypeOK', NEW t \in Threads, Running(t),
         NEW from, NEW to, Onward(t, from, to),
         UNCHANGED <<table, threadId, parentId, kind, children, answer, crashed>>,
         UNCHANGED <<value, on>>
  PROVE  ExecInv'
<1> USE DEF ExecInv
<1>1. /\ pc[t].at \in {"yield", "leave", "user", "end", "load"}
      /\ to \in {"end", "user", "gone"}
      /\ pc[t].at \in {"leave", "end"} => to \notin {"user"}
      /\ pc'[t] = At(to, NULL) /\ pc'[t].at = to
      /\ \A u \in Threads : u # t => pc'[u] = pc[u]
      /\ At(to, NULL) \in Points
  BY DEF Onward, ExecTypeOK, At, Points
<1>2. ExecTypeOK' /\ JoinExact' /\ NoCrash'
  <2>1. pc' \in [Threads -> Points]
    BY <1>1 DEF Onward, ExecTypeOK
  <2> QED
    BY <2>1 DEF ExecTypeOK, JoinExact, NoCrash
<1>3. \A u \in Threads : ~ Atomic(u) /\ ~ Atomic(u)'
  <2>1. \A u \in Threads : u # t => ~ Atomic(u)
    BY AloneInCall
  <2> QED
    BY <1>1, <2>1 DEF Atomic
<1>4. \A u \in Threads : /\ Unjoined(u)' = Unjoined(u) /\ (InProgram(u)' => InProgram(u))
                         /\ Joining(u)' = Joining(u)
                         /\ Joining(u) => pc'[u] = pc[u]
                         /\ Owns(u)' = Owns(u)
                         /\ ReachedExit(u) => ReachedExit(u)'
  BY <1>1 DEF Unjoined, InProgram, Joining, Owns, ReachedExit
<1>5. SlotInv'
  BY <1>4 DEF SlotInv
<1>6. KindInv'
  BY <1>1 DEF KindInv
<1>7. AtomicInv' /\ ExecingInv'
  BY <1>3 DEF AtomicInv, ExecingInv, Atomic
<1>8. JoiningInv'
  BY <1>4 DEF JoiningInv
<1>9. FamilyInv'
  <2> SUFFICES ASSUME NEW u \in Threads, NEW child \in Unjoined(u)
               PROVE  Linked(u, child)'
    BY <1>4 DEF FamilyInv
  <2>1. Linked(u, child) /\ child \in Threads
    BY UnjoinedIs
  <2> QED
    BY <1>4, <2>1 DEF Linked
<1>10. SemInv'
  <2>1. \A c \in Threads : Told(c) => Told(c)'
    BY <1>4 DEF Told, Owns
  <2> SUFFICES ASSUME NEW u \in Threads
               PROVE  /\ value'[u] > 0 => Told(u)'
                      /\ pc'[u].at = "signal" => table'[threadId'[u]].exitStatus = u
                      /\ on'[u] # NULL => pc'[u].at = "joined" /\ on'[u] = pc'[u].arg
                      /\ pc'[u].at = "joined" /\ on'[u] = NULL => Told(pc[u].arg)' /\ pc'[u] = pc[u]
    BY DEF SemInv
  <2>2. value'[u] > 0 => Told(u)'
    BY <2>1 DEF SemInv
  <2>3. pc'[u].at # "signal"
    BY <1>3 DEF Atomic
  <2>4. on'[u] # NULL => pc'[u].at = "joined" /\ on'[u] = pc'[u].arg
    <3>1. on'[u] # NULL => Joining(u) /\ pc[u].at = "joined" /\ on[u] = pc[u].arg
      BY DEF SemInv, Joining
    <3> QED
      BY <1>4, <3>1
  <2>5. pc'[u].at = "joined" /\ on'[u] = NULL => Told(pc[u].arg)' /\ pc'[u] = pc[u]
    <3>1. pc'[u].at = "joined" => pc'[u] = pc[u] /\ Joining(u)
      BY <1>1, <1>4 DEF Joining
    <3>2. Joining(u) => pc[u].arg \in Threads
      BY DEF JoiningInv
    <3>3. on'[u] = on[u]
      OBVIOUS
    <3>4. pc[u].at = "joined" /\ on[u] = NULL => Told(pc[u].arg)
      BY DEF SemInv
    <3> QED
      BY <2>1, <3>1, <3>2, <3>3, <3>4
  <2> QED
    BY <2>2, <2>3, <2>4, <2>5
<1> QED
  BY <1>2, <1>5, <1>6, <1>7, <1>8, <1>9, <1>10

-----------------------------------------------------------------------------
(* Steps that write the table.                                             *)

(* A change of the table that matters to no thread but v.                  *)
Apart(v) ==
  \A u \in Threads : u # v /\ threadId[u] \in Ids =>
    /\ threadId'[u] = threadId[u] /\ (Owns(u)' <=> Owns(u))
    /\ Owns(u) => table'[threadId[u]] = table[threadId[u]]

TableType(tab) == tab \in [Ids -> Entries \union {NULL}]

LEMMA EnterFacts ==
  ASSUME ExecInv, NEW new \in Threads, pc[new].at = "absent",
         table' = AddThread(new, FirstFree),
         threadId' = [threadId EXCEPT ![new] = FirstFree]
  PROVE  /\ FirstFree \in Ids \union {-1} /\ TableType(table') /\ Apart(new)
         /\ \A u \in Threads : threadId'[u] = IF u = new THEN FirstFree ELSE threadId[u]
         /\ FirstFree # -1 => Owns(new)'
         /\ Unjoined(new) = {} /\ \A u \in Threads : new \notin Unjoined(u)
         /\ kind[new] = "MAIN" /\ threadId[new] # -1
<1> USE DEF ExecInv
<1> DEFINE id == FirstFree
           entry == [thread |-> new, exitStatus |-> 0]
<1>1. id = -1 \/ (id \in Ids /\ table[id] = NULL)
  BY FirstFreeIs DEF FreeIds
<1>2. entry \in Entries /\ entry # NULL /\ entry.thread = new
  BY Constants
<1>3. table' = IF id = -1 THEN table ELSE [table EXCEPT ![id] = entry]
  BY DEF AddThread
<1>4. \A u \in Threads : threadId'[u] = IF u = new THEN id ELSE threadId[u]
  BY DEF ExecTypeOK
<1>5. table \in [Ids -> Entries \union {NULL}]
  BY DEF ExecTypeOK
<1>6. kind[new] = "MAIN" /\ children[new] = {} /\ threadId[new] # -1
  BY DEF KindInv
<1>7. Unjoined(new) = {} /\ \A u \in Threads : new \notin Unjoined(u)
  BY <1>6, UnjoinedIs DEF Unjoined
<1> HIDE DEF id, entry
<1>8. TableType(table')
  BY <1>1, <1>2, <1>3, <1>5 DEF TableType
<1>9. id # -1 => table'[id] = entry
  BY <1>1, <1>3, <1>5
<1>10. id # -1 => Owns(new)'
  BY <1>2, <1>4, <1>9 DEF Owns
<1>11. ASSUME NEW u \in Threads, u # new, threadId[u] \in Ids
       PROVE  /\ threadId'[u] = threadId[u] /\ (Owns(u)' <=> Owns(u))
              /\ Owns(u) => table'[threadId[u]] = table[threadId[u]]
  <2>1. threadId'[u] = threadId[u]
    BY <1>4, <1>11
  <2>2. CASE threadId[u] = id
    <3>1. id # -1 /\ ~ Owns(u)
      BY <1>1, <1>11, <2>2, Constants DEF Owns
    <3>2. ~ Owns(u)'
      BY <1>2, <1>9, <1>11, <2>1, <2>2, <3>1 DEF Owns
    <3> QED
      BY <2>1, <3>1, <3>2
  <2>3. CASE threadId[u] # id
    <3>1. table'[threadId[u]] = table[threadId[u]]
      BY <1>3, <1>5, <1>11, <2>3
    <3> QED
      BY <2>1, <3>1 DEF Owns
  <2> QED
    BY <2>2, <2>3
<1>12. Apart(new)
  BY <1>11 DEF Apart
<1> QED
  BY <1>1, <1>4, <1>6, <1>7, <1>8, <1>10, <1>12 DEF id

LEMMA RemoveFacts ==
  ASSUME ExecTypeOK, NEW v \in Threads, Owns(v) \/ threadId[v] = -1,
         table' = RemoveThread(threadId[v]), threadId' = threadId
  PROVE  TableType(table') /\ Apart(v) /\ (threadId[v] # -1 => ~ Owns(v)')
<1>1. /\ table' = [i \in Ids |-> IF i = threadId[v] THEN NULL ELSE table[i]]
      /\ table \in [Ids -> Entries \union {NULL}]
  BY DEF RemoveThread, ExecTypeOK
<1>2. TableType(table')
  BY <1>1 DEF TableType
<1>3. threadId[v] # -1 => ~ Owns(v)'
  BY <1>1, Types DEF Owns
<1>4. ASSUME NEW u \in Threads, u # v, threadId[u] \in Ids
      PROVE  (Owns(u)' <=> Owns(u)) /\ (Owns(u) => table'[threadId[u]] = table[threadId[u]])
  <2>1. CASE threadId[u] = threadId[v]
    <3>1. Owns(v) /\ ~ Owns(u)
      BY <1>4, <2>1, OwnSlots, Constants DEF Owns
    <3>2. ~ Owns(u)'
      BY <1>1, <1>4, <2>1 DEF Owns
    <3> QED
      BY <3>1, <3>2
  <2>2. CASE threadId[u] # threadId[v]
    BY <1>1, <1>4, <2>2 DEF Owns
  <2> QED
    BY <2>1, <2>2
<1> QED
  BY <1>2, <1>3, <1>4 DEF Apart

(* The exit status goes into the thread's own entry.                       *)
LEMMA StatusFacts ==
  ASSUME ExecTypeOK, NEW v \in Threads, Owns(v), threadId[v] \in Ids,
         table' = [i \in Ids |->
           IF i = threadId[v] /\ table[i] # NULL
           THEN [table[i] EXCEPT !.exitStatus = v] ELSE table[i]],
         threadId' = threadId
  PROVE  /\ TableType(table') /\ Apart(v)
         /\ Owns(v)' /\ table'[threadId[v]].exitStatus = v
<1> DEFINE old == table[threadId[v]]
           entry == [old EXCEPT !.exitStatus = v]
<1>1. table \in [Ids -> Entries \union {NULL}] /\ old # NULL /\ old.thread = v
  BY DEF ExecTypeOK, Owns
<1>2. old \in Entries
  BY <1>1
<1>3. entry \in Entries /\ entry.thread = v /\ entry.exitStatus = v
  BY <1>1, <1>2 DEF Entries
<1>4. \A i \in Ids : table'[i] = IF i = threadId[v] THEN entry ELSE table[i]
  BY <1>1
<1>5. table' = [i \in Ids |-> table'[i]]
  OBVIOUS
<1> HIDE DEF entry, old
<1>6. TableType(table')
  <2>1. \A i \in Ids : table'[i] \in Entries \union {NULL}
    BY <1>1, <1>3, <1>4
  <2> QED
    BY <1>5, <2>1 DEF TableType
<1>7. Owns(v)' /\ table'[threadId[v]].exitStatus = v
  BY <1>3, <1>4, Constants DEF Owns
<1>8. ASSUME NEW u \in Threads, u # v, threadId[u] \in Ids
      PROVE  (Owns(u)' <=> Owns(u)) /\ (Owns(u) => table'[threadId[u]] = table[threadId[u]])
  <2>1. CASE threadId[u] = threadId[v]
    <3>1. ~ Owns(u) /\ ~ Owns(u)'
      BY <1>3, <1>4, <1>8, <2>1, OwnSlots DEF Owns
    <3> QED
      BY <3>1
  <2>2. CASE threadId[u] # threadId[v]
    BY <1>4, <1>8, <2>2 DEF Owns
  <2> QED
    BY <2>1, <2>2
<1> QED
  BY <1>6, <1>7, <1>8 DEF Apart

LEMMA ToldApart ==
  ASSUME ExecTypeOK, NEW v \in Threads, Apart(v), NEW u \in Threads, u # v, Told(u),
         kind'[u] = kind[u], ReachedExit(u)'
  PROVE  Told(u)'
<1>1. threadId[u] \in Ids /\ kind'[u] = "USR_EXEC"
  BY Types DEF Told
<1>2. /\ threadId'[u] = threadId[u] /\ (Owns(u)' <=> Owns(u))
      /\ Owns(u) => table'[threadId[u]] = table[threadId[u]]
  BY <1>1 DEF Apart
<1> QED
  BY <1>1, <1>2 DEF Told

(* Exec, while there is room in the table.                                 *)
LEMMA ExecStep ==
  ASSUME ExecInv, NEW t \in Threads, NEW new \in Threads, Exec(t, new)
  PROVE  ExecInv'
<1> USE DEF ExecInv
<1>1. /\ pc[new].at = "absent" /\ pc[t].at = "user" /\ new # t /\ Running(t) /\ ~ crashed
      /\ table' = AddThread(new, FirstFree)
      /\ UNCHANGED <<vars, children, answer, crashed>>
  BY DEF Exec, Local, Calling
<1>2. CASE FirstFree = -1
  <2>1. UNCHANGED <<vars, table, threadId, parentId, kind, children, pc, answer, crashed>>
    BY <1>1, <1>2 DEF Exec, AddThread
  <2>2. UNCHANGED <<currentThread, status, on, mode, value>>
    BY <2>1 DEF vars, threadVars, synchVars, machVars
  <2>3. TypeOK'
    BY <2>1 DEF ExecTypeOK, TypeOK, vars, threadVars, synchVars, machVars
  <2>4. ExecTypeOK' /\ JoinExact' /\ NoCrash'
    BY <2>1, <2>3 DEF ExecTypeOK, JoinExact, NoCrash
  <2>5. SlotInv' /\ KindInv' /\ ExecingInv' /\ JoiningInv'
    BY <2>1 DEF SlotInv, KindInv, ExecingInv, JoiningInv, InProgram, Owns, Unjoined,
                Joining
  <2>6. FamilyInv'
    BY <2>1 DEF FamilyInv, Linked, InProgram, Owns, Unjoined
  <2>7. AtomicInv' /\ SemInv'
    BY <2>1, <2>2 DEF AtomicInv, Atomic, Running, SemInv, Told, ReachedExit, Owns
  <2> QED
    BY <2>4, <2>5, <2>6, <2>7
<1>3. CASE FirstFree # -1
  <2>1. /\ threadId' = [threadId EXCEPT ![new] = FirstFree]
        /\ parentId' = [parentId EXCEPT ![new] = threadId[t]]
        /\ kind' = [kind EXCEPT ![new] = "USR_EXEC"]
        /\ pc' = [pc EXCEPT ![t] = At("exec", new), ![new] = At("load", NULL)]
    BY <1>3 DEF Exec
  <2>2. /\ FirstFree \in Ids /\ TableType(table') /\ Apart(new) /\ Owns(new)'
        /\ \A u \in Threads : threadId'[u] = IF u = new THEN FirstFree ELSE threadId[u]
        /\ Unjoined(new) = {} /\ \A u \in Threads : new \notin Unjoined(u)
        /\ kind[new] = "MAIN" /\ threadId[new] # -1
    BY <1>1, <1>3, <2>1, EnterFacts
  <2>3. /\ \A u \in Threads : parentId'[u] = IF u = new THEN threadId[t] ELSE parentId[u]
        /\ \A u \in Threads : kind'[u] = IF u = new THEN "USR_EXEC" ELSE kind[u]
        /\ \A u \in Threads : pc'[u] = IF u = new THEN At("load", NULL)
                                       ELSE IF u = t THEN At("exec", new) ELSE pc[u]
    BY <1>1, <2>1 DEF ExecTypeOK
  <2>4. /\ At("load", NULL).at = "load" /\ At("exec", new).at = "exec"
        /\ At("exec", new).arg = new
        /\ At("load", NULL) \in Points /\ At("exec", new) \in Points
    BY DEF At, Points
  <2>5. UNCHANGED <<currentThread, status, on, mode, value>> /\ TypeOK'
    BY <1>1 DEF ExecTypeOK, TypeOK, vars, threadVars, synchVars, machVars
  <2>6. /\ pc'[new].at = "load" /\ pc'[t].at = "exec" /\ pc'[t].arg = new
        /\ \A u \in Threads : u \notin {t, new} => pc'[u] = pc[u]
    BY <1>1, <2>3, <2>4
  <2>7. \A u \in Threads : Unjoined(u)' = Unjoined(u)
    BY <1>1, <2>6 DEF Unjoined
  <2>8. \A u \in Threads : u # new =>
          /\ (InProgram(u)' <=> InProgram(u)) /\ (Joining(u)' <=> Joining(u))
          /\ Joining(u) => pc'[u] = pc[u]
          /\ (ReachedExit(u)' <=> ReachedExit(u)) /\ kind'[u] = kind[u]
    BY <1>1, <2>3, <2>6 DEF InProgram, Joining, ReachedExit
  <2>9. InProgram(new)' /\ ~ Joining(new)' /\ ~ ReachedExit(new)' /\ ~ ReachedExit(new)
    BY <1>1, <2>6 DEF InProgram, Joining, ReachedExit
  <2>10. ExecTypeOK'
    <3>1. pc' \in [Threads -> Points]
      BY <2>1, <2>4 DEF ExecTypeOK
    <3>2. /\ threadId' \in [Threads -> Ids \union {-1}]
          /\ parentId' \in [Threads -> Ids \union {-1}]
          /\ kind' \in [Threads -> {"MAIN", "USR_EXEC", "USR_FORK"}]
      BY <2>1, <2>2 DEF ExecTypeOK
    <3>3. \A u \in Threads : kind'[u] = "USR_EXEC" => threadId'[u] \in Ids
      BY <2>2, <2>3 DEF ExecTypeOK
    <3> QED
      BY <1>1, <2>2, <2>5, <3>1, <3>2, <3>3 DEF ExecTypeOK, TableType
  <2>11. SlotInv'
    <3> SUFFICES ASSUME NEW u \in Threads, InProgram(u)', threadId'[u] # -1
                 PROVE  Owns(u)'
      BY DEF SlotInv
    <3>1. CASE u # new
      <4>1. threadId[u] # -1 /\ threadId[u] \in Ids /\ InProgram(u)
        BY <2>2, <2>8, <3>1, Types
      <4> QED
        BY <2>2, <3>1, <4>1 DEF SlotInv, Apart
    <3> QED
      BY <2>2, <3>1
  <2>12. KindInv'
    <3> SUFFICES ASSUME NEW u \in Threads
                 PROVE  /\ pc'[u].at = "absent" => kind'[u] = "MAIN" /\ children'[u] = {}
                        /\ pc'[u].at \in {"load", "signal", "check"} => kind'[u] = "USR_EXEC"
                        /\ threadId'[u] = -1 => kind'[u] = "USR_FORK"
                        /\ kind'[u] = "USR_EXEC" /\ parentId'[u] = -1 =>
                             \E w \in Threads : kind'[w] = "USR_FORK" /\ threadId'[w] = -1
      BY DEF KindInv
    <3>1. ASSUME NEW w \in Threads, kind[w] = "USR_FORK", threadId[w] = -1
          PROVE  kind'[w] = "USR_FORK" /\ threadId'[w] = -1
      BY <2>2, <2>3, <3>1
    <3>2. CASE u = new
      <4>1. parentId'[u] = threadId[t] /\ kind'[u] = "USR_EXEC" /\ threadId'[u] # -1
        BY <1>3, <2>2, <2>3, <3>2
      <4>2. threadId[t] = -1 => kind[t] = "USR_FORK"
        BY DEF KindInv
      <4> QED
        BY <2>6, <3>1, <3>2, <4>1, <4>2
    <3>3. CASE u # new
      <4>1. /\ threadId'[u] = threadId[u] /\ parentId'[u] = parentId[u] /\ kind'[u] = kind[u]
            /\ u # t => pc'[u] = pc[u]
            /\ children' = children
        BY <1>1, <2>2, <2>3, <2>6, <3>3
      <4>2. /\ pc[u].at = "absent" => kind[u] = "MAIN" /\ children[u] = {}
            /\ pc[u].at \in {"load", "signal", "check"} => kind[u] = "USR_EXEC"
            /\ threadId[u] = -1 => kind[u] = "USR_FORK"
            /\ kind[u] = "USR_EXEC" /\ parentId[u] = -1 =>
                 \E w \in Threads : kind[w] = "USR_FORK" /\ threadId[w] = -1
        BY DEF KindInv
      <4> QED
        BY <2>6, <3>1, <4>1, <4>2
    <3> QED
      BY <3>2, <3>3
  <2>13. AtomicInv'
    <3>1. Running(t)'
      BY <1>1, <2>5 DEF Running
    <3>2. \A u \in Threads : u # t => ~ Atomic(u)'
      BY <1>1, <2>6, AloneInCall DEF Atomic
    <3> QED
      BY <3>1, <3>2 DEF AtomicInv
  <2>14. ExecingInv'
    <3>1. \A u \in Threads : u # t => pc'[u].at # "exec"
      BY <1>1, <2>6, AloneInCall DEF Atomic
    <3> QED
      BY <1>1, <2>2, <2>3, <2>6, <2>7, <3>1 DEF ExecingInv
  <2>15. JoiningInv'
    BY <1>1, <2>6, <2>8, <2>9 DEF JoiningInv
  <2>16. FamilyInv'
    <3> SUFFICES ASSUME NEW u \in Threads, NEW child \in Unjoined(u)
                 PROVE  Linked(u, child)'
      BY <2>7 DEF FamilyInv
    <3>1. /\ Linked(u, child) /\ child \in Threads /\ child # new /\ u # new
          /\ threadId[child] \in Ids
      BY <2>2, UnjoinedIs
    <3>2. /\ kind'[child] = kind[child] /\ parentId'[child] = parentId[child]
          /\ threadId'[u] = threadId[u] /\ (InProgram(u)' <=> InProgram(u))
          /\ (Owns(child)' <=> Owns(child))
      BY <2>2, <2>3, <2>8, <3>1 DEF Apart
    <3> QED
      BY <2>7, <3>1, <3>2 DEF Linked
  <2>17. SemInv'
    <3>1. \A u \in Threads : Told(u) => Told(u)'
      BY <2>2, <2>8, <2>9, ToldApart DEF Told
    <3>2. \A u \in Threads : ~ Joining(u) => on[u] = NULL
      BY DEF SemInv, Joining
    <3>3. \A u \in Threads : pc'[u].at \in {"joined", "signal"} => pc'[u] = pc[u]
      BY <2>6
    <3>4. \A u \in Threads : pc'[u].at # "signal"
      BY <1>1, <2>6, AloneInCall DEF Atomic
    <3>5. \A u \in Threads : on[u] # NULL => pc'[u] = pc[u]
      BY <1>1, <2>8, <3>2, <2>6 DEF Joining
    <3>6. \A u \in Threads : pc[u].at = "joined" => pc[u].arg \in Threads
      BY DEF JoiningInv, Joining
    <3> QED
      BY <2>5, <3>1, <3>3, <3>4, <3>5, <3>6 DEF SemInv
  <2>18. JoinExact' /\ NoCrash'
    BY <1>1 DEF JoinExact, NoCrash
  <2> QED
    BY <2>10, <2>11, <2>12, <2>13, <2>14, <2>15, <2>16, <2>17, <2>18
<1> QED
  BY <1>2, <1>3

(* Fork, which may find the table full.                                    *)
LEMMA ForkCallStep ==
  ASSUME ExecInv, TypeOK', NEW t \in Threads, NEW new \in Threads, ForkCall(t, new)
  PROVE  ExecInv'
<1> USE DEF ExecInv
<1>1. /\ pc[new].at = "absent" /\ pc[t].at = "user" /\ new # t /\ Running(t) /\ ~ crashed
      /\ table' = AddThread(new, FirstFree)
      /\ threadId' = [threadId EXCEPT ![new] = FirstFree]
      /\ parentId' = [parentId EXCEPT ![new] = threadId[t]]
      /\ kind' = [kind EXCEPT ![new] = "USR_FORK"]
      /\ pc' = [pc EXCEPT ![new] = User]
      /\ UNCHANGED <<value, on, children, answer, crashed>>
  BY DEF ForkCall, Calling, Fork, synchVars
<1>2. /\ FirstFree \in Ids \union {-1} /\ TableType(table') /\ Apart(new)
      /\ \A u \in Threads : threadId'[u] = IF u = new THEN FirstFree ELSE threadId[u]
      /\ FirstFree # -1 => Owns(new)'
      /\ Unjoined(new) = {} /\ \A u \in Threads : new \notin Unjoined(u)
      /\ kind[new] = "MAIN" /\ threadId[new] # -1
  BY <1>1, EnterFacts
<1>3. /\ \A u \in Threads : parentId'[u] = IF u = new THEN threadId[t] ELSE parentId[u]
      /\ \A u \in Threads : kind'[u] = IF u = new THEN "USR_FORK" ELSE kind[u]
      /\ \A u \in Threads : pc'[u] = IF u = new THEN User ELSE pc[u]
  BY <1>1 DEF ExecTypeOK
<1>4. User.at = "user" /\ User \in Points
  BY DEF User, At, Points
<1>5. pc'[new].at = "user" /\ \A u \in Threads : u # new => pc'[u] = pc[u]
  BY <1>3, <1>4
<1>6. \A u \in Threads : Unjoined(u)' = Unjoined(u)
  BY <1>1, <1>5 DEF Unjoined
<1>7. \A u \in Threads : u # new =>
        /\ (InProgram(u)' <=> InProgram(u)) /\ (Joining(u)' <=> Joining(u))
        /\ Joining(u) => pc'[u] = pc[u]
        /\ (ReachedExit(u)' <=> ReachedExit(u)) /\ kind'[u] = kind[u]
  BY <1>3, <1>5 DEF InProgram, Joining, ReachedExit
<1>8. InProgram(new)' /\ ~ Joining(new)' /\ ~ ReachedExit(new)
  BY <1>1, <1>5 DEF InProgram, Joining, ReachedExit
<1>9. \A u \in Threads : ~ Atomic(u)'
  <2>1. \A u \in Threads : u # t => ~ Atomic(u)
    BY <1>1, AloneInCall
  <2> QED
    BY <1>1, <1>5, <2>1 DEF Atomic
<1>10. ExecTypeOK'
  <2>1. pc' \in [Threads -> Points]
    BY <1>1, <1>4 DEF ExecTypeOK
  <2>2. /\ threadId' \in [Threads -> Ids \union {-1}]
        /\ parentId' \in [Threads -> Ids \union {-1}]
        /\ kind' \in [Threads -> {"MAIN", "USR_EXEC", "USR_FORK"}]
    BY <1>1, <1>2 DEF ExecTypeOK
  <2>3. \A u \in Threads : kind'[u] = "USR_EXEC" => threadId'[u] \in Ids
    BY <1>2, <1>3 DEF ExecTypeOK
  <2> QED
    BY <1>1, <1>2, <2>1, <2>2, <2>3 DEF ExecTypeOK, TableType
<1>11. SlotInv'
  <2> SUFFICES ASSUME NEW u \in Threads, InProgram(u)', threadId'[u] # -1
               PROVE  Owns(u)'
    BY DEF SlotInv
  <2>1. CASE u # new
    <3>1. threadId[u] # -1 /\ threadId[u] \in Ids /\ InProgram(u)
      BY <1>2, <1>7, <2>1, Types
    <3> QED
      BY <1>2, <2>1, <3>1 DEF SlotInv, Apart
  <2> QED
    BY <1>2, <2>1
<1>12. KindInv'
  <2> SUFFICES ASSUME NEW u \in Threads
               PROVE  /\ pc'[u].at = "absent" => kind'[u] = "MAIN" /\ children'[u] = {}
                      /\ pc'[u].at \in {"load", "signal", "check"} => kind'[u] = "USR_EXEC"
                      /\ threadId'[u] = -1 => kind'[u] = "USR_FORK"
                      /\ kind'[u] = "USR_EXEC" /\ parentId'[u] = -1 =>
                           \E w \in Threads : kind'[w] = "USR_FORK" /\ threadId'[w] = -1
    BY DEF KindInv
  <2>1. ASSUME NEW w \in Threads, kind[w] = "USR_FORK", threadId[w] = -1
        PROVE  kind'[w] = "USR_FORK" /\ threadId'[w] = -1
    BY <1>2, <1>3, <2>1
  <2>2. CASE u = new
    BY <1>3, <1>5, <2>2
  <2>3. CASE u # new
    <3>1. /\ threadId'[u] = threadId[u] /\ parentId'[u] = parentId[u] /\ kind'[u] = kind[u]
          /\ pc'[u] = pc[u] /\ children' = children
      BY <1>1, <1>2, <1>3, <1>5, <2>3
    <3>2. /\ pc[u].at = "absent" => kind[u] = "MAIN" /\ children[u] = {}
          /\ pc[u].at \in {"load", "signal", "check"} => kind[u] = "USR_EXEC"
          /\ threadId[u] = -1 => kind[u] = "USR_FORK"
          /\ kind[u] = "USR_EXEC" /\ parentId[u] = -1 =>
               \E w \in Threads : kind[w] = "USR_FORK" /\ threadId[w] = -1
      BY DEF KindInv
    <3> QED
      BY <2>1, <3>1, <3>2
  <2> QED
    BY <2>2, <2>3
<1>13. AtomicInv' /\ ExecingInv'
  BY <1>9 DEF AtomicInv, ExecingInv, Atomic
<1>14. JoiningInv'
  BY <1>1, <1>7, <1>8 DEF JoiningInv
<1>15. FamilyInv'
  <2> SUFFICES ASSUME NEW u \in Threads, NEW child \in Unjoined(u)
               PROVE  Linked(u, child)'
    BY <1>6 DEF FamilyInv
  <2>1. /\ Linked(u, child) /\ child \in Threads /\ child # new /\ u # new
        /\ threadId[child] \in Ids
    BY <1>2, UnjoinedIs
  <2>2. /\ kind'[child] = kind[child] /\ parentId'[child] = parentId[child]
        /\ threadId'[u] = threadId[u] /\ (InProgram(u)' <=> InProgram(u))
        /\ (Owns(child)' <=> Owns(child))
    BY <1>2, <1>3, <1>7, <2>1 DEF Apart
  <2> QED
    BY <1>6, <2>1, <2>2 DEF Linked
<1>16. SemInv'
  <2>1. \A u \in Threads : Told(u) => Told(u)'
    BY <1>2, <1>7, <1>8, ToldApart DEF Told
  <2>2. \A u \in Threads : pc'[u].at = "joined" => pc'[u] = pc[u]
    BY <1>5
  <2>3. \A u \in Threads : pc'[u].at # "signal"
    BY <1>9 DEF Atomic
  <2>4. \A u \in Threads : on[u] # NULL => pc'[u] = pc[u]
    BY <1>1, <1>5 DEF SemInv
  <2>5. \A u \in Threads : pc[u].at = "joined" => pc[u].arg \in Threads
    BY DEF JoiningInv, Joining
  <2> QED
    BY <1>1, <2>1, <2>2, <2>3, <2>4, <2>5 DEF SemInv
<1>17. JoinExact' /\ NoCrash'
  BY <1>1 DEF JoinExact, NoCrash
<1> QED
  BY <1>10, <1>11, <1>12, <1>13, <1>14, <1>15, <1>16, <1>17

(* A step that leaves every thread's fields and entry alone keeps what is  *)
(* told, and who owns a slot.                                              *)
LEMMA ToldKept ==
  ASSUME UNCHANGED <<table, threadId, kind>>, NEW u, Told(u), ReachedExit(u)'
  PROVE  Told(u)'
BY DEF Told, Owns

(* The end of Exec: the child is forked and becomes its parent's to join.  *)
LEMMA ExecForkStep ==
  ASSUME ExecInv, TypeOK', NEW t \in Threads, ExecFork(t)
  PROVE  ExecInv'
<1> USE DEF ExecInv
<1> DEFINE child == pc[t].arg
<1>1. /\ pc[t].at = "exec" /\ Running(t) /\ ~ crashed
      /\ pc' = [pc EXCEPT ![t] = At("yield", NULL)]
      /\ children' = [children EXCEPT ![t] = children[t] \union {child}]
      /\ UNCHANGED <<value, on, table, threadId, parentId, kind, answer, crashed>>
  BY DEF ExecFork, Calling, Go, Fork, synchVars
<1>2. /\ child \in Threads /\ pc[child].at = "load" /\ parentId[child] = threadId[t]
      /\ \A u \in Threads : child \notin Unjoined(u)
  BY <1>1 DEF ExecingInv
<1>3. kind[child] = "USR_EXEC" /\ Owns(child) /\ threadId[child] \in Ids
  BY <1>2, SignalEntry
<1> HIDE DEF child
<1>4. At("yield", NULL).at = "yield" /\ At("yield", NULL) \in Points
  BY DEF At, Points
<1>5. pc'[t].at = "yield" /\ \A u \in Threads : u # t => pc'[u] = pc[u]
  BY <1>1, <1>4 DEF ExecTypeOK
<1>6. \A u \in Threads : children'[u] = IF u = t THEN children[u] \union {child} ELSE children[u]
  BY <1>1 DEF ExecTypeOK
<1>7. /\ \A u \in Threads : u # t => Unjoined(u)' = Unjoined(u)
      /\ Unjoined(t)' = Unjoined(t) \union {child}
  BY <1>1, <1>5, <1>6 DEF Unjoined
<1>8. \A u \in Threads :
        /\ (InProgram(u)' <=> InProgram(u)) /\ (Joining(u)' <=> Joining(u))
        /\ Joining(u) => u # t /\ pc'[u] = pc[u]
        /\ (ReachedExit(u)' <=> ReachedExit(u)) /\ (Owns(u)' <=> Owns(u))
  BY <1>1, <1>5 DEF InProgram, Joining, ReachedExit, Owns
<1>9. \A u \in Threads : ~ Atomic(u)'
  <2>1. \A u \in Threads : u # t => ~ Atomic(u)
    BY <1>1, AloneInCall
  <2> QED
    BY <1>5, <2>1 DEF Atomic
<1>10. ExecTypeOK' /\ JoinExact' /\ NoCrash'
  <2>1. pc' \in [Threads -> Points] /\ children' \in [Threads -> SUBSET Threads]
    BY <1>1, <1>2, <1>4 DEF ExecTypeOK
  <2> QED
    BY <1>1, <2>1 DEF ExecTypeOK, JoinExact, NoCrash
<1>11. SlotInv' /\ JoiningInv'
  BY <1>1, <1>6, <1>8 DEF SlotInv, JoiningInv
<1>12. KindInv'
  <2>1. \A u \in Threads : pc'[u].at \in {"absent", "load", "signal", "check"} =>
          u # t /\ pc'[u] = pc[u] /\ children'[u] = children[u]
    BY <1>5, <1>6
  <2> QED
    BY <1>1, <2>1 DEF KindInv
<1>13. AtomicInv' /\ ExecingInv'
  BY <1>9 DEF AtomicInv, ExecingInv, Atomic
<1>14. FamilyInv'
  <2> SUFFICES ASSUME NEW u \in Threads, NEW c \in Unjoined(u)'
               PROVE  Linked(u, c)'
    BY DEF FamilyInv
  <2>1. CASE c = child
    <3>1. u = t /\ \A w \in Threads : child \in Unjoined(w)' => w = t
      BY <1>2, <1>7, <2>1
    <3> QED
      BY <1>1, <1>2, <1>3, <1>8, <2>1, <3>1 DEF Linked
  <2>2. CASE c # child
    <3>1. c \in Unjoined(u) /\ \A w \in Threads : c \in Unjoined(w)' => c \in Unjoined(w)
      BY <1>7, <2>2
    <3>2. Linked(u, c) /\ c \in Threads
      BY <3>1, UnjoinedIs
    <3> QED
      BY <1>1, <1>8, <3>1, <3>2 DEF Linked
  <2> QED
    BY <2>1, <2>2
<1>15. SemInv'
  <2>1. \A u \in Threads : Told(u) => Told(u)'
    BY <1>1, <1>8, ToldKept DEF Told
  <2>2. \A u \in Threads : pc'[u].at = "joined" => pc'[u] = pc[u]
    BY <1>5
  <2>3. \A u \in Threads : pc'[u].at # "signal"
    BY <1>9 DEF Atomic
  <2>4. \A u \in Threads : on[u] # NULL => pc'[u] = pc[u]
    BY <1>1, <1>5 DEF SemInv
  <2>5. \A u \in Threads : pc[u].at = "joined" => pc[u].arg \in Threads
    BY DEF JoiningInv, Joining
  <2> QED
    BY <1>1, <2>1, <2>2, <2>3, <2>4, <2>5 DEF SemInv
<1> QED
  BY <1>10, <1>11, <1>12, <1>13, <1>14, <1>15

-----------------------------------------------------------------------------
(* Join.                                                                   *)

(* Join, of a child the kernel may say no about.                           *)
LEMMA JoinStep ==
  ASSUME ExecInv, TypeOK', NEW t \in Threads, NEW child \in Threads, Join(t, child)
  PROVE  ExecInv'
<1> USE DEF ExecInv
<1>1. /\ pc[t].at = "user" /\ Running(t) /\ ~ crashed /\ child \in children[t]
      /\ children' = [children EXCEPT ![t] = children[t] \ {child}]
      /\ UNCHANGED <<vars, table, threadId, parentId, kind, crashed>>
      /\ \/ pc' = [pc EXCEPT ![t] = At("join", child)] /\ answer' = answer
         \/ /\ pc' = [pc EXCEPT ![t] = User]
            /\ answer' = [answer EXCEPT ![t] = [child |-> child, value |-> -1]]
  BY DEF Join, Local, Calling, Go
<1>2. UNCHANGED <<value, on>>
  BY <1>1 DEF vars, synchVars
<1>3. /\ At("join", child).at = "join" /\ At("join", child).arg = child
      /\ User.at = "user" /\ At("join", child) \in Points /\ User \in Points
  BY DEF At, User, Points
<1>4. PICK to \in {At("join", child), User} : pc' = [pc EXCEPT ![t] = to]
  BY <1>1
<1>5. pc'[t] = to /\ \A u \in Threads : u # t => pc'[u] = pc[u]
  BY <1>4 DEF ExecTypeOK
<1>6. to.at \in {"join", "user"} /\ (to.at = "join" => to.arg = child) /\ to \in Points
  BY <1>3
<1>7. \A u \in Threads : children'[u] = IF u = t THEN children[u] \ {child} ELSE children[u]
  BY <1>1 DEF ExecTypeOK
<1>8. \A u \in Threads : \A c \in Unjoined(u)' : c \in Unjoined(u)
  <2>1. \A u \in Threads : u # t => Unjoined(u)' = Unjoined(u)
    BY <1>5, <1>7 DEF Unjoined
  <2>2. Unjoined(t)' \subseteq children[t] /\ Unjoined(t) = children[t]
    BY <1>1, <1>5, <1>6, <1>7 DEF Unjoined
  <2> QED
    BY <2>1, <2>2
<1>9. \A u \in Threads :
        /\ (InProgram(u)' <=> InProgram(u))
        /\ (ReachedExit(u)' <=> ReachedExit(u)) /\ (Owns(u)' <=> Owns(u))
  BY <1>1, <1>5, <1>6 DEF InProgram, ReachedExit, Owns
<1>10. \A u \in Threads : ~ Atomic(u)'
  <2>1. \A u \in Threads : u # t => ~ Atomic(u)
    BY <1>1, AloneInCall
  <2> QED
    BY <1>5, <1>6, <2>1 DEF Atomic
<1>11. ExecTypeOK'
  <2>1. pc' \in [Threads -> Points] /\ children' \in [Threads -> SUBSET Threads]
    BY <1>1, <1>4, <1>6 DEF ExecTypeOK
  <2>2. answer' \in [Threads -> {NULL} \union
                      [child : Threads, value : Threads \union {0, -1}]]
    <3> DEFINE reply == [child |-> child, value |-> -1]
    <3>1. reply \in [child : Threads, value : Threads \union {0, -1}]
      OBVIOUS
    <3>2. answer' = answer \/ answer' = [answer EXCEPT ![t] = reply]
      BY <1>1
    <3> HIDE DEF reply
    <3> QED
      BY <3>1, <3>2 DEF ExecTypeOK
  <2> QED
    BY <1>1, <2>1, <2>2 DEF ExecTypeOK
<1>12. JoinExact' /\ NoCrash'
  <2>1. ASSUME NEW u \in Threads, answer'[u] # NULL
        PROVE  answer'[u].value \in {-1, answer'[u].child}
    <3>1. CASE answer'[u] = answer[u]
      BY <2>1, <3>1 DEF JoinExact
    <3>2. CASE answer'[u] # answer[u]
      <4>1. answer'[u] = [child |-> child, value |-> -1]
        BY <1>1, <3>2 DEF ExecTypeOK
      <4> QED
        BY <4>1
    <3> QED
      BY <3>1, <3>2
  <2> QED
    BY <1>1, <2>1 DEF JoinExact, NoCrash
<1>13. SlotInv'
  BY <1>1, <1>9 DEF SlotInv
<1>14. KindInv'
  <2>1. \A u \in Threads : pc'[u].at \in {"absent", "load", "signal", "check"} =>
          u # t /\ pc'[u] = pc[u] /\ children'[u] = children[u]
    BY <1>5, <1>6, <1>7
  <2> QED
    BY <1>1, <2>1 DEF KindInv
<1>15. AtomicInv' /\ ExecingInv'
  BY <1>10 DEF AtomicInv, ExecingInv, Atomic
<1>16. JoiningInv'
  <2>1. \A u \in Threads : u # t => (Joining(u)' <=> Joining(u))
    BY <1>5 DEF Joining
  <2>2. Joining(t)' => to.arg = child
    BY <1>5, <1>6 DEF Joining
  <2> QED
    BY <1>5, <1>7, <2>1, <2>2 DEF JoiningInv
<1>17. FamilyInv'
  <2> SUFFICES ASSUME NEW u \in Threads, NEW c \in Unjoined(u)'
               PROVE  Linked(u, c)'
    BY DEF FamilyInv
  <2>1. c \in Unjoined(u) /\ \A w \in Threads : c \in Unjoined(w)' => c \in Unjoined(w)
    BY <1>8
  <2>2. Linked(u, c) /\ c \in Threads
    BY <2>1, UnjoinedIs
  <2> QED
    BY <1>1, <1>9, <2>1, <2>2 DEF Linked
<1>18. SemInv'
  <2>1. \A u \in Threads : Told(u) => Told(u)'
    BY <1>1, <1>9, ToldKept DEF Told
  <2>2. \A u \in Threads : pc'[u].at = "joined" => pc'[u] = pc[u]
    BY <1>5, <1>6
  <2>3. \A u \in Threads : pc'[u].at # "signal"
    BY <1>10 DEF Atomic
  <2>4. \A u \in Threads : on[u] # NULL => pc'[u] = pc[u]
    BY <1>1, <1>5 DEF SemInv
  <2>5. \A u \in Threads : pc[u].at = "joined" => pc[u].arg \in Threads
    BY DEF JoiningInv, Joining
  <2> QED
    BY <1>2, <2>1, <2>2, <2>3, <2>4, <2>5 DEF SemInv
<1> QED
  BY <1>11, <1>12, <1>13, <1>14, <1>15, <1>16, <1>17, <1>18

(* The P of Join: the parent sleeps in it, or is told at once.             *)
LEMMA JoinPKept ==
  ASSUME ExecInv, TypeOK', NEW t \in Threads, JoinP(t)
  PROVE  ExecInv'
<1> USE DEF ExecInv
<1> DEFINE child == pc[t].arg
<1>1. /\ pc[t].at = "join" /\ Running(t) /\ ~ crashed
      /\ pc' = [pc EXCEPT ![t] = At("joined", child)]
      /\ P(t, child) /\ on[t] = NULL
      /\ UNCHANGED <<table, threadId, parentId, kind, children, answer, crashed>>
  BY JoinPStep DEF JoinP, Calling, Go, Running
<1>2. child \in Unjoined(t) /\ child \in Threads /\ child \notin children[t]
  BY <1>1, JoinedEntry DEF Joining, JoiningInv
<1> HIDE DEF child
<1>3. /\ At("joined", child).at = "joined" /\ At("joined", child).arg = child
      /\ At("joined", child) \in Points
  BY <1>2 DEF At, Points
<1>4. /\ pc'[t].at = "joined" /\ pc'[t].arg = child
      /\ \A u \in Threads : u # t => pc'[u] = pc[u]
  BY <1>1, <1>3 DEF ExecTypeOK
<1>5. \A u \in Threads : /\ Unjoined(u)' = Unjoined(u) /\ (InProgram(u)' <=> InProgram(u))
                         /\ (Owns(u)' <=> Owns(u))
                         /\ (ReachedExit(u)' <=> ReachedExit(u))
  BY <1>1, <1>4 DEF Unjoined, InProgram, Owns, ReachedExit, child
<1>6. \A u \in Threads : ~ Atomic(u)'
  <2>1. \A u \in Threads : u # t => ~ Atomic(u)
    BY <1>1, AloneInCall
  <2> QED
    BY <1>4, <2>1 DEF Atomic
<1>7. ExecTypeOK' /\ JoinExact' /\ NoCrash'
  <2>1. pc' \in [Threads -> Points]
    BY <1>1, <1>3 DEF ExecTypeOK
  <2> QED
    BY <1>1, <2>1 DEF ExecTypeOK, JoinExact, NoCrash
<1>8. SlotInv'
  BY <1>1, <1>5 DEF SlotInv
<1>9. KindInv'
  BY <1>1, <1>4 DEF KindInv
<1>10. AtomicInv' /\ ExecingInv'
  BY <1>6 DEF AtomicInv, ExecingInv, Atomic
<1>11. JoiningInv'
  BY <1>1, <1>2, <1>4 DEF JoiningInv, Joining
<1>12. FamilyInv'
  <2> SUFFICES ASSUME NEW u \in Threads, NEW c \in Unjoined(u)
               PROVE  Linked(u, c)'
    BY <1>5 DEF FamilyInv
  <2>1. Linked(u, c) /\ c \in Threads
    BY UnjoinedIs
  <2> QED
    BY <1>1, <1>5, <2>1 DEF Linked
<1>13. SemInv'
  <2>1. \A u \in Threads : Told(u) => Told(u)'
    BY <1>1, <1>5, ToldKept DEF Told
  <2>2. \A u \in Threads : pc'[u].at # "signal"
    BY <1>6 DEF Atomic
  <2>3. \A u \in Threads : pc[u].at = "joined" => pc[u].arg \in Threads
    BY DEF JoiningInv, Joining
  <2>4. TryP(t, child)
    BY <1>1 DEF P
  <2>5. CASE value[child] = 0
    <3>1. value' = value /\ on' = [on EXCEPT ![t] = child]
      BY <2>4, <2>5 DEF TryP
    <3>2. \A u \in Threads : on'[u] = IF u = t THEN child ELSE on[u]
      BY <3>1 DEF ExecTypeOK, TypeOK
    <3>3. child # NULL
      BY <1>2, Constants
    <3> QED
      BY <1>1, <1>4, <2>1, <2>2, <2>3, <3>1, <3>2, <3>3 DEF SemInv
  <2>6. CASE value[child] > 0
    <3>1. /\ value' = [value EXCEPT ![child] = value[child] - 1]
          /\ on' = [on EXCEPT ![t] = NULL]
      BY <2>4, <2>6 DEF TryP
    <3>2. \A u \in Threads : on'[u] = on[u]
      BY <1>1, <3>1 DEF ExecTypeOK, TypeOK
    <3>3. \A u \in Threads : value'[u] > 0 => value[u] > 0
      <4>1. value \in [Threads -> Nat]
        BY Constants DEF ExecTypeOK, TypeOK
      <4> QED
        BY <2>6, <3>1, <4>1
    <3>4. Told(child)
      BY <1>2, <2>6 DEF SemInv
    <3> QED
      BY <1>1, <1>2, <1>4, <2>1, <2>2, <2>3, <3>2, <3>3, <3>4 DEF SemInv
  <2> QED
    BY <1>2, <2>5, <2>6, Types
<1> QED
  BY <1>7, <1>8, <1>9, <1>10, <1>11, <1>12, <1>13

(* The end of Join: the status of the child is read, its entry removed.    *)
LEMMA JoinReturnStep ==
  ASSUME ExecInv, TypeOK', NEW t \in Threads, JoinReturn(t)
  PROVE  ExecInv'
<1> USE DEF ExecInv
<1>0. PICK child : child = pc[t].arg
  OBVIOUS
<1> DEFINE reply == [child |-> child, value |-> table[threadId[child]].exitStatus]
<1>1. Joining(t) /\ pc[t].at = "joined" /\ Running(t) /\ ~ crashed /\ on[t] = NULL
  BY DEF JoinReturn, Local, Calling, Go, Joining, Running
<1>2. /\ child \in Unjoined(t) /\ child \in Threads /\ child \notin children[t]
      /\ threadId[child] \in Ids /\ Owns(child) /\ Told(child) /\ Linked(t, child)
  BY <1>0, <1>1, JoinedEntry, UnjoinedIs DEF JoiningInv, SemInv
<1>3. /\ pc' = [pc EXCEPT ![t] = User] /\ crashed' = crashed
      /\ answer' = [answer EXCEPT ![t] = reply]
      /\ table' = RemoveThread(threadId[child])
      /\ UNCHANGED <<vars, threadId, parentId, kind, children>>
  BY <1>0, <1>2 DEF JoinReturn, Local, Go, Owns
<1>4. UNCHANGED <<value, on>>
  BY <1>3 DEF vars, synchVars
<1>5. reply.child = child /\ reply.value = child
  BY <1>2 DEF Told
<1>6. reply \in [child : Threads, value : Threads \union {0, -1}]
  BY <1>2 DEF Told
<1> HIDE DEF reply
<1>7. TableType(table') /\ Apart(child)
  BY <1>2, <1>3, RemoveFacts
<1>8. User.at = "user" /\ User \in Points
  BY DEF At, User, Points
<1>9. pc'[t].at = "user" /\ \A u \in Threads : u # t => pc'[u] = pc[u]
  BY <1>3, <1>8 DEF ExecTypeOK
<1>10. \A u \in Threads : ~ Atomic(u) /\ ~ Atomic(u)'
  <2>1. \A u \in Threads : u # t => ~ Atomic(u)
    BY <1>1, AloneInCall
  <2> QED
    BY <1>1, <1>9, <2>1 DEF Atomic
<1>11. /\ \A u \in Threads : u # t => Unjoined(u)' = Unjoined(u)
       /\ Unjoined(t)' = children[t]
       /\ \A u \in Threads : \A c \in Unjoined(u)' : c \in Unjoined(u) /\ c # child
  <2>1. \A u \in Threads : u # t => Unjoined(u)' = Unjoined(u)
    BY <1>3, <1>9 DEF Unjoined
  <2>2. Unjoined(t)' = children[t] /\ children[t] \subseteq Unjoined(t)
    BY <1>3, <1>9 DEF Unjoined
  <2>3. \A u \in Threads : u # t => child \notin Unjoined(u)
    BY <1>2 DEF Linked
  <2> QED
    BY <1>2, <2>1, <2>2, <2>3
<1>12. \A u \in Threads : (InProgram(u)' <=> InProgram(u)) /\ (ReachedExit(u)' <=> ReachedExit(u))
  BY <1>1, <1>9 DEF InProgram, ReachedExit
<1>13. ~ InProgram(child)'
  BY <1>2, <1>10, <1>12 DEF Told, ReachedExit, InProgram, Atomic
<1>14. ExecTypeOK'
  <2>1. pc' \in [Threads -> Points]
    BY <1>3, <1>8 DEF ExecTypeOK
  <2>2. answer' \in [Threads -> {NULL} \union
                      [child : Threads, value : Threads \union {0, -1}]]
    BY <1>3, <1>6 DEF ExecTypeOK
  <2> QED
    BY <1>3, <1>7, <2>1, <2>2 DEF ExecTypeOK, TableType
<1>15. JoinExact' /\ NoCrash'
  <2>1. \A u \in Threads : answer'[u] = IF u = t THEN reply ELSE answer[u]
    BY <1>3 DEF ExecTypeOK
  <2> QED
    BY <1>1, <1>3, <1>5, <2>1 DEF JoinExact, NoCrash
<1>16. SlotInv'
  <2> SUFFICES ASSUME NEW u \in Threads, InProgram(u)', threadId'[u] # -1
               PROVE  Owns(u)'
    BY DEF SlotInv
  <2>1. u # child /\ threadId[u] \in Ids /\ InProgram(u) /\ threadId[u] # -1
    BY <1>3, <1>12, <1>13, Types
  <2> QED
    BY <1>7, <2>1 DEF SlotInv, Apart
<1>17. KindInv'
  BY <1>3, <1>9 DEF KindInv
<1>18. AtomicInv' /\ ExecingInv'
  BY <1>10 DEF AtomicInv, ExecingInv, Atomic
<1>19. JoiningInv'
  BY <1>3, <1>9 DEF JoiningInv, Joining
<1>20. FamilyInv'
  <2> SUFFICES ASSUME NEW u \in Threads, NEW c \in Unjoined(u)'
               PROVE  Linked(u, c)'
    BY DEF FamilyInv
  <2>1. /\ c \in Unjoined(u) /\ c # child
        /\ \A w \in Threads : c \in Unjoined(w)' => c \in Unjoined(w)
    BY <1>11
  <2>2. Linked(u, c) /\ c \in Threads /\ threadId[c] \in Ids
    BY <2>1, UnjoinedIs
  <2>3. Owns(c)' <=> Owns(c)
    BY <1>7, <2>1, <2>2 DEF Apart
  <2> QED
    BY <1>3, <1>12, <2>1, <2>2, <2>3 DEF Linked
<1>21. SemInv'
  <2>1. ASSUME NEW u \in Threads, Told(u) PROVE Told(u)'
    <3>1. ReachedExit(u)' /\ kind'[u] = kind[u]
      BY <1>3, <1>12, <2>1 DEF Told
    <3>2. CASE u = child
      <4>1. ~ Owns(child)'
        BY <1>2, <1>3, RemoveFacts, Constants
      <4> QED
        BY <2>1, <3>1, <3>2, <4>1 DEF Told
    <3>3. CASE u # child
      BY <1>2, <1>7, <2>1, <3>1, <3>3, ToldApart
    <3> QED
      BY <3>2, <3>3
  <2>2. \A u \in Threads : pc'[u].at = "joined" => pc'[u] = pc[u]
    BY <1>9
  <2>3. \A u \in Threads : pc'[u].at # "signal"
    BY <1>10 DEF Atomic
  <2>4. \A u \in Threads : on[u] # NULL => pc'[u] = pc[u]
    BY <1>1, <1>9
  <2>5. \A u \in Threads : pc[u].at = "joined" => pc[u].arg \in Threads
    BY DEF JoiningInv, Joining
  <2> QED
    BY <1>4, <2>1, <2>2, <2>3, <2>4, <2>5 DEF SemInv
<1> QED
  BY <1>14, <1>15, <1>16, <1>17, <1>18, <1>19, <1>20, <1>21

-----------------------------------------------------------------------------
(* Exit.                                                                   *)

(* A thread goes, and with it its entry or not.                            *)
LEMMA LeaveStep ==
  ASSUME ExecInv, TypeOK', NoCrash', NEW t \in Threads, Running(t),
         pc[t].at \in {"user", "check"},
         pc' = [pc EXCEPT ![t] = At("leave", NULL)],
         TableType(table'), Apart(t), table' = table \/ ~ Owns(t)',
         \A u \in Threads : InProgram(u) /\ t \in Unjoined(u) => Owns(t)',
         UNCHANGED <<value, on, threadId, parentId, kind, children, answer>>,
         crashed' \in BOOLEAN
  PROVE  ExecInv'
<1> USE DEF ExecInv
<1>1. /\ At("leave", NULL).at = "leave" /\ At("leave", NULL) \in Points
      /\ on[t] = NULL
  BY DEF At, Points, Running
<1>2. pc'[t].at = "leave" /\ \A u \in Threads : u # t => pc'[u] = pc[u]
  BY <1>1 DEF ExecTypeOK
<1>3. \A u \in Threads : ~ Atomic(u)'
  <2>1. \A u \in Threads : u # t => ~ Atomic(u)
    BY AloneInCall
  <2> QED
    BY <1>2, <2>1 DEF Atomic
<1>4. \A u \in Threads :
        /\ Unjoined(u)' = Unjoined(u) /\ (Joining(u)' <=> Joining(u))
        /\ Joining(u) => pc'[u] = pc[u]
        /\ InProgram(u)' <=> InProgram(u) /\ u # t
        /\ ReachedExit(u) => ReachedExit(u)'
  BY <1>2 DEF Unjoined, Joining, InProgram, ReachedExit
<1>5. ExecTypeOK' /\ JoinExact'
  <2>1. pc' \in [Threads -> Points]
    BY <1>1 DEF ExecTypeOK
  <2> QED
    BY <2>1 DEF ExecTypeOK, TableType, JoinExact
<1>6. SlotInv'
  <2> SUFFICES ASSUME NEW u \in Threads, InProgram(u)', threadId'[u] # -1
               PROVE  Owns(u)'
    BY DEF SlotInv
  <2>1. u # t /\ threadId[u] \in Ids /\ InProgram(u) /\ threadId[u] # -1
    BY <1>4, Types
  <2> QED
    BY <2>1 DEF SlotInv, Apart
<1>7. KindInv'
  BY <1>2 DEF KindInv
<1>8. AtomicInv' /\ ExecingInv'
  BY <1>3 DEF AtomicInv, ExecingInv, Atomic
<1>9. JoiningInv'
  BY <1>4 DEF JoiningInv
<1>10. FamilyInv'
  <2> SUFFICES ASSUME NEW u \in Threads, NEW child \in Unjoined(u)
               PROVE  Linked(u, child)'
    BY <1>4 DEF FamilyInv
  <2>1. Linked(u, child) /\ child \in Threads /\ threadId[child] \in Ids
    BY UnjoinedIs
  <2>2. ASSUME InProgram(u)' PROVE Owns(child)'
    <3>1. InProgram(u) /\ Owns(child)
      BY <1>4, <2>1, <2>2 DEF Linked
    <3> QED
      BY <2>1, <3>1 DEF Apart
  <2> QED
    BY <1>4, <2>1, <2>2 DEF Linked
<1>11. SemInv'
  <2>1. ASSUME NEW u \in Threads, Told(u) PROVE Told(u)'
    <3>1. ReachedExit(u)'
      BY <1>4, <2>1 DEF Told
    <3>2. CASE u = t
      BY <2>1, <3>1, <3>2, ToldKept DEF Told
    <3>3. CASE u # t
      BY <2>1, <3>1, <3>3, ToldApart
    <3> QED
      BY <3>2, <3>3
  <2>2. \A u \in Threads : pc'[u].at = "joined" => pc'[u] = pc[u]
    BY <1>2
  <2>3. \A u \in Threads : pc'[u].at # "signal"
    BY <1>3 DEF Atomic
  <2>4. \A u \in Threads : on[u] # NULL => pc'[u] = pc[u]
    BY <1>1, <1>2
  <2>5. \A u \in Threads : pc[u].at = "joined" => pc[u].arg \in Threads
    BY DEF JoiningInv, Joining
  <2> QED
    BY <2>1, <2>2, <2>3, <2>4, <2>5 DEF SemInv
<1> QED
  BY <1>5, <1>6, <1>7, <1>8, <1>9, <1>10, <1>11

(* The exit of an Exec'd thread leaves its status, that of another one     *)
(* takes the entry away.                                                   *)
LEMMA ExitStep ==
  ASSUME ExecInv, TypeOK', NEW t \in Threads, Exit(t)
  PROVE  ExecInv'
<1> USE DEF ExecInv
<1>1. /\ pc[t].at = "user" /\ Running(t) /\ ~ crashed /\ on[t] = NULL
      /\ UNCHANGED <<vars, threadId, parentId, kind, children, answer, crashed>>
  BY DEF Exit, Local, Calling, Go, Running
<1>2. UNCHANGED <<value, on, currentThread, status, mode>>
  BY <1>1 DEF vars, synchVars, threadVars, machVars
<1>3. NoCrash' /\ JoinExact' /\ InProgram(t)
  BY <1>1 DEF NoCrash, JoinExact, InProgram
<1>4. CASE kind[t] # "USR_EXEC"
  <2>1. table' = RemoveThread(threadId[t]) /\ pc' = [pc EXCEPT ![t] = At("leave", NULL)]
    BY <1>4 DEF Exit, Go
  <2>2. Owns(t) \/ threadId[t] = -1
    BY <1>3 DEF SlotInv
  <2>3. TableType(table') /\ Apart(t) /\ (threadId[t] # -1 => ~ Owns(t)')
    BY <1>1, <2>1, <2>2, RemoveFacts
  <2>4. threadId[t] = -1 => table' = table
    BY <2>1, Constants DEF RemoveThread, ExecTypeOK
  <2>5. \A u \in Threads : t \notin Unjoined(u)
    BY <1>4, UnjoinedIs
  <2> QED
    BY <1>1, <1>2, <1>3, <2>1, <2>3, <2>4, <2>5, LeaveStep DEF ExecTypeOK
<1>5. CASE kind[t] = "USR_EXEC"
  <2>1. /\ pc' = [pc EXCEPT ![t] = At("signal", NULL)]
        /\ table' = [i \in Ids |->
               IF i = threadId[t] /\ table[i] # NULL
               THEN [table[i] EXCEPT !.exitStatus = t] ELSE table[i]]
    BY <1>5 DEF Exit, Go
  <2>2. threadId[t] \in Ids /\ threadId[t] # -1
    BY <1>5, Types, Constants
  <2>3. Owns(t)
    BY <1>3, <2>2 DEF SlotInv
  <2>4. TableType(table') /\ Apart(t) /\ Owns(t)' /\ table'[threadId[t]].exitStatus = t
    BY <1>1, <2>1, <2>2, <2>3, StatusFacts
  <2>5. At("signal", NULL).at = "signal" /\ At("signal", NULL) \in Points
    BY DEF At, Points
  <2>6. pc'[t].at = "signal" /\ \A u \in Threads : u # t => pc'[u] = pc[u]
    BY <2>1, <2>5 DEF ExecTypeOK
  <2>7. \A u \in Threads :
          /\ Unjoined(u)' = Unjoined(u) /\ (Joining(u)' <=> Joining(u))
          /\ Joining(u) => pc'[u] = pc[u]
          /\ (InProgram(u)' <=> InProgram(u)) /\ (ReachedExit(u)' <=> ReachedExit(u))
    BY <1>1, <2>6 DEF Unjoined, Joining, InProgram, ReachedExit
  <2>8. \A u \in Threads : threadId[u] \in Ids => (Owns(u)' <=> Owns(u))
    BY <2>3, <2>4 DEF Apart
  <2>9. ExecTypeOK'
    <3>1. pc' \in [Threads -> Points]
      BY <2>1, <2>5 DEF ExecTypeOK
    <3> QED
      BY <1>1, <2>4, <3>1 DEF ExecTypeOK, TableType
  <2>10. SlotInv'
    BY <1>1, <2>7, <2>8, Types DEF SlotInv
  <2>11. KindInv'
    BY <1>1, <1>5, <2>6 DEF KindInv
  <2>12. \A u \in Threads : u # t => ~ Atomic(u)'
    BY <1>1, <2>6, AloneInCall DEF Atomic
  <2>13. AtomicInv'
    <3>1. Running(t)'
      BY <1>1, <1>2 DEF Running
    <3> QED
      BY <2>12, <3>1 DEF AtomicInv
  <2>14. ExecingInv'
    BY <2>6, <2>12 DEF ExecingInv, Atomic
  <2>15. JoiningInv'
    BY <1>1, <2>7 DEF JoiningInv
  <2>16. FamilyInv'
    <3> SUFFICES ASSUME NEW u \in Threads, NEW child \in Unjoined(u)
                 PROVE  Linked(u, child)'
      BY <2>7 DEF FamilyInv
    <3>1. Linked(u, child) /\ child \in Threads /\ threadId[child] \in Ids
      BY UnjoinedIs
    <3> QED
      BY <1>1, <2>7, <2>8, <3>1 DEF Linked
  <2>17. SemInv'
    <3>1. ASSUME NEW u \in Threads, Told(u) PROVE Told(u)'
      <4>1. u # t /\ ReachedExit(u)' /\ kind'[u] = kind[u]
        BY <1>1, <2>7, <3>1 DEF Told, ReachedExit
      <4> QED
        BY <2>4, <3>1, <4>1, ToldApart
    <3>2. \A u \in Threads : pc'[u].at = "joined" => pc'[u] = pc[u]
      BY <2>6
    <3>3. \A u \in Threads : pc'[u].at = "signal" => u = t
      BY <2>12 DEF Atomic
    <3>4. \A u \in Threads : on[u] # NULL => pc'[u] = pc[u]
      BY <1>1, <2>6
    <3>5. \A u \in Threads : pc[u].at = "joined" => pc[u].arg \in Threads
      BY DEF JoiningInv, Joining
    <3> QED
      BY <1>1, <1>2, <2>4, <3>1, <3>2, <3>3, <3>4, <3>5 DEF SemInv
  <2> QED
    BY <1>3, <2>9, <2>10, <2>11, <2>13, <2>14, <2>15, <2>16, <2>17
<1> QED
  BY <1>4, <1>5

(* The thread that Vs its own semaphore goes on running: it waits for none.*)
LEMMA ExitSignalKept ==
  ASSUME ExecInv, TypeOK', QueueInv, NEW t \in Threads, ExitSignal(t)
  PROVE  ExecInv'
<1> USE DEF ExecInv
<1>1. /\ pc[t].at = "signal" /\ Running(t) /\ ~ crashed /\ on[t] = NULL
      /\ pc' = [pc EXCEPT ![t] = At("check", NULL)]
      /\ V(t, t)
      /\ UNCHANGED <<table, threadId, parentId, kind, children, answer, crashed>>
  BY ExitSignalStep DEF ExitSignal, Calling, Go, Running
<1>2. kind[t] = "USR_EXEC" /\ table[threadId[t]].exitStatus = t
  BY <1>1, SignalEntry DEF SemInv
<1>3. /\ value' = [value EXCEPT ![t] = value[t] + 1] /\ on' = on
      /\ status' = Ready(status, Woken(t)) /\ UNCHANGED <<currentThread, mode>>
  BY <1>1 DEF V, VBody, machVars
<1>4. \A u \in Threads : u # t => value'[u] = value[u]
  <2>1. value \in [Threads -> Nat]
    BY Constants DEF ExecTypeOK, TypeOK
  <2> QED
    BY <1>3, <2>1
<1>5. At("check", NULL).at = "check" /\ At("check", NULL) \in Points
  BY DEF At, Points
<1>6. pc'[t].at = "check" /\ \A u \in Threads : u # t => pc'[u] = pc[u]
  BY <1>1, <1>5 DEF ExecTypeOK
<1>7. \A u \in Threads :
        /\ Unjoined(u)' = Unjoined(u) /\ (Joining(u)' <=> Joining(u))
        /\ (Joining(u) => pc'[u] = pc[u]) /\ (Owns(u)' <=> Owns(u))
        /\ (InProgram(u)' <=> InProgram(u)) /\ (ReachedExit(u) => ReachedExit(u)')
  BY <1>1, <1>6 DEF Unjoined, Joining, InProgram, ReachedExit, Owns
<1>8. ExecTypeOK' /\ NoCrash' /\ JoinExact'
  <2>1. pc' \in [Threads -> Points]
    BY <1>1, <1>5 DEF ExecTypeOK
  <2> QED
    BY <1>1, <2>1 DEF ExecTypeOK, NoCrash, JoinExact
<1>9. SlotInv'
  BY <1>1, <1>7 DEF SlotInv
<1>10. KindInv'
  BY <1>1, <1>2, <1>6 DEF KindInv
<1>11. \A u \in Threads : u # t => ~ Atomic(u)'
  BY <1>1, <1>6, AloneInCall DEF Atomic
<1>12. AtomicInv'
  <2>1. ~ Listed(t, Woken(t))
    <3>1. queue[t] \in Seq(Threads) /\ t \in Sems
      BY Constants DEF ExecTypeOK, TypeOK
    <3>2. ~ Listed(t, queue[t])
      BY <1>1, <3>1 DEF QueueInv, Running
    <3>3. CASE queue[t] = <<>>
      BY <3>3 DEF Woken, Listed
    <3>4. CASE queue[t] # <<>>
      <4>1. Listed(Head(queue[t]), queue[t])
        BY <3>1, <3>4, ListedTail
      <4>2. Head(queue[t]) # t
        BY <3>2, <4>1
      <4> DEFINE h == Head(queue[t])
      <4>3. Woken(t) = <<h>> /\ h # t
        BY <3>4, <4>2 DEF Woken
      <4> HIDE DEF h
      <4> QED
        BY <4>3 DEF Listed
    <3> QED
      BY <3>3, <3>4
  <2>2. Running(t)'
    BY <1>1, <1>3, <2>1 DEF Running, Ready
  <2> QED
    BY <1>11, <2>2 DEF AtomicInv
<1>13. ExecingInv'
  BY <1>6, <1>11 DEF ExecingInv, Atomic
<1>14. JoiningInv'
  BY <1>1, <1>7 DEF JoiningInv
<1>15. FamilyInv'
  <2> SUFFICES ASSUME NEW u \in Threads, NEW child \in Unjoined(u)
               PROVE  Linked(u, child)'
    BY <1>7 DEF FamilyInv
  <2>1. Linked(u, child) /\ child \in Threads
    BY UnjoinedIs
  <2> QED
    BY <1>1, <1>7, <2>1 DEF Linked
<1>16. SemInv'
  <2>1. \A u \in Threads : Told(u) => Told(u)'
    BY <1>1, <1>7, ToldKept DEF Told
  <2>2. Told(t)'
    BY <1>1, <1>2, <1>6 DEF Told, ReachedExit
  <2>3. \A u \in Threads : pc'[u].at = "joined" => pc'[u] = pc[u]
    BY <1>6
  <2>4. \A u \in Threads : pc'[u].at # "signal"
    BY <1>6, <1>11 DEF Atomic
  <2>5. \A u \in Threads : on[u] # NULL => pc'[u] = pc[u]
    BY <1>1, <1>6
  <2>6. \A u \in Threads : pc[u].at = "joined" => pc[u].arg \in Threads
    BY DEF JoiningInv, Joining
  <2> QED
    BY <1>3, <1>4, <2>1, <2>2, <2>3, <2>4, <2>5, <2>6 DEF SemInv
<1> QED
  BY <1>8, <1>9, <1>10, <1>12, <1>13, <1>14, <1>15, <1>16

(* With its parent gone a thread takes its own entry away: a parent that   *)
(* is still there is in its slot.                                          *)
LEMMA ExitCheckStep ==
  ASSUME ExecInv, TypeOK', NEW t \in Threads, ExitCheck(t)
  PROVE  ExecInv'
<1> USE DEF ExecInv
<1>1. /\ pc[t].at = "check" /\ Running(t) /\ ~ crashed
      /\ pc' = [pc EXCEPT ![t] = At("leave", NULL)]
      /\ UNCHANGED <<vars, threadId, parentId, kind, children, answer>>
  BY DEF ExitCheck, Local, Calling, Go
<1>2. UNCHANGED <<value, on>>
  BY <1>1 DEF vars, synchVars
<1>3. kind[t] = "USR_EXEC" /\ threadId[t] \in Ids /\ threadId[t] # -1 /\ Owns(t)
  BY <1>1, SignalEntry, Constants
<1>4. CASE table' = table
  <2>1. crashed' \in BOOLEAN /\ NoCrash'
    <3>1. crashed' = (parentId[t] = -1)
      BY <1>1 DEF ExitCheck, ExecTypeOK
    <3>2. parentId[t] = -1 => \E u \in Threads : kind[u] = "USR_FORK" /\ threadId[u] = -1
      BY <1>3 DEF KindInv
    <3> QED
      BY <1>1, <3>1, <3>2 DEF NoCrash
  <2>2. TableType(table') /\ Apart(t) /\ Owns(t)'
    BY <1>1, <1>3, <1>4 DEF TableType, ExecTypeOK, Apart, Owns
  <2> QED
    BY <1>1, <1>2, <1>4, <2>1, <2>2, LeaveStep
<1>5. CASE table' # table
  <2>1. /\ parentId[t] # -1 /\ table[parentId[t]] = NULL /\ crashed' = crashed
        /\ table' = RemoveThread(threadId[t])
    BY <1>5 DEF ExitCheck, IsThread
  <2>2. TableType(table') /\ Apart(t) /\ ~ Owns(t)'
    BY <1>1, <1>3, <2>1, RemoveFacts
  <2>3. ASSUME NEW u \in Threads, InProgram(u), t \in Unjoined(u) PROVE FALSE
    <3>1. threadId[u] = parentId[t]
      BY <2>3, UnjoinedIs DEF Linked
    <3>2. Owns(u)
      BY <2>1, <2>3, <3>1 DEF SlotInv
    <3> QED
      BY <2>1, <3>1, <3>2 DEF Owns
  <2>4. NoCrash' /\ crashed' \in BOOLEAN
    BY <1>1, <2>1 DEF NoCrash, ExecTypeOK
  <2> QED
    BY <1>1, <1>2, <2>2, <2>3, <2>4, LeaveStep
<1> QED
  BY <1>4, <1>5

-----------------------------------------------------------------------------
(* The invariant and what follows from it.                                 *)

LEMMA ExecInitInv == ExecInit => ExecInv
<1> SUFFICES ASSUME ExecInit PROVE ExecInv
  OBVIOUS
<1> DEFINE entry == [thread |-> MainThread, exitStatus |-> 0]
<1>1. entry \in Entries /\ entry.thread = MainThread /\ entry # NULL
  BY Constants
<1>2. /\ table = [i \in Ids |-> IF i = 0 THEN entry ELSE NULL]
      /\ threadId = [t \in Threads |-> 0] /\ parentId = [t \in Threads |-> -1]
      /\ kind = [t \in Threads |-> "MAIN"] /\ children = [t \in Threads |-> {}]
      /\ pc = [t \in Threads |-> At(IF t = MainThread THEN "user" ELSE "absent", NULL)]
      /\ answer = [t \in Threads |-> NULL] /\ crashed = FALSE
      /\ on = [t \in Threads |-> NULL] /\ Init
  BY DEF ExecInit, Init
<1>3. \A t \in Threads : value[t] = 0
  BY <1>2, Constants DEF Init
<1> HIDE DEF entry
<1>4. \A t \in Threads : pc[t].at = IF t = MainThread THEN "user" ELSE "absent"
  BY <1>2 DEF At
<1>5. \A t \in Threads : Unjoined(t) = {}
  BY <1>2, <1>4 DEF Unjoined
<1>6. ExecTypeOK
  <2>1. TypeOK
    BY <1>2, EmptySeq, KernelAssumption DEF Init, TypeOK, Sems
  <2>2. \A t \in Threads :
          At(IF t = MainThread THEN "user" ELSE "absent", NULL) \in Points
    BY DEF At, Points
  <2> QED
    BY <1>1, <1>2, <2>1, <2>2, Constants DEF ExecTypeOK
<1>7. SlotInv
  BY <1>1, <1>2, <1>4, Constants DEF SlotInv, InProgram, Owns
<1>8. KindInv /\ AtomicInv /\ ExecingInv /\ JoiningInv /\ FamilyInv
  BY <1>2, <1>4, <1>5, Constants
     DEF KindInv, AtomicInv, Atomic, ExecingInv, JoiningInv, Joining, FamilyInv
<1>9. SemInv /\ JoinExact /\ NoCrash
  BY <1>2, <1>3, <1>4 DEF SemInv, JoinExact, NoCrash
<1> QED
  BY <1>6, <1>7, <1>8, <1>9 DEF ExecInv

LEMMA ExecInvStep ==
  ExecInv /\ QueueInv /\ [ExecNext]_execVars => ExecInv'
<1> SUFFICES ASSUME ExecInv, QueueInv, [ExecNext]_execVars PROVE ExecInv'
  OBVIOUS
<1>1. TypeOK'
  <2>1. TypeOK
    BY DEF ExecInv, ExecTypeOK
  <2> QED
    BY <2>1, KernelUnder, TypeStep
<1>2. CASE System
  BY <1>1, <1>2, SystemStep
<1>3. ASSUME NEW t \in Threads, YieldNow(t) PROVE Running(t) /\ UNCHANGED <<value, on>>
  <2>1. CASE UNCHANGED vars
    BY <1>3, <2>1 DEF YieldNow, Local, Calling, Yield, vars, synchVars
  <2> QED
    BY <1>3, <2>1 DEF YieldNow, Local, Calling, Yield, synchVars
<1>4. ASSUME NEW t \in Threads, UserCall(t) PROVE ExecInv'
  <2>1. \A new \in Fresh : new \in Threads
    BY DEF Fresh
  <2>2. ASSUME UserYield(t) PROVE ExecInv'
    <3>1. Onward(t, "user", "user")
      BY <2>2 DEF UserYield, Go, User, Onward
    <3> QED
      BY <1>1, <1>3, <2>2, <3>1, OnwardStep DEF UserYield
  <2> QED
    BY <1>1, <1>4, <2>1, <2>2, ExecStep, ForkCallStep, JoinStep, ExitStep DEF UserCall
<1>5. ASSUME NEW t \in Threads, ExecYield(t) PROVE ExecInv'
  <2>1. Onward(t, "yield", "user")
    BY <1>5 DEF ExecYield, Go, User, Onward
  <2> QED
    BY <1>1, <1>3, <1>5, <2>1, OnwardStep DEF ExecYield
<1>6. ASSUME NEW t \in Threads, ExitYield(t) PROVE ExecInv'
  <2>1. Onward(t, "leave", "end")
    BY <1>6 DEF ExitYield, Go, Onward
  <2> QED
    BY <1>1, <1>3, <1>6, <2>1, OnwardStep DEF ExitYield
<1>7. ASSUME NEW t \in Threads, ExitFinish(t) PROVE ExecInv'
  <2>1. Onward(t, "end", "gone") /\ Running(t) /\ UNCHANGED <<value, on>>
    BY <1>7 DEF ExitFinish, Go, Onward, Finish, synchVars
  <2> QED
    BY <1>1, <1>7, <2>1, OnwardStep DEF ExitFinish
<1>8. ASSUME NEW t \in Threads, Execute(t) PROVE ExecInv'
  <2>1. Running(t) /\ UNCHANGED <<value, on>> /\ pc[t].at = "load"
    BY <1>8 DEF Execute, Local, Calling, vars, synchVars
  <2>2. table[threadId[t]] # NULL
    BY <2>1, SignalEntry DEF ExecInv, Owns
  <2>3. Onward(t, "load", "user") \/ Onward(t, "load", "end")
    BY <1>8, <2>2 DEF Execute, Go, User, Onward
  <2> QED
    BY <1>1, <1>8, <2>1, <2>2, <2>3, OnwardStep DEF Execute
<1>9. ASSUME NEW t \in Threads, KernelStep(t) PROVE ExecInv'
  BY <1>1, <1>5, <1>6, <1>7, <1>8, <1>9, ExecForkStep, JoinPKept, JoinReturnStep,
     ExitSignalKept, ExitCheckStep DEF KernelStep
<1>10. CASE UNCHANGED execVars
  <2>1. /\ UNCHANGED <<table, threadId, parentId, kind, children, pc, answer, crashed>>
        /\ UNCHANGED <<currentThread, status, on, mode, value>>
    BY <1>10 DEF execVars, userVars, vars, threadVars, synchVars, machVars
  <2>2. ExecTypeOK' /\ JoinExact' /\ NoCrash'
    BY <1>1, <2>1 DEF ExecInv, ExecTypeOK, JoinExact, NoCrash
  <2>3. SlotInv' /\ KindInv' /\ ExecingInv' /\ JoiningInv'
    BY <2>1 DEF ExecInv, SlotInv, KindInv, ExecingInv, JoiningInv, InProgram, Owns,
                Unjoined, Joining
  <2>4. FamilyInv'
    BY <2>1 DEF ExecInv, FamilyInv, Linked, InProgram, Owns, Unjoined
  <2>5. AtomicInv' /\ SemInv'
    BY <2>1 DEF ExecInv, AtomicInv, Atomic, Running, SemInv, Told, ReachedExit, Owns
  <2> QED
    BY <2>2, <2>3, <2>4, <2>5 DEF ExecInv
<1> QED
  BY <1>2, <1>4, <1>9, <1>10 DEF ExecNext

LEMMA ExecThreadStep ==
  ExecInv /\ ThreadInv /\ [ExecNext]_execVars => ThreadInv'
BY KernelUnder, ThreadInvStep DEF ExecInv, ExecTypeOK

LEMMA ExecInvHolds == ExecSpec => [](ExecInv /\ ThreadInv)
<1>1. ExecInit => ExecInv /\ ThreadInv
  BY ExecInitInv, ThreadInvInit DEF ExecInit
<1>2. ExecInv /\ ThreadInv /\ [ExecNext]_execVars => (ExecInv /\ ThreadInv)'
  <2>1. ThreadInv => QueueInv
    BY DEF ThreadInv, OnePlace
  <2> QED
    BY <2>1, ExecInvStep, ExecThreadStep
<1> QED
  BY <1>1, <1>2, PTL DEF ExecSpec

(* Every variable keeps its type: no call uses an index outside the table, *)
(* and an Exec'd thread always has an id (sysDataStructures.cc:152-207).   *)
THEOREM ExecTypeCorrect == ExecSpec => []ExecTypeOK
<1>1. ExecInv => ExecTypeOK
  BY DEF ExecInv
<1> QED
  BY <1>1, ExecInvHolds, PTL

(* An Exec'd thread finds itself in its slot until it leaves, and a parent *)
(* the child it has yet to join: no other Join, Exit or Exec takes the     *)
(* entry away or gives it to somebody else.                                *)
THEOREM OwnEntryHolds == ExecSpec => []OwnEntry
<1>1. ExecInv => OwnEntry
  <2> SUFFICES ASSUME ExecInv, NEW t \in Threads, InProgram(t)
               PROVE  /\ kind[t] = "USR_EXEC" => Owns(t)
                      /\ \A child \in Unjoined(t) : Owns(child)
    BY DEF OwnEntry
  <2>1. kind[t] = "USR_EXEC" => threadId[t] # -1
    BY Types, Constants DEF ExecInv
  <2> QED
    BY <2>1 DEF ExecInv, SlotInv, FamilyInv, Linked
<1> QED
  BY <1>1, ExecInvHolds, PTL

(* A Join returns -1 or the status its own child exited with.              *)
THEOREM JoinExactHolds == ExecSpec => []JoinExact
<1>1. ExecInv => JoinExact
  BY DEF ExecInv
<1> QED
  BY <1>1, ExecInvHolds, PTL

(* No null entry is dereferenced and no ASSERT of the bit map fails, as    *)
(* long as every Fork got a slot of the table.                             *)
THEOREM NoCrashHolds == ExecSpec => []NoCrash
<1>1. ExecInv => NoCrash
  BY DEF ExecInv
<1> QED
  BY <1>1, ExecInvHolds, PTL

(* The system calls run on the kernel as it is specified: every step is    *)
(* one of its steps, so what holds of every program holds under them.      *)
THEOREM ExecRunsKernel == ExecSpec => Spec
<1>1. ExecInit => Init
  BY DEF ExecInit
<1> QED
  BY <1>1, KernelUnder, ExecInvHolds, PTL DEF ExecSpec, Spec
=============================================================================
