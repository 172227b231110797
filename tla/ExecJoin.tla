------------------------------ MODULE ExecJoin ------------------------------
(***************************************************************************)
(* The system calls Exec, Fork, Join and Exit of userprog/exception.cc and *)
(* the table of threads of threads/sysDataStructures.cc, over the thread   *)
(* kernel.  A table operation runs under the table's lock, so it is one    *)
(* step.  semToJoinIn of a thread's entry is the semaphore of that name:   *)
(* every entry gets a new one and no thread is entered twice.              *)
(*                                                                         *)
(* User programs join each child they Exec'd at most once, and do it       *)
(* themselves.  ExecSpec is the kernel as it runs by default, where only   *)
(* yields and sleeps switch threads, without -rs and -p.                   *)
(***************************************************************************)
EXTENDS NachosSync

CONSTANTS
  MaxThreads,  (* slots of the table, MAX_THREADS = 20 in the code         *)
  MissingFiles (* an Exec'd file may be missing                            *)

Ids == 0..(MaxThreads - 1)

(* The exit status of a thread is the thread itself; 0 is the initial one. *)
Entries == [thread : Threads, exitStatus : Threads \union {0}]

ASSUME TableAssumption ==
  /\ MaxThreads \in Nat \ {0} /\ MissingFiles \in BOOLEAN
  /\ NULL \notin Entries
  /\ Semaphores = Threads /\ Locks = {} /\ Conditions = {} /\ Devices = {}
  /\ InitialValue = [t \in Threads |-> 0]

VARIABLES
  table,    (* id -> entry, NULL when its bit is clear                     *)
  threadId, parentId, kind,   (* fields of Thread                          *)
  children, (* whose ids Exec returned to a thread that has yet to join    *)
  pc,       (* what a thread does next, with its argument                  *)
  answer,   (* of the thread's last Join: whom it joined and the result    *)
  crashed   (* the kernel dereferenced a null pointer or failed an ASSERT  *)

userVars == <<table, threadId, parentId, kind, children, pc, answer, crashed>>
execVars == <<vars, userVars>>

Points == [at : {"absent", "load", "user", "exec", "yield", "join", "joined",
                 "signal", "check", "leave", "end", "gone"},
           arg : Threads \union {NULL}]
At(p, arg) == [at |-> p, arg |-> arg]

(* Every variable keeps its type, and every Exec'd thread has an id.       *)
ExecTypeOK ==
  /\ TypeOK
  /\ table \in [Ids -> Entries \union {NULL}]
  /\ threadId \in [Threads -> Ids \union {-1}]
  /\ parentId \in [Threads -> Ids \union {-1}]
  /\ kind \in [Threads -> {"MAIN", "USR_EXEC", "USR_FORK"}]
  /\ \A t \in Threads : kind[t] = "USR_EXEC" => threadId[t] \in Ids
  /\ children \in [Threads -> SUBSET Threads]
  /\ pc \in [Threads -> Points]
  /\ answer \in [Threads -> {NULL} \union
                   [child : Threads, value : Threads \union {0, -1}]]
  /\ crashed \in BOOLEAN

(* StartProcess has entered the main thread.                               *)
ExecInit ==
  /\ Init
  /\ table = [i \in Ids |->
       IF i = 0 THEN [thread |-> MainThread, exitStatus |-> 0] ELSE NULL]
  /\ threadId = [t \in Threads |-> 0]
  /\ parentId = [t \in Threads |-> -1]
  /\ kind = [t \in Threads |-> "MAIN"]
  /\ children = [t \in Threads |-> {}]
  /\ pc = [t \in Threads |->
       At(IF t = MainThread THEN "user" ELSE "absent", NULL)]
  /\ answer = [t \in Threads |-> NULL]
  /\ crashed = FALSE

-----------------------------------------------------------------------------
(* ThreadTable.                                                            *)

FreeIds == {i \in Ids : table[i] = NULL}

(* BitMap::Find gives the first free slot, or -1.                          *)
FirstFree ==
  IF FreeIds = {} THEN -1 ELSE CHOOSE i \in FreeIds : \A j \in FreeIds : i <= j

AddThread(t, id) ==
  IF id = -1 THEN table
  ELSE [table EXCEPT ![id] = [thread |-> t, exitStatus |-> 0]]

RemoveThread(id) == [i \in Ids |-> IF i = id THEN NULL ELSE table[i]]

IsThread(id) == table[id] # NULL

Deleted(t) == life[t] = "deleted"

(* IsJoinable asks the Thread for its kind; an entry outlives its Thread,  *)
(* and then what is read is anything.                                      *)
IsJoinable(id) ==
  IF table[id] = NULL THEN {FALSE}
  ELSE IF Deleted(table[id].thread) THEN BOOLEAN
  ELSE {kind[table[id].thread] = "USR_EXEC"}

-----------------------------------------------------------------------------
(* Steps of the system calls.  Each is taken by the running thread t.      *)

Go(t, from, to) == pc[t].at = from /\ pc' = [pc EXCEPT ![t] = to]

Calling(t) == Running(t) /\ ~ crashed

(* A step that calls nothing of the kernel.                                *)
Local(t) == Calling(t) /\ UNCHANGED vars

(* Give the processor away, if anybody wants it.                           *)
YieldNow(t) == IF readyList = <<>> THEN Local(t) ELSE Calling(t) /\ Yield(t)

User == At("user", NULL)

(* NachOS_Exec up to the fork of the new thread.                           *)
Exec(t, new) ==
  /\ life[new] = "new" /\ pc[new].at = "absent"
  /\ Local(t)
  /\ pc[t].at = "user"
  /\ table' = AddThread(new, FirstFree)
  /\ IF FirstFree = -1
     THEN UNCHANGED <<threadId, parentId, kind, pc>>
     ELSE /\ threadId' = [threadId EXCEPT ![new] = FirstFree]
          /\ parentId' = [parentId EXCEPT ![new] = threadId[t]]
          /\ kind' = [kind EXCEPT ![new] = "USR_EXEC"]
          /\ pc' = [pc EXCEPT ![t] = At("exec", new), ![new] = At("load", NULL)]
  /\ UNCHANGED <<children, answer, crashed>>

(* Its end: Thread::Fork, the result, a Yield.                             *)
ExecFork(t) ==
  /\ Calling(t)
  /\ Go(t, "exec", At("yield", NULL))
  /\ Fork(t, pc[t].arg)
  /\ children' = [children EXCEPT ![t] = @ \union {pc[t].arg}]
  /\ UNCHANGED <<table, threadId, parentId, kind, answer, crashed>>

ExecYield(t) ==
  /\ Go(t, "yield", User) /\ YieldNow(t)
  /\ UNCHANGED <<table, threadId, parentId, kind, children, answer, crashed>>

(* NachOS_Fork ignores that the table may be full: the id is then -1.      *)
ForkCall(t, new) ==
  /\ Calling(t) /\ pc[t].at = "user" /\ pc[new].at = "absent"
  /\ Fork(t, new)
  /\ table' = AddThread(new, FirstFree)
  /\ threadId' = [threadId EXCEPT ![new] = FirstFree]
  /\ parentId' = [parentId EXCEPT ![new] = threadId[t]]
  /\ kind' = [kind EXCEPT ![new] = "USR_FORK"]
  /\ pc' = [pc EXCEPT ![new] = User]
  /\ UNCHANGED <<children, answer, crashed>>

(* ExecuteThread: with no such file the function, and so the thread, ends. *)
Execute(t) ==
  /\ Local(t) /\ pc[t].at = "load"
  /\ IF table[threadId[t]] = NULL
     THEN crashed' = TRUE /\ UNCHANGED pc
     ELSE /\ \/ Go(t, "load", User)
             \/ MissingFiles /\ Go(t, "load", At("end", NULL))
          /\ UNCHANGED crashed
  /\ UNCHANGED <<table, threadId, parentId, kind, children, answer>>

-----------------------------------------------------------------------------
(* NachOS_Join.                                                            *)

(* IsJoinable; -1 when it says no.                                         *)
Join(t, child) ==
  /\ Local(t) /\ child \in children[t]
  /\ children' = [children EXCEPT ![t] = @ \ {child}]
  /\ \/ /\ TRUE \in IsJoinable(threadId[child])
        /\ Go(t, "user", At("join", child))
        /\ UNCHANGED answer
     \/ /\ FALSE \in IsJoinable(threadId[child])
        /\ Go(t, "user", User)
        /\ answer' = [answer EXCEPT ![t] = [child |-> child, value |-> -1]]
  /\ UNCHANGED <<table, threadId, parentId, kind, crashed>>

(* getSemToJoinIn(tid)->P().                                               *)
JoinP(t) ==
  /\ Calling(t)
  /\ Go(t, "join", At("joined", pc[t].arg))
  /\ LET entry == table[threadId[pc[t].arg]] IN
       IF entry = NULL THEN crashed' = TRUE /\ UNCHANGED vars
                       ELSE P(t, entry.thread) /\ UNCHANGED crashed
  /\ UNCHANGED <<table, threadId, parentId, kind, children, answer>>

(* The status is read, then the entry removed and its semaphore with it.   *)
JoinReturn(t) ==
  /\ Local(t)
  /\ Go(t, "joined", User)
  /\ LET child == pc[t].arg
         entry == table[threadId[child]]
     IN  IF entry = NULL
         THEN crashed' = TRUE /\ UNCHANGED <<table, answer>>
         ELSE /\ answer' = [answer EXCEPT ![t] =
                             [child |-> child, value |-> entry.exitStatus]]
              /\ table' = RemoveThread(threadId[child])
              /\ UNCHANGED crashed
  /\ UNCHANGED <<threadId, parentId, kind, children>>

-----------------------------------------------------------------------------
(* NachOS_Exit.                                                            *)

(* Mutant: the exit status is not saved.                                    *)
ExitForgets(t) ==
  /\ Local(t)
  /\ Go(t, "user", At(IF kind[t] = "USR_EXEC" THEN "signal" ELSE "leave", NULL))
  /\ table' = IF kind[t] = "USR_EXEC" THEN table ELSE RemoveThread(threadId[t])
  /\ UNCHANGED <<threadId, parentId, kind, children, answer, crashed>>

(* An Exec'd thread leaves its status for the parent; others only go.      *)
Exit(t) ==
  /\ Local(t)
  /\ IF kind[t] = "USR_EXEC"
     THEN /\ table' = [i \in Ids |->
               IF i = threadId[t] /\ table[i] # NULL
               THEN [table[i] EXCEPT !.exitStatus = t] ELSE table[i]]
          /\ Go(t, "user", At("signal", NULL))
     ELSE /\ table' = RemoveThread(threadId[t])
          /\ Go(t, "user", At("leave", NULL))
  /\ UNCHANGED <<threadId, parentId, kind, children, answer, crashed>>

(* Mutant: the parent is not signalled.                                     *)
ExitSilently(t) ==
  /\ Local(t)
  /\ Go(t, "signal", At("check", NULL))
  /\ UNCHANGED <<table, threadId, parentId, kind, children, answer, crashed>>

(* getSemToJoinIn(threadId)->V().                                          *)
ExitSignal(t) ==
  /\ Calling(t)
  /\ Go(t, "signal", At("check", NULL))
  /\ IF table[threadId[t]] = NULL
     THEN crashed' = TRUE /\ UNCHANGED vars
     ELSE V(t, table[threadId[t]].thread) /\ UNCHANGED crashed
  /\ UNCHANGED <<table, threadId, parentId, kind, children, answer>>

(* Mutant: the entry is removed whether the parent is there or not.         *)
ExitRemoves(t) ==
  /\ Local(t)
  /\ Go(t, "check", At("leave", NULL))
  /\ table' = RemoveThread(threadId[t])
  /\ UNCHANGED <<threadId, parentId, kind, children, answer, crashed>>

(* With no parent left the thread removes its own entry; BitMap::Test does *)
(* not take the parent id -1 of a Fork'd parent that got no slot.          *)
ExitCheck(t) ==
  /\ Local(t)
  /\ Go(t, "check", At("leave", NULL))
  /\ IF parentId[t] = -1
     THEN crashed' = TRUE /\ UNCHANGED table
     ELSE /\ table' = IF IsThread(parentId[t]) THEN table
                      ELSE RemoveThread(threadId[t])
          /\ UNCHANGED crashed
  /\ UNCHANGED <<threadId, parentId, kind, children, answer>>

ExitYield(t) ==
  /\ Go(t, "leave", At("end", NULL)) /\ YieldNow(t)
  /\ UNCHANGED <<table, threadId, parentId, kind, children, answer, crashed>>

ExitFinish(t) ==
  /\ Calling(t) /\ Go(t, "end", At("gone", NULL)) /\ Finish(t)
  /\ UNCHANGED <<table, threadId, parentId, kind, children, answer, crashed>>

-----------------------------------------------------------------------------
(* The system.                                                             *)

UserYield(t) ==
  /\ Go(t, "user", User) /\ YieldNow(t)
  /\ UNCHANGED <<table, threadId, parentId, kind, children, answer, crashed>>

(* The Thread object that is made next; they are all alike.                *)
Fresh ==
  LET absent == {t \in Threads : pc[t].at = "absent"}
  IN  IF absent = {} THEN {} ELSE {CHOOSE t \in absent : TRUE}

(* What a user program asks for, and what then runs in the kernel.         *)
UserCall(t) ==
  \/ \E new \in Fresh : Exec(t, new) \/ ForkCall(t, new)
  \/ \E child \in Threads : Join(t, child)
  \/ Exit(t)
  \/ UserYield(t)

KernelStep(t) ==
  \/ ExecFork(t) \/ ExecYield(t) \/ Execute(t)
  \/ JoinP(t) \/ JoinReturn(t)
  \/ ExitSignal(t) \/ ExitCheck(t) \/ ExitYield(t) \/ ExitFinish(t)

System ==
  /\ Dispatch \/ Idle \/ \E t \in Threads : Resume(t)
  /\ UNCHANGED userVars

ExecNext ==
  \/ System
  \/ \E t \in Threads : UserCall(t) \/ KernelStep(t)

ExecSpec == ExecInit /\ [][ExecNext]_execVars

(* The machine goes on: a user program that runs calls the kernel in the   *)
(* end, and the kernel finishes what it is called for.                     *)
ExecFairSpec == ExecSpec /\ WF_execVars(ExecNext)

-----------------------------------------------------------------------------
(* Properties.                                                             *)

InProgram(t) == pc[t].at \notin {"absent", "leave", "end", "gone"}

(* The children a thread waits for or may still join.                      *)
Unjoined(t) ==
  children[t] \union
  IF pc[t].at \in {"join", "joined"} THEN {pc[t].arg} ELSE {}

Owns(t) == table[threadId[t]] # NULL /\ table[threadId[t]].thread = t

(* Until it leaves, an Exec'd thread finds itself in its slot of the       *)
(* table, and a parent finds there the child it has yet to join: nobody    *)
(* else's Join, Exit or Exec has removed or reused the entry.              *)
OwnEntry ==
  \A t \in Threads : InProgram(t) =>
    /\ kind[t] = "USR_EXEC" => Owns(t)
    /\ \A child \in Unjoined(t) : Owns(child)

(* A Join returns -1 or the status its own child exited with: not before   *)
(* the child's Exit, and not the status of another thread.                 *)
JoinExact ==
  \A t \in Threads :
    answer[t] # NULL => answer[t].value \in {-1, answer[t].child}

(* No null entry is used and no ASSERT fails, unless a Fork got no slot.   *)
NoCrash ==
  crashed => \E t \in Threads : kind[t] = "USR_FORK" /\ threadId[t] = -1

(* A parent in Join, asleep or on its way to sleep, returns once its child *)
(* has been through Exit, whatever the other threads exec and join.        *)
JoinReturnsAfterExit ==
  \A t \in Threads :
    pc[t].at = "joined" /\ pc[pc[t].arg].at = "leave" ~> pc[t].at # "joined"

=============================================================================
