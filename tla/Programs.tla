------------------------------ MODULE Programs ------------------------------
(***************************************************************************)
(* One machine, one of three programs on the thread kernel: the dining     *)
(* philosophers of threadtest.cc, threads at a barrier, or threads around  *)
(* a synchronised list.  Each program is a module over NachosSync; the     *)
(* kernel's variables and pc are shared, and `program` says which runs.    *)
(***************************************************************************)
EXTENDS NachosSync

CONSTANTS
  N, Meals,                       (* the table: see DiningPh               *)
  Rounds, InitialCounts,          (* the barrier: see Barrier              *)
  Producers, Consumers, MaxItems, (* the list: see SynchList               *)
  lock, cv                        (* the lock and a condition              *)

VARIABLES
  pc,
  program,                  (* what was started                            *)
  state, meals,             (* of the table                                *)
  count, firstCount, arrived, (* of the barrier                            *)
  list, appended, removed   (* of the list                                 *)

tableState   == <<state, meals>>
barrierState == <<count, firstCount, arrived>>
listState    == <<list, appended, removed>>
allVars == <<vars, pc, program, tableState, barrierState, listState>>

(* The barrier is made for all the threads.                                *)
threshold == Cardinality(Threads)

Table == INSTANCE DiningPh WITH dp <- lock
Gate == INSTANCE Barrier WITH lk <- lock
Mailbox == INSTANCE SynchList WITH listEmpty <- cv

ASSUME ProgramsAssumption ==
  Table!TableAssumption /\ Gate!BarrierAssumption /\ Mailbox!ListAssumption

-----------------------------------------------------------------------------

NoTable == state = <<>> /\ meals = <<>>
NoBarrier == count = 0 /\ firstCount = 0 /\ arrived = <<>>
NoList == list = <<>> /\ appended = <<>> /\ removed = <<>>

ProgramsInit ==
  \/ program = "dining" /\ Table!DiningInit /\ NoBarrier /\ NoList
  \/ program = "barrier" /\ Gate!BarrierInit /\ NoTable /\ NoList
  \/ program = "list" /\ Mailbox!ListInit /\ NoTable /\ NoBarrier

(* The program and the kernel under it go on.                              *)
Progress ==
  \/ /\ program = "dining" /\ Table!Progress
     /\ UNCHANGED <<program, barrierState, listState>>
  \/ /\ program = "barrier" /\ Gate!Progress
     /\ UNCHANGED <<program, tableState, listState>>
  \/ /\ program = "list" /\ Mailbox!Progress
     /\ UNCHANGED <<program, tableState, barrierState>>

(* The time slicer (-p, -rs): the running thread yields anywhere.          *)
Preempt ==
  \/ /\ program = "dining" /\ Table!Preempt
     /\ UNCHANGED <<program, barrierState, listState>>
  \/ /\ program = "barrier" /\ Gate!Preempt
     /\ UNCHANGED <<program, tableState, listState>>
  \/ /\ program = "list" /\ Mailbox!Preempt
     /\ UNCHANGED <<program, tableState, barrierState>>

ProgramsSpec == ProgramsInit /\ [][Progress \/ Preempt]_allVars

(* The processor does not spend all its time being preempted.              *)
ProgramsFairSpec == ProgramsSpec /\ WF_allVars(Progress)

-----------------------------------------------------------------------------
(* Properties.                                                             *)

(* The kernel's variables and the program's keep their types.  It says,    *)
(* too, that Remove never returns nothing: an item it gives out is one     *)
(* that was appended.                                                      *)
ProgramsTypeOK ==
  \/ program = "dining" /\ Table!DiningTypeOK
  \/ program = "barrier" /\ Gate!BarrierTypeOK
  \/ program = "list" /\ Mailbox!ListTypeOK

(* DiningPh: two neighbours never dine together, however the one that was  *)
(* signalled and the newcomers to the lock are interleaved.                *)
NeighboursApart == program = "dining" => Table!NeighboursApart

(* Barrier::Wait, with as many threads as the threshold: nobody is through *)
(* a Wait that more others have yet to call than the unwritten count had   *)
(* in it, the first time or the next; none where that was 0 or less.       *)
BarrierHolds == program = "barrier" => Gate!BarrierHolds

(* SynchList: a newcomer can take the item that a sleeper was signalled    *)
(* for; even so, while a consumer sleeps, there are enough on their way    *)
(* for all the items in the list.                                          *)
NoStrandedItem == program = "list" => Mailbox!NoStrandedItem

(* SynchList: every item appended is in the list or was removed once, and  *)
(* a consumer sees the items of one producer in their order.               *)
ExactlyOnceInOrder == program = "list" => Mailbox!ExactlyOnceInOrder

(* Nobody starves and nothing deadlocks: every philosopher has all the     *)
(* meals though neighbours may alternate, every thread gets through every  *)
(* round of a barrier whose count was 0 at first, and everything appended  *)
(* is removed.                                                             *)
EverythingDone ==
  <>( \/ program = "dining" /\ Table!AllDined
      \/ program = "barrier" /\ (firstCount = 0 => Gate!AllPassed)
      \/ program = "list" /\ Mailbox!NothingLeft )

=============================================================================
