------------------------------ MODULE SynchList ------------------------------
(***************************************************************************)
(* The SynchList of threads/synchlist.h over the thread kernel: a list, a  *)
(* lock and the condition that the list has become non-empty, shared by    *)
(* threads that append and threads that remove, as a mailbox of            *)
(* network/post.cc is.  A step is one kernel operation with the list       *)
(* operation before it; between steps the thread can be preempted.         *)
(***************************************************************************)
EXTENDS NachosSync

CONSTANTS
  Producers, Consumers,  (* the threads that append, and that remove       *)
  MaxItems,              (* bound: items a producer appends                *)
  lock, listEmpty

ListAssumption ==
  /\ Threads = Producers \union Consumers
  /\ Producers \intersect Consumers = {} /\ MainThread \in Producers
  /\ MaxItems \in Nat \ {0}
  /\ Locks = {lock} /\ listEmpty \in Conditions
  /\ Semaphores = {} /\ Devices = {}

VARIABLES
  list,
  pc,
  appended,  (* items a producer has appended                              *)
  removed    (* what a consumer's Removes have returned, in order          *)

listVars == <<list, pc, appended, removed>>
synchListVars == <<vars, listVars>>

Items == Producers \X (1..MaxItems)

ListTypeOK ==
  /\ TypeOK
  /\ list \in Seq(Items)
  /\ pc \in [Threads -> {"out", "append", "loop", "unlock", "gone"}]
  /\ appended \in [Producers -> 0..MaxItems]
  /\ removed \in [Consumers -> Seq(Items)]

ListInit ==
  /\ Init
  /\ list = <<>>
  /\ pc = [t \in Threads |-> "out"]
  /\ appended = [t \in Producers |-> 0]
  /\ removed = [t \in Consumers |-> <<>>]

Go(t, from, to) == pc[t] = from /\ pc' = [pc EXCEPT ![t] = to]

(* Mutant: the producer signals only when the list was empty.              *)
AppendToEmpty(t) ==
  \/ /\ appended[t] < MaxItems /\ Go(t, "out", "append")
     /\ P(t, lock) /\ UNCHANGED <<list, appended, removed>>
  \/ /\ Go(t, "append", "unlock")
     /\ appended' = [appended EXCEPT ![t] = @ + 1]
     /\ list' = Append(list, <<t, appended'[t]>>)
     /\ IF list = <<>> THEN Signal(t, listEmpty, lock)
                       ELSE Running(t) /\ UNCHANGED vars
     /\ UNCHANGED removed
  \/ /\ Go(t, "unlock", "out")
     /\ Release(t, lock) /\ UNCHANGED <<list, appended, removed>>

(* SynchList::Append.                                                      *)
ListAppend(t) ==
  \/ /\ appended[t] < MaxItems /\ Go(t, "out", "append")
     /\ P(t, lock) /\ UNCHANGED <<list, appended, removed>>
  \/ /\ Go(t, "append", "unlock")
     /\ appended' = [appended EXCEPT ![t] = @ + 1]
     /\ list' = Append(list, <<t, appended'[t]>>)
     /\ Signal(t, listEmpty, lock)
     /\ UNCHANGED removed
  \/ /\ Go(t, "unlock", "out")
     /\ Release(t, lock) /\ UNCHANGED <<list, appended, removed>>

(* List::Remove: the first item, or no item at all.                        *)
First == IF list = <<>> THEN NULL ELSE Head(list)
Rest == IF list = <<>> THEN <<>> ELSE Tail(list)

(* Mutant: the lock is released between reading the item and removing it.  *)
RemoveLate(t) ==
  \/ /\ Go(t, "out", "loop")
     /\ P(t, lock) /\ UNCHANGED <<list, appended, removed>>
  \/ /\ list = <<>> /\ Go(t, "loop", "loop")
     /\ Wait(t, listEmpty, lock) /\ UNCHANGED <<list, appended, removed>>
  \/ /\ list # <<>> /\ Go(t, "loop", "unlock")
     /\ removed' = [removed EXCEPT ![t] = Append(@, First)]
     /\ Release(t, lock) /\ UNCHANGED <<list, appended>>
  \/ /\ Go(t, "unlock", "out") /\ list' = Rest
     /\ Running(t) /\ UNCHANGED <<vars, appended, removed>>

(* SynchList::Remove; a consumer calls it again and again.                 *)
ListRemove(t) ==
  \/ /\ Go(t, "out", "loop")
     /\ P(t, lock) /\ UNCHANGED <<list, appended, removed>>
  \/ /\ list = <<>> /\ Go(t, "loop", "loop")
     /\ Wait(t, listEmpty, lock) /\ UNCHANGED <<list, appended, removed>>
  \/ /\ list # <<>> /\ Go(t, "loop", "out")
     /\ removed' = [removed EXCEPT ![t] = Append(@, First)]
     /\ list' = Rest
     /\ Release(t, lock) /\ UNCHANGED appended

(* Main forks the others and then appends like any producer.               *)
ForkOthers ==
  /\ \E new \in Threads : Fork(MainThread, new)
  /\ UNCHANGED listVars

Produce(t) ==
  \/ /\ t = MainThread => \A new \in Threads : life[new] # "new"
     /\ ListAppend(t)
  \/ /\ appended[t] = MaxItems /\ Go(t, "out", "gone")
     /\ Finish(t) /\ UNCHANGED <<list, appended, removed>>

System ==
  /\ Dispatch \/ Idle \/ \E t \in Threads : Resume(t)
  /\ UNCHANGED listVars

(* The time slicer: the running thread yields anywhere.                    *)
Preempt == (\E t \in Threads : Yield(t)) /\ UNCHANGED listVars

Progress ==
  \/ System \/ ForkOthers
  \/ \E t \in Producers : Produce(t)
  \/ \E t \in Consumers : ListRemove(t)

ListSpec == ListInit /\ [][Progress \/ Preempt]_synchListVars

-----------------------------------------------------------------------------
(* Properties.                                                             *)

(* Consumers awake in Remove that have yet to get the lock.                *)
Coming == {t \in Consumers : on[t] = lock /\ pc[t] = "loop"
                               /\ ~ Listed(t, waitQueue[listEmpty])}

(* Every item gets its own signal.  A newcomer can take the item that a    *)
(* sleeper was signalled for; even so, while any consumer sleeps there are *)
(* enough on their way for all the items in the list.                      *)
NoStrandedItem ==
  holder[lock] = NULL /\ waitQueue[listEmpty] # <<>> =>
    Len(list) <= Cardinality(Coming)

(* The channel of each producer: what its consumers were given together    *)
(* with what is in the list is what it appended, each item once, and one   *)
(* consumer sees the items of one producer in their order.                 *)
Places(item) ==
  Cardinality({i \in DOMAIN list : list[i] = item}) +
  Cardinality({p \in Consumers \X (1..Cardinality(Items)) :
                 /\ p[2] \in DOMAIN removed[p[1]]
                 /\ removed[p[1]][p[2]] = item})

ExactlyOnceInOrder ==
  /\ \A item \in Items :
       Places(item) = IF item[2] <= appended[item[1]] THEN 1 ELSE 0
  /\ \A t \in Consumers : \A i, j \in DOMAIN removed[t] :
       i < j /\ removed[t][i][1] = removed[t][j][1] =>
         removed[t][i][2] < removed[t][j][2]

(* Everything there was to append has been appended and removed.           *)
NothingLeft == list = <<>> /\ \A t \in Producers : appended[t] = MaxItems

=============================================================================
