--------------------------- MODULE PotatoThreads ---------------------------
(***************************************************************************)
(* The hot potato among pthreads (ShortHomework1_1/src).  The players run  *)
(* the same protocol over an array of sem_t in the heap; what is new is    *)
(* how main ends: it joins the threads one by one, destroys a semaphore    *)
(* after each join and then frees the memory that they all use.            *)
(***************************************************************************)
EXTENDS PotatoRing

VARIABLES
  cleaning,   (* where main is in clean_up, with its loop counter          *)
  destroyed,  (* players whose semaphore is destroyed                      *)
  freed       (* `finished` is destroyed and the memory freed              *)

cleanUpVars == <<cleaning, destroyed, freed>>
threadVars == <<vars, cleanUpVars>>

ThreadsTypeOK ==
  /\ PotatoTypeOK
  /\ cleaning \in [at : {"not yet", "join", "destroy", "free", "done"},
                   count : 0..(n - 1)]
  /\ destroyed \in SUBSET Players /\ freed \in BOOLEAN

ThreadsInit ==
  /\ Init
  /\ cleaning = [at |-> "not yet", count |-> 0]
  /\ destroyed = {} /\ freed = FALSE

(* When main returns, on an error too, the process ends with its threads.  *)
Alive == main.at # "failed" /\ cleaning.at # "done"

(* The thread function.                                                    *)
potato_game(i) == Alive /\ potatoGame(i) /\ UNCHANGED cleanUpVars

set_potato == Start /\ UNCHANGED cleanUpVars

launch_game == ForkPlayer /\ UNCHANGED cleanUpVars

(* Mutant: main waits for one thread less.                                 *)
wait_for_fewer == WaitFinishedOneLess /\ UNCHANGED cleanUpVars

wait_game_to_finish == WaitFinished /\ UNCHANGED cleanUpVars

report_winner ==
  /\ Announce
  /\ cleaning' = [at |-> "join", count |-> 0]
  /\ UNCHANGED <<destroyed, freed>>

(* clean_up: join thread number cleaning.count, destroy its semaphore.     *)
Join ==
  /\ cleaning.at = "join" /\ pc[cleaning.count] = "gone"
  /\ cleaning' = [cleaning EXCEPT !.at = "destroy"]
  /\ UNCHANGED <<vars, destroyed, freed>>

Destroy ==
  /\ cleaning.at = "destroy"
  /\ destroyed' = destroyed \union {cleaning.count}
  /\ cleaning' = IF cleaning.count + 1 < n
                 THEN [at |-> "join", count |-> cleaning.count + 1]
                 ELSE [cleaning EXCEPT !.at = "free"]
  /\ UNCHANGED <<vars, freed>>

Free ==
  /\ cleaning.at = "free"
  /\ freed' = TRUE
  /\ cleaning' = [cleaning EXCEPT !.at = "done"]
  /\ UNCHANGED <<vars, destroyed>>

clean_up == Join \/ Destroy \/ Free

mainThread ==
  set_potato \/ launch_game \/ wait_game_to_finish \/ report_winner \/ clean_up

ThreadsNext == mainThread \/ \E i \in Players : potato_game(i)

ThreadsSpec == ThreadsInit /\ [][ThreadsNext]_threadVars

-----------------------------------------------------------------------------

(* clean_up destroys a semaphore while the other threads are not joined;   *)
(* even so, none of them will ever wait on it or post it again, and nobody *)
(* is left to touch the memory that is freed.                              *)
NoUseAfterDestroy ==
  /\ \A i \in Players :
       /\ pc[i] = "wait" => i \notin destroyed
       /\ Holds(i) => {i, nextPlayer(i)} \intersect destroyed = {}
  /\ freed => \A i \in Players : pc[i] = "gone"

=============================================================================
