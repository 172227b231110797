---------------------------- MODULE MCNachosSync ----------------------------
(* A small instance of NachosSync: a main thread and two others, a         *)
(* semaphore that a device signals, a lock and one or two conditions.      *)
EXTENDS NachosSync

MCInitial == [s \in Semaphores |-> 0]

=============================================================================
