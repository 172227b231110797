------------------------------ MODULE MCMachine ------------------------------
(* A small machine to check Machine with.                                  *)
EXTENDS Machine

MCInitial == [d \in Devices |-> 0]

=============================================================================
