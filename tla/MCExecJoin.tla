------------------------------ MODULE MCExecJoin ------------------------------
(* A main thread and those that programs can make, in a small table.       *)
EXTENDS ExecJoin

MCInitial == [t \in Threads |-> 0]

=============================================================================
