------------------------------ MODULE MCPrograms ------------------------------
(* Four threads, three of which can be philosophers.  The constructor of   *)
(* Barrier leaves the count as it finds it in the heap.                    *)
EXTENDS Programs

HeapHeld == {-1, 0, 1, 2}
NoValue == <<>>

=============================================================================
