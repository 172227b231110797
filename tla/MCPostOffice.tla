----------------------------- MODULE MCPostOffice -----------------------------
(* Two machines; one has a thread more than its main one.                  *)
EXTENDS PostOffice

CONSTANTS A, B, mainA, mainB, penA

MCMain == [m \in {A, B} |-> IF m = A THEN mainA ELSE mainB]
MCPen == [m \in {A, B} |-> IF m = A THEN {penA} ELSE {}]

=============================================================================
