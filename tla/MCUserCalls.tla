---------------------------- MODULE MCUserCalls ----------------------------
(* Two threads of one address space and one of another; four calls when    *)
(* all are of the three that make a handle stale, otherwise three.         *)
EXTENDS UserCalls

CONSTANTS a1, a2, b1, spaceA, spaceB
MCSpaceOf == [t \in {a1, a2, b1} |-> IF t = b1 THEN spaceB ELSE spaceA]
MCCost == [op \in Ops |-> IF op \in {"Open", "Write", "Close"} THEN 3 ELSE 4]
=============================================================================
