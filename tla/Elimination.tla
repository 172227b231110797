---------------------------- MODULE Elimination ----------------------------
(***************************************************************************)
(* What the hot potato game promises (ProgrammingProject1/readme.md): the  *)
(* players go out one by one, the last to go out wins, then everybody      *)
(* leaves, and the winner is announced after the last one has left.        *)
(***************************************************************************)
EXTENDS Naturals, Sequences, FiniteSets, Functions

CONSTANTS Players, Nobody

VARIABLES
  out,        (* the players that are out, in order                        *)
  left,       (* those that have ended                                     *)
  announced   (* the winner as the main program prints it                  *)

vars == <<out, left, announced>>

AllOut == Len(out) = Cardinality(Players)

Init == out = <<>> /\ left = {} /\ announced = Nobody

GoOut(p) ==
  /\ p \notin Range(out)
  /\ out' = Append(out, p)
  /\ UNCHANGED <<left, announced>>

Leave(p) ==
  /\ AllOut /\ p \notin left
  /\ left' = left \union {p}
  /\ UNCHANGED <<out, announced>>

Announce ==
  /\ AllOut /\ left = Players /\ announced = Nobody
  /\ announced' = out[Len(out)]
  /\ UNCHANGED <<out, left>>

Next == Announce \/ \E p \in Players : GoOut(p) \/ Leave(p)

Spec == Init /\ [][Next]_vars

=============================================================================
