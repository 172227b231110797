----------------------------- MODULE PotatoRing -----------------------------
(***************************************************************************)
(* The hot potato among processes (ProgrammingProject1/src): the potato is *)
(* in shared memory, canAccessPotato[i] is the semaphore player i waits    *)
(* on, and a player that has finished signals the main process.  A step is *)
(* a semaphore operation, or what a player does between two of them.       *)
(***************************************************************************)
EXTENDS Integers, Sequences, FiniteSets, Functions

CONSTANTS
  argv,          (* the program's arguments                                *)
  RandomValues,  (* what randnum(1, 1000000) may give                      *)
  ForkFails      (* fork may fail                                          *)

(* analizeArgs: n players, the rotation r, the initial value v.            *)
n == argv[1]
r == argv[2]
v == argv[3]

Players == 0..(n - 1)
Nobody == -1

MaxRandom == 1000000

ASSUME PotatoAssumption ==
  /\ argv \in Seq(Int) /\ Len(argv) = 3 /\ n > 0 /\ v > 0
  /\ RandomValues # {} /\ RandomValues \subseteq 1..MaxRandom
  /\ ForkFails \in BOOLEAN

VARIABLES
  canAccessPotato, finished,   (* semaphores                               *)
  potato,                      (* the shared memory                        *)
  mem,                         (* each player's private memory             *)
  pc, main                     (* program counters; main's with its count  *)

playerVars == <<canAccessPotato, finished, potato, mem, pc>>
vars == <<playerVars, main>>

(* setPlayer: the neighbour on the side the potato goes.                   *)
nextPlayer(i) ==
  IF i + r < 0 THEN n - 1 ELSE IF i + r > n - 1 THEN 0 ELSE i + r

PotatoTypeOK ==
  /\ canAccessPotato \in [Players -> Nat] /\ finished \in Nat
  /\ potato \in [value : (Nat \ {0}) \union {-1}, round : 1..(n + 1),
                 winner : Players \union {Nobody}]
  /\ mem \in [Players -> [isActive : BOOLEAN, roundReached : 0..n]]
  /\ pc \in [Players -> {"unborn", "wait", "turn", "pass", "last",
                         "report", "gone"}]
  /\ main \in [at : {"start", "fork", "wait", "announce", "gone", "failed"},
               count : 0..(n - 1), winner : Players \union {Nobody}]

Init ==
  /\ canAccessPotato = [i \in Players |-> 0]
  /\ finished = 0
  /\ potato = [value |-> v, round |-> 1, winner |-> Nobody]
  /\ mem = [i \in Players |-> [isActive |-> TRUE, roundReached |-> 0]]
  /\ pc = [i \in Players |-> "unborn"]
  /\ main = [at |-> "start", count |-> 0, winner |-> Nobody]

-----------------------------------------------------------------------------
(* potatoGame, for player i.                                               *)

Go(i, from, to) == pc[i] = from /\ pc' = [pc EXCEPT ![i] = to]

Wait(i) ==
  /\ Go(i, "wait", "turn")
  /\ canAccessPotato[i] > 0
  /\ canAccessPotato' = [canAccessPotato EXCEPT ![i] = @ - 1]
  /\ UNCHANGED <<finished, potato, mem, main>>

play(value) == IF value % 2 = 0 THEN value \div 2 ELSE 3 * value + 1

(* Mutant: the game is over one round too early.                           *)
ExplodeEarly(i, new) ==
  /\ mem' = [mem EXCEPT ![i] = [isActive |-> FALSE,
                                roundReached |-> potato.round]]
  /\ potato' = IF potato.round + 1 = n
               THEN [value |-> -1, round |-> n, winner |-> i]
               ELSE [potato EXCEPT !.value = new, !.round = @ + 1]

(* The potato explodes in the hands of i: i is out, and either a new value *)
(* starts the next round or i was the last one and wins.                   *)
Explode(i, new) ==
  /\ mem' = [mem EXCEPT ![i] = [isActive |-> FALSE,
                                roundReached |-> potato.round]]
  /\ potato' = IF potato.round + 1 = n + 1
               THEN [value |-> -1, round |-> n + 1, winner |-> i]
               ELSE [potato EXCEPT !.value = new, !.round = @ + 1]

Turn(i) ==
  /\ \/ potato.value = -1 /\ Go(i, "turn", "last") /\ UNCHANGED <<potato, mem>>
     \/ /\ potato.value # -1 /\ Go(i, "turn", "pass")
        /\ \/ ~ mem[i].isActive /\ UNCHANGED <<potato, mem>>
           \/ /\ mem[i].isActive /\ play(potato.value) = 1
              /\ \E new \in RandomValues : Explode(i, new)
           \/ /\ mem[i].isActive /\ play(potato.value) # 1
              /\ potato' = [potato EXCEPT !.value = play(@)]
              /\ UNCHANGED mem
  /\ UNCHANGED <<canAccessPotato, finished, main>>

(* Mutant: a player that sees the game is over keeps the potato.           *)
SignalNextNotLast(i) ==
  /\ Go(i, "pass", "wait") \/ Go(i, "last", "report")
  /\ canAccessPotato' = IF pc[i] = "last" THEN canAccessPotato
                        ELSE [canAccessPotato EXCEPT ![nextPlayer(i)] = @ + 1]
  /\ UNCHANGED <<finished, potato, mem, main>>

SignalNext(i) ==
  /\ Go(i, "pass", "wait") \/ Go(i, "last", "report")
  /\ canAccessPotato' = [canAccessPotato EXCEPT ![nextPlayer(i)] = @ + 1]
  /\ UNCHANGED <<finished, potato, mem, main>>

SignalFinished(i) ==
  /\ Go(i, "report", "gone")
  /\ finished' = finished + 1
  /\ UNCHANGED <<canAccessPotato, potato, mem, main>>

potatoGame(i) == Wait(i) \/ Turn(i) \/ SignalNext(i) \/ SignalFinished(i)

-----------------------------------------------------------------------------
(* The main process.                                                       *)

(* A random player is to start; the processes do not exist yet.            *)
Start ==
  /\ main.at = "start" /\ main' = [main EXCEPT !.at = "fork"]
  /\ \E i \in Players :
       canAccessPotato' = [canAccessPotato EXCEPT ![i] = @ + 1]
  /\ UNCHANGED <<finished, potato, mem, pc>>

(* Player number main.count is made; when fork fails main returns and      *)
(* leaves the others as they are.                                          *)
ForkPlayer ==
  /\ main.at = "fork"
  /\ \/ /\ Go(main.count, "unborn", "wait")
        /\ main' = IF main.count + 1 < n THEN [main EXCEPT !.count = @ + 1]
                   ELSE [main EXCEPT !.at = "wait", !.count = 0]
     \/ ForkFails /\ main' = [main EXCEPT !.at = "failed"] /\ UNCHANGED pc
  /\ UNCHANGED <<canAccessPotato, finished, potato, mem>>

(* Mutant: main waits for one player less.                                 *)
WaitFinishedOneLess ==
  /\ main.at = "wait" /\ finished > 0
  /\ finished' = finished - 1
  /\ main' = IF main.count + 1 < n - 1 THEN [main EXCEPT !.count = @ + 1]
             ELSE [main EXCEPT !.at = "announce"]
  /\ UNCHANGED <<canAccessPotato, potato, mem, pc>>

WaitFinished ==
  /\ main.at = "wait" /\ finished > 0
  /\ finished' = finished - 1
  /\ main' = IF main.count + 1 < n THEN [main EXCEPT !.count = @ + 1]
             ELSE [main EXCEPT !.at = "announce"]
  /\ UNCHANGED <<canAccessPotato, potato, mem, pc>>

(* reportWinner, then cleanUp removes the semaphores and the memory.       *)
Announce ==
  /\ main.at = "announce"
  /\ main' = [main EXCEPT !.at = "gone", !.winner = potato.winner]
  /\ UNCHANGED playerVars

mainProcess == Start \/ ForkPlayer \/ WaitFinished \/ Announce

Next == mainProcess \/ \E i \in Players : potatoGame(i)

Spec == Init /\ [][Next]_vars

-----------------------------------------------------------------------------
(* Properties.                                                             *)

Holds(i) == pc[i] \in {"turn", "pass", "last"}

(* The token of the ring is in the semaphore or in the hands of a player.  *)
(* There is never a second one, and from the moment it is put into the     *)
(* ring it is never lost: that is all that guards the shared memory.       *)
OneToken ==
  /\ \A i, j \in Players :
       /\ canAccessPotato[i] <= 1
       /\ canAccessPotato[i] = 1 => ~ Holds(j)
       /\ i # j => ~ (canAccessPotato[i] = 1 /\ canAccessPotato[j] = 1)
       /\ i # j => ~ (Holds(i) /\ Holds(j))
  /\ main.at = "start" \/ \E i \in Players : canAccessPotato[i] = 1 \/ Holds(i)

Out == {i \in Players : ~ mem[i].isActive}

(* Players in the order in which they report to have gone out.             *)
Order ==
  [k \in 1..Cardinality(Out) |-> CHOOSE i \in Out : mem[i].roundReached = k]

(* The game is the elimination that the readme describes.                  *)
Game == INSTANCE Elimination WITH
  out <- Order,
  left <- {i \in Players : pc[i] = "gone"},
  announced <- main.winner

GameSpec == Game!Spec

=============================================================================
