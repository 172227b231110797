----------------------------- MODULE PotatoMail -----------------------------
(***************************************************************************)
(* The hot potato by mail (ShortHomework1_2/src): the potato travels in    *)
(* messages of one SysV queue, the type of a message is the number of the  *)
(* player it is for, and every process keeps a copy of the last potato it  *)
(* has seen.  Main reads a second queue.  Players are 1..n here.           *)
(***************************************************************************)
EXTENDS Integers, Sequences, FiniteSets, Functions

CONSTANTS
  n, r, v,       (* players, rotation, initial value                       *)
  RandomValues,  (* what randnum(1, 1000000) may give                      *)
  ForkFails      (* fork may fail                                          *)

Players == 1..n
Nobody == -1
Blank == [text |-> "none"]   (* a message with no text                     *)

MaxRandom == 1000000

MailAssumption ==
  /\ n \in Nat \ {0} /\ r \in Int /\ v \in Nat \ {0}
  /\ RandomValues # {} /\ RandomValues \subseteq 1..MaxRandom
  /\ ForkFails \in BOOLEAN

VARIABLES
  canAccessPotato,  (* the queue, by type: first in, first out in each     *)
  finished,         (* the queue of main: potatoes and blank messages      *)
  p,                (* each process's own potato, main's under 0           *)
  mem, pc, main

playerVars == <<canAccessPotato, finished, p, mem, pc>>
vars == <<playerVars, main>>

Potatoes == [value : (Nat \ {0}) \union {-1}, round : 1..(n + 1),
             winner : Players \union {Nobody}]

MailTypeOK ==
  /\ canAccessPotato \in [Players -> Seq(Potatoes)]
  /\ finished \in Seq(Potatoes \union {Blank})
  /\ p \in [{0} \union Players -> Potatoes]
  /\ mem \in [Players -> [isActive : BOOLEAN, roundReached : 0..n]]
  /\ pc \in [Players -> {"unborn", "wait", "turn", "win", "pass", "last",
                         "report", "gone"}]
  /\ main \in [at : {"start", "fork", "winner", "wait", "announce", "gone",
                     "failed"},
               count : 0..n, winner : Players \union {Nobody}]

Init ==
  /\ canAccessPotato = [i \in Players |-> <<>>]
  /\ finished = <<>>
  /\ p = [i \in {0} \union Players |->
            [value |-> v, round |-> 1, winner |-> Nobody]]
  /\ mem = [i \in Players |-> [isActive |-> TRUE, roundReached |-> 0]]
  /\ pc = [i \in Players |-> "unborn"]
  /\ main = [at |-> "start", count |-> 0, winner |-> Nobody]

-----------------------------------------------------------------------------
(* potatoGame, for player i.                                               *)

(* setPlayer.                                                              *)
nextPlayer(i) == IF i + r <= 0 THEN n ELSE IF i + r > n THEN 1 ELSE i + r

Go(i, from, to) == pc[i] = from /\ pc' = [pc EXCEPT ![i] = to]

play(value) == IF value % 2 = 0 THEN value \div 2 ELSE 3 * value + 1

receivePotato(i) ==
  /\ Go(i, "wait", "turn")
  /\ canAccessPotato[i] # <<>>
  /\ p' = [p EXCEPT ![i] = Head(canAccessPotato[i])]
  /\ canAccessPotato' = [canAccessPotato EXCEPT ![i] = Tail(@)]
  /\ UNCHANGED <<finished, mem, main>>

(* Mutant: the winner passes the potato on without telling main.           *)
ExplodeUntold(i, new) ==
  /\ mem' = [mem EXCEPT ![i] = [isActive |-> FALSE,
                                roundReached |-> p[i].round]]
  /\ Go(i, "turn", "pass")
  /\ p' = IF p[i].round + 1 = n + 1
          THEN [p EXCEPT ![i] = [value |-> -1, round |-> n + 1, winner |-> i]]
          ELSE [p EXCEPT ![i].value = new, ![i].round = @ + 1]

(* The potato explodes in the hands of i: i is out; the last one wins, and *)
(* has main to tell first.                                                 *)
Explode(i, new) ==
  /\ mem' = [mem EXCEPT ![i] = [isActive |-> FALSE,
                                roundReached |-> p[i].round]]
  /\ IF p[i].round + 1 = n + 1
     THEN /\ p' = [p EXCEPT ![i] =
                     [value |-> -1, round |-> n + 1, winner |-> i]]
          /\ Go(i, "turn", "win")
     ELSE /\ p' = [p EXCEPT ![i].value = new, ![i].round = @ + 1]
          /\ Go(i, "turn", "pass")

Turn(i) ==
  /\ \/ p[i].value = -1 /\ Go(i, "turn", "last") /\ UNCHANGED <<p, mem>>
     \/ /\ p[i].value # -1 /\ ~ mem[i].isActive
        /\ Go(i, "turn", "pass") /\ UNCHANGED <<p, mem>>
     \/ /\ p[i].value # -1 /\ mem[i].isActive /\ play(p[i].value) = 1
        /\ \E new \in RandomValues : Explode(i, new)
     \/ /\ p[i].value # -1 /\ mem[i].isActive /\ play(p[i].value) # 1
        /\ p' = [p EXCEPT ![i].value = play(@)]
        /\ Go(i, "turn", "pass") /\ UNCHANGED mem
  /\ UNCHANGED <<canAccessPotato, finished, main>>

(* The winner sends main the potato.                                       *)
SendWinner(i) ==
  /\ Go(i, "win", "pass")
  /\ finished' = Append(finished, p[i])
  /\ UNCHANGED <<canAccessPotato, p, mem, main>>

(* Mutant: a player that is out sends the potato on twice.                 *)
sendPotatoTwice(i) ==
  /\ Go(i, "pass", "wait") \/ Go(i, "last", "report")
  /\ canAccessPotato' = [canAccessPotato EXCEPT ![nextPlayer(i)] =
       @ \o IF mem[i].isActive THEN <<p[i]>> ELSE <<p[i], p[i]>>]
  /\ UNCHANGED <<finished, p, mem, main>>

sendPotato(i) ==
  /\ Go(i, "pass", "wait") \/ Go(i, "last", "report")
  /\ canAccessPotato' =
       [canAccessPotato EXCEPT ![nextPlayer(i)] = Append(@, p[i])]
  /\ UNCHANGED <<finished, p, mem, main>>

SignalFinished(i) ==
  /\ Go(i, "report", "gone")
  /\ finished' = Append(finished, Blank)
  /\ UNCHANGED <<canAccessPotato, p, mem, main>>

potatoGame(i) ==
  \/ receivePotato(i) \/ Turn(i) \/ SendWinner(i)
  \/ sendPotato(i) \/ SignalFinished(i)

-----------------------------------------------------------------------------
(* The main process.                                                       *)

(* The potato goes to a random player before there are any; msgsnd takes   *)
(* no message of type 0, and main returns the error.                       *)
Start ==
  /\ main.at = "start"
  /\ \E i \in 0..(n - 1) :
       IF i = 0
       THEN main' = [main EXCEPT !.at = "failed"] /\ UNCHANGED canAccessPotato
       ELSE /\ main' = [main EXCEPT !.at = "fork", !.count = 1]
            /\ canAccessPotato' = [canAccessPotato EXCEPT ![i] = <<p[0]>>]
  /\ UNCHANGED <<finished, p, mem, pc>>

ForkPlayer ==
  /\ main.at = "fork"
  /\ \/ /\ Go(main.count, "unborn", "wait")
        /\ main' = IF main.count < n THEN [main EXCEPT !.count = @ + 1]
                   ELSE [main EXCEPT !.at = "winner"]
     \/ ForkFails /\ main' = [main EXCEPT !.at = "failed"] /\ UNCHANGED pc
  /\ UNCHANGED <<canAccessPotato, finished, p, mem>>

(* Main takes whatever comes first for the winner's potato; from a blank   *)
(* message it would copy what happened to be on its stack.                 *)
ReceiveWinner ==
  /\ main.at = "winner" /\ finished # <<>>
  /\ finished' = Tail(finished)
  /\ main' = [main EXCEPT !.at = "wait", !.count = 0]
  /\ \E garbage \in Players \union {Nobody} :
       p' = [p EXCEPT ![0] =
               IF Head(finished) # Blank THEN Head(finished)
               ELSE [value |-> -1, round |-> n + 1, winner |-> garbage]]
  /\ UNCHANGED <<canAccessPotato, mem, pc>>

(* MailBox::wait has room for a blank message only.                        *)
WaitFinished ==
  /\ main.at = "wait" /\ finished # <<>>
  /\ IF Head(finished) # Blank
     THEN main' = [main EXCEPT !.at = "failed"] /\ UNCHANGED finished
     ELSE /\ finished' = Tail(finished)
          /\ main' = IF main.count + 1 < n THEN [main EXCEPT !.count = @ + 1]
                     ELSE [main EXCEPT !.at = "announce"]
  /\ UNCHANGED <<canAccessPotato, p, mem, pc>>

(* reportWinner, then cleanUp removes the queues.                          *)
Announce ==
  /\ main.at = "announce"
  /\ main' = [main EXCEPT !.at = "gone", !.winner = p[0].winner]
  /\ UNCHANGED playerVars

mainProcess ==
  Start \/ ForkPlayer \/ ReceiveWinner \/ WaitFinished \/ Announce

Next == mainProcess \/ \E i \in Players : potatoGame(i)

Spec == Init /\ [][Next]_vars

-----------------------------------------------------------------------------
(* Properties.                                                             *)

Holds(i) == pc[i] \in {"turn", "win", "pass", "last"}

(* One potato: it is in one message or in the hands of one player, and the *)
(* copies that the others keep are old ones.  No semaphore guards it.      *)
OneToken ==
  /\ \A i, j \in Players :
       /\ Len(canAccessPotato[i]) <= 1
       /\ canAccessPotato[i] # <<>> => ~ Holds(j)
       /\ i # j => ~ (canAccessPotato[i] # <<>> /\ canAccessPotato[j] # <<>>)
       /\ i # j => ~ (Holds(i) /\ Holds(j))
  /\ main.at \in {"fork", "winner", "wait", "announce", "gone"} =>
       \E i \in Players : canAccessPotato[i] # <<>> \/ Holds(i)

(* Main reads the winner's potato first and then n blank messages: the     *)
(* winner it will announce is the one who went out in round n, and it is   *)
(* only Start or fork that can make it fail.                               *)
MainReadsInOrder ==
  /\ main.at \in {"wait", "announce", "gone"} =>
       \E i \in Players : p[0].winner = i /\ mem[i].roundReached = n
  /\ main.at = "failed" => \E i \in Players : pc[i] = "unborn"

Out == {i \in Players : ~ mem[i].isActive}

Order ==
  [k \in 1..Cardinality(Out) |-> CHOOSE i \in Out : mem[i].roundReached = k]

(* The elimination that the readme describes.                              *)
Game == INSTANCE Elimination WITH
  out <- Order,
  left <- {i \in Players : pc[i] = "gone"},
  announced <- main.winner

GameSpec == Game!Spec

=============================================================================
