------------------------- MODULE UnixProgramsProofs -------------------------
(***************************************************************************)
(* Proofs about the course's programs for Unix.  The three hot potatoes,   *)
(* for every number of players, rotation, initial value and set of random  *)
(* values: the ring of processes, the end of the threads, the mail, and    *)
(* the elimination that all of them implement.  The baboons, for every     *)
(* number of them and of ropes.                                            *)
(***************************************************************************)
EXTENDS PotatoGames, Baboons, FiniteSetTheorems, SequenceTheorems, TLAPS

-----------------------------------------------------------------------------
(* The ring.                                                               *)

(* The game goes on only up to round n.                                    *)
RoundInv == potato.value # -1 => potato.round <= n

(* Before main starts the game there is no token and no player.            *)
StartInv ==
  main.at = "start" =>
    \A i \in Players : canAccessPotato[i] = 0 /\ pc[i] = "unborn"

-----------------------------------------------------------------------------

LEMMA ArgumentTypes ==
  n \in Int /\ r \in Int /\ v \in Int /\ n > 0 /\ v > 0
PROOF BY PotatoAssumption DEF n, r, v

(* setPlayer (GameLogic.cpp) gives a player of the ring whatever r is.     *)
LEMMA NextPlayerType ==
  ASSUME NEW i \in Players PROVE nextPlayer(i) \in Players
PROOF BY ArgumentTypes DEF Players, nextPlayer

(* play (GameLogic.cpp) never makes a value that means "the game is over". *)
LEMMA PlayType ==
  ASSUME NEW x \in Nat \ {0} PROVE play(x) \in Nat \ {0}
<1>1. CASE x % 2 = 0
  BY <1>1 DEF play
<1>2. CASE x % 2 # 0
  BY <1>2 DEF play
<1>. QED BY <1>1, <1>2

LEMMA RandomTypes ==
  ASSUME NEW x \in RandomValues PROVE x \in Nat \ {0}
<1>1. MaxRandom \in Int
  BY SMT DEF MaxRandom
<1>. QED BY <1>1, PotatoAssumption

-----------------------------------------------------------------------------
(* The inductive invariant.                                                *)

RingInv == PotatoTypeOK /\ RoundInv /\ StartInv /\ OneToken

LEMMA RingInit == Init => RingInv
<1>. SUFFICES ASSUME Init PROVE RingInv
  OBVIOUS
<1>1. PotatoTypeOK
  BY ArgumentTypes DEF Init, PotatoTypeOK, Players, Nobody
<1>2. RoundInv /\ StartInv /\ OneToken
  BY ArgumentTypes DEF Init, RoundInv, StartInv, OneToken, Holds
<1>. QED BY <1>1, <1>2 DEF RingInv

(* Wait takes the token out of the semaphore.                              *)
LEMMA WaitKeeps ==
  ASSUME RingInv, NEW i \in Players, Wait(i) PROVE RingInv'
<1>. USE DEF RingInv, Wait, Go
<1>1. PotatoTypeOK'
  BY DEF PotatoTypeOK
<1>2. RoundInv' /\ StartInv'
  BY DEF RoundInv, StartInv, PotatoTypeOK
<1>3. OneToken'
  BY DEF OneToken, Holds, PotatoTypeOK
<1>. QED BY <1>1, <1>2, <1>3

(* Turn keeps it in the hands of the player.                               *)
LEMMA TurnKeeps ==
  ASSUME RingInv, NEW i \in Players, Turn(i) PROVE RingInv'
<1>. USE DEF RingInv, Turn, Go
<1>1. PotatoTypeOK' /\ RoundInv'
  <2>1. CASE UNCHANGED <<potato, mem>>
    BY <2>1 DEF PotatoTypeOK, RoundInv
  <2>2. CASE \E new \in RandomValues : potato.value # -1 /\ Explode(i, new)
    <3>1. PICK new \in RandomValues : potato.value # -1 /\ Explode(i, new)
      BY <2>2
    <3>2. potato.round \in 1..n /\ new \in Nat \ {0} /\ n \in Int
      BY <3>1, RandomTypes, ArgumentTypes DEF PotatoTypeOK, RoundInv
    <3>0. mem' \in [Players -> [isActive : BOOLEAN, roundReached : 0..n]]
      <4>1. [isActive |-> FALSE, roundReached |-> potato.round]
              \in [isActive : BOOLEAN, roundReached : 0..n]
        BY <3>2
      <4>. QED BY <3>1, <4>1 DEF Explode, PotatoTypeOK
    <3>. /\ canAccessPotato' \in [Players -> Nat] /\ finished' \in Nat
         /\ pc' \in [Players -> {"unborn", "wait", "turn", "pass", "last",
                                "report", "gone"}]
         /\ UNCHANGED main
      BY DEF PotatoTypeOK
    <3>3. CASE potato.round + 1 = n + 1
      <4>1. potato' = [value |-> -1, round |-> n + 1, winner |-> i]
        BY <3>1, <3>3 DEF Explode
      <4>2. potato' \in [value : (Nat \ {0}) \union {-1}, round : 1..(n + 1),
                         winner : Players \union {Nobody}]
        BY <3>2, <4>1
      <4>. QED BY <3>0, <4>1, <4>2 DEF PotatoTypeOK, RoundInv
    <3>4. CASE potato.round + 1 # n + 1
      <4>1. /\ potato'.value = new /\ potato'.round = potato.round + 1
            /\ potato'.winner = potato.winner
            /\ potato' = [value |-> potato'.value, round |-> potato'.round,
                          winner |-> potato'.winner]
        BY <3>1, <3>4 DEF Explode, PotatoTypeOK
      <4>2. potato'.round \in 1..n
        BY <3>2, <3>4, <4>1
      <4>3. potato' \in [value : (Nat \ {0}) \union {-1}, round : 1..(n + 1),
                         winner : Players \union {Nobody}]
        BY <3>2, <4>1, <4>2 DEF PotatoTypeOK
      <4>. QED BY <3>0, <4>1, <4>2, <4>3 DEF PotatoTypeOK, RoundInv
    <3>. QED BY <3>3, <3>4
  <2>3. CASE /\ potato.value # -1
             /\ potato' = [potato EXCEPT !.value = play(@)]
             /\ UNCHANGED mem
    <3>1. play(potato.value) \in Nat \ {0}
      BY <2>3, PlayType DEF PotatoTypeOK
    <3>. QED BY <2>3, <3>1 DEF PotatoTypeOK, RoundInv
  <2>. QED BY <2>1, <2>2, <2>3
<1>2. StartInv'
  BY DEF StartInv, PotatoTypeOK
<1>3. OneToken'
  BY DEF OneToken, Holds, PotatoTypeOK
<1>. QED BY <1>1, <1>2, <1>3

(* SignalNext puts it into the semaphore of the neighbour.                 *)
LEMMA SignalNextKeeps ==
  ASSUME RingInv, NEW i \in Players, SignalNext(i) PROVE RingInv'
<1>. DEFINE j == nextPlayer(i)
<1>1. j \in Players
  BY NextPlayerType
<1>. HIDE DEF j
<1>2. /\ pc[i] \in {"pass", "last"}
      /\ pc' = [pc EXCEPT ![i] = IF @ = "pass" THEN "wait" ELSE "report"]
      /\ canAccessPotato' = [canAccessPotato EXCEPT ![j] = @ + 1]
      /\ UNCHANGED <<finished, potato, mem, main>>
  BY DEF SignalNext, Go, RingInv, PotatoTypeOK, j
<1>. USE DEF RingInv
<1>3. PotatoTypeOK'
  BY <1>1, <1>2 DEF PotatoTypeOK
<1>4. RoundInv' /\ StartInv'
  BY <1>2 DEF RoundInv, StartInv
<1>5. \A k \in Players : Holds(k)' <=> Holds(k) /\ k # i
  BY <1>1, <1>2 DEF OneToken, Holds, PotatoTypeOK
<1>6. /\ \A k \in Players : canAccessPotato[k] = 0 /\ (k # i => ~ Holds(k))
      /\ Holds(i)
  <2>1. Holds(i)
    BY <1>2 DEF Holds
  <2>2. \A k \in Players : canAccessPotato[k] \in Nat
    BY DEF PotatoTypeOK
  <2>3. \A k \in Players : canAccessPotato[k] <= 1 /\ canAccessPotato[k] # 1
    BY <2>1 DEF OneToken
  <2>4. \A k \in Players : k # i => ~ Holds(k)
    BY <2>1 DEF OneToken
  <2>. QED BY <2>1, <2>2, <2>3, <2>4
<1>7. \A k \in Players : canAccessPotato'[k] = IF k = j THEN 1 ELSE 0
  BY <1>1, <1>2, <1>6 DEF PotatoTypeOK
<1>8. OneToken'
  <2>1. \E k \in Players : canAccessPotato'[k] = 1
    BY <1>1, <1>7
  <2>2. \A k \in Players : ~ Holds(k)'
    BY <1>5, <1>6
  <2>. QED BY <1>7, <2>1, <2>2 DEF OneToken
<1>. QED BY <1>3, <1>4, <1>8

LEMMA SignalFinishedKeeps ==
  ASSUME RingInv, NEW i \in Players, SignalFinished(i) PROVE RingInv'
<1>. USE DEF RingInv, SignalFinished, Go
<1>1. PotatoTypeOK'
  BY DEF PotatoTypeOK
<1>2. RoundInv' /\ StartInv' /\ OneToken'
  BY DEF RoundInv, StartInv, OneToken, Holds, PotatoTypeOK
<1>. QED BY <1>1, <1>2

(* Start makes the token.                                                  *)
LEMMA StartKeeps ==
  ASSUME RingInv, Start PROVE RingInv'
<1>. USE DEF RingInv, Start
<1>1. PotatoTypeOK'
  BY DEF PotatoTypeOK
<1>2. RoundInv' /\ StartInv'
  BY DEF RoundInv, StartInv, PotatoTypeOK
<1>3. OneToken'
  BY DEF StartInv, OneToken, Holds, PotatoTypeOK
<1>. QED BY <1>1, <1>2, <1>3

LEMMA ForkPlayerKeeps ==
  ASSUME RingInv, ForkPlayer PROVE RingInv'
<1>. USE DEF RingInv, ForkPlayer, Go
<1>1. PotatoTypeOK'
  <2>. DEFINE Mains ==
                [at : {"start", "fork", "wait", "announce", "gone", "failed"},
                 count : 0..(n - 1), winner : Players \union {Nobody}]
  <2>0. PotatoTypeOK' <=> main' \in Mains
    BY DEF PotatoTypeOK
  <2>. SUFFICES main' \in Mains
    BY <2>0
  <2>. main \in Mains
    BY DEF PotatoTypeOK
  <2>1. CASE main' = [main EXCEPT !.count = @ + 1] /\ main.count + 1 < n
    <3>1. main.count + 1 \in 0..(n - 1)
      BY <2>1, ArgumentTypes
    <3>. QED BY <2>1, <3>1
  <2>2. CASE main' = [main EXCEPT !.at = "wait", !.count = 0]
    <3>1. 0 \in 0..(n - 1)
      BY ArgumentTypes
    <3>. QED BY <2>2, <3>1
  <2>3. CASE main' = [main EXCEPT !.at = "failed"]
    BY <2>3
  <2>. QED BY <2>1, <2>2, <2>3
<1>2. RoundInv' /\ StartInv'
  BY DEF RoundInv, StartInv, PotatoTypeOK
<1>3. OneToken'
  BY DEF OneToken, Holds, PotatoTypeOK
<1>. QED BY <1>1, <1>2, <1>3

LEMMA MainEndKeeps ==
  ASSUME RingInv, WaitFinished \/ Announce PROVE RingInv'
<1>. USE DEF RingInv, playerVars
<1>1. PotatoTypeOK'
  <2>1. CASE WaitFinished /\ main.count + 1 < n
    BY <2>1, ArgumentTypes DEF WaitFinished, PotatoTypeOK
  <2>2. CASE WaitFinished /\ ~ (main.count + 1 < n)
    BY <2>2, ArgumentTypes DEF WaitFinished, PotatoTypeOK
  <2>3. CASE Announce
    BY <2>3 DEF Announce, PotatoTypeOK
  <2>. QED BY <2>1, <2>2, <2>3
<1>2. /\ main.at \notin {"start"} /\ main'.at # "start"
      /\ UNCHANGED <<canAccessPotato, potato, mem, pc>>
  BY DEF WaitFinished, Announce, PotatoTypeOK
<1>3. RoundInv' /\ StartInv' /\ OneToken'
  BY <1>2 DEF RoundInv, StartInv, OneToken, Holds
<1>. QED BY <1>1, <1>3

LEMMA RingNext == RingInv /\ [Next]_vars => RingInv'
<1>. SUFFICES ASSUME RingInv, [Next]_vars PROVE RingInv'
  OBVIOUS
<1>1. CASE \E i \in Players : potatoGame(i)
  BY <1>1, WaitKeeps, TurnKeeps, SignalNextKeeps, SignalFinishedKeeps
     DEF potatoGame
<1>2. CASE mainProcess
  BY <1>2, StartKeeps, ForkPlayerKeeps, MainEndKeeps DEF mainProcess
<1>3. CASE UNCHANGED vars
  BY <1>3 DEF vars, playerVars, RingInv, PotatoTypeOK, RoundInv, StartInv,
              OneToken, Holds
<1>. QED BY <1>1, <1>2, <1>3 DEF Next

-----------------------------------------------------------------------------

LEMMA RingInvariant == Spec => []RingInv
PROOF BY RingInit, RingNext, PTL DEF Spec

(* Every variable keeps its type.  In particular the value of the potato   *)
(* is -1, the sign that the game is over, only when Explode makes it so.   *)
THEOREM PotatoTypeCorrect == Spec => []PotatoTypeOK
<1>. RingInv => PotatoTypeOK
  BY DEF RingInv
<1>. QED BY RingInvariant, PTL

(* The shared potato is never touched by two players, and the token that   *)
(* lets a player touch it is never lost nor doubled.                       *)
THEOREM OneTokenHolds == Spec => []OneToken
<1>. RingInv => OneToken
  BY DEF RingInv
<1>. QED BY RingInvariant, PTL

-----------------------------------------------------------------------------
(* The end of the game: main counts the players that have left.            *)

Gone == {i \in Players : pc[i] = "gone"}

(* What main has been told and has not counted yet is in `finished`; until *)
(* all have been forked, main.count counts something else.                 *)
CountInv ==
  /\ main.at \in {"start", "fork"} => finished = Cardinality(Gone)
  /\ main.at = "wait" => finished + main.count = Cardinality(Gone)
  /\ main.at \in {"announce", "gone"} => Gone = Players

LEMMA PlayersFinite ==
  IsFiniteSet(Players) /\ Cardinality(Players) = n
<1>1. n \in Int /\ n > 0 /\ 0 \in Int /\ n - 1 \in Int
  BY ArgumentTypes
<1>. QED BY <1>1, FS_Interval DEF Players

LEMMA GoneFinite ==
  /\ IsFiniteSet(Gone) /\ Cardinality(Gone) \in Nat /\ Cardinality(Gone) <= n
  /\ Cardinality(Gone) = n => Gone = Players
<1>1. Gone \in SUBSET Players
  BY DEF Gone
<1>. QED BY <1>1, PlayersFinite, FS_Subset, FS_CardinalityType

LEMMA CountInit == Init => CountInv
<1>. SUFFICES ASSUME Init PROVE CountInv
  OBVIOUS
<1>1. Gone = {}
  BY DEF Init, Gone
<1>. QED BY <1>1, FS_EmptySet DEF Init, CountInv

LEMMA CountNext ==
  ASSUME RingInv, CountInv, [Next]_vars PROVE CountInv'
<1>. USE DEF RingInv
<1>1. ASSUME NEW i \in Players, SignalFinished(i)
      PROVE  CountInv'
  <2>1. i \notin Gone /\ Gone' = Gone \union {i}
    BY <1>1 DEF SignalFinished, Go, Gone, PotatoTypeOK
  <2>2. Cardinality(Gone') = Cardinality(Gone) + 1
    BY <2>1, GoneFinite, FS_AddElement
  <2>3. Gone # Players /\ finished' = finished + 1 /\ main' = main
    BY <1>1, <2>1 DEF SignalFinished
  <2>. QED BY <2>2, <2>3, GoneFinite DEF CountInv, PotatoTypeOK
<1>2. ASSUME NEW i \in Players, Wait(i) \/ Turn(i) \/ SignalNext(i)
      PROVE  CountInv'
  <2>1. Gone' = Gone /\ finished' = finished /\ main' = main
    BY <1>2 DEF Wait, Turn, SignalNext, Go, Gone, PotatoTypeOK
  <2>. QED BY <2>1 DEF CountInv
<1>3. CASE Start
  <2>1. Gone' = Gone /\ finished' = finished
    BY <1>3 DEF Start, Gone
  <2>. QED BY <1>3, <2>1 DEF Start, CountInv, PotatoTypeOK
<1>4. CASE ForkPlayer
  <2>1. Gone' = Gone /\ finished' = finished
    BY <1>4 DEF ForkPlayer, Go, Gone, PotatoTypeOK
  <2>2. CASE main' = [main EXCEPT !.count = @ + 1] \/ main' = [main EXCEPT !.at = "failed"]
    BY <1>4, <2>1, <2>2 DEF ForkPlayer, CountInv, PotatoTypeOK
  <2>3. CASE main' = [main EXCEPT !.at = "wait", !.count = 0]
    <3>1. finished + 0 = finished
      BY DEF PotatoTypeOK
    <3>. QED BY <1>4, <2>1, <2>3, <3>1 DEF ForkPlayer, CountInv, PotatoTypeOK
  <2>. QED BY <1>4, <2>2, <2>3 DEF ForkPlayer
<1>5. CASE WaitFinished
  <2>1. Gone' = Gone
    BY <1>5 DEF WaitFinished, Gone
  <2>2. /\ main.at = "wait" /\ finished \in Nat /\ finished > 0
        /\ finished' = finished - 1 /\ main.count \in 0..(n - 1)
        /\ finished + main.count = Cardinality(Gone)
    BY <1>5 DEF WaitFinished, PotatoTypeOK, CountInv
  <2>3. CASE main.count + 1 < n
    <3>1. main'.at = "wait" /\ main'.count = main.count + 1
      BY <1>5, <2>2, <2>3 DEF WaitFinished, PotatoTypeOK
    <3>2. finished' + main'.count = Cardinality(Gone)
      BY <2>2, <3>1, GoneFinite
    <3>. QED BY <2>1, <3>1, <3>2 DEF CountInv
  <2>4. CASE ~ (main.count + 1 < n)
    <3>1. main'.at = "announce"
      BY <1>5, <2>4 DEF WaitFinished, PotatoTypeOK
    <3>2. Gone = Players
      BY <2>2, <2>4, GoneFinite, ArgumentTypes
    <3>. QED BY <2>1, <3>1, <3>2 DEF CountInv
  <2>. QED BY <2>3, <2>4
<1>6. CASE Announce
  <2>1. Gone' = Gone
    BY <1>6 DEF Announce, playerVars, Gone
  <2>. QED BY <1>6, <2>1 DEF Announce, CountInv, PotatoTypeOK
<1>7. CASE UNCHANGED vars
  BY <1>7 DEF vars, playerVars, CountInv, Gone
<1>. QED BY <1>1, <1>2, <1>3, <1>4, <1>5, <1>6, <1>7 DEF Next, mainProcess, potatoGame

(* clean_up begins when main has announced, and nobody is left then.       *)
CleanInv ==
  /\ cleaning.at # "not yet" => main.at = "gone"
  /\ destroyed # {} \/ freed => cleaning.at # "not yet"

ThreadsInv == ThreadsTypeOK /\ RingInv /\ CountInv /\ CleanInv

(* A step of the processes or of the threads.                              *)
RingOrThreads == ThreadsNext \/ (Next /\ UNCHANGED cleanUpVars)

LEMMA ThreadsAreRing ==
  ASSUME [RingOrThreads]_threadVars PROVE [Next]_vars
BY DEF RingOrThreads, ThreadsNext, mainThread, set_potato, launch_game,
       wait_game_to_finish, report_winner, clean_up, Join, Destroy, Free,
       potato_game, Next, mainProcess, threadVars

LEMMA ThreadsTypeNext ==
  ASSUME ThreadsTypeOK, RingInv', [RingOrThreads]_threadVars PROVE ThreadsTypeOK'
<1>. DEFINE Cleanings == [at : {"not yet", "join", "destroy", "free", "done"},
                          count : 0..(n - 1)]
<1>0. /\ cleaning \in Cleanings /\ destroyed \in SUBSET Players /\ freed \in BOOLEAN
      /\ PotatoTypeOK'
  BY DEF ThreadsTypeOK, RingInv
<1>a. 0 \in 0..(n - 1) /\ n \in Int
  BY ArgumentTypes
<1>1. CASE UNCHANGED cleanUpVars
  BY <1>0, <1>1 DEF cleanUpVars, ThreadsTypeOK
<1>2. CASE report_winner
  BY <1>0, <1>a, <1>2 DEF report_winner, ThreadsTypeOK
<1>3. CASE Join
  BY <1>0, <1>3 DEF Join, ThreadsTypeOK
<1>4. CASE Destroy
  <2>0. cleaning.count \in 0..(n - 1)
    BY <1>0
  <2>1. cleaning.count + 1 < n => cleaning.count + 1 \in 0..(n - 1)
    BY <1>a, <2>0
  <2>2. cleaning' \in Cleanings
    BY <1>0, <1>4, <2>1 DEF Destroy
  <2>3. destroyed' \in SUBSET Players /\ freed' \in BOOLEAN
    BY <1>0, <1>4 DEF Destroy, Players
  <2>. QED BY <1>0, <2>2, <2>3 DEF ThreadsTypeOK
<1>5. CASE Free
  BY <1>0, <1>5 DEF Free, ThreadsTypeOK
<1>. QED
  BY <1>1, <1>2, <1>3, <1>4, <1>5
     DEF RingOrThreads, ThreadsNext, mainThread, clean_up, set_potato, launch_game,
         wait_game_to_finish, potato_game, threadVars, cleanUpVars

LEMMA ThreadsInvNext ==
  ASSUME ThreadsInv, [RingOrThreads]_threadVars PROVE ThreadsInv'
<1>1. RingInv' /\ CountInv' /\ ThreadsTypeOK'
  BY ThreadsAreRing, RingNext, CountNext, ThreadsTypeNext DEF ThreadsInv
<1>2. main.at = "gone" => main'.at = "gone"
  BY ThreadsAreRing
     DEF ThreadsInv, RingInv, PotatoTypeOK, Next, vars, mainProcess, potatoGame,
         Start, ForkPlayer, WaitFinished, Announce,
         Wait, Turn, SignalNext, SignalFinished
<1>3. ThreadsTypeOK /\ CleanInv
  BY DEF ThreadsInv
<1>4. CASE UNCHANGED cleanUpVars
  BY <1>1, <1>2, <1>3, <1>4 DEF cleanUpVars, ThreadsInv, CleanInv
<1>5. CASE report_winner
  <2>1. main'.at = "gone" /\ cleaning'.at # "not yet"
    BY <1>5 DEF report_winner, Announce, ThreadsInv, RingInv, PotatoTypeOK
  <2>. QED BY <1>1, <2>1 DEF ThreadsInv, CleanInv
<1>6. CASE clean_up
  <2>0. cleaning = [at |-> cleaning.at, count |-> cleaning.count]
    BY <1>3 DEF ThreadsTypeOK
  <2>1. cleaning.at # "not yet" /\ cleaning'.at # "not yet" /\ main' = main
    <3>1. CASE Join
      BY <2>0, <3>1 DEF Join, vars
    <3>2. CASE Destroy
      BY <2>0, <3>2 DEF Destroy, vars
    <3>3. CASE Free
      BY <2>0, <3>3 DEF Free, vars
    <3>. QED BY <1>6, <3>1, <3>2, <3>3 DEF clean_up
  <2>. QED BY <1>1, <1>3, <2>1 DEF ThreadsInv, CleanInv
<1>. QED
  BY <1>4, <1>5, <1>6
     DEF RingOrThreads, ThreadsNext, mainThread, set_potato, launch_game,
         wait_game_to_finish, potato_game, threadVars, cleanUpVars

LEMMA ThreadsInvInit == ThreadsInit => ThreadsInv
<1>. SUFFICES ASSUME ThreadsInit PROVE ThreadsInv
  OBVIOUS
<1>1. RingInv /\ CountInv
  BY RingInit, CountInit DEF ThreadsInit
<1>2. cleaning.at = "not yet" /\ cleaning.count = 0 /\ destroyed = {} /\ freed = FALSE
  BY DEF ThreadsInit
<1>3. ThreadsTypeOK
  <2>1. 0 \in 0..(n - 1)
    BY ArgumentTypes
  <2>. QED BY <1>1, <2>1 DEF ThreadsInit, ThreadsTypeOK, RingInv
<1>. QED BY <1>1, <1>2, <1>3 DEF ThreadsInv, CleanInv

LEMMA NobodyLeft ==
  ASSUME ThreadsInv PROVE NoUseAfterDestroy
<1>1. destroyed # {} \/ freed => Gone = Players
  BY DEF ThreadsInv, CleanInv, CountInv
<1>. QED BY <1>1 DEF Gone, Holds, NoUseAfterDestroy

-----------------------------------------------------------------------------
(* The order in which players go out, for any set P of players and memory  *)
(* m, as both PotatoRing and PotatoMail keep it.                           *)

Outs(P, m) == {i \in P : ~ m[i].isActive}

OutOrder(P, m) ==
  [k \in 1..Cardinality(Outs(P, m)) |->
     CHOOSE i \in Outs(P, m) : m[i].roundReached = k]

(* The players that are out went out one in each round, up to round k.     *)
Numbered(P, m, k) ==
  /\ Cardinality(Outs(P, m)) = k
  /\ \A i \in Outs(P, m) : m[i].roundReached \in 1..k
  /\ \A j \in 1..k : \E i \in Outs(P, m) : m[i].roundReached = j
  /\ \A i, j \in Outs(P, m) : m[i].roundReached = m[j].roundReached => i = j

LEMMA OrderIs ==
  ASSUME NEW P, NEW m, NEW k \in Nat, Numbered(P, m, k), NEW i \in Outs(P, m)
  PROVE  /\ m[i].roundReached \in 1..k /\ OutOrder(P, m)[m[i].roundReached] = i
         /\ DOMAIN OutOrder(P, m) = 1..k
<1>1. DOMAIN OutOrder(P, m) = 1..k /\ m[i].roundReached \in 1..k
  BY DEF OutOrder, Numbered
<1>. DEFINE j == m[i].roundReached
<1>2. OutOrder(P, m)[j] = CHOOSE x \in Outs(P, m) : m[x].roundReached = j
  BY <1>1 DEF OutOrder, Numbered
<1>3. \A x, y \in Outs(P, m) : m[x].roundReached = m[y].roundReached => x = y
  BY DEF Numbered
<1>4. m[i].roundReached = j
  OBVIOUS
<1>. HIDE DEF j
<1>5. (CHOOSE x \in Outs(P, m) : m[x].roundReached = j) = i
  <2>. DEFINE c == CHOOSE x \in Outs(P, m) : m[x].roundReached = j
  <2>1. c \in Outs(P, m) /\ m[c].roundReached = j
    BY <1>4, Zenon
  <2>. HIDE DEF c
  <2>2. c = i
    BY <1>3, <1>4, <2>1, Zenon
  <2>. QED BY <2>2 DEF c
<1>. QED BY <1>1, <1>2, <1>5 DEF j

(* A sequence of players, all of them out.                                 *)
LEMMA OrderType ==
  ASSUME NEW P, NEW m, NEW k \in Nat, Numbered(P, m, k)
  PROVE  /\ OutOrder(P, m) \in Seq(Outs(P, m)) /\ Len(OutOrder(P, m)) = k
         /\ Range(OutOrder(P, m)) \subseteq Outs(P, m)
<1>. DEFINE out(j) == CHOOSE i \in Outs(P, m) : m[i].roundReached = j
<1>1. OutOrder(P, m) = [j \in 1..k |-> out(j)]
  BY DEF OutOrder, Numbered
<1>2. ASSUME NEW j \in 1..k
      PROVE  out(j) \in Outs(P, m)
  BY Zenon DEF Numbered
<1>. HIDE DEF out
<1>3. OutOrder(P, m) \in [1..k -> Outs(P, m)]
  BY <1>1, <1>2
<1>4. OutOrder(P, m) \in Seq(Outs(P, m)) /\ Len(OutOrder(P, m)) = k
  BY <1>3
<1>. QED BY <1>4, RangeOfSeq

(* Player i goes out in round k + 1: it is appended to the order.          *)
LEMMA GoesOut ==
  ASSUME NEW P, IsFiniteSet(P), NEW m, NEW m2, NEW k \in Nat, Numbered(P, m, k),
         NEW i \in P, m[i].isActive,
         ~ m2[i].isActive, m2[i].roundReached = k + 1,
         \A j \in P \ {i} : m2[j] = m[j]
  PROVE  /\ Numbered(P, m2, k + 1)
         /\ OutOrder(P, m2) = Append(OutOrder(P, m), i)
         /\ i \notin Range(OutOrder(P, m))
<1>1. i \notin Outs(P, m) /\ Outs(P, m2) = Outs(P, m) \union {i}
  BY DEF Outs
<1>2. IsFiniteSet(Outs(P, m))
  <2>1. Outs(P, m) \in SUBSET P
    BY DEF Outs
  <2>. QED BY <2>1, FS_Subset
<1>3. Cardinality(Outs(P, m2)) = k + 1
  <2>1. Cardinality(Outs(P, m) \cup {i}) = Cardinality(Outs(P, m)) + 1
    BY <1>1, <1>2, FS_AddElement
  <2>2. Cardinality(Outs(P, m)) = k
    BY DEF Numbered
  <2>. QED BY <1>1, <2>1, <2>2
<1>4. \A j \in Outs(P, m) : m2[j] = m[j] /\ m[j].roundReached \in 1..k
  BY <1>1 DEF Outs, Numbered
<1>5. Numbered(P, m2, k + 1)
  <2>1. \A j \in Outs(P, m2) : m2[j].roundReached \in 1..(k + 1)
    BY <1>1, <1>4
  <2>2. ASSUME NEW j \in 1..(k + 1)
        PROVE  \E x \in Outs(P, m2) : m2[x].roundReached = j
    <3>1. CASE j = k + 1
      BY <1>1, <3>1
    <3>2. CASE j # k + 1
      <4>1. j \in 1..k
        BY <3>2
      <4>2. PICK x \in Outs(P, m) : m[x].roundReached = j
        BY <4>1 DEF Numbered
      <4>. QED BY <1>1, <1>4, <4>2
    <3>. QED BY <3>1, <3>2
  <2>3. ASSUME NEW x \in Outs(P, m2), NEW y \in Outs(P, m2),
               m2[x].roundReached = m2[y].roundReached
        PROVE  x = y
    <3>1. CASE x = i \/ y = i
      BY <1>1, <1>4, <2>3, <3>1
    <3>2. CASE x # i /\ y # i
      BY <1>1, <1>4, <2>3, <3>2 DEF Numbered
    <3>. QED BY <3>1, <3>2
  <2>. QED BY <1>3, <2>1, <2>2, <2>3 DEF Numbered
<1>6. /\ OutOrder(P, m) \in Seq(Outs(P, m)) /\ Len(OutOrder(P, m)) = k
      /\ Range(OutOrder(P, m)) \subseteq Outs(P, m)
  BY OrderType
<1>7. /\ OutOrder(P, m2) \in Seq(Outs(P, m2)) /\ Len(OutOrder(P, m2)) = k + 1
  BY <1>5, OrderType
<1>8. OutOrder(P, m2) = Append(OutOrder(P, m), i)
  <2>. DEFINE s == OutOrder(P, m)
              t == OutOrder(P, m2)
              S == Outs(P, m2)
  <2>1. /\ s \in Seq(S) /\ Len(s) = k /\ i \in S /\ t \in Seq(S) /\ Len(t) = k + 1
    BY <1>1, <1>6, <1>7, SeqMonotonic
  <2>2. t[k + 1] = i
    BY <1>1, <1>5, OrderIs
  <2>3. ASSUME NEW j \in 1..k
        PROVE  t[j] = s[j]
    <3>1. PICK x \in Outs(P, m) : m[x].roundReached = j
      BY DEF Numbered
    <3>2. s[j] = x
      BY <3>1, OrderIs
    <3>3. x \in Outs(P, m2) /\ m2[x].roundReached = j
      BY <1>1, <1>4, <3>1
    <3>4. t[j] = x
      BY <1>5, <3>3, OrderIs
    <3>. QED BY <3>2, <3>4
  <2>. HIDE DEF s, t, S
  <2>4. t = Append(s, i)
    <3>1. /\ Append(s, i) \in Seq(S) /\ Len(Append(s, i)) = k + 1
          /\ Append(s, i)[k + 1] = i /\ \A j \in 1..k : Append(s, i)[j] = s[j]
      BY <2>1, AppendProperties
    <3>2. \A j \in 1..(k + 1) : t[j] = Append(s, i)[j]
      BY <2>2, <2>3, <3>1
    <3>. QED BY <2>1, <3>1, <3>2, SeqEqual
  <2>. QED BY <2>4 DEF s, t
<1>. QED BY <1>1, <1>5, <1>6, <1>8

(* At the start nobody is out.                                             *)
LEMMA NobodyOut ==
  ASSUME NEW P, NEW m, \A i \in P : m[i].isActive
  PROVE  Numbered(P, m, 0) /\ OutOrder(P, m) = <<>>
<1>1. Outs(P, m) = {}
  BY DEF Outs
<1>2. Cardinality(Outs(P, m)) = 0
  BY <1>1, FS_EmptySet
<1>3. OutOrder(P, m) = <<>>
  BY <1>2 DEF OutOrder
<1>. QED BY <1>1, <1>2, <1>3 DEF Numbered

-----------------------------------------------------------------------------
(* The ring implements the elimination.                                    *)

OutInv ==
  /\ Numbered(Players, mem, potato.round - 1)
  /\ potato.value = -1 <=> potato.round = n + 1
  /\ potato.value = -1 =>
       potato.winner \in Outs(Players, mem) /\ mem[potato.winner].roundReached = n
  /\ \A i \in Players : pc[i] \in {"last", "report", "gone"} => potato.value = -1
  /\ main.at # "gone" => main.winner = Nobody

GameInv == RingInv /\ CountInv /\ OutInv

(* The instance of Elimination has operators of its own.                   *)
LEMMA GameOperators ==
  /\ \A S : Game!Cardinality(S) = Cardinality(S)
  /\ \A f : Game!Range(f) = Range(f)
BY DEF Game!Cardinality, Cardinality, Game!IsFiniteSet, IsFiniteSet, Game!Range, Range

LEMMA OrderIsOutOrder == Order = OutOrder(Players, mem)
BY DEF Order, OutOrder, Out, Outs

LEMMA OutInit == Init => OutInv
<1>. SUFFICES ASSUME Init PROVE OutInv
  OBVIOUS
<1>1. \A i \in Players : mem[i].isActive
  BY DEF Init
<1>2. Numbered(Players, mem, 0)
  BY <1>1, NobodyOut
<1>3. potato.round - 1 = 0 /\ potato.value # -1 /\ potato.round # n + 1
  BY ArgumentTypes DEF Init
<1>. QED BY <1>2, <1>3 DEF Init, OutInv

(* What Explode makes of those that are out.                               *)
LEMMA ExplodeIs ==
  ASSUME GameInv, NEW i \in Players, mem[i].isActive, potato.value # -1,
         NEW new \in RandomValues, Explode(i, new)
  PROVE  /\ Numbered(Players, mem', potato'.round - 1)
         /\ OutOrder(Players, mem') = Append(OutOrder(Players, mem), i)
         /\ i \notin Range(OutOrder(Players, mem))
         /\ potato'.round = potato.round + 1
         /\ potato'.value = -1 <=> potato'.round = n + 1
         /\ potato'.value = -1 => /\ potato'.winner = i /\ ~ mem'[i].isActive
                                  /\ mem'[i].roundReached = n
<1>1. /\ potato.round \in 1..n /\ n \in Int /\ new \in Nat \ {0}
      /\ potato = [value |-> potato.value, round |-> potato.round,
                   winner |-> potato.winner]
  BY RandomTypes, ArgumentTypes DEF GameInv, RingInv, RoundInv, PotatoTypeOK
<1>2. /\ mem' = [mem EXCEPT ![i] = [isActive |-> FALSE, roundReached |-> potato.round]]
      /\ potato.round + 1 = n + 1 =>
           potato' = [value |-> -1, round |-> n + 1, winner |-> i]
      /\ potato.round + 1 # n + 1 =>
           potato' = [potato EXCEPT !.value = new, !.round = @ + 1]
  BY DEF Explode
<1>3. /\ ~ mem'[i].isActive /\ mem'[i].roundReached = potato.round
      /\ \A j \in Players \ {i} : mem'[j] = mem[j]
  BY <1>2 DEF GameInv, RingInv, PotatoTypeOK
<1>4. /\ potato'.round = potato.round + 1
      /\ potato'.value = IF potato.round = n THEN -1 ELSE new
      /\ potato.round = n => potato'.winner = i
  <2>1. CASE potato.round = n
    BY <1>1, <1>2, <2>1
  <2>2. CASE potato.round # n
    <3>1. potato' = [potato EXCEPT !.value = new, !.round = @ + 1]
      BY <1>1, <1>2, <2>2
    <3>. QED BY <1>1, <2>2, <3>1
  <2>. QED BY <2>1, <2>2
<1>. DEFINE k == potato.round - 1
            m2 == mem'
<1>5. k \in Nat /\ k + 1 = potato.round /\ potato'.round - 1 = k + 1
  BY <1>1, <1>4
<1>6. Numbered(Players, mem, k)
  BY DEF GameInv, OutInv
<1>7. ~ m2[i].isActive /\ m2[i].roundReached = k + 1
  BY <1>3, <1>5
<1>8. \A j \in Players \ {i} : m2[j] = mem[j]
  BY <1>3
<1>. HIDE DEF k, m2
<1>9. /\ Numbered(Players, m2, k + 1)
      /\ OutOrder(Players, m2) = Append(OutOrder(Players, mem), i)
      /\ i \notin Range(OutOrder(Players, mem))
  BY <1>5, <1>6, <1>7, <1>8, PlayersFinite, GoesOut
<1>10. potato'.value = -1 <=> potato'.round = n + 1
  BY <1>1, <1>4
<1>11. potato'.value = -1 => potato.round = n
  BY <1>1, <1>4
<1>. QED BY <1>3, <1>4, <1>5, <1>9, <1>10, <1>11 DEF m2

LEMMA OutNext ==
  ASSUME GameInv, [Next]_vars PROVE OutInv'
<1>. DEFINE Ended(x) == x \in {"last", "report", "gone"}
<1>1. ASSUME UNCHANGED <<potato, mem>>,
             \A i \in Players : Ended(pc'[i]) => Ended(pc[i]) \/ potato.value = -1,
             main'.at # "gone" => main'.winner = main.winner /\ main.at # "gone"
      PROVE  OutInv'
  BY <1>1 DEF GameInv, OutInv
<1>2. ASSUME NEW i \in Players, Wait(i) \/ SignalNext(i) \/ SignalFinished(i)
      PROVE  OutInv'
  <2>1. UNCHANGED <<potato, mem, main>>
    BY <1>2 DEF Wait, SignalNext, SignalFinished
  <2>2. \A j \in Players : Ended(pc'[j]) => Ended(pc[j])
    BY <1>2 DEF Wait, SignalNext, SignalFinished, Go, GameInv, RingInv, PotatoTypeOK
  <2>. QED BY <1>1, <2>1, <2>2
<1>3. ASSUME NEW i \in Players, Turn(i)
      PROVE  OutInv'
  <2>1. /\ main' = main
        /\ \A j \in Players : Ended(pc'[j]) => Ended(pc[j]) \/ potato.value = -1
    BY <1>3 DEF Turn, Go, GameInv, RingInv, PotatoTypeOK
  <2>2. CASE UNCHANGED <<potato, mem>>
    BY <1>1, <2>1, <2>2
  <2>3. CASE /\ potato.value # -1 /\ UNCHANGED mem
             /\ potato' = [potato EXCEPT !.value = play(@)]
    <3>1. play(potato.value) \in Nat \ {0}
      BY <2>3, PlayType DEF GameInv, RingInv, PotatoTypeOK
    <3>2. potato'.value # -1 /\ potato'.round = potato.round
      BY <2>3, <3>1 DEF GameInv, RingInv, PotatoTypeOK
    <3>. QED BY <2>1, <2>3, <3>2 DEF GameInv, OutInv
  <2>4. CASE /\ potato.value # -1 /\ mem[i].isActive
             /\ \E new \in RandomValues : Explode(i, new)
    <3>1. PICK new \in RandomValues : Explode(i, new)
      BY <2>4
    <3>2. /\ Numbered(Players, mem', potato'.round - 1)
          /\ potato'.value = -1 <=> potato'.round = n + 1
          /\ potato'.value = -1 => /\ potato'.winner = i /\ ~ mem'[i].isActive
                                   /\ mem'[i].roundReached = n
      BY <2>4, <3>1, ExplodeIs
    <3>3. potato'.value = -1 => potato'.winner \in Outs(Players, mem')
      BY <3>2 DEF Outs
    <3>4. \A j \in Players : ~ Ended(pc'[j])
      BY <2>1, <2>4 DEF GameInv, OutInv
    <3>. QED BY <2>1, <3>2, <3>3, <3>4 DEF GameInv, OutInv
  <2>. QED BY <1>3, <2>2, <2>3, <2>4 DEF Turn
<1>4. CASE Start \/ ForkPlayer \/ WaitFinished
  <2>1. UNCHANGED <<potato, mem>>
    BY <1>4 DEF Start, ForkPlayer, WaitFinished
  <2>2. \A j \in Players : Ended(pc'[j]) => Ended(pc[j])
    BY <1>4 DEF Start, ForkPlayer, WaitFinished, Go, GameInv, RingInv, PotatoTypeOK
  <2>3. main'.winner = main.winner /\ main.at # "gone"
    BY <1>4 DEF Start, ForkPlayer, WaitFinished, GameInv, RingInv, PotatoTypeOK
  <2>. QED BY <1>1, <2>1, <2>2, <2>3
<1>5. CASE Announce
  <2>1. UNCHANGED <<potato, mem, pc>> /\ main'.at = "gone"
    BY <1>5 DEF Announce, playerVars, GameInv, RingInv, PotatoTypeOK
  <2>. QED BY <1>1, <2>1
<1>6. CASE UNCHANGED vars
  BY <1>1, <1>6 DEF vars, playerVars
<1>. QED BY <1>2, <1>3, <1>4, <1>5, <1>6 DEF Next, mainProcess, potatoGame

LEMMA GameInvariant == Spec => []GameInv
<1>1. Init => GameInv
  BY RingInit, CountInit, OutInit DEF GameInv
<1>2. GameInv /\ [Next]_vars => GameInv'
  BY RingNext, CountNext, OutNext DEF GameInv
<1>. QED BY <1>1, <1>2, PTL DEF Spec

(* Initially nobody is out and nobody has left.                            *)
LEMMA GameInit == Init => Game!Init
<1>. SUFFICES ASSUME Init PROVE Game!Init
  OBVIOUS
<1>1. \A i \in Players : mem[i].isActive
  BY DEF Init
<1>2. OutOrder(Players, mem) = <<>>
  BY <1>1, NobodyOut
<1>. QED BY <1>2, OrderIsOutOrder DEF Init, Game!Init

(* Every step goes out, leaves, announces or changes none of these.        *)
LEMMA GameNext ==
  ASSUME GameInv, GameInv', [Next]_vars PROVE [Game!Next]_Game!vars
<1>. DEFINE left == {i \in Players : pc[i] = "gone"}
<1>0. Order = OutOrder(Players, mem) /\ Order' = OutOrder(Players, mem')
  BY OrderIsOutOrder DEF Order, OutOrder, Out, Outs
<1>1. ASSUME UNCHANGED <<mem, main>>, left' = left
      PROVE  UNCHANGED Game!vars
  BY <1>0, <1>1 DEF Game!vars
<1>2. /\ potato.round - 1 \in Nat
      /\ potato.value = -1 => potato.round - 1 = n
      /\ Numbered(Players, mem, potato.round - 1)
  <2>1. potato.round \in 1..(n + 1) /\ n \in Int
    BY ArgumentTypes DEF GameInv, RingInv, PotatoTypeOK
  <2>. QED BY <2>1 DEF GameInv, OutInv
<1>3. Len(Order) = potato.round - 1 /\ (potato.value = -1 => Game!AllOut)
  <2>. DEFINE k == potato.round - 1
  <2>1. k \in Nat /\ (potato.value = -1 => k = n) /\ Numbered(Players, mem, k)
    BY <1>2
  <2>. HIDE DEF k
  <2>2. Len(OutOrder(Players, mem)) = k
    BY <2>1, OrderType
  <2>. QED BY <1>0, <2>1, <2>2, PlayersFinite, GameOperators DEF Game!AllOut, k
<1>4. ASSUME NEW i \in Players, Wait(i) \/ SignalNext(i)
      PROVE  UNCHANGED Game!vars
  <2>1. UNCHANGED <<mem, main>> /\ left' = left
    BY <1>4 DEF Wait, SignalNext, Go, GameInv, RingInv, PotatoTypeOK
  <2>. QED BY <1>1, <2>1
<1>5. ASSUME NEW i \in Players, Turn(i)
      PROVE  Game!GoOut(i) \/ UNCHANGED Game!vars
  <2>1. main' = main /\ left' = left
    BY <1>5 DEF Turn, Go, GameInv, RingInv, PotatoTypeOK
  <2>2. CASE UNCHANGED mem
    BY <1>1, <2>1, <2>2
  <2>3. CASE /\ potato.value # -1 /\ mem[i].isActive
             /\ \E new \in RandomValues : Explode(i, new)
    <3>1. PICK new \in RandomValues : Explode(i, new)
      BY <2>3
    <3>2. /\ OutOrder(Players, mem') = Append(OutOrder(Players, mem), i)
          /\ i \notin Range(OutOrder(Players, mem))
      BY <2>3, <3>1, ExplodeIs
    <3>. QED BY <1>0, <2>1, <3>2 DEF Game!GoOut, Game!Range, Range
  <2>. QED BY <1>5, <2>2, <2>3 DEF Turn
<1>6. ASSUME NEW i \in Players, SignalFinished(i)
      PROVE  Game!Leave(i)
  <2>1. UNCHANGED <<mem, main>> /\ i \notin left /\ left' = left \union {i}
    BY <1>6 DEF SignalFinished, Go, GameInv, RingInv, PotatoTypeOK
  <2>2. potato.value = -1
    BY <1>6 DEF SignalFinished, Go, GameInv, OutInv
  <2>. QED BY <1>0, <1>3, <2>1, <2>2 DEF Game!Leave
<1>7. CASE Start \/ ForkPlayer \/ WaitFinished
  <2>1. mem' = mem /\ left' = left
    BY <1>7 DEF Start, ForkPlayer, WaitFinished, Go, GameInv, RingInv, PotatoTypeOK
  <2>2. main'.winner = main.winner
    BY <1>7 DEF Start, ForkPlayer, WaitFinished, GameInv, RingInv, PotatoTypeOK
  <2>. QED BY <1>0, <2>1, <2>2 DEF Game!vars
<1>8. CASE Announce
  <2>1. mem' = mem /\ left' = left /\ main.at = "announce"
    BY <1>8 DEF Announce, playerVars
  <2>2. main'.winner = potato.winner
    BY <1>8 DEF Announce, GameInv, RingInv, PotatoTypeOK
  <2>3. left = Players /\ main.winner = Nobody
    BY <2>1 DEF GameInv, CountInv, OutInv, Gone
  <2>4. potato.value = -1
    BY <2>3, ArgumentTypes DEF GameInv, OutInv, Players
  <2>5. potato.winner \in Outs(Players, mem) /\ mem[potato.winner].roundReached = n
    BY <2>4 DEF GameInv, OutInv
  <2>6. OutOrder(Players, mem)[n] = potato.winner
    <3>. DEFINE w == potato.winner
    <3>1. n \in Nat /\ Numbered(Players, mem, n)
      BY <1>2, <2>4
    <3>2. w \in Outs(Players, mem) /\ mem[w].roundReached = n
      BY <2>5
    <3>. HIDE DEF w
    <3>3. OutOrder(Players, mem)[mem[w].roundReached] = w
      BY <3>1, <3>2, OrderIs
    <3>. QED BY <3>2, <3>3 DEF w
  <2>7. Len(Order) = n /\ Game!AllOut
    BY <1>2, <1>3, <2>4
  <2>8. main'.winner = Order[Len(Order)] /\ Order' = Order
    BY <1>0, <2>1, <2>2, <2>6, <2>7
  <2>. QED BY <2>1, <2>3, <2>7, <2>8 DEF Game!Announce, Game!Next
<1>9. CASE UNCHANGED vars
  <2>1. UNCHANGED <<mem, main>> /\ left' = left
    BY <1>9 DEF vars, playerVars
  <2>. QED BY <1>1, <2>1
<1>. QED
  BY <1>4, <1>5, <1>6, <1>7, <1>8, <1>9
     DEF Next, mainProcess, potatoGame, Game!Next

-----------------------------------------------------------------------------
(* The mail.                                                               *)

(* The player i went out last.                                             *)
WonBy(m, i) == i \in Outs(Mail!Players, m) /\ m[i].roundReached = n

(* A potato that is not an old copy: its round is that of the game.        *)
Current(m, q) ==
  /\ q \in Mail!Potatoes
  /\ Numbered(Mail!Players, m, q.round - 1)
  /\ q.value = -1 <=> q.round = n + 1
  /\ q.value = -1 => WonBy(m, q.winner)

(* The potato that travels is the current one.                             *)
MailToken ==
  /\ \A i \in Mail!Players : Mail!Holds(i) => Current(mailMem, copies[i])
  /\ \A i \in Mail!Players : mail[i] # <<>> => Current(mailMem, mail[i][1])
  /\ mailMain.at = "start" => Current(mailMem, copies[0])

(* What main does before the players run.                                  *)
MailStart ==
  /\ mailMain.at = "start" =>
       \A i \in Mail!Players : mail[i] = <<>> /\ mailPc[i] = "unborn"
  /\ mailMain.at = "fork" =>
       /\ mailMain.count >= 1
       /\ \A i \in Mail!Players : i >= mailMain.count => mailPc[i] = "unborn"
  /\ mailMain.at = "failed" => \E i \in Mail!Players : mailPc[i] = "unborn"

MailGone == {i \in Mail!Players : mailPc[i] = "gone"}

Winning == \E i \in Mail!Players : mailPc[i] = "win"

(* All are out, and the winner has told main.                              *)
Told == Numbered(Mail!Players, mailMem, n) /\ ~ Winning

(* Players leave when the winner has told main.                            *)
MailLast ==
  /\ \A i \in Mail!Players :
       mailPc[i] \in {"last", "report", "gone"} => Told
  /\ \A i \in Mail!Players : mailPc[i] = "win" => copies[i].value = -1

AllBlank(seq, from) == \A k \in from..Len(seq) : seq[k] = Mail!Blank

(* In main's queue the potato of the winner is first, and there is one     *)
(* blank message of each player that has left and is not counted yet.      *)
MailBox ==
  /\ ~ Told => mailFinished = <<>>
  /\ mailMain.at \in {"wait", "announce", "gone"} =>
       Told /\ WonBy(mailMem, copies[0].winner)
  /\ Told /\ mailMain.at \in {"start", "fork", "winner", "failed"} =>
       /\ Len(mailFinished) = 1 + Cardinality(MailGone)
       /\ mailFinished[1] \in Mail!Potatoes /\ WonBy(mailMem, mailFinished[1].winner)
       /\ AllBlank(mailFinished, 2)
  /\ mailMain.at = "wait" =>
       /\ Len(mailFinished) + mailMain.count = Cardinality(MailGone)
       /\ AllBlank(mailFinished, 1)
  /\ mailMain.at \in {"announce", "gone"} => MailGone = Mail!Players
  /\ mailMain.at # "gone" => mailMain.winner = Mail!Nobody

MailInv ==
  /\ Mail!MailTypeOK /\ Mail!OneToken /\ MailStart
  /\ MailToken /\ MailLast /\ MailBox

LEMMA MailArguments ==
  /\ n \in Nat \ {0} /\ v \in Nat \ {0} /\ r \in Int
  /\ 0 \notin Mail!Players /\ IsFiniteSet(Mail!Players) /\ Cardinality(Mail!Players) = n
  /\ Mail!Players \subseteq Nat
<1>1. n \in Int /\ v \in Int /\ r \in Int /\ n > 0 /\ v > 0
  BY ArgumentTypes
<1>2. IsFiniteSet(1..n) /\ Cardinality(1..n) = n
  BY <1>1, FS_Interval
<1>. QED BY <1>1, <1>2 DEF Mail!Players

(* setPlayer of the mail gives a player whatever r is.                     *)
LEMMA MailNextPlayerType ==
  ASSUME NEW i \in Mail!Players PROVE Mail!nextPlayer(i) \in Mail!Players
PROOF BY MailArguments DEF Mail!Players, Mail!nextPlayer

LEMMA MailPlayType ==
  ASSUME NEW x \in Nat \ {0} PROVE Mail!play(x) \in Nat \ {0}
<1>1. Mail!play(x) = play(x)
  BY DEF Mail!play, play
<1>. QED BY <1>1, PlayType

LEMMA PotatoFields ==
  ASSUME NEW q \in Mail!Potatoes
  PROVE  /\ q.value \in (Nat \ {0}) \union {-1} /\ q.round \in 1..(n + 1)
         /\ q.winner \in Mail!Players \union {Mail!Nobody} /\ q # Mail!Blank
         /\ q = [value |-> q.value, round |-> q.round, winner |-> q.winner]
<1>1. /\ q.value \in (Nat \ {0}) \union {-1} /\ q.round \in 1..(n + 1)
      /\ q.winner \in Mail!Players \union {Mail!Nobody}
      /\ q = [value |-> q.value, round |-> q.round, winner |-> q.winner]
  BY DEF Mail!Potatoes
<1>2. "value" \in DOMAIN q
  BY <1>1
<1>3. "value" \notin DOMAIN Mail!Blank
  BY DEF Mail!Blank
<1>. QED BY <1>1, <1>2, <1>3

LEMMA PotatoChanged ==
  ASSUME NEW q \in Mail!Potatoes, NEW x, NEW y
  PROVE  [q EXCEPT !.value = x, !.round = y] =
           [value |-> x, round |-> y, winner |-> q.winner]
<1>. DEFINE z == [q EXCEPT !.value = x, !.round = y]
            Values == ((Nat \ {0}) \union {-1}) \union {x}
            Rounds == (1..(n + 1)) \union {y}
            Winners == Mail!Players \union {Mail!Nobody}
<1>1. q \in [value : Values, round : Rounds, winner : Winners]
  BY DEF Mail!Potatoes
<1>2. x \in Values /\ y \in Rounds
  OBVIOUS
<1>. HIDE DEF Values, Rounds, Winners
<1>3. /\ z \in [value : Values, round : Rounds, winner : Winners]
      /\ z.value = x /\ z.round = y /\ z.winner = q.winner
  BY <1>1, <1>2
<1>. HIDE DEF z
<1>4. z = [value |-> x, round |-> y, winner |-> q.winner]
  BY <1>3
<1>. QED BY <1>4 DEF z

LEMMA MailGoneFinite ==
  /\ IsFiniteSet(MailGone) /\ Cardinality(MailGone) \in Nat
  /\ Cardinality(MailGone) <= n
  /\ Cardinality(MailGone) = n => MailGone = Mail!Players
<1>1. MailGone \in SUBSET Mail!Players
  BY DEF MailGone
<1>. QED BY <1>1, MailArguments, FS_Subset, FS_CardinalityType

LEMMA MailInit == Mail!Init => MailInv
<1>. SUFFICES ASSUME Mail!Init PROVE MailInv
  OBVIOUS
<1>. DEFINE q == [value |-> v, round |-> 1, winner |-> Mail!Nobody]
<1>1. /\ mail = [i \in Mail!Players |-> <<>>] /\ mailFinished = <<>>
      /\ copies = [i \in {0} \union Mail!Players |-> q]
      /\ mailMem = [i \in Mail!Players |-> [isActive |-> TRUE, roundReached |-> 0]]
      /\ mailPc = [i \in Mail!Players |-> "unborn"]
      /\ mailMain = [at |-> "start", count |-> 0, winner |-> Mail!Nobody]
  BY DEF Mail!Init
<1>2. q \in Mail!Potatoes
  BY MailArguments DEF Mail!Potatoes
<1>3. q.round - 1 = 0 /\ q.value # -1 /\ q.round # n + 1
  BY MailArguments
<1>. HIDE DEF q
<1>4. Numbered(Mail!Players, mailMem, 0)
  BY <1>1, NobodyOut
<1>5. Current(mailMem, q)
  BY <1>2, <1>3, <1>4 DEF Current
<1>6. ~ Told
  <2>1. Cardinality(Outs(Mail!Players, mailMem)) = 0
    BY <1>4 DEF Numbered
  <2>. QED BY <2>1, MailArguments DEF Told, Numbered
<1>7. Mail!MailTypeOK
  <2>1. copies \in [{0} \union Mail!Players -> Mail!Potatoes]
    BY <1>1, <1>2
  <2>2. mailMem \in [Mail!Players -> [isActive : BOOLEAN, roundReached : 0..n]]
    BY <1>1, MailArguments
  <2>3. mailFinished \in Seq(Mail!Potatoes \union {Mail!Blank})
    BY <1>1
  <2>4. mail \in [Mail!Players -> Seq(Mail!Potatoes)]
    BY <1>1
  <2>. QED BY <1>1, <2>1, <2>2, <2>3, <2>4, MailArguments DEF Mail!MailTypeOK
<1>8. Mail!OneToken
  BY <1>1 DEF Mail!OneToken, Mail!Holds
<1>9. MailStart /\ MailLast
  BY <1>1 DEF MailStart, MailLast
<1>10. MailToken
  BY <1>1, <1>5 DEF MailToken, Mail!Holds
<1>11. MailBox
  BY <1>1, <1>6 DEF MailBox
<1>. QED BY <1>7, <1>8, <1>9, <1>10, <1>11 DEF MailInv

(* What main's queue means depends on these alone.                         *)
LEMMA MailBoxSame ==
  ASSUME MailBox, UNCHANGED <<mailFinished, mailMain, mailMem>>,
         copies'[0] = copies[0], MailGone' = MailGone, Winning' <=> Winning
  PROVE  MailBox' /\ (Told' <=> Told)
<1>1. Told' <=> Told
  BY DEF Told
<1>2. MailBox'
  BY <1>1 DEF MailBox
<1>. QED BY <1>1, <1>2

(* A queue with one message.                                               *)
LEMMA OneMessage ==
  ASSUME NEW S, NEW s \in Seq(S), s # <<>>, Len(s) <= 1
  PROVE  Len(s) = 1 /\ s[1] \in S /\ Head(s) = s[1] /\ Tail(s) = <<>>
<1>1. Len(s) \in Nat \ {0}
  BY EmptySeq
<1>2. Len(s) = 1 /\ s[1] \in S
  <2>1. Len(s) = 1
    BY <1>1
  <2>. QED BY <2>1, ElementOfSeq
<1>3. Head(s) = s[1] /\ Len(Tail(s)) = 0 /\ Tail(s) \in Seq(S)
  BY <1>2, HeadTailProperties
<1>. QED BY <1>2, <1>3, EmptySeq

LEMMA receiveKeeps ==
  ASSUME MailInv, NEW i \in Mail!Players, Mail!receivePotato(i) PROVE MailInv'
<1>1. /\ mailPc[i] = "wait" /\ mailPc' = [mailPc EXCEPT ![i] = "turn"]
      /\ mail[i] # <<>> /\ copies' = [copies EXCEPT ![i] = Head(mail[i])]
      /\ mail' = [mail EXCEPT ![i] = Tail(@)]
      /\ UNCHANGED <<mailFinished, mailMem, mailMain>>
  BY DEF Mail!receivePotato, Mail!Go
<1>2. /\ Mail!MailTypeOK /\ Mail!OneToken /\ MailStart
      /\ MailToken /\ MailLast /\ MailBox
  BY DEF MailInv
<1>3. mail[i] \in Seq(Mail!Potatoes) /\ Len(mail[i]) <= 1
  BY <1>2 DEF Mail!MailTypeOK, Mail!OneToken
<1>4. /\ mail[i][1] \in Mail!Potatoes /\ Head(mail[i]) = mail[i][1]
      /\ Tail(mail[i]) = <<>> /\ <<>> \in Seq(Mail!Potatoes) /\ Len(<<>>) = 0
  <2>. DEFINE s == mail[i]
  <2>1. s \in Seq(Mail!Potatoes) /\ Len(s) <= 1 /\ s # <<>>
    BY <1>1, <1>3
  <2>. HIDE DEF s
  <2>2. s[1] \in Mail!Potatoes /\ Head(s) = s[1] /\ Tail(s) = <<>>
    BY <2>1, OneMessage
  <2>. QED BY <2>2, EmptySeq DEF s
<1>5. Mail!MailTypeOK'
  <2>1. Tail(mail[i]) \in Seq(Mail!Potatoes)
    BY <1>4
  <2>. QED BY <1>1, <1>2, <1>4, <2>1 DEF Mail!MailTypeOK
<1>6. /\ \A j \in Mail!Players : Mail!Holds(j)' <=> Mail!Holds(j) \/ j = i
      /\ \A j \in Mail!Players : mail'[j] = IF j = i THEN <<>> ELSE mail[j]
      /\ \A j \in Mail!Players : copies'[j] = IF j = i THEN mail[i][1] ELSE copies[j]
      /\ copies'[0] = copies[0]
      /\ \A j \in Mail!Players : mailPc'[j] = IF j = i THEN "turn" ELSE mailPc[j]
  BY <1>1, <1>2, <1>4, MailArguments DEF Mail!MailTypeOK, Mail!Holds
<1>7. \A j \in Mail!Players : ~ Mail!Holds(j) /\ (j # i => mail[j] = <<>>)
  BY <1>1, <1>2 DEF Mail!OneToken
<1>8. Mail!OneToken'
  <2>1. \A j \in Mail!Players : mail'[j] = <<>> /\ (Mail!Holds(j)' => j = i)
    BY <1>6, <1>7
  <2>2. Mail!Holds(i)'
    BY <1>6
  <2>. QED BY <1>4, <2>1, <2>2 DEF Mail!OneToken
<1>9. MailStart'
  BY <1>1, <1>2, <1>6 DEF MailStart
<1>10. MailToken'
  BY <1>1, <1>2, <1>6, <1>7 DEF MailToken
<1>11. MailGone' = MailGone /\ (Winning' <=> Winning)
  BY <1>1, <1>6 DEF MailGone, Winning
<1>12. MailBox' /\ (Told' <=> Told)
  BY <1>1, <1>2, <1>6, <1>11, MailBoxSame
<1>13. MailLast'
  BY <1>1, <1>2, <1>6, <1>12 DEF MailLast
<1>. QED BY <1>5, <1>8, <1>9, <1>10, <1>12, <1>13 DEF MailInv

(* A player with the potato in its hands is not the only one to have it if *)
(* it is not the current one.                                              *)
LEMMA HolderIs ==
  ASSUME MailInv, NEW i \in Mail!Players, Mail!Holds(i)
  PROVE  /\ Current(mailMem, copies[i]) /\ copies[i] \in Mail!Potatoes
         /\ \A j \in Mail!Players : mail[j] = <<>> /\ (Mail!Holds(j) => j = i)
         /\ mailMain.at # "start"
<1>1. Mail!OneToken /\ MailToken /\ MailStart
  BY DEF MailInv
<1>2. Current(mailMem, copies[i]) /\ copies[i] \in Mail!Potatoes
  BY <1>1 DEF MailToken, Current
<1>3. \A j \in Mail!Players : mail[j] = <<>> /\ (Mail!Holds(j) => j = i)
  BY <1>1 DEF Mail!OneToken
<1>4. mailMain.at # "start"
  BY <1>1 DEF MailStart, Mail!Holds
<1>. QED BY <1>2, <1>3, <1>4

LEMMA sendKeeps ==
  ASSUME MailInv, NEW i \in Mail!Players, Mail!sendPotato(i) PROVE MailInv'
<1>. DEFINE next == Mail!nextPlayer(i)
            to == IF mailPc[i] = "pass" THEN "wait" ELSE "report"
            q == copies[i]
<1>0. next \in Mail!Players
  BY MailNextPlayerType
<1>. HIDE DEF next
<1>1. /\ mailPc[i] \in {"pass", "last"} /\ mailPc' = [mailPc EXCEPT ![i] = to]
      /\ mail' = [mail EXCEPT ![next] = Append(@, q)]
      /\ UNCHANGED <<mailFinished, copies, mailMem, mailMain>>
  BY DEF Mail!sendPotato, Mail!Go, next
<1>2. /\ Mail!MailTypeOK /\ Mail!OneToken /\ MailStart
      /\ MailToken /\ MailLast /\ MailBox
  BY DEF MailInv
<1>3. Mail!Holds(i)
  BY <1>1 DEF Mail!Holds
<1>4. /\ Current(mailMem, q) /\ q \in Mail!Potatoes /\ mailMain.at # "start"
      /\ \A j \in Mail!Players : mail[j] = <<>> /\ (Mail!Holds(j) => j = i)
  BY <1>3, HolderIs
<1>. DEFINE one == <<q>>
<1>5. /\ Append(<<>>, q) = one /\ one \in Seq(Mail!Potatoes)
      /\ Len(one) = 1 /\ one[1] = q /\ one # <<>>
  BY <1>4
<1>. HIDE DEF q, one
<1>6. /\ \A j \in Mail!Players : mail'[j] = IF j = next THEN one ELSE <<>>
      /\ \A j \in Mail!Players : mailPc'[j] = IF j = i THEN to ELSE mailPc[j]
      /\ \A j \in Mail!Players : ~ Mail!Holds(j)'
  BY <1>0, <1>1, <1>2, <1>4, <1>5 DEF Mail!MailTypeOK, Mail!Holds
<1>7. Mail!MailTypeOK'
  <2>1. mail' \in [Mail!Players -> Seq(Mail!Potatoes)]
    BY <1>0, <1>1, <1>2, <1>4, <1>5 DEF Mail!MailTypeOK
  <2>. QED BY <1>1, <1>2, <2>1 DEF Mail!MailTypeOK
<1>8. Mail!OneToken'
  <2>1. \A j \in Mail!Players : Len(mail'[j]) <= 1 /\ (mail'[j] # <<>> => j = next)
    <3>1. Len(<<>>) = 0
      BY EmptySeq
    <3>2. ASSUME NEW j \in Mail!Players
          PROVE  Len(mail'[j]) <= 1 /\ (mail'[j] # <<>> => j = next)
      <4>1. CASE j = next
        <5>1. mail'[j] = one
          BY <1>6, <4>1
        <5>2. Len(mail'[j]) = 1
          BY <1>5, <5>1
        <5>. QED BY <4>1, <5>2
      <4>2. CASE j # next
        <5>1. mail'[j] = <<>>
          BY <1>6, <4>2
        <5>. QED BY <3>1, <5>1
      <4>. QED BY <4>1, <4>2
    <3>. QED BY <3>2
  <2>2. mail'[next] # <<>>
    BY <1>0, <1>5, <1>6
  <2>. QED BY <1>0, <1>6, <2>1, <2>2 DEF Mail!OneToken
<1>9. MailStart'
  BY <1>1, <1>2, <1>4, <1>6 DEF MailStart
<1>10. MailToken'
  BY <1>1, <1>2, <1>4, <1>5, <1>6 DEF MailToken
<1>11. MailGone' = MailGone /\ (Winning' <=> Winning)
  BY <1>1, <1>6 DEF MailGone, Winning
<1>12. MailBox' /\ (Told' <=> Told)
  BY <1>1, <1>2, <1>11, MailBoxSame
<1>13. MailLast'
  BY <1>1, <1>2, <1>6, <1>12 DEF MailLast
<1>. QED BY <1>7, <1>8, <1>9, <1>10, <1>12, <1>13 DEF MailInv

(* The turn of player i, which holds the potato, leaves the queues alone.  *)
LEMMA turnKeeps ==
  ASSUME MailInv, NEW i \in Mail!Players, Mail!Turn(i) PROVE MailInv'
<1>. DEFINE q == copies[i]
<1>1. /\ mailPc[i] = "turn" /\ UNCHANGED <<mail, mailFinished, mailMain>>
      /\ \/ /\ q.value = -1 /\ mailPc' = [mailPc EXCEPT ![i] = "last"]
            /\ UNCHANGED <<copies, mailMem>>
         \/ /\ mailPc' = [mailPc EXCEPT ![i] = "pass"]
            /\ UNCHANGED <<copies, mailMem>>
         \/ /\ q.value # -1 /\ mailMem[i].isActive
            /\ \E new \in RandomValues : Mail!Explode(i, new)
         \/ /\ q.value # -1 /\ UNCHANGED mailMem
            /\ mailPc' = [mailPc EXCEPT ![i] = "pass"]
            /\ copies' = [copies EXCEPT ![i].value = Mail!play(@)]
  <2>1. mailPc[i] = "turn"
    BY DEF Mail!Turn, Mail!Go, Mail!Explode
  <2>2. UNCHANGED <<mail, mailFinished, mailMain>>
    BY DEF Mail!Turn
  <2>3. CASE q.value = -1 /\ Mail!Go(i, "turn", "last") /\ UNCHANGED <<copies, mailMem>>
    BY <2>1, <2>2, <2>3 DEF Mail!Go
  <2>4. CASE Mail!Go(i, "turn", "pass") /\ UNCHANGED <<copies, mailMem>>
    BY <2>1, <2>2, <2>4 DEF Mail!Go
  <2>5. CASE /\ q.value # -1 /\ mailMem[i].isActive
             /\ \E new \in RandomValues : Mail!Explode(i, new)
    BY <2>1, <2>2, <2>5
  <2>6. CASE /\ q.value # -1 /\ UNCHANGED mailMem /\ Mail!Go(i, "turn", "pass")
             /\ copies' = [copies EXCEPT ![i].value = Mail!play(@)]
    BY <2>1, <2>2, <2>6 DEF Mail!Go
  <2>. HIDE DEF q
  <2>7. \/ q.value = -1 /\ Mail!Go(i, "turn", "last") /\ UNCHANGED <<copies, mailMem>>
        \/ Mail!Go(i, "turn", "pass") /\ UNCHANGED <<copies, mailMem>>
        \/ /\ q.value # -1 /\ mailMem[i].isActive
           /\ \E new \in RandomValues : Mail!Explode(i, new)
        \/ /\ q.value # -1 /\ UNCHANGED mailMem /\ Mail!Go(i, "turn", "pass")
           /\ copies' = [copies EXCEPT ![i].value = Mail!play(@)]
    BY DEF Mail!Turn, q
  <2>. QED BY <2>3, <2>4, <2>5, <2>6, <2>7
<1>2. /\ Mail!MailTypeOK /\ Mail!OneToken /\ MailStart
      /\ MailToken /\ MailLast /\ MailBox
  BY DEF MailInv
<1>3. Mail!Holds(i)
  BY <1>1 DEF Mail!Holds
<1>4. /\ Current(mailMem, q) /\ q \in Mail!Potatoes /\ mailMain.at # "start"
      /\ \A j \in Mail!Players : mail[j] = <<>> /\ (Mail!Holds(j) => j = i)
  BY <1>3, HolderIs
<1>5. /\ q.value \in (Nat \ {0}) \union {-1} /\ q.round \in 1..(n + 1)
      /\ q = [value |-> q.value, round |-> q.round, winner |-> q.winner]
  BY <1>4, PotatoFields
<1>. HIDE DEF q
<1>6. ASSUME NEW to \in {"last", "pass", "win"}, NEW w \in Mail!Potatoes,
             mailPc' = [mailPc EXCEPT ![i] = to], copies' = [copies EXCEPT ![i] = w],
             mailMem' \in [Mail!Players -> [isActive : BOOLEAN, roundReached : 0..n]],
             Current(mailMem', w),
             to = "last" => Told', to = "win" => w.value = -1,
             Told' => Told /\ UNCHANGED mailMem, Told => Told'
      PROVE  MailInv'
  <2>1. /\ \A j \in Mail!Players : mailPc'[j] = IF j = i THEN to ELSE mailPc[j]
        /\ \A j \in Mail!Players : copies'[j] = IF j = i THEN w ELSE copies[j]
        /\ copies'[0] = copies[0]
        /\ \A j \in Mail!Players : Mail!Holds(j)' <=> j = i
    BY <1>2, <1>3, <1>4, <1>6, MailArguments DEF Mail!MailTypeOK, Mail!Holds
  <2>2. Mail!MailTypeOK'
    BY <1>1, <1>2, <1>6 DEF Mail!MailTypeOK
  <2>3. Mail!OneToken'
    BY <1>1, <1>2, <1>4, <2>1 DEF Mail!OneToken
  <2>4. MailStart'
    BY <1>1, <1>2, <1>4, <2>1 DEF MailStart
  <2>5. MailToken'
    BY <1>1, <1>4, <1>6, <2>1 DEF MailToken
  <2>6. MailGone' = MailGone
    BY <1>1, <2>1 DEF MailGone
  <2>7. MailLast'
    BY <1>1, <1>2, <1>6, <2>1 DEF MailLast
  <2>8. MailBox'
    BY <1>1, <1>2, <1>6, <2>1, <2>6 DEF MailBox
  <2>. QED BY <2>2, <2>3, <2>4, <2>5, <2>7, <2>8 DEF MailInv
<1>7. q.value = -1 => Told
  <2>1. q.value = -1 => q.round - 1 = n
    BY <1>4, MailArguments DEF Current
  <2>2. ~ Winning
    BY <1>1, <1>4 DEF Winning, Mail!Holds
  <2>. QED BY <1>4, <2>1, <2>2 DEF Told, Current
<1>8. q.value # -1 => ~ Numbered(Mail!Players, mailMem, n)
  BY <1>4, <1>5, MailArguments DEF Current, Numbered
<1>9. copies \in [{0} \union Mail!Players -> Mail!Potatoes] /\ i \in {0} \union Mail!Players
  BY <1>2 DEF Mail!MailTypeOK
<1>10. [copies EXCEPT ![i] = q] = copies
  BY <1>9 DEF q
<1>11. /\ mailMem \in [Mail!Players -> [isActive : BOOLEAN, roundReached : 0..n]]
       /\ mailPc \in [Mail!Players -> {"unborn", "wait", "turn", "win", "pass", "last",
                                       "report", "gone"}]
  BY <1>2 DEF Mail!MailTypeOK
<1>12. ASSUME NEW to \in {"last", "pass"}, mailPc' = [mailPc EXCEPT ![i] = to]
       PROVE  Winning' <=> Winning
  BY <1>1, <1>11, <1>12 DEF Winning
<1>13. CASE /\ UNCHANGED <<copies, mailMem>>
            /\ \/ q.value = -1 /\ mailPc' = [mailPc EXCEPT ![i] = "last"]
               \/ mailPc' = [mailPc EXCEPT ![i] = "pass"]
  <2>1. Told' <=> Told
    BY <1>12, <1>13 DEF Told
  <2>2. CASE q.value = -1 /\ mailPc' = [mailPc EXCEPT ![i] = "last"]
    BY <1>4, <1>6, <1>7, <1>10, <1>11, <1>13, <2>1, <2>2
  <2>3. CASE mailPc' = [mailPc EXCEPT ![i] = "pass"]
    BY <1>4, <1>6, <1>10, <1>11, <1>13, <2>1, <2>3
  <2>. QED BY <1>13, <2>2, <2>3
<1>14. CASE /\ q.value # -1 /\ UNCHANGED mailMem
            /\ mailPc' = [mailPc EXCEPT ![i] = "pass"]
            /\ copies' = [copies EXCEPT ![i].value = Mail!play(@)]
  <2>. DEFINE w == [q EXCEPT !.value = Mail!play(@)]
  <2>1. copies' = [copies EXCEPT ![i] = w]
    BY <1>14 DEF q
  <2>2. Mail!play(q.value) \in Nat \ {0}
    BY <1>5, <1>14, MailPlayType
  <2>3. /\ w.value # -1 /\ w.round = q.round /\ w \in Mail!Potatoes
    BY <1>4, <1>5, <2>2 DEF Mail!Potatoes
  <2>4. Current(mailMem', w)
    BY <1>4, <1>14, <2>3 DEF Current
  <2>5. Told' <=> Told
    BY <1>12, <1>14 DEF Told
  <2>. HIDE DEF w
  <2>. QED BY <1>6, <1>11, <1>14, <2>1, <2>3, <2>4, <2>5
<1>15. CASE /\ q.value # -1 /\ mailMem[i].isActive
            /\ \E new \in RandomValues : Mail!Explode(i, new)
  <2>1. PICK new \in RandomValues : Mail!Explode(i, new)
    BY <1>15
  <2>. DEFINE last == q.round + 1 = n + 1
              m2 == mailMem'
              k == q.round - 1
              to == IF last THEN "win" ELSE "pass"
              w == IF last THEN [value |-> -1, round |-> n + 1, winner |-> i]
                   ELSE [value |-> new, round |-> q.round + 1, winner |-> q.winner]
  <2>2. /\ m2 = [mailMem EXCEPT ![i] = [isActive |-> FALSE, roundReached |-> q.round]]
        /\ mailPc' = [mailPc EXCEPT ![i] = to]
    BY <2>1 DEF Mail!Explode, Mail!Go, q
  <2>3. copies' = [copies EXCEPT ![i] = w]
    <3>1. CASE last
      BY <2>1, <3>1 DEF Mail!Explode, q
    <3>2. CASE ~ last
      <4>1. copies' = [copies EXCEPT ![i].value = new, ![i].round = @ + 1]
        BY <2>1, <3>2 DEF Mail!Explode, q
      <4>2. copies' = [copies EXCEPT ![i] = [q EXCEPT !.value = new, !.round = @ + 1]]
        BY <1>9, <4>1 DEF q
      <4>3. [q EXCEPT !.value = new, !.round = @ + 1] = w
        <5>1. q \in Mail!Potatoes
          BY <1>4
        <5>2. w = [value |-> new, round |-> q.round + 1, winner |-> q.winner]
          BY <3>2
        <5>. HIDE DEF w
        <5>. QED BY <5>1, <5>2, PotatoChanged
      <4>. QED BY <4>2, <4>3
    <3>. QED BY <3>1, <3>2
  <2>4. new \in Nat \ {0}
    BY RandomTypes
  <2>5. q.round \in 1..n /\ n \in Nat \ {0} /\ k \in Nat /\ k + 1 = q.round
    BY <1>4, <1>5, <1>15, MailArguments DEF Current
  <2>6. w \in Mail!Potatoes /\ w.round - 1 = k + 1 /\ (w.value = -1 <=> last)
        /\ (w.round = n + 1 <=> last) /\ (last => w.winner = i)
    <3>1. q.winner \in Mail!Players \union {Mail!Nobody}
      BY <1>4, PotatoFields
    <3>2. CASE last
      BY <2>5, <3>2 DEF Mail!Potatoes
    <3>3. CASE ~ last
      BY <2>4, <2>5, <3>1, <3>3 DEF Mail!Potatoes
    <3>. QED BY <3>2, <3>3
  <2>7. /\ ~ m2[i].isActive /\ m2[i].roundReached = k + 1
        /\ \A j \in Mail!Players \ {i} : m2[j] = mailMem[j]
        /\ m2 \in [Mail!Players -> [isActive : BOOLEAN, roundReached : 0..n]]
    BY <1>11, <2>2, <2>5
  <2>8. Numbered(Mail!Players, mailMem, k)
    BY <1>4 DEF Current
  <2>. HIDE DEF k, m2
  <2>9. Numbered(Mail!Players, m2, k + 1)
    BY <1>15, <2>5, <2>7, <2>8, MailArguments, GoesOut
  <2>. HIDE DEF w
  <2>10. Current(m2, w)
    <3>1. last => WonBy(m2, i)
      BY <2>5, <2>7 DEF WonBy, Outs
    <3>2. Numbered(Mail!Players, m2, w.round - 1)
      BY <2>6, <2>9
    <3>. QED BY <2>6, <3>1, <3>2 DEF Current
  <2>11. ~ Told'
    <3>1. CASE last
      <4>1. mailPc'[i] = "win"
        BY <1>11, <2>2, <3>1
      <4>. QED BY <4>1 DEF Told, Winning
    <3>2. CASE ~ last
      <4>1. Cardinality(Outs(Mail!Players, m2)) # n
        BY <2>5, <2>9, <3>2 DEF Numbered
      <4>. QED BY <4>1 DEF Told, Numbered, m2
    <3>. QED BY <3>1, <3>2
  <2>12. ~ Told
    BY <1>8, <1>15 DEF Told
  <2>13. to \in {"last", "pass", "win"} /\ to # "last" /\ (to = "win" => w.value = -1)
    BY <2>6
  <2>. HIDE DEF to
  <2>. QED BY <1>6, <2>2, <2>3, <2>6, <2>7, <2>10, <2>11, <2>12, <2>13 DEF m2
<1>. QED BY <1>1, <1>13, <1>14, <1>15

(* The winner's potato is the first message in main's queue.               *)
LEMMA sendWinnerKeeps ==
  ASSUME MailInv, NEW i \in Mail!Players, Mail!SendWinner(i) PROVE MailInv'
<1>. DEFINE q == copies[i]
<1>1. /\ mailPc[i] = "win" /\ mailPc' = [mailPc EXCEPT ![i] = "pass"]
      /\ mailFinished' = Append(mailFinished, q)
      /\ UNCHANGED <<mail, copies, mailMem, mailMain>>
  BY DEF Mail!SendWinner, Mail!Go
<1>2. /\ Mail!MailTypeOK /\ Mail!OneToken /\ MailStart
      /\ MailToken /\ MailLast /\ MailBox
  BY DEF MailInv
<1>3. Mail!Holds(i)
  BY <1>1 DEF Mail!Holds
<1>4. /\ Current(mailMem, q) /\ q \in Mail!Potatoes
      /\ \A j \in Mail!Players : Mail!Holds(j) => j = i
      /\ q.value = -1 /\ q.round - 1 = n /\ WonBy(mailMem, q.winner)
  <2>1. Current(mailMem, q) /\ q \in Mail!Potatoes /\ q.value = -1
    BY <1>1, <1>2, <1>3, HolderIs DEF MailLast
  <2>. QED BY <2>1, <1>3, HolderIs, MailArguments DEF Current
<1>5. ~ Told /\ mailFinished = <<>>
  <2>1. Winning
    BY <1>1 DEF Winning
  <2>. QED BY <1>2, <2>1 DEF Told, MailBox
<1>. DEFINE one == <<q>>
<1>6. /\ mailFinished' = one /\ one \in Seq(Mail!Potatoes \union {Mail!Blank})
      /\ Len(one) = 1 /\ one[1] = q
  BY <1>1, <1>4, <1>5
<1>. HIDE DEF q, one
<1>7. \A j \in Mail!Players : mailPc'[j] = IF j = i THEN "pass" ELSE mailPc[j]
  BY <1>1, <1>2 DEF Mail!MailTypeOK
<1>8. Mail!MailTypeOK'
  BY <1>1, <1>2, <1>6 DEF Mail!MailTypeOK
<1>9. \A j \in Mail!Players : Mail!Holds(j)' <=> Mail!Holds(j)
  BY <1>3, <1>7 DEF Mail!Holds
<1>10. Mail!OneToken'
  BY <1>1, <1>2, <1>9 DEF Mail!OneToken
<1>11. MailStart'
  BY <1>1, <1>2, <1>7 DEF MailStart
<1>12. MailToken'
  BY <1>1, <1>2, <1>9 DEF MailToken
<1>13. Told'
  <2>1. ~ Winning'
    BY <1>4, <1>7 DEF Winning, Mail!Holds
  <2>2. Numbered(Mail!Players, mailMem, n)
    BY <1>4 DEF Current
  <2>. QED BY <1>1, <2>1, <2>2 DEF Told
<1>14. MailLast'
  BY <1>1, <1>2, <1>7, <1>13 DEF MailLast
<1>15. MailBox'
  <2>1. MailGone = {} /\ MailGone' = {}
    BY <1>2, <1>5, <1>7 DEF MailLast, MailGone
  <2>2. mailMain.at \notin {"wait", "announce", "gone"}
    BY <1>2, <1>5 DEF MailBox
  <2>3. AllBlank(one, 2)
    BY <1>6 DEF AllBlank
  <2>4. Len(one) = 1 + Cardinality(MailGone')
    BY <1>6, <2>1, FS_EmptySet
  <2>. QED
    BY <1>1, <1>2, <1>4, <1>6, <1>13, <2>2, <2>3, <2>4 DEF MailBox
<1>. QED BY <1>8, <1>10, <1>11, <1>12, <1>14, <1>15 DEF MailInv

(* A blank message is added for each player that leaves.                   *)
LEMMA BlankAdded ==
  ASSUME NEW s \in Seq(Mail!Potatoes \union {Mail!Blank}), NEW from \in {1, 2},
         AllBlank(s, from), NEW t, t = Append(s, Mail!Blank)
  PROVE  /\ t \in Seq(Mail!Potatoes \union {Mail!Blank}) /\ Len(t) = Len(s) + 1
         /\ AllBlank(t, from) /\ (s # <<>> => t[1] = s[1])
<1>. DEFINE S == Mail!Potatoes \union {Mail!Blank}
            b == Mail!Blank
<1>1. s \in Seq(S) /\ b \in S /\ t = Append(s, b)
  OBVIOUS
<1>. HIDE DEF S, b
<1>2. /\ t \in Seq(S) /\ Len(t) = Len(s) + 1 /\ Len(s) \in Nat
      /\ \A k \in 1..Len(s) : t[k] = s[k]
      /\ t[Len(s) + 1] = b
  BY <1>1, AppendProperties, LenProperties
<1>3. AllBlank(t, from)
  <2>1. ASSUME NEW k \in from..Len(t)
        PROVE  t[k] = b
    <3>1. CASE k = Len(s) + 1
      BY <1>2, <3>1
    <3>2. CASE k # Len(s) + 1
      <4>1. k \in from..Len(s) /\ k \in 1..Len(s)
        BY <1>2, <3>2
      <4>. QED BY <1>2, <4>1 DEF AllBlank, b
    <3>. QED BY <3>1, <3>2
  <2>. QED BY <2>1 DEF AllBlank, b
<1>4. s # <<>> => t[1] = s[1]
  <2>1. s # <<>> => 1 \in 1..Len(s)
    BY <1>1, EmptySeq
  <2>. QED BY <1>2, <2>1
<1>. QED BY <1>2, <1>3, <1>4 DEF S

LEMMA mailSignalKeeps ==
  ASSUME MailInv, NEW i \in Mail!Players, Mail!SignalFinished(i) PROVE MailInv'
<1>1. /\ mailPc[i] = "report" /\ mailPc' = [mailPc EXCEPT ![i] = "gone"]
      /\ mailFinished' = Append(mailFinished, Mail!Blank)
      /\ UNCHANGED <<mail, copies, mailMem, mailMain>>
  BY DEF Mail!SignalFinished, Mail!Go
<1>2. /\ Mail!MailTypeOK /\ Mail!OneToken /\ MailStart
      /\ MailToken /\ MailLast /\ MailBox
  BY DEF MailInv
<1>3. /\ \A j \in Mail!Players : mailPc'[j] = IF j = i THEN "gone" ELSE mailPc[j]
      /\ mailFinished \in Seq(Mail!Potatoes \union {Mail!Blank})
      /\ mailMain.at \in {"start", "fork", "winner", "wait", "announce", "gone", "failed"}
      /\ mailMain.count \in 0..n
  BY <1>1, <1>2 DEF Mail!MailTypeOK
<1>4. \A j \in Mail!Players : Mail!Holds(j)' <=> Mail!Holds(j)
  BY <1>1, <1>3 DEF Mail!Holds
<1>5. Mail!OneToken'
  BY <1>1, <1>2, <1>4 DEF Mail!OneToken
<1>6. MailStart'
  BY <1>1, <1>2, <1>3 DEF MailStart
<1>7. MailToken'
  BY <1>1, <1>2, <1>4 DEF MailToken
<1>8. Told /\ (Winning' <=> Winning)
  BY <1>1, <1>2, <1>3 DEF MailLast, Winning
<1>9. Told'
  BY <1>1, <1>8 DEF Told
<1>10. MailLast'
  BY <1>1, <1>2, <1>3, <1>9 DEF MailLast
<1>11. MailGone' = MailGone \union {i} /\ i \notin MailGone
  BY <1>1, <1>3 DEF MailGone
<1>12. Cardinality(MailGone') = Cardinality(MailGone) + 1
  BY <1>11, MailGoneFinite, FS_AddElement
<1>13. mailFinished' \in Seq(Mail!Potatoes \union {Mail!Blank})
  BY <1>1, <1>3
<1>14. Mail!MailTypeOK'
  BY <1>1, <1>2, <1>13 DEF Mail!MailTypeOK
<1>15. MailGone # Mail!Players
  BY <1>1 DEF MailGone
<1>16. CASE mailMain.at \in {"start", "fork", "winner", "failed"}
  <2>. DEFINE s == mailFinished
              t == mailFinished'
              from == 2
  <2>1. /\ Len(s) = 1 + Cardinality(MailGone) /\ s[1] \in Mail!Potatoes
        /\ WonBy(mailMem, s[1].winner) /\ AllBlank(s, 2)
    BY <1>2, <1>8, <1>16 DEF MailBox
  <2>2. s # <<>>
    <3>1. Len(s) # 0
      BY <2>1, MailGoneFinite
    <3>. QED BY <3>1, EmptySeq
  <2>3. s \in Seq(Mail!Potatoes \union {Mail!Blank}) /\ t = Append(s, Mail!Blank)
        /\ from \in {1, 2} /\ AllBlank(s, from) /\ from = 2
    BY <1>1, <1>3, <2>1
  <2>. HIDE DEF s, t, from
  <2>4. Len(t) = Len(s) + 1 /\ AllBlank(t, from) /\ t[1] = s[1]
    BY <2>2, <2>3, BlankAdded
  <2>5. Len(t) = 1 + Cardinality(MailGone')
    BY <1>12, <2>1, <2>4, MailGoneFinite
  <2>6. MailBox'
    BY <1>1, <1>2, <1>9, <1>16, <2>1, <2>3, <2>4, <2>5 DEF MailBox, s, t
  <2>. QED BY <1>5, <1>6, <1>7, <1>10, <1>14, <2>6 DEF MailInv
<1>17. CASE mailMain.at = "wait"
  <2>. DEFINE s == mailFinished
              t == mailFinished'
              from == 1
  <2>1. Len(s) + mailMain.count = Cardinality(MailGone) /\ AllBlank(s, 1)
    BY <1>2, <1>17 DEF MailBox
  <2>3. s \in Seq(Mail!Potatoes \union {Mail!Blank}) /\ t = Append(s, Mail!Blank)
        /\ from \in {1, 2} /\ AllBlank(s, from) /\ from = 1
    BY <1>1, <1>3, <2>1
  <2>. HIDE DEF s, t, from
  <2>4. Len(t) = Len(s) + 1 /\ AllBlank(t, from) /\ Len(s) \in Nat
    BY <2>3, BlankAdded, LenProperties
  <2>5. Len(t) + mailMain.count = Cardinality(MailGone')
    BY <1>3, <1>12, <2>1, <2>4, MailGoneFinite
  <2>6. MailBox'
    BY <1>1, <1>2, <1>9, <1>17, <2>3, <2>4, <2>5 DEF MailBox, t
  <2>. QED BY <1>5, <1>6, <1>7, <1>10, <1>14, <2>6 DEF MailInv
<1>18. mailMain.at \notin {"announce", "gone"}
  BY <1>2, <1>15 DEF MailBox
<1>. QED BY <1>3, <1>16, <1>17, <1>18

(* Until main reads its queue, it does not matter what it does.            *)
LEMMA MailBoxEarly ==
  ASSUME MailBox, mailMain.at \in {"start", "fork", "winner", "failed"},
         mailMain'.at \in {"start", "fork", "winner", "failed"},
         mailMain'.winner = mailMain.winner,
         UNCHANGED <<mailFinished, mailMem>>, MailGone' = MailGone, Winning' <=> Winning
  PROVE  MailBox' /\ (Told' <=> Told)
<1>1. Told' <=> Told
  BY DEF Told
<1>2. MailBox'
  BY <1>1 DEF MailBox
<1>. QED BY <1>1, <1>2

(* Main gives the potato to a random player, or fails before any is made.  *)
LEMMA mailStartKeeps ==
  ASSUME MailInv, Mail!Start PROVE MailInv'
<1>1. /\ mailMain.at = "start"
      /\ UNCHANGED <<mailFinished, copies, mailMem, mailPc>>
  BY DEF Mail!Start
<1>2. /\ Mail!MailTypeOK /\ Mail!OneToken /\ MailStart
      /\ MailToken /\ MailLast /\ MailBox
  BY DEF MailInv
<1>3. /\ Current(mailMem, copies[0])
      /\ \A j \in Mail!Players : mail[j] = <<>> /\ mailPc[j] = "unborn"
  BY <1>1, <1>2 DEF MailToken, MailStart
<1>4. \A j \in Mail!Players : ~ Mail!Holds(j) /\ ~ Mail!Holds(j)'
  BY <1>1, <1>3 DEF Mail!Holds
<1>5. /\ 1 \in Mail!Players /\ 1 \in 0..n
      /\ mailMain \in [at : {"start", "fork", "winner", "wait", "announce", "gone", "failed"},
                       count : 0..n, winner : Mail!Players \union {Mail!Nobody}]
      /\ mail \in [Mail!Players -> Seq(Mail!Potatoes)]
  BY <1>2, MailArguments DEF Mail!MailTypeOK, Mail!Players
<1>6. /\ mailMain'.at \in {"fork", "failed"} /\ mailMain'.winner = mailMain.winner
      /\ mailMain'.at = "fork" => mailMain'.count = 1
      /\ mailMain' \in [at : {"start", "fork", "winner", "wait", "announce", "gone", "failed"},
                        count : 0..n, winner : Mail!Players \union {Mail!Nobody}]
  BY <1>1, <1>5 DEF Mail!Start
<1>7. MailGone' = MailGone /\ (Winning' <=> Winning)
  BY <1>1 DEF MailGone, Winning
<1>8. MailBox' /\ (Told' <=> Told)
  BY <1>1, <1>2, <1>6, <1>7, MailBoxEarly
<1>9. MailLast'
  BY <1>1, <1>2, <1>8 DEF MailLast
<1>10. MailStart'
  BY <1>1, <1>3, <1>5, <1>6, MailArguments DEF MailStart
<1>11. CASE mailMain'.at = "failed" /\ mail' = mail
  <2>1. Mail!MailTypeOK'
    BY <1>1, <1>2, <1>6, <1>11 DEF Mail!MailTypeOK
  <2>2. Mail!OneToken'
    BY <1>2, <1>4, <1>11 DEF Mail!OneToken
  <2>3. MailToken'
    BY <1>3, <1>4, <1>11 DEF MailToken
  <2>. QED BY <1>8, <1>9, <1>10, <2>1, <2>2, <2>3 DEF MailInv
<1>12. CASE mailMain'.at = "fork" /\ \E i \in Mail!Players : mail' = [mail EXCEPT ![i] = <<copies[0]>>]
  <2>. DEFINE q == copies[0]
              one == <<q>>
  <2>1. PICK i \in Mail!Players : mail' = [mail EXCEPT ![i] = one]
    BY <1>12
  <2>2. q \in Mail!Potatoes
    BY <1>3 DEF Current
  <2>3. one \in Seq(Mail!Potatoes) /\ Len(one) = 1 /\ one[1] = q /\ one # <<>>
    BY <2>2
  <2>4. Len(<<>>) = 0
    BY EmptySeq
  <2>. HIDE DEF one
  <2>5. \A j \in Mail!Players : mail'[j] = IF j = i THEN one ELSE <<>>
    BY <1>3, <1>5, <2>1
  <2>6. ASSUME NEW j \in Mail!Players PROVE Len(mail'[j]) <= 1
    <3>1. CASE j = i
      <4>1. mail'[j] = one
        BY <2>5, <3>1
      <4>2. Len(mail'[j]) = 1
        BY <2>3, <4>1
      <4>. QED BY <4>2
    <3>2. CASE j # i
      <4>1. mail'[j] = <<>>
        BY <2>5, <3>2
      <4>. QED BY <2>4, <4>1
    <3>. QED BY <3>1, <3>2
  <2>7. Mail!MailTypeOK'
    <3>1. mail' \in [Mail!Players -> Seq(Mail!Potatoes)]
      BY <1>5, <2>1, <2>3
    <3>. QED BY <1>1, <1>2, <1>6, <3>1 DEF Mail!MailTypeOK
  <2>8. Mail!OneToken'
    <3>1. mail'[i] # <<>> /\ \A j \in Mail!Players : mail'[j] # <<>> => j = i
      BY <2>3, <2>5
    <3>. QED BY <1>4, <2>6, <3>1 DEF Mail!OneToken
  <2>9. MailToken'
    <3>1. \A j \in Mail!Players : mail'[j] # <<>> => mail'[j][1] = q
      BY <2>3, <2>5
    <3>. QED BY <1>1, <1>3, <1>4, <1>12, <3>1 DEF MailToken
  <2>. QED BY <1>8, <1>9, <1>10, <2>7, <2>8, <2>9 DEF MailInv
<1>13. \/ mailMain'.at = "failed" /\ mail' = mail
       \/ mailMain'.at = "fork" /\ \E i \in Mail!Players : mail' = [mail EXCEPT ![i] = <<copies[0]>>]
  <2>1. PICK i \in 0..(n - 1) :
          IF i = 0
          THEN mailMain' = [mailMain EXCEPT !.at = "failed"] /\ mail' = mail
          ELSE /\ mailMain' = [mailMain EXCEPT !.at = "fork", !.count = 1]
               /\ mail' = [mail EXCEPT ![i] = <<copies[0]>>]
    BY DEF Mail!Start
  <2>2. CASE i = 0
    BY <1>5, <2>1, <2>2
  <2>3. CASE i # 0
    <3>1. i \in Mail!Players
      BY <2>3, MailArguments DEF Mail!Players
    <3>2. mailMain'.at = "fork"
      BY <1>5, <2>1, <2>3
    <3>. QED BY <2>1, <2>3, <3>1, <3>2
  <2>. QED BY <2>2, <2>3
<1>. QED BY <1>11, <1>12, <1>13

LEMMA mailForkKeeps ==
  ASSUME MailInv, Mail!ForkPlayer PROVE MailInv'
<1>. DEFINE c == mailMain.count
            Mains == [at : {"start", "fork", "winner", "wait", "announce", "gone", "failed"},
                      count : 0..n, winner : Mail!Players \union {Mail!Nobody}]
<1>1. /\ mailMain.at = "fork" /\ UNCHANGED <<mail, mailFinished, copies, mailMem>>
      /\ \/ /\ mailPc[c] = "unborn" /\ mailPc' = [mailPc EXCEPT ![c] = "wait"]
            /\ mailMain' = IF c < n THEN [mailMain EXCEPT !.count = @ + 1]
                           ELSE [mailMain EXCEPT !.at = "winner"]
         \/ mailMain' = [mailMain EXCEPT !.at = "failed"] /\ mailPc' = mailPc
  BY DEF Mail!ForkPlayer, Mail!Go
<1>2. /\ Mail!MailTypeOK /\ Mail!OneToken /\ MailStart
      /\ MailToken /\ MailLast /\ MailBox
  BY DEF MailInv
<1>3. /\ mailMain \in Mains
      /\ mailPc \in [Mail!Players -> {"unborn", "wait", "turn", "win", "pass", "last",
                                      "report", "gone"}]
  BY <1>2 DEF Mail!MailTypeOK
<1>4. /\ c \in Mail!Players /\ c \in Nat
      /\ \A j \in Mail!Players : j >= c => mailPc[j] = "unborn"
  BY <1>1, <1>2, <1>3, MailArguments DEF MailStart, Mail!Players
<1>5. /\ mailMain' \in Mains /\ mailMain'.winner = mailMain.winner
      /\ \/ /\ mailMain'.at = "fork" /\ mailMain'.count = c + 1
            /\ mailPc' = [mailPc EXCEPT ![c] = "wait"]
         \/ mailMain'.at = "winner" /\ mailPc' = [mailPc EXCEPT ![c] = "wait"]
         \/ mailMain'.at = "failed" /\ mailPc' = mailPc
  <2>1. CASE mailMain' = [mailMain EXCEPT !.count = @ + 1] /\ c < n
             /\ mailPc' = [mailPc EXCEPT ![c] = "wait"]
    <3>1. c + 1 \in 0..n
      BY <1>4, <2>1, MailArguments
    <3>. QED BY <1>1, <1>3, <2>1, <3>1
  <2>2. CASE mailMain' = [mailMain EXCEPT !.at = "winner"]
             /\ mailPc' = [mailPc EXCEPT ![c] = "wait"]
    BY <1>3, <2>2
  <2>3. CASE mailMain' = [mailMain EXCEPT !.at = "failed"] /\ mailPc' = mailPc
    BY <1>3, <2>3
  <2>. QED BY <1>1, <2>1, <2>2, <2>3
<1>. HIDE DEF c, Mains
<1>6. /\ \A j \in Mail!Players : mailPc'[j] = mailPc[j] \/ (j = c /\ mailPc'[j] = "wait")
      /\ mailPc' \in [Mail!Players -> {"unborn", "wait", "turn", "win", "pass", "last",
                                       "report", "gone"}]
      /\ mailPc[c] = "unborn"
  BY <1>3, <1>4, <1>5
<1>7. /\ MailGone' = MailGone /\ (Winning' <=> Winning)
      /\ \A j \in Mail!Players : Mail!Holds(j)' <=> Mail!Holds(j)
  BY <1>6 DEF MailGone, Winning, Mail!Holds
<1>8. MailBox' /\ (Told' <=> Told)
  BY <1>1, <1>2, <1>5, <1>7, MailBoxEarly
<1>9. MailLast'
  BY <1>1, <1>2, <1>6, <1>8 DEF MailLast
<1>10. MailStart'
  <2>1. CASE mailMain'.at = "fork" /\ mailMain'.count = c + 1
    <3>1. \A j \in Mail!Players : j >= c + 1 => mailPc'[j] = "unborn"
      BY <1>4, <1>6, MailArguments
    <3>. QED BY <1>4, <2>1, <3>1 DEF MailStart
  <2>2. CASE mailMain'.at = "winner"
    BY <2>2 DEF MailStart
  <2>3. CASE mailMain'.at = "failed" /\ mailPc' = mailPc
    BY <1>4, <1>6, <2>3 DEF MailStart
  <2>. QED BY <1>5, <2>1, <2>2, <2>3
<1>11. Mail!MailTypeOK'
  BY <1>1, <1>2, <1>5, <1>6 DEF Mail!MailTypeOK, Mains
<1>12. Mail!OneToken'
  BY <1>1, <1>2, <1>7 DEF Mail!OneToken
<1>13. MailToken'
  BY <1>1, <1>2, <1>5, <1>7 DEF MailToken
<1>. QED BY <1>8, <1>9, <1>10, <1>11, <1>12, <1>13 DEF MailInv

(* A tail of blank messages.                                               *)
LEMMA TailBlank ==
  ASSUME NEW s \in Seq(Mail!Potatoes \union {Mail!Blank}), s # <<>>,
         NEW from \in {1, 2}, AllBlank(s, from)
  PROVE  /\ Len(s) \in Nat /\ Len(s) >= 1 /\ Head(s) = s[1]
         /\ Tail(s) \in Seq(Mail!Potatoes \union {Mail!Blank})
         /\ Len(Tail(s)) = Len(s) - 1 /\ AllBlank(Tail(s), 1)
<1>. DEFINE S == Mail!Potatoes \union {Mail!Blank}
            b == Mail!Blank
            t == Tail(s)
<1>1. s \in Seq(S) /\ \A k \in from..Len(s) : s[k] = b
  BY DEF AllBlank
<1>. HIDE DEF S, b, t
<1>2. /\ Len(s) \in Nat /\ Len(s) >= 1 /\ Head(s) = s[1]
      /\ t \in Seq(S) /\ Len(t) = Len(s) - 1
      /\ \A k \in 1..Len(t) : t[k] = s[k + 1]
  <2>1. Len(s) \in Nat \ {0}
    BY <1>1, EmptySeq, LenProperties
  <2>2. /\ Head(s) = s[1] /\ t \in Seq(S) /\ Len(t) = Len(s) - 1
        /\ \A k \in 1..Len(t) : t[k] = s[k + 1]
    BY <1>1, HeadTailProperties DEF t
  <2>. QED BY <2>1, <2>2
<1>3. ASSUME NEW k \in 1..Len(t)
      PROVE  t[k] = b
  <2>1. k + 1 \in from..Len(s)
    BY <1>2
  <2>. QED BY <1>1, <1>2, <2>1
<1>4. AllBlank(t, 1)
  BY <1>3 DEF AllBlank, b
<1>. QED BY <1>2, <1>4 DEF S, t

(* The first message that main takes is the potato of the winner.          *)
LEMMA mailReceiveWinnerKeeps ==
  ASSUME MailInv, Mail!ReceiveWinner PROVE MailInv'
<1>. DEFINE s == mailFinished
            Mains == [at : {"start", "fork", "winner", "wait", "announce", "gone", "failed"},
                      count : 0..n, winner : Mail!Players \union {Mail!Nobody}]
<1>1. /\ mailMain.at = "winner" /\ s # <<>> /\ mailFinished' = Tail(s)
      /\ mailMain' = [mailMain EXCEPT !.at = "wait", !.count = 0]
      /\ UNCHANGED <<mail, mailMem, mailPc>>
  BY DEF Mail!ReceiveWinner
<1>2. /\ Mail!MailTypeOK /\ Mail!OneToken /\ MailStart
      /\ MailToken /\ MailLast /\ MailBox
  BY DEF MailInv
<1>3. /\ Told /\ Len(s) = 1 + Cardinality(MailGone) /\ s[1] \in Mail!Potatoes
      /\ WonBy(mailMem, s[1].winner) /\ AllBlank(s, 2)
  BY <1>1, <1>2 DEF MailBox
<1>4. /\ mailMain \in Mains /\ s \in Seq(Mail!Potatoes \union {Mail!Blank})
      /\ copies \in [{0} \union Mail!Players -> Mail!Potatoes]
  BY <1>2 DEF Mail!MailTypeOK
<1>5. /\ Len(s) \in Nat /\ Head(s) = s[1] /\ Len(Tail(s)) = Len(s) - 1
      /\ Tail(s) \in Seq(Mail!Potatoes \union {Mail!Blank}) /\ AllBlank(Tail(s), 1)
  <2>. DEFINE from == 2
  <2>1. from \in {1, 2} /\ AllBlank(s, from)
    BY <1>3
  <2>. HIDE DEF s, from
  <2>. QED BY <1>1, <1>4, <2>1, TailBlank
<1>6. s[1] # Mail!Blank
  BY <1>3, PotatoFields
<1>7. copies' = [copies EXCEPT ![0] = s[1]]
  <2>1. Head(mailFinished) # Mail!Blank
    BY <1>5, <1>6
  <2>2. copies' = [copies EXCEPT ![0] = Head(mailFinished)]
    BY <2>1 DEF Mail!ReceiveWinner
  <2>. QED BY <1>5, <2>2
<1>. HIDE DEF s
<1>8. /\ mailMain' \in Mains /\ mailMain'.at = "wait" /\ mailMain'.count = 0
      /\ mailMain'.winner = mailMain.winner
  <2>1. 0 \in 0..n
    BY MailArguments
  <2>. QED BY <1>1, <1>4, <2>1
<1>9. /\ copies' \in [{0} \union Mail!Players -> Mail!Potatoes] /\ copies'[0] = s[1]
      /\ \A j \in Mail!Players : copies'[j] = copies[j]
  BY <1>3, <1>4, <1>7, MailArguments
<1>10. Mail!MailTypeOK'
  BY <1>1, <1>2, <1>5, <1>8, <1>9 DEF Mail!MailTypeOK
<1>11. \A j \in Mail!Players : Mail!Holds(j)' <=> Mail!Holds(j)
  BY <1>1 DEF Mail!Holds
<1>12. Mail!OneToken'
  BY <1>1, <1>2, <1>8, <1>11 DEF Mail!OneToken
<1>13. MailStart'
  BY <1>8 DEF MailStart
<1>14. MailToken'
  BY <1>1, <1>2, <1>8, <1>9, <1>11 DEF MailToken
<1>15. MailGone' = MailGone /\ (Winning' <=> Winning)
  BY <1>1 DEF MailGone, Winning
<1>16. Told'
  BY <1>1, <1>3, <1>15 DEF Told
<1>17. MailLast'
  BY <1>1, <1>2, <1>9, <1>16 DEF MailLast
<1>18. MailBox'
  <2>1. Len(Tail(s)) + 0 = Cardinality(MailGone)
    BY <1>3, <1>5, MailGoneFinite
  <2>2. mailMain'.winner = Mail!Nobody
    BY <1>1, <1>2, <1>8 DEF MailBox
  <2>. QED BY <1>1, <1>3, <1>5, <1>8, <1>9, <1>15, <1>16, <2>1, <2>2 DEF MailBox
<1>. QED BY <1>10, <1>12, <1>13, <1>14, <1>17, <1>18 DEF MailInv

(* Then it takes one blank message of each player; it is never one for     *)
(* which it has no room.                                                   *)
LEMMA mailWaitKeeps ==
  ASSUME MailInv, Mail!WaitFinished PROVE MailInv'
<1>. DEFINE s == mailFinished
            c == mailMain.count
            Mains == [at : {"start", "fork", "winner", "wait", "announce", "gone", "failed"},
                      count : 0..n, winner : Mail!Players \union {Mail!Nobody}]
<1>1. /\ mailMain.at = "wait" /\ s # <<>> /\ UNCHANGED <<mail, copies, mailMem, mailPc>>
      /\ IF Head(s) # Mail!Blank
         THEN mailMain' = [mailMain EXCEPT !.at = "failed"] /\ mailFinished' = s
         ELSE /\ mailFinished' = Tail(s)
              /\ mailMain' = IF c + 1 < n THEN [mailMain EXCEPT !.count = @ + 1]
                             ELSE [mailMain EXCEPT !.at = "announce"]
  BY DEF Mail!WaitFinished
<1>2. /\ Mail!MailTypeOK /\ Mail!OneToken /\ MailStart
      /\ MailToken /\ MailLast /\ MailBox
  BY DEF MailInv
<1>3. /\ Told /\ Len(s) + c = Cardinality(MailGone) /\ AllBlank(s, 1)
      /\ WonBy(mailMem, copies[0].winner) /\ mailMain.winner = Mail!Nobody
  BY <1>1, <1>2 DEF MailBox
<1>4. /\ mailMain \in Mains /\ s \in Seq(Mail!Potatoes \union {Mail!Blank}) /\ c \in 0..n
  BY <1>2 DEF Mail!MailTypeOK
<1>5. /\ Len(s) \in Nat /\ Len(s) >= 1 /\ Head(s) = s[1] /\ Len(Tail(s)) = Len(s) - 1
      /\ Tail(s) \in Seq(Mail!Potatoes \union {Mail!Blank}) /\ AllBlank(Tail(s), 1)
  <2>. DEFINE from == 1
  <2>1. from \in {1, 2} /\ AllBlank(s, from)
    BY <1>3
  <2>. HIDE DEF s, from
  <2>. QED BY <1>1, <1>4, <2>1, TailBlank
<1>6. Head(s) = Mail!Blank
  <2>1. 1 \in 1..Len(s)
    BY <1>5
  <2>. QED BY <1>3, <1>5, <2>1 DEF AllBlank
<1>7. /\ mailFinished' = Tail(s)
      /\ mailMain' = IF c + 1 < n THEN [mailMain EXCEPT !.count = c + 1]
                     ELSE [mailMain EXCEPT !.at = "announce"]
  BY <1>1, <1>6
<1>. HIDE DEF s, c
<1>8. /\ mailMain' \in Mains /\ mailMain'.winner = mailMain.winner
      /\ mailMain'.at = IF c + 1 < n THEN "wait" ELSE "announce"
      /\ c + 1 < n => mailMain'.count = c + 1
  <2>1. CASE c + 1 < n
    <3>1. c + 1 \in 0..n
      BY <1>4, <2>1, MailArguments
    <3>. QED BY <1>1, <1>4, <1>7, <2>1, <3>1
  <2>2. CASE ~ (c + 1 < n)
    BY <1>4, <1>7, <2>2
  <2>. QED BY <2>1, <2>2
<1>9. Mail!MailTypeOK'
  BY <1>1, <1>2, <1>5, <1>7, <1>8 DEF Mail!MailTypeOK
<1>10. \A j \in Mail!Players : Mail!Holds(j)' <=> Mail!Holds(j)
  BY <1>1 DEF Mail!Holds
<1>11. Mail!OneToken'
  BY <1>1, <1>2, <1>8, <1>10 DEF Mail!OneToken
<1>12. MailStart'
  BY <1>8 DEF MailStart
<1>13. MailToken'
  BY <1>1, <1>2, <1>8, <1>10 DEF MailToken
<1>14. MailGone' = MailGone /\ (Winning' <=> Winning)
  BY <1>1 DEF MailGone, Winning
<1>15. Told'
  BY <1>1, <1>3, <1>14 DEF Told
<1>16. MailLast'
  BY <1>1, <1>2, <1>15 DEF MailLast
<1>17. MailBox'
  <2>1. Len(Tail(s)) + (c + 1) = Cardinality(MailGone)
    BY <1>3, <1>4, <1>5, MailGoneFinite
  <2>2. ~ (c + 1 < n) => MailGone = Mail!Players
    BY <1>3, <1>4, <1>5, MailGoneFinite, MailArguments
  <2>3. CASE c + 1 < n
    <3>1. mailMain'.at = "wait" /\ mailMain'.count = c + 1
      BY <1>8, <2>3
    <3>. QED BY <1>1, <1>3, <1>5, <1>7, <1>8, <1>14, <1>15, <2>1, <3>1 DEF MailBox
  <2>4. CASE ~ (c + 1 < n)
    <3>1. mailMain'.at = "announce"
      BY <1>8, <2>4
    <3>. QED BY <1>1, <1>3, <1>8, <1>14, <1>15, <2>2, <2>4, <3>1 DEF MailBox
  <2>. QED BY <2>3, <2>4
<1>. QED BY <1>9, <1>11, <1>12, <1>13, <1>16, <1>17 DEF MailInv

LEMMA mailAnnounceKeeps ==
  ASSUME MailInv, Mail!Announce PROVE MailInv'
<1>. DEFINE Mains == [at : {"start", "fork", "winner", "wait", "announce", "gone", "failed"},
                      count : 0..n, winner : Mail!Players \union {Mail!Nobody}]
<1>1. /\ mailMain.at = "announce"
      /\ mailMain' = [mailMain EXCEPT !.at = "gone", !.winner = copies[0].winner]
      /\ UNCHANGED <<mail, mailFinished, copies, mailMem, mailPc>>
  BY DEF Mail!Announce, Mail!playerVars
<1>2. /\ Mail!MailTypeOK /\ Mail!OneToken /\ MailStart
      /\ MailToken /\ MailLast /\ MailBox
  BY DEF MailInv
<1>3. /\ Told /\ WonBy(mailMem, copies[0].winner) /\ MailGone = Mail!Players
  BY <1>1, <1>2 DEF MailBox
<1>4. mailMain \in Mains /\ copies[0].winner \in Mail!Players
  BY <1>2, <1>3 DEF Mail!MailTypeOK, WonBy, Outs
<1>5. mailMain' \in Mains /\ mailMain'.at = "gone"
  BY <1>1, <1>4
<1>6. Mail!MailTypeOK'
  BY <1>1, <1>2, <1>5 DEF Mail!MailTypeOK
<1>7. \A j \in Mail!Players : Mail!Holds(j)' <=> Mail!Holds(j)
  BY <1>1 DEF Mail!Holds
<1>8. Mail!OneToken'
  BY <1>1, <1>2, <1>5, <1>7 DEF Mail!OneToken
<1>9. MailStart'
  BY <1>5 DEF MailStart
<1>10. MailToken'
  BY <1>1, <1>2, <1>5, <1>7 DEF MailToken
<1>11. MailGone' = MailGone /\ (Winning' <=> Winning)
  BY <1>1 DEF MailGone, Winning
<1>12. Told'
  BY <1>1, <1>3, <1>11 DEF Told
<1>13. MailLast'
  BY <1>1, <1>2, <1>12 DEF MailLast
<1>14. MailBox'
  BY <1>1, <1>3, <1>5, <1>11, <1>12 DEF MailBox
<1>. QED BY <1>6, <1>8, <1>9, <1>10, <1>13, <1>14 DEF MailInv

(* Every step of the mail keeps its invariant.                             *)
LEMMA MailNext == MailInv /\ [Mail!Next]_(Mail!vars) => MailInv'
<1>. SUFFICES ASSUME MailInv, [Mail!Next]_(Mail!vars) PROVE MailInv'
  OBVIOUS
<1>1. CASE UNCHANGED Mail!vars
  <2>1. /\ UNCHANGED <<mail, mailFinished, copies, mailMem, mailPc, mailMain>>
    BY <1>1 DEF Mail!vars, Mail!playerVars
  <2>2. /\ Mail!MailTypeOK /\ Mail!OneToken /\ MailStart
        /\ MailToken /\ MailLast /\ MailBox
    BY DEF MailInv
  <2>3. Mail!MailTypeOK' /\ Mail!OneToken' /\ MailStart' /\ MailToken'
    BY <2>1, <2>2
       DEF Mail!MailTypeOK, Mail!OneToken, Mail!Holds, MailStart, MailToken
  <2>4. MailGone' = MailGone /\ (Winning' <=> Winning)
    BY <2>1 DEF MailGone, Winning
  <2>5. MailBox' /\ (Told' <=> Told)
    BY <2>1, <2>2, <2>4, MailBoxSame
  <2>6. MailLast'
    BY <2>1, <2>2, <2>5 DEF MailLast
  <2>. QED BY <2>3, <2>5, <2>6 DEF MailInv
<1>2. CASE Mail!mainProcess
  BY <1>2, mailStartKeeps, mailForkKeeps, mailReceiveWinnerKeeps, mailWaitKeeps,
     mailAnnounceKeeps DEF Mail!mainProcess
<1>3. ASSUME NEW i \in Mail!Players, Mail!potatoGame(i)
      PROVE  MailInv'
  BY <1>3, receiveKeeps, turnKeeps, sendWinnerKeeps, sendKeeps, mailSignalKeeps
     DEF Mail!potatoGame
<1>. QED BY <1>1, <1>2, <1>3 DEF Mail!Next

-----------------------------------------------------------------------------
(* The mail implements the elimination.                                    *)

(* The instance of Elimination in PotatoMail has operators of its own.     *)
LEMMA MailGameOperators ==
  /\ \A S : Mail!Game!Cardinality(S) = Cardinality(S)
  /\ \A f : Mail!Game!Range(f) = Range(f)
BY DEF Mail!Game!Cardinality, Cardinality, Mail!Game!IsFiniteSet, IsFiniteSet,
       Mail!Game!Range, Range

LEMMA MailOrderIsOutOrder == Mail!Order = OutOrder(Mail!Players, mailMem)
<1>1. \A S : Mail!Cardinality(S) = Cardinality(S)
  BY DEF Mail!Cardinality, Cardinality, Mail!IsFiniteSet, IsFiniteSet
<1>. QED BY <1>1 DEF Mail!Order, OutOrder, Mail!Out, Outs

LEMMA MailGameInit == Mail!Init => Mail!Game!Init
<1>. SUFFICES ASSUME Mail!Init PROVE Mail!Game!Init
  OBVIOUS
<1>1. \A i \in Mail!Players : mailMem[i].isActive
  BY DEF Mail!Init
<1>2. OutOrder(Mail!Players, mailMem) = <<>>
  BY <1>1, NobodyOut
<1>. QED BY <1>2, MailOrderIsOutOrder DEF Mail!Init, Mail!Game!Init

(* When all are out, the order has n players, and the winner is the last.  *)
LEMMA MailAllOut ==
  ASSUME Told, MailInv
  PROVE  /\ Len(Mail!Order) = n /\ Mail!Game!AllOut
         /\ \A i \in Mail!Players : WonBy(mailMem, i) => Mail!Order[n] = i
<1>1. Numbered(Mail!Players, mailMem, n) /\ n \in Nat
  BY MailArguments DEF Told
<1>2. Len(Mail!Order) = n
  BY <1>1, OrderType, MailOrderIsOutOrder
<1>3. Mail!Game!AllOut
  BY <1>2, MailArguments, MailGameOperators DEF Mail!Game!AllOut
<1>4. ASSUME NEW i \in Mail!Players, WonBy(mailMem, i)
      PROVE  Mail!Order[n] = i
  <2>1. i \in Outs(Mail!Players, mailMem) /\ mailMem[i].roundReached = n
    BY <1>4 DEF WonBy
  <2>2. OutOrder(Mail!Players, mailMem)[mailMem[i].roundReached] = i
    BY <1>1, <2>1, OrderIs
  <2>. QED BY <2>1, <2>2, MailOrderIsOutOrder
<1>. QED BY <1>2, <1>3, <1>4

LEMMA mailExplodeOrder ==
  ASSUME MailInv, NEW i \in Mail!Players, mailMem[i].isActive, copies[i].value # -1,
         NEW new \in RandomValues, Mail!Explode(i, new)
  PROVE  /\ OutOrder(Mail!Players, mailMem') = Append(OutOrder(Mail!Players, mailMem), i)
         /\ i \notin Range(OutOrder(Mail!Players, mailMem))
<1>. DEFINE q == copies[i]
            k == q.round - 1
            m2 == mailMem'
<1>1. Mail!Holds(i)
  BY DEF Mail!Explode, Mail!Go, Mail!Holds
<1>2. Current(mailMem, q) /\ q \in Mail!Potatoes
  BY <1>1, HolderIs
<1>3. q.round \in 1..n
  BY <1>2, PotatoFields, MailArguments DEF Current
<1>4. m2 = [mailMem EXCEPT ![i] = [isActive |-> FALSE, roundReached |-> q.round]]
  BY DEF Mail!Explode
<1>5. mailMem \in [Mail!Players -> [isActive : BOOLEAN, roundReached : 0..n]]
  BY DEF MailInv, Mail!MailTypeOK
<1>6. /\ ~ m2[i].isActive /\ m2[i].roundReached = k + 1 /\ k \in Nat
      /\ \A j \in Mail!Players \ {i} : m2[j] = mailMem[j]
  BY <1>3, <1>4, <1>5, MailArguments
<1>7. Numbered(Mail!Players, mailMem, k) /\ IsFiniteSet(Mail!Players)
  BY <1>2, MailArguments DEF Current
<1>. HIDE DEF k, m2, q
<1>8. /\ Numbered(Mail!Players, m2, k + 1)
      /\ OutOrder(Mail!Players, m2) = Append(OutOrder(Mail!Players, mailMem), i)
      /\ i \notin Range(OutOrder(Mail!Players, mailMem))
  BY <1>6, <1>7, GoesOut
<1>. QED BY <1>8 DEF m2

(* Every step goes out, leaves, announces or changes none of these.        *)
LEMMA MailGameNext ==
  ASSUME MailInv, [Mail!Next]_(Mail!vars) PROVE [Mail!Game!Next]_(Mail!Game!vars)
<1>. DEFINE left == {i \in Mail!Players : mailPc[i] = "gone"}
<1>0. /\ Mail!Order = OutOrder(Mail!Players, mailMem)
      /\ Mail!Order' = OutOrder(Mail!Players, mailMem')
  <2>1. \A S : Mail!Cardinality(S) = Cardinality(S)
    BY DEF Mail!Cardinality, Cardinality, Mail!IsFiniteSet, IsFiniteSet
  <2>. QED BY <2>1 DEF Mail!Order, OutOrder, Mail!Out, Outs
<1>1. ASSUME UNCHANGED mailMem, mailMain'.winner = mailMain.winner, left' = left
      PROVE  UNCHANGED Mail!Game!vars
  BY <1>0, <1>1 DEF Mail!Game!vars
<1>2. Mail!MailTypeOK /\ MailLast /\ MailBox
  BY DEF MailInv
<1>3. ASSUME NEW i \in Mail!Players,
             Mail!receivePotato(i) \/ Mail!SendWinner(i) \/ Mail!sendPotato(i)
      PROVE  UNCHANGED Mail!Game!vars
  <2>1. UNCHANGED <<mailMem, mailMain>>
    BY <1>3 DEF Mail!receivePotato, Mail!SendWinner, Mail!sendPotato
  <2>2. left' = left
    BY <1>2, <1>3
       DEF Mail!receivePotato, Mail!SendWinner, Mail!sendPotato, Mail!Go, Mail!MailTypeOK
  <2>. QED BY <1>1, <2>1, <2>2
<1>4. ASSUME NEW i \in Mail!Players, Mail!Turn(i)
      PROVE  Mail!Game!GoOut(i) \/ UNCHANGED Mail!Game!vars
  <2>1. mailMain' = mailMain /\ left' = left
    BY <1>2, <1>4 DEF Mail!Turn, Mail!Explode, Mail!Go, Mail!MailTypeOK
  <2>2. CASE UNCHANGED mailMem
    BY <1>1, <2>1, <2>2
  <2>3. CASE /\ copies[i].value # -1 /\ mailMem[i].isActive
             /\ \E new \in RandomValues : Mail!Explode(i, new)
    <3>1. PICK new \in RandomValues : Mail!Explode(i, new)
      BY <2>3
    <3>2. /\ OutOrder(Mail!Players, mailMem') = Append(OutOrder(Mail!Players, mailMem), i)
          /\ i \notin Range(OutOrder(Mail!Players, mailMem))
      BY <2>3, <3>1, mailExplodeOrder
    <3>. QED BY <1>0, <2>1, <3>2, MailGameOperators DEF Mail!Game!GoOut
  <2>. QED BY <1>4, <2>2, <2>3 DEF Mail!Turn
<1>5. ASSUME NEW i \in Mail!Players, Mail!SignalFinished(i)
      PROVE  Mail!Game!Leave(i)
  <2>1. UNCHANGED <<mailMem, mailMain>> /\ i \notin left /\ left' = left \union {i}
    BY <1>2, <1>5 DEF Mail!SignalFinished, Mail!Go, Mail!MailTypeOK
  <2>2. Told
    BY <1>2, <1>5 DEF Mail!SignalFinished, Mail!Go, MailLast
  <2>3. Mail!Game!AllOut
    BY <2>2, MailAllOut
  <2>. QED BY <1>0, <2>1, <2>3 DEF Mail!Game!Leave
<1>6. CASE Mail!Start \/ Mail!ForkPlayer \/ Mail!ReceiveWinner \/ Mail!WaitFinished
  <2>1. mailMem' = mailMem /\ left' = left
    BY <1>2, <1>6
       DEF Mail!Start, Mail!ForkPlayer, Mail!ReceiveWinner, Mail!WaitFinished, Mail!Go,
           Mail!MailTypeOK
  <2>2. mailMain'.winner = mailMain.winner
    BY <1>2, <1>6
       DEF Mail!Start, Mail!ForkPlayer, Mail!ReceiveWinner, Mail!WaitFinished,
           Mail!MailTypeOK
  <2>. QED BY <1>1, <2>1, <2>2
<1>7. CASE Mail!Announce
  <2>1. mailMem' = mailMem /\ left' = left /\ mailMain.at = "announce"
    BY <1>7 DEF Mail!Announce, Mail!playerVars
  <2>2. mailMain'.winner = copies[0].winner
    BY <1>2, <1>7 DEF Mail!Announce, Mail!MailTypeOK
  <2>3. /\ left = Mail!Players /\ mailMain.winner = Mail!Nobody /\ Told
        /\ WonBy(mailMem, copies[0].winner)
    BY <1>2, <2>1 DEF MailBox, MailGone
  <2>4. copies[0].winner \in Mail!Players
    BY <2>3 DEF WonBy, Outs
  <2>5. Len(Mail!Order) = n /\ Mail!Game!AllOut /\ Mail!Order[n] = copies[0].winner
    BY <2>3, <2>4, MailAllOut
  <2>6. mailMain'.winner = Mail!Order[Len(Mail!Order)] /\ Mail!Order' = Mail!Order
    BY <1>0, <2>1, <2>2, <2>5
  <2>. QED BY <2>1, <2>3, <2>5, <2>6 DEF Mail!Game!Announce, Mail!Game!Next
<1>8. CASE UNCHANGED Mail!vars
  <2>1. UNCHANGED <<mailMem, mailMain>> /\ left' = left
    BY <1>8 DEF Mail!vars, Mail!playerVars
  <2>. QED BY <1>1, <2>1
<1>. QED
  BY <1>3, <1>4, <1>5, <1>6, <1>7, <1>8
     DEF Mail!Next, Mail!mainProcess, Mail!potatoGame, Mail!Game!Next

-----------------------------------------------------------------------------
(* The games together: whichever is started, the variables of the others   *)
(* keep their first values.                                                *)

LEMMA GamesStep ==
  ASSUME [GamesNext]_gamesVars
  PROVE  [RingOrThreads]_threadVars /\ [Mail!Next]_(Mail!vars)
<1>1. UNCHANGED mailVars => UNCHANGED Mail!vars
  BY DEF mailVars, Mail!vars, Mail!playerVars
<1>2. CASE mainStep
  BY <1>1, <1>2
     DEF mainStep, RingOrThreads, ThreadsNext, Next, Mail!Next
<1>3. ASSUME NEW k \in Players, playerStep(k)
      PROVE  [RingOrThreads]_threadVars /\ [Mail!Next]_(Mail!vars)
  <2>1. k + 1 \in Mail!Players
    BY ArgumentTypes DEF Players, Mail!Players
  <2>. QED
    BY <1>1, <1>3, <2>1
       DEF playerStep, RingOrThreads, ThreadsNext, Next, Mail!Next
<1>4. CASE UNCHANGED gamesVars
  BY <1>1, <1>4 DEF gamesVars
<1>. QED BY <1>2, <1>3, <1>4 DEF GamesNext

(* The processes and the threads keep their invariant.                     *)
LEMMA GamesThreadsInvariant == GamesFairSpec => []ThreadsInv
<1>1. GamesInit => ThreadsInv
  BY ThreadsInvInit DEF GamesInit
<1>2. ThreadsInv /\ [GamesNext]_gamesVars => ThreadsInv'
  BY GamesStep, ThreadsInvNext
<1>. QED BY <1>1, <1>2, PTL DEF GamesFairSpec

LEMMA GamesRing == GamesFairSpec => Spec
<1>1. GamesInit => Init
  BY DEF GamesInit, ThreadsInit
<1>2. [GamesNext]_gamesVars => [Next]_vars
  BY GamesStep, ThreadsAreRing
<1>. QED BY <1>1, <1>2, PTL DEF GamesFairSpec, Spec

(* And so does the mail.                                                   *)
LEMMA GamesMailInvariant == GamesFairSpec => []MailInv
<1>1. GamesInit => MailInv
  BY MailInit DEF GamesInit
<1>2. MailInv /\ [GamesNext]_gamesVars => MailInv'
  BY GamesStep, MailNext
<1>. QED BY <1>1, <1>2, PTL DEF GamesFairSpec

(* The variables of the three versions keep their types.                   *)
THEOREM GamesTypeCorrect == GamesFairSpec => []GamesTypeOK
<1>1. ThreadsInv /\ MailInv => GamesTypeOK
  BY DEF ThreadsInv, MailInv, GamesTypeOK
<1>. QED BY <1>1, GamesThreadsInvariant, GamesMailInvariant, PTL

(* clean_up (ShortHomework1_1) destroys semaphores and frees memory that   *)
(* no thread will use again: main gets there when it has counted all n     *)
(* signals, and a thread signals after its last use of a semaphore.        *)
THEOREM NoUseAfterDestroyHolds == GamesFairSpec => []NoUseAfterDestroy
<1>1. ThreadsInv => NoUseAfterDestroy
  BY NobodyLeft
<1>. QED BY <1>1, GamesThreadsInvariant, PTL

(* With messages (ShortHomework1_2) there is one potato as well, in a      *)
(* message or in the hands of a player, though every process has a copy.   *)
THEOREM OnePotatoHolds == GamesFairSpec => []OnePotato
<1>1. MailInv => OnePotato
  BY DEF MailInv, OnePotato
<1>. QED BY <1>1, GamesMailInvariant, PTL

(* Main takes the winner's message first and blank ones after it, so it    *)
(* announces the one who went out last; it fails only before the game.     *)
THEOREM MainReadsInOrderHolds == GamesFairSpec => []MainReadsInOrder
<1>1. ASSUME MailInv PROVE MainReadsInOrder
  <2>1. MailBox /\ MailStart
    BY <1>1 DEF MailInv
  <2>2. mailMain.at \in {"wait", "announce", "gone"} =>
          \E i \in Mail!Players : copies[0].winner = i /\ mailMem[i].roundReached = n
    BY <2>1 DEF MailBox, WonBy, Outs
  <2>. QED BY <2>1, <2>2 DEF MailStart, MainReadsInOrder, Mail!MainReadsInOrder
<1>. QED BY <1>1, GamesMailInvariant, PTL

(* The processes implement the elimination of readme.md.                   *)
THEOREM RingImplementsElimination == Spec => GameSpec
<1>1. Init => Game!Init
  BY GameInit
<1>2. GameInv /\ GameInv' /\ [Next]_vars => [Game!Next]_(Game!vars)
  BY GameNext
<1>. QED BY <1>1, <1>2, GameInvariant, PTL DEF Spec, GameSpec, Game!Spec

(* All three versions implement it: the players go out one by one, the     *)
(* last to go out wins, all leave, and then the winner is announced.       *)
THEOREM GamesImplementElimination == GamesFairSpec => GamesSpec
<1>1. GamesFairSpec => Game!Spec
  BY GamesRing, RingImplementsElimination DEF GameSpec
<1>2. GamesInit => Mail!Game!Init
  BY MailGameInit DEF GamesInit
<1>3. MailInv /\ [GamesNext]_gamesVars => [Mail!Game!Next]_(Mail!Game!vars)
  BY GamesStep, MailGameNext
<1>4. GamesFairSpec => Mail!Game!Spec
  BY <1>2, <1>3, GamesMailInvariant, PTL DEF GamesFairSpec, Mail!Game!Spec
<1>. QED BY <1>1, <1>4, PTL DEF GamesSpec, Mail!GameSpec

-----------------------------------------------------------------------------
(* The baboons.                                                            *)

(* A baboon that lets its rope cross outside the monitor lets its own go.  *)
BaboonsInv ==
  /\ baboonsCount \in [Rope -> Nat]
  /\ place \in [Baboon -> Step]
  /\ rope \in [Baboon -> Rope] /\ index \in [Baboon -> 0..ropesCount]
  /\ most \in [Baboon -> [count : Nat, rope : Rope]]
  /\ \A b \in Baboon :
       /\ place[b] \in {"notify_own", "reset_own"} => most[b].rope = rope[b]
       /\ place[b] = "record" => index[b] < ropesCount
  /\ CountedAreThere

LEMMA Ropes == ropesCount \in Nat /\ 0 \in Rope /\ 0..numberOfRopes - 1 \subseteq Rope
BY BaboonsAssumption DEF Rope, ropesCount

LEMMA EnteredFinite ==
  ASSUME NEW x \in Rope
  PROVE  IsFiniteSet(Entered(x)) /\ Cardinality(Entered(x)) \in Nat
<1>1. Entered(x) \subseteq Baboon
  BY DEF Entered
<1> QED
  BY <1>1, BaboonsAssumption, FS_Subset, FS_CardinalityType

LEMMA BaboonEnters ==
  ASSUME BaboonsInv, NEW b \in Baboon, NEW x \in 0..numberOfRopes - 1, Enter(b, x)
  PROVE  BaboonsInv'
<1>1. x \in Rope
  BY Ropes
<1>2. /\ baboonsCount' = [baboonsCount EXCEPT ![x] = baboonsCount[x] + 1]
      /\ place' = [place EXCEPT ![b] = "sum"] /\ rope' = [rope EXCEPT ![b] = x]
      /\ UNCHANGED <<index, most>> /\ place[b] = "start"
  BY DEF Enter, GoTo
<1>3. CountedAreThere'
  <2> SUFFICES ASSUME NEW y \in Rope, Releasing(y)' = {}
               PROVE  baboonsCount'[y] <= Cardinality(Entered(y)')
    BY DEF CountedAreThere
  <2>1. Releasing(y) = Releasing(y)'
    BY <1>2 DEF Releasing, BaboonsInv
  <2>2. baboonsCount[y] <= Cardinality(Entered(y)) /\ baboonsCount[y] \in Nat
    BY <2>1 DEF BaboonsInv, CountedAreThere
  <2>3. CASE y = x
    <3>1. Entered(y)' = Entered(y) \union {b} /\ b \notin Entered(y)
      BY <1>2, <2>3 DEF Entered, BaboonsInv
    <3>2. Cardinality(Entered(y) \union {b}) = Cardinality(Entered(y)) + 1
      BY <3>1, EnteredFinite, FS_AddElement
    <3>3. baboonsCount'[y] = baboonsCount[y] + 1
      BY <1>2, <2>3 DEF BaboonsInv
    <3> QED
      BY <2>2, <3>1, <3>2, <3>3, EnteredFinite
  <2>4. CASE y # x
    <3>1. Entered(y)' = Entered(y)
      BY <1>2, <2>4 DEF Entered, BaboonsInv
    <3> QED
      BY <1>1, <1>2, <2>2, <2>4, <3>1 DEF BaboonsInv
  <2> QED
    BY <2>3, <2>4
<1> QED
  BY <1>1, <1>2, <1>3 DEF BaboonsInv, Step

(* What a baboon does inside the monitor before it chooses, and outside    *)
(* before it is let go, is nothing to the ropes.                           *)
LEMMA BaboonThinks ==
  ASSUME BaboonsInv, NEW b \in Baboon, NEW s \in Step \ {"start", "crossed", "reset_own", "reset_other"},
         place[b] \notin {"start", "crossed", "reset_own", "reset_other"},
         place' = [place EXCEPT ![b] = s], UNCHANGED <<baboonsCount, rope>>,
         index' \in [Baboon -> 0..ropesCount], most' \in [Baboon -> [count : Nat, rope : Rope]],
         \A c \in Baboon : c # b => index'[c] = index[c] /\ most'[c] = most[c],
         s = "notify_own" => most'[b].rope = rope[b],
         s = "record" => index'[b] < ropesCount
  PROVE  BaboonsInv'
<1>1. \A c \in Baboon : place'[c] = IF c = b THEN s ELSE place[c]
  BY DEF BaboonsInv
<1>2. CountedAreThere'
  <2> SUFFICES ASSUME NEW y \in Rope, Releasing(y)' = {}
               PROVE  baboonsCount'[y] <= Cardinality(Entered(y)')
    BY DEF CountedAreThere
  <2>1. Releasing(y) = Releasing(y)' /\ Entered(y) = Entered(y)'
    BY <1>1 DEF Releasing, Entered
  <2> QED
    BY <2>1 DEF BaboonsInv, CountedAreThere
<1>3. place' \in [Baboon -> Step]
  BY DEF BaboonsInv
<1> QED
  BY <1>1, <1>2, <1>3 DEF BaboonsInv

LEMMA BaboonNotifies ==
  ASSUME BaboonsInv, NEW b \in Baboon, NotifyAll(b)
  PROVE  BaboonsInv'
<1> DEFINE own == most[b].rope
<1>1. /\ own \in Rope /\ place[b] \in {"notify_other", "notify_own"}
      /\ UNCHANGED <<baboonsCount, rope, index, most>>
      /\ place' = [c \in Baboon |->
                     IF c \in Waiting(own) THEN "crossed"
                     ELSE IF c # b THEN place[c]
                     ELSE IF place[b] = "notify_own" THEN "reset_own" ELSE "reset_other"]
      /\ b \notin Waiting(own)
  BY DEF NotifyAll, BaboonsInv, Waiting
<1>2. /\ place'[b] = IF place[b] = "notify_own" THEN "reset_own" ELSE "reset_other"
      /\ \A c \in Baboon : c # b =>
           place'[c] = IF place[c] = "waiting" /\ rope[c] = own THEN "crossed" ELSE place[c]
  BY <1>1 DEF Waiting
<1> HIDE DEF own
<1>3. CountedAreThere'
  <2> SUFFICES ASSUME NEW y \in Rope, Releasing(y)' = {}
               PROVE  baboonsCount'[y] <= Cardinality(Entered(y)')
    BY DEF CountedAreThere
  <2>1. y # own
    BY <1>1, <1>2 DEF Releasing, own
  <2>2. Releasing(y) = Releasing(y)' /\ Entered(y) = Entered(y)'
    BY <1>1, <1>2, <2>1 DEF Releasing, Entered, own
  <2> QED
    BY <1>1, <2>2 DEF BaboonsInv, CountedAreThere
<1>4. place' \in [Baboon -> Step]
  BY <1>1 DEF BaboonsInv, Step
<1>5. \A c \in Baboon :
        /\ place'[c] \in {"notify_own", "reset_own"} => most[c].rope = rope[c]
        /\ place'[c] = "record" => index[c] < ropesCount
  BY <1>1, <1>2 DEF BaboonsInv
<1> QED
  BY <1>1, <1>3, <1>4, <1>5 DEF BaboonsInv

LEMMA BaboonResets ==
  ASSUME BaboonsInv, NEW b \in Baboon, ResetCount(b)
  PROVE  BaboonsInv'
<1> DEFINE own == most[b].rope
<1>1. /\ own \in Rope /\ place[b] \in {"reset_other", "reset_own"}
      /\ UNCHANGED <<rope, index, most>>
      /\ baboonsCount' = [baboonsCount EXCEPT ![own] = 0]
      /\ place' = [place EXCEPT ![b] = IF place[b] = "reset_own" THEN "crossed" ELSE "to_wait"]
      /\ place[b] = "reset_own" => rope[b] = own
  BY DEF ResetCount, GoTo, BaboonsInv
<1>2. /\ place'[b] = IF place[b] = "reset_own" THEN "crossed" ELSE "to_wait"
      /\ \A c \in Baboon : c # b => place'[c] = place[c]
  BY <1>1 DEF BaboonsInv
<1>3. CountedAreThere'
  <2> SUFFICES ASSUME NEW y \in Rope, Releasing(y)' = {}
               PROVE  baboonsCount'[y] <= Cardinality(Entered(y)')
    BY DEF CountedAreThere
  <2>1. CASE y = own
    <3>1. baboonsCount'[y] = 0
      BY <1>1, <2>1 DEF BaboonsInv
    <3>2. Entered(y)' \subseteq Baboon
      BY DEF Entered
    <3>3. Cardinality(Entered(y)') \in Nat
      BY <3>2, BaboonsAssumption, FS_Subset, FS_CardinalityType
    <3> QED
      BY <3>1, <3>3
  <2>2. CASE y # own
    <3>1. Releasing(y) = Releasing(y)'
      BY <1>1, <1>2, <2>2 DEF Releasing
    <3>2. Entered(y) = Entered(y)'
      BY <1>1, <1>2, <2>2 DEF Entered
    <3>3. baboonsCount'[y] = baboonsCount[y]
      BY <1>1, <2>2 DEF BaboonsInv
    <3> QED
      BY <3>1, <3>2, <3>3 DEF BaboonsInv, CountedAreThere
  <2> QED
    BY <2>1, <2>2
<1>4. place' \in [Baboon -> Step] /\ baboonsCount' \in [Rope -> Nat]
  BY <1>1 DEF BaboonsInv, Step
<1>5. \A c \in Baboon :
        /\ place'[c] \in {"notify_own", "reset_own"} => most[c].rope = rope[c]
        /\ place'[c] = "record" => index[c] < ropesCount
  BY <1>1, <1>2 DEF BaboonsInv
<1> QED
  BY <1>1, <1>3, <1>4, <1>5 DEF BaboonsInv

LEMMA BaboonsStep == BaboonsInv /\ [BaboonsNext]_baboonVars => BaboonsInv'
<1> SUFFICES ASSUME BaboonsInv, [BaboonsNext]_baboonVars PROVE BaboonsInv'
  OBVIOUS
<1>1. CASE UNCHANGED baboonVars
  BY <1>1 DEF baboonVars, BaboonsInv, CountedAreThere, Releasing, Entered
<1>2. ASSUME NEW b \in Baboon, AddRope(b) PROVE BaboonsInv'
  <2>1. /\ place[b] = "sum" /\ index[b] < ropesCount
        /\ index' = [index EXCEPT ![b] = index[b] + 1]
        /\ UNCHANGED <<baboonsCount, place, rope, most>>
    BY <1>2 DEF AddRope
  <2>2. /\ index' \in [Baboon -> 0..ropesCount]
        /\ \A c \in Baboon : c # b => index'[c] = index[c]
    BY <2>1, Ropes DEF BaboonsInv
  <2>3. place' = [place EXCEPT ![b] = "sum"]
    BY <2>1 DEF BaboonsInv
  <2> QED
    BY <2>1, <2>2, <2>3, BaboonThinks DEF BaboonsInv, Step
<1>3. ASSUME NEW b \in Baboon, Decide(b) PROVE BaboonsInv'
  <2>1. PICK s \in {"scan", "to_wait"} : place' = [place EXCEPT ![b] = s]
    BY <1>3 DEF Decide, GoTo
  <2>2. /\ place[b] = "sum" /\ index' = [index EXCEPT ![b] = 0]
        /\ UNCHANGED <<baboonsCount, rope, most>>
    BY <1>3 DEF Decide
  <2>3. /\ index' \in [Baboon -> 0..ropesCount]
        /\ \A c \in Baboon : c # b => index'[c] = index[c]
    BY <2>2, Ropes DEF BaboonsInv
  <2> QED
    BY <2>1, <2>2, <2>3, BaboonThinks DEF BaboonsInv, Step
<1>4. ASSUME NEW b \in Baboon, CompareRope(b) PROVE BaboonsInv'
  <2>1. /\ place[b] = "scan" /\ index[b] < ropesCount
        /\ UNCHANGED <<baboonsCount, rope, most>>
        /\ \/ place' = [place EXCEPT ![b] = "record"] /\ index' = index
           \/ place' = place /\ index' = [index EXCEPT ![b] = index[b] + 1]
    BY <1>4 DEF CompareRope, GoTo
  <2>2. /\ index' \in [Baboon -> 0..ropesCount]
        /\ \A c \in Baboon : c # b => index'[c] = index[c]
    BY <2>1, Ropes DEF BaboonsInv
  <2>3. CASE place' = [place EXCEPT ![b] = "record"] /\ index' = index
    BY <2>1, <2>2, <2>3, BaboonThinks DEF BaboonsInv, Step
  <2>4. CASE place' = place /\ index' = [index EXCEPT ![b] = index[b] + 1]
    <3>1. place' = [place EXCEPT ![b] = "scan"]
      BY <2>1, <2>4 DEF BaboonsInv
    <3> QED
      BY <2>1, <2>2, <3>1, BaboonThinks DEF BaboonsInv, Step
  <2> QED
    BY <2>1, <2>3, <2>4
<1>5. ASSUME NEW b \in Baboon, RecordRope(b) PROVE BaboonsInv'
  <2> DEFINE found == [count |-> baboonsCount[index[b]], rope |-> index[b]]
  <2>1. /\ place[b] = "record" /\ index[b] < ropesCount
        /\ place' = [place EXCEPT ![b] = "scan"]
        /\ most' = [most EXCEPT ![b] = found]
        /\ index' = [index EXCEPT ![b] = index[b] + 1]
        /\ UNCHANGED <<baboonsCount, rope>>
    BY <1>5 DEF RecordRope, GoTo, BaboonsInv
  <2>2. /\ index' \in [Baboon -> 0..ropesCount] /\ index[b] \in Rope
        /\ \A c \in Baboon : c # b => index'[c] = index[c]
    BY <2>1, Ropes DEF BaboonsInv, Rope
  <2>3. found \in [count : Nat, rope : Rope]
    BY <2>2 DEF BaboonsInv
  <2> HIDE DEF found
  <2>4. /\ most' \in [Baboon -> [count : Nat, rope : Rope]]
        /\ \A c \in Baboon : c # b => most'[c] = most[c]
    BY <2>1, <2>3 DEF BaboonsInv
  <2> QED
    BY <2>1, <2>2, <2>4, BaboonThinks DEF Step
<1>6. ASSUME NEW b \in Baboon, Choose(b) PROVE BaboonsInv'
  <2>1. PICK s \in {"notify_own", "notify_other"} :
          /\ place' = [place EXCEPT ![b] = s]
          /\ s = "notify_own" => most[b].rope = rope[b]
    BY <1>6 DEF Choose, GoTo
  <2>2. place[b] = "scan" /\ UNCHANGED <<baboonsCount, rope, index, most>>
    BY <1>6 DEF Choose
  <2> QED
    BY <2>1, <2>2, BaboonThinks DEF BaboonsInv, Step
<1>7. ASSUME NEW b \in Baboon, WaitOnRope(b) \/ SpuriousWakeup(b) PROVE BaboonsInv'
  <2>1. PICK s \in {"waiting", "strayed"} : place' = [place EXCEPT ![b] = s]
    BY <1>7 DEF WaitOnRope, SpuriousWakeup, GoTo
  <2>2. /\ place[b] \in {"to_wait", "waiting"}
        /\ UNCHANGED <<baboonsCount, rope, index, most>>
    BY <1>7 DEF WaitOnRope, SpuriousWakeup
  <2> QED
    BY <2>1, <2>2, BaboonThinks DEF BaboonsInv, Step
<1> QED
  BY <1>1, <1>2, <1>3, <1>4, <1>5, <1>6, <1>7, BaboonEnters, BaboonNotifies, BaboonResets
     DEF BaboonsNext

(* Whichever releases overlap, and for any number of baboons and ropes: a  *)
(* rope that nobody is releasing counts no baboon that has left it.        *)
THEOREM CountedAreThereHolds == BaboonsSpec => []CountedAreThere
<1>1. BaboonsInit => BaboonsInv
  <2> SUFFICES ASSUME BaboonsInit PROVE BaboonsInv
    OBVIOUS
  <2>1. CountedAreThere
    <3> SUFFICES ASSUME NEW y \in Rope PROVE baboonsCount[y] <= Cardinality(Entered(y))
      BY DEF CountedAreThere
    <3>1. baboonsCount[y] = 0
      BY DEF BaboonsInit
    <3> QED
      BY <3>1, EnteredFinite
  <2> QED
    BY <2>1, Ropes DEF BaboonsInit, BaboonsInv, Step
<1>2. BaboonsInv => CountedAreThere
  BY DEF BaboonsInv
<1> QED
  BY <1>1, <1>2, BaboonsStep, PTL DEF BaboonsSpec
=============================================================================
