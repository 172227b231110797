----------------------------- MODULE PotatoGames -----------------------------
(***************************************************************************)
(* The three versions of the hot potato with the same arguments: processes *)
(* with semaphores and shared memory (PotatoRing), threads (PotatoThreads) *)
(* and processes with message queues (PotatoMail).  `version` is the one   *)
(* that is started; the variables of the others keep their first values.   *)
(***************************************************************************)
EXTENDS PotatoThreads

VARIABLES
  version,
  mail, mailFinished, copies, mailMem, mailPc, mailMain   (* of PotatoMail *)

mailVars == <<mail, mailFinished, copies, mailMem, mailPc, mailMain>>
gamesVars == <<version, threadVars, mailVars>>

Mail == INSTANCE PotatoMail WITH
  canAccessPotato <- mail, finished <- mailFinished, p <- copies,
  mem <- mailMem, pc <- mailPc, main <- mailMain

ASSUME Mail!MailAssumption

GamesInit ==
  /\ version \in {"processes", "threads", "messages"}
  /\ ThreadsInit /\ Mail!Init

mainStep ==
  \/ version = "processes" /\ mainProcess /\ UNCHANGED <<cleanUpVars, mailVars>>
  \/ version = "threads" /\ mainThread /\ UNCHANGED mailVars
  \/ version = "messages" /\ Mail!mainProcess /\ UNCHANGED threadVars

playerStep(k) ==
  \/ /\ version = "processes" /\ potatoGame(k)
     /\ UNCHANGED <<cleanUpVars, mailVars>>
  \/ version = "threads" /\ potato_game(k) /\ UNCHANGED mailVars
  \/ version = "messages" /\ Mail!potatoGame(k + 1) /\ UNCHANGED threadVars

GamesNext ==
  (mainStep \/ \E k \in Players : playerStep(k)) /\ UNCHANGED version

(* Every process and every thread runs.                                    *)
GamesFairSpec ==
  /\ GamesInit /\ [][GamesNext]_gamesVars
  /\ WF_gamesVars(mainStep /\ UNCHANGED version)
  /\ \A k \in Players : WF_gamesVars(playerStep(k) /\ UNCHANGED version)

-----------------------------------------------------------------------------
(* Properties of PotatoMail; those of the others are in their modules.     *)

(* The variables of every version keep their types: a potato is -1 or      *)
(* positive and rounds, winners and counters stay in range.                *)
GamesTypeOK == ThreadsTypeOK /\ Mail!MailTypeOK

(* One potato is in the post or in one player's hands, though every        *)
(* process has a copy of it and no semaphore guards any.                   *)
OnePotato == Mail!OneToken

(* Main, which takes the first message for the winner's and then waits for *)
(* blank ones, gets them in that order: it announces the player that went  *)
(* out last, and only Start or fork can make it fail.                      *)
MainReadsInOrder == Mail!MainReadsInOrder

(* All three implement the elimination of readme.md.                       *)
GamesSpec == Game!Spec /\ Mail!GameSpec

UnderWay ==
  IF version = "messages" THEN mailMain.at = "winner" ELSE main.at = "wait"

Over ==
  IF version = "messages"
  THEN mailMain.at = "gone" /\ \A i \in Mail!Players : mailPc[i] = "gone"
  ELSE /\ main.at = "gone" /\ \A i \in Players : pc[i] = "gone"
       /\ version = "threads" => freed

(* A game that has all its players comes to an end: nobody is left waiting *)
(* for the potato, main gets all its answers and clean_up all its threads. *)
GameEnds == UnderWay ~> Over

=============================================================================
