----------------------------- MODULE PostOffice -----------------------------
(***************************************************************************)
(* Two NachOS machines with the network device of machine/network.cc and   *)
(* the post office of network/post.cc, and the threads that use it: the    *)
(* main thread runs MailTest of network/nettest.cc and halts its machine,  *)
(* the others send one mail to box 2 of the other machine.                 *)
(*                                                                         *)
(* Semaphores, locks and SynchList are what MesaMonitor and SynchList say: *)
(* an operation is one step, enabled when it would not sleep.  A machine's *)
(* threads and interrupts interleave in any way, as with -rs.              *)
(***************************************************************************)
EXTENDS Integers, Sequences, FiniteSets

CONSTANTS
  Machine,    (* network addresses                                         *)
  Main,       (* machine -> its main thread                                *)
  Pen,        (* machine -> its other threads                              *)
  NULL

Threads == {Main[m] : m \in Machine} \union UNION {Pen[m] : m \in Machine}

Box == 0..2

(* A mail: where to, its return box, who wrote it.  All ask for answers in *)
(* box 1.                                                                  *)
Mail == [to : Machine, box : Box, from : {1}, by : Threads]

ASSUME PostAssumption ==
  /\ IsFiniteSet(Machine) /\ Cardinality(Machine) = 2
  /\ \A m, n \in Machine : m # n => Main[m] # Main[n] /\ Pen[m] \intersect Pen[n] = {}
  /\ \A m, n \in Machine : Main[m] \notin Pen[n]
  /\ NULL \notin Threads \union Mail

Home(t) == CHOOSE m \in Machine : t = Main[m] \/ t \in Pen[m]
Far(m) == CHOOSE n \in Machine : n # m
IsMain(t) == t = Main[Home(t)]

VARIABLES
  reliable,          (* machine -> chanceToWork is 1                       *)
  pc, letter,        (* what a thread does next, and with which mail       *)
  sendLock,          (* machine -> the thread that holds it                *)
  messageSent, messageAvailable,    (* machine -> value of the semaphore   *)
  sendDone,          (* machine -> NetworkSendInt interrupts pending       *)
  socket,            (* machine -> packets in its UNIX socket              *)
  inbox,             (* machine -> the buffered packet, NULL if none       *)
  worker, hand,      (* machine -> what PostalDelivery does, with its mail *)
  boxes,             (* machine -> mailbox -> mail                         *)
  up,                (* machine -> "up", "halted" or "aborted"             *)
  heard              (* thread -> the mails it has received                *)

threadVars == <<pc, letter, heard>>
officeVars == <<sendLock, messageSent, messageAvailable, worker, hand,
                boxes>>
netVars == <<sendDone, socket, inbox>>
postVars == <<reliable, threadVars, officeVars, netVars, up>>

PostTypeOK ==
  /\ reliable \in [Machine -> BOOLEAN]
  /\ pc \in [Threads -> {"lock", "network", "sent", "unlock",
                         "hello", "ack", "halt", "done"}]
  /\ letter \in [Threads -> Mail]
  /\ sendLock \in [Machine -> Threads \union {NULL}]
  /\ messageSent \in [Machine -> 0..1]
  /\ messageAvailable \in [Machine -> 0..1]
  /\ sendDone \in [Machine -> 0..1]
  /\ socket \in [Machine -> Seq(Mail)]
  /\ inbox \in [Machine -> Mail \union {NULL}]
  /\ worker \in [Machine -> {"wait", "fetch", "put"}]
  /\ hand \in [Machine -> Mail \union {NULL}]
  /\ boxes \in [Machine -> [Box -> Seq(Mail)]]
  /\ up \in [Machine -> {"up", "halted", "aborted"}]
  /\ heard \in [Threads -> Seq(Mail)]

(* MailTest says hello to box 0, with return box 1.                        *)
Hello(t) ==
  [to |-> Far(Home(t)), box |-> IF IsMain(t) THEN 0 ELSE 2, from |-> 1, by |-> t]

(* Both machines are up before either sends (Delay(2) in main.cc).         *)
PostInit ==
  /\ reliable \in [Machine -> BOOLEAN]
  /\ \E idle \in SUBSET {t \in Threads : ~ IsMain(t)} :
       pc = [t \in Threads |-> IF t \in idle THEN "done" ELSE "lock"]
  /\ letter = [t \in Threads |-> Hello(t)]
  /\ sendLock = [m \in Machine |-> NULL]
  /\ messageSent = [m \in Machine |-> 0]
  /\ messageAvailable = [m \in Machine |-> 0]
  /\ sendDone = [m \in Machine |-> 0]
  /\ socket = [m \in Machine |-> <<>>]
  /\ inbox = [m \in Machine |-> NULL]
  /\ worker = [m \in Machine |-> "wait"] /\ hand = [m \in Machine |-> NULL]
  /\ boxes = [m \in Machine |-> [b \in Box |-> <<>>]]
  /\ up = [m \in Machine |-> "up"]
  /\ heard = [t \in Threads |-> <<>>]

-----------------------------------------------------------------------------
(* PostOffice::Send.                                                       *)

Step(t, from, to) ==
  /\ up[Home(t)] = "up" /\ pc[t] = from /\ pc' = [pc EXCEPT ![t] = to]

LockSend(t) ==
  /\ Step(t, "lock", "network")
  /\ sendLock[Home(t)] = NULL
  /\ sendLock' = [sendLock EXCEPT ![Home(t)] = t]
  /\ UNCHANGED <<reliable, letter, heard, messageSent, messageAvailable,
                 worker, hand, boxes, netVars, up>>

(* Network::Send: the interrupt is scheduled, then the packet is lost or   *)
(* put in the other's socket.  With no such socket the program aborts.     *)
NetworkSend(t) ==
  LET m == Home(t)  mail == letter[t] IN
  /\ Step(t, "network", "sent")
  /\ sendDone' = [sendDone EXCEPT ![m] = @ + 1]
  /\ \/ ~ reliable[m] /\ UNCHANGED <<socket, up>>
     \/ up[mail.to] = "up" /\ UNCHANGED up
        /\ socket' = [socket EXCEPT ![mail.to] = Append(@, mail)]
     \/ up[mail.to] # "up" /\ UNCHANGED socket
        /\ up' = [up EXCEPT ![m] = "aborted"]
  /\ UNCHANGED <<reliable, letter, heard, officeVars, inbox>>

AwaitSent(t) ==
  LET m == Home(t) IN
  /\ Step(t, "sent", "unlock")
  /\ messageSent[m] > 0
  /\ messageSent' = [messageSent EXCEPT ![m] = @ - 1]
  /\ UNCHANGED <<reliable, letter, heard, sendLock, messageAvailable, worker,
                 hand, boxes, netVars, up>>

(* The end of Send, and what its caller does next: MailTest sends a hello, *)
(* waits for the other's, sends an ack, waits for the other's, and halts.  *)
UnlockSend(t) ==
  LET then == IF ~ IsMain(t) THEN "done"
              ELSE IF heard[t] = <<>> THEN "hello" ELSE "ack"
  IN  /\ Step(t, "unlock", then)
      /\ sendLock' = [sendLock EXCEPT ![Home(t)] = NULL]
      /\ UNCHANGED <<reliable, letter, heard, messageSent, messageAvailable,
                     worker, hand, boxes, netVars, up>>

-----------------------------------------------------------------------------
(* PostOffice::Receive: MailBox::Get takes the oldest mail of a box.       *)

Get(t, b) ==
  LET m == Home(t) IN
  /\ boxes[m][b] # <<>>
  /\ heard' = [heard EXCEPT ![t] = Append(@, Head(boxes[m][b]))]
  /\ boxes' = [boxes EXCEPT ![m][b] = Tail(@)]

(* Mutant: the ack goes to inPktHdr.to.                                    *)
ReplyToSelf(mail, t) ==
  [to |-> mail.to, box |-> mail.from, from |-> 1, by |-> t]

(* The ack goes back to the sender's machine, to its return box.           *)
Reply(mail, t) ==
  [to |-> Home(mail.by), box |-> mail.from, from |-> 1, by |-> t]

ReceiveHello(t) ==
  /\ Step(t, "hello", "lock") /\ Get(t, 0)
  /\ letter' = [letter EXCEPT ![t] = Reply(Head(boxes[Home(t)][0]), t)]
  /\ UNCHANGED <<reliable, sendLock, messageSent, messageAvailable, worker,
                 hand, netVars, up>>

ReceiveAck(t) ==
  /\ Step(t, "ack", "halt") /\ Get(t, 1)
  /\ UNCHANGED <<reliable, letter, sendLock, messageSent, messageAvailable,
                 worker, hand, netVars, up>>

(* interrupt->Halt(): the machine stops, whatever its other threads do.    *)
Halt(t) ==
  /\ Step(t, "halt", "done")
  /\ up' = [up EXCEPT ![Home(t)] = "halted"]
  /\ UNCHANGED <<reliable, letter, heard, officeVars, netVars>>

-----------------------------------------------------------------------------
(* The network's interrupts.                                               *)

(* Mutant: the post office is not told.                                    *)
SendDoneQuietly(m) ==
  /\ up[m] = "up" /\ sendDone[m] > 0
  /\ sendDone' = [sendDone EXCEPT ![m] = @ - 1]
  /\ UNCHANGED <<reliable, threadVars, officeVars, socket, inbox, up>>

(* Network::SendDone and PostOffice::PacketSent, lost packet or not.       *)
SendDone(m) ==
  /\ up[m] = "up" /\ sendDone[m] > 0
  /\ sendDone' = [sendDone EXCEPT ![m] = @ - 1]
  /\ messageSent' = [messageSent EXCEPT ![m] = @ + 1]
  /\ UNCHANGED <<reliable, threadVars, sendLock, messageAvailable, worker,
                 hand, boxes, socket, inbox, up>>

(* Mutant: the buffered packet is not looked at.                           *)
BufferIgnored(m) == TRUE

BufferFree(m) == inbox[m] = NULL

(* Network::CheckPktAvail, when there is a packet and room for it, and     *)
(* PostOffice::IncomingPacket.                                             *)
CheckPktAvail(m) ==
  /\ up[m] = "up" /\ BufferFree(m) /\ socket[m] # <<>>
  /\ inbox' = [inbox EXCEPT ![m] = Head(socket[m])]
  /\ socket' = [socket EXCEPT ![m] = Tail(@)]
  /\ messageAvailable' = [messageAvailable EXCEPT ![m] = @ + 1]
  /\ UNCHANGED <<reliable, threadVars, sendLock, messageSent, worker, hand,
                 boxes, sendDone, up>>

-----------------------------------------------------------------------------
(* PostOffice::PostalDelivery, the worker thread.                          *)

AwaitPacket(m) ==
  /\ up[m] = "up" /\ worker[m] = "wait" /\ messageAvailable[m] > 0
  /\ messageAvailable' = [messageAvailable EXCEPT ![m] = @ - 1]
  /\ worker' = [worker EXCEPT ![m] = "fetch"]
  /\ UNCHANGED <<reliable, threadVars, sendLock, messageSent, hand, boxes, netVars,
                 up>>

(* Network::Receive empties the buffer.                                    *)
Fetch(m) ==
  /\ up[m] = "up" /\ worker[m] = "fetch"
  /\ worker' = [worker EXCEPT ![m] = "put"]
  /\ hand' = [hand EXCEPT ![m] = inbox[m]]
  /\ inbox' = [inbox EXCEPT ![m] = NULL]
  /\ UNCHANGED <<reliable, threadVars, sendLock, messageSent, messageAvailable,
                 boxes, sendDone, socket, up>>

(* MailBox::Put.                                                           *)
Put(m) ==
  /\ up[m] = "up" /\ worker[m] = "put"
  /\ boxes' = [boxes EXCEPT ![m][hand[m].box] = Append(@, hand[m])]
  /\ worker' = [worker EXCEPT ![m] = "wait"]
  /\ hand' = [hand EXCEPT ![m] = NULL]
  /\ UNCHANGED <<reliable, threadVars, sendLock, messageSent, messageAvailable,
                 netVars, up>>

-----------------------------------------------------------------------------
Thread(t) ==
  \/ LockSend(t) \/ NetworkSend(t) \/ AwaitSent(t) \/ UnlockSend(t)
  \/ ReceiveHello(t) \/ ReceiveAck(t) \/ Halt(t)

Interrupts(m) == SendDone(m) \/ CheckPktAvail(m)

Worker(m) == AwaitPacket(m) \/ Fetch(m) \/ Put(m)

PostNext ==
  \/ \E t \in Threads : Thread(t)
  \/ \E m \in Machine : Interrupts(m) \/ Worker(m)

(* Each machine goes on executing its threads, and its clock its           *)
(* interrupts.  A lost packet is not retried, so nothing is said of it.    *)
PostSpec ==
  /\ PostInit /\ [][PostNext]_postVars
  /\ \A t \in Threads : WF_postVars(Thread(t))
  /\ \A m \in Machine : WF_postVars(Interrupts(m)) /\ WF_postVars(Worker(m))

-----------------------------------------------------------------------------
(* Properties.                                                             *)

Held(x) == IF x = NULL THEN <<>> ELSE <<x>>

(* network.h promises "ordered, unreliable" delivery and post.h mailboxes: *)
(* through socket, one-packet buffer and worker a mail that is not lost    *)
(* when sent arrives once, in order, in its box; nothing is overwritten.   *)
Post == INSTANCE LossyMail WITH
  wire <- [m \in Machine |-> Held(hand[m]) \o Held(inbox[m]) \o socket[m]],
  box <- boxes

LossyMailSpec == Post!Spec

(* MailTest's last Receive is an acknowledgement: who has it knows that    *)
(* the other machine received its hello, whatever was lost.                *)
AckMeansDelivered ==
  \A t \in Threads :
    IsMain(t) /\ Len(heard[t]) = 2 =>
      LET other == heard[Main[Far(Home(t))]] IN
      other # <<>> /\ Head(other).by = t

(* post.cc:281-284 waits for the network, not for the receiver: a Send     *)
(* returns though its packet is lost, also with others sending.            *)
SendReturns ==
  \A t \in Threads :
    pc[t] = "sent" ~> pc[t] # "sent" \/ up[Home(t)] # "up"

=============================================================================
