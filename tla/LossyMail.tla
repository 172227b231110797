------------------------------ MODULE LossyMail ------------------------------
(***************************************************************************)
(* What network.h and post.h promise a pair of machines: "ordered,         *)
(* unreliable" delivery into mailboxes.  What is sent to a machine is lost *)
(* on the spot or arrives, in order, in the mailbox it names.              *)
(***************************************************************************)
EXTENDS Sequences

CONSTANTS Machine, Box, Mail

VARIABLES
  wire,  (* machine -> mail on its way to it                               *)
  box    (* machine -> mailbox -> mail that has arrived                    *)

Init ==
  /\ wire = [m \in Machine |-> <<>>]
  /\ box = [m \in Machine |-> [b \in Box |-> <<>>]]

Send(mail) == wire' = [wire EXCEPT ![mail.to] = Append(@, mail)] /\ UNCHANGED box

Arrive(m) ==
  /\ wire[m] # <<>>
  /\ wire' = [wire EXCEPT ![m] = Tail(@)]
  /\ box' = [box EXCEPT ![m][Head(wire[m]).box] = Append(@, Head(wire[m]))]

Receive(m, b) ==
  /\ box[m][b] # <<>>
  /\ box' = [box EXCEPT ![m][b] = Tail(@)]
  /\ UNCHANGED wire

Next ==
  \/ \E mail \in Mail : Send(mail)
  \/ \E m \in Machine : Arrive(m) \/ \E b \in Box : Receive(m, b)

Spec == Init /\ [][Next]_<<wire, box>>

=============================================================================
