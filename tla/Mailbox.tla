------------------------------- MODULE Mailbox -------------------------------
(***************************************************************************)
(* What the bus promises about one inbox: a message is put at the end, once *)
(* and for good; its sender is told so only after that; and all that may    *)
(* ever change about it is that it gets acknowledged.                       *)
(***************************************************************************)
EXTENDS Sequences, Naturals

CONSTANT Message

VARIABLES
  box,    \* the messages in the order of their arrival, each acked or not
  sent    \* the messages whose sender was told that they arrived

vars == <<box, sent>>

Mail == [m : Message, acked : BOOLEAN]

In(m) == \E i \in 1 .. Len(box) : box[i].m = m

Init == box = <<>> /\ sent = {}

Deliver(m) ==
  /\ ~ In(m)
  /\ box' = Append(box, [m |-> m, acked |-> FALSE])
  /\ UNCHANGED sent

Confirm(m) ==
  /\ In(m)
  /\ sent' = sent \cup {m}
  /\ UNCHANGED box

Acknowledge(I) ==
  /\ box' = [i \in 1 .. Len(box) |->
               [m |-> box[i].m, acked |-> box[i].acked \/ box[i].m \in I]]
  /\ UNCHANGED sent

Next ==
  \/ \E m \in Message : Deliver(m) \/ Confirm(m)
  \/ \E I \in SUBSET Message : Acknowledge(I)

Spec == Init /\ [][Next]_vars
=============================================================================
