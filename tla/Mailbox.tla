-------------------------------- MODULE Mailbox --------------------------------
(***************************************************************************)
(* What the queue of a driver thread promises: every message that was      *)
(* accepted is taken by the thread once, unchanged and in the order of     *)
(* acceptance, one at a time, unless it may be withdrawn and is, its turn   *)
(* comes while messages are refused, or the queue is destroyed.            *)
(***************************************************************************)
EXTENDS Sequences, SequencesExt

CONSTANTS
  Messages,
  Nobody,       \* not a message
  Withdrawable  \* the messages that may be withdrawn

VARIABLES
  box,   \* the messages that are waiting, the oldest one first
  hand,  \* the message the thread is working on, or Nobody
  open,  \* the queue has not been destroyed
  shut   \* messages are refused for now; not a part of the queue

Init == box = <<>> /\ hand = Nobody /\ open = TRUE

Post(m) == box' = Append(box, m) /\ UNCHANGED <<hand, open>>
Take    == /\ box # <<>> /\ hand = Nobody
           /\ hand' = Head(box) /\ box' = Tail(box) /\ UNCHANGED open
Refuse  == /\ shut /\ box # <<>> /\ hand = Nobody
           /\ box' = Tail(box) /\ UNCHANGED <<hand, open>>
Finish  == hand # Nobody /\ hand' = Nobody /\ UNCHANGED <<box, open>>
Destroy == open = TRUE /\ open' = FALSE /\ box' = <<>> /\ UNCHANGED hand

\* of a message that is there twice, only the older one is withdrawn
Withdraw(m) == box' = RemoveFirst(box, m) /\ UNCHANGED <<hand, open>>

Next == \/ \E m \in Messages : Post(m)
        \/ \E m \in Withdrawable : Withdraw(m)
        \/ Take \/ Refuse \/ Finish \/ Destroy
Spec == Init /\ [][Next]_<<box, hand, open>>
=============================================================================
