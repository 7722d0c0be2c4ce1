--------------------------- MODULE MessageStream ---------------------------
(***************************************************************************)
(* What a reliable message transport promises: the messages that were sent *)
(* are delivered whole, once each and in order.                            *)
(***************************************************************************)
EXTENDS Naturals, Sequences

CONSTANT Message

VARIABLES
  sent,       \* the messages accepted so far, in order
  delivered   \* those that were handed to the receiver so far

vars == <<sent, delivered>>

Init == sent = <<>> /\ delivered = <<>>

SendMessage(m) ==
  /\ sent' = Append(sent, m)
  /\ UNCHANGED delivered

DeliverNext ==
  /\ Len(delivered) < Len(sent)
  /\ delivered' = Append(delivered, sent[Len(delivered) + 1])
  /\ UNCHANGED sent

Next == DeliverNext \/ \E m \in Message : SendMessage(m)

Spec == Init /\ [][Next]_vars
=============================================================================
