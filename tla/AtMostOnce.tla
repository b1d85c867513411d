----------------------------- MODULE AtMostOnce -----------------------------
(***************************************************************************)
(* What an authenticated datagram channel promises, whatever the network   *)
(* does: a message is delivered only if it was sent, and at most once.     *)
(* Loss and reordering are allowed, so delivery is neither promised nor    *)
(* ordered.  Messages are the sequence numbers the sender gives them.      *)
(***************************************************************************)
EXTENDS Naturals

CONSTANT Message            \* the messages that can be sent

VARIABLES sent,             \* messages the sender has put on the channel
          delivered         \* how many times each message was delivered

Init == /\ sent = {}
        /\ delivered = [m \in Message |-> 0]

Send == \E m \in Message \ sent :
           /\ sent' = sent \cup {m}
           /\ UNCHANGED delivered

Deliver == \E m \in sent :
              /\ delivered[m] = 0
              /\ delivered' = [delivered EXCEPT ![m] = 1]
              /\ UNCHANGED sent

Next == Send \/ Deliver

Spec == Init /\ [][Next]_<<sent, delivered>>
=============================================================================
