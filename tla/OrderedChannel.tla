--------------------------- MODULE OrderedChannel ---------------------------
(* What a typed channel of a session promises: the messages of each link are *)
(* delivered in the order they were sent, each once, none skipped.  A link   *)
(* may stop delivering at any point.                                         *)
EXTENDS Naturals

CONSTANT Link

VARIABLES sent,  \* link -> messages sent on it
          got    \* link -> the last of them that was delivered

Init == sent = [l \in Link |-> 0] /\ got = [l \in Link |-> 0]

Send(l) == sent' = [sent EXCEPT ![l] = @ + 1] /\ UNCHANGED got

Deliver(l) == got[l] < sent[l] /\ got' = [got EXCEPT ![l] = @ + 1] /\ UNCHANGED sent

Next == \E l \in Link : Send(l) \/ Deliver(l)

Spec == Init /\ [][Next]_<<sent, got>>
=============================================================================
