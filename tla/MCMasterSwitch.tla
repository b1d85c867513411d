--------------------------- MODULE MCMasterSwitch ---------------------------
(* Instances of MasterSwitch for TLC.                                       *)
EXTENDS MasterSwitch

\* Bound of the run with two peers: one registration or on_close at a time.
OneRegistryOperation == Cardinality(registering) + Cardinality(closing) <= 1

OneSpec == Init /\ [][Next /\ OneRegistryOperation']_vars /\ Fairness

\* Bound of the run with two captures: the second is started with the peer in the
\* grid, and from then on nobody registers or closes (sessions end by their death), no
\* send blocks, and one of the loops has no event to read.
QuietRegistry ==
  Cardinality({c \in Capture : thread[c] # "none"}) > 1
     => /\ registering = {} /\ closing = {} /\ grid = Peer /\ sessions = Peer
        /\ \A p \in Peer : chan[p] # "stalled"
        /\ \E c \in Capture : queue[c] = <<>>
=============================================================================
