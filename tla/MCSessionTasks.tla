--------------------------- MODULE MCSessionTasks ---------------------------
(* SessionTasks for TLC.                                                     *)
EXTENDS SessionTasks

\* Bound: side 1 sends messages and heartbeats, side 2 only its GoodBye.  The
\* watchdog of side 1, on which nothing depends, gives up only after both sessions
\* are over and the connection has failed.
OneWay == /\ \A k \in Data : sent[2][k] = 0
          /\ \A i \in 1 .. Len(writeq[2]) : writeq[2][i] # Heartbeat
          /\ late # {} => broken /\ senders = {} /\ late = {1}

OneWaySpec == Init /\ [][Next /\ OneWay']_vars /\ Fairness
=============================================================================
