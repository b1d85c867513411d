-------------------------- MODULE MCSessionRegistry --------------------------
(* Instances of SessionRegistry, with the disciplines its findings compare.  *)
EXTENDS SessionRegistry, TLC

Symmetry == Permutations(Device)

\* The operations that have begun and not ended.
UnderWay == UNION {Work(d) : d \in Device}

\* What a single worker thread would give: operations do not interleave.
OneAtATime == Cardinality(UnderWay) <= 1

\* What would hold if a device opened a connection only once both ends knew
\* that the one before was over.
OneEach == \A x, y \in Conn : x # y /\ dev[x] = dev[y] /\ dev[x] # None => Over(x) \/ Over(y)

NeverStopped == running

Commands == {w \in UnderWay : w[1] # "close"}

\* Bounds of the passing run: a registration, an unpairing, an announcement or a
\* stop begins when no other one is under way; nothing begins, and no connection
\* is opened, once two operations on a device have met; the first connection is
\* accepted here and the second one opened here.  Ends of connections and the
\* steps of on_close are never held back, and meet whatever is under way.
Bounded ==
  /\ Commands' \ Commands # {} => Cardinality(Commands') = 1 /\ crossed = {}
  /\ dev' # dev => crossed = {}
  /\ \A x \in Conn : via'[x] \in {"none", IF x = 1 THEN "in" ELSE "out"}

BoundedSpec == Init /\ [][Next /\ Bounded]_vars /\ Fairness

\* Operations one at a time, one connection per device.
SerialSpec == Init /\ [][Next /\ (OneAtATime /\ OneEach)']_vars

\* Operations one at a time, connections to a device may overlap.
OverlapSpec == Init /\ [][Next /\ (OneAtATime /\ NeverStopped)']_vars

\* One connection per device, operations interleave.
PreemptSpec == Init /\ [][Next /\ (OneEach /\ NeverStopped)']_vars
=============================================================================
