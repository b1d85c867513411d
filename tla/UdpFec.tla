------------------------------- MODULE UdpFec -------------------------------
(***************************************************************************)
(* Frames over UDP with forward error correction (okvm-udp): the sender    *)
(* seals a frame and sends it as K + M shards, the receiver collects the   *)
(* shards of each frame, decodes the frame from the first K distinct ones  *)
(* and opens it.  Nonces and window are those of ReplayWindow, which this  *)
(* module extends; its counters number the frames.                         *)
(*                                                                         *)
(* The network loses, duplicates, reorders and corrupts: any shard of a    *)
(* frame that was sealed may arrive at any time and any number of times.   *)
(* So may a corrupted one, with any number.  What is not sent for an I/O   *)
(* error or its size is lost; datagrams of another source, of other FEC    *)
(* parameters or that cannot be parsed change nothing.  The erasure code   *)
(* is ideal: K distinct shards give the frame, unless one is corrupted.    *)
(***************************************************************************)
EXTENDS ReplayWindow, Sequences, FiniteSets

CONSTANTS K,         \* data_shards
          M,         \* parity_shards
          Capacity,  \* MAX_PENDING_FRAMES
          Remember   \* length of the list of resolved frames (256)

ASSUME FecAssumption == /\ K \in Nat \ {0} /\ M \in Nat
                        /\ Capacity \in Nat \ {0} /\ Remember \in Nat \ {0}

VARIABLES pending,   \* frame -> indexes of the shards collected; {}: no entry
          before,    \* pairs of pending frames, the first inserted before the second
          spoiled,   \* pending frames with a corrupted shard
          resolved,  \* frames decoded, the latest ones, in order
          arrived,   \* history: frame -> indexes of the genuine shards received
          dropped    \* history: frames evicted, timed out or spoiled

fecVars == <<vars, pending, before, spoiled, resolved, arrived, dropped>>

Index == 0 .. K + M - 1
Pending == {s \in Counter : pending[s] # {}}
Resolved == {resolved[j] : j \in 1 .. Len(resolved)}

FecInit == /\ Init
           /\ pending = [s \in Counter |-> {}]
           /\ before = {} /\ spoiled = {} /\ resolved = <<>>
           /\ arrived = [s \in Counter |-> {}]
           /\ dropped = {}

-----------------------------------------------------------------------------
\* send_frame: all shards are on the network once the frame is sealed, or lost.
SendFrame == Seal /\ UNCHANGED <<pending, before, spoiled, resolved, arrived, dropped>>

\* A pending frame not inserted after another one.
IsFirst(s) == s \in Pending /\ \A t \in Pending : <<t, s>> \notin before

\* drain_stale: the frame pending for longest has waited for assemble_timeout.
DrainStale(s) ==
  /\ IsFirst(s)
  /\ pending' = [pending EXCEPT ![s] = {}]
  /\ before' = {e \in before : e[1] # s}
  /\ spoiled' = spoiled \ {s}
  /\ dropped' = dropped \cup {s}
  /\ UNCHANGED <<vars, resolved, arrived>>

\* The first key of the BTreeMap.
Smallest == {t \in Pending : \A u \in Pending : t <= u}

\* The frames removed for a shard of s: a new frame that finds the map full takes the
\* place of the smallest.
Evicted(s) ==
  IF pending[s] = {} /\ Cardinality(Pending) >= Capacity
    THEN {{t} : t \in Smallest} ELSE {{}}

\* Mutant: a shard of a pending frame starts it again (insert for or_insert_with).
CollectedAnew(s, i) == {i}

\* A shard that is there already is not counted again.
Collected(s, i) == pending[s] \cup {i}

\* Frames with a corrupted shard, after that one was collected.
Spoils(s, i, good) == IF good \/ i \in pending[s] THEN spoiled ELSE spoiled \cup {s}

\* Fewer than K shards: the entry is kept, without the one evicted.
Keep(s, gone, have, bad) ==
  /\ pending' = [t \in Counter |-> IF t = s THEN have
                                   ELSE IF t \in gone THEN {} ELSE pending[t]]
  /\ before' = {e \in before : e[1] \notin gone /\ e[2] \notin gone}
               \cup IF pending[s] = {} THEN (Pending \ gone) \X {s} ELSE {}
  /\ spoiled' = bad \ gone
  /\ UNCHANGED <<vars, resolved>>

\* mark_resolved
MarkResolved(s) == Append(IF Len(resolved) >= Remember THEN Tail(resolved) ELSE resolved, s)

\* K shards: the frame is resolved, whether it opens or not.
Complete(s, gone, bad) ==
  /\ pending' = [t \in Counter |-> IF t \in gone \cup {s} THEN {} ELSE pending[t]]
  /\ before' = {e \in before : e[1] \notin gone \cup {s} /\ e[2] \notin gone \cup {s}}
  /\ spoiled' = bad \ (gone \cup {s})
  /\ resolved' = MarkResolved(s)
  /\ IF s \in bad THEN OpenCorrupt(s) ELSE OpenAuthentic(s)

\* Any K distinct shards determine the frame.
Enough(have) == Cardinality(have) >= K

\* Mutant: the list of resolved frames is not consulted.
TakesAnyFrame(s) == TRUE

\* The shards of resolved frames are ignored.
Takes(s) == s \notin Resolved

\* One round of recv_frame with one datagram, genuine or corrupted.
RecvShard(s, i, good) ==
  /\ good => s \in Sealed
  /\ arrived' = IF good THEN [arrived EXCEPT ![s] = @ \cup {i}] ELSE arrived
  /\ \/ /\ ~Takes(s)
        /\ UNCHANGED <<vars, pending, before, spoiled, resolved, dropped>>
     \/ /\ Takes(s)
        /\ \E gone \in Evicted(s) :
             LET have == Collected(s, i)
                 bad == Spoils(s, i, good)
             IN /\ dropped' = dropped \cup gone \cup bad
                /\ \/ ~Enough(have) /\ Keep(s, gone, have, bad)
                   \/ Enough(have) /\ Complete(s, gone, bad)

FecNext == \/ SendFrame
           \/ \E s \in Counter : DrainStale(s)
           \/ \E s \in Counter, i \in Index, good \in BOOLEAN : RecvShard(s, i, good)

FecSpec == FecInit /\ [][FecNext]_fecVars

-----------------------------------------------------------------------------
\* The two limits are part of the types: entries that are pending, and frames remembered.
FecTypeOK ==
  /\ TypeOK
  /\ pending \in [Counter -> SUBSET Index]
  /\ Cardinality(Pending) <= Capacity
  /\ before \subseteq Pending \X Pending
  /\ spoiled \subseteq Pending
  /\ resolved \in Seq(Counter) /\ Len(resolved) <= Remember
  /\ arrived \in [Counter -> SUBSET Index]
  /\ dropped \subseteq Counter

\* K distinct shards are enough: a frame of which K have arrived was delivered, in
\* whatever order they came and whatever came between, unless the receiver had to give
\* its entry up or newer frames had left it behind the window (receiver.rs:196-221).
KShardsDeliver ==
  \A s \in Counter :
    Cardinality(arrived[s]) >= K
      => opens[s] = 1 \/ s \in dropped \/ max_recv >= s + W

\* A late duplicate of a resolved frame does not start it again: it would take the place
\* of one that can still be completed (receiver.rs:172-175).
NoLateRestart == Pending \cap Resolved = {}

\* What is given up was looked at: a resolved frame opened, or could not.
ResolvedForGood ==
  \A s \in Resolved : opens[s] > 0 \/ s \in dropped \/ max_recv >= s + W

\* An entry has the genuine shards of its frame, all of them, and fewer than K.
InProgress ==
  \A s \in Counter :
    /\ Cardinality(pending[s]) < K
    /\ \/ pending[s] = arrived[s]
       \/ opens[s] > 0 \/ s \in dropped \/ max_recv >= s + W

\* The inductive invariant of the proofs.
FecInv == /\ Inv /\ FecTypeOK /\ NoLateRestart /\ ResolvedForGood /\ InProgress
          /\ spoiled \subseteq dropped

\* Stated by receiver.rs:64-66: the oldest entry makes room (FIFO).
EvictsOldest ==
  [][\A s \in Counter, i \in Index, good \in BOOLEAN :
       RecvShard(s, i, good) /\ Takes(s) => \A t \in UNION Evicted(s) : IsFirst(t)]_fecVars
=============================================================================
