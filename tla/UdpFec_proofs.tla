---------------------------- MODULE UdpFec_proofs ----------------------------
(* Proofs about what goes over UDP: about ReplayWindow, for every window width *)
(* and counter limit, about UdpFec, which extends it, for any code, any        *)
(* capacities and any number of frames, and about UdpAudio, whose frames it    *)
(* carries, for any number of messages and any capacity of the channels.       *)
EXTENDS UdpFec, UdpAudio, FiniteSetTheorems, SequenceTheorems, TLAPS

-----------------------------------------------------------------------------
(* One direction of an AEAD channel (ReplayWindow).                          *)

USE WAssumption, MaxSeqAssumption DEF Counter

\* What ReplayCheck and ReplayCommit do to the window when they are run in
\* that order, as open does: the window stays exact if seq is counted opened.
LEMMA CommitKeepsWindowExact ==
  ASSUME TypeOK, WindowExact, NEW seq \in Counter,
         ReplayCheck(seq), ReplayCommit(seq),
         opens' = [opens EXCEPT ![seq] = @ + 1]
  PROVE  /\ max_recv' \in Counter
         /\ recv_window' \in SUBSET (0 .. W-1)
         /\ WindowExact'
<1>1. CASE seq > max_recv
  <2>1. max_recv' = seq /\ recv_window' = Shifted(seq - max_recv) \cup {0}
    BY <1>1 DEF ReplayCommit, TypeOK
  <2>2. recv_window' \in SUBSET (0 .. W-1)
    BY <2>1 DEF Shifted
  <2>3. ASSUME NEW s \in Counter, opens'[s] > 0
        PROVE  /\ s <= max_recv'
               /\ max_recv' - s < W => (max_recv' - s) \in recv_window'
    <3>1. CASE s = seq
      BY <3>1, <2>1, <1>1
    <3>2. CASE s # seq
      <4>1. opens[s] > 0
        BY <3>2, <2>3 DEF TypeOK
      <4>2. s <= max_recv /\ (max_recv - s < W => (max_recv - s) \in recv_window)
        BY <4>1 DEF WindowExact
      <4>3. (max_recv' - s) - (seq - max_recv) = max_recv - s
        BY <2>1, <4>2, <1>1 DEF TypeOK
      <4>4. s <= max_recv'
        BY <2>1, <4>2, <1>1 DEF TypeOK
      <4>5. ASSUME max_recv' - s < W
            PROVE  (max_recv' - s) \in Shifted(seq - max_recv)
        <5>1. (max_recv - s) \in recv_window
          BY <4>5, <4>2, <2>1, <1>1 DEF TypeOK
        <5>2. max_recv' - s \in 0 .. W-1 /\ max_recv' - s >= seq - max_recv
          BY <4>5, <4>2, <2>1, <1>1 DEF TypeOK
        <5> QED BY <5>1, <5>2, <4>3 DEF Shifted
      <4> QED BY <4>4, <4>5, <2>1
    <3> QED BY <3>1, <3>2
  <2>4. ASSUME NEW d \in recv_window'
        PROVE  d <= max_recv' /\ opens'[max_recv' - d] > 0
    <3>1. CASE d = 0
      BY <3>1, <2>1, <1>1 DEF TypeOK
    <3>2. CASE d \in Shifted(seq - max_recv)
      <4>1. /\ d \in 0 .. W-1 /\ d >= seq - max_recv
            /\ d - (seq - max_recv) \in recv_window
        BY <3>2 DEF Shifted
      <4>2. /\ d - (seq - max_recv) <= max_recv
            /\ opens[max_recv - (d - (seq - max_recv))] > 0
        BY <4>1 DEF WindowExact
      <4>3. max_recv - (d - (seq - max_recv)) = seq - d
        BY <4>1, <1>1 DEF TypeOK
      <4>4. d <= seq /\ seq - d \in Counter /\ seq - d # seq
        BY <4>1, <4>2, <1>1 DEF TypeOK
      <4> QED BY <4>2, <4>3, <4>4, <2>1 DEF TypeOK
    <3> QED BY <3>1, <3>2, <2>1
  <2> QED BY <2>1, <2>2, <2>3, <2>4 DEF WindowExact
<1>2. CASE seq <= max_recv
  <2>1. max_recv' = max_recv /\ recv_window' = recv_window \cup {max_recv - seq}
    BY <1>2 DEF ReplayCommit, TypeOK
  <2>2. max_recv - seq \in 0 .. W-1
    BY <1>2 DEF ReplayCheck, TypeOK
  <2>3. ASSUME NEW s \in Counter, opens'[s] > 0
        PROVE  /\ s <= max_recv'
               /\ max_recv' - s < W => (max_recv' - s) \in recv_window'
    <3>1. CASE s = seq
      BY <3>1, <2>1, <1>2
    <3>2. CASE s # seq
      BY <3>2, <2>3, <2>1 DEF TypeOK, WindowExact
    <3> QED BY <3>1, <3>2
  <2>4. ASSUME NEW d \in recv_window'
        PROVE  d <= max_recv' /\ opens'[max_recv' - d] > 0
    <3>1. CASE d = max_recv - seq
      <4>1. max_recv' - d = seq /\ d <= max_recv'
        BY <3>1, <2>1, <1>2 DEF TypeOK
      <4> QED BY <4>1 DEF TypeOK
    <3>2. CASE d \in recv_window
      <4>1. d <= max_recv /\ opens[max_recv - d] > 0
        BY <3>2 DEF WindowExact
      <4>2. max_recv - d \in Counter
        BY <4>1, <3>2 DEF TypeOK
      <4> QED BY <4>1, <4>2, <2>1 DEF TypeOK
    <3> QED BY <3>1, <3>2, <2>1
  <2> QED BY <2>1, <2>2, <2>3, <2>4 DEF WindowExact, TypeOK
<1> QED BY <1>1, <1>2 DEF TypeOK

\* An opened counter never passes the check again: this is what makes the
\* exact window sufficient for at-most-once.
LEMMA OpenedIsRefused ==
  ASSUME TypeOK, WindowExact, NEW seq \in Counter, ReplayCheck(seq)
  PROVE  opens[seq] = 0
BY DEF TypeOK, WindowExact, ReplayCheck

\* The invariant is inductive, hence holds for every W and MaxSeq.
THEOREM InvHolds == Spec => []Inv
<1>1. Init => Inv
  BY DEF Init, Inv, TypeOK, Result, NonceNeverReused, OpenedAtMostOnce,
         WindowExact, CountersExact
<1>2. Inv /\ [Next]_vars => Inv'
  <2> SUFFICES ASSUME Inv, [Next]_vars PROVE Inv'
    OBVIOUS
  <2> USE DEF Inv
  <2>1. CASE Seal
    <3>1. CASE Exhausted
      BY <2>1, <3>1 DEF Seal, TypeOK, Result, NonceNeverReused, OpenedAtMostOnce,
         WindowExact, CountersExact
    <3>2. CASE ~Exhausted
      <4>1. /\ next_seq < MaxSeq /\ next_seq' = next_seq + 1
            /\ seals' = [seals EXCEPT ![next_seq] = @ + 1]
            /\ result' = "sealed"
            /\ UNCHANGED <<max_recv, recv_window, opens>>
        <5>1. next_seq + 1 < MaxSeq + 1 /\ next_seq + 1 \in Nat
          BY <3>2 DEF Exhausted, TypeOK
        <5>2. (next_seq + 1) % (MaxSeq + 1) = next_seq + 1
          BY <5>1
        <5> QED BY <5>1, <5>2, <2>1, <3>2 DEF Seal, TypeOK
      <4>2. TypeOK'
        <5>1. seals' \in [Counter -> Nat]
          BY <4>1 DEF TypeOK
        <5>2. next_seq' \in Counter
          BY <4>1 DEF TypeOK
        <5> QED BY <4>1, <5>1, <5>2 DEF TypeOK, Result
      <4>3. NonceNeverReused' /\ CountersExact'
        <5>1. seals[next_seq] = 0 /\ next_seq \in Counter
          BY DEF TypeOK, CountersExact
        <5>2. \A s \in Counter : seals'[s] = IF s = next_seq THEN 1 ELSE seals[s]
          BY <4>1, <5>1 DEF TypeOK
        <5>3. NonceNeverReused'
          <6> SUFFICES ASSUME NEW s \in Counter PROVE seals'[s] <= 1
            BY DEF NonceNeverReused
          <6>1. CASE s = next_seq
            BY <6>1, <5>2
          <6>2. CASE s # next_seq
            BY <6>2, <5>2 DEF NonceNeverReused
          <6> QED BY <6>1, <6>2
        <5>4. \A s \in Counter : s >= next_seq' => s >= next_seq /\ s # next_seq
          BY <4>1 DEF TypeOK
        <5>5. CountersExact'
          BY <4>1, <5>2, <5>4 DEF CountersExact
        <5> QED BY <5>3, <5>5
      <4>4. OpenedAtMostOnce' /\ WindowExact'
        BY <4>1 DEF OpenedAtMostOnce, WindowExact
      <4> QED BY <4>2, <4>3, <4>4
    <3> QED BY <3>1, <3>2
  <2>2. ASSUME NEW seq \in Counter, OpenAuthentic(seq) PROVE Inv'
    <3>1. CASE ~ReplayCheck(seq)
      BY <2>2, <3>1 DEF OpenAuthentic, TypeOK, Result, NonceNeverReused,
         OpenedAtMostOnce, WindowExact, CountersExact
    <3>2. CASE ReplayCheck(seq)
      <4>1. /\ seq \in Sealed /\ ReplayCommit(seq)
            /\ opens' = [opens EXCEPT ![seq] = @ + 1]
            /\ result' = "plaintext"
            /\ UNCHANGED <<next_seq, seals>>
        BY <2>2, <3>2 DEF OpenAuthentic
      <4>2. opens[seq] = 0
        BY <3>2, OpenedIsRefused
      <4>3. /\ max_recv' \in Counter /\ recv_window' \in SUBSET (0 .. W-1)
            /\ WindowExact'
        BY <4>1, <3>2, CommitKeepsWindowExact
      <4>4. TypeOK'
        BY SMTT(30), <4>1, <4>3 DEF TypeOK, Result
      <4>5. OpenedAtMostOnce' /\ NonceNeverReused' /\ CountersExact'
        <5>1. \A s \in Counter : opens'[s] = IF s = seq THEN 1 ELSE opens[s]
          BY <4>1, <4>2 DEF TypeOK
        <5>2. OpenedAtMostOnce'
          BY <5>1 DEF OpenedAtMostOnce
        <5>3. NonceNeverReused'
          BY <4>1 DEF NonceNeverReused
        <5>4. CountersExact'
          BY <4>1, <5>1 DEF CountersExact, Sealed
        <5> QED BY <5>2, <5>3, <5>4
      <4> QED BY <4>3, <4>4, <4>5
    <3> QED BY <3>1, <3>2
  <2>3. ASSUME NEW seq \in Counter, OpenCorrupt(seq) PROVE Inv'
    BY <2>3 DEF OpenCorrupt, TypeOK, Result, NonceNeverReused, OpenedAtMostOnce,
       WindowExact, CountersExact
  <2>4. CASE UNCHANGED vars
    BY <2>4 DEF vars, TypeOK, NonceNeverReused, OpenedAtMostOnce,
       WindowExact, CountersExact
  <2> QED BY <2>1, <2>2, <2>3, <2>4 DEF Next
<1> QED BY <1>1, <1>2, PTL DEF Spec

\* No nonce is sealed twice, for every counter width.
THEOREM NonceNeverReusedHolds == Spec => []NonceNeverReused
<1>1. Inv => NonceNeverReused
  BY DEF Inv
<1> QED BY <1>1, InvHolds, PTL

\* No counter is opened twice, for every window width.
THEOREM OpenedAtMostOnceHolds == Spec => []OpenedAtMostOnce
<1>1. Inv => OpenedAtMostOnce
  BY DEF Inv
<1> QED BY <1>1, InvHolds, PTL

\* A genuine, never opened message inside the window is always acceptable.
THEOREM FreshStaysAcceptableHolds == Spec => []FreshStaysAcceptable
<1>1. Inv => FreshStaysAcceptable
  <2> SUFFICES ASSUME Inv, NEW s \in Sealed, opens[s] = 0, max_recv < s + W,
                      ~(s > max_recv)
               PROVE  max_recv - s < W /\ (max_recv - s) \notin recv_window
    BY DEF FreshStaysAcceptable, ReplayCheck
  <2>1. s \in Counter /\ s <= max_recv
    BY DEF Sealed, Inv, TypeOK
  <2>2. max_recv - s < W
    BY <2>1 DEF Inv, TypeOK
  <2>3. ASSUME (max_recv - s) \in recv_window PROVE FALSE
    <3>1. max_recv - (max_recv - s) = s
      BY <2>1 DEF Inv, TypeOK
    <3> QED BY <3>1, <2>3, <2>1 DEF Inv, TypeOK, WindowExact
  <2> QED BY <2>2, <2>3
<1> QED BY <1>1, InvHolds, PTL

\* The pair of sessions implements the at-most-once channel: every step is a
\* Send, a Deliver or a stutter of AtMostOnce.
THEOREM ImplementsAtMostOnce == Spec => ChannelSpec
<1>1. Init => Channel!Init
  BY DEF Init, Channel!Init, Sealed
<1>2. Inv /\ Inv' /\ [Next]_vars => [Channel!Next]_<<Sealed, opens>>
  <2> SUFFICES ASSUME Inv, Inv', [Next]_vars
               PROVE  Channel!Send \/ Channel!Deliver
                        \/ (Sealed' = Sealed /\ opens' = opens)
    BY DEF Channel!Next
  <2>1. CASE Seal
    <3>1. CASE Exhausted
      BY <2>1, <3>1 DEF Seal, Sealed
    <3>2. CASE ~Exhausted
      <4>1. seals' = [seals EXCEPT ![next_seq] = @ + 1] /\ opens' = opens
        BY <2>1, <3>2 DEF Seal
      <4>2. next_seq \in Counter \ Sealed
        BY DEF Inv, TypeOK, CountersExact, Sealed
      <4>3. Sealed' = Sealed \cup {next_seq}
        BY SMTT(30), <4>1, <4>2 DEF Sealed, Inv, TypeOK
      <4> QED BY <4>1, <4>2, <4>3 DEF Channel!Send
    <3> QED BY <3>1, <3>2
  <2>2. ASSUME NEW seq \in Counter, OpenAuthentic(seq)
        PROVE  Channel!Deliver \/ (Sealed' = Sealed /\ opens' = opens)
    <3>1. CASE ~ReplayCheck(seq)
      BY <2>2, <3>1 DEF OpenAuthentic, Sealed
    <3>2. CASE ReplayCheck(seq)
      <4>1. /\ seq \in Sealed /\ opens' = [opens EXCEPT ![seq] = @ + 1]
            /\ seals' = seals
        BY <2>2, <3>2 DEF OpenAuthentic
      <4>2. opens[seq] = 0
        BY <3>2, OpenedIsRefused DEF Inv
      <4>3. opens' = [opens EXCEPT ![seq] = 1] /\ Sealed' = Sealed
        BY <4>1, <4>2 DEF Sealed
      <4> QED BY <4>1, <4>2, <4>3 DEF Channel!Deliver
    <3> QED BY <3>1, <3>2
  <2>3. ASSUME NEW seq \in Counter, OpenCorrupt(seq)
        PROVE  Sealed' = Sealed /\ opens' = opens
    BY <2>3 DEF OpenCorrupt, Sealed
  <2>4. CASE UNCHANGED vars
    BY <2>4 DEF vars, Sealed
  <2> QED BY <2>1, <2>2, <2>3, <2>4 DEF Next
<1>3. []Inv /\ Spec => ChannelSpec
  BY <1>1, <1>2, PTL DEF Spec, ChannelSpec, Channel!Spec
<1> QED BY <1>3, InvHolds, PTL

HIDE DEF Counter

-----------------------------------------------------------------------------
(* Frames with forward error correction (UdpFec).                            *)

\* What the invariant says beyond that of the window.
Assembly == /\ FecTypeOK /\ NoLateRestart /\ ResolvedForGood /\ InProgress
            /\ spoiled \subseteq dropped

\* Every step of the receiver and of the sender is one of the AEAD sessions, or leaves
\* them alone.
LEMMA FecStep ==
  ASSUME [FecNext]_fecVars
  PROVE  [Next]_vars
<1>1. CASE SendFrame
  BY <1>1 DEF SendFrame, Next
<1>2. ASSUME NEW s \in Counter, DrainStale(s) PROVE UNCHANGED vars
  BY <1>2 DEF DrainStale
<1>3. ASSUME NEW s \in Counter, NEW i \in Index, NEW good \in BOOLEAN, RecvShard(s, i, good)
      PROVE  [Next]_vars
  <2>1. UNCHANGED vars \/ OpenCorrupt(s) \/ OpenAuthentic(s)
    BY <1>3 DEF RecvShard, Keep, Complete
  <2> QED BY <2>1 DEF Next
<1>4. CASE UNCHANGED fecVars
  BY <1>4 DEF fecVars
<1> QED BY <1>1, <1>2, <1>3, <1>4 DEF FecNext

\* The frames of the transport use the AEAD sessions as ReplayWindow does.
THEOREM FecRefinesWindow == FecSpec => Spec
<1>1. FecInit => Init
  BY DEF FecInit
<1>2. [FecNext]_fecVars => [Next]_vars
  BY FecStep
<1> QED BY <1>1, <1>2, PTL DEF FecSpec, Spec

\* The transport delivers what was sent, at most once, whatever the network does and
\* whatever has left the list of resolved frames.
THEOREM FecDeliversAtMostOnce == FecSpec => ChannelSpec
BY FecRefinesWindow, ImplementsAtMostOnce, PTL

-----------------------------------------------------------------------------
\* The entries of the receiver are finite sets.
LEMMA Finite ==
  ASSUME FecTypeOK
  PROVE  /\ IsFiniteSet(Pending) /\ Cardinality(Pending) \in Nat
         /\ \A s \in Counter : IsFiniteSet(pending[s])
<1>1. IsFiniteSet(Counter) /\ IsFiniteSet(Index)
  BY FS_Interval, FecAssumption, MaxSeqAssumption DEF Counter, Index
<1>2. Pending \in SUBSET Counter /\ \A s \in Counter : pending[s] \in SUBSET Index
  BY DEF Pending, FecTypeOK
<1>3. IsFiniteSet(Pending) /\ \A s \in Counter : IsFiniteSet(pending[s])
  BY <1>1, <1>2, FS_Subset
<1> QED BY <1>3, FS_CardinalityType

\* The list of resolved frames forgets, and gains the frame at hand.
LEMMA ResolvedGrows ==
  ASSUME NEW s \in Counter, resolved \in Seq(Counter), Len(resolved) <= Remember,
         resolved' = MarkResolved(s)
  PROVE  /\ resolved' \in Seq(Counter) /\ Len(resolved') <= Remember
         /\ Resolved' \subseteq Resolved \cup {s}
<1> DEFINE rest == IF Len(resolved) >= Remember THEN Tail(resolved) ELSE resolved
<1>1. /\ rest \in Seq(Counter) /\ Len(rest) + 1 <= Remember
      /\ \A j \in 1 .. Len(rest) : rest[j] \in Resolved
  <2>1. CASE Len(resolved) >= Remember
    <3>1. resolved # <<>> /\ rest = Tail(resolved)
      BY <2>1, FecAssumption
    <3>2. /\ rest \in Seq(Counter) /\ Len(rest) = Len(resolved) - 1
          /\ \A j \in 1 .. Len(rest) : j + 1 \in 1 .. Len(resolved) /\ rest[j] = resolved[j + 1]
      BY <3>1
    <3> QED BY <2>1, <3>2, FecAssumption DEF Resolved
  <2>2. CASE ~(Len(resolved) >= Remember)
    BY <2>2, FecAssumption DEF Resolved
  <2> QED BY <2>1, <2>2
<1>2. resolved' = Append(rest, s)
  BY DEF MarkResolved
<1> HIDE DEF rest
<1>3. /\ resolved' \in Seq(Counter) /\ Len(resolved') = Len(rest) + 1
      /\ \A j \in 1 .. Len(resolved') :
           resolved'[j] = s \/ (j \in 1 .. Len(rest) /\ resolved'[j] = rest[j])
  BY <1>1, <1>2
<1> QED BY <1>1, <1>3 DEF Resolved

\* A frame that the window refuses was opened, or has fallen behind.
LEMMA RefusedForGood ==
  ASSUME Inv, NEW s \in Counter, ~ReplayCheck(s)
  PROVE  opens[s] > 0 \/ max_recv >= s + W
BY WAssumption, MaxSeqAssumption DEF Inv, TypeOK, WindowExact, ReplayCheck, Counter

\* What was opened stays opened, and the window only moves on.
LEMMA WindowMovesOn ==
  ASSUME Inv, [Next]_vars
  PROVE  \A s \in Counter : /\ opens[s] > 0 => opens'[s] > 0
                            /\ max_recv >= s + W => max_recv' >= s + W
<1> USE WAssumption, MaxSeqAssumption DEF Inv, TypeOK, Counter
<1>1. CASE Seal
  BY <1>1 DEF Seal
<1>2. ASSUME NEW q \in Counter, OpenAuthentic(q)
      PROVE  /\ opens' = opens \/ opens' = [opens EXCEPT ![q] = @ + 1]
             /\ max_recv' \in Nat /\ max_recv' >= max_recv
  BY <1>2 DEF OpenAuthentic, ReplayCommit
<1>3. ASSUME NEW q \in Counter, OpenCorrupt(q) PROVE UNCHANGED <<opens, max_recv>>
  BY <1>3 DEF OpenCorrupt
<1>4. CASE UNCHANGED vars
  BY <1>4 DEF vars
<1> QED BY SMTT(30), <1>1, <1>2, <1>3, <1>4 DEF Next

\* A frame is over when it was opened, dropped, or left behind by the window.
Over(s) == opens[s] > 0 \/ s \in dropped \/ max_recv >= s + W

\* A frame that is over stays so.
LEMMA OverForGood ==
  ASSUME Inv, [Next]_vars, dropped \subseteq dropped'
  PROVE  \A s \in Counter : Over(s) => Over(s)'
BY WindowMovesOn DEF Over

\* At the start no shard has arrived.
LEMMA AssemblyInit == FecInit => Assembly
<1> SUFFICES ASSUME FecInit PROVE Assembly
  OBVIOUS
<1> USE FecAssumption DEF FecInit
<1>1. Pending = {} /\ Resolved = {}
  BY DEF Pending, Resolved
<1>2. Cardinality({}) = 0
  BY FS_EmptySet
<1>3. TypeOK
  BY WAssumption, MaxSeqAssumption DEF Init, TypeOK, Counter, Result
<1>4. FecTypeOK
  BY <1>1, <1>2, <1>3 DEF FecTypeOK
<1>5. NoLateRestart /\ ResolvedForGood
  BY <1>1 DEF NoLateRestart, ResolvedForGood
<1>6. InProgress
  BY <1>2 DEF InProgress
<1> QED BY <1>4, <1>5, <1>6 DEF Assembly

\* A shard of a frame not resolved, with the frame that makes room for it.
LEMMA ShardSteps ==
  ASSUME Inv, Inv', Assembly, NEW s \in Counter, NEW i \in Index, NEW good \in BOOLEAN,
         NEW gone \in Evicted(s), Takes(s), good => s \in Sealed,
         arrived' = IF good THEN [arrived EXCEPT ![s] = @ \cup {i}] ELSE arrived,
         dropped' = dropped \cup gone \cup Spoils(s, i, good),
         \/ /\ ~Enough(Collected(s, i))
            /\ Keep(s, gone, Collected(s, i), Spoils(s, i, good))
         \/ Enough(Collected(s, i)) /\ Complete(s, gone, Spoils(s, i, good))
  PROVE  Assembly'
<1> DEFINE have == Collected(s, i)
           bad == Spoils(s, i, good)
<1> USE FecAssumption DEF Assembly
<1>1. /\ pending \in [Counter -> SUBSET Index] /\ arrived \in [Counter -> SUBSET Index]
      /\ Pending \subseteq Counter /\ have = pending[s] \cup {i} /\ have \subseteq Index
      /\ \A t \in Counter : t \in Pending <=> pending[t] # {}
      /\ IsFiniteSet(Pending) /\ Cardinality(Pending) \in 0 .. Capacity
      /\ dropped \subseteq Counter /\ spoiled \subseteq Pending
      /\ s \notin Resolved
  BY Finite DEF FecTypeOK, Pending, Collected, Takes
<1>2. /\ gone \subseteq Pending /\ s \notin gone
      /\ pending[s] = {} => Cardinality(Pending \ gone) + 1 <= Capacity
      /\ pending[s] # {} => gone = {}
  <2>1. CASE pending[s] = {} /\ Cardinality(Pending) >= Capacity
    <3>1. PICK t \in Pending : gone = {t}
      BY <2>1 DEF Evicted, Smallest
    <3>2. Cardinality(Pending \ {t}) = Cardinality(Pending) - 1
      BY <1>1, <3>1, FS_RemoveElement
    <3> QED BY <1>1, <2>1, <3>1, <3>2
  <2>2. CASE ~(pending[s] = {} /\ Cardinality(Pending) >= Capacity)
    <3>1. gone = {} /\ Pending \ gone = Pending
      BY <2>2 DEF Evicted
    <3> QED BY <1>1, <2>2, <3>1
  <2> QED BY <2>1, <2>2
<1>3. /\ spoiled \subseteq bad /\ bad \subseteq spoiled \cup {s}
      /\ ~good /\ i \notin pending[s] => s \in bad
      /\ dropped \subseteq dropped' /\ gone \subseteq dropped' /\ bad \subseteq dropped'
      /\ dropped' \subseteq Counter
  BY <1>1, <1>2 DEF Spoils
<1>4. [Next]_vars
  BY DEF Keep, Complete, Next
<1>5. \A t \in Counter : Over(t) => Over(t)'
  BY <1>3, <1>4, OverForGood
<1>6. /\ arrived' \in [Counter -> SUBSET Index]
      /\ \A t \in Counter : t # s => arrived'[t] = arrived[t]
      /\ arrived'[s] = IF good THEN arrived[s] \cup {i} ELSE arrived[s]
  BY <1>1
<1>7. \A t \in Counter : /\ Cardinality(pending[t]) < K
                         /\ pending[t] = arrived[t] \/ Over(t)
  BY DEF InProgress, Over
<1>8. TypeOK'
  BY DEF Inv
<1>9. Cardinality({}) = 0
  BY FS_EmptySet
<1> HIDE DEF have, bad
<1>10. CASE ~Enough(have) /\ Keep(s, gone, have, bad)
  <2>1. /\ pending' = [t \in Counter |-> IF t = s THEN have
                                         ELSE IF t \in gone THEN {} ELSE pending[t]]
        /\ spoiled' = bad \ gone /\ UNCHANGED <<vars, resolved>>
        /\ before' = {e \in before : e[1] \notin gone /\ e[2] \notin gone}
                     \cup IF pending[s] = {} THEN (Pending \ gone) \X {s} ELSE {}
    BY <1>10 DEF Keep
  <2>0. Cardinality(have) < K
    <3>1. IsFiniteSet(have)
      BY <1>1, Finite, FS_AddElement
    <3> QED BY <1>10, <3>1, FS_CardinalityType DEF Enough
  <2>2. Pending' = (Pending \ gone) \cup {s}
    BY <1>1, <1>2, <2>1 DEF Pending
  <2>3. Cardinality(Pending') <= Capacity
    <3>1. CASE pending[s] = {}
      <4>1. IsFiniteSet(Pending \ gone) /\ Cardinality(Pending \ gone) \in Nat
        BY <1>1, FS_Subset, FS_CardinalityType
      <4>2. s \notin Pending \ gone
        BY <1>1, <3>1
      <4>3. Cardinality((Pending \ gone) \cup {s}) = Cardinality(Pending \ gone) + 1
        BY <4>1, <4>2, FS_AddElement
      <4> QED BY <1>2, <2>2, <3>1, <4>3
    <3>2. CASE pending[s] # {}
      <4>1. Pending' = Pending
        BY <1>1, <1>2, <2>2, <3>2
      <4> QED BY <1>1, <4>1
    <3> QED BY <3>1, <3>2
  <2>4. before' \subseteq Pending' \X Pending'
    BY <1>1, <1>2, <2>1, <2>2 DEF FecTypeOK
  <2>5. FecTypeOK'
    <3>1. pending' \in [Counter -> SUBSET Index]
      BY <1>1, <2>1
    <3>2. spoiled' \subseteq Pending'
      BY <1>1, <1>2, <1>3, <2>1, <2>2
    <3>3. resolved' \in Seq(Counter) /\ Len(resolved') <= Remember
      BY <2>1 DEF FecTypeOK
    <3> QED BY <1>3, <1>6, <1>8, <2>3, <2>4, <3>1, <3>2, <3>3 DEF FecTypeOK
  <2>6. Resolved' = Resolved
    BY <2>1 DEF Resolved
  <2>7. NoLateRestart' /\ ResolvedForGood'
    <3>1. \A t \in Resolved : t \in Counter /\ Over(t)
      BY DEF ResolvedForGood, Over, Resolved, FecTypeOK
    <3>2. \A t \in Resolved' : Over(t)'
      BY <1>5, <2>6, <3>1
    <3> QED BY <1>1, <2>2, <2>6, <3>2 DEF NoLateRestart, ResolvedForGood, Over
  <2>8. InProgress'
    <3>1. ASSUME NEW t \in Counter
          PROVE  Cardinality(pending'[t]) < K /\ (pending'[t] = arrived'[t] \/ Over(t)')
      <4>1. CASE t = s
        BY <1>1, <1>3, <1>5, <1>6, <1>7, <2>0, <2>1, <4>1 DEF Over
      <4>2. CASE t # s /\ t \in gone
        BY <1>3, <1>9, <2>1, <4>2 DEF Over
      <4>3. CASE t # s /\ t \notin gone
        BY <1>5, <1>6, <1>7, <2>1, <4>3
      <4> QED BY <4>1, <4>2, <4>3
    <3> QED BY <3>1 DEF InProgress, Over
  <2>9. spoiled' \subseteq dropped'
    BY <1>3, <2>1
  <2> QED BY <2>5, <2>7, <2>8, <2>9
<1>11. CASE Enough(have) /\ Complete(s, gone, bad)
  <2>1. /\ pending' = [t \in Counter |-> IF t \in gone \cup {s} THEN {} ELSE pending[t]]
        /\ before' = {e \in before : e[1] \notin gone \cup {s} /\ e[2] \notin gone \cup {s}}
        /\ spoiled' = bad \ (gone \cup {s}) /\ resolved' = MarkResolved(s)
        /\ IF s \in bad THEN OpenCorrupt(s) ELSE OpenAuthentic(s)
    BY <1>11 DEF Complete
  <2>2. Pending' = Pending \ (gone \cup {s})
    BY <1>1, <2>1 DEF Pending
  <2>3. Cardinality(Pending') <= Capacity
    <3>1. Cardinality(Pending') <= Cardinality(Pending) /\ Cardinality(Pending') \in Nat
      BY <1>1, <2>2, FS_Subset, FS_CardinalityType
    <3> QED BY <1>1, <3>1
  <2>4. /\ resolved' \in Seq(Counter) /\ Len(resolved') <= Remember
        /\ Resolved' \subseteq Resolved \cup {s}
    BY <2>1, ResolvedGrows DEF FecTypeOK
  <2>5. FecTypeOK'
    <3>1. pending' \in [Counter -> SUBSET Index]
      BY <1>1, <2>1
    <3>2. spoiled' \subseteq Pending' /\ before' \subseteq Pending' \X Pending'
      BY <1>1, <1>3, <2>1, <2>2 DEF FecTypeOK
    <3> QED BY <1>3, <1>6, <1>8, <2>3, <2>4, <3>1, <3>2 DEF FecTypeOK
  <2>6. Over(s)'
    <3>1. CASE s \in bad
      BY <1>3, <3>1 DEF Over
    <3>2. CASE s \notin bad /\ ReplayCheck(s)
      <4>1. opens' = [opens EXCEPT ![s] = @ + 1]
        BY <2>1, <3>2 DEF OpenAuthentic
      <4> QED BY <4>1 DEF Over, Inv, TypeOK
    <3>3. CASE s \notin bad /\ ~ReplayCheck(s)
      <4>1. Over(s)
        BY <3>3, RefusedForGood DEF Over
      <4> QED BY <1>5, <4>1
    <3> QED BY <3>1, <3>2, <3>3
  <2>7. NoLateRestart' /\ ResolvedForGood'
    <3>1. \A t \in Resolved : t \in Counter /\ Over(t)
      BY DEF ResolvedForGood, Over, Resolved, FecTypeOK
    <3>2. \A t \in Resolved' : Over(t)'
      BY <1>5, <2>4, <2>6, <3>1
    <3> QED BY <2>2, <2>4, <3>2 DEF NoLateRestart, ResolvedForGood, Over
  <2>8. InProgress'
    <3>1. ASSUME NEW t \in Counter
          PROVE  Cardinality(pending'[t]) < K /\ (pending'[t] = arrived'[t] \/ Over(t)')
      <4>1. CASE t \in gone \cup {s}
        BY <1>3, <1>9, <2>1, <2>6, <4>1 DEF Over
      <4>2. CASE t \notin gone \cup {s}
        BY <1>5, <1>6, <1>7, <2>1, <4>2
      <4> QED BY <4>1, <4>2
    <3> QED BY <3>1 DEF InProgress, Over
  <2>9. spoiled' \subseteq dropped'
    BY <1>3, <2>1
  <2> QED BY <2>5, <2>7, <2>8, <2>9
<1> QED BY <1>10, <1>11 DEF have, bad

\* A shard that is ignored is still one that has arrived.
LEMMA IgnoredShard ==
  ASSUME Assembly, NEW s \in Counter, NEW i \in Index, NEW good \in BOOLEAN, ~Takes(s),
         arrived' = IF good THEN [arrived EXCEPT ![s] = @ \cup {i}] ELSE arrived,
         UNCHANGED <<vars, pending, before, spoiled, resolved, dropped>>
  PROVE  Assembly'
<1> USE DEF Assembly
<1>1. UNCHANGED <<Pending, Resolved>>
  BY DEF Pending, Resolved
<1>2. arrived \in [Counter -> SUBSET Index]
  BY DEF FecTypeOK
<1>3. /\ arrived' \in [Counter -> SUBSET Index]
      /\ \A t \in Counter : t # s => arrived'[t] = arrived[t]
  BY <1>2
<1>4. TypeOK'
  BY DEF FecTypeOK, TypeOK, vars
<1>5. FecTypeOK'
  BY <1>1, <1>3, <1>4 DEF FecTypeOK
<1>6. NoLateRestart' /\ ResolvedForGood'
  BY <1>1 DEF NoLateRestart, ResolvedForGood, vars
<1>7. Over(s)
  BY DEF Takes, ResolvedForGood, Over
<1>8. InProgress'
  BY <1>3, <1>7 DEF InProgress, Over, vars
<1> QED BY <1>5, <1>6, <1>8

\* A frame that has waited too long is dropped.
LEMMA StaleFrame ==
  ASSUME Assembly, NEW s \in Counter, DrainStale(s)
  PROVE  Assembly'
<1> USE FecAssumption DEF Assembly
<1>1. /\ pending' = [pending EXCEPT ![s] = {}] /\ before' = {e \in before : e[1] # s}
      /\ spoiled' = spoiled \ {s} /\ dropped' = dropped \cup {s}
      /\ UNCHANGED <<vars, resolved, arrived>> /\ IsFirst(s)
  BY DEF DrainStale
<1>2. /\ pending \in [Counter -> SUBSET Index] /\ before \subseteq Pending \X Pending
      /\ spoiled \subseteq Pending /\ dropped \subseteq Counter
      /\ IsFiniteSet(Pending) /\ Cardinality(Pending) \in 0 .. Capacity
  BY Finite DEF FecTypeOK
<1>3. Pending' = Pending \ {s} /\ Resolved' = Resolved
  BY <1>1, <1>2 DEF Pending, Resolved
<1>4. Cardinality(Pending') <= Capacity
  <2>1. Cardinality(Pending') <= Cardinality(Pending) /\ Cardinality(Pending') \in Nat
    BY <1>2, <1>3, FS_Subset, FS_CardinalityType
  <2> QED BY <1>2, <2>1
<1>5. before' \subseteq Pending' \X Pending'
  BY <1>1, <1>2, <1>3 DEF IsFirst
<1>6. TypeOK'
  BY <1>1 DEF FecTypeOK, TypeOK, vars
<1>7. FecTypeOK'
  BY <1>1, <1>2, <1>3, <1>4, <1>5, <1>6 DEF FecTypeOK
<1>8. NoLateRestart' /\ ResolvedForGood'
  BY <1>1, <1>3 DEF NoLateRestart, ResolvedForGood, vars
<1>9. InProgress'
  <2>1. ASSUME NEW t \in Counter
        PROVE  /\ Cardinality(pending'[t]) < K
               /\ \/ pending'[t] = arrived'[t]
                  \/ opens'[t] > 0 \/ t \in dropped' \/ max_recv' >= t + W
    <3>1. CASE t = s
      BY <1>1, <1>2, <3>1, FS_EmptySet
    <3>2. CASE t # s
      BY <1>1, <1>2, <3>2 DEF InProgress, vars
    <3> QED BY <3>1, <3>2
  <2> QED BY <2>1 DEF InProgress
<1>10. spoiled' \subseteq dropped'
  BY <1>1
<1> QED BY <1>7, <1>8, <1>9, <1>10

\* A new frame changes nothing at the receiver.
LEMMA FrameSent ==
  ASSUME Assembly, Inv, Inv', \/ SendFrame
                              \/ UNCHANGED fecVars
  PROVE  Assembly'
<1>1. /\ UNCHANGED <<pending, before, spoiled, resolved, arrived, dropped>>
      /\ UNCHANGED <<max_recv, opens>>
  BY DEF SendFrame, Seal, fecVars, vars
<1>2. UNCHANGED <<Pending, Resolved>>
  BY <1>1 DEF Pending, Resolved
<1> QED
  BY <1>1, <1>2 DEF Assembly, Inv, FecTypeOK, NoLateRestart, ResolvedForGood, InProgress

\* Every step of the transport keeps the account of shards and frames.
LEMMA AssemblyStep ==
  ASSUME Inv, Inv', Assembly, [FecNext]_fecVars
  PROVE  Assembly'
<1>1. CASE SendFrame \/ UNCHANGED fecVars
  BY <1>1, FrameSent
<1>2. ASSUME NEW s \in Counter, DrainStale(s) PROVE Assembly'
  BY <1>2, StaleFrame
<1>3. ASSUME NEW s \in Counter, NEW i \in Index, NEW good \in BOOLEAN, RecvShard(s, i, good)
      PROVE  Assembly'
  <2>1. /\ good => s \in Sealed
        /\ arrived' = IF good THEN [arrived EXCEPT ![s] = @ \cup {i}] ELSE arrived
    BY <1>3 DEF RecvShard
  <2>2. CASE /\ ~Takes(s)
             /\ UNCHANGED <<vars, pending, before, spoiled, resolved, dropped>>
    BY <2>1, <2>2, IgnoredShard
  <2>3. CASE /\ Takes(s)
             /\ \E gone \in Evicted(s) :
                  /\ dropped' = dropped \cup gone \cup Spoils(s, i, good)
                  /\ \/ /\ ~Enough(Collected(s, i))
                        /\ Keep(s, gone, Collected(s, i), Spoils(s, i, good))
                     \/ /\ Enough(Collected(s, i))
                        /\ Complete(s, gone, Spoils(s, i, good))
    BY <2>1, <2>3, ShardSteps
  <2> QED BY <1>3, <2>2, <2>3 DEF RecvShard
<1> QED BY <1>1, <1>2, <1>3 DEF FecNext

-----------------------------------------------------------------------------
\* The inductive invariant: the entries, the list of resolved frames and the window agree
\* about every frame of which shards have arrived.
THEOREM FecInvHolds == FecSpec => []FecInv
<1>1. FecInit => Assembly
  BY AssemblyInit
<1>2. Inv /\ Inv' /\ Assembly /\ [FecNext]_fecVars => Assembly'
  BY AssemblyStep
<1>3. FecSpec => []Inv
  BY FecRefinesWindow, InvHolds, PTL
<1>4. Inv /\ Assembly => FecInv
  BY DEF FecInv, Assembly
<1> QED BY <1>1, <1>2, <1>3, <1>4, PTL DEF FecSpec

\* At most Capacity frames are pending and Remember resolved ones are listed, whatever
\* shards come (MAX_PENDING_FRAMES, mark_resolved).
THEOREM FecTypeOKHolds == FecSpec => []FecTypeOK
<1>1. FecInv => FecTypeOK
  BY DEF FecInv
<1> QED BY <1>1, FecInvHolds, PTL

\* A frame that is listed as resolved is never collected again.
THEOREM NoLateRestartHolds == FecSpec => []NoLateRestart
<1>1. FecInv => NoLateRestart
  BY DEF FecInv
<1> QED BY <1>1, FecInvHolds, PTL

\* K distinct shards of a frame are enough, for any code, window and capacity.
THEOREM KShardsDeliverHolds == FecSpec => []KShardsDeliver
<1>1. FecInv => KShardsDeliver
  <2> SUFFICES ASSUME FecInv, NEW s \in Counter, Cardinality(arrived[s]) >= K,
                      s \notin dropped, ~(max_recv >= s + W)
               PROVE  opens[s] = 1
    BY DEF KShardsDeliver
  <2>1. pending[s] # arrived[s]
    <3>1. Cardinality(pending[s]) \in Nat /\ Cardinality(pending[s]) < K
      BY Finite, FS_CardinalityType DEF FecInv, InProgress
    <3> QED BY <3>1, FecAssumption
  <2>2. opens[s] > 0
    BY <2>1 DEF FecInv, InProgress
  <2> QED BY <2>2 DEF FecInv, Inv, OpenedAtMostOnce, TypeOK
<1> QED BY <1>1, FecInvHolds, PTL

-----------------------------------------------------------------------------
(* The sound of a session (UdpAudio).                                        *)

HIDE DEF Counter

\* A message is in a queue; a queue in the order of the share, or without repetition.
InQueue(q, m) == \E i \in DOMAIN q : q[i] = m
Ascending(q) == \A i, j \in DOMAIN q : i < j => q[i] < q[j]
NoTwice(q) == \A i, j \in DOMAIN q : q[i] = q[j] => i = j

\* All messages of a side that were taken from its channel precede those that wait there.
Precedes(s, m) == m <= made[s] /\ \A n \in Msg : InQueue(audio_tx[s], n) => m < n

AudioTypes ==
  /\ AudioTypeOK
  /\ DOMAIN audio_tx = Side /\ DOMAIN audio_rx = Side /\ DOMAIN heard = Side

\* Frames are sealed by the one sender the task made, which counts from 0, and a message
\* is dropped only before there is one.
SendingOK(s) ==
  /\ Ascending(audio_tx[s]) /\ \A m \in Msg : InQueue(audio_tx[s], m) => m <= made[s]
  /\ route[s] = "tcp" <=> sender[s] = "off"
  /\ sender[s] = "done" => ~held[s] /\ audio_tx[s] = <<>>
  /\ \A d \in sent : d.from = s =>
       sender[s] \in {"made", "done"} /\ d.seq < frame_seq[s] /\ Precedes(s, d.msg)
  /\ \A m \in unsent[s] : Precedes(s, m)

\* What the receiving side has got of the other side's share.
GotIt(s, m) ==
  \/ InQueue(heard[s], m) \/ InQueue(audio_rx[s], m)
  \/ receiver[s] = "send" /\ inhand[s] = m

\* It got each message once: over UDP in a frame of its own, over TCP from the channel.
ReceivingOK(s) ==
  /\ route[s] = "tcp" => receiver[s] = "off"
  /\ receiver[s] = "send" => inhand[s] \in Msg
  /\ NoTwice(heard[s]) /\ NoTwice(audio_rx[s])
  /\ \A m \in Msg : ~(InQueue(heard[s], m) /\ InQueue(audio_rx[s], m))
  /\ receiver[s] = "send" =>
       ~InQueue(heard[s], inhand[s]) /\ ~InQueue(audio_rx[s], inhand[s])
  /\ \A m \in Msg : GotIt(s, m) =>
       /\ Precedes(Other(s), m)
       /\ route[s] = "udp" => \E d \in opened : d.from = Other(s) /\ d.msg = m

FramesOnce == \A d, e \in sent : d.from = e.from /\ d.msg = e.msg => d = e

AudioIInv ==
  /\ AudioTypes /\ FramesOnce /\ NonceOnce /\ AwakeForGood
  /\ \A s \in Side : SendingOK(s) /\ ReceivingOK(s)

\* The two sides of a session are each other's other side.
LEMMA SidesFacts ==
  /\ "server" \in Side /\ "client" \in Side
  /\ \A s \in Side : Other(s) \in Side /\ Other(s) # s /\ Other(Other(s)) = s
  /\ \A s, t \in Side : t = s \/ t = Other(s)
BY DEF Side, Other

\* What a queue holds after a message is added.
LEMMA QueueAppend ==
  ASSUME NEW q \in Seq(Msg), NEW x \in Msg
  PROVE  /\ Append(q, x) \in Seq(Msg) /\ Len(Append(q, x)) = Len(q) + 1 /\ Len(q) \in Nat
         /\ \A m : InQueue(Append(q, x), m) <=> InQueue(q, m) \/ m = x
         /\ NoTwice(q) /\ ~InQueue(q, x) => NoTwice(Append(q, x))
         /\ Ascending(q) /\ (\A m \in Msg : InQueue(q, m) => m < x) => Ascending(Append(q, x))
<1> DEFINE r == Append(q, x)
<1>1. /\ r \in Seq(Msg) /\ Len(r) = Len(q) + 1 /\ Len(q) \in Nat
      /\ DOMAIN q = 1 .. Len(q) /\ DOMAIN r = 1 .. Len(q) + 1
      /\ \A i \in 1 .. Len(q) : r[i] = q[i] /\ q[i] \in Msg
      /\ r[Len(q) + 1] = x
  BY AppendProperties
<1> HIDE DEF r
<1>2. PICK l \in Nat : l = Len(q) + 1
  BY <1>1
<1>3. /\ \A i : i \in DOMAIN r <=> i \in DOMAIN q \/ i = l
      /\ l \notin DOMAIN q /\ r[l] = x
      /\ \A i \in DOMAIN q : r[i] = q[i] /\ q[i] \in Msg /\ i < l /\ i \in Nat
  BY <1>1, <1>2
<1>4. \A m : InQueue(r, m) <=> InQueue(q, m) \/ m = x
  BY <1>3 DEF InQueue
<1>5. ASSUME NoTwice(q), ~InQueue(q, x) PROVE NoTwice(r)
  BY <1>3, <1>5 DEF NoTwice, InQueue
<1>6. ASSUME Ascending(q), \A m \in Msg : InQueue(q, m) => m < x PROVE Ascending(r)
  <2> SUFFICES ASSUME NEW i \in DOMAIN r, NEW j \in DOMAIN r, i < j PROVE r[i] < r[j]
    BY DEF Ascending
  <2>1. CASE j \in DOMAIN q
    <3>1. i \in DOMAIN q
      BY <1>2, <1>3, <2>1
    <3> QED BY <1>3, <1>6, <2>1, <3>1 DEF Ascending
  <2>2. CASE j = l
    <3>1. i \in DOMAIN q
      BY <1>2, <1>3, <2>2
    <3> QED BY <1>3, <1>6, <2>2, <3>1 DEF InQueue
  <2> QED BY <1>3, <2>1, <2>2
<1> QED BY <1>1, <1>4, <1>5, <1>6 DEF r

\* What a queue holds before its first message is taken.
LEMMA QueueTail ==
  ASSUME NEW q \in Seq(Msg), q # <<>>
  PROVE  /\ Head(q) \in Msg /\ Tail(q) \in Seq(Msg) /\ Len(Tail(q)) = Len(q) - 1 /\ Len(q) \in Nat
         /\ \A m : InQueue(q, m) <=> m = Head(q) \/ InQueue(Tail(q), m)
         /\ NoTwice(q) => NoTwice(Tail(q)) /\ ~InQueue(Tail(q), Head(q))
         /\ Ascending(q) => Ascending(Tail(q)) /\ \A m \in Msg : InQueue(Tail(q), m) => Head(q) < m
<1> DEFINE r == Tail(q)
           x == Head(q)
<1>1. /\ x \in Msg /\ r \in Seq(Msg) /\ Len(r) = Len(q) - 1 /\ Len(q) \in Nat /\ Len(q) > 0
      /\ DOMAIN q = 1 .. Len(q) /\ DOMAIN r = 1 .. Len(q) - 1
      /\ \A i \in 1 .. Len(q) - 1 : r[i] = q[i + 1]
      /\ \A i \in 1 .. Len(q) : q[i] \in Msg
      /\ q[1] = x
  BY HeadTailProperties
<1> HIDE DEF r, x
<1>2. \A i \in DOMAIN r : \E j \in DOMAIN q : j = i + 1 /\ r[i] = q[j]
  BY <1>1
<1>3. \A j \in DOMAIN q : j = 1 \/ \E i \in DOMAIN r : j = i + 1 /\ r[i] = q[j]
  <2> SUFFICES ASSUME NEW j \in DOMAIN q, j # 1 PROVE \E i \in DOMAIN r : j = i + 1 /\ r[i] = q[j]
    OBVIOUS
  <2>1. PICK i \in Nat : i = j - 1
    BY <1>1
  <2>2. i \in DOMAIN r /\ j = i + 1
    BY <1>1, <2>1
  <2> QED BY <1>1, <2>2
<1>4. 1 \in DOMAIN q /\ DOMAIN r \subseteq Nat \ {0}
  BY <1>1
<1>5. \A m : InQueue(q, m) <=> m = x \/ InQueue(r, m)
  BY <1>1, <1>2, <1>3, <1>4 DEF InQueue
<1>6. ASSUME NoTwice(q) PROVE NoTwice(r) /\ ~InQueue(r, x)
  <2>1. ASSUME NEW i \in DOMAIN r, NEW k \in DOMAIN r, r[i] = r[k] PROVE i = k
    <3>1. PICK j \in DOMAIN q, l \in DOMAIN q : j = i + 1 /\ l = k + 1 /\ r[i] = q[j] /\ r[k] = q[l]
      BY <1>2
    <3>2. j = l
      BY <1>6, <2>1, <3>1 DEF NoTwice
    <3> QED BY <1>4, <3>1, <3>2
  <2>2. ASSUME NEW i \in DOMAIN r, r[i] = x PROVE FALSE
    <3>1. PICK j \in DOMAIN q : j = i + 1 /\ r[i] = q[j]
      BY <1>2
    <3>2. j = 1
      BY <1>1, <1>4, <1>6, <2>2, <3>1 DEF NoTwice
    <3> QED BY <1>4, <3>1, <3>2
  <2> QED BY <2>1, <2>2 DEF NoTwice, InQueue
<1>7. ASSUME Ascending(q) PROVE Ascending(r) /\ \A m \in Msg : InQueue(r, m) => x < m
  <2>1. ASSUME NEW i \in DOMAIN r, NEW k \in DOMAIN r, i < k PROVE r[i] < r[k]
    <3>1. PICK j \in DOMAIN q, l \in DOMAIN q : j = i + 1 /\ l = k + 1 /\ r[i] = q[j] /\ r[k] = q[l]
      BY <1>2
    <3>2. j < l
      BY <1>4, <2>1, <3>1
    <3> QED BY <1>7, <3>1, <3>2 DEF Ascending
  <2>2. ASSUME NEW i \in DOMAIN r PROVE x < r[i]
    <3>1. PICK j \in DOMAIN q : j = i + 1 /\ r[i] = q[j]
      BY <1>2
    <3>2. 1 < j
      BY <1>4, <3>1
    <3> QED BY <1>1, <1>4, <1>7, <3>1, <3>2 DEF Ascending
  <2> QED BY <2>1, <2>2 DEF Ascending, InQueue
<1> QED BY <1>1, <1>5, <1>6, <1>7 DEF r, x

\* An empty queue holds nothing.
LEMMA QueueEmpty ==
  /\ <<>> \in Seq(Msg) /\ Len(<<>>) = 0 /\ NoTwice(<<>>) /\ Ascending(<<>>)
  /\ \A m : ~InQueue(<<>>, m)
<1>1. <<>> \in Seq(Msg) /\ Len(<<>>) = 0 /\ DOMAIN <<>> = {}
  OBVIOUS
<1> QED BY <1>1 DEF NoTwice, Ascending, InQueue

\* A step that leaves a side's sending alone keeps what is known of it.
LEMMA SendingFrame ==
  ASSUME NEW s \in Side, SendingOK(s),
         audio_tx'[s] = audio_tx[s], made'[s] = made[s], sender'[s] = sender[s],
         frame_seq'[s] = frame_seq[s], route' = route, held'[s] => held[s],
         unsent'[s] = unsent[s], \A d \in sent' : d.from = s => d \in sent
  PROVE  SendingOK(s)'
BY DEF SendingOK, Precedes

\* A step that leaves a side's receiving alone, and takes nothing back, likewise.
LEMMA ReceivingFrame ==
  ASSUME NEW s \in Side, ReceivingOK(s),
         heard'[s] = heard[s], audio_rx'[s] = audio_rx[s], receiver'[s] = receiver[s],
         inhand'[s] = inhand[s], route' = route, opened \subseteq opened',
         \A m \in Msg : Precedes(Other(s), m) => Precedes(Other(s), m)'
  PROVE  ReceivingOK(s)'
<1>1. \A m \in Msg : GotIt(s, m)' <=> GotIt(s, m)
  BY DEF GotIt
<1> QED BY <1>1 DEF ReceivingOK

\* Messages taken from the channel still precede those that wait.
LEMMA PrecedesTail ==
  ASSUME NEW s \in Side, audio_tx[s] \in Seq(Msg), audio_tx[s] # <<>>,
         audio_tx'[s] = Tail(audio_tx[s]), made'[s] = made[s]
  PROVE  \A m \in Msg : Precedes(s, m) => Precedes(s, m)'
BY QueueTail DEF Precedes

\* A message shared is numbered after all before it.
LEMMA ShareStep ==
  ASSUME AudioIInv, NEW s \in Side, Share(s)
  PROVE  AudioIInv'
<1>1. PICK q \in Seq(Msg), n \in Msg : q = audio_tx[s] /\ n = made[s] + 1 /\ Len(q) <= AppCap
                                       /\ made[s] \in 0 .. MaxMsg
  BY BoundAssumption DEF AudioIInv, AudioTypes, AudioTypeOK, Share, Msg
<1>2. /\ UNCHANGED <<route, held, sender, frame_seq, unsent, sent, opened, lost>>
      /\ UNCHANGED <<remote_addr, receiver, inhand, audio_rx, inbound, heard>>
      /\ made' = [made EXCEPT ![s] = n]
      /\ audio_tx' = IF Len(q) < AppCap THEN [audio_tx EXCEPT ![s] = Append(q, n)] ELSE audio_tx
  BY <1>1 DEF Share, netVars, receiverVars, playVars, AudioIInv, AudioTypes, AudioTypeOK
<1>3. /\ made'[s] = n /\ \A t \in Side \ {s} : made'[t] = made[t] /\ audio_tx'[t] = audio_tx[t]
      /\ made' \in [Side -> 0 .. MaxMsg]
  BY <1>1, <1>2, BoundAssumption DEF AudioIInv, AudioTypes, AudioTypeOK, Msg
<1>4. /\ (audio_tx'[s] = Append(q, n) /\ Len(q) < AppCap) \/ audio_tx'[s] = q
      /\ DOMAIN audio_tx' = Side
  BY <1>1, <1>2 DEF AudioIInv, AudioTypes
<1>5. /\ audio_tx'[s] \in Seq(Msg) /\ Len(audio_tx'[s]) <= AppCap
      /\ \A m : InQueue(audio_tx'[s], m) => InQueue(q, m) \/ m = n
      /\ (Ascending(q) /\ \A m \in Msg : InQueue(q, m) => m < n) => Ascending(audio_tx'[s])
  <2>1. CASE audio_tx'[s] = q
    BY <1>1, <2>1
  <2>2. CASE audio_tx'[s] = Append(q, n) /\ Len(q) < AppCap
    <3>1. Len(q) + 1 <= AppCap
      BY <1>1, <2>2, BoundAssumption
    <3> QED BY <1>1, <2>2, <3>1, QueueAppend
  <2> QED BY <1>4, <2>1, <2>2
<1>6. \A t \in Side : /\ audio_tx'[t] \in Seq(Msg) /\ Len(audio_tx'[t]) <= AppCap
                      /\ audio_tx[t] \in Seq(Msg) /\ made[t] \in 0 .. MaxMsg
  BY <1>3, <1>5 DEF AudioIInv, AudioTypes, AudioTypeOK
<1>7. \A m \in Msg : /\ m <= made[s] => m <= n /\ m < n
                     /\ m \in Nat
  BY <1>1 DEF Msg
<1>8. \A t \in Side, m \in Msg : Precedes(t, m) => Precedes(t, m)'
  <2>1. \A m \in Msg : Precedes(s, m) => Precedes(s, m)'
    BY <1>1, <1>3, <1>5, <1>7 DEF Precedes
  <2>2. \A t \in Side \ {s}, m \in Msg : Precedes(t, m) => Precedes(t, m)'
    BY <1>3 DEF Precedes
  <2> QED BY <2>1, <2>2
<1>9. SendingOK(s)'
  <2>1. SendingOK(s)
    BY DEF AudioIInv
  <2>2. Ascending(audio_tx'[s]) /\ \A m \in Msg : InQueue(audio_tx'[s], m) => m <= made'[s]
    <3>1. Ascending(q) /\ \A m \in Msg : InQueue(q, m) => m <= made[s]
      BY <1>1, <2>1 DEF SendingOK
    <3>2. \A m \in Msg : InQueue(q, m) => m < n /\ m <= n
      BY <1>7, <3>1
    <3>3. n <= n
      BY <1>7, <1>1
    <3> QED BY <1>3, <1>5, <3>1, <3>2, <3>3
  <2>3. sender[s] # "done" \/ ~held[s]
    BY <2>1 DEF SendingOK
  <2>4. held[s]
    BY DEF Share
  <2>5. \A d \in sent : d.msg \in Msg
    BY DEF AudioIInv, AudioTypes, AudioTypeOK
  <2>6. unsent[s] \subseteq Msg
    BY DEF AudioIInv, AudioTypes, AudioTypeOK
  <2> QED BY <1>2, <1>8, <2>1, <2>2, <2>3, <2>4, <2>5, <2>6 DEF SendingOK
<1>10. \A t \in Side : SendingOK(t)'
  <2>1. ASSUME NEW t \in Side \ {s} PROVE SendingOK(t)'
    BY <1>2, <1>3, SendingFrame DEF AudioIInv
  <2> QED BY <1>9, <2>1
<1>11. ASSUME NEW t \in Side PROVE ReceivingOK(t)'
  <2>1. Other(t) \in Side
    BY SidesFacts
  <2> QED BY <1>2, <1>8, <2>1, ReceivingFrame DEF AudioIInv
<1>12. AudioTypes'
  BY <1>2, <1>3, <1>4, <1>6 DEF AudioIInv, AudioTypes, AudioTypeOK
<1>13. FramesOnce' /\ NonceOnce' /\ AwakeForGood'
  BY <1>2 DEF AudioIInv, FramesOnce, NonceOnce, AwakeForGood
<1> QED BY <1>10, <1>11, <1>12, <1>13 DEF AudioIInv

\* A message dropped was taken before there is a sender, and one sealed takes the next
\* counter of the only sender there is.
LEMMA SenderTakesStep ==
  ASSUME AudioIInv, NEW s \in Side, SenderTakes(s)
  PROVE  AudioIInv'
<1>1. PICK q \in Seq(Msg) : q = audio_tx[s] /\ Len(q) <= AppCap /\ q # <<>>
  BY DEF AudioIInv, AudioTypes, AudioTypeOK, SenderTakes
<1>2. PICK n \in Msg : n = Head(q)
  BY <1>1, QueueTail
<1>3. /\ Tail(q) \in Seq(Msg) /\ Len(Tail(q)) <= AppCap
      /\ \A m : InQueue(q, m) <=> m = n \/ InQueue(Tail(q), m)
      /\ Ascending(q) => Ascending(Tail(q)) /\ \A m \in Msg : InQueue(Tail(q), m) => n < m
  BY <1>1, <1>2, QueueTail, BoundAssumption
<1>4. /\ UNCHANGED <<route, held, made, opened, lost>>
      /\ UNCHANGED <<remote_addr, receiver, inhand, audio_rx, inbound, heard>>
      /\ route[s] = "udp" /\ (DropUnpinned(s) \/ SendSealed(s))
      /\ audio_tx' = [audio_tx EXCEPT ![s] = Tail(q)]
  BY <1>1 DEF SenderTakes, receiverVars, playVars
<1>5. /\ audio_tx'[s] = Tail(q) /\ DOMAIN audio_tx' = Side
      /\ \A t \in Side \ {s} : audio_tx'[t] = audio_tx[t]
  BY <1>4 DEF AudioIInv, AudioTypes
<1>6. \A t \in Side : /\ audio_tx'[t] \in Seq(Msg) /\ Len(audio_tx'[t]) <= AppCap
                      /\ audio_tx[t] \in Seq(Msg) /\ made[t] \in 0 .. MaxMsg
  BY <1>3, <1>5 DEF AudioIInv, AudioTypes, AudioTypeOK
<1>7. \A t \in Side, m \in Msg : Precedes(t, m) => Precedes(t, m)'
  <2>1. \A m \in Msg : Precedes(s, m) => Precedes(s, m)'
    BY <1>3, <1>1, <1>4, <1>5 DEF Precedes
  <2>2. \A t \in Side \ {s}, m \in Msg : Precedes(t, m) => Precedes(t, m)'
    BY <1>4, <1>5 DEF Precedes
  <2> QED BY <2>1, <2>2
<1>8. SendingOK(s)
  BY DEF AudioIInv
<1>9. /\ Ascending(audio_tx'[s]) /\ \A m \in Msg : InQueue(audio_tx'[s], m) => m <= made'[s]
      /\ Precedes(s, n)'
  BY <1>1, <1>2, <1>3, <1>4, <1>5, <1>8 DEF SendingOK, Precedes
<1>10. sender[s] \in {"waits", "made"}
  <2>1. sender[s] # "off" /\ sender[s] # "done"
    BY <1>1, <1>4, <1>8 DEF SendingOK
  <2> QED BY <2>1 DEF AudioIInv, AudioTypes, AudioTypeOK
<1>11. ASSUME NEW t \in Side PROVE ReceivingOK(t)'
  <2>1. Other(t) \in Side
    BY SidesFacts
  <2> QED BY <1>4, <1>7, <2>1, ReceivingFrame DEF AudioIInv
<1>12. \A d \in sent : d.from \in Side /\ d.seq \in Nat /\ d.msg \in Msg
  BY DEF AudioIInv, AudioTypes, AudioTypeOK
<1>13. unsent \in [Side -> SUBSET Msg] /\ frame_seq \in [Side -> Nat]
       /\ sender \in [Side -> {"off", "waits", "made", "done"}]
  BY DEF AudioIInv, AudioTypes, AudioTypeOK
<1>14. CASE DropUnpinned(s)
  <2>1. /\ UNCHANGED <<sender, frame_seq, sent>> /\ sender[s] = "waits"
        /\ unsent' = [unsent EXCEPT ![s] = @ \cup {n}]
    BY <1>1, <1>2, <1>10, <1>14 DEF DropUnpinned, Ready
  <2>2. /\ unsent'[s] = unsent[s] \cup {n} /\ \A t \in Side \ {s} : unsent'[t] = unsent[t]
        /\ unsent' \in [Side -> SUBSET Msg]
    BY <1>13, <2>1
  <2>3. \A d \in sent : d.from # s
    BY <1>8, <2>1 DEF SendingOK
  <2>4. SendingOK(s)'
    BY <1>4, <1>7, <1>8, <1>9, <1>13, <2>1, <2>2, <2>3 DEF SendingOK
  <2>5. ASSUME NEW t \in Side \ {s} PROVE SendingOK(t)'
    BY <1>4, <1>5, <2>1, <2>2, SendingFrame DEF AudioIInv
  <2>6. AwakeForGood'
    BY <2>1, <2>2, <2>3 DEF AudioIInv, AwakeForGood
  <2>7. FramesOnce' /\ NonceOnce'
    BY <2>1 DEF AudioIInv, FramesOnce, NonceOnce
  <2>8. AudioTypes'
    BY <1>4, <1>5, <1>6, <2>1, <2>2 DEF AudioIInv, AudioTypes, AudioTypeOK
  <2> QED BY <1>11, <2>4, <2>5, <2>6, <2>7, <2>8 DEF AudioIInv
<1>15. CASE SendSealed(s)
  <2>1. PICK k \in Nat : k = SeqOf(s)
    BY <1>13 DEF SeqOf
  <2>2. PICK f \in [from : Side, seq : Nat, msg : Msg] : f = [from |-> s, seq |-> k, msg |-> n]
    OBVIOUS
  <2>3. /\ f.from = s /\ f.seq = k /\ f.msg = n
    BY <2>2
  <2>4. /\ unsent' = unsent /\ sent' = sent \cup {f}
        /\ sender' = [sender EXCEPT ![s] = "made"] /\ frame_seq' = [frame_seq EXCEPT ![s] = k + 1]
    BY <1>1, <1>2, <1>15, <2>1, <2>2 DEF SendSealed
  <2>5. /\ sender'[s] = "made" /\ frame_seq'[s] = k + 1
        /\ \A t \in Side \ {s} : sender'[t] = sender[t] /\ frame_seq'[t] = frame_seq[t]
        /\ sender' \in [Side -> {"off", "waits", "made", "done"}] /\ frame_seq' \in [Side -> Nat]
    BY <1>13, <2>4
  <2>6. \A d \in sent : d.from = s => d.seq < k /\ d.seq < k + 1 /\ d.msg < n
    <3>1. ASSUME NEW d \in sent, d.from = s
          PROVE  sender[s] = "made" /\ d.seq < frame_seq[s] /\ d.msg < n
      BY <1>1, <1>2, <1>3, <1>8, <1>10, <1>12, <3>1 DEF SendingOK, Precedes
    <3>2. ASSUME NEW d \in sent, d.from = s
          PROVE  d.seq < k
      BY <2>1, <3>1, <3>2 DEF SeqOf
    <3> QED BY <1>12, <2>1, <3>1, <3>2
  <2>7. k < k + 1
    BY <2>1
  <2>8. SendingOK(s)'
    <3>1. \A d \in sent' : d.from = s => d.seq < frame_seq'[s] /\ Precedes(s, d.msg)'
      BY <1>7, <1>8, <1>9, <1>12, <2>3, <2>4, <2>5, <2>6, <2>7 DEF SendingOK
    <3>2. \A m \in unsent'[s] : Precedes(s, m)'
      BY <1>7, <1>8, <1>13, <2>4 DEF SendingOK
    <3> QED BY <1>4, <1>9, <2>5, <3>1, <3>2 DEF SendingOK
  <2>9. ASSUME NEW t \in Side \ {s} PROVE SendingOK(t)'
    BY <1>4, <1>5, <2>3, <2>4, <2>5, SendingFrame DEF AudioIInv
  <2>10. AwakeForGood'
    <3>1. \A m \in unsent[s] : m < n
      BY <1>1, <1>2, <1>3, <1>8, <1>13 DEF SendingOK, Precedes
    <3> QED BY <2>3, <2>4, <3>1 DEF AudioIInv, AwakeForGood
  <2>11. FramesOnce' /\ NonceOnce'
    <3>1. \A d \in sent : d.from = s => d.seq # k /\ d.msg # n
      BY <1>12, <2>6, <1>2, <2>1 DEF Msg
    <3> QED BY <2>3, <2>4, <3>1 DEF AudioIInv, FramesOnce, NonceOnce
  <2>12. AudioTypes'
    BY <1>4, <1>5, <1>6, <2>2, <2>4, <2>5 DEF AudioIInv, AudioTypes, AudioTypeOK
  <2> QED BY <1>11, <2>8, <2>9, <2>10, <2>11, <2>12 DEF AudioIInv
<1> QED BY <1>4, <1>14, <1>15


\* A sender that ends leaves nothing in its channel, and its share is over.
LEMMA SenderEndsStep ==
  ASSUME AudioIInv, NEW s \in Side, SenderEnds(s)
  PROVE  AudioIInv'
<1>1. /\ UNCHANGED <<route, held, made, audio_tx, frame_seq, unsent, sent, opened, lost>>
      /\ UNCHANGED <<remote_addr, receiver, inhand, audio_rx, inbound, heard>>
      /\ ~held[s] /\ audio_tx[s] = <<>> /\ sender[s] \in {"waits", "made"}
      /\ sender' = [sender EXCEPT ![s] = "done"]
  BY DEF SenderEnds, netVars, receiverVars, playVars
<1>2. /\ sender'[s] = "done" /\ \A t \in Side \ {s} : sender'[t] = sender[t]
      /\ sender' \in [Side -> {"off", "waits", "made", "done"}]
  BY <1>1 DEF AudioIInv, AudioTypes, AudioTypeOK
<1>3. SendingOK(s)'
  <2>1. SendingOK(s)
    BY DEF AudioIInv
  <2> QED BY <1>1, <1>2, <2>1 DEF SendingOK, Precedes
<1>4. ASSUME NEW t \in Side \ {s} PROVE SendingOK(t)'
  BY <1>1, <1>2, SendingFrame DEF AudioIInv
<1>5. ASSUME NEW t \in Side PROVE ReceivingOK(t)'
  <2>1. \A m \in Msg : Precedes(Other(t), m) => Precedes(Other(t), m)'
    BY <1>1 DEF Precedes
  <2> QED BY <1>1, <2>1, ReceivingFrame DEF AudioIInv
<1>6. AudioTypes' /\ FramesOnce' /\ NonceOnce' /\ AwakeForGood'
  BY <1>1, <1>2 DEF AudioIInv, AudioTypes, AudioTypeOK, FramesOnce, NonceOnce, AwakeForGood
<1> QED BY <1>3, <1>4, <1>5, <1>6 DEF AudioIInv

\* Steps of the network and the closes touch no message that was got or waits.
LEMMA AudioQuietStep ==
  ASSUME AudioIInv, NEW s \in Side,
         OnClose(s) \/ InboundEnds(s) \/ \E d \in sent : Lose(d)
  PROVE  AudioIInv'
<1>1. /\ UNCHANGED <<route, made, audio_tx, sender, frame_seq, unsent, sent, opened>>
      /\ UNCHANGED <<remote_addr, receiver, inhand, audio_rx, heard>>
      /\ \A t \in Side : held'[t] => held[t]
      /\ held' \in [Side -> BOOLEAN] /\ inbound' \in [Side -> BOOLEAN] /\ lost' \subseteq sent
  <2>1. held \in [Side -> BOOLEAN] /\ inbound \in [Side -> BOOLEAN] /\ lost \subseteq sent
    BY DEF AudioIInv, AudioTypes, AudioTypeOK
  <2>2. CASE OnClose(s)
    BY <2>1, <2>2 DEF OnClose, senderVars, netVars, receiverVars, playVars
  <2>3. CASE InboundEnds(s)
    BY <2>1, <2>3 DEF InboundEnds, senderVars, netVars, receiverVars
  <2>4. CASE \E d \in sent : Lose(d)
    BY <2>1, <2>4 DEF Lose, InFlight, senderVars, receiverVars, playVars
  <2> QED BY <2>2, <2>3, <2>4
<1>2. ASSUME NEW t \in Side PROVE SendingOK(t)' /\ ReceivingOK(t)'
  <2>1. \A m \in Msg : Precedes(Other(t), m) => Precedes(Other(t), m)'
    BY <1>1 DEF Precedes
  <2> QED BY <1>1, <2>1, SendingFrame, ReceivingFrame DEF AudioIInv
<1>3. AudioTypes' /\ FramesOnce' /\ NonceOnce' /\ AwakeForGood'
  BY <1>1 DEF AudioIInv, AudioTypes, AudioTypeOK, FramesOnce, NonceOnce, AwakeForGood
<1> QED BY <1>2, <1>3 DEF AudioIInv

\* A frame that is opened for the first time has a message that was not got yet.
LEMMA ReceiveStep ==
  ASSUME AudioIInv, NEW s \in Side, NEW d \in sent, Receive(s, d)
  PROVE  AudioIInv'
<1>1. /\ UNCHANGED <<route, held, made, audio_tx, sender, frame_seq, unsent, sent, lost>>
      /\ UNCHANGED <<audio_rx, inbound, heard>>
      /\ receiver[s] = "recv" /\ d \notin opened /\ d.from = Other(s)
      /\ opened' = opened \cup {d}
      /\ receiver' = [receiver EXCEPT ![s] = "send"]
      /\ inhand' = [inhand EXCEPT ![s] = d.msg]
      /\ remote_addr' = [remote_addr EXCEPT ![s] = Pinned(s, d.from)]
  BY DEF Receive, InFlight, senderVars, playVars
<1>2. PICK n \in Msg : n = d.msg
  BY DEF AudioIInv, AudioTypes, AudioTypeOK
<1>3. Other(s) \in Side /\ Other(s) # s
  BY SidesFacts
<1>4. /\ receiver'[s] = "send" /\ inhand'[s] = n
      /\ \A t \in Side \ {s} : receiver'[t] = receiver[t] /\ inhand'[t] = inhand[t]
      /\ receiver' \in [Side -> {"off", "recv", "send", "done"}]
      /\ inhand' \in [Side -> 0 .. MaxMsg]
      /\ remote_addr' \in [Side -> Side \cup {None}]
  <2>1. /\ receiver \in [Side -> {"off", "recv", "send", "done"}]
        /\ inhand \in [Side -> 0 .. MaxMsg] /\ remote_addr \in [Side -> Side \cup {None}]
    BY DEF AudioIInv, AudioTypes, AudioTypeOK
  <2>2. n \in 0 .. MaxMsg
    BY BoundAssumption DEF Msg
  <2>3. Pinned(s, d.from) \in Side \cup {None}
    BY <1>1, <1>3, <2>1 DEF Pinned
  <2>4. inhand' = [inhand EXCEPT ![s] = n]
    BY <1>1, <1>2
  <2>5. remote_addr' \in [Side -> Side \cup {None}]
    BY <1>1, <2>1, <2>3
  <2>6. inhand'[s] = n /\ inhand' \in [Side -> 0 .. MaxMsg]
    BY <2>1, <2>2, <2>4
  <2>7. /\ receiver'[s] = "send" /\ receiver' \in [Side -> {"off", "recv", "send", "done"}]
        /\ \A t \in Side \ {s} : receiver'[t] = receiver[t] /\ inhand'[t] = inhand[t]
    BY <1>1, <2>1, <2>4
  <2> QED BY <2>5, <2>6, <2>7
<1>5. \A t \in Side, m \in Msg : Precedes(t, m) => Precedes(t, m)'
  BY <1>1 DEF Precedes
<1>6. ReceivingOK(s)'
  <2>1. ReceivingOK(s) /\ SendingOK(Other(s))
    BY <1>3 DEF AudioIInv
  <2>2. route[s] = "udp"
    <3>1. route[s] # "tcp"
      BY <1>1, <2>1 DEF ReceivingOK
    <3> QED BY <3>1 DEF AudioIInv, AudioTypes, AudioTypeOK
  <2>3. ~GotIt(s, n)
    <3> SUFFICES ASSUME GotIt(s, n) PROVE FALSE
      OBVIOUS
    <3>1. PICK e \in opened : e.from = Other(s) /\ e.msg = n
      BY <2>1, <2>2 DEF ReceivingOK
    <3>2. e \in sent
      BY <3>1 DEF AudioIInv, AudioTypes, AudioTypeOK
    <3>3. e = d
      BY <1>1, <1>2, <3>1, <3>2 DEF AudioIInv, FramesOnce
    <3> QED BY <1>1, <3>1, <3>3
  <2>4. ~InQueue(heard[s], n) /\ ~InQueue(audio_rx[s], n)
    BY <2>3 DEF GotIt
  <2>5. Precedes(Other(s), n)
    BY <1>1, <1>2, <2>1 DEF SendingOK
  <2>6. \A m \in Msg : GotIt(s, m)' => GotIt(s, m) \/ m = n
    BY <1>1, <1>4 DEF GotIt
  <2>7. \A m \in Msg : GotIt(s, m)' =>
          /\ Precedes(Other(s), m)'
          /\ route'[s] = "udp" => \E e \in opened' : e.from = Other(s) /\ e.msg = m
    <3>1. ASSUME NEW m \in Msg, GotIt(s, m)
          PROVE  /\ Precedes(Other(s), m)'
                 /\ \E e \in opened' : e.from = Other(s) /\ e.msg = m
      BY <1>1, <1>3, <1>5, <2>1, <2>2, <3>1 DEF ReceivingOK
    <3>2. /\ Precedes(Other(s), n)'
          /\ \E e \in opened' : e.from = Other(s) /\ e.msg = n
      BY <1>1, <1>2, <1>3, <1>5, <2>5
    <3> QED BY <2>6, <3>1, <3>2
  <2> QED BY <1>1, <1>4, <2>1, <2>2, <2>4, <2>7 DEF ReceivingOK
<1>7. ASSUME NEW t \in Side \ {s} PROVE ReceivingOK(t)'
  <2>1. Other(t) \in Side
    BY SidesFacts
  <2> QED BY <1>1, <1>4, <1>5, <2>1, ReceivingFrame DEF AudioIInv
<1>8. ASSUME NEW t \in Side PROVE SendingOK(t)'
  BY <1>1, SendingFrame DEF AudioIInv
<1>9. AudioTypes' /\ FramesOnce' /\ NonceOnce' /\ AwakeForGood'
  BY <1>1, <1>4 DEF AudioIInv, AudioTypes, AudioTypeOK, FramesOnce, NonceOnce, AwakeForGood
<1> QED BY <1>6, <1>7, <1>8, <1>9 DEF AudioIInv

\* A message handed over goes from the hand of the receiver task to the inbound channel.
LEMMA HandOverStep ==
  ASSUME AudioIInv, NEW s \in Side, HandOver(s)
  PROVE  AudioIInv'
<1>1. /\ UNCHANGED <<route, held, made, audio_tx, sender, frame_seq, unsent, sent, opened, lost>>
      /\ UNCHANGED <<remote_addr, inhand, inbound, heard>>
      /\ receiver[s] = "send"
  BY DEF HandOver, senderVars, netVars
<1>2. PICK q \in Seq(Msg) : q = audio_rx[s] /\ Len(q) <= AppCap
  BY DEF AudioIInv, AudioTypes, AudioTypeOK
<1>3. ReceivingOK(s)
  BY DEF AudioIInv
<1>4. PICK n \in Msg : n = inhand[s] /\ ~InQueue(heard[s], n) /\ ~InQueue(q, n)
  BY <1>1, <1>2, <1>3 DEF ReceivingOK
<1>5. /\ \A t \in Side \ {s} : receiver'[t] = receiver[t] /\ audio_rx'[t] = audio_rx[t]
      /\ receiver' \in [Side -> {"off", "recv", "send", "done"}] /\ DOMAIN audio_rx' = Side
      /\ receiver'[s] \in {"done", "recv"}
      /\ audio_rx'[s] = q \/ (audio_rx'[s] = Append(q, n) /\ Len(q) < AppCap)
  BY <1>2, <1>4 DEF HandOver, AudioIInv, AudioTypes, AudioTypeOK
<1>6. /\ audio_rx'[s] \in Seq(Msg) /\ Len(audio_rx'[s]) <= AppCap
      /\ \A m : InQueue(audio_rx'[s], m) => InQueue(q, m) \/ m = n
      /\ NoTwice(audio_rx'[s])
  <2>1. NoTwice(q)
    BY <1>2, <1>3 DEF ReceivingOK
  <2>2. CASE audio_rx'[s] = q
    BY <1>2, <2>1, <2>2
  <2>3. CASE audio_rx'[s] = Append(q, n) /\ Len(q) < AppCap
    <3>1. Len(q) + 1 <= AppCap
      BY <1>2, <2>3, BoundAssumption
    <3> QED BY <1>4, <2>1, <2>3, <3>1, QueueAppend
  <2> QED BY <1>5, <2>2, <2>3
<1>7. \A t \in Side, m \in Msg : Precedes(t, m) => Precedes(t, m)'
  BY <1>1 DEF Precedes
<1>8. ReceivingOK(s)'
  <2>1. \A m \in Msg : GotIt(s, m)' => GotIt(s, m)
    BY <1>1, <1>2, <1>4, <1>5, <1>6 DEF GotIt
  <2>2. Other(s) \in Side
    BY SidesFacts
  <2>3. route[s] # "tcp"
    BY <1>1, <1>3 DEF ReceivingOK
  <2>4. \A m \in Msg : ~(InQueue(heard[s], m) /\ InQueue(audio_rx'[s], m))
    BY <1>2, <1>3, <1>4, <1>6 DEF ReceivingOK
  <2> QED BY <1>1, <1>3, <1>5, <1>6, <1>7, <2>1, <2>2, <2>3, <2>4 DEF ReceivingOK
<1>9. ASSUME NEW t \in Side \ {s} PROVE ReceivingOK(t)'
  <2>1. Other(t) \in Side
    BY SidesFacts
  <2> QED BY <1>1, <1>5, <1>7, <2>1, ReceivingFrame DEF AudioIInv
<1>10. ASSUME NEW t \in Side PROVE SendingOK(t)'
  BY <1>1, SendingFrame DEF AudioIInv
<1>11. \A t \in Side : audio_rx'[t] \in Seq(Msg) /\ Len(audio_rx'[t]) <= AppCap
  BY <1>5, <1>6 DEF AudioIInv, AudioTypes, AudioTypeOK
<1>12. AudioTypes' /\ FramesOnce' /\ NonceOnce' /\ AwakeForGood'
  BY <1>1, <1>5, <1>11 DEF AudioIInv, AudioTypes, AudioTypeOK, FramesOnce, NonceOnce, AwakeForGood
<1> QED BY <1>8, <1>9, <1>10, <1>12 DEF AudioIInv

\* Over TCP the other side gets the first message that waits, or nothing.
LEMMA OverTcpStep ==
  ASSUME AudioIInv, NEW s \in Side, OverTcp(s)
  PROVE  AudioIInv'
<1>1. PICK o \in Side : o = Other(s) /\ o # s /\ Other(o) = s /\ \A t \in Side : t = s \/ t = o
  BY SidesFacts
<1>2. PICK q \in Seq(Msg), r \in Seq(Msg) :
        q = audio_tx[s] /\ Len(q) <= AppCap /\ q # <<>> /\ r = audio_rx[o] /\ Len(r) <= AppCap
  BY DEF AudioIInv, AudioTypes, AudioTypeOK, OverTcp
<1>3. PICK n \in Msg : n = Head(q)
  BY <1>2, QueueTail
<1>4. /\ Tail(q) \in Seq(Msg) /\ Len(Tail(q)) <= AppCap
      /\ \A m : InQueue(q, m) <=> m = n \/ InQueue(Tail(q), m)
      /\ Ascending(q) => Ascending(Tail(q)) /\ \A m \in Msg : InQueue(Tail(q), m) => n < m
  BY <1>2, <1>3, QueueTail, BoundAssumption
<1>5. /\ UNCHANGED <<route, held, made, sender, frame_seq, unsent, sent, opened, lost>>
      /\ UNCHANGED <<remote_addr, receiver, inhand, inbound, heard>>
      /\ route[s] = "tcp" /\ audio_tx' = [audio_tx EXCEPT ![s] = Tail(q)]
      /\ \/ audio_rx' = audio_rx
         \/ /\ route[o] = "tcp" /\ Len(r) < AppCap
            /\ audio_rx' = [audio_rx EXCEPT ![o] = Append(r, n)]
  BY <1>1, <1>2, <1>3 DEF OverTcp, netVars, receiverVars
<1>6. /\ audio_tx'[s] = Tail(q) /\ audio_tx'[o] = audio_tx[o] /\ DOMAIN audio_tx' = Side
      /\ audio_rx'[s] = audio_rx[s] /\ DOMAIN audio_rx' = Side
      /\ audio_rx'[o] = r \/ (route[o] = "tcp" /\ Len(r) < AppCap /\ audio_rx'[o] = Append(r, n))
  BY <1>1, <1>2, <1>5 DEF AudioIInv, AudioTypes
<1>7. SendingOK(s) /\ SendingOK(o) /\ ReceivingOK(s) /\ ReceivingOK(o)
  BY DEF AudioIInv
<1>8. \A t \in Side, m \in Msg : Precedes(t, m) => Precedes(t, m)'
  <2>1. \A m \in Msg : Precedes(s, m) => Precedes(s, m)'
    BY <1>2, <1>4, <1>5, <1>6 DEF Precedes
  <2>2. \A m \in Msg : Precedes(o, m) => Precedes(o, m)'
    BY <1>5, <1>6 DEF Precedes
  <2> QED BY <1>1, <2>1, <2>2
<1>9. /\ Ascending(audio_tx'[s]) /\ \A m \in Msg : InQueue(audio_tx'[s], m) => m <= made'[s]
      /\ Precedes(s, n)'
  BY <1>2, <1>3, <1>4, <1>5, <1>6, <1>7 DEF SendingOK, Precedes
<1>10. ~GotIt(o, n)
  <2> SUFFICES ASSUME GotIt(o, n) PROVE FALSE
    OBVIOUS
  <2>1. n < n
    BY <1>1, <1>2, <1>4, <1>7 DEF ReceivingOK, Precedes
  <2> QED BY <2>1, <1>3 DEF Msg
<1>11. /\ audio_rx'[o] \in Seq(Msg) /\ Len(audio_rx'[o]) <= AppCap
       /\ \A m : InQueue(audio_rx'[o], m) => InQueue(r, m) \/ (m = n /\ route[o] = "tcp")
       /\ NoTwice(audio_rx'[o])
  <2>1. NoTwice(r) /\ ~InQueue(r, n)
    BY <1>2, <1>7, <1>10 DEF ReceivingOK, GotIt
  <2>2. CASE audio_rx'[o] = r
    BY <1>2, <2>1, <2>2
  <2>3. CASE route[o] = "tcp" /\ audio_rx'[o] = Append(r, n) /\ Len(r) < AppCap
    <3>1. Len(r) + 1 <= AppCap
      BY <1>2, <2>3, BoundAssumption
    <3> QED BY <1>2, <2>1, <2>3, <3>1, QueueAppend
  <2> QED BY <1>6, <2>2, <2>3
<1>12. SendingOK(s)'
  <2>1. \A d \in sent : d.msg \in Msg
    BY DEF AudioIInv, AudioTypes, AudioTypeOK
  <2>2. unsent[s] \subseteq Msg /\ sender[s] = "off"
    BY <1>5, <1>7 DEF AudioIInv, AudioTypes, AudioTypeOK, SendingOK
  <2> QED BY <1>5, <1>7, <1>8, <1>9, <2>1, <2>2 DEF SendingOK
<1>13. SendingOK(o)'
  BY <1>5, <1>6, <1>7, SendingFrame
<1>14. ReceivingOK(s)'
  BY <1>1, <1>5, <1>6, <1>7, <1>8, ReceivingFrame
<1>15. ReceivingOK(o)'
  <2>1. \A m \in Msg : GotIt(o, m)' => GotIt(o, m) \/ (m = n /\ route[o] = "tcp")
    BY <1>2, <1>5, <1>11 DEF GotIt
  <2>2. \A m \in Msg : GotIt(o, m)' =>
          /\ Precedes(s, m)'
          /\ route'[o] = "udp" => \E d \in opened' : d.from = s /\ d.msg = m
    BY <1>1, <1>5, <1>7, <1>8, <1>9, <2>1 DEF ReceivingOK
  <2>3. \A m \in Msg : ~(InQueue(heard[o], m) /\ InQueue(audio_rx'[o], m))
    BY <1>2, <1>7, <1>10, <1>11 DEF ReceivingOK, GotIt
  <2>4. receiver[o] = "send" => ~InQueue(heard[o], inhand[o]) /\ ~InQueue(audio_rx'[o], inhand[o])
    BY <1>2, <1>7, <1>11 DEF ReceivingOK
  <2> QED BY <1>1, <1>5, <1>7, <1>11, <2>2, <2>3, <2>4 DEF ReceivingOK
<1>16. \A t \in Side : /\ audio_rx'[t] \in Seq(Msg) /\ Len(audio_rx'[t]) <= AppCap
                       /\ audio_tx'[t] \in Seq(Msg) /\ Len(audio_tx'[t]) <= AppCap
  BY <1>1, <1>4, <1>6, <1>11 DEF AudioIInv, AudioTypes, AudioTypeOK
<1>17. AudioTypes' /\ FramesOnce' /\ NonceOnce' /\ AwakeForGood'
  BY <1>5, <1>6, <1>16 DEF AudioIInv, AudioTypes, AudioTypeOK, FramesOnce, NonceOnce, AwakeForGood
<1> QED BY <1>1, <1>12, <1>13, <1>14, <1>15, <1>17 DEF AudioIInv

\* A message played goes from the inbound channel to what was heard; a shutdown drops
\* those that wait there.
LEMMA PlayStep ==
  ASSUME AudioIInv, NEW s \in Side, Play(s) \/ Shutdown(s)
  PROVE  AudioIInv'
<1>1. /\ UNCHANGED <<route, made, audio_tx, sender, frame_seq, unsent, sent, opened, lost>>
      /\ UNCHANGED <<remote_addr, receiver, inhand>>
      /\ held' \in [Side -> BOOLEAN] /\ inbound' \in [Side -> BOOLEAN]
      /\ \A t \in Side : held'[t] => held[t]
  <2>1. held \in [Side -> BOOLEAN] /\ inbound \in [Side -> BOOLEAN]
    BY DEF AudioIInv, AudioTypes, AudioTypeOK
  <2>2. CASE Play(s)
    BY <2>1, <2>2 DEF Play, senderVars, netVars, receiverVars
  <2>3. CASE Shutdown(s)
    BY <2>1, <2>3 DEF Shutdown, senderVars, netVars, receiverVars
  <2> QED BY <2>2, <2>3
<1>2. PICK q \in Seq(Msg), h \in Seq(Msg) :
        q = audio_rx[s] /\ Len(q) <= AppCap /\ h = heard[s] /\ Len(q) \in Nat
  BY DEF AudioIInv, AudioTypes, AudioTypeOK
<1>3. ReceivingOK(s)
  BY DEF AudioIInv
<1>4. NoTwice(h) /\ NoTwice(q) /\ \A m \in Msg : ~(InQueue(h, m) /\ InQueue(q, m))
  BY <1>2, <1>3 DEF ReceivingOK
<1>5. /\ \A t \in Side \ {s} : audio_rx'[t] = audio_rx[t] /\ heard'[t] = heard[t]
      /\ DOMAIN audio_rx' = Side /\ DOMAIN heard' = Side
      /\ audio_rx'[s] \in Seq(Msg) /\ Len(audio_rx'[s]) <= AppCap /\ heard'[s] \in Seq(Msg)
      /\ NoTwice(audio_rx'[s]) /\ NoTwice(heard'[s])
      /\ \A m \in Msg : ~(InQueue(heard'[s], m) /\ InQueue(audio_rx'[s], m))
      /\ \A m \in Msg : InQueue(heard'[s], m) \/ InQueue(audio_rx'[s], m)
                          => InQueue(h, m) \/ InQueue(q, m)
  <2>1. CASE Play(s)
    <3>1. PICK n \in Msg : n = Head(q) /\ q # <<>>
      BY <1>2, <2>1, QueueTail DEF Play
    <3>2. /\ Tail(q) \in Seq(Msg) /\ Len(Tail(q)) = Len(q) - 1
          /\ \A m : InQueue(q, m) <=> m = n \/ InQueue(Tail(q), m)
          /\ NoTwice(Tail(q)) /\ ~InQueue(Tail(q), n)
      BY <1>2, <1>4, <3>1, QueueTail
    <3>3. /\ Append(h, n) \in Seq(Msg) /\ NoTwice(Append(h, n))
          /\ \A m : InQueue(Append(h, n), m) <=> InQueue(h, m) \/ m = n
      BY <1>2, <1>4, <3>1, <3>2, QueueAppend
    <3>4. Len(Tail(q)) <= AppCap
      BY <1>2, <3>2, BoundAssumption
    <3>5. /\ heard' = [heard EXCEPT ![s] = Append(h, n)]
          /\ audio_rx' = [audio_rx EXCEPT ![s] = Tail(q)]
      BY <1>2, <2>1, <3>1 DEF Play
    <3>6. /\ heard'[s] = Append(h, n) /\ audio_rx'[s] = Tail(q)
          /\ \A t \in Side \ {s} : audio_rx'[t] = audio_rx[t] /\ heard'[t] = heard[t]
          /\ DOMAIN audio_rx' = Side /\ DOMAIN heard' = Side
      BY <3>5 DEF AudioIInv, AudioTypes
    <3> QED BY <1>4, <3>2, <3>3, <3>4, <3>6
  <2>2. CASE Shutdown(s)
    <3>1. heard' = heard /\ audio_rx' = [audio_rx EXCEPT ![s] = <<>>]
      BY <2>2 DEF Shutdown
    <3>2. /\ heard'[s] = h /\ audio_rx'[s] = <<>>
          /\ \A t \in Side \ {s} : audio_rx'[t] = audio_rx[t] /\ heard'[t] = heard[t]
          /\ DOMAIN audio_rx' = Side /\ DOMAIN heard' = Side
      BY <1>2, <3>1 DEF AudioIInv, AudioTypes
    <3>3. 0 <= AppCap
      BY BoundAssumption
    <3> QED BY <1>2, <1>4, <3>2, <3>3, QueueEmpty
  <2> QED BY <2>1, <2>2
<1>6. \A t \in Side, m \in Msg : Precedes(t, m) => Precedes(t, m)'
  BY <1>1 DEF Precedes
<1>7. ReceivingOK(s)'
  <2>1. \A m \in Msg : GotIt(s, m)' => GotIt(s, m)
    BY <1>1, <1>2, <1>5 DEF GotIt
  <2>2. Other(s) \in Side
    BY SidesFacts
  <2>3. receiver[s] = "send" =>
          ~InQueue(heard'[s], inhand[s]) /\ ~InQueue(audio_rx'[s], inhand[s])
    BY <1>2, <1>3, <1>5 DEF ReceivingOK
  <2> QED BY <1>1, <1>3, <1>5, <1>6, <2>1, <2>2, <2>3 DEF ReceivingOK
<1>8. ASSUME NEW t \in Side \ {s} PROVE ReceivingOK(t)'
  <2>1. Other(t) \in Side
    BY SidesFacts
  <2> QED BY <1>1, <1>5, <1>6, <2>1, ReceivingFrame DEF AudioIInv
<1>9. ASSUME NEW t \in Side PROVE SendingOK(t)'
  BY <1>1, SendingFrame DEF AudioIInv
<1>10. \A t \in Side : /\ audio_rx'[t] \in Seq(Msg) /\ Len(audio_rx'[t]) <= AppCap
                       /\ heard'[t] \in Seq(Msg)
  BY <1>5 DEF AudioIInv, AudioTypes, AudioTypeOK
<1>11. AudioTypes' /\ FramesOnce' /\ NonceOnce' /\ AwakeForGood'
  BY <1>1, <1>5, <1>10 DEF AudioIInv, AudioTypes, AudioTypeOK, FramesOnce, NonceOnce, AwakeForGood
<1> QED BY <1>7, <1>8, <1>9, <1>11 DEF AudioIInv

\* Nothing is sent or got when the session starts.
LEMMA AudioInitHolds == AudioInit => AudioIInv
<1> SUFFICES ASSUME AudioInit PROVE AudioIInv
  OBVIOUS
<1>1. /\ DOMAIN audio_tx = Side /\ DOMAIN audio_rx = Side /\ DOMAIN heard = Side
      /\ \A s \in Side : audio_tx[s] = <<>> /\ audio_rx[s] = <<>> /\ heard[s] = <<>>
      /\ \A s \in Side : made[s] = 0 /\ held[s] /\ unsent[s] = {}
      /\ sent = {} /\ opened = {} /\ lost = {}
  BY DEF AudioInit
<1>2. route \in [Side -> {"tcp", "udp"}]
  BY DEF AudioInit, RouteOf
<1>3. \A s \in Side : /\ sender[s] \in {"off", "waits", "made"}
                      /\ (route[s] = "tcp" <=> sender[s] = "off")
                      /\ receiver[s] \in {"off", "recv"}
                      /\ (route[s] = "tcp" => receiver[s] = "off")
  BY <1>2 DEF AudioInit
<1>4. AudioTypes
  <2>1. sender \in [Side -> {"off", "waits", "made", "done"}]
    BY <1>3 DEF AudioInit
  <2>2. receiver \in [Side -> {"off", "recv", "send", "done"}]
    BY <1>3 DEF AudioInit
  <2>3. remote_addr \in [Side -> Side \cup {None}]
    BY SidesFacts DEF AudioInit
  <2>4. 0 \in 0 .. MaxMsg /\ 0 <= AppCap
    BY BoundAssumption
  <2>5. made \in [Side -> 0 .. MaxMsg] /\ inhand \in [Side -> 0 .. MaxMsg]
    BY <2>4 DEF AudioInit
  <2>6. /\ held \in [Side -> BOOLEAN] /\ inbound \in [Side -> BOOLEAN]
        /\ frame_seq \in [Side -> Nat] /\ unsent \in [Side -> SUBSET Msg]
    BY DEF AudioInit
  <2> QED BY <1>1, <1>2, <2>1, <2>2, <2>3, <2>4, <2>5, <2>6, QueueEmpty DEF AudioTypes, AudioTypeOK
<1>5. ASSUME NEW s \in Side PROVE SendingOK(s) /\ ReceivingOK(s)
  <2>1. /\ audio_tx[s] = <<>> /\ audio_rx[s] = <<>> /\ heard[s] = <<>>
        /\ sent = {} /\ unsent[s] = {}
        /\ sender[s] # "done" /\ (route[s] = "tcp" <=> sender[s] = "off")
        /\ receiver[s] # "send" /\ (route[s] = "tcp" => receiver[s] = "off")
    BY <1>1, <1>3
  <2>2. DOMAIN <<>> = {}
    OBVIOUS
  <2>3. \A m \in Msg : ~InQueue(<<>>, m)
    BY <2>2 DEF InQueue
  <2>4. Ascending(<<>>) /\ NoTwice(<<>>)
    BY <2>2 DEF Ascending, NoTwice
  <2>5. \A m \in Msg : ~GotIt(s, m)
    BY <2>1, <2>3 DEF GotIt
  <2>6. SendingOK(s)
    BY <2>1, <2>3, <2>4 DEF SendingOK
  <2>7. ReceivingOK(s)
    BY <2>1, <2>3, <2>4, <2>5 DEF ReceivingOK
  <2> QED BY <2>6, <2>7
<1> QED BY <1>1, <1>4, <1>5 DEF AudioIInv, FramesOnce, NonceOnce, AwakeForGood

\* The channels of the sound keep their capacity, no nonce is used for two frames though
\* the AEAD session is made anew, a sender that has sent drops nothing more, and nothing
\* is heard twice (udp_audio.rs spawn_pipe), for any number of messages and any capacity.
THEOREM AudioInvHolds == AudioSpec => []AudioInv
<1>1. AudioIInv /\ [AudioNext]_audioVars => AudioIInv'
  <2> SUFFICES ASSUME AudioIInv, [AudioNext]_audioVars PROVE AudioIInv'
    OBVIOUS
  <2>1. CASE AudioNext
    BY <2>1, ShareStep, SenderTakesStep, SenderEndsStep, HandOverStep, OverTcpStep, PlayStep,
       AudioQuietStep, ReceiveStep DEF AudioNext
  <2>2. CASE UNCHANGED audioVars
    <3>1. /\ UNCHANGED <<route, held, made, audio_tx, sender, frame_seq, unsent>>
          /\ UNCHANGED <<sent, opened, lost, remote_addr, receiver, inhand>>
          /\ UNCHANGED <<audio_rx, inbound, heard>>
      BY <2>2 DEF audioVars, senderVars, netVars, receiverVars, playVars
    <3>2. ASSUME NEW t \in Side PROVE SendingOK(t)' /\ ReceivingOK(t)'
      <4>1. \A m \in Msg : Precedes(Other(t), m) => Precedes(Other(t), m)'
        BY <3>1 DEF Precedes
      <4> QED BY <3>1, <4>1, SendingFrame, ReceivingFrame DEF AudioIInv
    <3>3. AudioTypes' /\ FramesOnce' /\ NonceOnce' /\ AwakeForGood'
      BY <3>1 DEF AudioIInv, AudioTypes, AudioTypeOK, FramesOnce, NonceOnce, AwakeForGood
    <3> QED BY <3>2, <3>3 DEF AudioIInv
  <2> QED BY <2>1, <2>2
<1>2. AudioIInv => AudioInv
  <2> SUFFICES ASSUME AudioIInv, NEW s \in Side
               PROVE  /\ \A i, j \in DOMAIN heard[s] : heard[s][i] = heard[s][j] => i = j
                      /\ \A i \in DOMAIN heard[s] : heard[s][i] <= made[Other(s)]
    BY DEF AudioIInv, AudioInv, AudioTypes, HeardOnce
  <2>1. ReceivingOK(s) /\ heard[s] \in Seq(Msg)
    BY DEF AudioIInv, AudioTypes, AudioTypeOK
  <2>2. ASSUME NEW i \in DOMAIN heard[s] PROVE heard[s][i] <= made[Other(s)]
    <3>1. PICK m \in Msg : m = heard[s][i]
      BY <2>1
    <3>2. GotIt(s, m)
      BY <3>1 DEF GotIt, InQueue
    <3> QED BY <2>1, <3>1, <3>2 DEF ReceivingOK, Precedes
  <2> QED BY <2>1, <2>2 DEF ReceivingOK, NoTwice
<1> QED BY AudioInitHolds, <1>1, <1>2, PTL DEF AudioSpec
=============================================================================
