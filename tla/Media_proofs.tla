----------------------------- MODULE Media_proofs -----------------------------
(* Proofs about the media.  VideoEncoder, for any limit of the worker's       *)
(* queue, any transform that keeps its contract, any number of frames,        *)
(* commands and failures: the credits are balanced, frames come out in order, *)
(* and a drain that returns has brought back what the transform took.         *)
(* MediaShare, for any starts, machines, peers and capacities: peers follow   *)
(* the codec of a stream, and what they receive of it never goes back.        *)
EXTENDS VideoEncoder, MediaShare, FiniteSetTheorems, SequenceTheorems, TLAPS

-----------------------------------------------------------------------------
(* The asynchronous encoder (VideoEncoder).                                  *)

Mft == [phase : {"off", "on", "draining", "drained"}, inq : Seq(Frames), outq : Seq(Frames),
        queue : Seq(Kinds), credits : 0 .. Depth, idr : BOOLEAN]

EncoderTypes == EncoderTypeOK /\ mft \in Mft /\ leaked <= failures

\* The transform is on while the worker is in its loop, and nothing happens before.
PhaseFollowsWorker ==
  /\ worker \in {"setup", "done"} <=> mft.phase = "off"
  /\ worker = "setup" =>
       needs = 0 /\ leaked = 0 /\ mft.credits = 0 /\ events = <<>> /\ ~armed /\ mft.queue = <<>>
       /\ acked = {}
  /\ mft.phase = "off" => mft.inq = <<>> /\ mft.outq = <<>>

\* No output is announced behind the end of a drain.
Quiet == mft.inq = <<>> /\ mft.phase # "on"
DrainIsLast ==
  /\ \A i \in DOMAIN mft.queue : mft.queue[i] = "DrainComplete" =>
       Quiet /\ \A j \in DOMAIN mft.queue : i < j => mft.queue[j] # "HaveOutput"
  /\ \A i \in DOMAIN events : events[i] = "DrainComplete" =>
       Quiet /\ \A j \in DOMAIN mft.queue : mft.queue[j] # "HaveOutput"

\* An ack that no failure explains was sent when everything was out.
AckedIsDrained ==
  /\ failures = 0 /\ acked # {} => Quiet /\ mft.outq = <<>>
  /\ caller = "drained" => acked # {} /\ (failures = 0 => output = <<>>)

EncoderIInv ==
  /\ EncoderTypes /\ CreditBalance /\ PhaseFollowsWorker /\ DrainIsLast /\ AckedIsDrained
  /\ FramesInOrder /\ lost \subseteq 1 .. next - 1

-----------------------------------------------------------------------------
(* Sequences of numbers.                                                     *)

Ascends(q) == \A i, j \in DOMAIN q : i < j => q[i] < q[j]

\* The elements of a concatenation are those of its parts.
LEMMA SetOfConcat ==
  ASSUME NEW S, NEW p \in Seq(S), NEW q \in Seq(S)
  PROVE  ToSet(p \o q) = ToSet(p) \cup ToSet(q)
<1>1. /\ p \o q \in Seq(S) /\ Len(p \o q) = Len(p) + Len(q)
      /\ \A i \in 1 .. Len(p) : (p \o q)[i] = p[i]
      /\ \A i \in 1 .. Len(q) : (p \o q)[Len(p) + i] = q[i]
      /\ Len(p) \in Nat /\ Len(q) \in Nat
  OBVIOUS
<1>2. /\ DOMAIN p = 1 .. Len(p) /\ DOMAIN q = 1 .. Len(q)
      /\ DOMAIN (p \o q) = 1 .. Len(p) + Len(q)
  BY <1>1
<1> DEFINE r == p \o q
<1> HIDE DEF r
<1>3. ASSUME NEW i \in DOMAIN p PROVE p[i] \in ToSet(r)
  <2>1. i \in DOMAIN r /\ r[i] = p[i]
    BY <1>1, <1>2 DEF r
  <2> QED BY <2>1 DEF ToSet
<1>4. ASSUME NEW i \in DOMAIN q PROVE q[i] \in ToSet(r)
  <2>1. Len(p) + i \in DOMAIN r /\ r[Len(p) + i] = q[i]
    BY <1>1, <1>2 DEF r
  <2> QED BY <2>1 DEF ToSet
<1>5. ASSUME NEW i \in DOMAIN r PROVE r[i] \in ToSet(p) \cup ToSet(q)
  <2>1. CASE i <= Len(p)
    <3>1. i \in DOMAIN p /\ r[i] = p[i]
      BY <1>1, <1>2, <2>1 DEF r
    <3> QED BY <3>1 DEF ToSet
  <2>2. CASE i > Len(p)
    <3>1. PICK j \in 1 .. Len(q) : i = Len(p) + j
      <4>1. i - Len(p) \in 1 .. Len(q) /\ i = Len(p) + (i - Len(p))
        BY <1>1, <1>2, <2>2 DEF r
      <4> QED BY <4>1
    <3>2. r[i] = q[j] /\ j \in DOMAIN q
      BY <1>1, <1>2, <3>1 DEF r
    <3> QED BY <3>2 DEF ToSet
  <2>3. i \in Nat
    BY <1>1, <1>2 DEF r
  <2> QED BY <1>1, <2>1, <2>2, <2>3
<1>6. ToSet(r) = ToSet(p) \cup ToSet(q)
  BY <1>3, <1>4, <1>5 DEF ToSet
<1> QED BY <1>6 DEF r

\* A concatenation ascends if its parts do, and the first is below the second.
LEMMA ConcatAscends ==
  ASSUME NEW p \in Seq(Nat), NEW q \in Seq(Nat)
  PROVE  Ascends(p \o q) <=>
           /\ Ascends(p) /\ Ascends(q)
           /\ \A x \in ToSet(p), y \in ToSet(q) : x < y
<1>1. /\ p \o q \in Seq(Nat) /\ Len(p \o q) = Len(p) + Len(q)
      /\ \A i \in 1 .. Len(p) : (p \o q)[i] = p[i]
      /\ \A i \in 1 .. Len(q) : (p \o q)[Len(p) + i] = q[i]
      /\ Len(p) \in Nat /\ Len(q) \in Nat
  OBVIOUS
<1>2. /\ DOMAIN p = 1 .. Len(p) /\ DOMAIN q = 1 .. Len(q)
      /\ DOMAIN (p \o q) = 1 .. Len(p) + Len(q)
  BY <1>1
<1> DEFINE r == p \o q
           Below == \A i \in DOMAIN p, j \in DOMAIN q : p[i] < q[j]
<1>3. (\A x \in ToSet(p), y \in ToSet(q) : x < y) <=> Below
  BY DEF ToSet
<1>4. PICK m \in Nat, n \in Nat : m = Len(p) /\ n = Len(q)
  BY <1>1
<1>5. /\ \A i \in 1 .. m : r[i] = p[i]
      /\ \A i \in 1 .. n : r[m + i] = q[i]
      /\ DOMAIN p = 1 .. m /\ DOMAIN q = 1 .. n /\ DOMAIN r = 1 .. m + n
  BY <1>1, <1>2, <1>4
<1> HIDE DEF r
<1>6. ASSUME Ascends(r) PROVE Ascends(p) /\ Ascends(q) /\ Below
  <2>1. Ascends(p)
    <3> SUFFICES ASSUME NEW i \in 1 .. m, NEW j \in 1 .. m, i < j PROVE p[i] < p[j]
      BY <1>5 DEF Ascends
    <3>1. i \in 1 .. m + n /\ j \in 1 .. m + n
      OBVIOUS
    <3> QED BY <1>5, <1>6, <3>1 DEF Ascends
  <2>2. Ascends(q)
    <3> SUFFICES ASSUME NEW i \in 1 .. n, NEW j \in 1 .. n, i < j PROVE q[i] < q[j]
      BY <1>5 DEF Ascends
    <3>1. m + i \in 1 .. m + n /\ m + j \in 1 .. m + n /\ m + i < m + j
      OBVIOUS
    <3> QED BY <1>5, <1>6, <3>1 DEF Ascends
  <2>3. Below
    <3> SUFFICES ASSUME NEW i \in 1 .. m, NEW j \in 1 .. n PROVE p[i] < q[j]
      BY <1>5
    <3>1. i \in 1 .. m + n /\ m + j \in 1 .. m + n /\ i < m + j
      OBVIOUS
    <3> QED BY <1>5, <1>6, <3>1 DEF Ascends
  <2> QED BY <2>1, <2>2, <2>3
<1>7. ASSUME Ascends(p), Ascends(q), Below PROVE Ascends(r)
  <2> SUFFICES ASSUME NEW i \in 1 .. m + n, NEW j \in 1 .. m + n, i < j PROVE r[i] < r[j]
    BY <1>5 DEF Ascends
  <2>1. CASE j <= m
    <3>1. i \in 1 .. m /\ j \in 1 .. m
      BY <2>1
    <3> QED BY <1>5, <1>7, <3>1 DEF Ascends
  <2>2. CASE i <= m /\ j > m
    <3>1. PICK l \in 1 .. n : j = m + l
      <4>1. j - m \in 1 .. n /\ j = m + (j - m)
        BY <2>2
      <4> QED BY <4>1
    <3>2. i \in 1 .. m
      BY <2>2
    <3>3. r[i] = p[i] /\ r[j] = q[l]
      BY <1>5, <3>1, <3>2
    <3> QED BY <1>5, <1>7, <3>2, <3>3
  <2>3. CASE i > m
    <3>1. PICK k \in 1 .. n : i = m + k
      <4>1. i - m \in 1 .. n /\ i = m + (i - m)
        BY <2>3
      <4> QED BY <4>1
    <3>2. PICK l \in 1 .. n : j = m + l
      <4>1. j - m \in 1 .. n /\ j = m + (j - m)
        BY <2>3
      <4> QED BY <4>1
    <3>3. k < l
      BY <3>1, <3>2
    <3>4. r[i] = q[k] /\ r[j] = q[l]
      BY <1>5, <3>1, <3>2
    <3> QED BY <1>5, <1>7, <3>3, <3>4 DEF Ascends
  <2> QED BY <2>1, <2>2, <2>3
<1> QED BY <1>3, <1>6, <1>7 DEF r

\* A sequence is its first element and the rest.
LEMMA HeadFirst ==
  ASSUME NEW S, NEW q \in Seq(S), q # <<>>
  PROVE  /\ Head(q) \in S /\ Tail(q) \in Seq(S)
         /\ <<Head(q)>> \in Seq(S) /\ q = <<Head(q)>> \o Tail(q)
<1>1. Head(q) \in S /\ Tail(q) \in Seq(S) /\ Len(q) \in Nat /\ Len(q) >= 1
  OBVIOUS
<1>2. <<Head(q)>> \in Seq(S)
  BY <1>1
<1>3. q = <<Head(q)>> \o Tail(q)
  BY <1>1
<1> QED BY <1>1, <1>2, <1>3

\* How often an event is in a queue.
Occ(q, kind) == Cardinality({i \in DOMAIN q : q[i] = kind})

\* Counting over a queue of one event.
LEMMA OccIsCount ==
  ASSUME NEW kind
  PROVE  Count(kind) = Occ(mft.queue, kind) + Occ(events, kind)
BY DEF Count, Occ

\* The places of an event are finitely many.
LEMMA OccFinite ==
  ASSUME NEW S, NEW q \in Seq(S), NEW kind
  PROVE  /\ IsFiniteSet({i \in DOMAIN q : q[i] = kind}) /\ Occ(q, kind) \in Nat
         /\ Occ(q, kind) = 0 <=> \A i \in DOMAIN q : q[i] # kind
<1> DEFINE P == {i \in DOMAIN q : q[i] = kind}
<1>1. DOMAIN q = 1 .. Len(q) /\ Len(q) \in Nat
  OBVIOUS
<1>2. IsFiniteSet(1 .. Len(q))
  BY <1>1, FS_Interval
<1>3. P \subseteq 1 .. Len(q)
  BY <1>1
<1>4. IsFiniteSet(P)
  BY <1>2, <1>3, FS_Subset
<1>5. Cardinality(P) \in Nat /\ (Cardinality(P) = 0 <=> P = {})
  BY <1>4, FS_CardinalityType, FS_EmptySet
<1>6. P = {} <=> \A i \in DOMAIN q : q[i] # kind
  OBVIOUS
<1> QED BY <1>4, <1>5, <1>6 DEF Occ

\* An event more at the end of a queue.
LEMMA OccAppend ==
  ASSUME NEW S, NEW q \in Seq(S), NEW x \in S, NEW kind
  PROVE  Occ(Append(q, x), kind) = Occ(q, kind) + (IF x = kind THEN 1 ELSE 0)
<1> DEFINE P == {i \in DOMAIN q : q[i] = kind}
           r == Append(q, x)
           R == {i \in DOMAIN r : r[i] = kind}
<1>1. /\ Len(q) \in Nat /\ DOMAIN q = 1 .. Len(q) /\ DOMAIN r = 1 .. Len(q) + 1
      /\ \A i \in 1 .. Len(q) : r[i] = q[i]
      /\ r[Len(q) + 1] = x
  OBVIOUS
<1> HIDE DEF r
<1>2. IsFiniteSet(P)
  BY OccFinite
<1>3. Len(q) + 1 \notin P
  BY <1>1
<1>4. CASE x = kind
  <2>1. R = P \cup {Len(q) + 1}
    BY <1>1, <1>4
  <2>2. Cardinality(R) = Cardinality(P) + 1
    BY <1>2, <1>3, <2>1, FS_AddElement
  <2> QED BY <1>4, <2>2 DEF Occ, r
<1>5. CASE x # kind
  <2>1. R = P
    BY <1>1, <1>5
  <2>2. Cardinality(P) \in Nat
    BY <1>2, FS_CardinalityType
  <2>3. Occ(r, kind) = Occ(q, kind) /\ Occ(q, kind) \in Nat
    BY <2>1, <2>2 DEF Occ
  <2> QED BY <1>5, <2>3 DEF r
<1> QED BY <1>4, <1>5

\* An event less at the head of a queue.
LEMMA OccTail ==
  ASSUME NEW S, NEW q \in Seq(S), q # <<>>, NEW kind
  PROVE  Occ(q, kind) = Occ(Tail(q), kind) + (IF Head(q) = kind THEN 1 ELSE 0)
<1> DEFINE r == Tail(q)
           P == {i \in DOMAIN q : q[i] = kind}
           R == {i \in DOMAIN r : r[i] = kind}
           f == [i \in R |-> i + 1]
<1>1. PICK n \in Nat : Len(q) = n + 1
  BY EmptySeq, LenProperties
<1>2. /\ DOMAIN q = 1 .. n + 1 /\ r \in Seq(S) /\ DOMAIN r = 1 .. n
      /\ \A i \in 1 .. n : r[i] = q[i + 1]
      /\ Head(q) = q[1]
  BY <1>1
<1> HIDE DEF r
<1>3. IsFiniteSet(P) /\ IsFiniteSet(R)
  BY <1>2, OccFinite
<1>4. \A i \in P \ {1} : i - 1 \in R /\ i = (i - 1) + 1
  <2> SUFFICES ASSUME NEW i \in P \ {1} PROVE i - 1 \in R /\ i = (i - 1) + 1
    OBVIOUS
  <2>1. i \in 1 .. n + 1 /\ i # 1
    BY <1>2
  <2>2. i - 1 \in 1 .. n /\ i = (i - 1) + 1
    BY <2>1
  <2>3. r[i - 1] = q[i]
    BY <1>2, <2>2
  <2> QED BY <1>2, <2>2, <2>3
<1>5. \A i \in R : i + 1 \in P \ {1}
  <2> SUFFICES ASSUME NEW i \in R PROVE i + 1 \in P \ {1}
    OBVIOUS
  <2>1. i \in 1 .. n /\ r[i] = kind
    BY <1>2
  <2>2. i + 1 \in 1 .. n + 1 /\ i + 1 # 1 /\ q[i + 1] = kind
    BY <1>2, <2>1
  <2> QED BY <1>2, <2>2
<1>6. f \in Bijection(R, P \ {1})
  <2>1. f \in [R -> P \ {1}]
    BY <1>5
  <2>2. \A i, j \in R : f[i] = f[j] => i = j
    BY <1>2
  <2>3. \A p \in P \ {1} : \E i \in R : f[i] = p
    BY <1>4
  <2> QED BY <2>1, <2>2, <2>3 DEF Bijection, Injection, Surjection, IsInjective
<1>7. Cardinality(P \ {1}) = Cardinality(R)
  BY <1>3, <1>6, FS_Bijection DEF ExistsBijection
<1>8. 1 \in P <=> Head(q) = kind
  BY <1>2
<1>9. /\ Cardinality(P \ {1}) = IF 1 \in P THEN Cardinality(P) - 1 ELSE Cardinality(P)
      /\ Cardinality(P) \in Nat /\ Cardinality(R) \in Nat
  BY <1>3, FS_RemoveElement, FS_CardinalityType
<1>10. Cardinality(P) = Cardinality(R) + (IF Head(q) = kind THEN 1 ELSE 0)
  BY <1>7, <1>8, <1>9
<1> QED BY <1>10 DEF Occ, r

-----------------------------------------------------------------------------
(* Types, by group of variables.                                             *)

CallerTypes == /\ caller \in {"init", "idle", "drain", "drained", "drop", "gone", "failed"}
               /\ next \in 1 .. NFrames + 1 /\ got \in Seq(Frames) /\ calls \in 0 .. MaxCommands
ChanTypes == /\ input \in Seq(Frames) /\ output \in Seq(Frames)
             /\ cmd \in Seq(-(NFrames + 1) .. MaxCommands)
             /\ acked \subseteq 1 .. MaxCommands /\ shutdown \in BOOLEAN
WorkTypes == /\ worker \in Steps /\ needs \in Nat /\ waiting \in 0 .. MaxCommands
             /\ pending \in Seq(Frames) /\ Len(pending) <= MaxPending
EventTypes == /\ events \in Seq(Kinds \ {"Other"}) /\ armed \in BOOLEAN
              /\ unheard \in BOOLEAN /\ unarmed \in BOOLEAN
              /\ Len(events) <= 1 /\ (armed => events = <<>>)
LossTypes == /\ lost \subseteq Frames
             /\ leaked \in Nat /\ failures \in 0 .. MaxFailures /\ leaked <= failures

\* The bounds are natural numbers.
LEMMA EncoderBounds ==
  /\ MaxPending \in Nat \ {0} /\ Depth \in Nat \ {0} /\ Lag \in Nat /\ NFrames \in Nat
  /\ MaxCommands \in Nat /\ MaxFailures \in Nat
BY EncoderAssumption

\* The types of the variables are those of their groups.
LEMMA TypesByGroup ==
  EncoderTypes <=> CallerTypes /\ ChanTypes /\ WorkTypes /\ EventTypes /\ mft \in Mft /\ LossTypes
<1>1. ASSUME EncoderTypes
      PROVE  CallerTypes /\ ChanTypes /\ WorkTypes /\ EventTypes /\ mft \in Mft /\ LossTypes
  <2>1. EncoderTypeOK /\ mft \in Mft /\ leaked <= failures
    BY <1>1 DEF EncoderTypes
  <2>2. CallerTypes /\ ChanTypes
    BY <2>1 DEF EncoderTypeOK, CallerTypes, ChanTypes
  <2>3. WorkTypes /\ LossTypes
    BY <2>1 DEF EncoderTypeOK, WorkTypes, LossTypes
  <2>4. /\ events \in Seq(Kinds \ {"Other"}) /\ armed \in BOOLEAN
        /\ unheard \in BOOLEAN /\ unarmed \in BOOLEAN
        /\ Len(events) + (IF armed THEN 1 ELSE 0) <= 1
    BY <2>1 DEF EncoderTypeOK
  <2>5. Len(events) \in Nat /\ (Len(events) = 0 => events = <<>>)
    BY <2>4
  <2>6. Len(events) <= 1 /\ (armed => events = <<>>)
    BY <2>4, <2>5
  <2> QED BY <2>1, <2>2, <2>3, <2>4, <2>6 DEF EventTypes
<1>2. ASSUME CallerTypes, ChanTypes, WorkTypes, EventTypes, mft \in Mft, LossTypes
      PROVE  EncoderTypes
  <2>1. Len(events) + (IF armed THEN 1 ELSE 0) <= 1
    <3>1. events \in Seq(Kinds \ {"Other"}) /\ Len(events) <= 1 /\ (armed => events = <<>>)
      BY <1>2 DEF EventTypes
    <3>2. Len(events) \in Nat /\ (events = <<>> => Len(events) = 0)
      BY <3>1
    <3> QED BY <3>1, <3>2
  <2>2. leaked \in 0 .. MaxFailures
    BY <1>2, EncoderBounds DEF LossTypes
  <2>3. /\ mft.phase \in {"off", "on", "draining", "drained"}
        /\ mft.inq \in Seq(Frames) /\ mft.outq \in Seq(Frames) /\ mft.queue \in Seq(Kinds)
        /\ mft.credits \in 0 .. Depth /\ mft.idr \in BOOLEAN
    BY <1>2 DEF Mft
  <2>4. EncoderTypeOK
    BY <1>2, <2>1, <2>2, <2>3
       DEF EncoderTypeOK, CallerTypes, ChanTypes, WorkTypes, EventTypes, LossTypes
  <2> QED BY <1>2, <2>4 DEF EncoderTypes, LossTypes
<1> QED BY <1>1, <1>2

\* What a step leaves alone keeps its type.
LEMMA TypesKept ==
  /\ CallerTypes /\ UNCHANGED callerVars => CallerTypes'
  /\ ChanTypes /\ UNCHANGED chanVars => ChanTypes'
  /\ WorkTypes /\ UNCHANGED workVars => WorkTypes'
  /\ EventTypes /\ UNCHANGED eventVars => EventTypes'
  /\ mft \in Mft /\ UNCHANGED mft => mft' \in Mft
  /\ LossTypes /\ UNCHANGED <<lost, leaked, failures>> => LossTypes'
BY DEF callerVars, chanVars, workVars, eventVars,
       CallerTypes, ChanTypes, WorkTypes, EventTypes, LossTypes

\* Frames handed over are frames.
LEMMA FramesNat == Frames \subseteq Nat /\ Seq(Frames) \subseteq Seq(Nat)
<1>1. Frames \subseteq Nat
  BY EncoderBounds DEF Frames
<1>2. ASSUME NEW q \in Seq(Frames) PROVE q \in Seq(Nat)
  <2>1. Len(q) \in Nat /\ q \in [1 .. Len(q) -> Frames]
    OBVIOUS
  <2>2. q \in [1 .. Len(q) -> Nat]
    BY <1>1, <2>1
  <2> QED BY <2>1, <2>2
<1> QED BY <1>1, <1>2

\* The same after a step.
LEMMA TypesByGroupNext ==
  /\ CallerTypes' /\ ChanTypes' /\ WorkTypes' /\ EventTypes' /\ mft' \in Mft /\ LossTypes'
  => EncoderTypes'
<1>1. CallerTypes /\ ChanTypes /\ WorkTypes /\ EventTypes /\ mft \in Mft /\ LossTypes
      => EncoderTypes
  BY TypesByGroup
<1>2. (CallerTypes /\ ChanTypes /\ WorkTypes /\ EventTypes /\ mft \in Mft /\ LossTypes)'
      => EncoderTypes'
  BY <1>1, PTL
<1> QED BY <1>2

\* What is in a sequence of frames are frames.
LEMMA SetOfFrames ==
  ASSUME NEW q \in Seq(Frames)
  PROVE  ToSet(q) \subseteq Frames
BY DEF ToSet

\* Nothing is left of a queue of one.
LEMMA OneEvent ==
  ASSUME NEW S, NEW q \in Seq(S), q # <<>>, Len(q) <= 1
  PROVE  Len(q) = 1 /\ Tail(q) = <<>> /\ DOMAIN q = {1} /\ q[1] = Head(q)
<1>1. Len(q) \in Nat /\ Len(q) # 0
  OBVIOUS
<1>2. Len(q) = 1
  BY <1>1
<1>3. Tail(q) \in Seq(S) /\ Len(Tail(q)) = 0
  BY <1>2
<1>4. Tail(q) = <<>>
  BY <1>3
<1>5. DOMAIN q = 1 .. 1 /\ 1 .. 1 = {1}
  BY <1>2
<1>6. q[1] = Head(q)
  BY <1>2
<1> QED BY <1>2, <1>4, <1>5, <1>6

\* Types, when the caller does something.
LEMMA CallerTypesStep == ASSUME EncoderTypes, Caller PROVE EncoderTypes'
<1>0. CallerTypes /\ ChanTypes /\ WorkTypes /\ EventTypes /\ mft \in Mft /\ LossTypes
  BY TypesByGroup
<1>1. /\ UNCHANGED <<workVars, eventVars, mft, lost, leaked, failures>>
  BY DEF Caller, TryNew, EncodeRgb, ForceKeyframe, DrainCall, DrainReturn, GoOn, Drop, JoinThread
<1>2. WorkTypes' /\ EventTypes' /\ mft' \in Mft /\ LossTypes'
  BY <1>0, <1>1, TypesKept
<1>3. CallerTypes' /\ ChanTypes'
  <2>1. CASE TryNew \/ GoOn \/ JoinThread
    BY <1>0, <2>1, TypesKept DEF TryNew, GoOn, JoinThread, CallerTypes
  <2>2. CASE Drop
    BY <1>0, <2>2 DEF Drop, CallerTypes, ChanTypes
  <2>3. CASE EncodeRgb
    <3>1. next \in Frames /\ next' = next + 1 /\ next \in 1 .. NFrames
      BY <1>0, <2>3, EncoderBounds DEF EncodeRgb, CallerTypes, Frames
    <3>2. input' = Append(input, next) /\ got' = got \o output /\ output' = <<>>
      BY <2>3 DEF EncodeRgb, Collect
    <3>3. input' \in Seq(Frames) /\ got' \in Seq(Frames) /\ output' \in Seq(Frames)
      BY <1>0, <3>1, <3>2 DEF CallerTypes, ChanTypes
    <3>4. next' \in 1 .. NFrames + 1
      BY <3>1, EncoderBounds
    <3> QED BY <1>0, <2>3, <3>3, <3>4 DEF EncodeRgb, CallerTypes, ChanTypes
  <2>4. CASE ForceKeyframe \/ DrainCall
    <3>1. calls' = calls + 1 /\ calls < MaxCommands /\ calls \in 0 .. MaxCommands
      BY <1>0, <2>4 DEF ForceKeyframe, DrainCall, CallerTypes
    <3>2. calls' \in 0 .. MaxCommands
      BY <3>1, EncoderBounds
    <3>3. PICK c \in -(NFrames + 1) .. MaxCommands : cmd' = Append(cmd, c)
      <4>1. ForceAt(next) \in -(NFrames + 1) .. MaxCommands
        BY <1>0, EncoderBounds DEF CallerTypes, ForceAt
      <4>2. calls' \in -(NFrames + 1) .. MaxCommands
        BY <3>2, EncoderBounds
      <4> QED BY <2>4, <4>1, <4>2 DEF ForceKeyframe, DrainCall
    <3>4. cmd' \in Seq(-(NFrames + 1) .. MaxCommands)
      BY <1>0, <3>3 DEF ChanTypes
    <3> QED BY <1>0, <2>4, <3>2, <3>4 DEF ForceKeyframe, DrainCall, CallerTypes, ChanTypes
  <2>5. CASE DrainReturn
    <3>1. got' = got \o output /\ output' = <<>>
      BY <2>5 DEF DrainReturn, Collect
    <3>2. got' \in Seq(Frames) /\ output' \in Seq(Frames)
      BY <1>0, <3>1 DEF CallerTypes, ChanTypes
    <3>3. caller' \in {"drained", "idle"}
      BY <2>5 DEF DrainReturn
    <3> QED BY <1>0, <2>5, <3>2, <3>3 DEF DrainReturn, CallerTypes, ChanTypes
  <2> QED BY <2>1, <2>2, <2>3, <2>4, <2>5 DEF Caller
<1> QED BY <1>2, <1>3, TypesByGroupNext

\* Types, when the transform or the bridge does something.
LEMMA TransformTypesStep == ASSUME EncoderTypes, Transform PROVE EncoderTypes'
<1>0. CallerTypes /\ ChanTypes /\ WorkTypes /\ EventTypes /\ mft \in Mft /\ LossTypes
  BY TypesByGroup
<1>1. /\ mft.phase \in {"off", "on", "draining", "drained"}
      /\ mft.inq \in Seq(Frames) /\ mft.outq \in Seq(Frames) /\ mft.queue \in Seq(Kinds)
      /\ mft.credits \in 0 .. Depth /\ mft.idr \in BOOLEAN
  BY <1>0 DEF Mft
<1>2. UNCHANGED <<callerVars, chanVars, workVars>>
  BY DEF Transform, AskInput, Encode, DrainDone, OtherEvent, Invoke
<1>3. CallerTypes' /\ ChanTypes' /\ WorkTypes'
  BY <1>0, <1>2, TypesKept
<1>4. ASSUME NEW k \in Kinds PROVE Append(mft.queue, k) \in Seq(Kinds)
  BY <1>1
<1>5. ASSUME AskInput PROVE mft' \in Mft /\ EventTypes' /\ LossTypes'
  <2>1. mft.credits + 1 \in 0 .. Depth
    <3>1. mft.credits + Len(mft.inq) < Depth /\ Len(mft.inq) \in Nat
      BY <1>1, <1>5 DEF AskInput, CanAsk
    <3> QED BY <1>1, <3>1, EncoderBounds
  <2>2. mft' = [mft EXCEPT !.credits = @ + 1, !.queue = Append(@, "NeedInput")]
    BY <1>0, <1>5 DEF AskInput, Emit, Mft
  <2>3. mft' \in Mft
    BY <1>0, <1>1, <1>4, <2>1, <2>2 DEF Mft, Kinds
  <2> QED BY <2>3, <1>5, <1>0, TypesKept DEF AskInput
<1>6. ASSUME Encode PROVE mft' \in Mft /\ EventTypes' /\ LossTypes'
  <2>1. mft.inq # <<>>
    BY <1>6 DEF Encode, CanEncode
  <2>2. Tail(mft.inq) \in Seq(Frames) /\ Append(mft.outq, Head(mft.inq)) \in Seq(Frames)
    BY <1>1, <2>1
  <2>3. mft' = [mft EXCEPT !.inq = Tail(@), !.outq = Append(@, Head(mft.inq)),
                           !.queue = Append(@, "HaveOutput")]
    BY <1>0, <1>6 DEF Encode, Emit, Mft
  <2>4. mft' \in Mft
    BY <1>0, <1>1, <1>4, <2>2, <2>3 DEF Mft, Kinds
  <2> QED BY <2>4, <1>6, <1>0, TypesKept DEF Encode
<1>7. ASSUME DrainDone PROVE mft' \in Mft /\ EventTypes' /\ LossTypes'
  <2>1. mft' = [mft EXCEPT !.phase = "drained", !.queue = Append(@, "DrainComplete")]
    BY <1>0, <1>7 DEF DrainDone, Emit, Mft
  <2>2. mft' \in Mft
    BY <1>0, <1>1, <1>4, <2>1 DEF Mft, Kinds
  <2> QED BY <2>2, <1>7, <1>0, TypesKept DEF DrainDone
<1>8. ASSUME OtherEvent PROVE mft' \in Mft /\ EventTypes' /\ LossTypes'
  <2>1. mft' = [mft EXCEPT !.queue = Append(@, "Other")]
    BY <1>0, <1>8 DEF OtherEvent, Emit, Mft
  <2>2. mft' \in Mft
    BY <1>0, <1>1, <1>4, <2>1 DEF Mft, Kinds
  <2>3. failures' \in 0 .. MaxFailures /\ leaked <= failures'
    BY <1>0, <1>8, EncoderBounds DEF OtherEvent, Fails, LossTypes
  <2>4. LossTypes'
    BY <1>0, <1>8, <2>3 DEF OtherEvent, LossTypes
  <2> QED BY <2>2, <2>4, <1>8, <1>0, TypesKept DEF OtherEvent
<1>9. ASSUME Invoke PROVE mft' \in Mft /\ EventTypes' /\ LossTypes'
  <2>1. /\ armed /\ mft.queue # <<>> /\ armed' = FALSE
        /\ mft' = [mft EXCEPT !.queue = Tail(@)]
        /\ UNCHANGED <<lost, leaked, failures>>
    BY <1>9 DEF Invoke
  <2>2. mft' \in Mft
    <3>1. Tail(mft.queue) \in Seq(Kinds) /\ Head(mft.queue) \in Kinds
      BY <1>1, <2>1
    <3> QED BY <1>0, <1>1, <2>1, <3>1 DEF Mft
  <2>3. EventTypes'
    <3>1. events = <<>> /\ Head(mft.queue) \in Kinds
      BY <1>0, <1>1, <2>1 DEF EventTypes
    <3>2. CASE Head(mft.queue) = "Other"
      BY <1>0, <1>9, <2>1, <3>2 DEF Invoke, EventTypes
    <3>3. CASE Head(mft.queue) # "Other"
      <4>1. events' = <<Head(mft.queue)>> /\ unheard' = unheard
        BY <1>9, <3>1, <3>3 DEF Invoke
      <4>2. events' \in Seq(Kinds \ {"Other"}) /\ Len(events') = 1
        BY <3>1, <3>3, <4>1
      <4>3. Len(events') <= 1
        BY <4>2
      <4>4. unheard' \in BOOLEAN /\ unarmed' \in BOOLEAN
        BY <1>0, <1>9, <4>1 DEF Invoke, EventTypes
      <4> QED BY <2>1, <4>2, <4>3, <4>4 DEF EventTypes
    <3> QED BY <3>2, <3>3
  <2> QED BY <1>0, <2>1, <2>2, <2>3, TypesKept
<1>10. mft' \in Mft /\ EventTypes' /\ LossTypes'
  BY <1>5, <1>6, <1>7, <1>8, <1>9 DEF Transform
<1> QED BY <1>3, <1>10, TypesByGroupNext

\* Types, when the worker does something.
LEMMA WorkerTypesStep == ASSUME EncoderTypes, PhaseFollowsWorker, Worker PROVE EncoderTypes'
<1>0. CallerTypes /\ ChanTypes /\ WorkTypes /\ EventTypes /\ mft \in Mft /\ LossTypes
  BY TypesByGroup
<1>1. /\ mft.phase \in {"off", "on", "draining", "drained"}
      /\ mft.inq \in Seq(Frames) /\ mft.outq \in Seq(Frames) /\ mft.queue \in Seq(Kinds)
      /\ mft.credits \in 0 .. Depth /\ mft.idr \in BOOLEAN
  BY <1>0 DEF Mft
<1>2. CallerTypes'
  BY <1>0, TypesKept DEF Worker, Setup, Top, OnEvent, OnCommand, OnInput, OnMatch, NextLoop
<1> DEFINE Typed == ChanTypes' /\ WorkTypes' /\ EventTypes' /\ mft' \in Mft /\ LossTypes'
<1>f. ASSUME Fails
      PROVE  /\ failures' \in 0 .. MaxFailures /\ failures' = failures + 1
             /\ leaked <= failures' /\ leaked + 1 <= failures' /\ leaked \in Nat
  BY <1>0, <1>f, EncoderBounds DEF Fails, LossTypes
<1>s. <<>> \in Seq(Frames)
  OBVIOUS
<1>3. ASSUME Setup PROVE Typed
  <2>1. worker = "setup" /\ events = <<>>
    BY <1>3 DEF Setup, PhaseFollowsWorker
  <2>2. /\ worker' \in {"top", "done"} /\ armed' \in {TRUE, armed}
        /\ mft' = mft \/ mft' = [mft EXCEPT !.phase = "on"]
        /\ UNCHANGED <<chanVars, needs, pending, waiting, events, unheard, unarmed, lost,
                       leaked, failures>>
    BY <1>3 DEF Setup
  <2>3. mft' \in Mft
    BY <1>0, <1>1, <2>2 DEF Mft
  <2>4. WorkTypes' /\ EventTypes'
    BY <1>0, <2>1, <2>2 DEF WorkTypes, EventTypes, Steps
  <2> QED BY <1>0, <2>2, <2>3, <2>4, TypesKept
<1>4. ASSUME Top PROVE Typed
  <2>1. /\ worker' \in {"done", "events"}
        /\ UNCHANGED <<chanVars, needs, pending, waiting, eventVars, leaked, failures>>
    BY <1>4 DEF Top
  <2>2. mft' \in Mft /\ lost' \subseteq Frames
    <3>1. CASE Stops
      <4>1. /\ lost' = lost \cup ToSet(mft.inq \o mft.outq)
            /\ mft' = [mft EXCEPT !.phase = "off", !.inq = <<>>, !.outq = <<>>]
        BY <1>4, <3>1 DEF Top
      <4>2. mft.inq \o mft.outq \in Seq(Frames)
        BY <1>1
      <4>3. ToSet(mft.inq \o mft.outq) \subseteq Frames
        BY <4>2, SetOfFrames
      <4>4. mft' \in Mft
        BY <1>0, <1>1, <1>s, <4>1 DEF Mft
      <4> QED BY <1>0, <4>1, <4>3, <4>4 DEF LossTypes
    <3>2. CASE ~Stops
      BY <1>0, <1>4, <3>2 DEF Top, LossTypes
    <3> QED BY <3>1, <3>2
  <2>3. WorkTypes' /\ LossTypes'
    BY <1>0, <2>1, <2>2 DEF WorkTypes, LossTypes, Steps
  <2> QED BY <1>0, <2>1, <2>2, <2>3, TypesKept
<1>5. ASSUME OnEvent PROVE Typed
  <2>1. /\ events # <<>> /\ events' = Tail(events)
        /\ UNCHANGED <<input, cmd, shutdown, worker, pending, unheard, leaked>>
    BY <1>5 DEF OnEvent
  <2>0. armed' \in BOOLEAN /\ unarmed' \in {TRUE, unarmed}
    <3>1. Rearm
      BY <1>5 DEF OnEvent
    <3> QED BY <3>1 DEF Rearm
  <2>2. EventTypes'
    <3>1. /\ events \in Seq(Kinds \ {"Other"}) /\ Len(events) <= 1
          /\ unheard \in BOOLEAN /\ unarmed \in BOOLEAN
      BY <1>0 DEF EventTypes
    <3>2. Tail(events) = <<>>
      BY <2>1, <3>1, OneEvent
    <3>3. <<>> \in Seq(Kinds \ {"Other"}) /\ Len(<<>>) <= 1
      OBVIOUS
    <3>4. events' = <<>>
      BY <2>1, <3>2
    <3>5. unheard' \in BOOLEAN /\ unarmed' \in BOOLEAN
      BY <2>0, <2>1, <3>1
    <3> QED BY <2>0, <3>3, <3>4, <3>5 DEF EventTypes
  <2>3. CASE Head(events) = "NeedInput"
    <3>1. needs' = needs + 1 /\ UNCHANGED <<mft, output, lost, failures, waiting, acked>>
      BY <1>5, <2>3 DEF OnEvent
    <3>2. needs' \in Nat
      BY <1>0, <3>1 DEF WorkTypes
    <3> QED BY <1>0, <2>1, <2>2, <3>1, <3>2 DEF ChanTypes, WorkTypes, LossTypes
  <2>4. CASE Head(events) = "HaveOutput"
    <3>1. ProcessOneOutput /\ UNCHANGED <<needs, waiting, acked>>
      BY <1>5, <2>4 DEF OnEvent
    <3>2. WorkTypes'
      BY <1>0, <2>1, <3>1 DEF WorkTypes
    <3>3. CASE mft.outq = <<>>
      BY <1>0, <2>1, <2>2, <3>1, <3>2, <3>3 DEF ProcessOneOutput, ChanTypes, LossTypes
    <3>4. CASE mft.outq # <<>>
      <4>1. Tail(mft.outq) \in Seq(Frames) /\ Head(mft.outq) \in Frames
        BY <1>1, <3>4
      <4>2. mft' = [mft EXCEPT !.outq = Tail(@)]
        BY <3>1, <3>4 DEF ProcessOneOutput
      <4>3. mft' \in Mft
        BY <1>0, <1>1, <4>1, <4>2 DEF Mft
      <4>4. Append(output, Head(mft.outq)) \in Seq(Frames)
        BY <1>0, <4>1 DEF ChanTypes
      <4>5. /\ output' = output \/ output' = Append(output, Head(mft.outq))
            /\ lost' = lost \/ lost' = lost \cup {Head(mft.outq)}
            /\ failures' = failures \/ Fails
        BY <3>1, <3>4 DEF ProcessOneOutput
      <4>6. ChanTypes'
        BY <1>0, <2>1, <3>1, <4>4, <4>5 DEF ChanTypes
      <4>7. LossTypes'
        BY <1>0, <1>f, <2>1, <4>1, <4>5 DEF LossTypes
      <4> QED BY <2>2, <3>2, <4>3, <4>6, <4>7
    <3> QED BY <3>3, <3>4
  <2>5. CASE Head(events) = "DrainComplete"
    <3>1. /\ acked' = acked \cup ({waiting} \ {NoDrain}) /\ waiting' = NoDrain
          /\ UNCHANGED <<mft, output, lost, failures, needs>>
      BY <1>5, <2>5 DEF OnEvent, SendAck
    <3>2. acked' \subseteq 1 .. MaxCommands /\ waiting' \in 0 .. MaxCommands
      BY <1>0, <3>1, EncoderBounds DEF ChanTypes, WorkTypes, NoDrain
    <3> QED BY <1>0, <2>1, <2>2, <3>1, <3>2 DEF ChanTypes, WorkTypes, LossTypes
  <2> QED BY <1>5, <2>3, <2>4, <2>5 DEF OnEvent
<1>6. ASSUME OnCommand PROVE Typed
  <2>1. /\ cmd # <<>> /\ cmd' = Tail(cmd)
        /\ UNCHANGED <<input, output, shutdown, worker, needs, pending, eventVars, lost, leaked>>
    BY <1>6 DEF OnCommand
  <2>2. cmd' \in Seq(-(NFrames + 1) .. MaxCommands) /\ Head(cmd) \in -(NFrames + 1) .. MaxCommands
    <3>1. PICK S : S = -(NFrames + 1) .. MaxCommands
      OBVIOUS
    <3>2. cmd \in Seq(S) /\ cmd # <<>>
      BY <1>0, <2>1, <3>1 DEF ChanTypes
    <3>3. Tail(cmd) \in Seq(S) /\ Head(cmd) \in S
      BY <3>2
    <3> QED BY <2>1, <3>1, <3>3
  <2>3. /\ \/ mft' = mft
           \/ mft' = [mft EXCEPT !.idr = TRUE] \/ mft' = [mft EXCEPT !.phase = "draining"]
        /\ \/ waiting' = waiting \/ waiting' = NoDrain
           \/ waiting' = Head(cmd) /\ Head(cmd) > 0
        /\ \/ acked' = acked
           \/ acked' = acked \cup ({Head(cmd)} \ {NoDrain}) /\ Head(cmd) > 0
        /\ failures' = failures \/ Fails
    BY <1>6 DEF OnCommand, CommandDrain, SendAck
  <2>4. mft' \in Mft
    BY <1>0, <1>1, <2>3 DEF Mft
  <2>5. Head(cmd) > 0 => Head(cmd) \in 1 .. MaxCommands
    BY <2>2, EncoderBounds
  <2>6. waiting' \in 0 .. MaxCommands /\ acked' \subseteq 1 .. MaxCommands
    <3>1. waiting \in 0 .. MaxCommands /\ acked \subseteq 1 .. MaxCommands
      BY <1>0 DEF WorkTypes, ChanTypes
    <3>2. \A d \in 1 .. MaxCommands : d \in 0 .. MaxCommands
      BY EncoderBounds
    <3>3. 0 \in 0 .. MaxCommands
      BY EncoderBounds
    <3>4. waiting' \in 0 .. MaxCommands
      BY <2>3, <2>5, <3>1, <3>2, <3>3 DEF NoDrain
    <3>5. acked' \subseteq 1 .. MaxCommands
      BY <2>3, <2>5, <3>1
    <3> QED BY <3>4, <3>5
  <2>7. LossTypes'
    BY <1>0, <1>f, <2>1, <2>3 DEF LossTypes
  <2>8. ChanTypes' /\ WorkTypes'
    BY <1>0, <2>1, <2>2, <2>6 DEF WorkTypes, ChanTypes
  <2> QED BY <1>0, <2>1, <2>4, <2>7, <2>8, TypesKept
<1>7. ASSUME OnInput PROVE Typed
  <2>1. /\ input # <<>> /\ pending' = Append(Queued(pending), Head(input)) /\ input' = Tail(input)
        /\ lost' = lost \cup (ToSet(pending) \ ToSet(Queued(pending)))
        /\ UNCHANGED <<cmd, output, acked, shutdown, worker, needs, waiting, eventVars, mft,
                       leaked, failures>>
    BY <1>7 DEF OnInput
  <2>2. input' \in Seq(Frames) /\ Head(input) \in Frames
    BY <1>0, <2>1 DEF ChanTypes
  <2>3. pending \in Seq(Frames) /\ Len(pending) <= MaxPending /\ MaxPending \in Nat \ {0}
    BY <1>0, EncoderBounds DEF WorkTypes
  <2>4. Queued(pending) \in Seq(Frames) /\ Len(Queued(pending)) < MaxPending
    <3>1. CASE Len(pending) >= MaxPending
      <4>1. Queued(pending) = Tail(pending) /\ pending # <<>>
        BY <2>3, <3>1 DEF Queued
      <4>2. Tail(pending) \in Seq(Frames) /\ Len(Tail(pending)) = Len(pending) - 1
        BY <2>3, <4>1
      <4>3. Len(pending) \in Nat
        BY <2>3
      <4> QED BY <2>3, <4>1, <4>2, <4>3
    <3>2. CASE Len(pending) < MaxPending
      BY <2>3, <3>2 DEF Queued
    <3>3. Len(pending) \in Nat
      BY <2>3
    <3> QED BY <2>3, <3>1, <3>2, <3>3
  <2>5. PICK q \in Seq(Frames) : q = Queued(pending) /\ Len(q) < MaxPending
    BY <2>4
  <2>6. pending' \in Seq(Frames) /\ Len(pending') = Len(q) + 1 /\ Len(q) \in Nat
    BY <2>1, <2>2, <2>5
  <2>7. Len(pending') <= MaxPending
    BY <2>3, <2>5, <2>6
  <2>8. lost' \subseteq Frames
    BY <1>0, <2>1, <2>3 DEF LossTypes, ToSet
  <2> QED BY <1>0, <2>1, <2>2, <2>6, <2>7, <2>8, TypesKept DEF ChanTypes, WorkTypes, LossTypes
<1>8. ASSUME OnMatch PROVE Typed
  <2>1. /\ needs > 0 /\ pending # <<>> /\ pending' = Tail(pending)
        /\ UNCHANGED <<chanVars, worker, waiting, eventVars>>
    BY <1>8 DEF OnMatch
  <2>2. /\ Tail(pending) \in Seq(Frames) /\ Head(pending) \in Frames
        /\ Len(Tail(pending)) <= MaxPending
    BY <1>0, <2>1, EncoderBounds DEF WorkTypes
  <2>3. needs' \in {needs, needs - 1}
    BY <1>8 DEF OnMatch, NeedsAfterError
  <2>4. WorkTypes'
    BY <1>0, <2>1, <2>2, <2>3 DEF WorkTypes
  <2>5. /\ lost' \in {lost, lost \cup {Head(pending)}}
        /\ \/ leaked' = leaked /\ failures' = failures
           \/ leaked' \in {leaked, leaked + 1} /\ Fails
        /\ \/ mft' = mft
           \/ mft.credits > 0 /\ Accept(Head(pending))
    BY <1>8 DEF OnMatch
  <2>6. LossTypes'
    BY <1>0, <1>f, <2>2, <2>5 DEF LossTypes
  <2>7. mft' \in Mft
    <3>1. ASSUME mft.credits > 0, Accept(Head(pending)) PROVE mft' \in Mft
      <4>1. mft.credits - 1 \in 0 .. Depth
        BY <1>1, <3>1, EncoderBounds
      <4>2. Append(mft.inq, Head(pending)) \in Seq(Frames)
        BY <1>1, <2>2
      <4> QED BY <1>0, <1>1, <3>1, <4>1, <4>2 DEF Mft, Accept
    <3> QED BY <1>0, <2>5, <3>1
  <2> QED BY <1>0, <2>1, <2>4, <2>6, <2>7, TypesKept
<1>9. ASSUME NextLoop PROVE Typed
  <2>1. worker' \in Steps
    BY <1>9 DEF NextLoop, After, Steps
  <2>2. WorkTypes'
    BY <1>0, <1>9, <2>1 DEF NextLoop, WorkTypes
  <2> QED BY <1>0, <1>9, <2>2, TypesKept DEF NextLoop
<1>10. Typed
  BY <1>3, <1>4, <1>5, <1>6, <1>7, <1>8, <1>9 DEF Worker
<1> QED BY <1>2, <1>10, TypesByGroupNext

-----------------------------------------------------------------------------
(* Credits.                                                                  *)

\* The same with the events counted queue by queue.
Balance ==
  /\ needs + (Occ(mft.queue, "NeedInput") + Occ(events, "NeedInput")) + leaked = mft.credits
  /\ Occ(mft.queue, "HaveOutput") + Occ(events, "HaveOutput") = Len(mft.outq)

\* The same with occurrences.
LEMMA BalanceIsCredit == CreditBalance <=> (mft.phase # "off" => Balance)
BY OccIsCount DEF CreditBalance, Balance

\* The same after a step.
LEMMA BalanceIsCreditNext == (mft'.phase # "off" => Balance') => CreditBalance'
<1>1. (mft.phase # "off" => Balance) => CreditBalance
  BY BalanceIsCredit
<1>2. (mft.phase # "off" => Balance)' => CreditBalance'
  BY <1>1, PTL
<1> QED BY <1>2

\* Steps that touch no credit and no output.
LEMMA BalanceKept ==
  ASSUME CreditBalance, mft'.phase # "off" => mft.phase # "off",
         mft'.queue = mft.queue, mft'.credits = mft.credits, mft'.outq = mft.outq,
         UNCHANGED <<events, needs, leaked>>
  PROVE  CreditBalance'
BY DEF CreditBalance, Count

\* An event that comes to the end of the transform's queue.
LEMMA EventAdded ==
  ASSUME EncoderTypes, NEW x \in Kinds, mft'.queue = Append(mft.queue, x), UNCHANGED events,
         NEW k
  PROVE  /\ Occ(mft'.queue, k) = Occ(mft.queue, k) + (IF x = k THEN 1 ELSE 0)
         /\ Occ(events', k) = Occ(events, k)
         /\ Occ(mft.queue, k) \in Nat /\ Occ(events, k) \in Nat
<1>1. mft.queue \in Seq(Kinds) /\ events \in Seq(Kinds \ {"Other"})
  BY TypesByGroup DEF Mft, EventTypes
<1>2. Occ(Append(mft.queue, x), k) = Occ(mft.queue, k) + (IF x = k THEN 1 ELSE 0)
  BY <1>1, OccAppend
<1>3. Occ(mft.queue, k) \in Nat /\ Occ(events, k) \in Nat
  BY <1>1, OccFinite
<1> QED BY <1>2, <1>3

\* Credits, when the transform does something.
LEMMA TransformBalance == ASSUME EncoderIInv, Transform PROVE CreditBalance'
<1>0. EncoderTypes /\ CreditBalance /\ (mft.phase # "off" => Balance)
  BY BalanceIsCredit DEF EncoderIInv
<1>1. /\ CallerTypes /\ ChanTypes /\ WorkTypes /\ EventTypes /\ mft \in Mft /\ LossTypes
      /\ mft.queue \in Seq(Kinds) /\ mft.outq \in Seq(Frames) /\ mft.inq \in Seq(Frames)
      /\ mft.credits \in Nat /\ needs \in Nat /\ leaked \in Nat
  <2>1. CallerTypes /\ ChanTypes /\ WorkTypes /\ EventTypes /\ mft \in Mft /\ LossTypes
    BY <1>0, TypesByGroup
  <2> QED BY <2>1, EncoderBounds DEF WorkTypes, LossTypes, Mft
<1>2. CASE AskInput
  <2>1. mft' = [mft EXCEPT !.credits = @ + 1, !.queue = Append(@, "NeedInput")]
    BY <1>1, <1>2 DEF AskInput, Emit, Mft
  <2>2. /\ mft'.credits = mft.credits + 1 /\ mft'.outq = mft.outq /\ mft'.phase = mft.phase
        /\ mft'.queue = Append(mft.queue, "NeedInput")
        /\ UNCHANGED <<events, needs, leaked>>
    BY <1>1, <1>2, <2>1 DEF Mft, AskInput, workVars, eventVars
  <2>3. "NeedInput" \in Kinds /\ "NeedInput" # "HaveOutput"
    BY DEF Kinds
  <2>4. /\ Occ(mft'.queue, "NeedInput") = Occ(mft.queue, "NeedInput") + 1
        /\ Occ(mft'.queue, "HaveOutput") = Occ(mft.queue, "HaveOutput")
        /\ Occ(events', "NeedInput") = Occ(events, "NeedInput")
        /\ Occ(events', "HaveOutput") = Occ(events, "HaveOutput")
        /\ Occ(mft.queue, "NeedInput") \in Nat /\ Occ(events, "NeedInput") \in Nat
        /\ Occ(mft.queue, "HaveOutput") \in Nat
    BY <1>0, <2>2, <2>3, EventAdded
  <2>5. \A n, a, b, l, c \in Nat : n + (a + b) + l = c => n + ((a + 1) + b) + l = c + 1
    OBVIOUS
  <2>6. Balance => Balance'
    BY <1>1, <2>2, <2>4, <2>5 DEF Balance
  <2> QED BY <1>0, <2>2, <2>6, BalanceIsCreditNext
<1>3. CASE Encode
  <2>1. mft' = [mft EXCEPT !.inq = Tail(@), !.outq = Append(@, Head(mft.inq)),
                           !.queue = Append(@, "HaveOutput")]
    BY <1>1, <1>3 DEF Encode, Emit, Mft
  <2>2. /\ mft'.credits = mft.credits /\ mft'.outq = Append(mft.outq, Head(mft.inq))
        /\ mft'.phase = mft.phase /\ mft'.queue = Append(mft.queue, "HaveOutput")
        /\ UNCHANGED <<events, needs, leaked>> /\ mft.inq # <<>>
    BY <1>1, <1>3, <2>1 DEF Mft, Encode, CanEncode, workVars, eventVars
  <2>3. "HaveOutput" \in Kinds /\ "NeedInput" # "HaveOutput"
    BY DEF Kinds
  <2>4. /\ Occ(mft'.queue, "NeedInput") = Occ(mft.queue, "NeedInput")
        /\ Occ(mft'.queue, "HaveOutput") = Occ(mft.queue, "HaveOutput") + 1
        /\ Occ(events', "NeedInput") = Occ(events, "NeedInput")
        /\ Occ(events', "HaveOutput") = Occ(events, "HaveOutput")
        /\ Occ(mft.queue, "HaveOutput") \in Nat /\ Occ(events, "HaveOutput") \in Nat
        /\ Occ(mft.queue, "NeedInput") \in Nat
    BY <1>0, <2>2, <2>3, EventAdded
  <2>5. Len(mft'.outq) = Len(mft.outq) + 1 /\ Len(mft.outq) \in Nat
    BY <1>1, <2>2
  <2>6. \A a, b, c \in Nat : a + b = c => (a + 1) + b = c + 1
    OBVIOUS
  <2>7. Balance => Balance'
    BY SMTT(60), <1>1, <2>2, <2>4, <2>5, <2>6 DEF Balance
  <2> QED BY <1>0, <2>2, <2>7, BalanceIsCreditNext
<1>4. CASE DrainDone \/ OtherEvent
  <2>1. PICK x \in {"DrainComplete", "Other"} :
          /\ mft'.queue = Append(mft.queue, x)
          /\ mft'.credits = mft.credits /\ mft'.outq = mft.outq
          /\ mft.phase # "off"
          /\ UNCHANGED <<events, needs, leaked>>
    <3>1. CASE DrainDone
      <4>1. mft' = [mft EXCEPT !.phase = "drained", !.queue = Append(@, "DrainComplete")]
        BY <1>1, <3>1 DEF DrainDone, Emit, Mft
      <4> QED BY <1>1, <3>1, <4>1 DEF Mft, DrainDone, workVars, eventVars
    <3>2. CASE OtherEvent
      <4>1. mft' = [mft EXCEPT !.queue = Append(@, "Other")]
        BY <1>1, <3>2 DEF OtherEvent, Emit, Mft
      <4> QED BY <1>1, <3>2, <4>1 DEF Mft, OtherEvent, workVars, eventVars
    <3> QED BY <1>4, <3>1, <3>2
  <2>2. x \in Kinds /\ x # "NeedInput" /\ x # "HaveOutput"
    BY <2>1 DEF Kinds
  <2>3. /\ Occ(mft'.queue, "NeedInput") = Occ(mft.queue, "NeedInput")
        /\ Occ(mft'.queue, "HaveOutput") = Occ(mft.queue, "HaveOutput")
        /\ Occ(events', "NeedInput") = Occ(events, "NeedInput")
        /\ Occ(events', "HaveOutput") = Occ(events, "HaveOutput")
    <3>1. \A k : /\ Occ(mft'.queue, k) = Occ(mft.queue, k) + (IF x = k THEN 1 ELSE 0)
                 /\ Occ(events', k) = Occ(events, k)
                 /\ Occ(mft.queue, k) \in Nat
      BY <1>0, <2>1, <2>2, EventAdded
    <3> QED BY <2>2, <3>1
  <2>4. Balance => Balance'
    BY <2>1, <2>3 DEF Balance
  <2> QED BY <1>0, <2>1, <2>4, BalanceIsCreditNext
<1>5. CASE Invoke
  <2>1. /\ armed /\ mft.queue # <<>>
        /\ mft' = [mft EXCEPT !.queue = Tail(@)]
        /\ UNCHANGED <<needs, leaked>>
    BY <1>5 DEF Invoke, workVars
  <2>2. /\ mft'.credits = mft.credits /\ mft'.outq = mft.outq /\ mft'.phase = mft.phase
        /\ mft'.queue = Tail(mft.queue)
    BY <1>1, <2>1 DEF Mft
  <2>3. ASSUME NEW k \in {"NeedInput", "HaveOutput"}
        PROVE  Occ(mft'.queue, k) + Occ(events', k) = Occ(mft.queue, k) + Occ(events, k)
    <3>1. PICK h : h = Head(mft.queue)
      OBVIOUS
    <3>2. /\ Occ(mft.queue, k) = Occ(mft'.queue, k) + (IF h = k THEN 1 ELSE 0)
          /\ Occ(mft'.queue, k) \in Nat
      <4>1. mft'.queue \in Seq(Kinds)
        BY <1>1, <2>1, <2>2
      <4>2. Occ(mft'.queue, k) \in Nat
        BY <4>1, OccFinite
      <4>3. Occ(mft.queue, k) = Occ(Tail(mft.queue), k) + (IF Head(mft.queue) = k THEN 1 ELSE 0)
        BY <1>1, <2>1, OccTail
      <4> QED BY <2>2, <3>1, <4>2, <4>3
    <3>3. Occ(events', k) = Occ(events, k) + (IF h = k THEN 1 ELSE 0)
      <4>1. CASE h = "Other"
        <5>1. UNCHANGED events
          BY <1>5, <3>1, <4>1 DEF Invoke
        <5>2. Occ(events, k) \in Nat
          BY <1>1, OccFinite DEF EventTypes
        <5> QED BY <4>1, <5>1, <5>2
      <4>2. CASE h # "Other"
        <5>1. events' = Append(events, h)
          BY <1>5, <3>1, <4>2 DEF Invoke
        <5>2. events \in Seq(Kinds)
          BY <1>1 DEF EventTypes
        <5>3. h \in Kinds
          BY <1>1, <2>1, <3>1
        <5> QED BY <5>1, <5>2, <5>3, OccAppend
      <4> QED BY <4>1, <4>2
    <3>4. Occ(events, k) \in Nat
      BY <1>1, OccFinite DEF EventTypes
    <3>5. PICK a \in Nat, b \in Nat, i \in {0, 1} :
            a = Occ(mft'.queue, k) /\ b = Occ(events, k) /\ i = IF h = k THEN 1 ELSE 0
      BY <3>2, <3>4
    <3>6. Occ(mft.queue, k) = a + i /\ Occ(events', k) = b + i
      BY <3>2, <3>3, <3>5
    <3>7. a + (b + i) = (a + i) + b
      OBVIOUS
    <3> QED BY <3>5, <3>6, <3>7
  <2>4. Balance => Balance'
    BY <2>1, <2>2, <2>3 DEF Balance
  <2> QED BY <1>0, <2>2, <2>4, BalanceIsCreditNext
<1> QED BY <1>2, <1>3, <1>4, <1>5 DEF Transform

\* An event taken from the queue of events.
LEMMA EventTaken ==
  ASSUME EncoderTypes, events # <<>>, events' = Tail(events), mft'.queue = mft.queue,
         NEW k
  PROVE  /\ Occ(events, k) = (IF Head(events) = k THEN 1 ELSE 0) /\ Occ(events', k) = 0
         /\ Occ(mft'.queue, k) = Occ(mft.queue, k) /\ Occ(mft.queue, k) \in Nat
<1>1. events \in Seq(Kinds) /\ Len(events) <= 1 /\ mft.queue \in Seq(Kinds)
  BY TypesByGroup DEF EventTypes, Mft
<1>2. Tail(events) = <<>>
  BY <1>1, OneEvent
<1>3. <<>> \in Seq(Kinds) /\ \A i \in DOMAIN <<>> : <<>>[i] # k
  OBVIOUS
<1>4. Occ(<<>>, k) = 0
  BY <1>3, OccFinite
<1>5. Occ(events, k) = Occ(Tail(events), k) + (IF Head(events) = k THEN 1 ELSE 0)
  BY <1>1, OccTail
<1>6. Occ(mft.queue, k) \in Nat
  BY <1>1, OccFinite
<1>7. Occ(events', k) = 0
  BY <1>2, <1>4
<1>8. Occ(Tail(events), k) = 0
  BY <1>2, <1>4
<1>9. Occ(events, k) = IF Head(events) = k THEN 1 ELSE 0
  BY <1>5, <1>8
<1> QED BY <1>6, <1>7, <1>9

\* Credits, when the worker handles an event.
LEMMA EventBalance == ASSUME EncoderIInv, OnEvent PROVE CreditBalance'
<1>0. EncoderTypes /\ CreditBalance /\ (mft.phase # "off" => Balance)
  BY BalanceIsCredit DEF EncoderIInv
<1>1. /\ mft \in Mft /\ mft.outq \in Seq(Frames) /\ mft.credits \in Nat
      /\ needs \in Nat /\ leaked \in Nat
  <2>1. WorkTypes /\ mft \in Mft /\ LossTypes
    BY <1>0, TypesByGroup
  <2> QED BY <2>1, EncoderBounds DEF WorkTypes, LossTypes, Mft
<1>2. events # <<>> /\ events' = Tail(events) /\ UNCHANGED leaked
  BY DEF OnEvent
<1>3. /\ mft'.queue = mft.queue /\ mft'.credits = mft.credits /\ mft'.phase = mft.phase
      /\ \/ /\ Head(events) = "NeedInput" /\ needs' = needs + 1 /\ mft' = mft
         \/ /\ Head(events) = "HaveOutput" /\ UNCHANGED needs
            /\ mft.outq # <<>> => mft'.outq = Tail(mft.outq)
         \/ /\ Head(events) = "DrainComplete" /\ UNCHANGED needs /\ mft' = mft
  <2>1. CASE mft' = mft
    <3>1. ~(Head(events) = "HaveOutput" /\ ProcessOneOutput /\ mft.outq # <<>>)
      <4> SUFFICES ASSUME ProcessOneOutput, mft.outq # <<>> PROVE FALSE
        OBVIOUS
      <4>1. mft' = [mft EXCEPT !.outq = Tail(@)]
        BY DEF ProcessOneOutput
      <4>2. mft'.outq = Tail(mft.outq)
        BY <1>1, <4>1 DEF Mft
      <4>3. Len(Tail(mft.outq)) = Len(mft.outq) - 1 /\ Len(mft.outq) \in Nat
        BY <1>1
      <4>4. Tail(mft.outq) = mft.outq
        BY <2>1, <4>2
      <4>5. Len(mft.outq) = Len(mft.outq) - 1 /\ Len(mft.outq) \in Nat
        BY <4>3, <4>4
      <4> QED BY <4>5
    <3> QED BY <2>1, <3>1 DEF OnEvent
  <2>2. CASE mft' # mft
    <3>1. Head(events) = "HaveOutput" /\ ProcessOneOutput /\ UNCHANGED needs
      BY <2>2 DEF OnEvent
    <3>2. mft' = [mft EXCEPT !.outq = Tail(@)] /\ mft.outq # <<>>
      BY <2>2, <3>1 DEF ProcessOneOutput
    <3> QED BY <1>1, <3>1, <3>2 DEF Mft
  <2> QED BY <2>1, <2>2
<1>4. ASSUME NEW k
      PROVE  /\ Occ(events, k) = (IF Head(events) = k THEN 1 ELSE 0) /\ Occ(events', k) = 0
             /\ Occ(mft'.queue, k) = Occ(mft.queue, k) /\ Occ(mft.queue, k) \in Nat
  BY <1>0, <1>2, <1>3, EventTaken
<1>5. PICK a \in Nat, b \in Nat :
        a = Occ(mft.queue, "NeedInput") /\ b = Occ(mft.queue, "HaveOutput")
  BY <1>4
<1>6. /\ a = Occ(mft'.queue, "NeedInput") /\ b = Occ(mft'.queue, "HaveOutput")
      /\ Occ(events', "NeedInput") = 0 /\ Occ(events', "HaveOutput") = 0
  BY <1>4, <1>5
<1>7. ASSUME Balance PROVE Balance'
  <2>1. /\ needs + (a + Occ(events, "NeedInput")) + leaked = mft.credits
        /\ b + Occ(events, "HaveOutput") = Len(mft.outq)
    BY <1>5, <1>7 DEF Balance
  <2>2. CASE Head(events) = "NeedInput"
    <3>1. Occ(events, "NeedInput") = 1 /\ Occ(events, "HaveOutput") = 0
      BY <1>4, <2>2
    <3>2. needs' = needs + 1 /\ mft' = mft
      BY <1>3, <2>2
    <3>3. \A n, l, c \in Nat : n + (a + 1) + l = c => (n + 1) + (a + 0) + l = c
      OBVIOUS
    <3> QED BY <1>1, <1>2, <1>6, <2>1, <3>1, <3>2, <3>3 DEF Balance
  <2>3. CASE Head(events) = "HaveOutput"
    <3>1. Occ(events, "NeedInput") = 0 /\ Occ(events, "HaveOutput") = 1
      BY <1>4, <2>3
    <3>2. Len(mft.outq) = b + 1
      BY <2>1, <3>1
    <3>3. mft.outq # <<>>
      BY <1>1, <3>2
    <3>4. mft'.outq = Tail(mft.outq) /\ UNCHANGED needs
      BY <1>3, <2>3, <3>3
    <3>5. Len(mft'.outq) = Len(mft.outq) - 1
      BY <1>1, <3>3, <3>4
    <3>6. Len(mft'.outq) = b + 0
      BY <3>2, <3>5
    <3> QED BY <1>2, <1>3, <1>6, <2>1, <3>1, <3>4, <3>6 DEF Balance
  <2>4. CASE Head(events) = "DrainComplete"
    <3>1. Occ(events, "NeedInput") = 0 /\ Occ(events, "HaveOutput") = 0
      BY <1>4, <2>4
    <3>2. UNCHANGED needs /\ mft' = mft
      BY <1>3, <2>4
    <3> QED BY <1>2, <1>6, <2>1, <3>1, <3>2 DEF Balance
  <2> QED BY <1>3, <2>2, <2>3, <2>4
<1> QED BY <1>0, <1>3, <1>7, BalanceIsCreditNext

\* Credits, when the worker does anything else.
LEMMA WorkerBalance == ASSUME EncoderIInv, Worker PROVE CreditBalance'
<1>0. EncoderTypes /\ CreditBalance /\ PhaseFollowsWorker /\ (mft.phase # "off" => Balance)
  BY BalanceIsCredit DEF EncoderIInv
<1>1. /\ mft \in Mft /\ mft.credits \in Nat /\ needs \in Nat /\ leaked \in Nat
      /\ mft.queue \in Seq(Kinds) /\ events \in Seq(Kinds)
  <2>1. WorkTypes /\ mft \in Mft /\ LossTypes /\ EventTypes
    BY <1>0, TypesByGroup
  <2> QED BY <2>1, EncoderBounds DEF WorkTypes, LossTypes, Mft, EventTypes
<1>2. CASE Setup
  <2>1. /\ worker = "setup" /\ mft.phase = "off"
        /\ needs = 0 /\ leaked = 0 /\ mft.credits = 0 /\ events = <<>> /\ mft.queue = <<>>
        /\ mft.outq = <<>>
    BY <1>0, <1>2 DEF Setup, PhaseFollowsWorker
  <2>2. /\ mft' = mft \/ mft' = [mft EXCEPT !.phase = "on"]
        /\ UNCHANGED <<events, needs, leaked>>
    BY <1>2 DEF Setup
  <2>3. mft'.queue = <<>> /\ mft'.outq = <<>> /\ mft'.credits = 0
    BY <1>1, <2>1, <2>2 DEF Mft
  <2>4. \A k : Occ(<<>>, k) = 0
    <3>1. <<>> \in Seq(Kinds) /\ \A k : \A i \in DOMAIN <<>> : <<>>[i] # k
      OBVIOUS
    <3> QED BY <3>1, OccFinite
  <2>5. Len(<<>>) = 0 /\ 0 + (0 + 0) + 0 = 0
    OBVIOUS
  <2>6. Balance'
    BY <2>1, <2>2, <2>3, <2>4, <2>5 DEF Balance
  <2> QED BY <2>6, BalanceIsCreditNext
<1>3. CASE Top
  <2>1. CASE Stops
    <3>1. mft' = [mft EXCEPT !.phase = "off", !.inq = <<>>, !.outq = <<>>]
      BY <1>3, <2>1 DEF Top
    <3>2. mft'.phase = "off"
      BY <1>1, <3>1 DEF Mft
    <3> QED BY <3>2, BalanceIsCreditNext
  <2>2. CASE ~Stops
    BY <1>0, <1>3, <2>2, BalanceKept DEF Top, eventVars
  <2> QED BY <2>1, <2>2
<1>4. CASE OnCommand
  <2>1. /\ worker = "cmds" /\ UNCHANGED <<events, needs, leaked>>
        /\ \/ mft' = mft \/ mft' = [mft EXCEPT !.idr = TRUE]
           \/ mft' = [mft EXCEPT !.phase = "draining"]
    BY <1>4 DEF OnCommand, CommandDrain, eventVars
  <2>2. mft'.queue = mft.queue /\ mft'.credits = mft.credits /\ mft'.outq = mft.outq
    BY <1>1, <2>1 DEF Mft
  <2>3. mft.phase # "off"
    BY <1>0, <2>1 DEF PhaseFollowsWorker
  <2> QED BY <1>0, <2>1, <2>2, <2>3, BalanceKept
<1>5. CASE OnInput \/ NextLoop
  <2>1. UNCHANGED <<mft, events, needs, leaked>>
    BY <1>5 DEF OnInput, NextLoop, eventVars
  <2> QED BY <1>0, <2>1, BalanceKept
<1>6. CASE OnMatch
  <2>1. UNCHANGED events /\ needs > 0
    BY <1>6 DEF OnMatch, eventVars
  <2>2. CASE mft' = mft /\ UNCHANGED <<needs, leaked>>
    BY <1>0, <2>1, <2>2, BalanceKept
  <2>3. CASE mft' = mft /\ needs' = needs - 1 /\ leaked' = leaked + 1
    <3>1. PICK a \in Nat, b \in Nat :
            a = Occ(mft.queue, "NeedInput") /\ b = Occ(events, "NeedInput")
      BY <1>1, OccFinite
    <3>2. \A n, l, c \in Nat : n > 0 /\ n + (a + b) + l = c => (n - 1) + (a + b) + (l + 1) = c
      OBVIOUS
    <3>3. Balance => Balance'
      BY <1>1, <2>1, <2>3, <3>1, <3>2 DEF Balance
    <3> QED BY <1>0, <2>3, <3>3, BalanceIsCreditNext
  <2>4. CASE Accept(Head(pending)) /\ needs' = needs - 1 /\ UNCHANGED leaked
    <3>1. /\ mft'.queue = mft.queue /\ mft'.credits = mft.credits - 1 /\ mft'.outq = mft.outq
          /\ mft'.phase = mft.phase
      BY <1>1, <2>4 DEF Mft, Accept
    <3>2. PICK a \in Nat, b \in Nat :
            a = Occ(mft.queue, "NeedInput") /\ b = Occ(events, "NeedInput")
      BY <1>1, OccFinite
    <3>3. \A n, l, c \in Nat : n > 0 /\ n + (a + b) + l = c => (n - 1) + (a + b) + l = c - 1
      OBVIOUS
    <3>4. ASSUME Balance PROVE Balance'
      <4>1. /\ needs + (a + b) + leaked = mft.credits
            /\ Occ(mft.queue, "HaveOutput") + Occ(events, "HaveOutput") = Len(mft.outq)
        BY <3>2, <3>4 DEF Balance
      <4>2. needs' + (a + b) + leaked' = mft'.credits
        BY <1>1, <2>1, <2>4, <3>1, <3>3, <4>1
      <4>3. /\ Occ(mft'.queue, "NeedInput") = a /\ Occ(events', "NeedInput") = b
            /\ Occ(mft'.queue, "HaveOutput") + Occ(events', "HaveOutput") = Len(mft'.outq)
        BY <2>1, <3>1, <3>2, <4>1
      <4> QED BY <4>2, <4>3 DEF Balance
    <3> QED BY <1>0, <3>1, <3>4, BalanceIsCreditNext
  <2>5. \/ mft' = mft /\ UNCHANGED <<needs, leaked>>
        \/ mft' = mft /\ needs' = needs - 1 /\ leaked' = leaked + 1
        \/ Accept(Head(pending)) /\ needs' = needs - 1 /\ UNCHANGED leaked
    BY <1>6 DEF OnMatch, NeedsAfterError
  <2> QED BY <2>2, <2>3, <2>4, <2>5
<1> QED BY <1>2, <1>3, <1>4, <1>5, <1>6, EventBalance DEF Worker

-----------------------------------------------------------------------------
(* Phases, drains and their acks.                                            *)

\* The transform is on while the worker is in its loop.
LEMMA PhaseStep == ASSUME EncoderIInv, EncoderNext PROVE PhaseFollowsWorker'
<1>0. PhaseFollowsWorker /\ EncoderTypes
  BY DEF EncoderIInv
<1>1. mft \in Mft /\ worker \in Steps
  BY <1>0, TypesByGroup DEF WorkTypes
<1>2. CASE Caller
  <2>1. UNCHANGED <<workVars, eventVars, mft, leaked, acked>>
    BY <1>2 DEF Caller, TryNew, EncodeRgb, ForceKeyframe, DrainCall, DrainReturn, GoOn, Drop,
                JoinThread, chanVars
  <2> QED BY <1>0, <2>1 DEF PhaseFollowsWorker, workVars, eventVars
<1>3. CASE AskInput \/ Encode \/ DrainDone \/ OtherEvent
  <2>1. mft.phase # "off" /\ UNCHANGED worker
    BY <1>3 DEF AskInput, CanAsk, Encode, CanEncode, DrainDone, OtherEvent, workVars
  <2>2. mft'.phase \in {mft.phase, "drained"}
    BY <1>1, <1>3 DEF AskInput, Encode, DrainDone, OtherEvent, Emit, Mft
  <2>3. worker \notin {"setup", "done"}
    BY <1>0, <2>1 DEF PhaseFollowsWorker
  <2> QED BY <2>1, <2>2, <2>3 DEF PhaseFollowsWorker
<1>4. CASE Invoke
  <2>1. armed /\ UNCHANGED worker /\ mft' = [mft EXCEPT !.queue = Tail(@)]
    BY <1>4 DEF Invoke, workVars
  <2>2. mft'.phase = mft.phase /\ mft'.inq = mft.inq /\ mft'.outq = mft.outq
    BY <1>1, <2>1 DEF Mft
  <2>3. worker # "setup"
    BY <1>0, <2>1 DEF PhaseFollowsWorker
  <2> QED BY <1>0, <2>1, <2>2, <2>3 DEF PhaseFollowsWorker
<1>5. CASE Setup
  <2>1. worker = "setup" /\ mft.phase = "off"
    BY <1>0, <1>5 DEF Setup, PhaseFollowsWorker
  <2>2. CASE worker' = "done" /\ mft' = mft
    BY <1>0, <2>1, <2>2 DEF PhaseFollowsWorker
  <2>3. CASE worker' = "top" /\ mft' = [mft EXCEPT !.phase = "on"]
    <3>1. mft'.phase = "on"
      BY <1>1, <2>3 DEF Mft
    <3> QED BY <2>3, <3>1 DEF PhaseFollowsWorker
  <2> QED BY <1>5, <2>2, <2>3 DEF Setup
<1>6. CASE Top
  <2>1. worker = "top" /\ mft.phase # "off"
    BY <1>0, <1>6 DEF Top, PhaseFollowsWorker
  <2>2. CASE Stops
    <3>1. worker' = "done" /\ mft' = [mft EXCEPT !.phase = "off", !.inq = <<>>, !.outq = <<>>]
      BY <1>6, <2>2 DEF Top
    <3>2. mft'.phase = "off" /\ mft'.inq = <<>> /\ mft'.outq = <<>>
      BY <1>1, <3>1 DEF Mft
    <3> QED BY <3>1, <3>2 DEF PhaseFollowsWorker
  <2>3. CASE ~Stops
    <3>1. worker' = "events" /\ mft' = mft
      BY <1>6, <2>3 DEF Top
    <3> QED BY <2>1, <3>1 DEF PhaseFollowsWorker
  <2> QED BY <2>2, <2>3
<1>7. CASE OnEvent \/ OnCommand \/ OnInput \/ OnMatch \/ NextLoop
  <2>1. worker \in {"events", "cmds", "inputs", "match"}
    BY <1>7 DEF OnEvent, OnCommand, OnInput, OnMatch, NextLoop, After
  <2>2. worker' \in {"events", "cmds", "inputs", "match", "top"}
    <3>1. CASE NextLoop
      BY <2>1, <3>1 DEF NextLoop, After
    <3>2. CASE ~NextLoop
      BY <1>7, <2>1, <3>2 DEF OnEvent, OnCommand, OnInput, OnMatch
    <3> QED BY <3>1, <3>2
  <2>3. mft.phase # "off"
    BY <1>0, <2>1 DEF PhaseFollowsWorker
  <2>4. mft'.phase \in {mft.phase, "draining"}
    BY <1>1, <1>7 DEF OnEvent, ProcessOneOutput, OnCommand, CommandDrain, OnInput, OnMatch, Accept,
                      NextLoop, Mft
  <2> QED BY <2>2, <2>3, <2>4 DEF PhaseFollowsWorker
<1> QED BY <1>2, <1>3, <1>4, <1>5, <1>6, <1>7 DEF EncoderNext, Caller, Worker, Transform

\* The end of a drain, in a queue of events.
LastOutput(q) == \A i, j \in DOMAIN q : q[i] = "DrainComplete" /\ i < j => q[j] # "HaveOutput"
Has(q, k) == \E i \in DOMAIN q : q[i] = k

\* The same in terms of what the queues have.
LEMMA DrainIsLastMeans ==
  DrainIsLast <=>
    /\ Has(mft.queue, "DrainComplete") => Quiet
    /\ LastOutput(mft.queue)
    /\ Has(events, "DrainComplete") => Quiet /\ ~Has(mft.queue, "HaveOutput")
BY DEF DrainIsLast, LastOutput, Has

\* The same after a step.
LEMMA DrainIsLastNext ==
  /\ Has(mft'.queue, "DrainComplete") => Quiet'
  /\ LastOutput(mft'.queue)
  /\ Has(events', "DrainComplete") => Quiet' /\ ~Has(mft'.queue, "HaveOutput")
  => DrainIsLast'
BY DEF DrainIsLast, LastOutput, Has

\* An event more at the end of a queue.
LEMMA HasAppend ==
  ASSUME NEW S, NEW q \in Seq(S), NEW x \in S
  PROVE  /\ \A k : Has(Append(q, x), k) <=> Has(q, k) \/ x = k
         /\ LastOutput(Append(q, x)) <=>
              LastOutput(q) /\ (x = "HaveOutput" => ~Has(q, "DrainComplete"))
<1> DEFINE r == Append(q, x)
<1>1. PICK n \in Nat : n = Len(q)
  OBVIOUS
<1>2. /\ DOMAIN q = 1 .. n /\ DOMAIN r = 1 .. n + 1
      /\ \A i \in 1 .. n : r[i] = q[i]
      /\ r[n + 1] = x
  BY <1>1
<1> HIDE DEF r
<1>3. ASSUME NEW k PROVE Has(r, k) <=> Has(q, k) \/ x = k
  <2>1. 1 .. n + 1 = 1 .. n \cup {n + 1}
    OBVIOUS
  <2> QED BY <1>2, <2>1 DEF Has
<1>4. LastOutput(r) <=> LastOutput(q) /\ (x = "HaveOutput" => ~Has(q, "DrainComplete"))
  <2>1. \A i \in 1 .. n + 1 : i \in 1 .. n \/ i = n + 1
    OBVIOUS
  <2>2. \A i \in 1 .. n : i < n + 1 /\ i \in 1 .. n + 1 /\ i # n + 1
    OBVIOUS
  <2>3. ASSUME LastOutput(r) PROVE LastOutput(q) /\ (x = "HaveOutput" => ~Has(q, "DrainComplete"))
    BY <1>2, <2>2, <2>3 DEF LastOutput, Has
  <2>4. ASSUME LastOutput(q), x = "HaveOutput" => ~Has(q, "DrainComplete") PROVE LastOutput(r)
    <3> SUFFICES ASSUME NEW i \in 1 .. n + 1, NEW j \in 1 .. n + 1,
                        r[i] = "DrainComplete", i < j
                 PROVE  r[j] # "HaveOutput"
      BY <1>2 DEF LastOutput
    <3>1. i \in 1 .. n
      OBVIOUS
    <3>2. CASE j \in 1 .. n
      BY <1>2, <2>4, <3>1, <3>2 DEF LastOutput
    <3>3. CASE j = n + 1
      BY <1>2, <2>4, <3>1, <3>3 DEF Has
    <3> QED BY <2>1, <3>2, <3>3
  <2> QED BY <2>3, <2>4
<1> QED BY <1>3, <1>4 DEF r

\* An event less at the head.
LEMMA HasTail ==
  ASSUME NEW S, NEW q \in Seq(S), q # <<>>
  PROVE  /\ \A k : Has(Tail(q), k) => Has(q, k)
         /\ Has(q, Head(q))
         /\ LastOutput(q) => /\ LastOutput(Tail(q))
                             /\ Head(q) = "DrainComplete" => ~Has(Tail(q), "HaveOutput")
<1> DEFINE r == Tail(q)
<1>1. PICK n \in Nat : Len(q) = n + 1
  BY EmptySeq, LenProperties
<1>2. /\ DOMAIN q = 1 .. n + 1 /\ DOMAIN r = 1 .. n
      /\ \A i \in 1 .. n : r[i] = q[i + 1]
      /\ Head(q) = q[1]
  BY <1>1
<1> HIDE DEF r
<1>3. \A i \in 1 .. n : i + 1 \in 1 .. n + 1 /\ 1 < i + 1
  OBVIOUS
<1>4. ASSUME NEW k, Has(r, k) PROVE Has(q, k)
  BY <1>2, <1>3, <1>4 DEF Has
<1>5. 1 \in DOMAIN q
  BY <1>2
<1>6. Has(q, Head(q))
  BY <1>2, <1>5 DEF Has
<1>7. ASSUME LastOutput(q)
      PROVE  LastOutput(r) /\ (Head(q) = "DrainComplete" => ~Has(r, "HaveOutput"))
  <2>1. LastOutput(r)
    <3> SUFFICES ASSUME NEW i \in 1 .. n, NEW j \in 1 .. n, r[i] = "DrainComplete", i < j
                 PROVE  r[j] # "HaveOutput"
      BY <1>2 DEF LastOutput
    <3>1. i + 1 < j + 1
      OBVIOUS
    <3> QED BY <1>2, <1>3, <1>7, <3>1 DEF LastOutput
  <2>2. Head(q) = "DrainComplete" => ~Has(r, "HaveOutput")
    BY <1>2, <1>3, <1>5, <1>7 DEF LastOutput, Has
  <2> QED BY <2>1, <2>2
<1> QED BY <1>4, <1>6, <1>7 DEF r

\* No output comes behind the end of a drain.
LEMMA DrainStep == ASSUME EncoderIInv, EncoderNext PROVE DrainIsLast'
<1>0. /\ EncoderTypes /\ PhaseFollowsWorker
      /\ Has(mft.queue, "DrainComplete") => Quiet
      /\ LastOutput(mft.queue)
      /\ Has(events, "DrainComplete") => Quiet /\ ~Has(mft.queue, "HaveOutput")
  BY DrainIsLastMeans DEF EncoderIInv
<1>1. mft \in Mft /\ events \in Seq(Kinds) /\ Len(events) <= 1 /\ mft.queue \in Seq(Kinds)
  BY <1>0, TypesByGroup DEF EventTypes, Mft
<1>2. ASSUME mft'.queue = mft.queue, events' = events, Quiet => Quiet' PROVE DrainIsLast'
  BY <1>0, <1>2, DrainIsLastNext
<1>3. CASE Caller
  <2>1. UNCHANGED <<events, mft>>
    BY <1>3 DEF Caller, TryNew, EncodeRgb, ForceKeyframe, DrainCall, DrainReturn, GoOn, Drop,
                JoinThread, eventVars
  <2> QED BY <1>2, <2>1 DEF Quiet
<1>4. CASE AskInput \/ Encode \/ OtherEvent
  <2>1. ~Quiet /\ UNCHANGED events
    BY <1>4 DEF AskInput, CanAsk, Encode, CanEncode, OtherEvent, Quiet, eventVars
  <2>2. ~Has(mft.queue, "DrainComplete") /\ ~Has(events, "DrainComplete")
    BY <1>0, <2>1
  <2>3. PICK x \in {"NeedInput", "HaveOutput", "Other"} : mft'.queue = Append(mft.queue, x)
    BY <1>1, <1>4 DEF AskInput, Encode, OtherEvent, Emit, Mft
  <2>4. x \in Kinds /\ x # "DrainComplete"
    BY <2>3 DEF Kinds
  <2>5. ~Has(mft'.queue, "DrainComplete") /\ LastOutput(mft'.queue)
    BY <1>0, <1>1, <2>2, <2>3, <2>4, HasAppend
  <2> QED BY <2>1, <2>2, <2>5, DrainIsLastNext
<1>5. CASE DrainDone
  <2>1. /\ mft.inq = <<>> /\ UNCHANGED events
        /\ mft' = [mft EXCEPT !.phase = "drained", !.queue = Append(@, "DrainComplete")]
    BY <1>1, <1>5 DEF DrainDone, Emit, Mft, eventVars
  <2>2. /\ mft'.inq = <<>> /\ mft'.phase = "drained"
        /\ mft'.queue = Append(mft.queue, "DrainComplete")
    BY <1>1, <2>1 DEF Mft
  <2>3. Quiet'
    BY <2>2 DEF Quiet
  <2>4. "DrainComplete" \in Kinds /\ "DrainComplete" # "HaveOutput"
    BY DEF Kinds
  <2>5. LastOutput(mft'.queue) /\ (Has(mft'.queue, "HaveOutput") <=> Has(mft.queue, "HaveOutput"))
    BY <1>0, <1>1, <2>2, <2>4, HasAppend
  <2> QED BY <1>0, <2>1, <2>3, <2>5, DrainIsLastNext
<1>6. CASE Invoke
  <2>1. mft.queue # <<>> /\ mft' = [mft EXCEPT !.queue = Tail(@)]
    BY <1>6 DEF Invoke
  <2>2. mft'.queue = Tail(mft.queue) /\ mft'.inq = mft.inq /\ mft'.phase = mft.phase
    BY <1>1, <2>1 DEF Mft
  <2>3. Quiet' <=> Quiet
    BY <2>2 DEF Quiet
  <2>4. PICK h \in Kinds : h = Head(mft.queue)
    BY <1>1, <2>1
  <2>5. /\ \A k : Has(mft'.queue, k) => Has(mft.queue, k)
        /\ Has(mft.queue, h)
        /\ LastOutput(mft'.queue)
        /\ h = "DrainComplete" => ~Has(mft'.queue, "HaveOutput")
    BY <1>0, <1>1, <2>1, <2>2, <2>4, HasTail
  <2>6. Has(events', "DrainComplete") => Has(events, "DrainComplete") \/ h = "DrainComplete"
    <3>1. CASE events' = events
      BY <3>1
    <3>2. CASE events' = Append(events, h)
      BY <1>1, <2>4, <3>2, HasAppend
    <3> QED BY <1>6, <2>4, <3>1, <3>2 DEF Invoke
  <2> QED BY <1>0, <2>3, <2>5, <2>6, DrainIsLastNext
<1>7. CASE Setup
  <2>1. mft.queue = <<>> /\ events = <<>> /\ UNCHANGED events
    BY <1>0, <1>7 DEF Setup, PhaseFollowsWorker
  <2>2. mft' = mft \/ mft' = [mft EXCEPT !.phase = "on"]
    BY <1>7 DEF Setup
  <2>3. mft'.queue = <<>>
    BY <1>1, <2>1, <2>2 DEF Mft
  <2>4. ~Has(<<>>, "DrainComplete") /\ LastOutput(<<>>)
    BY DEF Has, LastOutput
  <2> QED BY <2>1, <2>3, <2>4, DrainIsLastNext
<1>8. CASE Top
  <2>1. mft' = mft \/ mft' = [mft EXCEPT !.phase = "off", !.inq = <<>>, !.outq = <<>>]
    BY <1>8 DEF Top
  <2>2. mft'.queue = mft.queue /\ (mft' = mft \/ (mft'.inq = <<>> /\ mft'.phase = "off"))
    BY <1>1, <2>1 DEF Mft
  <2>3. Quiet => Quiet'
    BY <2>2 DEF Quiet
  <2>4. UNCHANGED events
    BY <1>8 DEF Top, eventVars
  <2> QED BY <1>2, <2>2, <2>3, <2>4
<1>9. CASE OnEvent
  <2>1. events # <<>> /\ events' = Tail(events)
    BY <1>9 DEF OnEvent
  <2>2. events' = <<>>
    BY <1>1, <2>1, OneEvent
  <2>3. mft' = mft \/ mft' = [mft EXCEPT !.outq = Tail(@)]
    BY <1>9 DEF OnEvent, ProcessOneOutput
  <2>4. mft'.queue = mft.queue /\ mft'.inq = mft.inq /\ mft'.phase = mft.phase
    BY <1>1, <2>3 DEF Mft
  <2>5. Quiet => Quiet'
    BY <2>4 DEF Quiet
  <2>6. ~Has(events', "DrainComplete")
    BY <2>2 DEF Has
  <2> QED BY <1>0, <2>4, <2>5, <2>6, DrainIsLastNext
<1>10. CASE OnCommand
  <2>1. mft' = mft \/ mft' = [mft EXCEPT !.idr = TRUE] \/ mft' = [mft EXCEPT !.phase = "draining"]
    BY <1>10 DEF OnCommand, CommandDrain
  <2>2. /\ mft'.queue = mft.queue /\ mft'.inq = mft.inq
        /\ mft'.phase = mft.phase \/ mft'.phase = "draining"
    BY <1>1, <2>1 DEF Mft
  <2>3. Quiet => Quiet'
    BY <2>2 DEF Quiet
  <2>4. UNCHANGED events
    BY <1>10 DEF OnCommand, eventVars
  <2> QED BY <1>2, <2>2, <2>3, <2>4
<1>11. CASE OnInput \/ NextLoop
  <2>1. UNCHANGED <<mft, events>>
    BY <1>11 DEF OnInput, NextLoop, eventVars
  <2> QED BY <1>2, <2>1 DEF Quiet
<1>12. CASE OnMatch
  <2>1. UNCHANGED events /\ (mft' = mft \/ (mft.phase = "on" /\ Accept(Head(pending))))
    BY <1>12 DEF OnMatch, eventVars
  <2>2. CASE mft' = mft
    BY <1>2, <2>1, <2>2 DEF Quiet
  <2>3. CASE mft.phase = "on" /\ Accept(Head(pending))
    <3>1. mft'.queue = mft.queue
      BY <1>1, <2>3 DEF Accept, Mft
    <3>2. ~Quiet
      BY <2>3 DEF Quiet
    <3> QED BY <1>2, <2>1, <3>1, <3>2
  <2> QED BY <2>1, <2>2, <2>3
<1> QED
  BY <1>3, <1>4, <1>5, <1>6, <1>7, <1>8, <1>9, <1>10, <1>11, <1>12
     DEF EncoderNext, Worker, Transform

\* An ack that no failure explains was sent when everything was out.
LEMMA AckStep == ASSUME EncoderIInv, EncoderNext PROVE AckedIsDrained'
<1>0. /\ EncoderTypes /\ CreditBalance /\ PhaseFollowsWorker /\ DrainIsLast
      /\ failures = 0 /\ acked # {} => Quiet /\ mft.outq = <<>>
      /\ caller = "drained" => acked # {} /\ (failures = 0 => output = <<>>)
  BY DEF EncoderIInv, AckedIsDrained
<1>1. mft \in Mft /\ events \in Seq(Kinds) /\ Len(events) <= 1 /\ mft.queue \in Seq(Kinds)
      /\ failures \in Nat /\ mft.outq \in Seq(Frames)
  BY <1>0, TypesByGroup, EncoderBounds DEF EventTypes, Mft, LossTypes
<1>2. Fails => failures' # 0
  BY <1>1 DEF Fails
<1>3. ASSUME UNCHANGED <<acked, failures, caller, output>>,
             Quiet /\ mft.outq = <<>> => Quiet' /\ mft'.outq = <<>>
      PROVE  AckedIsDrained'
  BY <1>0, <1>3 DEF AckedIsDrained
<1>4. CASE Caller
  <2>1. UNCHANGED <<acked, failures, mft>>
    BY <1>4 DEF Caller, TryNew, EncodeRgb, ForceKeyframe, DrainCall, DrainReturn, GoOn, Drop,
                JoinThread, chanVars
  <2>2. caller' = "drained" => acked' # {} /\ output' = <<>>
    <3>1. CASE DrainReturn
      BY <2>1, <3>1 DEF DrainReturn, Collect
    <3>2. CASE ~DrainReturn
      BY <1>4, <3>2 DEF Caller, TryNew, EncodeRgb, ForceKeyframe, DrainCall, GoOn, Drop, JoinThread
    <3> QED BY <3>1, <3>2
  <2> QED BY <1>0, <2>1, <2>2 DEF AckedIsDrained, Quiet
<1>5. CASE AskInput \/ Encode
  <2>1. ~Quiet /\ UNCHANGED <<acked, failures, caller, output>>
    BY <1>5 DEF AskInput, CanAsk, Encode, CanEncode, Quiet, chanVars, callerVars
  <2> QED BY <1>3, <2>1
<1>6. CASE OtherEvent
  <2>1. Fails /\ UNCHANGED <<acked, caller>>
    BY <1>6 DEF OtherEvent, chanVars, callerVars
  <2> QED BY <1>0, <1>2, <2>1 DEF AckedIsDrained
<1>7. CASE DrainDone \/ Invoke
  <2>1. UNCHANGED <<acked, failures, caller, output>>
    BY <1>7 DEF DrainDone, Invoke, chanVars, callerVars
  <2>2. mft'.inq = mft.inq /\ mft'.outq = mft.outq /\ mft'.phase \in {mft.phase, "drained"}
    BY <1>1, <1>7 DEF DrainDone, Invoke, Emit, Mft
  <2> QED BY <1>3, <2>1, <2>2 DEF Quiet
<1>8. CASE Setup
  <2>1. acked = {} /\ UNCHANGED <<acked, failures, caller, output>>
    BY <1>0, <1>8 DEF Setup, PhaseFollowsWorker, chanVars, callerVars
  <2> QED BY <1>0, <2>1 DEF AckedIsDrained
<1>9. CASE Top
  <2>1. mft' = mft \/ mft' = [mft EXCEPT !.phase = "off", !.inq = <<>>, !.outq = <<>>]
    BY <1>9 DEF Top
  <2>2. mft' = mft \/ (mft'.inq = <<>> /\ mft'.outq = <<>> /\ mft'.phase = "off")
    BY <1>1, <2>1 DEF Mft
  <2>3. UNCHANGED <<acked, failures, caller, output>>
    BY <1>9 DEF Top, chanVars, callerVars
  <2> QED BY <1>3, <2>2, <2>3 DEF Quiet
<1>10. CASE OnEvent
  <2>1. events # <<>> /\ UNCHANGED caller
    BY <1>10 DEF OnEvent, callerVars
  <2>2. CASE Head(events) = "NeedInput"
    <3>1. UNCHANGED <<mft, output, failures, acked>>
      BY <1>10, <2>2 DEF OnEvent
    <3> QED BY <1>3, <2>1, <3>1 DEF Quiet
  <2>3. CASE Head(events) = "HaveOutput"
    <3>1. ProcessOneOutput /\ UNCHANGED acked
      BY <1>10, <2>3 DEF OnEvent
    <3>2. CASE failures = 0 /\ acked # {}
      <4>1. UNCHANGED <<mft, output, failures>>
        BY <1>0, <3>1, <3>2 DEF ProcessOneOutput
      <4> QED BY <1>3, <2>1, <3>1, <4>1 DEF Quiet
    <3>3. CASE acked = {}
      BY <1>0, <2>1, <3>1, <3>3 DEF AckedIsDrained
    <3>4. CASE failures # 0
      <4>1. failures' # 0
        BY <1>2, <3>1, <3>4 DEF ProcessOneOutput
      <4> QED BY <1>0, <2>1, <3>1, <4>1 DEF AckedIsDrained
    <3> QED BY <3>2, <3>3, <3>4
  <2>4. CASE Head(events) = "DrainComplete"
    <3>1. acked' = acked \cup ({waiting} \ {NoDrain}) /\ UNCHANGED <<mft, output, failures>>
      BY <1>10, <2>4 DEF OnEvent, SendAck
    <3>2. 1 \in DOMAIN events /\ events[1] = "DrainComplete"
      BY <1>1, <2>1, <2>4, OneEvent
    <3>3. Quiet /\ ~Has(mft.queue, "HaveOutput")
      BY <1>0, <3>2, DrainIsLastMeans DEF Has
    <3>4. mft.outq = <<>>
      <4>1. mft.phase # "off"
        BY <1>0, <1>10 DEF OnEvent, PhaseFollowsWorker
      <4>2. Occ(mft.queue, "HaveOutput") + Occ(events, "HaveOutput") = Len(mft.outq)
        BY <1>0, <4>1, BalanceIsCredit DEF Balance
      <4>3. Occ(mft.queue, "HaveOutput") = 0
        BY <1>1, <3>3, OccFinite DEF Has
      <4>4. Occ(events, "HaveOutput") = 0
        <5>1. \A i \in DOMAIN events : events[i] # "HaveOutput"
          BY <1>1, <2>1, <2>4, OneEvent
        <5> QED BY <1>1, <5>1, OccFinite
      <4>5. Len(mft.outq) = 0
        BY <4>2, <4>3, <4>4
      <4> QED BY <1>1, <4>5
    <3>5. Quiet' /\ mft'.outq = <<>>
      BY <3>1, <3>3, <3>4 DEF Quiet
    <3> QED BY <1>0, <2>1, <3>1, <3>5 DEF AckedIsDrained
  <2> QED BY <1>10, <2>2, <2>3, <2>4 DEF OnEvent
<1>11. CASE OnCommand
  <2>1. UNCHANGED <<caller, output>>
    BY <1>11 DEF OnCommand, callerVars
  <2>2. CASE UNCHANGED <<acked, failures>>
    <3>1. mft' = mft \/ mft' = [mft EXCEPT !.idr = TRUE] \/ mft' = [mft EXCEPT !.phase = "draining"]
      BY <1>11 DEF OnCommand, CommandDrain
    <3>2. /\ mft'.outq = mft.outq /\ mft'.inq = mft.inq
          /\ mft'.phase = mft.phase \/ mft'.phase = "draining"
      BY <1>1, <3>1 DEF Mft
    <3> QED BY <1>3, <2>1, <2>2, <3>2 DEF Quiet
  <2>3. CASE Fails /\ \E d : SendAck(d)
    <3>1. acked \subseteq acked' /\ failures' # 0
      BY <1>2, <2>3 DEF SendAck
    <3> QED BY <1>0, <2>1, <3>1 DEF AckedIsDrained
  <2> QED BY <1>11, <2>2, <2>3 DEF OnCommand, CommandDrain
<1>12. CASE OnInput \/ NextLoop
  <2>1. UNCHANGED <<mft, acked, failures, caller, output>>
    BY <1>12 DEF OnInput, NextLoop, callerVars, chanVars
  <2> QED BY <1>3, <2>1 DEF Quiet
<1>13. CASE OnMatch
  <2>1. UNCHANGED <<acked, caller, output>>
    BY <1>13 DEF OnMatch, callerVars, chanVars
  <2>2. \/ UNCHANGED <<mft, failures>>
        \/ mft.phase = "on" /\ UNCHANGED failures
        \/ Fails
    BY <1>13 DEF OnMatch
  <2>3. CASE UNCHANGED <<mft, failures>>
    BY <1>3, <2>1, <2>3 DEF Quiet
  <2>4. CASE mft.phase = "on" /\ UNCHANGED failures
    BY <1>3, <2>1, <2>4 DEF Quiet
  <2>5. CASE Fails
    BY <1>0, <1>2, <2>1, <2>5 DEF AckedIsDrained
  <2> QED BY <2>2, <2>3, <2>4, <2>5
<1> QED
  BY <1>4, <1>5, <1>6, <1>7, <1>8, <1>9, <1>10, <1>11, <1>12, <1>13
     DEF EncoderNext, Worker, Transform

-----------------------------------------------------------------------------
(* Frames.                                                                   *)

\* The parts of the way of a frame are sequences of numbers, one behind the other.
Way == Seq(Nat)
Cat(a, b) == a \o b
One(f) == <<f>>
All(g, o, q, i, p, n) == Cat(Cat(Cat(Cat(Cat(g, o), q), i), p), n)
InOrder(a, m, L) == Ascends(a) /\ ToSet(a) = (1 .. m) \ L /\ L \subseteq 1 .. m

AllFrames == All(got, output, mft.outq, mft.inq, pending, input)

\* Frames are in order when all that are on the way ascend and are those that are not lost.
LEMMA OrderIs ==
  FramesInOrder /\ lost \subseteq 1 .. next - 1 <=> InOrder(AllFrames, next - 1, lost)
BY DEF FramesInOrder, InOrder, AllFrames, All, Ascends, Cat

\* The same after a step.
LEMMA OrderIsNext ==
  InOrder(AllFrames', next' - 1, lost') => FramesInOrder' /\ lost' \subseteq 1 .. next' - 1
BY DEF FramesInOrder, InOrder, AllFrames, All, Ascends, Cat

\* Parts put together are a part.
LEMMA CatWay == \A a, b \in Way : Cat(a, b) \in Way
BY DEF Way, Cat

\* Putting parts together is associative.
LEMMA CatThree == \A a, b, c \in Way : Cat(Cat(a, b), c) = Cat(a, Cat(b, c))
BY DEF Way, Cat

\* Nothing is a part of the way.
LEMMA CatEmpty == <<>> \in Way /\ \A a \in Way : Cat(a, <<>>) = a /\ Cat(<<>>, a) = a
<1>1. <<>> \in Way
  BY DEF Way
<1>2. ASSUME NEW a \in Way PROVE Cat(a, <<>>) = a /\ Cat(<<>>, a) = a
  BY ConcatEmptySeq DEF Way, Cat
<1> QED BY <1>1, <1>2

\* What is on the way is on a part of it.
LEMMA CatSets == \A a, b \in Way : ToSet(Cat(a, b)) = ToSet(a) \cup ToSet(b)
<1> SUFFICES ASSUME NEW a \in Way, NEW b \in Way
             PROVE  ToSet(Cat(a, b)) = ToSet(a) \cup ToSet(b)
  OBVIOUS
<1> QED BY SetOfConcat DEF Way, Cat

\* The way ascends when its parts do, one below the other.
LEMMA CatAscends ==
  \A a, b \in Way :
    Ascends(Cat(a, b)) <=> /\ Ascends(a) /\ Ascends(b)
                           /\ \A x \in ToSet(a), y \in ToSet(b) : x < y
<1> SUFFICES ASSUME NEW a \in Way, NEW b \in Way
             PROVE  Ascends(Cat(a, b)) <=> /\ Ascends(a) /\ Ascends(b)
                                           /\ \A x \in ToSet(a), y \in ToSet(b) : x < y
  OBVIOUS
<1> QED BY ConcatAscends DEF Way, Cat

\* Frames are numbers.
LEMMA WayNat == \A a \in Way : ToSet(a) \subseteq Nat
BY DEF Way, ToSet

\* A frame alone.
LEMMA OneFrame ==
  \A f \in Nat : /\ One(f) \in Way /\ ToSet(One(f)) = {f} /\ Ascends(One(f))
                 /\ \A a \in Way : Append(a, f) = Cat(a, One(f))
<1> TAKE f \in Nat
<1>1. One(f) \in Way
  BY DEF Way, One
<1>2. ToSet(One(f)) = {f} /\ Ascends(One(f))
  <2>1. DOMAIN One(f) = {1} /\ One(f)[1] = f
    BY DEF One
  <2> QED BY <2>1 DEF ToSet, Ascends
<1>3. ASSUME NEW a \in Way PROVE Append(a, f) = Cat(a, One(f))
  BY AppendIsConcat DEF Way, Cat, One
<1> QED BY <1>1, <1>2, <1>3

\* The first frame of a part and the others.
LEMMA HeadAndTail ==
  \A a \in Way : a # <<>> => /\ Head(a) \in Nat /\ Tail(a) \in Way
                             /\ a = Cat(One(Head(a)), Tail(a))
<1> SUFFICES ASSUME NEW a \in Way, a # <<>>
             PROVE  Head(a) \in Nat /\ Tail(a) \in Way /\ a = Cat(One(Head(a)), Tail(a))
  OBVIOUS
<1> QED BY HeadFirst DEF Way, Cat, One

\* The way around what is in the transform and around what the worker queues.
LEMMA AroundIt ==
  ASSUME NEW g \in Way, NEW o \in Way, NEW q \in Way, NEW i \in Way, NEW p \in Way, NEW n \in Way
  PROVE  /\ All(g, o, q, i, p, n) \in Way
         /\ All(g, o, q, i, p, n) = Cat(Cat(Cat(g, o), q), Cat(Cat(i, p), n))
         /\ All(g, o, q, i, p, n) = Cat(Cat(Cat(g, o), Cat(q, i)), Cat(p, n))
         /\ Cat(g, o) \in Way /\ Cat(Cat(i, p), n) \in Way /\ Cat(p, n) \in Way
         /\ Cat(Cat(Cat(g, o), q), i) \in Way /\ Cat(q, i) \in Way
<1>1. PICK go \in Way : go = Cat(g, o)
  BY CatWay
<1>2. PICK goq \in Way : goq = Cat(go, q)
  BY CatWay
<1>3. PICK goqi \in Way : goqi = Cat(goq, i)
  BY CatWay
<1>4. PICK ip \in Way : ip = Cat(i, p)
  BY CatWay
<1>5. Cat(goqi, p) = Cat(goq, ip)
  BY <1>3, <1>4, CatThree
<1>6. Cat(Cat(goq, ip), n) = Cat(goq, Cat(ip, n))
  BY CatThree
<1>7. goqi = Cat(go, Cat(q, i))
  BY <1>2, <1>3, CatThree
<1>8. Cat(Cat(goqi, p), n) = Cat(goqi, Cat(p, n))
  BY CatThree
<1>9. Cat(ip, n) \in Way /\ Cat(p, n) \in Way /\ Cat(q, i) \in Way
  BY CatWay
<1>10. Cat(Cat(goqi, p), n) \in Way
  BY CatWay
<1>11. All(g, o, q, i, p, n) = Cat(Cat(goqi, p), n)
  BY <1>1, <1>2, <1>3 DEF All
<1> QED BY <1>1, <1>2, <1>3, <1>4, <1>5, <1>6, <1>7, <1>8, <1>9, <1>10, <1>11

\* What a part of the way gives to the part before it, and what leaves from its head.
LEMMA MoveHeadOn ==
  \A a, o, q \in Way : q # <<>> => /\ Append(o, Head(q)) \in Way
                                   /\ Cat(Cat(a, Append(o, Head(q))), Tail(q)) = Cat(Cat(a, o), q)
<1> SUFFICES ASSUME NEW a \in Way, NEW o \in Way, NEW q \in Way, q # <<>>
             PROVE  /\ Append(o, Head(q)) \in Way
                    /\ Cat(Cat(a, Append(o, Head(q))), Tail(q)) = Cat(Cat(a, o), q)
  OBVIOUS
<1>1. PICK u \in Way, r \in Way : r = Tail(q) /\ q = Cat(u, r) /\ Append(o, Head(q)) = Cat(o, u)
  BY HeadAndTail, OneFrame
<1>2. PICK ao \in Way : ao = Cat(a, o)
  BY CatWay
<1>3. Cat(a, Cat(o, u)) = Cat(ao, u)
  BY <1>2, CatThree
<1>4. Cat(Cat(ao, u), r) = Cat(ao, Cat(u, r))
  BY CatThree
<1>5. Cat(o, u) \in Way
  BY CatWay
<1> QED BY <1>1, <1>2, <1>3, <1>4, <1>5

\* What moves on moves within the way.
LEMMA OrderMoves ==
  ASSUME NEW g \in Way, NEW o \in Way, NEW q \in Way, NEW i \in Way, NEW p \in Way, NEW n \in Way
  PROVE  /\ All(Cat(g, o), <<>>, q, i, p, n) = All(g, o, q, i, p, n)
         /\ q # <<>> => All(g, Append(o, Head(q)), Tail(q), i, p, n) = All(g, o, q, i, p, n)
         /\ i # <<>> => All(g, o, Append(q, Head(i)), Tail(i), p, n) = All(g, o, q, i, p, n)
         /\ p # <<>> => All(g, o, q, Append(i, Head(p)), Tail(p), n) = All(g, o, q, i, p, n)
         /\ n # <<>> => All(g, o, q, i, Append(p, Head(n)), Tail(n)) = All(g, o, q, i, p, n)
<1>1. PICK go \in Way : go = Cat(g, o)
  BY CatWay
<1>2. PICK goq \in Way : goq = Cat(go, q)
  BY CatWay
<1>3. PICK goqi \in Way : goqi = Cat(goq, i)
  BY CatWay
<1>4. Cat(go, <<>>) = go
  BY CatEmpty
<1>5. All(Cat(g, o), <<>>, q, i, p, n) = All(g, o, q, i, p, n)
  BY <1>1, <1>4 DEF All
<1>6. q # <<>> => Cat(Cat(g, Append(o, Head(q))), Tail(q)) = Cat(Cat(g, o), q)
  BY MoveHeadOn
<1>7. i # <<>> => Cat(Cat(go, Append(q, Head(i))), Tail(i)) = Cat(Cat(go, q), i)
  BY MoveHeadOn
<1>8. p # <<>> => Cat(Cat(goq, Append(i, Head(p))), Tail(p)) = Cat(Cat(goq, i), p)
  BY MoveHeadOn
<1>9. n # <<>> => Cat(Cat(goqi, Append(p, Head(n))), Tail(n)) = Cat(Cat(goqi, p), n)
  BY MoveHeadOn
<1>10. /\ All(g, o, q, i, p, n) = Cat(Cat(goqi, p), n)
       /\ n # <<>> => All(g, o, q, i, Append(p, Head(n)), Tail(n))
                        = Cat(Cat(goqi, Append(p, Head(n))), Tail(n))
  BY <1>1, <1>2, <1>3 DEF All
<1>11. p # <<>> => All(g, o, q, Append(i, Head(p)), Tail(p), n) = All(g, o, q, i, p, n)
  BY <1>1, <1>2, <1>8 DEF All
<1>12. i # <<>> => All(g, o, Append(q, Head(i)), Tail(i), p, n) = All(g, o, q, i, p, n)
  BY <1>1, <1>7 DEF All
<1>13. q # <<>> => All(g, Append(o, Head(q)), Tail(q), i, p, n) = All(g, o, q, i, p, n)
  BY <1>6 DEF All
<1> QED BY <1>5, <1>9, <1>10, <1>11, <1>12, <1>13

\* A frame the caller hands over is the last of all.
LEMMA OrderGrows ==
  ASSUME NEW g \in Way, NEW o \in Way, NEW q \in Way, NEW i \in Way, NEW p \in Way, NEW n \in Way,
         NEW m \in Nat, NEW L, InOrder(All(g, o, q, i, p, n), m, L)
  PROVE  InOrder(All(Cat(g, o), <<>>, q, i, p, Append(n, m + 1)), m + 1, L)
<1>1. PICK y \in Nat : y = m + 1
  OBVIOUS
<1>2. PICK z \in Way : z = One(y) /\ ToSet(z) = {y} /\ Ascends(z) /\ Append(n, y) = Cat(n, z)
  BY OneFrame
<1>3. PICK a \in Way : a = Cat(Cat(Cat(Cat(g, o), q), i), p)
  BY CatWay, AroundIt
<1>4. PICK b \in Way : b = Cat(a, n)
  BY CatWay
<1>5. b = All(g, o, q, i, p, n)
  BY <1>3, <1>4 DEF All
<1>6. All(g, o, q, i, p, Append(n, y)) = Cat(b, z)
  <2>1. Cat(a, Cat(n, z)) = Cat(b, z)
    BY <1>4, CatThree
  <2> QED BY <1>2, <1>3, <2>1 DEF All
<1>7. All(Cat(g, o), <<>>, q, i, p, Append(n, y)) = Cat(b, z)
  <2>1. Cat(Cat(g, o), <<>>) = Cat(g, o)
    BY CatWay, CatEmpty
  <2> QED BY <1>6, <2>1 DEF All
<1>8. Ascends(b) /\ ToSet(b) = (1 .. m) \ L /\ L \subseteq 1 .. m
  BY <1>5 DEF InOrder
<1>9. Ascends(Cat(b, z))
  <2>1. \A x \in 1 .. m : x < y
    BY <1>1
  <2>2. \A x \in ToSet(b), w \in ToSet(z) : x < w
    BY <1>2, <1>8, <2>1
  <2> QED BY <1>2, <1>8, <2>2, CatAscends
<1>10. ToSet(Cat(b, z)) = ToSet(b) \cup {y}
  BY <1>2, CatSets
<1>11. L \subseteq 1 .. y /\ (1 .. y) \ L = ((1 .. m) \ L) \cup {y}
  <2>1. 1 .. y = (1 .. m) \cup {y} /\ y \notin 1 .. m
    BY <1>1
  <2> QED BY <1>8, <2>1
<1> QED BY <1>1, <1>7, <1>8, <1>9, <1>10, <1>11 DEF InOrder

\* Frames u that are given up, at the beginning of a part of the way, leave the others in
\* order.
LEMMA OrderWithout ==
  ASSUME NEW n \in Nat, NEW L, NEW A \in Way, NEW B \in Way, NEW u \in Way, NEW r \in Way,
         InOrder(Cat(Cat(A, Cat(u, r)), B), n, L)
  PROVE  InOrder(Cat(Cat(A, r), B), n, L \cup ToSet(u)) /\ ToSet(u) \cap ToSet(r) = {}
<1>1. PICK ur \in Way : ur = Cat(u, r)
  BY CatWay
<1>2. PICK Aur \in Way : Aur = Cat(A, ur)
  BY CatWay
<1>3. PICK Ar \in Way : Ar = Cat(A, r)
  BY CatWay
<1>4. Ascends(Cat(Aur, B)) /\ L \subseteq 1 .. n /\ ToSet(Cat(Aur, B)) = (1 .. n) \ L
  BY <1>1, <1>2 DEF InOrder
<1>5. Ascends(Aur) /\ Ascends(B) /\ \A x \in ToSet(Aur), y \in ToSet(B) : x < y
  BY <1>4, CatAscends
<1>6. Ascends(A) /\ Ascends(ur) /\ \A x \in ToSet(A), y \in ToSet(ur) : x < y
  BY <1>2, <1>5, CatAscends
<1>7. Ascends(u) /\ Ascends(r) /\ \A x \in ToSet(u), y \in ToSet(r) : x < y
  BY <1>1, <1>6, CatAscends
<1>8. /\ ToSet(ur) = ToSet(u) \cup ToSet(r)
      /\ ToSet(Aur) = ToSet(A) \cup ToSet(ur)
      /\ ToSet(Cat(Aur, B)) = ToSet(Aur) \cup ToSet(B)
      /\ ToSet(Ar) = ToSet(A) \cup ToSet(r)
      /\ ToSet(Cat(Ar, B)) = ToSet(Ar) \cup ToSet(B)
  BY <1>1, <1>2, <1>3, CatSets
<1>9. Ascends(Ar)
  BY <1>3, <1>6, <1>7, <1>8, CatAscends
<1>10. Ascends(Cat(Ar, B))
  BY <1>5, <1>8, <1>9, CatAscends
<1>11. /\ ToSet(A) \subseteq Nat /\ ToSet(B) \subseteq Nat
       /\ ToSet(u) \subseteq Nat /\ ToSet(r) \subseteq Nat
  BY WayNat
<1>12. \A x \in Nat : ~(x < x)
  OBVIOUS
<1>13. /\ ToSet(u) \cap ToSet(A) = {} /\ ToSet(u) \cap ToSet(r) = {}
       /\ ToSet(u) \cap ToSet(B) = {}
  BY <1>5, <1>6, <1>7, <1>8, <1>11, <1>12
<1>14. /\ ToSet(Cat(Ar, B)) = (1 .. n) \ (L \cup ToSet(u))
       /\ L \cup ToSet(u) \subseteq 1 .. n
  BY <1>4, <1>8, <1>13
<1> QED BY <1>3, <1>10, <1>13, <1>14 DEF InOrder

\* A frame that leaves the transform for nowhere.
LEMMA OrderLosesOutput ==
  ASSUME NEW g \in Way, NEW o \in Way, NEW q \in Way, NEW i \in Way, NEW p \in Way, NEW n \in Way,
         NEW m \in Nat, NEW L, InOrder(All(g, o, q, i, p, n), m, L), q # <<>>
  PROVE  InOrder(All(g, o, Tail(q), i, p, n), m, L \cup {Head(q)})
<1>1. PICK a \in Way : a = Cat(g, o)
  BY CatWay
<1>2. PICK ip \in Way : ip = Cat(i, p)
  BY CatWay
<1>3. PICK b \in Way : b = Cat(ip, n)
  BY CatWay
<1>4. ASSUME NEW r \in Way PROVE All(g, o, r, i, p, n) = Cat(Cat(a, r), b)
  <2>1. PICK ar \in Way : ar = Cat(a, r)
    BY CatWay
  <2>2. Cat(Cat(ar, i), p) = Cat(ar, ip)
    BY <1>2, CatThree
  <2>3. Cat(Cat(ar, ip), n) = Cat(ar, b)
    BY <1>3, CatThree
  <2> QED BY <1>1, <2>1, <2>2, <2>3 DEF All
<1>5. PICK h \in Nat, r \in Way : h = Head(q) /\ r = Tail(q) /\ q = Cat(One(h), r)
  BY HeadAndTail
<1>6. PICK u \in Way : u = One(h) /\ ToSet(u) = {h}
  BY OneFrame
<1>7. InOrder(Cat(Cat(a, Cat(u, r)), b), m, L)
  BY <1>4, <1>5, <1>6
<1>8. InOrder(Cat(Cat(a, r), b), m, L \cup ToSet(u))
  BY <1>7, OrderWithout
<1> QED BY <1>4, <1>5, <1>6, <1>8

\* One that leaves the worker's queue for nowhere.
LEMMA OrderLosesPending ==
  ASSUME NEW g \in Way, NEW o \in Way, NEW q \in Way, NEW i \in Way, NEW p \in Way, NEW n \in Way,
         NEW m \in Nat, NEW L, InOrder(All(g, o, q, i, p, n), m, L), p # <<>>
  PROVE  /\ InOrder(All(g, o, q, i, Tail(p), n), m, L \cup {Head(p)})
         /\ Head(p) \notin ToSet(Tail(p))
<1>1. PICK h \in Nat, r \in Way : h = Head(p) /\ r = Tail(p) /\ p = Cat(One(h), r)
  BY HeadAndTail
<1>2. PICK u \in Way : u = One(h) /\ ToSet(u) = {h}
  BY OneFrame
<1>3. PICK a \in Way : a = Cat(Cat(Cat(g, o), q), i)
  BY AroundIt
<1>4. InOrder(Cat(Cat(a, Cat(u, r)), n), m, L)
  BY <1>1, <1>2, <1>3 DEF All
<1>5. InOrder(Cat(Cat(a, r), n), m, L \cup ToSet(u)) /\ ToSet(u) \cap ToSet(r) = {}
  BY <1>4, OrderWithout
<1> QED BY <1>1, <1>2, <1>3, <1>5 DEF All

\* All that are in the transform.
LEMMA OrderLosesTransform ==
  ASSUME NEW g \in Way, NEW o \in Way, NEW q \in Way, NEW i \in Way, NEW p \in Way, NEW n \in Way,
         NEW m \in Nat, NEW L, InOrder(All(g, o, q, i, p, n), m, L)
  PROVE  InOrder(All(g, o, <<>>, <<>>, p, n), m, L \cup ToSet(i \o q))
<1>0. All(g, o, q, i, p, n) = Cat(Cat(Cat(g, o), Cat(q, i)), Cat(p, n))
  BY AroundIt
<1>1. PICK a \in Way, b \in Way, u \in Way : a = Cat(g, o) /\ b = Cat(p, n) /\ u = Cat(q, i)
  BY CatWay
<1>2. PICK r \in Way : r = <<>>
  BY CatEmpty
<1>3. Cat(u, r) = u /\ Cat(a, r) = a
  BY <1>2, CatEmpty
<1>4. All(g, o, q, i, p, n) = Cat(Cat(a, Cat(u, r)), b)
  BY <1>0, <1>1, <1>3
<1>5. InOrder(Cat(Cat(a, r), b), m, L \cup ToSet(u))
  BY <1>4, OrderWithout
<1>6. ToSet(u) = ToSet(Cat(i, q))
  <2>1. ToSet(Cat(q, i)) = ToSet(q) \cup ToSet(i)
    BY CatSets
  <2>2. ToSet(Cat(i, q)) = ToSet(i) \cup ToSet(q)
    BY CatSets
  <2> QED BY <1>1, <2>1, <2>2
<1>7. All(g, o, r, r, p, n) = Cat(Cat(a, r), b)
  <2>1. Cat(Cat(Cat(a, p), n), r) = Cat(Cat(a, p), n) /\ Cat(Cat(a, p), n) = Cat(a, b)
    BY <1>1, <1>2, CatThree, CatWay, CatEmpty
  <2> QED BY <1>1, <1>3, <2>1 DEF All
<1> QED BY <1>2, <1>5, <1>6, <1>7 DEF Cat

\* The parts of the way are typed.
LEMMA WayOfFrames ==
  EncoderTypes => /\ {got, output, mft.outq, mft.inq, pending, input} \subseteq Way
                  /\ next \in Nat /\ next - 1 \in Nat /\ next - 1 + 1 = next
<1> SUFFICES ASSUME EncoderTypes
             PROVE  /\ {got, output, mft.outq, mft.inq, pending, input} \subseteq Way
                    /\ next \in Nat /\ next - 1 \in Nat /\ next - 1 + 1 = next
  OBVIOUS
<1>1. {got, input, output, pending} \subseteq Seq(Frames) /\ next \in 1 .. NFrames + 1
  BY DEF EncoderTypes, EncoderTypeOK
<1>2. mft.inq \in Seq(Frames) /\ mft.outq \in Seq(Frames)
  BY DEF EncoderTypes, Mft
<1>3. Seq(Frames) \subseteq Way
  BY FramesNat DEF Way
<1>4. next \in Nat /\ next - 1 \in Nat /\ next - 1 + 1 = next
  BY <1>1, EncoderBounds
<1> QED BY <1>1, <1>2, <1>3, <1>4

\* No step loses, doubles or overtakes a frame.
LEMMA OrderStep ==
  ASSUME EncoderIInv, EncoderNext
  PROVE  FramesInOrder' /\ lost' \subseteq 1 .. next' - 1
<1>1. /\ mft \in Mft /\ InOrder(AllFrames, next - 1, lost) /\ Len(pending) \in Nat
      /\ {got, output, mft.outq, mft.inq, pending, input} \subseteq Way
      /\ next \in Nat /\ next - 1 \in Nat /\ next - 1 + 1 = next
  BY WayOfFrames, OrderIs DEF EncoderIInv, EncoderTypes, Way
<1>2. PICK g \in Way, o \in Way, q \in Way, i \in Way, p \in Way, n \in Way :
        /\ g = got /\ o = output /\ q = mft.outq /\ i = mft.inq /\ p = pending /\ n = input
  BY <1>1
<1>3. /\ All(Cat(g, o), <<>>, q, i, p, n) = All(g, o, q, i, p, n)
      /\ q # <<>> => All(g, Append(o, Head(q)), Tail(q), i, p, n) = All(g, o, q, i, p, n)
      /\ i # <<>> => All(g, o, Append(q, Head(i)), Tail(i), p, n) = All(g, o, q, i, p, n)
      /\ p # <<>> => All(g, o, q, Append(i, Head(p)), Tail(p), n) = All(g, o, q, i, p, n)
      /\ n # <<>> => All(g, o, q, i, Append(p, Head(n)), Tail(n)) = All(g, o, q, i, p, n)
  BY SMTT(60), OrderMoves
<1>4. PICK m \in Nat : m = next - 1 /\ next = m + 1
  BY <1>1
<1>5. PICK L : L = lost
  OBVIOUS
<1>6. InOrder(All(g, o, q, i, p, n), m, L)
  BY <1>1, <1>2, <1>4, <1>5 DEF AllFrames
<1> HIDE DEF EncoderIInv
<1> SUFFICES InOrder(All(got', output', mft'.outq, mft'.inq, pending', input'), next' - 1, lost')
  BY OrderIsNext DEF AllFrames
<1>7. ASSUME got' = g, output' = o, mft'.outq = q, mft'.inq = i, pending' = p, input' = n,
             next' = next, lost' = L
      PROVE  InOrder(All(got', output', mft'.outq, mft'.inq, pending', input'), next' - 1, lost')
  BY <1>4, <1>6, <1>7
<1>8. ASSUME All(got', output', mft'.outq, mft'.inq, pending', input') = All(g, o, q, i, p, n),
             next' = next, lost' = L
      PROVE  InOrder(All(got', output', mft'.outq, mft'.inq, pending', input'), next' - 1, lost')
  BY <1>4, <1>6, <1>8
<1>9. ASSUME EncodeRgb
      PROVE  InOrder(All(got', output', mft'.outq, mft'.inq, pending', input'), next' - 1, lost')
  <2>1. /\ got' = Cat(g, o) /\ output' = <<>> /\ mft'.outq = q /\ mft'.inq = i /\ pending' = p
        /\ input' = Append(n, m + 1) /\ lost' = L /\ next' = next + 1
    BY <1>2, <1>4, <1>5, <1>9 DEF EncodeRgb, Collect, Cat, workVars
  <2>2. next' - 1 = m + 1
    BY <1>4, <2>1
  <2>3. InOrder(All(Cat(g, o), <<>>, q, i, p, Append(n, m + 1)), m + 1, L)
    BY <1>6, OrderGrows
  <2> QED BY <2>1, <2>2, <2>3
<1>10. ASSUME DrainReturn
      PROVE  InOrder(All(got', output', mft'.outq, mft'.inq, pending', input'), next' - 1, lost')
  <2>1. /\ got' = Cat(g, o) /\ output' = <<>> /\ mft'.outq = q /\ mft'.inq = i /\ pending' = p
        /\ input' = n /\ lost' = L /\ next' = next
    BY <1>2, <1>4, <1>5, <1>10 DEF DrainReturn, Collect, Cat, workVars
  <2>2. All(Cat(g, o), <<>>, q, i, p, n) = All(g, o, q, i, p, n)
    BY <1>3
  <2> QED BY <1>8, <2>1, <2>2
<1>11. ASSUME Caller
       PROVE  InOrder(All(got', output', mft'.outq, mft'.inq, pending', input'), next' - 1, lost')
  <2>1. CASE TryNew
    BY <1>2, <1>5, <1>7, <2>1 DEF TryNew, chanVars, workVars
  <2>2. CASE ForceKeyframe
    BY <1>2, <1>5, <1>7, <2>2 DEF ForceKeyframe, workVars
  <2>3. CASE DrainCall
    BY <1>2, <1>5, <1>7, <2>3 DEF DrainCall, workVars
  <2>4. CASE GoOn
    BY <1>2, <1>5, <1>7, <2>4 DEF GoOn, chanVars, workVars
  <2>5. CASE Drop
    BY <1>2, <1>5, <1>7, <2>5 DEF Drop, workVars
  <2>6. CASE JoinThread
    BY <1>2, <1>5, <1>7, <2>6 DEF JoinThread, chanVars, workVars
  <2> QED BY <1>9, <1>10, <1>11, <2>1, <2>2, <2>3, <2>4, <2>5, <2>6 DEF Caller
<1>12. ASSUME Encode
       PROVE  InOrder(All(got', output', mft'.outq, mft'.inq, pending', input'), next' - 1, lost')
  <2>1. /\ i # <<>> /\ got' = g /\ output' = o /\ pending' = p /\ input' = n /\ lost' = L
        /\ next' = next
    BY <1>2, <1>5, <1>12 DEF Encode, CanEncode, callerVars, chanVars, workVars
  <2>2. mft'.outq = Append(q, Head(i)) /\ mft'.inq = Tail(i)
    BY <1>1, <1>2, <1>12 DEF Encode, Emit, Mft
  <2>3. All(g, o, Append(q, Head(i)), Tail(i), p, n) = All(g, o, q, i, p, n)
    BY <1>3, <2>1
  <2> QED BY <1>8, <2>1, <2>2, <2>3
<1>13. ASSUME Transform
       PROVE  InOrder(All(got', output', mft'.outq, mft'.inq, pending', input'), next' - 1, lost')
  <2>1. ASSUME AskInput \/ DrainDone \/ OtherEvent \/ Invoke
        PROVE  mft'.outq = q /\ mft'.inq = i
    BY <1>1, <1>2, <2>1 DEF AskInput, DrainDone, OtherEvent, Invoke, Emit, Mft
  <2>2. ASSUME AskInput \/ DrainDone \/ OtherEvent \/ Invoke
        PROVE  /\ got' = g /\ output' = o /\ pending' = p /\ input' = n /\ lost' = L
               /\ next' = next
    BY <1>2, <1>5, <2>2 DEF AskInput, DrainDone, OtherEvent, Invoke, callerVars, chanVars, workVars
  <2> QED BY <1>7, <1>12, <1>13, <2>1, <2>2 DEF Transform
<1>14. ASSUME Top
       PROVE  InOrder(All(got', output', mft'.outq, mft'.inq, pending', input'), next' - 1, lost')
  <2>1. got' = g /\ output' = o /\ pending' = p /\ input' = n /\ next' = next
    BY <1>2, <1>14 DEF Top, callerVars, chanVars
  <2>2. CASE Stops
    <3>1. /\ mft'.outq = <<>> /\ mft'.inq = <<>> /\ lost' = L \cup ToSet(i \o q)
      BY <1>1, <1>2, <1>5, <1>14, <2>2 DEF Top, Mft
    <3>2. InOrder(All(g, o, <<>>, <<>>, p, n), m, L \cup ToSet(i \o q))
      BY <1>6, OrderLosesTransform
    <3> QED BY <1>4, <2>1, <3>1, <3>2
  <2>3. CASE ~Stops
    BY <1>2, <1>5, <1>7, <1>14, <2>1, <2>3 DEF Top
  <2> QED BY <2>2, <2>3
<1>15. ASSUME OnEvent
       PROVE  InOrder(All(got', output', mft'.outq, mft'.inq, pending', input'), next' - 1, lost')
  <2>1. got' = g /\ pending' = p /\ input' = n /\ next' = next
    BY <1>2, <1>15 DEF OnEvent, callerVars
  <2>2. CASE UNCHANGED <<mft, output, lost>>
    BY <1>2, <1>5, <1>7, <2>1, <2>2
  <2>3. CASE /\ q # <<>> /\ mft'.outq = Tail(q) /\ mft'.inq = i
             /\ output' = Append(o, Head(q)) /\ lost' = L
    <3>1. All(g, Append(o, Head(q)), Tail(q), i, p, n) = All(g, o, q, i, p, n)
      BY <1>3, <2>3
    <3> QED BY <1>8, <2>1, <2>3, <3>1
  <2>4. CASE /\ q # <<>> /\ mft'.outq = Tail(q) /\ mft'.inq = i
             /\ output' = o /\ lost' = L \cup {Head(q)}
    <3>1. InOrder(All(g, o, Tail(q), i, p, n), m, L \cup {Head(q)})
      BY <1>6, <2>4, OrderLosesOutput
    <3> QED BY <1>4, <2>1, <2>4, <3>1
  <2>5. UNCHANGED <<mft, output, lost>> \/ ProcessOneOutput
    BY <1>15 DEF OnEvent
  <2>6. ASSUME ProcessOneOutput, mft.outq # <<>>
        PROVE  /\ q # <<>> /\ mft'.outq = Tail(q) /\ mft'.inq = i
               /\ \/ output' = Append(o, Head(q)) /\ lost' = L
                  \/ output' = o /\ lost' = L \cup {Head(q)}
    <3>1. mft' = [mft EXCEPT !.outq = Tail(@)]
      BY <2>6 DEF ProcessOneOutput
    <3>2. mft'.outq = Tail(q) /\ mft'.inq = i
      BY <1>1, <1>2, <3>1 DEF Mft
    <3>3. \/ output' = Append(o, Head(q)) /\ lost' = L
          \/ output' = o /\ lost' = L \cup {Head(q)}
      BY <1>2, <1>5, <2>6 DEF ProcessOneOutput
    <3> QED BY <1>2, <2>6, <3>2, <3>3
  <2>7. ASSUME ProcessOneOutput, mft.outq = <<>>
        PROVE  UNCHANGED <<mft, output, lost>>
    BY <2>7 DEF ProcessOneOutput
  <2> QED BY <2>2, <2>3, <2>4, <2>5, <2>6, <2>7
<1>16. ASSUME OnInput
       PROVE  InOrder(All(got', output', mft'.outq, mft'.inq, pending', input'), next' - 1, lost')
  <2>1. /\ n # <<>> /\ got' = g /\ output' = o /\ mft'.outq = q /\ mft'.inq = i /\ next' = next
        /\ input' = Tail(n) /\ pending' = Append(Queued(p), Head(n))
        /\ lost' = L \cup (ToSet(p) \ ToSet(Queued(p)))
    BY <1>2, <1>5, <1>16 DEF OnInput, callerVars
  <2>2. CASE Len(p) < MaxPending
    <3>1. Queued(p) = p
      BY <1>1, <1>2, <2>2, EncoderBounds DEF Queued
    <3>2. All(g, o, q, i, Append(p, Head(n)), Tail(n)) = All(g, o, q, i, p, n)
      BY <1>3, <2>1
    <3> QED BY <1>8, <2>1, <3>1, <3>2
  <2>3. CASE Len(p) >= MaxPending
    <3>1. p # <<>> /\ Queued(p) = Tail(p)
      BY <1>1, <1>2, <2>3, EncoderBounds DEF Queued
    <3>2. /\ InOrder(All(g, o, q, i, Tail(p), n), m, L \cup {Head(p)})
          /\ Head(p) \notin ToSet(Tail(p))
      BY <1>6, <3>1, OrderLosesPending
    <3>3. PICK t \in Way, h \in Nat : t = Tail(p) /\ h = Head(p) /\ p = Cat(One(h), t)
      BY <3>1, HeadAndTail
    <3>4. ToSet(p) = {h} \cup ToSet(t)
      <4>1. PICK u \in Way : u = One(h) /\ ToSet(u) = {h}
        BY OneFrame
      <4>2. ToSet(Cat(u, t)) = ToSet(u) \cup ToSet(t)
        BY CatSets
      <4> QED BY <3>3, <4>1, <4>2
    <3>5. ToSet(p) \ ToSet(Queued(p)) = {Head(p)}
      BY <3>1, <3>2, <3>3, <3>4
    <3>6. All(g, o, q, i, Append(t, Head(n)), Tail(n)) = All(g, o, q, i, t, n)
      <4>1. PICK a \in Way : a = Cat(Cat(Cat(g, o), q), i)
        BY AroundIt
      <4>2. Cat(Cat(a, Append(t, Head(n))), Tail(n)) = Cat(Cat(a, t), n)
        BY <2>1, MoveHeadOn
      <4> QED BY <4>1, <4>2 DEF All
    <3> QED BY <1>4, <2>1, <3>1, <3>2, <3>3, <3>5, <3>6
  <2> QED BY <1>1, <1>2, <2>2, <2>3, EncoderBounds
<1>17. ASSUME OnMatch
       PROVE  InOrder(All(got', output', mft'.outq, mft'.inq, pending', input'), next' - 1, lost')
  <2>1. /\ p # <<>> /\ got' = g /\ output' = o /\ next' = next /\ input' = n /\ pending' = Tail(p)
    BY <1>2, <1>17 DEF OnMatch, callerVars, chanVars
  <2>2. CASE Accept(Head(pending)) /\ UNCHANGED lost
    <3>1. mft'.outq = q /\ mft'.inq = Append(i, Head(p)) /\ lost' = L
      BY <1>1, <1>2, <1>5, <2>2 DEF Accept, Mft
    <3>2. All(g, o, q, Append(i, Head(p)), Tail(p), n) = All(g, o, q, i, p, n)
      BY <1>3, <2>1
    <3> QED BY <1>8, <2>1, <3>1, <3>2
  <2>3. CASE UNCHANGED mft /\ lost' = lost \cup {Head(pending)}
    <3>1. InOrder(All(g, o, q, i, Tail(p), n), m, L \cup {Head(p)})
      BY <1>6, <2>1, OrderLosesPending
    <3> QED BY <1>2, <1>4, <1>5, <2>1, <2>3, <3>1
  <2> QED BY <1>17, <2>2, <2>3 DEF OnMatch
<1>18. ASSUME Worker
       PROVE  InOrder(All(got', output', mft'.outq, mft'.inq, pending', input'), next' - 1, lost')
  <2>1. ASSUME Setup \/ OnCommand \/ NextLoop
        PROVE  /\ got' = g /\ output' = o /\ pending' = p /\ input' = n /\ next' = next /\ lost' = L
    BY <1>2, <1>5, <2>1 DEF Setup, OnCommand, NextLoop, callerVars, chanVars
  <2>2. ASSUME Setup PROVE mft'.outq = q /\ mft'.inq = i
    BY <1>1, <1>2, <2>2 DEF Setup, Mft
  <2>3. ASSUME OnCommand PROVE mft'.outq = q /\ mft'.inq = i
    BY <1>1, <1>2, <2>3 DEF OnCommand, CommandDrain, Mft
  <2>4. ASSUME NextLoop PROVE mft'.outq = q /\ mft'.inq = i
    BY <1>2, <2>4 DEF NextLoop
  <2> QED BY <1>7, <1>14, <1>15, <1>16, <1>17, <1>18, <2>1, <2>2, <2>3, <2>4 DEF Worker
<1> QED BY <1>11, <1>13, <1>18 DEF EncoderNext

-----------------------------------------------------------------------------
(* The invariant holds.                                                      *)

\* The empty queue.
LEMMA NothingIsTyped == \A S : <<>> \in Seq(S) /\ Len(<<>>) = 0
OBVIOUS

\* The invariant holds at first.
LEMMA EncoderStarts == EncoderInit => EncoderIInv
<1> SUFFICES ASSUME EncoderInit PROVE EncoderIInv
  OBVIOUS
<1>1. EncoderTypes
  <2>0. /\ 1 \in 1 .. NFrames + 1 /\ 0 \in 0 .. MaxCommands /\ 0 \in 0 .. MaxFailures
        /\ 0 <= MaxPending
    BY EncoderBounds
  <2>1. CallerTypes /\ ChanTypes
    <3>1. CallerTypes
      BY <2>0 DEF EncoderInit, CallerTypes
    <3>2. <<>> \in Seq(-(NFrames + 1) .. MaxCommands) /\ <<>> \in Seq(Frames)
      BY NothingIsTyped, Zenon
    <3>3. /\ input = <<>> /\ output = <<>> /\ cmd = <<>> /\ acked = {} /\ shutdown = FALSE
      BY DEF EncoderInit
    <3>4. ChanTypes
      BY <3>2, <3>3, Zenon DEF ChanTypes
    <3> QED BY <3>1, <3>4
  <2>2. WorkTypes /\ EventTypes /\ LossTypes
    <3>1. WorkTypes
      BY <2>0 DEF EncoderInit, WorkTypes, Steps, NoDrain
    <3>2. EventTypes
      <4>1. events = <<>> /\ armed = FALSE /\ unheard = FALSE /\ unarmed = FALSE
        BY DEF EncoderInit
      <4>2. events \in Seq(Kinds \ {"Other"}) /\ Len(events) <= 1
        BY <4>1, NothingIsTyped
      <4> QED BY <4>1, <4>2 DEF EventTypes
    <3> QED BY <2>0, <3>1, <3>2 DEF EncoderInit, LossTypes
  <2>3. mft \in Mft
    BY EncoderBounds DEF EncoderInit, Mft
  <2> QED BY <2>1, <2>2, <2>3, TypesByGroup
<1>2. CreditBalance
  BY DEF EncoderInit, CreditBalance
<1>3. PhaseFollowsWorker
  BY DEF EncoderInit, PhaseFollowsWorker
<1>4. DrainIsLast
  BY DEF EncoderInit, DrainIsLast
<1>5. AckedIsDrained
  BY DEF EncoderInit, AckedIsDrained
<1>6. FramesInOrder /\ lost \subseteq 1 .. next - 1
  <2>1. AllFrames = <<>>
    <3>1. Cat(<<>>, <<>>) = <<>>
      BY CatEmpty
    <3> QED BY <3>1 DEF AllFrames, All, EncoderInit
  <2>2. ToSet(<<>>) = {} /\ Ascends(<<>>)
    <3>1. DOMAIN <<>> = {}
      OBVIOUS
    <3> QED BY <3>1 DEF ToSet, Ascends
  <2>3. lost = {} /\ next - 1 = 0 /\ 1 .. 0 = {}
    BY DEF EncoderInit
  <2>4. InOrder(AllFrames, next - 1, lost)
    BY <2>1, <2>2, <2>3 DEF InOrder
  <2> QED BY <2>4, OrderIs
<1> QED BY <1>1, <1>2, <1>3, <1>4, <1>5, <1>6 DEF EncoderIInv

\* Every step keeps the types.
LEMMA TypesStep == ASSUME EncoderIInv, EncoderNext PROVE EncoderTypes'
<1>1. EncoderTypes /\ PhaseFollowsWorker
  BY DEF EncoderIInv
<1> QED BY <1>1, CallerTypesStep, TransformTypesStep, WorkerTypesStep DEF EncoderNext

\* Every step keeps the balance of the credits.
LEMMA BalanceStep == ASSUME EncoderIInv, EncoderNext PROVE CreditBalance'
<1>1. CASE Caller
  <2>1. CreditBalance
    BY DEF EncoderIInv
  <2>2. UNCHANGED <<mft, events, needs, leaked>>
    BY <1>1 DEF Caller, TryNew, EncodeRgb, ForceKeyframe, DrainCall, DrainReturn, GoOn, Drop,
                JoinThread, workVars, eventVars
  <2> QED BY <2>1, <2>2, BalanceKept
<1> QED BY <1>1, TransformBalance, WorkerBalance DEF EncoderNext

\* What does not change keeps the invariant.
LEMMA EncoderStutters == ASSUME EncoderIInv, UNCHANGED encoderVars PROVE EncoderIInv'
<1>1. UNCHANGED <<callerVars, chanVars, workVars, eventVars, mft, lost, leaked, failures>>
  BY DEF encoderVars
<1>2. EncoderTypes'
  <2>1. CallerTypes /\ ChanTypes /\ WorkTypes /\ EventTypes /\ mft \in Mft /\ LossTypes
    BY TypesByGroup DEF EncoderIInv
  <2>2. CallerTypes' /\ ChanTypes' /\ WorkTypes' /\ EventTypes' /\ mft' \in Mft /\ LossTypes'
    BY <1>1, <2>1, TypesKept
  <2> QED BY <2>2, TypesByGroupNext
<1>3. CreditBalance'
  <2>1. CreditBalance /\ UNCHANGED <<mft, events, needs, leaked>>
    BY <1>1 DEF EncoderIInv, workVars, eventVars
  <2> QED BY <2>1, BalanceKept
<1>4. PhaseFollowsWorker'
  BY <1>1 DEF EncoderIInv, PhaseFollowsWorker, workVars, eventVars, chanVars
<1>5. DrainIsLast'
  BY <1>1 DEF EncoderIInv, DrainIsLast, Quiet, eventVars
<1>6. AckedIsDrained'
  BY <1>1 DEF EncoderIInv, AckedIsDrained, Quiet, callerVars, chanVars
<1>7. FramesInOrder' /\ lost' \subseteq 1 .. next' - 1
  <2>1. /\ got' = got /\ output' = output /\ mft' = mft /\ pending' = pending /\ input' = input
        /\ next' = next /\ lost' = lost
    BY <1>1 DEF callerVars, chanVars, workVars
  <2>2. InOrder(AllFrames, next - 1, lost)
    BY OrderIs DEF EncoderIInv
  <2>3. InOrder(AllFrames', next' - 1, lost')
    BY <2>1, <2>2 DEF AllFrames
  <2> QED BY <2>3, OrderIsNext
<1> QED BY <1>2, <1>3, <1>4, <1>5, <1>6, <1>7 DEF EncoderIInv

\* In every reachable state the encoder is in a state of its invariant: the credits are
\* balanced, the phase of the transform follows the worker, a drain comes last, an ack
\* says that all is out, and the frames are in order.
THEOREM EncoderIInvHolds == EncoderSpec => []EncoderIInv
<1>1. EncoderIInv /\ [EncoderNext]_encoderVars => EncoderIInv'
  <2> SUFFICES ASSUME EncoderIInv, [EncoderNext]_encoderVars PROVE EncoderIInv'
    OBVIOUS
  <2>1. CASE EncoderNext
    BY <2>1, TypesStep, BalanceStep, PhaseStep, DrainStep, AckStep, OrderStep DEF EncoderIInv
  <2>2. CASE UNCHANGED encoderVars
    BY <2>2, EncoderStutters
  <2> QED BY <2>1, <2>2
<1> QED BY <1>1, EncoderStarts, PTL DEF EncoderSpec

\* The worker's queue and the pump keep their limits, and no credit is lost or made
\* (worker_loop), for every depth and lag of the transform, however many frames, commands
\* and failures.
THEOREM EncoderInvHolds == EncoderSpec => []EncoderInv
<1>1. EncoderIInv => EncoderInv
  BY DEF EncoderIInv, EncoderTypes, EncoderInv
<1> QED BY <1>1, EncoderIInvHolds, PTL

\* Frames that went in come out once and in order (encode_rgb, worker_loop,
\* process_one_output), whatever is dropped, refused or fails.
THEOREM FramesInOrderHolds == EncoderSpec => []FramesInOrder
<1>1. EncoderIInv => FramesInOrder
  BY DEF EncoderIInv
<1> QED BY <1>1, EncoderIInvHolds, PTL

\* A drain that returns in time, and whose command did not fail, has brought back every
\* frame the transform took (drain, WorkerCmd::Drain).
THEOREM DrainReturnsAcceptedHolds == EncoderSpec => []DrainReturnsAccepted
<1>1. EncoderIInv => DrainReturnsAccepted
  BY DEF EncoderIInv, AckedIsDrained, Quiet, DrainReturnsAccepted
<1> QED BY <1>1, EncoderIInvHolds, PTL

-----------------------------------------------------------------------------
(* A share of screen or sound (MediaShare).                                  *)

Formats == {"coded", "plain"}
Encoder == [kind : {NoEncoder, "openh264", "sync", "async"}, held : Seq(Nat), count : Nat]
CapturedFrame == [codec : Formats, pay : Seq(Nat)]
Message == [k : {"Start", "Frame", "Stop"}, s : Calls, codec : Formats \cup {None},
            pay : Seq(Nat)]
Receiver == [codec : Formats \cup {None}, stream : Calls \cup {NoCall}, pos : [Calls -> Nat]]

\* Types, by group of variables.
StageTypes == /\ medium \in Media /\ machine \in Machines
              /\ call \in [Calls -> {"idle", "init", "store", "done", "failed"}]
              /\ init \in [Calls -> {None, "ok", "err"}]
              /\ cap \in [Calls -> {"off", "select", "begin", "run", "end", "mute"}]
              /\ codec \in [Calls -> Formats \cup {None}]
              /\ bridge \in [Calls -> {"off", "run", "done"}]
              /\ fan \in [Calls -> {"off", "run", "done"}]
OtherTypes == /\ handle \in Calls \cup {NoCall} /\ sessions \subseteq Peers
              /\ garbled \subseteq Peers /\ spoiled \in BOOLEAN /\ faults \in 0 .. MaxFaults
FrameTypes == /\ enc \in [Calls -> Encoder] /\ made \in [Calls -> Nat]
              /\ frames \in [Calls -> Seq(CapturedFrame)]
              /\ \A c \in Calls : made[c] <= MaxFrames[c] /\ Len(frames[c]) <= made[c]
ChannelTypes == /\ chan \in [Calls -> Seq(Message)] /\ link \in [Peers -> Seq(Message)]
                /\ \A c \in Calls : Len(chan[c]) <= ChanCap
                /\ \A p \in Peers : Len(link[p]) <= LinkCap
ShareTypes == StageTypes /\ OtherTypes /\ FrameTypes /\ ChannelTypes /\ rx \in [Peers -> Receiver]

\* The capture thread has reported before the command goes on, and the bridge runs once it
\* has.
StagesFollow ==
  \A c \in Calls : /\ call[c] = "idle" => init[c] = None /\ cap[c] = "off"
                   /\ init[c] = "ok" => cap[c] \notin {"off", "select"}
                   /\ bridge[c] # "off" => init[c] = "ok" /\ call[c] \in {"store", "done"}
                   /\ cap[c] \in {"off", "select"} => frames[c] = <<>>

\* A message is of a stream whose codec is settled, and says that codec, unless the machine
\* changed or a frame could not be coded.
Faithful(m) ==
  /\ bridge[m.s] # "off"
  /\ m.k = "Start" => m.codec = codec[m.s]
  /\ m.k = "Frame" /\ ~spoiled => m.codec = codec[m.s]
MessagesFaithful ==
  /\ \A c \in Calls : \A m \in ToSet(chan[c]) : m.s = c /\ Faithful(m)
  /\ \A p \in Peers : \A m \in ToSet(link[p]) : Faithful(m)

\* What the capture thread makes is what it announced, as long as the machine stays.
CaptureFaithful ==
  medium = "video" /\ ~spoiled =>
    \A c \in Calls :
      /\ cap[c] = "begin" => codec[c] = Announced(Backend, machine)
      /\ cap[c] = "run" => codec[c] = IF enc[c].kind = NoEncoder THEN "plain" ELSE "coded"
      /\ \A f \in ToSet(frames[c]) : f.codec = codec[c]

\* A peer knows the codec of the stream it follows.
PeersFollow ==
  \A p \in Peers : LET c == rx[p].stream
                   IN  c # NoCall => bridge[c] # "off" /\ rx[p].codec = codec[c]

ShareInv ==
  ShareTypes /\ StagesFollow /\ MessagesFaithful /\ CaptureFaithful /\ PeersFollow


-----------------------------------------------------------------------------
(* The types of a share.                                                     *)

\* The bounds are natural numbers, and the channels hold a message at least.
LEMMA ShareBounds ==
  /\ ChanCap \in Nat /\ ChanCap >= 1 /\ LinkCap \in Nat /\ LinkCap >= 1
  /\ KeyEvery \in Nat /\ KeyEvery >= 1 /\ NCalls \in Nat /\ Hold \in Nat /\ MaxFaults \in Nat
  /\ MaxFrames \in [Calls -> Nat] /\ Slow \subseteq Peers /\ Machines # {}
  /\ Calls \subseteq Nat /\ NoCall \notin Calls
BY MediaAssumption DEF Calls, NoCall

\* An encoder is one of the kinds there are, a codec one of the two.
LEMMA ChoiceTypes ==
  /\ \A k, m : Chosen(Backend, k, m) \in {NoEncoder, "openh264", "sync", "async"}
  /\ \A m : Announced(Backend, m) \in Formats
BY DEF Chosen, Announced, Cisco, NewBest, Formats, NoEncoder

\* The messages of the model are messages.
LEMMA MessageTypes ==
  /\ \A c \in Calls, k \in Formats \cup {None} : StartMsg(c, k) \in Message
  /\ \A c \in Calls, f \in CapturedFrame : FrameMsg(c, f) \in Message
  /\ \A c \in Calls : StopMsg(c) \in Message
<1>1. <<>> \in Seq(Nat)
  OBVIOUS
<1>2. \A c \in Calls, k \in Formats \cup {None} : StartMsg(c, k) \in Message
  BY <1>1 DEF StartMsg, Message, Formats
<1>3. \A c \in Calls, f \in CapturedFrame : FrameMsg(c, f) \in Message
  BY DEF FrameMsg, Message, CapturedFrame, Formats
<1>4. \A c \in Calls : StopMsg(c) \in Message
  BY <1>1 DEF StopMsg, Message, Formats
<1> QED BY <1>2, <1>3, <1>4

\* A step of a share is a step of one of its actions.
LEMMA ShareActions ==
  ASSUME [Next]_vars
  PROVE  \/ \E c \in Calls : StartShare(c) \/ InitResult(c) \/ Store(c)
         \/ \E c \in Calls : SelectMonitor(c) \/ SelectDevice(c) \/ NewHandler(c)
                               \/ BuildStream(c)
         \/ \E c \in Calls : OnFrameArrived(c) \/ FlushFrames(c) \/ CaptureEnds(c)
                               \/ SourceGone(c)
         \/ \E c \in Calls : VideoBridge(c) \/ AudioBridge(c) \/ BridgeEnds(c) \/ FanOut(c)
                               \/ FanEnds(c)
         \/ \E p \in Peers : Join(p) \/ Take(p)
         \/ StopShare \/ MachineChanges \/ UNCHANGED vars
BY DEF Next, Stream

\* The stages have their types after each step.
LEMMA StageTypesStep == ASSUME ShareTypes, [Next]_vars PROVE StageTypes'
<1> USE DEF ShareTypes, StageTypes
<1>1. ASSUME NEW c \in Calls, StartShare(c) PROVE StageTypes'
  BY <1>1 DEF StartShare, pipeVars
<1>2. ASSUME NEW c \in Calls, InitResult(c) PROVE StageTypes'
  <2>1. /\ UNCHANGED <<medium, machine, init, cap, fan>>
        /\ \E r \in {"store", "failed"} : call' = [call EXCEPT ![c] = r]
        /\ codec' = codec \/ \E k \in Codecs(c) : codec' = [codec EXCEPT ![c] = k]
        /\ bridge' = bridge \/ bridge' = [bridge EXCEPT ![c] = "run"]
    BY <1>2 DEF InitResult
  <2>2. Codecs(c) \subseteq Formats \cup {None}
    BY DEF Codecs, AudioCodecs, Formats
  <2> QED BY <2>1, <2>2
<1>3. ASSUME NEW c \in Calls, Store(c) PROVE StageTypes'
  BY <1>3 DEF Store, captureVars
<1>4. ASSUME NEW c \in Calls, SelectMonitor(c) PROVE StageTypes'
  <2>1. Announced(Backend, machine) \in Formats
    BY ChoiceTypes
  <2> QED BY <1>4, <2>1 DEF SelectMonitor, Report, pipeVars
<1>5. ASSUME NEW c \in Calls, SelectDevice(c) PROVE StageTypes'
  BY <1>5 DEF SelectDevice, Report, pipeVars
<1>6. ASSUME NEW c \in Calls, NewHandler(c) PROVE StageTypes'
  BY <1>6 DEF NewHandler, pipeVars
<1>7. ASSUME NEW c \in Calls, BuildStream(c) PROVE StageTypes'
  BY <1>7 DEF BuildStream, pipeVars
<1>8. ASSUME NEW c \in Calls, OnFrameArrived(c) \/ FlushFrames(c) PROVE StageTypes'
  BY <1>8 DEF OnFrameArrived, FlushFrames, pipeVars
<1>9. ASSUME NEW c \in Calls, CaptureEnds(c) \/ SourceGone(c) PROVE StageTypes'
  BY <1>9 DEF CaptureEnds, SourceGone, pipeVars
<1>10. ASSUME NEW c \in Calls, VideoBridge(c) \/ AudioBridge(c) PROVE StageTypes'
  BY <1>10 DEF VideoBridge, AudioBridge, Pass
<1>11. ASSUME NEW c \in Calls, BridgeEnds(c) PROVE StageTypes'
  BY <1>11 DEF BridgeEnds, captureVars
<1>12. ASSUME NEW c \in Calls, FanOut(c) \/ FanEnds(c) PROVE StageTypes'
  BY <1>12 DEF FanOut, FanEnds, captureVars
<1>13. ASSUME NEW p \in Peers, Join(p) \/ Take(p) PROVE StageTypes'
  BY <1>13 DEF Join, Take, captureVars, pipeVars
<1>14. ASSUME StopShare \/ MachineChanges \/ UNCHANGED vars PROVE StageTypes'
  BY <1>14 DEF StopShare, MachineChanges, vars, captureVars, pipeVars
<1> QED BY <1>1, <1>2, <1>3, <1>4, <1>5, <1>6, <1>7, <1>8, <1>9, <1>10, <1>11, <1>12, <1>13,
           <1>14, ShareActions

\* What is left of the scalars has its types after each step.
LEMMA OtherTypesStep == ASSUME ShareTypes, [Next]_vars PROVE OtherTypes'
<1> USE DEF ShareTypes, OtherTypes, Fault
<1>0. MaxFaults \in Nat
  BY ShareBounds
<1>1. ASSUME NEW c \in Calls, StartShare(c) \/ InitResult(c) \/ Store(c) PROVE OtherTypes'
  BY <1>0, <1>1 DEF StartShare, InitResult, Store, peerVars
<1>2. ASSUME NEW c \in Calls, SelectMonitor(c) \/ SelectDevice(c) \/ NewHandler(c) \/ BuildStream(c)
      PROVE  OtherTypes'
  BY <1>0, <1>2 DEF SelectMonitor, SelectDevice, NewHandler, BuildStream, peerVars
<1>3. ASSUME NEW c \in Calls,
             OnFrameArrived(c) \/ FlushFrames(c) \/ CaptureEnds(c) \/ SourceGone(c)
      PROVE  OtherTypes'
  <2>1. UNCHANGED <<handle, peerVars, spoiled>>
    BY <1>3 DEF OnFrameArrived, FlushFrames, CaptureEnds, SourceGone
  <2>2. UNCHANGED faults \/ Fault
    <3>1. CASE OnFrameArrived(c)
      BY <3>1 DEF OnFrameArrived
    <3> QED BY <1>3, <3>1 DEF FlushFrames, CaptureEnds, SourceGone
  <2> QED BY <1>0, <2>1, <2>2 DEF peerVars
<1>4. ASSUME NEW c \in Calls, VideoBridge(c) \/ AudioBridge(c) PROVE OtherTypes'
  <2>1. ASSUME NEW f, Pass(c, f) PROVE UNCHANGED <<handle, sessions, garbled>>
    BY <2>1 DEF Pass, peerVars
  <2>2. CASE VideoBridge(c)
    BY <2>1, <2>2 DEF VideoBridge
  <2>3. CASE AudioBridge(c)
    <3>1. UNCHANGED <<handle, sessions, garbled>>
      BY <2>1, <2>3 DEF AudioBridge
    <3>2. \/ UNCHANGED <<spoiled, faults>>
          \/ faults < MaxFaults /\ faults' = faults + 1 /\ spoiled' = TRUE
      BY <2>3 DEF AudioBridge
    <3>3. CASE UNCHANGED <<spoiled, faults>>
      BY <3>1, <3>3
    <3>4. CASE faults < MaxFaults /\ faults' = faults + 1 /\ spoiled' = TRUE
      <4>1. faults' \in 0 .. MaxFaults
        BY <1>0, <3>4
      <4>2. spoiled' \in BOOLEAN
        BY <3>4
      <4> QED BY <3>1, <4>1, <4>2
    <3> QED BY <3>2, <3>3, <3>4
  <2> QED BY <1>4, <2>2, <2>3
<1>5. ASSUME NEW c \in Calls, BridgeEnds(c) \/ FanOut(c) \/ FanEnds(c) PROVE OtherTypes'
  BY <1>5 DEF BridgeEnds, FanOut, FanEnds, peerVars
<1>6. ASSUME NEW p \in Peers, Join(p) PROVE OtherTypes'
  BY <1>6 DEF Join
<1>7. ASSUME NEW p \in Peers, Take(p) PROVE OtherTypes'
  <2>1. /\ UNCHANGED <<handle, sessions, spoiled, faults>>
        /\ garbled' \subseteq garbled \cup {p}
    BY <1>7 DEF Take
  <2> QED BY <2>1
<1>8. ASSUME StopShare \/ MachineChanges \/ UNCHANGED vars PROVE OtherTypes'
  <2>1. CASE StopShare
    BY <2>1 DEF StopShare, peerVars
  <2>2. CASE MachineChanges
    BY <1>0, <2>2 DEF MachineChanges, peerVars
  <2>3. CASE UNCHANGED vars
    BY <2>3 DEF vars, peerVars
  <2> QED BY <1>8, <2>1, <2>2, <2>3
<1> QED BY <1>1, <1>2, <1>3, <1>4, <1>5, <1>6, <1>7, <1>8, ShareActions

\* The frames an encoder gives back are the first of those it has.
LEMMA OutputsBound ==
  ASSUME NEW all \in Seq(Nat), NEW kind \in {"openh264", "sync", "async"}
  PROVE  Outputs(kind, all) \subseteq 0 .. Len(all)
<1>1. Hold \in Nat /\ Len(all) \in Nat
  BY ShareBounds
<1>2. AllOut(all) \subseteq 0 .. Len(all) /\ SyncOut(all) \subseteq 0 .. Len(all)
      /\ AsyncOut(all) \subseteq 0 .. Len(all)
  BY <1>1 DEF AllOut, Ready, SyncOut, AsyncOut
<1> QED BY <1>2 DEF Outputs

\* The beginning and the rest of a sequence of numbers.
LEMMA CutInTwo ==
  ASSUME NEW all \in Seq(Nat), NEW n \in 0 .. Len(all)
  PROVE  /\ SubSeq(all, 1, n) \in Seq(Nat) /\ SubSeq(all, n + 1, Len(all)) \in Seq(Nat)
         /\ Len(SubSeq(all, 1, n)) = n
         /\ \A i \in 1 .. n : SubSeq(all, 1, n)[i] = all[i]
         /\ Len(SubSeq(all, n + 1, Len(all))) = Len(all) - n
         /\ \A i \in 1 .. Len(all) - n : SubSeq(all, n + 1, Len(all))[i] = all[n + i]
<1>1. Len(all) \in Nat /\ n \in Nat /\ n <= Len(all) /\ \A i \in 1 .. Len(all) : all[i] \in Nat
  OBVIOUS
<1>2. /\ SubSeq(all, 1, n) \in Seq(Nat)
      /\ Len(SubSeq(all, 1, n)) = IF 1 <= n THEN n - 1 + 1 ELSE 0
      /\ \A i \in 1 .. n - 1 + 1 : SubSeq(all, 1, n)[i] = all[1 + i - 1]
  BY <1>1, SubSeqProperties
<1>3. /\ SubSeq(all, n + 1, Len(all)) \in Seq(Nat)
      /\ Len(SubSeq(all, n + 1, Len(all))) = IF n + 1 <= Len(all) THEN Len(all) - (n + 1) + 1 ELSE 0
      /\ \A i \in 1 .. Len(all) - (n + 1) + 1 : SubSeq(all, n + 1, Len(all))[i] = all[n + 1 + i - 1]
  BY <1>1, SubSeqProperties
<1>4. n - 1 + 1 = n /\ Len(all) - (n + 1) + 1 = Len(all) - n
  BY <1>1
<1>5. \A i \in 1 .. n : 1 + i - 1 = i
  OBVIOUS
<1>6. \A i \in 1 .. Len(all) - n : n + 1 + i - 1 = n + i
  BY <1>1
<1>7. Len(SubSeq(all, 1, n)) = n /\ Len(SubSeq(all, n + 1, Len(all))) = Len(all) - n
  BY <1>1, <1>2, <1>3
<1>8. \A i \in 1 .. n : SubSeq(all, 1, n)[i] = all[i]
  BY <1>2, <1>4, <1>5
<1>9. \A i \in 1 .. Len(all) - n : SubSeq(all, n + 1, Len(all))[i] = all[n + i]
  BY <1>3, <1>4, <1>6
<1> QED BY <1>2, <1>3, <1>7, <1>8, <1>9

\* What OnFrameArrived does to the encoder and the frames: a JPEG or none, what the transform
\* gives of the h it had and the frame, nothing, or nothing of what it gave.
GivesJpeg(c) ==
  /\ enc[c].kind = NoEncoder /\ enc' = enc
  /\ frames' = [frames EXCEPT ![c] =
                 Append(frames[c], [codec |-> "plain", pay |-> <<made[c] + 1>>])]
GivesCoded(c, h, n) ==
  LET all == Append(h, made[c] + 1)
  IN  /\ enc[c].kind # NoEncoder /\ n \in 0 .. Len(all)
      /\ frames' = [frames EXCEPT ![c] =
                     Append(frames[c], [codec |-> "coded", pay |-> SubSeq(all, 1, n)])]
      /\ enc' = [enc EXCEPT ![c] =
                  [kind |-> enc[c].kind, held |-> SubSeq(all, n + 1, Len(all)),
                   count |-> enc[c].count + 1]]
GivesNothing(c, h) ==
  /\ frames' = frames
  /\ enc' = [enc EXCEPT ![c] =
              [kind |-> enc[c].kind, held |-> h, count |-> enc[c].count + 1]]
NoJpeg == enc' = enc /\ frames' = frames
GaveInVain(c, h, n) ==
  LET all == Append(h, made[c] + 1)
  IN  enc[c].kind # NoEncoder /\ n \in 0 .. Len(all)
      /\ GivesNothing(c, SubSeq(all, n + 1, Len(all)))

\* These are all it can do.
LEMMA FrameArrives ==
  ASSUME ShareTypes, NEW c \in Calls, OnFrameArrived(c)
  PROVE  /\ medium = "video" /\ cap[c] = "run" /\ made' = [made EXCEPT ![c] = made[c] + 1]
         /\ made[c] + 1 <= MaxFrames[c] /\ made[c] \in Nat
         /\ \/ GivesJpeg(c) \/ NoJpeg
            \/ \E h \in {<<>>, enc[c].held} :
                 \/ \E n : GivesCoded(c, h, n) \/ GaveInVain(c, h, n)
                 \/ GivesNothing(c, h)
<1> DEFINE ToEncoder(h, k) == [enc EXCEPT ![c] = [kind |-> enc[c].kind, held |-> h, count |-> k]]
<1>1. /\ medium = "video" /\ cap[c] = "run" /\ made[c] < MaxFrames[c]
      /\ made' = [made EXCEPT ![c] = made[c] + 1]
  BY DEF OnFrameArrived, Captured
<1>2. made[c] \in Nat /\ MaxFrames[c] \in Nat /\ made'[c] = made[c] + 1
  BY <1>1, ShareBounds DEF ShareTypes, FrameTypes
<1>3. made[c] + 1 <= MaxFrames[c] /\ made[c] + 1 \in Nat
  BY <1>1, <1>2
<1>4. enc \in [Calls -> Encoder] /\ enc[c] \in Encoder /\ enc[c].held \in Seq(Nat)
  BY DEF ShareTypes, FrameTypes, Encoder
<1>5. Held(c) \in {<<>>, enc[c].held} /\ Held(c) \in Seq(Nat)
  BY <1>4 DEF Held
<1>6. \A h : [enc EXCEPT ![c].held = h, ![c].count = @ + 1] = ToEncoder(h, enc[c].count + 1)
  <2> SUFFICES ASSUME NEW h
               PROVE  [enc EXCEPT ![c].held = h, ![c].count = @ + 1]
                        = ToEncoder(h, enc[c].count + 1)
    OBVIOUS
  <2>1. PICK e \in Encoder : e = enc[c]
    BY <1>4
  <2>2. PICK k, g, n : e = [kind |-> k, held |-> g, count |-> n]
    BY DEF Encoder
  <2>4. [e EXCEPT !.held = h] = [kind |-> k, held |-> h, count |-> n]
    BY <2>2
  <2>5. [[e EXCEPT !.held = h] EXCEPT !.count = @ + 1] = [kind |-> k, held |-> h, count |-> n + 1]
    <3>1. PICK r : r = [kind |-> k, held |-> h, count |-> n]
      OBVIOUS
    <3>2. PICK m : m = n + 1
      OBVIOUS
    <3>3. [r EXCEPT !.count = @ + 1] = [r EXCEPT !.count = m]
      BY <3>1, <3>2
    <3>4. [r EXCEPT !.count = m] = [kind |-> k, held |-> h, count |-> m]
      BY <3>1
    <3> QED BY <2>4, <3>1, <3>2, <3>3, <3>4
  <2>3. [enc EXCEPT ![c].held = h, ![c].count = @ + 1]
          = [enc EXCEPT ![c] = [[e EXCEPT !.held = h] EXCEPT !.count = @ + 1]]
    BY <1>4, <2>1
  <2> QED BY <2>1, <2>2, <2>3, <2>5
<1>7. CASE enc[c].kind = NoEncoder
  <2>0. Codes(c)
    BY <1>7 DEF Codes
  <2>1. CASE Keep(c, [codec |-> "plain", pay |-> <<made'[c]>>]) /\ enc' = enc
    <3>1. Keep(c, [codec |-> "plain", pay |-> <<made[c] + 1>>]) /\ enc' = enc
      BY <1>2, <2>1
    <3> QED BY <1>1, <1>2, <1>3, <1>7, <3>1 DEF Keep, GivesJpeg
  <2>2. CASE NoJpeg
    BY <1>1, <1>2, <1>3, <2>2
  <2> QED BY <1>7, <2>0, <2>1, <2>2 DEF OnFrameArrived, NoJpeg
<1>8. CASE enc[c].kind # NoEncoder
  <2>0. Append(Held(c), made[c] + 1) \in Seq(Nat)
    BY <1>3, <1>5, AppendProperties
  <2>1. PICK all \in Seq(Nat) : all = Append(Held(c), made[c] + 1)
    BY <2>0
  <2>2. enc[c].kind \in {"openh264", "sync", "async"}
    BY <1>4, <1>8 DEF Encoder
  <2>3. /\ made'[c] = made[c] + 1
        /\ \A held : EncoderKeeps(c, held) => enc' = ToEncoder(held, enc[c].count + 1)
    BY <1>2, <1>6 DEF EncoderKeeps
  <2>4. ASSUME NEW n \in Outputs(enc[c].kind, all),
               Keep(c, [codec |-> "coded", pay |-> SubSeq(all, 1, n)]),
               EncoderKeeps(c, SubSeq(all, n + 1, Len(all)))
        PROVE  GivesCoded(c, Held(c), n)
    <3>1. n \in 0 .. Len(all)
      BY <2>2, OutputsBound
    <3>2. enc' = ToEncoder(SubSeq(all, n + 1, Len(all)), enc[c].count + 1)
      BY <2>3, <2>4
    <3>3. frames' = [frames EXCEPT ![c] =
                       Append(frames[c], [codec |-> "coded", pay |-> SubSeq(all, 1, n)])]
      BY <2>4 DEF Keep
    <3> QED BY <1>8, <2>1, <3>1, <3>2, <3>3 DEF GivesCoded
  <2>5. ASSUME frames' = frames, EncoderKeeps(c, Held(c)) PROVE GivesNothing(c, Held(c))
    <3>1. enc' = ToEncoder(Held(c), enc[c].count + 1)
      BY <2>3, <2>5
    <3> QED BY <2>5, <3>1 DEF GivesNothing
  <2>6. ASSUME frames' = frames, NEW n \in 0 .. Ready(all),
               EncoderKeeps(c, SubSeq(all, n + 1, Len(all)))
        PROVE  GaveInVain(c, Held(c), n)
    <3>1. n \in 0 .. Len(all)
      BY ShareBounds DEF Ready
    <3>2. enc' = ToEncoder(SubSeq(all, n + 1, Len(all)), enc[c].count + 1)
      BY <2>3, <2>6
    <3>3. GivesNothing(c, SubSeq(all, n + 1, Len(all)))
      BY <2>6, <3>2 DEF GivesNothing
    <3> QED BY <1>8, <2>1, <3>1, <3>3 DEF GaveInVain
  <2>7. \/ \E n \in Outputs(enc[c].kind, all) :
             /\ Keep(c, [codec |-> "coded", pay |-> SubSeq(all, 1, n)])
             /\ EncoderKeeps(c, SubSeq(all, n + 1, Len(all)))
        \/ frames' = frames /\ \E held \in AfterError(c, all) : EncoderKeeps(c, held)
        \/ frames' = frames /\ EncoderKeeps(c, Held(c))
    BY <1>8, <2>1, <2>3 DEF OnFrameArrived
  <2>8. (\E n : GivesCoded(c, Held(c), n) \/ GaveInVain(c, Held(c), n))
        \/ GivesNothing(c, Held(c))
    BY <2>4, <2>5, <2>6, <2>7 DEF AfterError
  <2> QED BY <1>1, <1>2, <1>3, <1>5, <2>8
<1> QED BY <1>7, <1>8

\* What an encoder and a frame with one picture consist of.
LEMMA EncoderParts ==
  /\ \A e \in Encoder : /\ e.kind \in {NoEncoder, "openh264", "sync", "async"}
                        /\ e.held \in Seq(Nat) /\ e.count \in Nat /\ e.count + 1 \in Nat
  /\ \A n \in Nat : <<n>> \in Seq(Nat)
  /\ \A h, m : h \in Seq(Nat) /\ m \in Nat => Append(h, m + 1) \in Seq(Nat)
<1>1. \A e \in Encoder : /\ e.kind \in {NoEncoder, "openh264", "sync", "async"}
                         /\ e.held \in Seq(Nat) /\ e.count \in Nat
  BY DEF Encoder
<1>2. \A n \in Nat : n + 1 \in Nat
  OBVIOUS
<1>3. \A n \in Nat : <<n>> \in Seq(Nat)
  OBVIOUS
<1>4. \A h \in Seq(Nat), n \in Nat : Append(h, n) \in Seq(Nat)
  OBVIOUS
<1> QED BY <1>1, <1>2, <1>3, <1>4

\* The encoders and the frames have their types after each step.
LEMMA FrameTypesStep == ASSUME ShareTypes, [Next]_vars PROVE FrameTypes'
<1> DEFINE FT(e, m, f) == /\ e \in [Calls -> Encoder] /\ m \in [Calls -> Nat]
                          /\ f \in [Calls -> Seq(CapturedFrame)]
                          /\ \A c \in Calls : m[c] <= MaxFrames[c] /\ Len(f[c]) <= m[c]
<1>0. FT(enc, made, frames) /\ \A c \in Calls : MaxFrames[c] \in Nat
  BY ShareBounds DEF ShareTypes, FrameTypes
<1>00. FT(enc', made', frames') => FrameTypes'
  BY DEF FrameTypes
<1>1. ASSUME NEW c \in Calls, StartShare(c) \/ InitResult(c) \/ Store(c) PROVE FrameTypes'
  <2>1. UNCHANGED <<enc, made, frames>>
    BY <1>1 DEF StartShare, InitResult, Store, captureVars
  <2> QED BY <1>0, <1>00, <2>1
<1>2. ASSUME NEW c \in Calls, SelectMonitor(c) \/ SelectDevice(c) \/ BuildStream(c)
      PROVE  FrameTypes'
  <2>1. UNCHANGED <<enc, made, frames>>
    BY <1>2 DEF SelectMonitor, SelectDevice, BuildStream
  <2> QED BY <1>0, <1>00, <2>1
<1>3. ASSUME NEW c \in Calls, NewHandler(c) PROVE FrameTypes'
  <2>1. /\ UNCHANGED <<made, frames>>
        /\ enc' = enc \/ enc' = [enc EXCEPT ![c].kind = Chosen(Backend, codec[c], machine)]
    BY <1>3 DEF NewHandler
  <2>2. PICK k \in {NoEncoder, "openh264", "sync", "async"} :
          k = Chosen(Backend, codec[c], machine)
    BY ChoiceTypes
  <2>3. [enc EXCEPT ![c].kind = k] \in [Calls -> Encoder]
    BY <1>0 DEF Encoder
  <2>4. enc' \in [Calls -> Encoder]
    BY <1>0, <2>1, <2>2, <2>3
  <2> QED BY <1>0, <1>00, <2>1, <2>4
<1>4. ASSUME NEW c \in Calls, NEW f \in CapturedFrame, NEW e \in [Calls -> Encoder],
             made' = [made EXCEPT ![c] = made[c] + 1], made[c] + 1 <= MaxFrames[c],
             frames' = [frames EXCEPT ![c] = Append(frames[c], f)], enc' = e
      PROVE  FrameTypes'
  <2>1. Append(frames[c], f) \in Seq(CapturedFrame)
        /\ Len(Append(frames[c], f)) = Len(frames[c]) + 1 /\ Len(frames[c]) \in Nat
    BY <1>0
  <2>2. frames' \in [Calls -> Seq(CapturedFrame)] /\ made' \in [Calls -> Nat]
    BY <1>0, <1>4, <2>1
  <2>3. ASSUME NEW d \in Calls PROVE made'[d] <= MaxFrames[d] /\ Len(frames'[d]) <= made'[d]
    <3>1. CASE d = c
      <4>1. made'[d] = made[c] + 1 /\ Len(frames'[d]) = Len(frames[c]) + 1
        BY <1>0, <1>4, <2>1, <3>1
      <4>2. Len(frames[c]) <= made[c] /\ made[c] \in Nat
        BY <1>0
      <4> QED BY <1>4, <2>1, <3>1, <4>1, <4>2
    <3>2. CASE d # c
      <4>1. made'[d] = made[d] /\ frames'[d] = frames[d]
        BY <1>0, <1>4, <3>2
      <4> QED BY <1>0, <4>1
    <3> QED BY <3>1, <3>2
  <2> QED BY <1>4, <1>00, <2>2, <2>3
<1>5. ASSUME NEW c \in Calls, OnFrameArrived(c) PROVE FrameTypes'
  <2>1. /\ made' = [made EXCEPT ![c] = made[c] + 1] /\ made[c] + 1 <= MaxFrames[c]
        /\ made[c] \in Nat
    BY <1>5, FrameArrives
  <2>2. PICK one \in Seq(Nat) : one = <<made[c] + 1>>
    <3>1. made[c] + 1 \in Nat
      BY <2>1
    <3> QED BY <3>1, EncoderParts
  <2>3. CASE GivesJpeg(c)
    <3>1. [codec |-> "plain", pay |-> one] \in CapturedFrame
      BY DEF CapturedFrame, Formats
    <3> QED BY <1>0, <1>4, <2>1, <2>2, <2>3, <3>1 DEF GivesJpeg
  <2>4. ASSUME NEW held \in {<<>>, enc[c].held}, NEW n, GivesCoded(c, held, n)
        PROVE  FrameTypes'
    <3>0. held \in Seq(Nat) /\ enc[c] \in Encoder
      <4>1. enc[c] \in Encoder
        BY <1>0
      <4>2. enc[c].held \in Seq(Nat) /\ <<>> \in Seq(Nat)
        BY <4>1, EncoderParts
      <4> QED BY <4>1, <4>2
    <3>1. Append(held, made[c] + 1) \in Seq(Nat)
      BY <2>1, <3>0, EncoderParts
    <3>2. PICK all \in Seq(Nat) : all = Append(held, made[c] + 1)
      BY <3>1
    <3>3. PICK u \in Seq(Nat), r \in Seq(Nat) :
            u = SubSeq(all, 1, n) /\ r = SubSeq(all, n + 1, Len(all))
      <4>1. n \in 0 .. Len(all)
        BY <2>4, <3>2 DEF GivesCoded
      <4> QED BY <4>1, CutInTwo
    <3>4. [codec |-> "coded", pay |-> u] \in CapturedFrame
      BY DEF CapturedFrame, Formats
    <3>5. PICK k \in {NoEncoder, "openh264", "sync", "async"}, m \in Nat :
            k = enc[c].kind /\ m = enc[c].count + 1
      BY <3>0, EncoderParts
    <3>6. [kind |-> k, held |-> r, count |-> m] \in Encoder
      BY DEF Encoder
    <3>7. PICK e \in [Calls -> Encoder] :
            e = [enc EXCEPT ![c] = [kind |-> k, held |-> r, count |-> m]]
      BY <1>0, <3>6
    <3>8. /\ enc' = e
          /\ frames' = [frames EXCEPT ![c] =
                          Append(frames[c], [codec |-> "coded", pay |-> u])]
      BY <2>4, <3>2, <3>3, <3>5, <3>7 DEF GivesCoded
    <3> QED BY <1>4, <2>1, <3>4, <3>8
  <2>a. enc[c] \in Encoder /\ enc[c].held \in Seq(Nat) /\ <<>> \in Seq(Nat)
    <3>1. enc[c] \in Encoder
      BY <1>0
    <3> QED BY <3>1, EncoderParts
  <2>5. ASSUME NEW held \in Seq(Nat), GivesNothing(c, held)
        PROVE  FrameTypes'
    <3>0. held \in Seq(Nat) /\ enc[c] \in Encoder
      BY <2>a
    <3>1. PICK k \in {NoEncoder, "openh264", "sync", "async"}, m \in Nat :
            k = enc[c].kind /\ m = enc[c].count + 1
      BY <3>0, EncoderParts
    <3>2. [kind |-> k, held |-> held, count |-> m] \in Encoder
      BY <3>0 DEF Encoder
    <3>3. enc' \in [Calls -> Encoder] /\ frames' = frames
      BY <1>0, <2>5, <3>1, <3>2 DEF GivesNothing
    <3>4. ASSUME NEW d \in Calls PROVE made'[d] <= MaxFrames[d] /\ Len(frames[d]) <= made'[d]
      <4>2. Len(frames[d]) \in Nat /\ Len(frames[d]) <= made[d] /\ made[d] <= MaxFrames[d]
            /\ made[d] \in Nat /\ MaxFrames[d] \in Nat
        BY <1>0
      <4>3. CASE d = c
        <5>1. made'[d] = made[d] + 1 /\ made[d] + 1 <= MaxFrames[d]
          BY <1>0, <2>1, <4>3
        <5> QED BY <4>2, <5>1
      <4>4. CASE d # c
        <5>1. made'[d] = made[d]
          BY <1>0, <2>1, <4>4
        <5> QED BY <4>2, <5>1
      <4> QED BY <4>3, <4>4
    <3>5. made' \in [Calls -> Nat]
      BY <1>0, <2>1
    <3> QED BY <1>0, <1>00, <2>5, <3>3, <3>4, <3>5
  <2>6. ASSUME NEW held \in {<<>>, enc[c].held}, NEW n, GaveInVain(c, held, n)
        PROVE  FrameTypes'
    <3>1. Append(held, made[c] + 1) \in Seq(Nat)
      BY <2>1, <2>a, EncoderParts
    <3>2. PICK all \in Seq(Nat) : all = Append(held, made[c] + 1)
      BY <3>1
    <3>3. n \in 0 .. Len(all) /\ GivesNothing(c, SubSeq(all, n + 1, Len(all)))
      BY <2>6, <3>2 DEF GaveInVain
    <3>4. SubSeq(all, n + 1, Len(all)) \in Seq(Nat)
      BY <3>3, CutInTwo
    <3> QED BY <2>5, <3>3, <3>4
  <2>7. CASE NoJpeg
    <3>1. ASSUME NEW d \in Calls PROVE made'[d] <= MaxFrames[d] /\ Len(frames[d]) <= made'[d]
      <4>1. Len(frames[d]) \in Nat /\ Len(frames[d]) <= made[d] /\ made[d] <= MaxFrames[d]
            /\ made[d] \in Nat /\ MaxFrames[d] \in Nat
        BY <1>0
      <4>2. made'[d] = made[d] \/ (made'[d] = made[d] + 1 /\ made[d] + 1 <= MaxFrames[d])
        BY <1>0, <2>1
      <4> QED BY <4>1, <4>2
    <3>2. made' \in [Calls -> Nat]
      BY <1>0, <2>1
    <3> QED BY <1>0, <1>00, <2>7, <3>1, <3>2 DEF NoJpeg
  <2>8. PICK h \in {<<>>, enc[c].held} :
          \/ GivesJpeg(c) \/ NoJpeg
          \/ \E n : GivesCoded(c, h, n) \/ GaveInVain(c, h, n)
          \/ GivesNothing(c, h)
    BY <1>5, FrameArrives
  <2> QED BY <2>3, <2>4, <2>5, <2>6, <2>7, <2>8, <2>a
<1>6. ASSUME NEW c \in Calls, FlushFrames(c) PROVE FrameTypes'
  <2>1. /\ made[c] < MaxFrames[c] /\ made' = [made EXCEPT ![c] = made[c] + 1] /\ enc' = enc
        /\ frames' = [frames EXCEPT ![c] =
                        Append(frames[c], [codec |-> "plain", pay |-> <<made'[c]>>])]
    BY <1>6 DEF FlushFrames, Captured, Keep
  <2>2. made[c] \in Nat /\ MaxFrames[c] \in Nat /\ made'[c] = made[c] + 1
    BY <1>0, <2>1
  <2>3. made[c] + 1 <= MaxFrames[c]
    BY <2>1, <2>2
  <2>4. PICK one \in Seq(Nat) : one = <<made[c] + 1>>
    <3>1. made[c] + 1 \in Nat
      BY <2>2
    <3> QED BY <3>1, EncoderParts
  <2>5. [codec |-> "plain", pay |-> one] \in CapturedFrame
    BY DEF CapturedFrame, Formats
  <2> QED BY <1>0, <1>4, <2>1, <2>2, <2>3, <2>4, <2>5
<1>7. ASSUME NEW c \in Calls, CaptureEnds(c) \/ SourceGone(c) PROVE FrameTypes'
  <2>1. UNCHANGED <<enc, made, frames>>
    BY <1>7 DEF CaptureEnds, SourceGone
  <2> QED BY <1>0, <1>00, <2>1
<1>8. ASSUME NEW c \in Calls, VideoBridge(c) \/ AudioBridge(c) PROVE FrameTypes'
  <2>1. /\ UNCHANGED <<enc, made>> /\ frames[c] # <<>>
        /\ frames' = [frames EXCEPT ![c] = Tail(frames[c])]
    BY <1>8 DEF VideoBridge, AudioBridge, Pass
  <2>2. Tail(frames[c]) \in Seq(CapturedFrame) /\ Len(Tail(frames[c])) = Len(frames[c]) - 1
        /\ Len(frames[c]) \in Nat
    BY <1>0, <2>1
  <2>3. frames' \in [Calls -> Seq(CapturedFrame)]
    BY <1>0, <2>1, <2>2
  <2>4. ASSUME NEW d \in Calls PROVE Len(frames'[d]) <= made[d]
    <3>1. CASE d = c
      <4>1. Len(frames'[d]) = Len(frames[d]) - 1
        BY <1>0, <2>1, <2>2, <3>1
      <4>2. Len(frames[d]) <= made[d] /\ made[d] \in Nat
        BY <1>0
      <4> QED BY <2>2, <3>1, <4>1, <4>2
    <3>2. CASE d # c
      BY <1>0, <2>1, <3>2
    <3> QED BY <3>1, <3>2
  <2> QED BY <1>0, <1>00, <2>1, <2>3, <2>4
<1>9. ASSUME NEW c \in Calls, BridgeEnds(c) \/ FanOut(c) \/ FanEnds(c) PROVE FrameTypes'
  <2>1. UNCHANGED <<enc, made, frames>>
    BY <1>9 DEF BridgeEnds, FanOut, FanEnds, captureVars
  <2> QED BY <1>0, <1>00, <2>1
<1>10. ASSUME NEW p \in Peers, Join(p) \/ Take(p) PROVE FrameTypes'
  <2>1. UNCHANGED <<enc, made, frames>>
    BY <1>10 DEF Join, Take, captureVars
  <2> QED BY <1>0, <1>00, <2>1
<1>11. ASSUME StopShare \/ MachineChanges \/ UNCHANGED vars PROVE FrameTypes'
  <2>1. UNCHANGED <<enc, made, frames>>
    BY <1>11 DEF StopShare, MachineChanges, vars, captureVars
  <2> QED BY <1>0, <1>00, <2>1
<1> QED BY <1>1, <1>2, <1>3, <1>5, <1>6, <1>7, <1>8, <1>9, <1>10, <1>11, ShareActions

\* A number in a stream is a number.
LEMMA PlaceNat ==
  /\ \A pay \in Seq(Nat) : Last0(pay) \in Nat
  /\ \A m \in Message : Place(m) \in Nat
<1>1. ASSUME NEW pay \in Seq(Nat) PROVE Last0(pay) \in Nat
  <2>1. CASE pay = <<>>
    BY <2>1 DEF Last0
  <2>2. CASE pay # <<>>
    <3>1. pay[Len(pay)] \in Nat
      BY <2>2
    <3> QED BY <2>2, <3>1 DEF Last0
  <2> QED BY <2>1, <2>2
<1>2. ASSUME NEW m \in Message PROVE Place(m) \in Nat
  <2>1. m.k \in {"Start", "Frame", "Stop"} /\ m.s \in Calls /\ m.pay \in Seq(Nat)
    BY DEF Message
  <2>2. Last0(m.pay) \in Nat /\ MaxFrames[m.s] \in Nat
    BY <1>1, <2>1, ShareBounds
  <2>3. 1 + Last0(m.pay) \in Nat /\ MaxFrames[m.s] + 2 \in Nat
    BY <2>2
  <2> QED BY <2>1, <2>3 DEF Place
<1> QED BY <1>1, <1>2

\* What goes into a channel, and what a session's channel makes of it.
LEMMA PushedTypes ==
  ASSUME NEW q \in Seq(Message), NEW m \in Message, Len(q) <= LinkCap
  PROVE  Pushed(q, m) \in Seq(Message) /\ Len(Pushed(q, m)) <= LinkCap
<1>1. Append(q, m) \in Seq(Message) /\ Len(Append(q, m)) = Len(q) + 1 /\ Len(q) \in Nat
  OBVIOUS
<1>2. LinkCap \in Nat
  BY ShareBounds
<1>3. CASE Len(q) < LinkCap
  <2>1. Len(q) + 1 <= LinkCap
    BY <1>1, <1>2, <1>3
  <2> QED BY <1>1, <1>3, <2>1 DEF Pushed
<1>4. CASE ~(Len(q) < LinkCap)
  BY <1>4 DEF Pushed
<1> QED BY <1>3, <1>4

\* What a bridge passes on: the first of the frames, in a message that says its codec, or
\* the codec announced.
Passes(c, h, m) ==
  /\ frames[c] # <<>> /\ h = Head(frames[c])
  /\ frames' = [frames EXCEPT ![c] = Tail(frames[c])]
  /\ bridge[c] = "run" /\ Len(chan[c]) < ChanCap
  /\ chan' = [chan EXCEPT ![c] = Append(chan[c], m)]
  /\ m.k = "Frame" /\ m.s = c /\ m.pay = h.pay
  /\ \/ medium = "video" /\ m.codec = h.codec
     \/ m.codec = codec[c]
     \/ spoiled' = TRUE
  /\ UNCHANGED <<cap, codec, enc, made, bridge, link, rx, garbled>>

\* That is all a bridge does before it ends.
LEMMA PassedOn ==
  ASSUME ShareTypes, NEW c \in Calls, VideoBridge(c) \/ AudioBridge(c)
  PROVE  \E h \in CapturedFrame, m \in Message : Passes(c, h, m)
<1>1. PICK f : /\ Pass(c, f) /\ frames[c] # <<>>
               /\ f = Head(frames[c]) \/ f = [Head(frames[c]) EXCEPT !.codec = codec[c]]
               /\ \/ medium = "video" /\ f = Head(frames[c])
                  \/ f = [Head(frames[c]) EXCEPT !.codec = codec[c]]
                  \/ spoiled' = TRUE
  BY DEF VideoBridge, AudioBridge
<1>2. PICK h \in CapturedFrame : h = Head(frames[c])
  <2>1. frames[c] \in Seq(CapturedFrame)
    BY DEF ShareTypes, FrameTypes
  <2> QED BY <1>1, <2>1
<1>3. codec[c] \in Formats \cup {None}
  BY DEF ShareTypes, StageTypes
<1>4. /\ h.pay \in Seq(Nat) /\ f.pay = h.pay /\ f.codec \in Formats \cup {None}
      /\ f = [h EXCEPT !.codec = codec[c]] => f.codec = codec[c]
  BY <1>1, <1>2, <1>3 DEF CapturedFrame
<1>5. PICK m \in Message : m = FrameMsg(c, f)
  BY <1>4 DEF FrameMsg, Message
<1>6. m.k = "Frame" /\ m.s = c /\ m.pay = h.pay /\ m.codec = f.codec
  BY <1>4, <1>5 DEF FrameMsg
<1>7. /\ frames' = [frames EXCEPT ![c] = Tail(frames[c])]
      /\ bridge[c] = "run" /\ Len(chan[c]) < ChanCap
      /\ chan' = [chan EXCEPT ![c] = Append(chan[c], m)]
      /\ UNCHANGED <<cap, codec, enc, made, bridge, link, rx, garbled>>
  BY <1>1, <1>5 DEF Pass, peerVars
<1>8. \/ medium = "video" /\ m.codec = h.codec
      \/ m.codec = codec[c]
      \/ spoiled' = TRUE
  BY <1>1, <1>2, <1>4, <1>6
<1> QED BY <1>1, <1>2, <1>6, <1>7, <1>8 DEF Passes

\* The channels keep their types and capacities.
LEMMA ChannelTypesStep ==
  ASSUME ShareTypes, StagesFollow, [Next]_vars
  PROVE  ChannelTypes'
<1> DEFINE CT(ch, l) == /\ ch \in [Calls -> Seq(Message)] /\ l \in [Peers -> Seq(Message)]
                        /\ \A c \in Calls : Len(ch[c]) <= ChanCap
                        /\ \A p \in Peers : Len(l[p]) <= LinkCap
<1>0. CT(chan, link) /\ ChanCap \in Nat /\ ChanCap >= 1
  BY ShareBounds DEF ShareTypes, ChannelTypes
<1>00. CT(chan', link') => ChannelTypes'
  BY DEF ChannelTypes
<1>a. ASSUME UNCHANGED <<chan, link>> PROVE ChannelTypes'
  BY <1>0, <1>00, <1>a
<1>b. ASSUME NEW c \in Calls, NEW q \in Seq(Message), Len(q) <= ChanCap,
             chan' = [chan EXCEPT ![c] = q], link' = link
      PROVE  ChannelTypes'
  BY <1>0, <1>00, <1>b
<1>c. ASSUME NEW c \in Calls, NEW m \in Message, Len(chan[c]) < ChanCap,
             chan' = [chan EXCEPT ![c] = Append(chan[c], m)], link' = link
      PROVE  ChannelTypes'
  <2>1. chan[c] \in Seq(Message)
    BY <1>0
  <2>2. Append(chan[c], m) \in Seq(Message) /\ Len(Append(chan[c], m)) = Len(chan[c]) + 1
        /\ Len(chan[c]) \in Nat
    BY <2>1
  <2>3. Len(Append(chan[c], m)) <= ChanCap
    BY <1>0, <1>c, <2>2
  <2> QED BY <1>b, <1>c, <2>2, <2>3
<1>1. ASSUME NEW c \in Calls, StartShare(c) \/ Store(c) PROVE ChannelTypes'
  BY <1>1, <1>a DEF StartShare, Store, pipeVars, peerVars
<1>2. ASSUME NEW c \in Calls, InitResult(c) PROVE ChannelTypes'
  <2>1. CASE UNCHANGED chan
    BY <1>2, <2>1, <1>a DEF InitResult, peerVars
  <2>2. ASSUME NEW k \in Codecs(c), chan' = [chan EXCEPT ![c] = <<StartMsg(c, k)>>]
        PROVE  ChannelTypes'
    <3>1. k \in Formats \cup {None}
      BY DEF Codecs, AudioCodecs, Formats, ShareTypes, StageTypes
    <3>2. PICK m \in Message : m = StartMsg(c, k)
      BY <3>1, MessageTypes
    <3>3. <<m>> \in Seq(Message) /\ Len(<<m>>) = 1
      OBVIOUS
    <3>4. link' = link
      BY <1>2 DEF InitResult, peerVars
    <3> QED BY <1>0, <1>b, <2>2, <3>2, <3>3, <3>4
  <2> QED BY <1>2, <2>1, <2>2 DEF InitResult
<1>3. ASSUME NEW c \in Calls, SelectMonitor(c) \/ SelectDevice(c) PROVE ChannelTypes'
  BY <1>3, <1>a DEF SelectMonitor, SelectDevice, pipeVars, peerVars
<1>4. ASSUME NEW c \in Calls, NewHandler(c) \/ BuildStream(c) PROVE ChannelTypes'
  BY <1>4, <1>a DEF NewHandler, BuildStream, pipeVars, peerVars
<1>5. ASSUME NEW c \in Calls, OnFrameArrived(c) \/ FlushFrames(c) PROVE ChannelTypes'
  BY <1>5, <1>a DEF OnFrameArrived, FlushFrames, pipeVars, peerVars
<1>6. ASSUME NEW c \in Calls, CaptureEnds(c) \/ SourceGone(c) PROVE ChannelTypes'
  BY <1>6, <1>a DEF CaptureEnds, SourceGone, pipeVars, peerVars
<1>7. ASSUME NEW c \in Calls, VideoBridge(c) \/ AudioBridge(c) PROVE ChannelTypes'
  <2>1. PICK h \in CapturedFrame, m \in Message : Passes(c, h, m)
    BY <1>7, PassedOn
  <2> QED BY <1>c, <2>1 DEF Passes
<1>8. ASSUME NEW c \in Calls, BridgeEnds(c) PROVE ChannelTypes'
  <2>1. /\ Len(chan[c]) < ChanCap /\ link' = link
        /\ chan' = [chan EXCEPT ![c] = Append(chan[c], StopMsg(c))]
    BY <1>8 DEF BridgeEnds, peerVars
  <2>2. StopMsg(c) \in Message
    BY MessageTypes
  <2> QED BY <1>c, <2>1, <2>2
<1>9. ASSUME NEW c \in Calls, FanOut(c) PROVE ChannelTypes'
  <2>1. /\ chan[c] # <<>> /\ chan' = [chan EXCEPT ![c] = Tail(chan[c])]
        /\ link' = [p \in Peers |-> IF p \in sessions THEN Pushed(link[p], Head(chan[c]))
                                    ELSE link[p]]
    BY <1>9 DEF FanOut
  <2>2. PICK m \in Message : m = Head(chan[c])
    <3>1. chan[c] \in Seq(Message)
      BY <1>0
    <3> QED BY <2>1, <3>1
  <2>3. chan[c] \in Seq(Message)
    BY <1>0
  <2>4. Tail(chan[c]) \in Seq(Message) /\ Len(Tail(chan[c])) = Len(chan[c]) - 1
        /\ Len(chan[c]) \in Nat
    BY <2>1, <2>3
  <2>5. Len(Tail(chan[c])) <= ChanCap
    <3>1. Len(chan[c]) <= ChanCap
      BY <1>0
    <3> QED BY <1>0, <2>4, <3>1
  <2>6. \A p \in Peers : Pushed(link[p], m) \in Seq(Message) /\ Len(Pushed(link[p], m)) <= LinkCap
    BY <1>0, PushedTypes
  <2>7. link' \in [Peers -> Seq(Message)] /\ \A p \in Peers : Len(link'[p]) <= LinkCap
    BY <1>0, <2>1, <2>2, <2>6
  <2>8. chan' \in [Calls -> Seq(Message)] /\ \A d \in Calls : Len(chan'[d]) <= ChanCap
    BY <1>0, <2>1, <2>4, <2>5
  <2> QED BY <1>00, <2>7, <2>8
<1>10. ASSUME NEW c \in Calls, FanEnds(c) PROVE ChannelTypes'
  BY <1>10, <1>a DEF FanEnds, peerVars
<1>11. ASSUME NEW p \in Peers, Join(p) PROVE ChannelTypes'
  BY <1>11, <1>a DEF Join, pipeVars
<1>12. ASSUME NEW p \in Peers, Take(p) PROVE ChannelTypes'
  <2>1. /\ link[p] # <<>> /\ link' = [link EXCEPT ![p] = Tail(link[p])] /\ chan' = chan
    BY <1>12 DEF Take, pipeVars
  <2>2. Tail(link[p]) \in Seq(Message) /\ Len(Tail(link[p])) = Len(link[p]) - 1
        /\ Len(link[p]) \in Nat /\ Len(link[p]) <= LinkCap
    <3>1. link[p] \in Seq(Message) /\ Len(link[p]) <= LinkCap
      BY <1>0
    <3> QED BY <2>1, <3>1
  <2>3. Len(Tail(link[p])) <= LinkCap
    BY <2>2, ShareBounds
  <2> QED BY <1>0, <1>00, <2>1, <2>2, <2>3
<1>13. ASSUME StopShare \/ MachineChanges \/ UNCHANGED vars PROVE ChannelTypes'
  BY <1>13, <1>a DEF StopShare, MachineChanges, vars, pipeVars, peerVars
<1> QED BY <1>1, <1>2, <1>3, <1>4, <1>5, <1>6, <1>7, <1>8, <1>9, <1>10, <1>11, <1>12, <1>13,
           ShareActions

\* What a peer makes of a message.
LEMMA PeerTakes ==
  ASSUME ShareTypes, NEW p \in Peers, Take(p)
  PROVE  \E m \in Message :
           /\ link[p] # <<>> /\ m = Head(link[p])
           /\ link' = [link EXCEPT ![p] = Tail(link[p])]
           /\ garbled' = garbled \cup {q \in {p} : Garbles(p, m)}
           /\ \E pos \in [Calls -> Nat] :
                /\ pos = IF m.k = "Frame" /\ m.pay = <<>> THEN rx[p].pos
                         ELSE [rx[p].pos EXCEPT ![m.s] = Place(m)]
                /\ rx' = [rx EXCEPT ![p] = [codec |-> CodecAfter(p, m),
                                            stream |-> StreamAfter(p, m), pos |-> pos]]
           /\ UNCHANGED <<medium, machine, call, init, cap, codec, enc, made, frames, chan, bridge,
                          spoiled>>
<1>1. link[p] # <<>> /\ link[p] \in Seq(Message) /\ rx[p].pos \in [Calls -> Nat]
  BY DEF Take, ShareTypes, ChannelTypes, Receiver
<1>2. PICK m \in Message : m = Head(link[p])
  BY <1>1
<1>3. m.s \in Calls /\ Place(m) \in Nat
  BY PlaceNat DEF Message
<1>4. PICK pos \in [Calls -> Nat] :
        pos = IF m.k = "Frame" /\ m.pay = <<>> THEN rx[p].pos
              ELSE [rx[p].pos EXCEPT ![m.s] = Place(m)]
  BY <1>1, <1>3
<1>5. rx' = [rx EXCEPT ![p] = [codec |-> CodecAfter(p, m), stream |-> StreamAfter(p, m),
                               pos |-> pos]]
  <2>1. rx' = [rx EXCEPT ![p] = [codec |-> CodecAfter(p, m), stream |-> StreamAfter(p, m),
                                 pos |-> IF m.k = "Frame" /\ m.pay = <<>> THEN @.pos
                                         ELSE [@.pos EXCEPT ![m.s] = Place(m)]]]
    BY <1>2 DEF Take
  <2>2. rx \in [Peers -> Receiver]
    BY DEF ShareTypes
  <2> QED BY <1>4, <2>1, <2>2
<1>6. /\ link' = [link EXCEPT ![p] = Tail(link[p])]
      /\ garbled' = garbled \cup {q \in {p} : Garbles(p, m)}
      /\ UNCHANGED <<medium, machine, call, init, cap, codec, enc, made, frames, chan, bridge,
                     spoiled>>
  BY <1>2 DEF Take, captureVars, pipeVars
<1> QED BY <1>1, <1>2, <1>4, <1>5, <1>6

\* What a peer knows has its type.
LEMMA ReceiverStep == ASSUME ShareTypes, [Next]_vars PROVE rx' \in [Peers -> Receiver]
<1>0. rx \in [Peers -> Receiver]
  BY DEF ShareTypes
<1>1. ASSUME NEW c \in Calls, StartShare(c) \/ InitResult(c) \/ Store(c) PROVE rx' = rx
  BY <1>1 DEF StartShare, InitResult, Store, peerVars
<1>2. ASSUME NEW c \in Calls, SelectMonitor(c) \/ SelectDevice(c) \/ NewHandler(c) \/ BuildStream(c)
      PROVE  rx' = rx
  BY <1>2 DEF SelectMonitor, SelectDevice, NewHandler, BuildStream, peerVars
<1>3. ASSUME NEW c \in Calls,
             OnFrameArrived(c) \/ FlushFrames(c) \/ CaptureEnds(c) \/ SourceGone(c)
      PROVE  rx' = rx
  BY <1>3 DEF OnFrameArrived, FlushFrames, CaptureEnds, SourceGone, peerVars
<1>4. ASSUME NEW c \in Calls,
             VideoBridge(c) \/ AudioBridge(c) \/ BridgeEnds(c) \/ FanOut(c) \/ FanEnds(c)
      PROVE  rx' = rx
  BY <1>4 DEF VideoBridge, AudioBridge, Pass, BridgeEnds, FanOut, FanEnds, peerVars
<1>5. ASSUME NEW p \in Peers, Join(p) PROVE rx' = rx
  BY <1>5 DEF Join
<1>6. ASSUME NEW p \in Peers, Take(p) PROVE rx' \in [Peers -> Receiver]
  <2>1. PICK m \in Message, pos \in [Calls -> Nat] :
          rx' = [rx EXCEPT ![p] = [codec |-> CodecAfter(p, m), stream |-> StreamAfter(p, m),
                                   pos |-> pos]]
    BY <1>6, PeerTakes
  <2>2. rx[p] \in Receiver
    BY <1>0
  <2>3. m.k \in {"Start", "Frame", "Stop"} /\ m.s \in Calls /\ m.codec \in Formats \cup {None}
    BY DEF Message
  <2>4. CodecAfter(p, m) \in Formats \cup {None} /\ StreamAfter(p, m) \in Calls \cup {NoCall}
    BY <2>2, <2>3 DEF CodecAfter, StreamAfter, Receiver
  <2>5. [codec |-> CodecAfter(p, m), stream |-> StreamAfter(p, m), pos |-> pos] \in Receiver
    BY <2>4 DEF Receiver
  <2> QED BY <1>0, <2>1, <2>5
<1>7. ASSUME StopShare \/ MachineChanges \/ UNCHANGED vars PROVE rx' = rx
  BY <1>7 DEF StopShare, MachineChanges, vars, peerVars
<1> QED BY <1>0, <1>1, <1>2, <1>3, <1>4, <1>5, <1>6, <1>7, ShareActions

\* All variables have their types after each step.
LEMMA ShareTypesStep == ASSUME ShareTypes, StagesFollow, [Next]_vars PROVE ShareTypes'
<1>1. StageTypes' /\ OtherTypes'
  BY StageTypesStep, OtherTypesStep
<1>2. FrameTypes'
  BY FrameTypesStep
<1>3. ChannelTypes'
  BY ChannelTypesStep
<1>4. rx' \in [Peers -> Receiver]
  BY ReceiverStep
<1> QED BY <1>1, <1>2, <1>3, <1>4 DEF ShareTypes

\* The types of the groups are the type invariant of the model.
LEMMA ShareTypesMean == ShareTypes => TypeOK
<1> SUFFICES ASSUME ShareTypes PROVE TypeOK
  OBVIOUS
<1>1. /\ medium \in Media /\ machine \in Machines
      /\ handle \in Calls \cup {NoCall} /\ sessions \subseteq Peers /\ garbled \subseteq Peers
      /\ spoiled \in BOOLEAN /\ faults \in 0 .. MaxFaults
  BY DEF ShareTypes, StageTypes, OtherTypes
<1>2. \A c \in Calls : /\ call[c] \in {"idle", "init", "store", "done", "failed"}
                       /\ init[c] \in {None, "ok", "err"}
                       /\ cap[c] \in {"off", "select", "begin", "run", "end", "mute"}
                       /\ codec[c] \in {None, "coded", "plain"}
                       /\ {bridge[c], fan[c]} \subseteq {"off", "run", "done"}
  BY DEF ShareTypes, StageTypes, Formats
<1>3. \A c \in Calls : /\ enc[c].kind \in {NoEncoder, "openh264", "sync", "async"}
                       /\ made[c] \in 0 .. MaxFrames[c] /\ Len(frames[c]) <= made[c]
  <2>1. \A c \in Calls : MaxFrames[c] \in Nat
    BY ShareBounds
  <2>2. \A c \in Calls : enc[c] \in Encoder /\ made[c] \in Nat /\ made[c] <= MaxFrames[c]
                         /\ Len(frames[c]) <= made[c]
    BY DEF ShareTypes, FrameTypes
  <2> QED BY <2>1, <2>2, EncoderParts
<1>4. /\ \A c \in Calls : Len(chan[c]) <= ChanCap
      /\ \A p \in Peers : Len(link[p]) <= LinkCap
  BY DEF ShareTypes, ChannelTypes
<1> QED BY <1>1, <1>2, <1>3, <1>4 DEF TypeOK

-----------------------------------------------------------------------------
(* Codecs: what is announced, made and followed.                             *)

\* What is in a queue after a message is put to its end or taken from its head.
LEMMA SetOfQueue ==
  ASSUME NEW S
  PROVE  /\ \A x \in S : ToSet(<<x>>) = {x}
         /\ ToSet(<<>>) = {}
         /\ \A q \in Seq(S), x \in S : ToSet(Append(q, x)) = ToSet(q) \cup {x}
         /\ \A q \in Seq(S) : q # <<>> => ToSet(q) = {Head(q)} \cup ToSet(Tail(q))
         /\ \A q \in Seq(S) : ToSet(q) \subseteq S
<1>1. \A x \in S : ToSet(<<x>>) = {x}
  BY DEF ToSet
<1>2. ToSet(<<>>) = {}
  BY DEF ToSet
<1>3. ASSUME NEW q \in Seq(S), NEW x \in S PROVE ToSet(Append(q, x)) = ToSet(q) \cup {x}
  <2>1. PICK n \in Nat : n = Len(q)
    OBVIOUS
  <2>2. PICK r : r = Append(q, x)
    OBVIOUS
  <2>3. /\ DOMAIN q = 1 .. n /\ DOMAIN r = 1 .. n + 1
        /\ \A i \in 1 .. n : r[i] = q[i]
        /\ r[n + 1] = x
    BY <2>1, <2>2
  <2>4. \A y \in ToSet(r) : y \in ToSet(q) \cup {x}
    BY <2>3 DEF ToSet
  <2>5. \A y \in ToSet(q) : y \in ToSet(r)
    BY <2>3 DEF ToSet
  <2>6. x \in ToSet(r)
    BY <2>3 DEF ToSet
  <2>7. ToSet(r) = ToSet(q) \cup {x}
    BY <2>4, <2>5, <2>6
  <2> QED BY <2>2, <2>7
<1>4. ASSUME NEW q \in Seq(S), q # <<>> PROVE ToSet(q) = {Head(q)} \cup ToSet(Tail(q))
  <2>1. PICK n \in Nat : Len(q) = n + 1
    BY <1>4, EmptySeq, LenProperties
  <2>2. PICK r : r = Tail(q)
    OBVIOUS
  <2>3. /\ DOMAIN q = 1 .. n + 1 /\ DOMAIN r = 1 .. n
        /\ \A i \in 1 .. n : r[i] = q[i + 1]
        /\ Head(q) = q[1]
    BY <1>4, <2>1, <2>2
  <2>4. ASSUME NEW i \in 1 .. n + 1, i # 1 PROVE q[i] \in ToSet(r)
    <3>1. i - 1 \in 1 .. n /\ (i - 1) + 1 = i
      BY <2>4
    <3>2. r[i - 1] = q[i]
      BY <2>3, <3>1
    <3> QED BY <2>3, <3>1, <3>2 DEF ToSet
  <2>5. \A y \in ToSet(q) : y = Head(q) \/ y \in ToSet(r)
    BY <2>3, <2>4 DEF ToSet
  <2>6. Head(q) \in ToSet(q)
    BY <2>3 DEF ToSet
  <2>7. ASSUME NEW i \in 1 .. n PROVE r[i] \in ToSet(q)
    <3>1. i + 1 \in 1 .. n + 1
      OBVIOUS
    <3> QED BY <2>3, <3>1 DEF ToSet
  <2>8. \A y \in ToSet(r) : y \in ToSet(q)
    BY <2>3, <2>7 DEF ToSet
  <2>9. ToSet(q) = {Head(q)} \cup ToSet(r)
    BY <2>5, <2>6, <2>8
  <2> QED BY <2>2, <2>9
<1>5. \A q \in Seq(S) : ToSet(q) \subseteq S
  BY DEF ToSet
<1> QED BY <1>1, <1>2, <1>3, <1>4, <1>5

\* A codec does not change once the bridge runs, and the bridge is not undone.
LEMMA CodecSettled ==
  ASSUME ShareTypes, StagesFollow, [Next]_vars
  PROVE  /\ spoiled = TRUE => spoiled' = TRUE
         /\ \A d \in Calls : bridge[d] # "off" => codec'[d] = codec[d] /\ bridge'[d] # "off"
<1> DEFINE Goal == /\ spoiled = TRUE => spoiled' = TRUE
                   /\ \A d \in Calls : bridge[d] # "off" => codec'[d] = codec[d] /\ bridge'[d] # "off"
<1>0. /\ codec \in [Calls -> Formats \cup {None}] /\ bridge \in [Calls -> {"off", "run", "done"}]
      /\ \A d \in Calls : bridge[d] # "off" => init[d] = "ok" /\ call[d] \in {"store", "done"}
      /\ \A d \in Calls : init[d] = "ok" => cap[d] \notin {"off", "select"}
  BY DEF ShareTypes, StageTypes, StagesFollow
<1>a. ASSUME UNCHANGED <<spoiled, codec, bridge>> PROVE Goal
  BY <1>a
<1>1. ASSUME NEW c \in Calls, StartShare(c) \/ Store(c) PROVE Goal
  BY <1>1, <1>a DEF StartShare, Store, pipeVars, captureVars
<1>2. ASSUME NEW c \in Calls, InitResult(c) PROVE Goal
  <2>1. /\ call[c] = "init" /\ spoiled' = spoiled
        /\ codec' = codec \/ \E k : codec' = [codec EXCEPT ![c] = k]
        /\ bridge' = bridge \/ bridge' = [bridge EXCEPT ![c] = "run"]
    BY <1>2 DEF InitResult
  <2>2. bridge[c] = "off"
    BY <1>0, <2>1
  <2> QED BY <1>0, <2>1, <2>2
<1>3. ASSUME NEW c \in Calls, SelectMonitor(c) \/ SelectDevice(c) PROVE Goal
  <2>1. /\ cap[c] = "select" /\ UNCHANGED <<spoiled, bridge>>
        /\ \E k : codec' = [codec EXCEPT ![c] = k]
    BY <1>3 DEF SelectMonitor, SelectDevice, Report, pipeVars
  <2>2. bridge[c] = "off"
    BY <1>0, <2>1
  <2> QED BY <1>0, <2>1, <2>2
<1>4. ASSUME NEW c \in Calls, NewHandler(c) \/ BuildStream(c) PROVE Goal
  BY <1>4, <1>a DEF NewHandler, BuildStream, pipeVars
<1>5. ASSUME NEW c \in Calls, OnFrameArrived(c) \/ FlushFrames(c) PROVE Goal
  BY <1>5, <1>a DEF OnFrameArrived, FlushFrames, pipeVars
<1>6. ASSUME NEW c \in Calls, CaptureEnds(c) \/ SourceGone(c) PROVE Goal
  BY <1>6, <1>a DEF CaptureEnds, SourceGone, pipeVars
<1>7. ASSUME NEW c \in Calls, VideoBridge(c) \/ AudioBridge(c) PROVE Goal
  <2>1. UNCHANGED <<codec, bridge>> /\ (spoiled' = spoiled \/ spoiled' = TRUE)
    BY <1>7 DEF VideoBridge, AudioBridge, Pass
  <2> QED BY <2>1
<1>8. ASSUME NEW c \in Calls, BridgeEnds(c) PROVE Goal
  <2>1. /\ UNCHANGED <<codec, spoiled>> /\ bridge[c] = "run"
        /\ \E r \in {"done", bridge[c]} : bridge' = [bridge EXCEPT ![c] = r]
    BY <1>8 DEF BridgeEnds, captureVars
  <2> QED BY <1>0, <2>1
<1>9. ASSUME NEW c \in Calls, FanOut(c) \/ FanEnds(c) PROVE Goal
  BY <1>9, <1>a DEF FanOut, FanEnds, captureVars
<1>10. ASSUME NEW p \in Peers, Join(p) \/ Take(p) PROVE Goal
  BY <1>10, <1>a DEF Join, Take, captureVars, pipeVars
<1>11. ASSUME StopShare \/ MachineChanges \/ UNCHANGED vars PROVE Goal
  <2>1. UNCHANGED <<codec, bridge>> /\ (spoiled' = spoiled \/ spoiled' = TRUE)
    BY <1>11 DEF StopShare, MachineChanges, vars, captureVars, pipeVars
  <2> QED BY <2>1
<1> QED BY <1>1, <1>2, <1>3, <1>4, <1>5, <1>6, <1>7, <1>8, <1>9, <1>10, <1>11, ShareActions

\* The capture thread reports before the command goes on.
LEMMA StagesStep == ASSUME ShareTypes, StagesFollow, [Next]_vars PROVE StagesFollow'
<1> DEFINE SF(ca, i, cp, b, f) == /\ ca = "idle" => i = None /\ cp = "off"
                                  /\ i = "ok" => cp \notin {"off", "select"}
                                  /\ b # "off" => i = "ok" /\ ca \in {"store", "done"}
                                  /\ cp \in {"off", "select"} => f = <<>>
           Fine(d) == SF(call'[d], init'[d], cap'[d], bridge'[d], frames'[d])
<1>0. /\ \A d \in Calls : SF(call[d], init[d], cap[d], bridge[d], frames[d])
      /\ call \in [Calls -> {"idle", "init", "store", "done", "failed"}]
      /\ init \in [Calls -> {None, "ok", "err"}]
      /\ cap \in [Calls -> {"off", "select", "begin", "run", "end", "mute"}]
      /\ bridge \in [Calls -> {"off", "run", "done"}]
      /\ frames \in [Calls -> Seq(CapturedFrame)]
  BY DEF ShareTypes, StageTypes, FrameTypes, StagesFollow
<1>00. None # "ok" /\ None # "err"
  BY DEF None
<1>000. (\A d \in Calls : Fine(d)) => StagesFollow'
  BY DEF StagesFollow
<1>a. ASSUME UNCHANGED <<call, init, cap, bridge, frames>> PROVE \A d \in Calls : Fine(d)
  BY <1>0, <1>a
<1>1. ASSUME NEW c \in Calls, StartShare(c) PROVE \A d \in Calls : Fine(d)
  <2>1. /\ call[c] = "idle" /\ UNCHANGED <<init, bridge, frames>>
        /\ \/ call' = [call EXCEPT ![c] = "init"] /\ cap' = [cap EXCEPT ![c] = "select"]
           \/ call' = [call EXCEPT ![c] = "done"] /\ UNCHANGED cap
    BY <1>1 DEF StartShare, pipeVars
  <2>2. init[c] = None /\ bridge[c] = "off" /\ frames[c] = <<>>
    BY <1>0, <1>00, <2>1
  <2>3. cap[c] \in {"off", "select"} \/ cap[c] \notin {"off", "select"}
    OBVIOUS
  <2>4. CASE call' = [call EXCEPT ![c] = "done"] /\ UNCHANGED cap
    BY <1>0, <1>00, <2>1, <2>2, <2>4
  <2>5. CASE call' = [call EXCEPT ![c] = "init"] /\ cap' = [cap EXCEPT ![c] = "select"]
    BY <1>0, <1>00, <2>1, <2>2, <2>5
  <2> QED BY <2>1, <2>4, <2>5
<1>2. ASSUME NEW c \in Calls, InitResult(c) PROVE \A d \in Calls : Fine(d)
  <2>1. /\ UNCHANGED <<init, cap, frames>> /\ call[c] = "init"
        /\ \/ /\ init[c] = "ok" /\ call' = [call EXCEPT ![c] = "store"]
              /\ bridge' = [bridge EXCEPT ![c] = "run"]
           \/ call' = [call EXCEPT ![c] = "failed"] /\ bridge' = bridge
    BY <1>2 DEF InitResult
  <2>2. bridge[c] = "off"
    BY <1>0, <2>1
  <2> QED BY <1>0, <2>1, <2>2
<1>3. ASSUME NEW c \in Calls, Store(c) PROVE \A d \in Calls : Fine(d)
  <2>1. /\ UNCHANGED <<init, cap, bridge, frames>> /\ call[c] = "store"
        /\ call' = [call EXCEPT ![c] = "done"]
    BY <1>3 DEF Store, captureVars
  <2> QED BY <1>0, <2>1
<1>4. ASSUME NEW c \in Calls, SelectMonitor(c) \/ SelectDevice(c) PROVE \A d \in Calls : Fine(d)
  <2>1. /\ UNCHANGED <<call, bridge, frames>> /\ cap[c] = "select"
        /\ \/ init' = [init EXCEPT ![c] = "ok"] /\ cap' = [cap EXCEPT ![c] = "begin"]
           \/ init' = [init EXCEPT ![c] = "err"] /\ cap' = [cap EXCEPT ![c] = "end"]
    BY <1>4 DEF SelectMonitor, SelectDevice, Report, pipeVars
  <2>2. init[c] # "ok" /\ bridge[c] = "off"
    BY <1>0, <2>1
  <2>3. call[c] # "idle"
    BY <1>0, <2>1
  <2> QED BY <1>0, <2>1, <2>2, <2>3
<1>5. ASSUME NEW c \in Calls, NewHandler(c) \/ BuildStream(c) PROVE \A d \in Calls : Fine(d)
  <2>1. /\ UNCHANGED <<call, init, bridge, frames>> /\ cap[c] = "begin"
        /\ \E r \in {"run", "end"} : cap' = [cap EXCEPT ![c] = r]
    BY <1>5 DEF NewHandler, BuildStream, pipeVars
  <2> QED BY <1>0, <2>1
<1>6. ASSUME NEW c \in Calls, OnFrameArrived(c) \/ FlushFrames(c) PROVE \A d \in Calls : Fine(d)
  <2>1. /\ UNCHANGED <<call, init, cap, bridge>> /\ cap[c] = "run"
        /\ frames' = frames \/ \E f : frames' = [frames EXCEPT ![c] = f]
    BY <1>6 DEF OnFrameArrived, FlushFrames, Captured, Keep, pipeVars
  <2> QED BY <1>0, <2>1
<1>7. ASSUME NEW c \in Calls, CaptureEnds(c) \/ SourceGone(c) PROVE \A d \in Calls : Fine(d)
  <2>1. /\ UNCHANGED <<call, init, bridge, frames>> /\ cap[c] = "run"
        /\ \E r \in {"end", "mute"} : cap' = [cap EXCEPT ![c] = r]
    BY <1>7 DEF CaptureEnds, SourceGone, pipeVars
  <2> QED BY <1>0, <2>1
<1>8. ASSUME NEW c \in Calls, VideoBridge(c) \/ AudioBridge(c) PROVE \A d \in Calls : Fine(d)
  <2>1. /\ UNCHANGED <<call, init, cap, bridge>> /\ frames[c] # <<>>
        /\ frames' = [frames EXCEPT ![c] = Tail(frames[c])]
    BY <1>8 DEF VideoBridge, AudioBridge, Pass
  <2> QED BY <1>0, <2>1
<1>9. ASSUME NEW c \in Calls, BridgeEnds(c) PROVE \A d \in Calls : Fine(d)
  <2>1. /\ UNCHANGED <<call, init, cap, frames>> /\ bridge[c] = "run"
        /\ \E r \in {"done", bridge[c]} : bridge' = [bridge EXCEPT ![c] = r]
    BY <1>9 DEF BridgeEnds, captureVars
  <2> QED BY <1>0, <2>1
<1>10. ASSUME NEW c \in Calls, FanOut(c) \/ FanEnds(c) PROVE \A d \in Calls : Fine(d)
  BY <1>10, <1>a DEF FanOut, FanEnds, captureVars
<1>11. ASSUME NEW p \in Peers, Join(p) \/ Take(p) PROVE \A d \in Calls : Fine(d)
  BY <1>11, <1>a DEF Join, Take, captureVars, pipeVars
<1>12. ASSUME StopShare \/ MachineChanges \/ UNCHANGED vars PROVE \A d \in Calls : Fine(d)
  BY <1>12, <1>a DEF StopShare, MachineChanges, vars, captureVars, pipeVars
<1> QED BY <1>1, <1>2, <1>3, <1>4, <1>5, <1>6, <1>7, <1>8, <1>9, <1>10, <1>11, <1>12, <1>000,
           ShareActions

\* What was announced can be made: by the same chain, on the same machine.
LEMMA AnnouncedIsMade ==
  \A m : Announced(Backend, m) = IF Chosen(Backend, Announced(Backend, m), m) = NoEncoder
                                 THEN "plain" ELSE "coded"
<1> SUFFICES ASSUME NEW m
             PROVE  Announced(Backend, m)
                      = IF Chosen(Backend, Announced(Backend, m), m) = NoEncoder
                        THEN "plain" ELSE "coded"
  OBVIOUS
<1>1. CASE Backend = "openh264"
  BY <1>1 DEF Announced, Chosen, Cisco, NoEncoder
<1>2. CASE Backend # "openh264"
  BY <1>2 DEF Announced, Chosen, NewBest, NoEncoder
<1> QED BY <1>1, <1>2

\* What the capture thread makes stays what it announced.
LEMMA CaptureStep ==
  ASSUME ShareTypes, StagesFollow, CaptureFaithful, [Next]_vars
  PROVE  CaptureFaithful'
<1> DEFINE CF(cp, k, kind, f) ==
             /\ cp = "begin" => k = Announced(Backend, machine)
             /\ cp = "run" => k = IF kind = NoEncoder THEN "plain" ELSE "coded"
             /\ \A x \in ToSet(f) : x.codec = k
           Fine(d) == CF(cap'[d], codec'[d], enc'[d].kind, frames'[d])
<1>0. /\ cap \in [Calls -> {"off", "select", "begin", "run", "end", "mute"}]
      /\ codec \in [Calls -> Formats \cup {None}] /\ enc \in [Calls -> Encoder]
      /\ frames \in [Calls -> Seq(CapturedFrame)]
      /\ \A d \in Calls : cap[d] \in {"off", "select"} => frames[d] = <<>>
      /\ \A d \in Calls : init[d] = "ok" => cap[d] \notin {"off", "select"}
      /\ \A d \in Calls : call[d] = "idle" => cap[d] = "off"
  BY DEF ShareTypes, StageTypes, FrameTypes, StagesFollow
<1>00. medium' = medium /\ (spoiled = TRUE => spoiled' = TRUE)
       /\ (spoiled' = TRUE \/ machine' = machine)
  <2>1. spoiled = TRUE => spoiled' = TRUE
    BY CodecSettled
  <2>2. ASSUME NEW c \in Calls, StartShare(c) \/ InitResult(c) \/ Store(c)
        PROVE  medium' = medium /\ machine' = machine
    BY <2>2 DEF StartShare, InitResult, Store
  <2>3. ASSUME NEW c \in Calls,
               SelectMonitor(c) \/ SelectDevice(c) \/ NewHandler(c) \/ BuildStream(c)
        PROVE  medium' = medium /\ machine' = machine
    BY <2>3 DEF SelectMonitor, SelectDevice, NewHandler, BuildStream
  <2>4. ASSUME NEW c \in Calls,
               OnFrameArrived(c) \/ FlushFrames(c) \/ CaptureEnds(c) \/ SourceGone(c)
        PROVE  medium' = medium /\ machine' = machine
    BY <2>4 DEF OnFrameArrived, FlushFrames, CaptureEnds, SourceGone
  <2>5. ASSUME NEW c \in Calls,
               VideoBridge(c) \/ AudioBridge(c) \/ BridgeEnds(c) \/ FanOut(c) \/ FanEnds(c)
        PROVE  medium' = medium /\ machine' = machine
    BY <2>5 DEF VideoBridge, AudioBridge, Pass, BridgeEnds, FanOut, FanEnds
  <2>6. ASSUME NEW p \in Peers, Join(p) \/ Take(p)
        PROVE  medium' = medium /\ machine' = machine
    BY <2>6 DEF Join, Take
  <2>7. ASSUME StopShare \/ UNCHANGED vars PROVE medium' = medium /\ machine' = machine
    BY <2>7 DEF StopShare, vars
  <2>8. ASSUME MachineChanges PROVE medium' = medium /\ spoiled' = TRUE
    BY <2>8 DEF MachineChanges
  <2> QED BY <2>1, <2>2, <2>3, <2>4, <2>5, <2>6, <2>7, <2>8, ShareActions
<1>000. \A d \in Calls : enc[d] \in Encoder /\ enc[d].kind \in {NoEncoder, "openh264", "sync", "async"}
  BY <1>0, EncoderParts
<1> SUFFICES ASSUME medium = "video", spoiled' # TRUE, machine' = machine,
                    \A d \in Calls : CF(cap[d], codec[d], enc[d].kind, frames[d])
             PROVE  \A d \in Calls : Fine(d)
  <2>1. spoiled \in BOOLEAN
    BY DEF ShareTypes, OtherTypes
  <2>2. ASSUME medium' = "video", ~spoiled' PROVE \A d \in Calls : CF(cap[d], codec[d], enc[d].kind, frames[d])
    <3>1. medium = "video" /\ ~spoiled
      BY <1>00, <2>1, <2>2
    <3> QED BY <3>1 DEF CaptureFaithful
  <2>3. ASSUME medium' = "video", ~spoiled' PROVE \A d \in Calls : Fine(d)
    <3>1. spoiled' # TRUE /\ machine' = machine /\ medium = "video"
      BY <1>00, <2>3
    <3> QED BY <2>2, <2>3, <3>1
  <2>4. machine' = machine \/ spoiled'
    BY <1>00
  <2> QED BY <2>3, <2>4 DEF CaptureFaithful
<1>a. ASSUME UNCHANGED <<cap, codec, enc, frames>> PROVE \A d \in Calls : Fine(d)
  BY <1>a
<1>1. ASSUME NEW c \in Calls, StartShare(c) PROVE \A d \in Calls : Fine(d)
  <2>1. /\ UNCHANGED <<codec, enc, frames>>
        /\ cap' = cap \/ cap' = [cap EXCEPT ![c] = "select"]
    BY <1>1 DEF StartShare
  <2> QED BY <1>0, <2>1
<1>2. ASSUME NEW c \in Calls, InitResult(c) PROVE \A d \in Calls : Fine(d)
  <2>1. /\ UNCHANGED <<cap, enc, frames>>
        /\ codec' = codec \/ \E k \in Codecs(c) : codec' = [codec EXCEPT ![c] = k]
    BY <1>2 DEF InitResult
  <2>2. Codecs(c) = {codec[c]}
    BY DEF Codecs
  <2>3. codec' = codec
    BY <1>0, <2>1, <2>2
  <2> QED BY <1>a, <2>1, <2>3
<1>3. ASSUME NEW c \in Calls, Store(c) PROVE \A d \in Calls : Fine(d)
  BY <1>3, <1>a DEF Store, captureVars
<1>4. ASSUME NEW c \in Calls, SelectMonitor(c) PROVE \A d \in Calls : Fine(d)
  <2>1. /\ cap[c] = "select" /\ UNCHANGED <<enc, frames>>
        /\ \/ /\ cap' = [cap EXCEPT ![c] = "begin"]
              /\ codec' = [codec EXCEPT ![c] = Announced(Backend, machine)]
           \/ cap' = [cap EXCEPT ![c] = "end"] /\ codec' = [codec EXCEPT ![c] = None]
    BY <1>4 DEF SelectMonitor, Report
  <2>2. frames[c] = <<>> /\ ToSet(frames[c]) = {}
    BY <1>0, <2>1, SetOfQueue
  <2> QED BY <1>0, <2>1, <2>2
<1>5. ASSUME NEW c \in Calls, SelectDevice(c) \/ BuildStream(c) \/ FlushFrames(c) PROVE FALSE
  BY <1>5 DEF SelectDevice, BuildStream, FlushFrames
<1>6. ASSUME NEW c \in Calls, NewHandler(c) PROVE \A d \in Calls : Fine(d)
  <2>1. /\ cap[c] = "begin" /\ UNCHANGED <<codec, frames>>
        /\ \/ /\ cap' = [cap EXCEPT ![c] = "run"]
              /\ enc' = [enc EXCEPT ![c].kind = Chosen(Backend, codec[c], machine)]
           \/ cap' = [cap EXCEPT ![c] = "end"] /\ UNCHANGED enc
    BY <1>6 DEF NewHandler
  <2>2. CASE cap' = [cap EXCEPT ![c] = "end"] /\ UNCHANGED enc
    BY <1>0, <2>1, <2>2
  <2>3. CASE /\ cap' = [cap EXCEPT ![c] = "run"]
             /\ enc' = [enc EXCEPT ![c].kind = Chosen(Backend, codec[c], machine)]
    <3>1. PICK k : k = Chosen(Backend, codec[c], machine)
      OBVIOUS
    <3>2. codec[c] = IF k = NoEncoder THEN "plain" ELSE "coded"
      BY <2>1, <3>1, AnnouncedIsMade
    <3>3. enc'[c].kind = k /\ \A d \in Calls \ {c} : enc'[d] = enc[d]
      BY <1>0, <1>000, <2>3, <3>1 DEF Encoder
    <3>4. cap'[c] = "run" /\ \A d \in Calls \ {c} : cap'[d] = cap[d]
      BY <1>0, <2>3
    <3> QED BY <2>1, <3>2, <3>3, <3>4
  <2> QED BY <2>1, <2>2, <2>3
<1>7. ASSUME NEW c \in Calls, OnFrameArrived(c) PROVE \A d \in Calls : Fine(d)
  <2>0. UNCHANGED <<cap, codec>>
    BY <1>7 DEF OnFrameArrived
  <2>1. cap[c] = "run"
    BY <1>7, FrameArrives
  <2>2. codec[c] = IF enc[c].kind = NoEncoder THEN "plain" ELSE "coded"
    BY <2>1
  <2>3. PICK f \in CapturedFrame :
          /\ \/ frames' = frames
             \/ frames' = [frames EXCEPT ![c] = Append(frames[c], f)] /\ f.codec = codec[c]
          /\ \A d \in Calls : enc'[d].kind = enc[d].kind
    <3>0. made[c] + 1 \in Nat
      <4>1. made[c] \in Nat
        BY <1>7, FrameArrives
      <4> QED BY <4>1
    <3>1. PICK one \in Seq(Nat) : one = <<made[c] + 1>>
      BY <3>0, EncoderParts
    <3>2. PICK plain \in CapturedFrame : plain = [codec |-> "plain", pay |-> one]
      BY DEF CapturedFrame, Formats
    <3>3. CASE GivesJpeg(c)
      BY <2>2, <3>1, <3>2, <3>3 DEF GivesJpeg
    <3>4. ASSUME NEW held \in {<<>>, enc[c].held}, NEW n, GivesCoded(c, held, n)
          PROVE  \E f \in CapturedFrame :
                   /\ frames' = [frames EXCEPT ![c] = Append(frames[c], f)] /\ f.codec = codec[c]
                   /\ \A d \in Calls : enc'[d].kind = enc[d].kind
      <4>0. held \in Seq(Nat)
        <5>1. enc[c].held \in Seq(Nat) /\ <<>> \in Seq(Nat)
          BY <1>000, EncoderParts
        <5> QED BY <5>1
      <4>1. PICK all \in Seq(Nat) : all = Append(held, made[c] + 1)
        <5>1. made[c] \in Nat
          BY <1>7, FrameArrives
        <5> QED BY <4>0, <5>1, EncoderParts
      <4>2. PICK u \in Seq(Nat), r \in Seq(Nat) :
              u = SubSeq(all, 1, n) /\ r = SubSeq(all, n + 1, Len(all))
        <5>1. n \in 0 .. Len(all)
          BY <3>4, <4>1 DEF GivesCoded
        <5> QED BY <5>1, CutInTwo
      <4>3. PICK f \in CapturedFrame : f = [codec |-> "coded", pay |-> u]
        BY DEF CapturedFrame, Formats
      <4>4. frames' = [frames EXCEPT ![c] = Append(frames[c], f)] /\ f.codec = codec[c]
        BY <2>2, <3>4, <4>1, <4>2, <4>3 DEF GivesCoded
      <4>5. PICK m, k : m = enc[c].count + 1 /\ k = enc[c].kind
        OBVIOUS
      <4>6. enc' = [enc EXCEPT ![c] = [kind |-> k, held |-> r, count |-> m]]
        BY <3>4, <4>1, <4>2, <4>5 DEF GivesCoded
      <4>7. \A d \in Calls : enc'[d].kind = enc[d].kind
        BY <1>0, <4>5, <4>6
      <4> QED BY <4>4, <4>7
    <3>5. ASSUME NEW held, GivesNothing(c, held)
          PROVE  frames' = frames /\ \A d \in Calls : enc'[d].kind = enc[d].kind
      <4>1. PICK m, k : m = enc[c].count + 1 /\ k = enc[c].kind
        OBVIOUS
      <4>2. enc' = [enc EXCEPT ![c] = [kind |-> k, held |-> held, count |-> m]]
        BY <3>5, <4>1 DEF GivesNothing
      <4>3. frames' = frames
        BY <3>5 DEF GivesNothing
      <4> QED BY <1>0, <4>1, <4>2, <4>3
    <3>6. PICK h \in {<<>>, enc[c].held} :
            \/ GivesJpeg(c) \/ NoJpeg
            \/ \E n : GivesCoded(c, h, n) \/ GaveInVain(c, h, n)
            \/ GivesNothing(c, h)
      BY <1>7, FrameArrives
    <3>9. CASE NoJpeg \/ \E n : GaveInVain(c, h, n)
      <4>1. CASE NoJpeg
        BY <3>2, <4>1 DEF NoJpeg
      <4>2. ASSUME NEW n, GaveInVain(c, h, n)
            PROVE  frames' = frames /\ \A d \in Calls : enc'[d].kind = enc[d].kind
        <5>1. \E held : GivesNothing(c, held)
          BY <4>2 DEF GaveInVain
        <5> QED BY <3>5, <5>1
      <4> QED BY <3>2, <3>9, <4>1, <4>2
    <3>7. CASE \E n : GivesCoded(c, h, n)
      <4>1. PICK n : GivesCoded(c, h, n)
        BY <3>7
      <4>2. PICK f \in CapturedFrame :
              /\ frames' = [frames EXCEPT ![c] = Append(frames[c], f)] /\ f.codec = codec[c]
              /\ \A d \in Calls : enc'[d].kind = enc[d].kind
        BY <3>4, <4>1
      <4> QED BY <4>2
    <3>8. CASE GivesNothing(c, h)
      <4>1. frames' = frames /\ \A d \in Calls : enc'[d].kind = enc[d].kind
        BY <3>5, <3>8
      <4> QED BY <3>2, <4>1
    <3> QED BY <3>3, <3>6, <3>7, <3>8, <3>9
  <2>4. ToSet(frames'[c]) \subseteq ToSet(frames[c]) \cup {x \in {f} : x.codec = codec[c]}
        /\ \A d \in Calls \ {c} : frames'[d] = frames[d]
    <3>1. frames[c] \in Seq(CapturedFrame)
      BY <1>0
    <3>2. ToSet(Append(frames[c], f)) = ToSet(frames[c]) \cup {f}
      BY <3>1, SetOfQueue
    <3>3. CASE frames' = frames
      BY <3>3
    <3>4. CASE frames' = [frames EXCEPT ![c] = Append(frames[c], f)] /\ f.codec = codec[c]
      <4>1. frames'[c] = Append(frames[c], f) /\ \A d \in Calls \ {c} : frames'[d] = frames[d]
        BY <1>0, <3>4
      <4> QED BY <3>2, <3>4, <4>1
    <3> QED BY <2>3, <3>3, <3>4
  <2> QED BY <2>0, <2>3, <2>4
<1>8. ASSUME NEW c \in Calls, CaptureEnds(c) \/ SourceGone(c) PROVE \A d \in Calls : Fine(d)
  <2>1. /\ UNCHANGED <<codec, enc, frames>>
        /\ \E r \in {"end", "mute"} : cap' = [cap EXCEPT ![c] = r]
    BY <1>8 DEF CaptureEnds, SourceGone
  <2> QED BY <1>0, <2>1
<1>9. ASSUME NEW c \in Calls, VideoBridge(c) \/ AudioBridge(c) PROVE \A d \in Calls : Fine(d)
  <2>1. /\ UNCHANGED <<cap, codec, enc>> /\ frames[c] # <<>>
        /\ frames' = [frames EXCEPT ![c] = Tail(frames[c])]
    BY <1>9 DEF VideoBridge, AudioBridge, Pass
  <2>2. ToSet(Tail(frames[c])) \subseteq ToSet(frames[c])
    <3>1. frames[c] \in Seq(CapturedFrame)
      BY <1>0
    <3> QED BY <2>1, <3>1, SetOfQueue
  <2>3. frames'[c] = Tail(frames[c]) /\ \A d \in Calls \ {c} : frames'[d] = frames[d]
    BY <1>0, <2>1
  <2> QED BY <2>1, <2>2, <2>3
<1>10. ASSUME NEW c \in Calls, BridgeEnds(c) \/ FanOut(c) \/ FanEnds(c) PROVE \A d \in Calls : Fine(d)
  BY <1>10, <1>a DEF BridgeEnds, FanOut, FanEnds, captureVars
<1>11. ASSUME NEW p \in Peers, Join(p) \/ Take(p) PROVE \A d \in Calls : Fine(d)
  BY <1>11, <1>a DEF Join, Take, captureVars
<1>12. ASSUME StopShare \/ MachineChanges \/ UNCHANGED vars PROVE \A d \in Calls : Fine(d)
  BY <1>12, <1>a DEF StopShare, MachineChanges, vars, captureVars
<1> QED BY <1>1, <1>2, <1>3, <1>4, <1>5, <1>6, <1>7, <1>8, <1>9, <1>10, <1>11, <1>12, ShareActions

\* A message that was faithful stays so.
LEMMA FaithfulStays ==
  ASSUME ShareTypes, StagesFollow, [Next]_vars
  PROVE  \A m \in Message : Faithful(m) => Faithful(m)'
<1> SUFFICES ASSUME NEW m \in Message, Faithful(m) PROVE Faithful(m)'
  OBVIOUS
<1>1. m.s \in Calls
  BY DEF Message
<1>2. codec'[m.s] = codec[m.s] /\ bridge'[m.s] # "off"
  BY <1>1, CodecSettled DEF Faithful
<1>3. m.k = "Start" => m.codec = codec'[m.s]
  BY <1>2 DEF Faithful
<1>4. m.k = "Frame" /\ ~(spoiled') => m.codec = codec'[m.s]
  <2>1. spoiled = TRUE => spoiled' = TRUE
    BY CodecSettled
  <2>2. spoiled \in BOOLEAN
    BY DEF ShareTypes, OtherTypes
  <2>3. m.k = "Frame" /\ ~spoiled => m.codec = codec[m.s]
    BY DEF Faithful
  <2> QED BY <1>2, <2>1, <2>2, <2>3
<1> QED BY <1>2, <1>3, <1>4 DEF Faithful

\* The queues of a share stay, but for a message that goes in, one that comes out, or one
\* that is passed on.
Same == UNCHANGED <<chan, link, rx, bridge>>
Starts(c, m) ==
  /\ bridge[c] = "off" /\ call[c] = "init" /\ init[c] = "ok"
  /\ \E k \in Codecs(c) : m = StartMsg(c, k) /\ codec' = [codec EXCEPT ![c] = k]
  /\ chan' = [chan EXCEPT ![c] = <<m>>] /\ bridge' = [bridge EXCEPT ![c] = "run"]
  /\ UNCHANGED <<link, rx, made, frames, enc>>
Ends(c, m) ==
  /\ bridge[c] = "run" /\ m = StopMsg(c) /\ chan' = [chan EXCEPT ![c] = Append(chan[c], m)]
  /\ bridge' = [bridge EXCEPT ![c] = "done"]
  /\ UNCHANGED <<link, rx, made, frames, enc, codec>>
FansOut(c, m) ==
  /\ chan[c] # <<>> /\ m = Head(chan[c]) /\ chan' = [chan EXCEPT ![c] = Tail(chan[c])]
  /\ \A p \in Peers : link'[p] \in {link[p], Append(link[p], m)}
  /\ UNCHANGED <<rx, bridge, made, frames, enc, codec>>

\* What else a step may do to the frames: capture one.
FramesStay == UNCHANGED <<made, frames, enc>>

\* How the steps move the messages.
LEMMA ShareMoves ==
  ASSUME ShareTypes, StagesFollow, [Next]_vars
  PROVE  \/ Same /\ FramesStay
         \/ Same /\ \E c \in Calls : NewHandler(c) \/ OnFrameArrived(c) \/ FlushFrames(c)
         \/ \E c \in Calls, m \in Message : Starts(c, m) \/ Ends(c, m) \/ FansOut(c, m)
         \/ \E c \in Calls, h \in CapturedFrame, m \in Message : Passes(c, h, m)
         \/ \E p \in Peers : Take(p)
<1> DEFINE Goal == \/ Same /\ FramesStay
                   \/ Same /\ \E c \in Calls : NewHandler(c) \/ OnFrameArrived(c) \/ FlushFrames(c)
                   \/ \E c \in Calls, m \in Message : Starts(c, m) \/ Ends(c, m) \/ FansOut(c, m)
                   \/ \E c \in Calls, h \in CapturedFrame, m \in Message : Passes(c, h, m)
                   \/ \E p \in Peers : Take(p)
<1>1. ASSUME NEW c \in Calls, StartShare(c) \/ Store(c) PROVE Goal
  <2>1. Same /\ FramesStay
    BY <1>1 DEF StartShare, Store, Same, FramesStay, pipeVars, peerVars, captureVars
  <2> QED BY <2>1
<1>2. ASSUME NEW c \in Calls, InitResult(c) PROVE Goal
  <2>1. CASE UNCHANGED <<chan, bridge>>
    <3>1. Same /\ FramesStay
      BY <1>2, <2>1 DEF InitResult, Same, FramesStay, peerVars
    <3> QED BY <3>1
  <2>2. ASSUME NEW k \in Codecs(c), init[c] = "ok", codec' = [codec EXCEPT ![c] = k],
               chan' = [chan EXCEPT ![c] = <<StartMsg(c, k)>>],
               bridge' = [bridge EXCEPT ![c] = "run"]
        PROVE  Goal
    <3>1. k \in Formats \cup {None}
      BY DEF Codecs, AudioCodecs, Formats, ShareTypes, StageTypes
    <3>2. PICK m \in Message : m = StartMsg(c, k)
      BY <3>1, MessageTypes
    <3>3. call[c] = "init" /\ UNCHANGED <<link, rx, made, frames, enc>>
      BY <1>2 DEF InitResult, peerVars
    <3>4. bridge[c] = "off"
      BY <3>3 DEF StagesFollow
    <3>5. Starts(c, m)
      BY <2>2, <3>2, <3>3, <3>4 DEF Starts
    <3> QED BY <3>5
  <2> QED BY <1>2, <2>1, <2>2 DEF InitResult
<1>3. ASSUME NEW c \in Calls, SelectMonitor(c) \/ SelectDevice(c) \/ BuildStream(c) PROVE Goal
  <2>1. Same /\ FramesStay
    BY <1>3 DEF SelectMonitor, SelectDevice, BuildStream, Same, FramesStay, pipeVars, peerVars
  <2> QED BY <2>1
<1>4. ASSUME NEW c \in Calls, NewHandler(c) \/ OnFrameArrived(c) \/ FlushFrames(c) PROVE Goal
  <2>1. Same
    BY <1>4 DEF NewHandler, OnFrameArrived, FlushFrames, Same, pipeVars, peerVars
  <2> QED BY <1>4, <2>1
<1>5. ASSUME NEW c \in Calls, CaptureEnds(c) \/ SourceGone(c) PROVE Goal
  <2>1. Same /\ FramesStay
    BY <1>5 DEF CaptureEnds, SourceGone, Same, FramesStay, pipeVars, peerVars
  <2> QED BY <2>1
<1>6. ASSUME NEW c \in Calls, VideoBridge(c) \/ AudioBridge(c) PROVE Goal
  BY <1>6, PassedOn
<1>7. ASSUME NEW c \in Calls, BridgeEnds(c) PROVE Goal
  <2>1. PICK m \in Message : m = StopMsg(c)
    BY MessageTypes
  <2>2. /\ bridge[c] = "run" /\ frames[c] = <<>>
        /\ chan' = [chan EXCEPT ![c] = Append(chan[c], m)]
        /\ UNCHANGED <<link, rx, made, frames, enc, codec>>
        /\ bridge' = [bridge EXCEPT ![c] = IF frames[c] = <<>> THEN "done" ELSE @]
    BY <1>7, <2>1 DEF BridgeEnds, Drained, peerVars, captureVars
  <2>3. Ends(c, m)
    BY <2>1, <2>2 DEF Ends
  <2> QED BY <2>3
<1>8. ASSUME NEW c \in Calls, FanOut(c) PROVE Goal
  <2>1. /\ chan[c] # <<>> /\ chan' = [chan EXCEPT ![c] = Tail(chan[c])]
        /\ link' = [p \in Peers |-> IF p \in sessions THEN Pushed(link[p], Head(chan[c]))
                                    ELSE link[p]]
        /\ UNCHANGED <<rx, bridge, made, frames, enc, codec>>
    BY <1>8 DEF FanOut, captureVars
  <2>2. PICK m \in Message : m = Head(chan[c])
    <3>1. chan[c] \in Seq(Message)
      BY DEF ShareTypes, ChannelTypes
    <3> QED BY <2>1, <3>1
  <2>3. \A p \in Peers : link'[p] \in {link[p], Append(link[p], m)}
    BY <2>1, <2>2 DEF Pushed
  <2>4. FansOut(c, m)
    BY <2>1, <2>2, <2>3 DEF FansOut
  <2> QED BY <2>4
<1>9. ASSUME NEW c \in Calls, FanEnds(c) PROVE Goal
  <2>1. Same /\ FramesStay
    BY <1>9 DEF FanEnds, Same, FramesStay, peerVars, captureVars
  <2> QED BY <2>1
<1>10. ASSUME NEW p \in Peers, Join(p) PROVE Goal
  <2>1. Same /\ FramesStay
    BY <1>10 DEF Join, Same, FramesStay, pipeVars, captureVars
  <2> QED BY <2>1
<1>11. ASSUME StopShare \/ MachineChanges \/ UNCHANGED vars PROVE Goal
  <2>1. Same /\ FramesStay
    BY <1>11 DEF StopShare, MachineChanges, vars, Same, FramesStay, pipeVars, peerVars, captureVars
  <2> QED BY <2>1
<1>12. ASSUME NEW p \in Peers, Take(p) PROVE Goal
  BY <1>12
<1> QED BY <1>1, <1>2, <1>3, <1>4, <1>5, <1>6, <1>7, <1>8, <1>9, <1>10, <1>11, <1>12, ShareActions

\* Messages are faithful to what was announced.
LEMMA MessagesStep ==
  ASSUME ShareTypes, StagesFollow, CaptureFaithful, MessagesFaithful, [Next]_vars
  PROVE  MessagesFaithful'
<1>0. /\ chan \in [Calls -> Seq(Message)] /\ link \in [Peers -> Seq(Message)]
      /\ codec \in [Calls -> Formats \cup {None}] /\ bridge \in [Calls -> {"off", "run", "done"}]
      /\ frames \in [Calls -> Seq(CapturedFrame)]
  BY DEF ShareTypes, ChannelTypes, StageTypes, FrameTypes
<1>1. /\ \A d \in Calls : \A x \in ToSet(chan[d]) : x \in Message /\ x.s = d /\ Faithful(x)'
      /\ \A p \in Peers : \A x \in ToSet(link[p]) : x \in Message /\ Faithful(x)'
  <2>1. /\ \A d \in Calls : ToSet(chan[d]) \subseteq Message
        /\ \A p \in Peers : ToSet(link[p]) \subseteq Message
    BY <1>0, SetOfQueue
  <2> QED BY <2>1, FaithfulStays DEF MessagesFaithful
<1>a. ASSUME \A d \in Calls : \A x \in ToSet(chan'[d]) : x.s = d /\ Faithful(x)',
             \A p \in Peers : \A x \in ToSet(link'[p]) : Faithful(x)'
      PROVE  MessagesFaithful'
  BY <1>a DEF MessagesFaithful
<1>b. ASSUME NEW c \in Calls, NEW m \in Message, m.s = c, Faithful(m)', link' = link,
             chan' = [chan EXCEPT ![c] = <<m>>]
               \/ chan' = [chan EXCEPT ![c] = Append(chan[c], m)]
      PROVE  MessagesFaithful'
  <2>1. chan[c] \in Seq(Message)
    BY <1>0
  <2>2. ToSet(Append(chan[c], m)) = ToSet(chan[c]) \cup {m} /\ ToSet(<<m>>) = {m}
    BY <2>1, SetOfQueue
  <2>3. ToSet(chan'[c]) \subseteq ToSet(chan[c]) \cup {m}
        /\ \A d \in Calls \ {c} : chan'[d] = chan[d]
    BY <1>0, <1>b, <2>2
  <2>4. \A d \in Calls : \A x \in ToSet(chan'[d]) : x.s = d /\ Faithful(x)'
    BY <1>1, <1>b, <2>3
  <2>5. \A p \in Peers : \A x \in ToSet(link'[p]) : Faithful(x)'
    BY <1>1, <1>b
  <2> QED BY <1>a, <2>4, <2>5
<1>2. CASE Same
  BY <1>1, <1>2, <1>a DEF Same
<1>3. ASSUME NEW c \in Calls, NEW m \in Message, Starts(c, m) PROVE MessagesFaithful'
  <2>1. PICK k : m = StartMsg(c, k) /\ codec' = [codec EXCEPT ![c] = k]
    BY <1>3 DEF Starts
  <2>2. m.s = c /\ m.k = "Start" /\ m.codec = k
    BY <2>1 DEF StartMsg
  <2>3. codec'[c] = k /\ bridge'[c] = "run"
    BY <1>0, <1>3, <2>1 DEF Starts
  <2>4. Faithful(m)'
    BY <2>2, <2>3 DEF Faithful
  <2>5. link' = link /\ chan' = [chan EXCEPT ![c] = <<m>>]
    BY <1>3 DEF Starts
  <2> QED BY <1>b, <2>2, <2>4, <2>5
<1>4. ASSUME NEW c \in Calls, NEW m \in Message, Ends(c, m) PROVE MessagesFaithful'
  <2>1. m.s = c /\ m.k = "Stop"
    BY <1>4 DEF Ends, StopMsg
  <2>2. bridge'[c] = "done"
    BY <1>0, <1>4 DEF Ends
  <2>3. Faithful(m)'
    BY <2>1, <2>2 DEF Faithful
  <2>4. link' = link /\ chan' = [chan EXCEPT ![c] = Append(chan[c], m)]
    BY <1>4 DEF Ends
  <2> QED BY <1>b, <2>1, <2>3, <2>4
<1>5. ASSUME NEW c \in Calls, NEW m \in Message, FansOut(c, m) PROVE MessagesFaithful'
  <2>1. chan[c] \in Seq(Message) /\ chan[c] # <<>>
    BY <1>0, <1>5 DEF FansOut
  <2>2. ToSet(chan[c]) = {m} \cup ToSet(Tail(chan[c]))
    BY <1>5, <2>1, SetOfQueue DEF FansOut
  <2>3. chan'[c] = Tail(chan[c]) /\ \A d \in Calls \ {c} : chan'[d] = chan[d]
    BY <1>0, <1>5 DEF FansOut
  <2>4. \A d \in Calls : \A x \in ToSet(chan'[d]) : x.s = d /\ Faithful(x)'
    BY <1>1, <2>2, <2>3
  <2>5. Faithful(m)'
    BY <1>1, <2>2
  <2>6. \A p \in Peers : ToSet(Append(link[p], m)) = ToSet(link[p]) \cup {m}
    BY <1>0, SetOfQueue
  <2>7. \A p \in Peers : \A x \in ToSet(link'[p]) : Faithful(x)'
    <3> SUFFICES ASSUME NEW p \in Peers, NEW x \in ToSet(link'[p]) PROVE Faithful(x)'
      OBVIOUS
    <3>1. link'[p] = link[p] \/ link'[p] = Append(link[p], m)
      BY <1>5 DEF FansOut
    <3>2. x \in ToSet(link[p]) \/ x = m
      BY <2>6, <3>1
    <3> QED BY <1>1, <2>5, <3>2
  <2> QED BY <1>a, <2>4, <2>7
<1>6. ASSUME NEW c \in Calls, NEW h \in CapturedFrame, NEW m \in Message, Passes(c, h, m)
      PROVE  MessagesFaithful'
  <2>1. m.s = c /\ m.k = "Frame" /\ bridge[c] = "run" /\ UNCHANGED <<codec, bridge, link>>
    BY <1>6 DEF Passes
  <2>2. ASSUME ~(spoiled') PROVE m.codec = codec[c]
    <3>1. CASE m.codec = codec[c]
      BY <3>1
    <3>2. CASE medium = "video" /\ m.codec = h.codec
      <4>1. frames[c] \in Seq(CapturedFrame) /\ frames[c] # <<>> /\ h = Head(frames[c])
        BY <1>0, <1>6 DEF Passes
      <4>2. h \in ToSet(frames[c])
        BY <4>1, SetOfQueue
      <4>3. ~spoiled
        <5>1. spoiled = TRUE => spoiled' = TRUE
          BY CodecSettled
        <5>2. spoiled \in BOOLEAN
          BY DEF ShareTypes, OtherTypes
        <5> QED BY <2>2, <5>1, <5>2
      <4> QED BY <3>2, <4>2, <4>3 DEF CaptureFaithful
    <3>3. \/ medium = "video" /\ m.codec = h.codec
          \/ m.codec = codec[c]
          \/ spoiled' = TRUE
      BY <1>6 DEF Passes
    <3> QED BY <2>2, <3>1, <3>2, <3>3
  <2>3. Faithful(m)'
    BY <2>1, <2>2 DEF Faithful
  <2>4. chan' = [chan EXCEPT ![c] = Append(chan[c], m)]
    BY <1>6 DEF Passes
  <2> QED BY <1>b, <2>1, <2>3, <2>4
<1>7. ASSUME NEW p \in Peers, Take(p) PROVE MessagesFaithful'
  <2>1. chan' = chan /\ link[p] # <<>> /\ link' = [link EXCEPT ![p] = Tail(link[p])]
    BY <1>7, PeerTakes
  <2>2. link[p] \in Seq(Message)
    BY <1>0
  <2>3. ToSet(Tail(link[p])) \subseteq ToSet(link[p])
    BY <2>1, <2>2, SetOfQueue
  <2>4. link'[p] = Tail(link[p]) /\ \A q \in Peers \ {p} : link'[q] = link[q]
    BY <1>0, <2>1
  <2>5. \A q \in Peers : \A x \in ToSet(link'[q]) : Faithful(x)'
    BY <1>1, <2>3, <2>4
  <2> QED BY <1>1, <1>a, <2>1, <2>5
<1> QED BY <1>2, <1>3, <1>4, <1>5, <1>6, <1>7, ShareMoves

\* Peers know the codec of the stream they follow.
LEMMA PeersStep ==
  ASSUME ShareTypes, StagesFollow, MessagesFaithful, PeersFollow, [Next]_vars
  PROVE  PeersFollow'
<1> DEFINE Knows(r) == r.stream # NoCall => bridge'[r.stream] # "off" /\ r.codec = codec'[r.stream]
<1>0. rx \in [Peers -> Receiver] /\ \A p \in Peers : rx[p].stream \in Calls \cup {NoCall}
  BY DEF ShareTypes, Receiver
<1>1. \A p \in Peers : Knows(rx[p])
  BY <1>0, CodecSettled DEF PeersFollow
<1>2. CASE rx' = rx
  BY <1>1, <1>2 DEF PeersFollow
<1>3. ASSUME NEW p \in Peers, Take(p) PROVE PeersFollow'
  <2>1. PICK m \in Message, pos \in [Calls -> Nat] :
          /\ link[p] # <<>> /\ m = Head(link[p])
          /\ rx' = [rx EXCEPT ![p] = [codec |-> CodecAfter(p, m), stream |-> StreamAfter(p, m),
                                      pos |-> pos]]
          /\ UNCHANGED <<codec, bridge>>
    BY <1>3, PeerTakes
  <2>2. link[p] \in Seq(Message)
    BY DEF ShareTypes, ChannelTypes
  <2>3. Faithful(m) /\ m.s \in Calls /\ m.k \in {"Start", "Frame", "Stop"}
    <3>1. m \in ToSet(link[p])
      BY <2>1, <2>2, SetOfQueue
    <3> QED BY <3>1 DEF MessagesFaithful, Message
  <2>4. PICK r : r = [codec |-> CodecAfter(p, m), stream |-> StreamAfter(p, m), pos |-> pos]
    OBVIOUS
  <2>5. Knows(r)
    <3>1. CASE m.k = "Start"
      <4>1. r.stream = m.s /\ r.codec = m.codec
        BY <2>4, <3>1 DEF CodecAfter, StreamAfter
      <4> QED BY <2>1, <2>3, <3>1, <4>1 DEF Faithful
    <3>2. CASE m.k = "Frame"
      <4>1. r.stream = rx[p].stream /\ r.codec = rx[p].codec
        BY <2>4, <3>2 DEF CodecAfter, StreamAfter
      <4> QED BY <1>1, <4>1
    <3>3. CASE m.k = "Stop"
      <4>1. r.stream = NoCall
        BY <2>4, <3>3 DEF StreamAfter
      <4> QED BY <4>1
    <3> QED BY <2>3, <3>1, <3>2, <3>3
  <2>6. rx'[p] = r /\ \A q \in Peers \ {p} : rx'[q] = rx[q]
    BY <1>0, <2>1, <2>4
  <2>7. \A q \in Peers : Knows(rx'[q])
    BY <1>1, <2>5, <2>6
  <2> QED BY <2>7 DEF PeersFollow
<1> QED BY <1>2, <1>3, ShareMoves DEF Same, Starts, Ends, FansOut, Passes

\* A share begins as the invariant says.
LEMMA ShareStarts == Init => ShareInv
<1> SUFFICES ASSUME Init PROVE ShareInv
  OBVIOUS
<1>0. MaxFrames \in [Calls -> Nat] /\ MaxFaults \in Nat /\ ChanCap \in Nat /\ LinkCap \in Nat
      /\ Slow \subseteq Peers /\ Machines # {}
  BY ShareBounds
<1>1. \A S : <<>> \in Seq(S) /\ Len(<<>>) = 0
  OBVIOUS
<1>2. ToSet(<<>>) = {}
  BY SetOfQueue
<1>3. machine \in Machines
  <2>1. (CHOOSE m \in Machines : TRUE) \in Machines
    BY <1>0
  <2> QED BY <2>1 DEF Init
<1>4. StageTypes
  BY <1>3 DEF Init, StageTypes
<1>5. OtherTypes
  <2>1. 0 \in 0 .. MaxFaults
    BY <1>0
  <2> QED BY <1>0, <2>1 DEF Init, OtherTypes
<1>6. FrameTypes
  <2>1. [kind |-> NoEncoder, held |-> <<>>, count |-> 0] \in Encoder
    BY <1>1 DEF Encoder
  <2>2. /\ enc \in [Calls -> Encoder] /\ made = [c \in Calls |-> 0]
        /\ frames = [c \in Calls |-> <<>>]
    BY <2>1 DEF Init
  <2>3. made \in [Calls -> Nat] /\ frames \in [Calls -> Seq(CapturedFrame)]
    BY <1>1, <2>2
  <2>4. \A c \in Calls : made[c] <= MaxFrames[c] /\ Len(frames[c]) <= made[c]
    BY <1>0, <1>1, <2>2
  <2> QED BY <2>2, <2>3, <2>4 DEF FrameTypes
<1>7. ChannelTypes
  <2>1. chan = [c \in Calls |-> <<>>] /\ link = [p \in Peers |-> <<>>]
    BY DEF Init
  <2>2. chan \in [Calls -> Seq(Message)] /\ link \in [Peers -> Seq(Message)]
    BY <1>1, <2>1
  <2>3. (\A c \in Calls : Len(chan[c]) <= ChanCap) /\ \A p \in Peers : Len(link[p]) <= LinkCap
    BY <1>0, <1>1, <2>1
  <2> QED BY <2>2, <2>3 DEF ChannelTypes
<1>8. rx \in [Peers -> Receiver]
  <2>1. NoStream \in Receiver
    BY DEF NoStream, Receiver
  <2> QED BY <2>1 DEF Init
<1>9. StagesFollow
  BY DEF Init, StagesFollow, None
<1>10. MessagesFaithful
  BY <1>2 DEF Init, MessagesFaithful
<1>11. CaptureFaithful
  BY <1>2 DEF Init, CaptureFaithful
<1>12. PeersFollow
  BY DEF Init, PeersFollow, NoStream
<1> QED BY <1>4, <1>5, <1>6, <1>7, <1>8, <1>9, <1>10, <1>11, <1>12 DEF ShareInv, ShareTypes

\* ... and stays so.
LEMMA ShareStep == ASSUME ShareInv, [Next]_vars PROVE ShareInv'
<1> USE DEF ShareInv
<1>1. ShareTypes' /\ StagesFollow'
  BY ShareTypesStep, StagesStep
<1>2. CaptureFaithful'
  BY CaptureStep
<1>3. MessagesFaithful'
  BY MessagesStep
<1>4. PeersFollow'
  BY PeersStep
<1> QED BY <1>1, <1>2, <1>3, <1>4

\* The types of a share, that commands, tasks and messages keep to their stages, and that
\* messages and peers have the codec announced, hold always (start_video_share,
\* run_capture_thread, FrameEncoderHandler::new).
THEOREM ShareInvHolds == Spec => []ShareInv
<1>1. Init => ShareInv
  BY ShareStarts
<1>2. ShareInv /\ [Next]_vars => ShareInv'
  BY ShareStep
<1> QED BY <1>1, <1>2, PTL DEF Spec

\* Every variable has its type, and the channels keep their capacities (start_video_share,
\* start_audio_share).
THEOREM ShareTypeOKHolds == Spec => []TypeOK
<1>1. ShareInv => TypeOK
  BY ShareTypesMean DEF ShareInv
<1> QED BY <1>1, ShareInvHolds, PTL

\* A peer garbles no frame of the stream it follows, as long as the machine stays as it is
\* and Opus refuses no frame (run_capture_thread, FrameEncoderHandler::new, on_video_frame).
THEOREM FollowsItsCodecHolds == Spec => FollowsItsCodec
<1> DEFINE Safe == \A p \in Peers : p \in garbled' \ garbled =>
                     spoiled \/ rx[p].stream # Head(link[p]).s
<1>1. ASSUME ShareInv, [Next]_vars PROVE Safe
  <2> SUFFICES ASSUME NEW p \in Peers, p \in garbled', p \notin garbled, ~spoiled,
                      rx[p].stream = Head(link[p]).s
               PROVE  FALSE
    OBVIOUS
  <2>1. Take(p)
    <3>1. ASSUME NEW c \in Calls, StartShare(c) \/ InitResult(c) \/ Store(c)
          PROVE  garbled' = garbled
      BY <3>1 DEF StartShare, InitResult, Store, peerVars
    <3>2. ASSUME NEW c \in Calls,
                 SelectMonitor(c) \/ SelectDevice(c) \/ NewHandler(c) \/ BuildStream(c)
          PROVE  garbled' = garbled
      BY <3>2 DEF SelectMonitor, SelectDevice, NewHandler, BuildStream, peerVars
    <3>3. ASSUME NEW c \in Calls,
                 OnFrameArrived(c) \/ FlushFrames(c) \/ CaptureEnds(c) \/ SourceGone(c)
          PROVE  garbled' = garbled
      BY <3>3 DEF OnFrameArrived, FlushFrames, CaptureEnds, SourceGone, peerVars
    <3>4. ASSUME NEW c \in Calls,
                 VideoBridge(c) \/ AudioBridge(c) \/ BridgeEnds(c) \/ FanOut(c) \/ FanEnds(c)
          PROVE  garbled' = garbled
      BY <3>4 DEF VideoBridge, AudioBridge, Pass, BridgeEnds, FanOut, FanEnds, peerVars
    <3>5. ASSUME NEW q \in Peers, Join(q) PROVE garbled' = garbled
      BY <3>5 DEF Join
    <3>6. ASSUME StopShare \/ MachineChanges \/ UNCHANGED vars PROVE garbled' = garbled
      BY <3>6 DEF StopShare, MachineChanges, vars, peerVars
    <3>7. ASSUME NEW q \in Peers, Take(q), q # p PROVE p \notin garbled'
      <4>1. garbled' \subseteq garbled \cup {q}
        BY <3>7 DEF Take
      <4> QED BY <3>7, <4>1
    <3> QED BY <1>1, <3>1, <3>2, <3>3, <3>4, <3>5, <3>6, <3>7, ShareActions
  <2>2. PICK m \in Message : /\ link[p] # <<>> /\ m = Head(link[p])
                             /\ garbled' = garbled \cup {q \in {p} : Garbles(p, m)}
    <3>1. ShareTypes
      BY <1>1 DEF ShareInv
    <3> QED BY <2>1, <3>1, PeerTakes
  <2>3. m.k = "Frame" /\ (rx[p].codec = "coded") # (m.codec = "coded")
    <3>1. Garbles(p, m)
      BY <2>2
    <3> QED BY <3>1 DEF Garbles
  <2>4. m \in ToSet(link[p])
    <3>1. link[p] \in Seq(Message)
      BY <1>1 DEF ShareInv, ShareTypes, ChannelTypes
    <3> QED BY <2>2, <3>1, SetOfQueue
  <2>5. m.codec = codec[m.s] /\ m.s \in Calls
    BY <1>1, <2>3, <2>4 DEF ShareInv, MessagesFaithful, Faithful, Message
  <2>6. rx[p].codec = codec[m.s]
    <3>1. rx[p].stream = m.s /\ m.s # NoCall
      BY <2>2, <2>5, ShareBounds
    <3> QED BY <1>1, <3>1 DEF ShareInv, PeersFollow
  <2> QED BY <2>3, <2>5, <2>6
<1>2. ShareInv /\ [Next]_vars => [Safe]_vars
  BY <1>1
<1> QED BY <1>2, ShareInvHolds, PTL DEF Spec, FollowsItsCodec

-----------------------------------------------------------------------------
(* The order of a stream on its way (MediaShare).                            *)

\* A message that moves its stream on: all but a frame without content.
Moves(m, c) == m.s = c /\ ~(m.k = "Frame" /\ m.pay = <<>>)

\* The messages of a stream are in order, at most, at least at a place.
NonDecr(q, c) ==
  \A i, j \in DOMAIN q : i < j /\ Moves(q[i], c) /\ Moves(q[j], c) => Place(q[i]) <= Place(q[j])
UpTo(q, c, x) == \A m \in ToSet(q) : Moves(m, c) => Place(m) <= x
From(q, c, x) == \A m \in ToSet(q) : Moves(m, c) => x <= Place(m)

\* A stream to a peer: what the peer has, then its session's channel l, then the fan-out's.
Line(l, ch, k, c) ==
  /\ NonDecr(l, c) /\ NonDecr(ch, c) /\ From(l, c, k) /\ From(ch, c, k)
  /\ \A n \in ToSet(ch) : Moves(n, c) => UpTo(l, c, Place(n))
Below(l, ch, k, c, x) == k <= x /\ UpTo(l, c, x) /\ UpTo(ch, c, x)

\* What has left the bridge is at most at x.
Behind(c, x) == \A p \in Peers : Below(link[p], chan[c], rx[p].pos[c], c, x)

LinesInOrder == \A p \in Peers, c \in Calls : Line(link[p], chan[c], rx[p].pos[c], c)

\* The contents of the frames on their way to the bridge, and then those the encoder keeps,
\* are in order, up to the last frame captured.
Content(q) == \A i, j \in DOMAIN q : i < j /\ q[j].pay # <<>> => Last0(q[i].pay) <= Last0(q[j].pay)
Kept(q) == \A i, j \in DOMAIN q : i < j => q[i] <= q[j]
FramesOrdered ==
  \A c \in Calls :
    /\ Content(frames[c]) /\ Kept(enc[c].held)
    /\ \A f \in ToSet(frames[c]) : /\ Last0(f.pay) <= made[c]
                                   /\ \A h \in ToSet(enc[c].held) : Last0(f.pay) <= h
    /\ \A h \in ToSet(enc[c].held) : h <= made[c]

\* The frames of a stream that are still to leave the bridge: what comes is after the last
\* one captured, the others are on their way or kept by the encoder.
ToLeave(c) == {made[c]} \cup ToSet(enc[c].held)
                \cup {Last0(f.pay) : f \in {g \in ToSet(frames[c]) : g.pay # <<>>}}

\* None of them is behind what has left it.
BridgeAhead ==
  \A c \in Calls : /\ bridge[c] = "off" => Behind(c, 0)
                   /\ bridge[c] = "run" => \A x \in ToLeave(c) : Behind(c, 1 + x)

\* Only an encoder of H.264 keeps frames back, and there is none before the capture runs.
EncodersHold ==
  \A c \in Calls : /\ enc[c].kind = NoEncoder => enc[c].held = <<>>
                   /\ medium # "video" => enc[c].kind = NoEncoder
                   /\ cap[c] \in {"off", "select", "begin"} => enc[c].kind = NoEncoder

OrderInv == LinesInOrder /\ FramesOrdered /\ EncodersHold /\ BridgeAhead

-----------------------------------------------------------------------------
(* The order of a stream.                                                    *)

\* A queue stays in order when a message goes to its end, or one is taken from its head.
LEMMA NonDecrMoves ==
  ASSUME NEW c, NEW q \in Seq(Message), NonDecr(q, c)
  PROVE  /\ \A m \in Message : (Moves(m, c) => UpTo(q, c, Place(m))) => NonDecr(Append(q, m), c)
         /\ q # <<>> => /\ NonDecr(Tail(q), c)
                        /\ Moves(Head(q), c) => From(Tail(q), c, Place(Head(q)))
<1>1. ASSUME NEW m \in Message, Moves(m, c) => UpTo(q, c, Place(m)) PROVE NonDecr(Append(q, m), c)
  <2>1. PICK n \in Nat : n = Len(q)
    OBVIOUS
  <2>2. PICK r : r = Append(q, m)
    OBVIOUS
  <2>3. /\ DOMAIN q = 1 .. n /\ DOMAIN r = 1 .. n + 1
        /\ \A i \in 1 .. n : r[i] = q[i]
        /\ r[n + 1] = m
    BY <2>1, <2>2
  <2>4. ASSUME NEW i \in 1 .. n + 1, NEW j \in 1 .. n + 1, i < j, Moves(r[i], c), Moves(r[j], c)
        PROVE  Place(r[i]) <= Place(r[j])
    <3>1. i \in 1 .. n
      BY <2>4
    <3>2. CASE j \in 1 .. n
      BY <2>3, <2>4, <3>1, <3>2 DEF NonDecr
    <3>3. CASE j = n + 1
      <4>1. r[j] = m /\ r[i] = q[i] /\ q[i] \in ToSet(q)
        BY <2>3, <3>1, <3>3 DEF ToSet
      <4> QED BY <1>1, <2>4, <4>1 DEF UpTo
    <3> QED BY <3>2, <3>3
  <2>5. NonDecr(r, c)
    BY <2>3, <2>4 DEF NonDecr
  <2> QED BY <2>2, <2>5
<1>2. ASSUME q # <<>> PROVE /\ NonDecr(Tail(q), c)
                            /\ Moves(Head(q), c) => From(Tail(q), c, Place(Head(q)))
  <2>1. PICK n \in Nat : Len(q) = n + 1
    BY <1>2, EmptySeq, LenProperties
  <2>2. PICK r : r = Tail(q)
    OBVIOUS
  <2>3. /\ DOMAIN q = 1 .. n + 1 /\ DOMAIN r = 1 .. n
        /\ \A i \in 1 .. n : r[i] = q[i + 1]
        /\ Head(q) = q[1]
    BY <1>2, <2>1, <2>2
  <2>4. ASSUME NEW i \in 1 .. n, NEW j \in 1 .. n, i < j, Moves(r[i], c), Moves(r[j], c)
        PROVE  Place(r[i]) <= Place(r[j])
    <3>1. PICK a \in 1 .. n + 1, b \in 1 .. n + 1 : a = i + 1 /\ b = j + 1
      OBVIOUS
    <3>2. a < b /\ r[i] = q[a] /\ r[j] = q[b]
      BY <2>3, <2>4, <3>1
    <3> QED BY <2>3, <2>4, <3>2 DEF NonDecr
  <2>5. NonDecr(r, c)
    BY <2>3, <2>4 DEF NonDecr
  <2>6. ASSUME Moves(Head(q), c), NEW m \in ToSet(r), Moves(m, c) PROVE Place(Head(q)) <= Place(m)
    <3>1. PICK i \in 1 .. n : m = r[i]
      BY <2>3 DEF ToSet
    <3>2. PICK a \in 1 .. n + 1, b \in 1 .. n + 1 : a = i + 1 /\ b = 1
      OBVIOUS
    <3>3. b < a /\ m = q[a] /\ Head(q) = q[b]
      BY <2>3, <3>1, <3>2
    <3> QED BY <2>3, <2>6, <3>3 DEF NonDecr
  <2>7. Moves(Head(q), c) => From(r, c, Place(Head(q)))
    BY <2>6 DEF From
  <2> QED BY <2>2, <2>5, <2>7
<1> QED BY <1>1, <1>2

\* Queues of one and of none are in order.
LEMMA NonDecrShort == \A c : NonDecr(<<>>, c) /\ \A m : NonDecr(<<m>>, c)
BY DEF NonDecr

\* Bounds pass on.
LEMMA BoundsPass ==
  ASSUME NEW c, NEW q \in Seq(Message), NEW x \in Nat, NEW y \in Nat, x <= y
  PROVE  (UpTo(q, c, x) => UpTo(q, c, y)) /\ (From(q, c, y) => From(q, c, x))
<1>1. \A m \in ToSet(q) : Place(m) \in Nat
  BY SetOfQueue, PlaceNat
<1> QED BY <1>1 DEF UpTo, From

\* A stream grows at its end.
LEMMA LineGrows ==
  ASSUME NEW c, NEW l \in Seq(Message), NEW ch \in Seq(Message), NEW k \in Nat, NEW m \in Message,
         Line(l, ch, k, c), Moves(m, c) => Below(l, ch, k, c, Place(m))
  PROVE  /\ Line(l, Append(ch, m), k, c)
         /\ \A x : Below(l, ch, k, c, x) /\ (Moves(m, c) => Place(m) <= x)
                     => Below(l, Append(ch, m), k, c, x)
<1>1. ToSet(Append(ch, m)) = ToSet(ch) \cup {m}
  BY SetOfQueue
<1>2. NonDecr(Append(ch, m), c)
  <2>1. Moves(m, c) => UpTo(ch, c, Place(m))
    BY DEF Below
  <2>2. NonDecr(ch, c)
    BY DEF Line
  <2> QED BY <2>1, <2>2, NonDecrMoves
<1>3. From(Append(ch, m), c, k)
  BY <1>1 DEF Line, Below, From
<1>4. \A n \in ToSet(Append(ch, m)) : Moves(n, c) => UpTo(l, c, Place(n))
  BY <1>1 DEF Line, Below
<1>5. Line(l, Append(ch, m), k, c)
  BY <1>2, <1>3, <1>4 DEF Line
<1>6. ASSUME NEW x, Below(l, ch, k, c, x), Moves(m, c) => Place(m) <= x
      PROVE  Below(l, Append(ch, m), k, c, x)
  BY <1>1, <1>6 DEF Below, UpTo
<1> QED BY <1>5, <1>6

\* A stream begins with one message.
LEMMA LineStarts ==
  ASSUME NEW c, NEW l \in Seq(Message), NEW ch \in Seq(Message), NEW k \in Nat, NEW m \in Message,
         Line(l, ch, k, c), Below(l, ch, k, c, 0), NEW x \in Nat, Place(m) <= x
  PROVE  Line(l, <<m>>, k, c) /\ Below(l, <<m>>, k, c, x)
<1>1. ToSet(<<m>>) = {m} /\ Place(m) \in Nat
  BY SetOfQueue, PlaceNat
<1>2. k <= 0 /\ UpTo(l, c, 0)
  BY DEF Below
<1>3. 0 <= Place(m) /\ 0 <= x
  BY <1>1
<1>4. k <= Place(m) /\ k <= x
  BY <1>1, <1>2, <1>3
<1>5. UpTo(l, c, Place(m)) /\ UpTo(l, c, x)
  BY <1>1, <1>2, <1>3, BoundsPass
<1>6. From(<<m>>, c, k) /\ UpTo(<<m>>, c, x)
  BY <1>1, <1>4 DEF From, UpTo
<1>7. \A n \in ToSet(<<m>>) : Moves(n, c) => UpTo(l, c, Place(n))
  BY <1>1, <1>5
<1> QED BY <1>4, <1>5, <1>6, <1>7, NonDecrShort DEF Line, Below

\* The fan-out gives the head of its channel to a session, or not.
LEMMA LineFans ==
  ASSUME NEW c, NEW l \in Seq(Message), NEW ch \in Seq(Message), NEW k \in Nat, NEW m \in Message,
         Line(l, ch, k, c), ch # <<>>, m = Head(ch)
  PROVE  /\ Line(l, Tail(ch), k, c) /\ Line(Append(l, m), Tail(ch), k, c)
         /\ \A x : Below(l, ch, k, c, x) =>
              Below(l, Tail(ch), k, c, x) /\ Below(Append(l, m), Tail(ch), k, c, x)
<1>1. /\ ToSet(ch) = {m} \cup ToSet(Tail(ch)) /\ ToSet(Append(l, m)) = ToSet(l) \cup {m}
      /\ Tail(ch) \in Seq(Message)
  <2>1. Tail(ch) \in Seq(Message)
    OBVIOUS
  <2> QED BY <2>1, SetOfQueue
<1>2. NonDecr(Tail(ch), c) /\ (Moves(m, c) => From(Tail(ch), c, Place(m)))
  BY NonDecrMoves DEF Line
<1>3. From(Tail(ch), c, k) /\ \A n \in ToSet(Tail(ch)) : Moves(n, c) => UpTo(l, c, Place(n))
  BY <1>1 DEF Line, From
<1>4. Line(l, Tail(ch), k, c)
  BY <1>2, <1>3 DEF Line
<1>5. NonDecr(Append(l, m), c)
  <2>1. Moves(m, c) => UpTo(l, c, Place(m))
    BY <1>1 DEF Line
  <2>2. NonDecr(l, c)
    BY DEF Line
  <2> QED BY <2>1, <2>2, NonDecrMoves
<1>6. From(Append(l, m), c, k)
  BY <1>1 DEF Line, From
<1>7. ASSUME NEW n \in ToSet(Tail(ch)), Moves(n, c) PROVE UpTo(Append(l, m), c, Place(n))
  <2>1. UpTo(l, c, Place(n))
    BY <1>3, <1>7
  <2>2. Moves(m, c) => Place(m) <= Place(n)
    BY <1>2, <1>7 DEF From
  <2> QED BY <1>1, <2>1, <2>2 DEF UpTo
<1>8. Line(Append(l, m), Tail(ch), k, c)
  BY <1>2, <1>3, <1>5, <1>6, <1>7 DEF Line
<1>9. ASSUME NEW x, Below(l, ch, k, c, x)
      PROVE  Below(l, Tail(ch), k, c, x) /\ Below(Append(l, m), Tail(ch), k, c, x)
  BY <1>1, <1>9 DEF Below, UpTo
<1> QED BY <1>4, <1>8, <1>9

\* A message of another stream in the session's channel is nothing to this one.
LEMMA LineOther ==
  ASSUME NEW c, NEW l \in Seq(Message), NEW ch \in Seq(Message), NEW k \in Nat, NEW m \in Message,
         Line(l, ch, k, c), ~Moves(m, c)
  PROVE  /\ Line(Append(l, m), ch, k, c)
         /\ \A x : Below(l, ch, k, c, x) => Below(Append(l, m), ch, k, c, x)
<1>1. ToSet(Append(l, m)) = ToSet(l) \cup {m}
  BY SetOfQueue
<1>2. NonDecr(Append(l, m), c)
  BY NonDecrMoves DEF Line
<1>3. From(Append(l, m), c, k) /\ \A x : UpTo(l, c, x) => UpTo(Append(l, m), c, x)
  BY <1>1 DEF Line, From, UpTo
<1> QED BY <1>2, <1>3 DEF Line, Below

\* The peer takes the head of its channel, and is at its place then.
LEMMA LineTakes ==
  ASSUME NEW c, NEW l \in Seq(Message), NEW ch \in Seq(Message), NEW k \in Nat, NEW m \in Message,
         Line(l, ch, k, c), l # <<>>, m = Head(l), NEW j \in Nat,
         j = IF Moves(m, c) THEN Place(m) ELSE k
  PROVE  /\ k <= j /\ Line(Tail(l), ch, j, c)
         /\ \A x : Below(l, ch, k, c, x) => Below(Tail(l), ch, j, c, x)
<1>1. ToSet(l) = {m} \cup ToSet(Tail(l)) /\ Place(m) \in Nat
  BY SetOfQueue, PlaceNat
<1>2. NonDecr(Tail(l), c) /\ (Moves(m, c) => From(Tail(l), c, Place(m)))
  BY NonDecrMoves DEF Line
<1>3. From(Tail(l), c, k) /\ (Moves(m, c) => k <= Place(m))
  BY <1>1 DEF Line, From
<1>4. \A n \in ToSet(ch) : Moves(n, c) => UpTo(Tail(l), c, Place(n))
  BY <1>1 DEF Line, UpTo
<1>5. Moves(m, c) => From(ch, c, Place(m))
  BY <1>1 DEF Line, UpTo, From
<1>6. From(ch, c, k) /\ NonDecr(ch, c)
  BY DEF Line
<1>7. Line(Tail(l), ch, j, c)
  <2>1. CASE Moves(m, c)
    BY <1>2, <1>4, <1>5, <1>6, <2>1 DEF Line
  <2>2. CASE ~Moves(m, c)
    BY <1>2, <1>3, <1>4, <1>6, <2>2 DEF Line
  <2> QED BY <2>1, <2>2
<1>8. ASSUME NEW x, Below(l, ch, k, c, x) PROVE Below(Tail(l), ch, j, c, x)
  <2>1. UpTo(Tail(l), c, x) /\ UpTo(ch, c, x) /\ k <= x /\ (Moves(m, c) => Place(m) <= x)
    BY <1>1, <1>8 DEF Below, UpTo
  <2> QED BY <2>1 DEF Below
<1>9. k <= j
  BY <1>3
<1> QED BY <1>7, <1>8, <1>9

\* A sequence of numbers in order stays so with one that is at least as large.
LEMMA KeptAppend ==
  ASSUME NEW h \in Seq(Nat), NEW k \in Nat, Kept(h), \A x \in ToSet(h) : x <= k
  PROVE  Kept(Append(h, k)) /\ ToSet(Append(h, k)) = ToSet(h) \cup {k}
<1>0. ToSet(Append(h, k)) = ToSet(h) \cup {k}
  BY SetOfQueue
<1>1. PICK n \in Nat : n = Len(h)
  OBVIOUS
<1>2. PICK r : r = Append(h, k)
  OBVIOUS
<1>3. /\ DOMAIN h = 1 .. n /\ DOMAIN r = 1 .. n + 1
      /\ \A i \in 1 .. n : r[i] = h[i]
      /\ r[n + 1] = k
  BY <1>1, <1>2
<1>4. ASSUME NEW i \in 1 .. n + 1, NEW j \in 1 .. n + 1, i < j PROVE r[i] <= r[j]
  <2>1. i \in 1 .. n
    BY <1>4
  <2>2. CASE j \in 1 .. n
    BY <1>3, <1>4, <2>1, <2>2 DEF Kept
  <2>3. CASE j = n + 1
    <3>1. r[j] = k /\ r[i] = h[i] /\ h[i] \in ToSet(h)
      BY <1>3, <2>1, <2>3 DEF ToSet
    <3> QED BY <3>1
  <2> QED BY <2>2, <2>3
<1>5. Kept(r)
  BY <1>3, <1>4 DEF Kept
<1> QED BY <1>0, <1>2, <1>5

\* Cut in two, the parts are in order, and the first before the second.
LEMMA KeptCut ==
  ASSUME NEW s, NEW u, NEW r, NEW n \in Nat, NEW b \in Nat,
         DOMAIN s = 1 .. n + b, DOMAIN u = 1 .. n, DOMAIN r = 1 .. b,
         \A i \in 1 .. n : u[i] = s[i], \A i \in 1 .. b : r[i] = s[n + i], Kept(s)
  PROVE  /\ Kept(r) /\ ToSet(r) \subseteq ToSet(s)
         /\ n > 0 => u[n] \in ToSet(s) /\ \A x \in ToSet(r) : u[n] <= x
<1>1. \A i \in 1 .. b : n + i \in 1 .. n + b
  OBVIOUS
<1>2. ASSUME NEW i \in 1 .. b, NEW j \in 1 .. b, i < j PROVE r[i] <= r[j]
  <2>1. PICK x \in 1 .. n + b, y \in 1 .. n + b : x = n + i /\ y = n + j
    BY <1>1
  <2>2. x < y /\ r[i] = s[x] /\ r[j] = s[y]
    BY <1>2, <2>1
  <2> QED BY <2>2 DEF Kept
<1>3. Kept(r)
  BY <1>2 DEF Kept
<1>4. ToSet(r) \subseteq ToSet(s)
  <2> SUFFICES ASSUME NEW i \in 1 .. b PROVE r[i] \in ToSet(s)
    BY DEF ToSet
  <2>1. PICK x \in 1 .. n + b : x = n + i
    BY <1>1
  <2>2. r[i] = s[x]
    BY <2>1
  <2> QED BY <2>2 DEF ToSet
<1>5. ASSUME n > 0 PROVE u[n] \in ToSet(s) /\ \A x \in ToSet(r) : u[n] <= x
  <2>1. n \in 1 .. n + b /\ u[n] = s[n]
    BY <1>5
  <2>2. ASSUME NEW i \in 1 .. b PROVE u[n] <= r[i]
    <3>1. PICK x \in 1 .. n + b : x = n + i
      BY <1>1
    <3>2. n < x /\ r[i] = s[x]
      BY <3>1
    <3> QED BY <2>1, <3>2 DEF Kept
  <2>3. \A x \in ToSet(r) : u[n] <= x
    BY <2>2 DEF ToSet
  <2> QED BY <2>1, <2>3 DEF ToSet
<1> QED BY <1>3, <1>4, <1>5

\* What an encoder gives back and what it keeps of the frames it has, in order.
LEMMA CutKept ==
  ASSUME NEW all \in Seq(Nat), Kept(all), NEW n \in 0 .. Len(all)
  PROVE  LET u == SubSeq(all, 1, n)
             r == SubSeq(all, n + 1, Len(all))
         IN  /\ Kept(r) /\ ToSet(r) \subseteq ToSet(all)
             /\ u # <<>> => Last0(u) \in ToSet(all)
             /\ \A x \in ToSet(r) : Last0(u) <= x
<1>1. PICK u \in Seq(Nat), r \in Seq(Nat) :
        /\ u = SubSeq(all, 1, n) /\ r = SubSeq(all, n + 1, Len(all))
        /\ Len(u) = n /\ \A i \in 1 .. n : u[i] = all[i]
        /\ Len(r) = Len(all) - n /\ \A i \in 1 .. Len(all) - n : r[i] = all[n + i]
  BY CutInTwo
<1>2. PICK l \in Nat : l = Len(all)
  OBVIOUS
<1>3. n \in Nat /\ n <= l
  BY <1>2
<1>4. PICK b \in Nat : b = l - n /\ l = n + b
  BY <1>3
<1>5. n + b = Len(all) /\ b = Len(r) /\ b = Len(all) - n
  BY <1>1, <1>2, <1>4
<1>6. DOMAIN all = 1 .. n + b
  BY <1>5
<1>7. DOMAIN u = 1 .. n
  BY <1>1
<1>8. DOMAIN r = 1 .. b
  <2>1. DOMAIN r = 1 .. Len(r)
    OBVIOUS
  <2> QED BY <1>5, <2>1
<1>9. \A i \in 1 .. b : r[i] = all[n + i]
  BY <1>1, <1>5
<1>10. \A i \in 1 .. n : u[i] = all[i]
  BY <1>1
<1>11. /\ Kept(r) /\ ToSet(r) \subseteq ToSet(all)
       /\ n > 0 => u[n] \in ToSet(all) /\ \A x \in ToSet(r) : u[n] <= x
  BY ONLY Kept(all), n \in Nat, b \in Nat, <1>3, <1>6, <1>7, <1>8, <1>9, <1>10, KeptCut
<1>12. /\ u # <<>> => Last0(u) \in ToSet(all)
       /\ \A x \in ToSet(r) : Last0(u) <= x
  <2>1. CASE n = 0
    <3>1. u = <<>>
      BY <1>1, <2>1
    <3>2. Last0(u) = 0
      BY <3>1 DEF Last0
    <3>3. ToSet(r) \subseteq Nat
      BY SetOfQueue
    <3> QED BY <3>1, <3>2, <3>3
  <2>2. CASE n # 0
    <3>1. n > 0
      BY <1>3, <2>2
    <3>2. u # <<>>
      BY <1>7, <3>1, <1>3
    <3>3. Last0(u) = u[n]
      BY <1>1, <3>2 DEF Last0
    <3> QED BY <1>11, <3>1, <3>3
  <2> QED BY <2>1, <2>2
<1> QED BY <1>1, <1>11, <1>12

\* A capture of call c adds one frame to what the encoder has, and a message or none to the
\* frames; what it keeps comes after what it gives.
Captures(c) ==
  /\ made[c] \in Nat /\ made' = [made EXCEPT ![c] = made[c] + 1]
  /\ \A d \in Calls : enc'[d].kind = enc[d].kind
  /\ \A d \in Calls \ {c} : enc'[d].held = enc[d].held
  /\ Kept(enc'[c].held)
  /\ ToSet(enc'[c].held) \subseteq ToSet(enc[c].held) \cup {made[c] + 1}
  /\ enc[c].kind = NoEncoder => enc'[c].held = <<>>
  /\ \/ frames' = frames
     \/ \E f \in CapturedFrame :
          /\ frames' = [frames EXCEPT ![c] = Append(frames[c], f)]
          /\ f.pay # <<>> => Last0(f.pay) \in ToSet(enc[c].held) \cup {made[c] + 1}
          /\ \A x \in ToSet(enc'[c].held) : Last0(f.pay) <= x
  /\ UNCHANGED <<cap, medium>>

\* That is what on_frame_arrived and flush_frames do.
LEMMA CaptureCaptures ==
  ASSUME ShareTypes, FramesOrdered, EncodersHold, NEW c \in Calls,
         OnFrameArrived(c) \/ FlushFrames(c)
  PROVE  Captures(c)
<1>0. /\ enc \in [Calls -> Encoder] /\ \A d \in Calls : enc[d].held \in Seq(Nat)
      /\ made[c] \in Nat /\ frames \in [Calls -> Seq(CapturedFrame)]
  BY EncoderParts DEF ShareTypes, FrameTypes
<1>1. Kept(enc[c].held) /\ \A x \in ToSet(enc[c].held) : x <= made[c]
  BY DEF FramesOrdered
<1>2. PICK k \in Nat : k = made[c] + 1
  BY <1>0
<1>3. \A x \in ToSet(enc[c].held) : x <= k
  BY <1>0, <1>1, <1>2, SetOfQueue
<1>4. UNCHANGED <<cap, medium>> /\ made' = [made EXCEPT ![c] = made[c] + 1]
  BY DEF OnFrameArrived, FlushFrames, Captured
<1>5. PICK one \in Seq(Nat) : one = <<k>> /\ Last0(one) = k
  BY EncoderParts DEF Last0
<1>a. ASSUME enc' = enc, enc[c].kind = NoEncoder, NEW kd \in Formats,
             frames' = [frames EXCEPT ![c] = Append(frames[c], [codec |-> kd, pay |-> <<k>>])]
      PROVE  Captures(c)
  <2>1. enc[c].held = <<>> /\ ToSet(enc[c].held) = {}
    BY <1>a, SetOfQueue DEF EncodersHold
  <2>2. PICK f \in CapturedFrame : f = [codec |-> kd, pay |-> one]
    BY DEF CapturedFrame
  <2>3. frames' = [frames EXCEPT ![c] = Append(frames[c], f)]
    BY <1>a, <1>5, <2>2
  <2>4. Last0(f.pay) = k
    BY <1>5, <2>2
  <2>5. enc'[c].held = <<>> /\ ToSet(enc'[c].held) = {}
    BY <1>a, <2>1
  <2>6. /\ \A d \in Calls : enc'[d].kind = enc[d].kind
        /\ \A d \in Calls \ {c} : enc'[d].held = enc[d].held
    BY <1>a
  <2>7. Kept(enc'[c].held)
    BY <2>5 DEF Kept
  <2>8. \E g \in CapturedFrame :
          /\ frames' = [frames EXCEPT ![c] = Append(frames[c], g)]
          /\ g.pay # <<>> => Last0(g.pay) \in ToSet(enc[c].held) \cup {made[c] + 1}
          /\ \A x \in ToSet(enc'[c].held) : Last0(g.pay) <= x
    BY <1>2, <2>3, <2>4, <2>5
  <2> QED BY <1>0, <1>4, <2>5, <2>6, <2>7, <2>8 DEF Captures
<1>6. CASE FlushFrames(c)
  <2>1. /\ medium = "audio" /\ enc' = enc
        /\ frames' = [frames EXCEPT ![c] = Append(frames[c], [codec |-> "plain", pay |-> <<made'[c]>>])]
    BY <1>6 DEF FlushFrames, Keep
  <2>2. made'[c] = k
    <3>1. made \in [Calls -> Nat]
      BY DEF ShareTypes, FrameTypes
    <3> QED BY <1>2, <1>4, <3>1
  <2>3. enc[c].kind = NoEncoder
    BY <2>1 DEF EncodersHold
  <2>4. "plain" \in Formats
    BY DEF Formats
  <2> QED BY <1>a, <2>1, <2>2, <2>3, <2>4
<1>7. CASE OnFrameArrived(c)
  <2>1. PICK h \in {<<>>, enc[c].held} :
          \/ GivesJpeg(c) \/ NoJpeg
          \/ \E n : GivesCoded(c, h, n) \/ GaveInVain(c, h, n)
          \/ GivesNothing(c, h)
    BY <1>7, FrameArrives
  <2>2. h \in Seq(Nat) /\ Kept(h) /\ ToSet(h) \subseteq ToSet(enc[c].held)
    <3>1. CASE h = <<>>
      <4>1. ToSet(<<>>) = {} /\ <<>> \in Seq(Nat)
        BY SetOfQueue
      <4> QED BY <3>1, <4>1 DEF Kept
    <3>2. CASE h = enc[c].held
      BY <1>0, <1>1, <3>2
    <3> QED BY <2>1, <3>1, <3>2
  <2>3. CASE GivesJpeg(c)
    <3>1. "plain" \in Formats
      BY DEF Formats
    <3> QED BY <1>2, <1>a, <2>3, <3>1 DEF GivesJpeg
  <2>4. ASSUME NEW n, GivesCoded(c, h, n) PROVE Captures(c)
    <3>0. Append(h, k) \in Seq(Nat)
      BY <1>0, <1>2, <2>2, EncoderParts
    <3>1. PICK all \in Seq(Nat) : all = Append(h, k)
      BY <3>0
    <3>2. n \in 0 .. Len(all) /\ enc[c].kind # NoEncoder
      BY <1>2, <2>4, <3>1 DEF GivesCoded
    <3>3. PICK u \in Seq(Nat), r \in Seq(Nat) :
            u = SubSeq(all, 1, n) /\ r = SubSeq(all, n + 1, Len(all))
      BY <3>2, CutInTwo
    <3>4. PICK f \in CapturedFrame : f = [codec |-> "coded", pay |-> u]
      BY DEF CapturedFrame, Formats
    <3>5. PICK m, kd : m = enc[c].count + 1 /\ kd = enc[c].kind
      OBVIOUS
    <3>6. /\ frames' = [frames EXCEPT ![c] = Append(frames[c], f)]
          /\ enc' = [enc EXCEPT ![c] = [kind |-> kd, held |-> r, count |-> m]]
      BY <1>2, <2>4, <3>1, <3>3, <3>4, <3>5 DEF GivesCoded
    <3>7. /\ \A d \in Calls : enc'[d].kind = enc[d].kind
          /\ \A d \in Calls \ {c} : enc'[d].held = enc[d].held
          /\ enc'[c].held = r
      BY <1>0, <3>5, <3>6
    <3>8. \A x \in ToSet(h) : x <= k
      BY <1>3, <2>2
    <3>9. /\ Kept(r) /\ ToSet(r) \subseteq ToSet(h) \cup {k}
          /\ u # <<>> => Last0(u) \in ToSet(h) \cup {k}
          /\ \A x \in ToSet(r) : Last0(u) <= x
      <4>1. Kept(all) /\ ToSet(all) = ToSet(h) \cup {k}
        <5>1. Kept(Append(h, k)) /\ ToSet(Append(h, k)) = ToSet(h) \cup {k}
          BY <1>2, <2>2, <3>8, KeptAppend
        <5> QED BY <3>1, <5>1
      <4>2. /\ Kept(r) /\ ToSet(r) \subseteq ToSet(all)
            /\ u # <<>> => Last0(u) \in ToSet(all)
            /\ \A x \in ToSet(r) : Last0(u) <= x
        BY <3>2, <3>3, <4>1, CutKept
      <4> QED BY <4>1, <4>2
    <3>10. \E g \in CapturedFrame :
             /\ frames' = [frames EXCEPT ![c] = Append(frames[c], g)]
             /\ g.pay # <<>> => Last0(g.pay) \in ToSet(enc[c].held) \cup {made[c] + 1}
             /\ \A x \in ToSet(enc'[c].held) : Last0(g.pay) <= x
      BY <1>2, <2>2, <3>4, <3>6, <3>7, <3>9
    <3>11. Kept(enc'[c].held) /\ ToSet(enc'[c].held) \subseteq ToSet(enc[c].held) \cup {made[c] + 1}
      BY <1>2, <2>2, <3>7, <3>9
    <3> QED BY <1>0, <1>4, <3>2, <3>7, <3>10, <3>11 DEF Captures
  <2>6. CASE NoJpeg
    <3>1. /\ enc' = enc /\ frames' = frames
          /\ \A d \in Calls : enc'[d].kind = enc[d].kind
          /\ \A d \in Calls \ {c} : enc'[d].held = enc[d].held
          /\ enc'[c].held = enc[c].held
      BY <2>6 DEF NoJpeg
    <3>2. enc[c].kind = NoEncoder => enc'[c].held = <<>>
      BY <3>1 DEF EncodersHold
    <3> QED BY <1>0, <1>1, <1>4, <3>1, <3>2 DEF Captures
  <2>7. ASSUME NEW n, GaveInVain(c, h, n) PROVE Captures(c)
    <3>0. Append(h, k) \in Seq(Nat)
      BY <1>0, <1>2, <2>2, EncoderParts
    <3>1. PICK all \in Seq(Nat) : all = Append(h, k)
      BY <3>0
    <3>2. n \in 0 .. Len(all) /\ enc[c].kind # NoEncoder
      BY <1>2, <2>7, <3>1 DEF GaveInVain
    <3>3. PICK u \in Seq(Nat), r \in Seq(Nat) :
            u = SubSeq(all, 1, n) /\ r = SubSeq(all, n + 1, Len(all))
      BY <3>2, CutInTwo
    <3>5. PICK m, kd : m = enc[c].count + 1 /\ kd = enc[c].kind
      OBVIOUS
    <3>6. /\ frames' = frames
          /\ enc' = [enc EXCEPT ![c] = [kind |-> kd, held |-> r, count |-> m]]
      BY <1>2, <2>7, <3>1, <3>3, <3>5 DEF GaveInVain, GivesNothing
    <3>7. /\ \A d \in Calls : enc'[d].kind = enc[d].kind
          /\ \A d \in Calls \ {c} : enc'[d].held = enc[d].held
          /\ enc'[c].held = r
      BY <1>0, <3>5, <3>6
    <3>8. \A x \in ToSet(h) : x <= k
      BY <1>3, <2>2
    <3>9. Kept(r) /\ ToSet(r) \subseteq ToSet(h) \cup {k}
      <4>1. Kept(all) /\ ToSet(all) = ToSet(h) \cup {k}
        <5>1. Kept(Append(h, k)) /\ ToSet(Append(h, k)) = ToSet(h) \cup {k}
          BY <1>2, <2>2, <3>8, KeptAppend
        <5> QED BY <3>1, <5>1
      <4>2. Kept(r) /\ ToSet(r) \subseteq ToSet(all)
        BY <3>2, <3>3, <4>1, CutKept
      <4> QED BY <4>1, <4>2
    <3>10. Kept(enc'[c].held) /\ ToSet(enc'[c].held) \subseteq ToSet(enc[c].held) \cup {made[c] + 1}
      BY <1>2, <2>2, <3>7, <3>9
    <3> QED BY <1>0, <1>4, <3>2, <3>6, <3>7, <3>10 DEF Captures
  <2>5. CASE GivesNothing(c, h)
    <3>5. PICK m, kd : m = enc[c].count + 1 /\ kd = enc[c].kind
      OBVIOUS
    <3>6. /\ frames' = frames
          /\ enc' = [enc EXCEPT ![c] = [kind |-> kd, held |-> h, count |-> m]]
      BY <2>5, <3>5 DEF GivesNothing
    <3>7. /\ \A d \in Calls : enc'[d].kind = enc[d].kind
          /\ \A d \in Calls \ {c} : enc'[d].held = enc[d].held
          /\ enc'[c].held = h
      BY <1>0, <3>5, <3>6
    <3>8. enc[c].kind = NoEncoder => h = <<>>
      BY <2>1 DEF EncodersHold
    <3> QED BY <1>0, <1>4, <2>2, <3>6, <3>7, <3>8 DEF Captures
  <2> QED BY <2>1, <2>3, <2>4, <2>5, <2>6, <2>7
<1> QED BY <1>6, <1>7

\* Frames stay in order when one is added that is not behind them, or the first is taken.
LEMMA ContentMoves ==
  ASSUME NEW q \in Seq(CapturedFrame), Content(q)
  PROVE  /\ \A f \in CapturedFrame :
              (f.pay # <<>> => \A g \in ToSet(q) : Last0(g.pay) <= Last0(f.pay))
                => Content(Append(q, f))
         /\ q # <<>> => /\ Content(Tail(q))
                        /\ \A g \in ToSet(Tail(q)) :
                             g.pay # <<>> => Last0(Head(q).pay) <= Last0(g.pay)
<1>1. ASSUME NEW f \in CapturedFrame,
             f.pay # <<>> => \A g \in ToSet(q) : Last0(g.pay) <= Last0(f.pay)
      PROVE  Content(Append(q, f))
  <2>1. PICK n \in Nat : n = Len(q)
    OBVIOUS
  <2>2. PICK r : r = Append(q, f)
    OBVIOUS
  <2>3. /\ DOMAIN q = 1 .. n /\ DOMAIN r = 1 .. n + 1
        /\ \A i \in 1 .. n : r[i] = q[i]
        /\ r[n + 1] = f
    BY <2>1, <2>2
  <2>4. ASSUME NEW i \in 1 .. n + 1, NEW j \in 1 .. n + 1, i < j, r[j].pay # <<>>
        PROVE  Last0(r[i].pay) <= Last0(r[j].pay)
    <3>1. i \in 1 .. n
      BY <2>4
    <3>2. CASE j \in 1 .. n
      BY <2>3, <2>4, <3>1, <3>2 DEF Content
    <3>3. CASE j = n + 1
      <4>1. r[j] = f /\ r[i] = q[i] /\ q[i] \in ToSet(q)
        BY <2>3, <3>1, <3>3 DEF ToSet
      <4> QED BY <1>1, <2>4, <4>1
    <3> QED BY <3>2, <3>3
  <2>5. Content(r)
    BY <2>3, <2>4 DEF Content
  <2> QED BY <2>2, <2>5
<1>2. ASSUME q # <<>>
      PROVE  /\ Content(Tail(q))
             /\ \A g \in ToSet(Tail(q)) : g.pay # <<>> => Last0(Head(q).pay) <= Last0(g.pay)
  <2>1. PICK n \in Nat : Len(q) = n + 1
    BY <1>2, EmptySeq, LenProperties
  <2>2. PICK r : r = Tail(q)
    OBVIOUS
  <2>3. /\ DOMAIN q = 1 .. n + 1 /\ DOMAIN r = 1 .. n
        /\ \A i \in 1 .. n : r[i] = q[i + 1]
        /\ Head(q) = q[1]
    BY <1>2, <2>1, <2>2
  <2>4. ASSUME NEW i \in 1 .. n, NEW j \in 1 .. n, i < j, r[j].pay # <<>>
        PROVE  Last0(r[i].pay) <= Last0(r[j].pay)
    <3>1. PICK a \in 1 .. n + 1, b \in 1 .. n + 1 : a = i + 1 /\ b = j + 1
      OBVIOUS
    <3>2. a < b /\ r[i] = q[a] /\ r[j] = q[b]
      BY <2>3, <2>4, <3>1
    <3> QED BY <2>3, <2>4, <3>2 DEF Content
  <2>5. Content(r)
    BY <2>3, <2>4 DEF Content
  <2>6. ASSUME NEW g \in ToSet(r), g.pay # <<>> PROVE Last0(Head(q).pay) <= Last0(g.pay)
    <3>1. PICK i \in 1 .. n : g = r[i]
      BY <2>3 DEF ToSet
    <3>2. PICK a \in 1 .. n + 1, b \in 1 .. n + 1 : a = i + 1 /\ b = 1
      OBVIOUS
    <3>3. b < a /\ g = q[a] /\ Head(q) = q[b]
      BY <2>3, <3>1, <3>2
    <3> QED BY <2>3, <2>6, <3>3 DEF Content
  <2> QED BY <2>2, <2>5, <2>6
<1> QED BY <1>1, <1>2

\* Only encoders of H.264 keep frames back, after each step.
LEMMA EncodersStep ==
  ASSUME ShareTypes, StagesFollow, FramesOrdered, EncodersHold, [Next]_vars
  PROVE  EncodersHold'
<1> DEFINE Early == {"off", "select", "begin"}
<1>0. /\ cap \in [Calls -> {"off", "select", "begin", "run", "end", "mute"}]
      /\ enc \in [Calls -> Encoder] /\ \A d \in Calls : call[d] = "idle" => cap[d] = "off"
  BY DEF ShareTypes, StageTypes, FrameTypes, StagesFollow
<1>a. ASSUME enc' = enc, medium' = medium, \A d \in Calls : cap'[d] \in Early => cap[d] \in Early
      PROVE  EncodersHold'
  BY <1>a DEF EncodersHold
<1>b. ASSUME NEW c \in Calls, cap[c] \in Early \/ cap'[c] \notin Early,
             \A d \in Calls \ {c} : cap'[d] = cap[d]
      PROVE  \A d \in Calls : cap'[d] \in Early => cap[d] \in Early
  BY <1>b
<1>1. ASSUME NEW c \in Calls, StartShare(c) PROVE EncodersHold'
  <2>1. call[c] = "idle" /\ UNCHANGED <<enc, medium>>
        /\ (cap' = cap \/ cap' = [cap EXCEPT ![c] = "select"])
    BY <1>1 DEF StartShare
  <2>2. cap[c] \in Early /\ \A d \in Calls \ {c} : cap'[d] = cap[d]
    BY <1>0, <2>1
  <2> QED BY <1>a, <1>b, <2>1, <2>2
<1>2. ASSUME NEW c \in Calls, InitResult(c) \/ Store(c) PROVE EncodersHold'
  BY <1>2, <1>a DEF InitResult, Store, captureVars
<1>3. ASSUME NEW c \in Calls, SelectMonitor(c) \/ SelectDevice(c) PROVE EncodersHold'
  <2>1. cap[c] = "select" /\ UNCHANGED <<enc, medium>>
        /\ \E r \in {"begin", "end"} : cap' = [cap EXCEPT ![c] = r]
    BY <1>3 DEF SelectMonitor, SelectDevice, Report
  <2>2. cap[c] \in Early /\ \A d \in Calls \ {c} : cap'[d] = cap[d]
    BY <1>0, <2>1
  <2> QED BY <1>a, <1>b, <2>1, <2>2
<1>4. ASSUME NEW c \in Calls, NewHandler(c) PROVE EncodersHold'
  <2>1. /\ medium = "video" /\ medium' = medium /\ cap[c] = "begin"
        /\ \/ /\ cap' = [cap EXCEPT ![c] = "run"]
              /\ enc' = [enc EXCEPT ![c].kind = Chosen(Backend, codec[c], machine)]
           \/ cap' = [cap EXCEPT ![c] = "end"] /\ enc' = enc
    BY <1>4 DEF NewHandler
  <2>2. CASE cap' = [cap EXCEPT ![c] = "end"] /\ enc' = enc
    <3>1. cap[c] \in Early /\ \A d \in Calls \ {c} : cap'[d] = cap[d]
      BY <1>0, <2>1, <2>2
    <3> QED BY <1>a, <1>b, <2>1, <2>2, <3>1
  <2>3. CASE /\ cap' = [cap EXCEPT ![c] = "run"]
             /\ enc' = [enc EXCEPT ![c].kind = Chosen(Backend, codec[c], machine)]
    <3>1. enc[c].held = <<>>
      BY <2>1 DEF EncodersHold
    <3>2. enc'[c].held = <<>> /\ \A d \in Calls \ {c} : enc'[d] = enc[d]
      BY <1>0, <2>3, <3>1 DEF Encoder
    <3>3. cap'[c] = "run" /\ \A d \in Calls \ {c} : cap'[d] = cap[d]
      BY <1>0, <2>3
    <3> QED BY <2>1, <3>2, <3>3 DEF EncodersHold
  <2> QED BY <2>1, <2>2, <2>3
<1>5. ASSUME NEW c \in Calls, BuildStream(c) PROVE EncodersHold'
  <2>1. cap[c] = "begin" /\ UNCHANGED <<enc, medium>>
        /\ \E r \in {"run", "end"} : cap' = [cap EXCEPT ![c] = r]
    BY <1>5 DEF BuildStream
  <2>2. cap[c] \in Early /\ \A d \in Calls \ {c} : cap'[d] = cap[d]
    BY <1>0, <2>1
  <2> QED BY <1>a, <1>b, <2>1, <2>2
<1>6. ASSUME NEW c \in Calls, OnFrameArrived(c) \/ FlushFrames(c) PROVE EncodersHold'
  <2>1. Captures(c)
    BY <1>6, CaptureCaptures
  <2>2. /\ UNCHANGED <<cap, medium>> /\ \A d \in Calls : enc'[d].kind = enc[d].kind
        /\ \A d \in Calls \ {c} : enc'[d].held = enc[d].held
        /\ enc[c].kind = NoEncoder => enc'[c].held = <<>>
    BY <2>1 DEF Captures
  <2> QED BY <2>2 DEF EncodersHold
<1>7. ASSUME NEW c \in Calls, CaptureEnds(c) \/ SourceGone(c) PROVE EncodersHold'
  <2>1. UNCHANGED <<enc, medium>> /\ \E r \in {"end", "mute"} : cap' = [cap EXCEPT ![c] = r]
    BY <1>7 DEF CaptureEnds, SourceGone
  <2>2. cap'[c] \notin Early /\ \A d \in Calls \ {c} : cap'[d] = cap[d]
    BY <1>0, <2>1
  <2> QED BY <1>a, <1>b, <2>1, <2>2
<1>8. ASSUME NEW c \in Calls, VideoBridge(c) \/ AudioBridge(c) PROVE EncodersHold'
  BY <1>8, <1>a DEF VideoBridge, AudioBridge, Pass
<1>9. ASSUME NEW c \in Calls, BridgeEnds(c) \/ FanOut(c) \/ FanEnds(c) PROVE EncodersHold'
  BY <1>9, <1>a DEF BridgeEnds, FanOut, FanEnds, captureVars
<1>10. ASSUME NEW p \in Peers, Join(p) \/ Take(p) PROVE EncodersHold'
  BY <1>10, <1>a DEF Join, Take, captureVars
<1>11. ASSUME StopShare \/ MachineChanges \/ UNCHANGED vars PROVE EncodersHold'
  BY <1>11, <1>a DEF StopShare, MachineChanges, vars, captureVars
<1> QED BY <1>1, <1>2, <1>3, <1>4, <1>5, <1>6, <1>7, <1>8, <1>9, <1>10, <1>11, ShareActions

\* A new handler keeps no frame back, and touches none.
LEMMA HandlerKeeps ==
  ASSUME ShareTypes, NEW c \in Calls, NewHandler(c)
  PROVE  UNCHANGED <<made, frames>> /\ \A d \in Calls : enc'[d].held = enc[d].held
<1>1. /\ UNCHANGED <<made, frames>>
      /\ \/ enc' = [enc EXCEPT ![c].kind = Chosen(Backend, codec[c], machine)]
         \/ enc' = enc
  BY DEF NewHandler
<1>2. enc \in [Calls -> Encoder]
  BY DEF ShareTypes, FrameTypes
<1> QED BY <1>1, <1>2 DEF Encoder

\* What is on its way to the bridge and what the encoders keep stays in order.
LEMMA FramesOrderedStep ==
  ASSUME ShareTypes, StagesFollow, FramesOrdered, EncodersHold, [Next]_vars
  PROVE  FramesOrdered'
<1> DEFINE FO(k, h, q) == /\ Content(q) /\ Kept(h)
                          /\ \A f \in ToSet(q) : Last0(f.pay) <= k /\ \A x \in ToSet(h) : Last0(f.pay) <= x
                          /\ \A x \in ToSet(h) : x <= k
           Fine(d) == FO(made'[d], enc'[d].held, frames'[d])
<1>0. /\ \A d \in Calls : FO(made[d], enc[d].held, frames[d])
      /\ made \in [Calls -> Nat] /\ frames \in [Calls -> Seq(CapturedFrame)]
      /\ \A d \in Calls : enc[d].held \in Seq(Nat)
  BY EncoderParts DEF FramesOrdered, ShareTypes, FrameTypes
<1>00. (\A d \in Calls : Fine(d)) => FramesOrdered'
  BY DEF FramesOrdered
<1>1. ASSUME UNCHANGED <<made, frames>>, \A d \in Calls : enc'[d].held = enc[d].held
      PROVE  \A d \in Calls : Fine(d)
  BY <1>0, <1>1
<1>2. ASSUME NEW c \in Calls, Captures(c) PROVE \A d \in Calls : Fine(d)
  <2> DEFINE Adds(f) == /\ frames' = [frames EXCEPT ![c] = Append(frames[c], f)]
                        /\ f.pay # <<>> => Last0(f.pay) \in ToSet(enc[c].held) \cup {made[c] + 1}
                        /\ \A x \in ToSet(enc'[c].held) : Last0(f.pay) <= x
  <2>1. /\ made' = [made EXCEPT ![c] = made[c] + 1]
        /\ \A d \in Calls \ {c} : enc'[d].held = enc[d].held
        /\ Kept(enc'[c].held)
        /\ ToSet(enc'[c].held) \subseteq ToSet(enc[c].held) \cup {made[c] + 1}
        /\ frames' = frames \/ \E f \in CapturedFrame : Adds(f)
    BY <1>2 DEF Captures
  <2>2. PICK k \in Nat, n \in Nat : k = made[c] /\ n = k + 1 /\ k <= n
    BY <1>0
  <2>3. made'[c] = n /\ \A d \in Calls \ {c} : made'[d] = made[d]
    BY <1>0, <2>1, <2>2
  <2>4. PICK h, g : h = enc[c].held /\ g = enc'[c].held
    OBVIOUS
  <2>5. /\ ToSet(h) \subseteq Nat /\ ToSet(g) \subseteq ToSet(h) \cup {n} /\ Kept(g)
        /\ \A x \in ToSet(h) : x <= k
    BY <1>0, <2>1, <2>2, <2>4, SetOfQueue
  <2>6. /\ \A x \in ToSet(g) : x <= n
        /\ \A x \in ToSet(h) : x <= n
    BY <2>2, <2>5
  <2>7. PICK q \in Seq(CapturedFrame) : q = frames[c]
    BY <1>0
  <2>8. /\ Content(q)
        /\ \A f \in ToSet(q) : /\ Last0(f.pay) \in Nat
                               /\ Last0(f.pay) <= k /\ \A x \in ToSet(h) : Last0(f.pay) <= x
    <3>1. ToSet(q) \subseteq CapturedFrame
      BY SetOfQueue
    <3>2. \A f \in CapturedFrame : Last0(f.pay) \in Nat
      BY PlaceNat DEF CapturedFrame
    <3>3. FO(k, h, q)
      BY <1>0, <2>2, <2>4, <2>7
    <3> QED BY <3>1, <3>2, <3>3
  <2>9. \A f \in ToSet(q) : Last0(f.pay) <= n /\ \A x \in ToSet(g) : Last0(f.pay) <= x
    <3>1. \A f \in ToSet(q) : Last0(f.pay) <= n
      BY <2>2, <2>8
    <3> QED BY <2>5, <2>8, <3>1
  <2>10. CASE frames' = frames
    <3>1. FO(n, g, q)
      BY <2>5, <2>6, <2>8, <2>9
    <3>2. Fine(c)
      BY <2>3, <2>4, <2>7, <2>10, <3>1
    <3>3. \A d \in Calls \ {c} : Fine(d)
      BY <1>0, <2>1, <2>3, <2>10
    <3> QED BY <3>2, <3>3
  <2>11. ASSUME NEW f \in CapturedFrame, Adds(f) PROVE \A d \in Calls : Fine(d)
    <3>1. /\ f.pay # <<>> => Last0(f.pay) \in ToSet(h) \cup {n}
          /\ \A x \in ToSet(g) : Last0(f.pay) <= x
      BY <2>2, <2>4, <2>11
    <3>2. Last0(f.pay) <= n
      <4>1. CASE f.pay = <<>>
        BY <4>1 DEF Last0
      <4>2. CASE f.pay # <<>>
        BY <2>6, <3>1, <4>2
      <4> QED BY <4>1, <4>2
    <3>3. f.pay # <<>> => \A x \in ToSet(q) : Last0(x.pay) <= Last0(f.pay)
      BY <2>8, <2>9, <3>1
    <3>4. PICK r : r = Append(q, f)
      OBVIOUS
    <3>5. Content(r) /\ ToSet(r) = ToSet(q) \cup {f}
      BY <2>8, <3>3, <3>4, ContentMoves, SetOfQueue
    <3>6. FO(n, g, r)
      BY <2>5, <2>6, <2>9, <3>1, <3>2, <3>5
    <3>7. frames'[c] = r /\ \A d \in Calls \ {c} : frames'[d] = frames[d]
      BY <1>0, <2>7, <2>11, <3>4
    <3>8. Fine(c)
      BY <2>3, <2>4, <3>6, <3>7
    <3>9. \A d \in Calls \ {c} : Fine(d)
      BY <1>0, <2>1, <2>3, <3>7
    <3> QED BY <3>8, <3>9
  <2> QED BY <2>1, <2>10, <2>11
<1>3. ASSUME NEW c \in Calls, NEW h, NEW m, Passes(c, h, m) PROVE \A d \in Calls : Fine(d)
  <2>1. /\ frames[c] # <<>> /\ frames' = [frames EXCEPT ![c] = Tail(frames[c])]
        /\ UNCHANGED <<made, enc>>
    BY <1>3 DEF Passes
  <2>2. PICK q \in Seq(CapturedFrame) : q = frames[c]
    BY <1>0
  <2>3. FO(made[c], enc[c].held, q)
    BY <1>0, <2>2
  <2>4. Content(Tail(q)) /\ ToSet(Tail(q)) \subseteq ToSet(q)
    <3>1. q # <<>> /\ Content(q)
      BY <2>1, <2>2, <2>3
    <3> QED BY <3>1, ContentMoves, SetOfQueue
  <2>5. FO(made[c], enc[c].held, Tail(q))
    BY <2>3, <2>4
  <2>6. frames'[c] = Tail(q) /\ \A d \in Calls \ {c} : frames'[d] = frames[d]
    BY <1>0, <2>1, <2>2
  <2>7. Fine(c)
    BY <2>1, <2>5, <2>6
  <2>8. \A d \in Calls \ {c} : Fine(d)
    BY <1>0, <2>1, <2>6
  <2> QED BY <2>7, <2>8
<1>4. ASSUME NEW c \in Calls, NewHandler(c) \/ OnFrameArrived(c) \/ FlushFrames(c)
      PROVE  \A d \in Calls : Fine(d)
  <2>1. CASE NewHandler(c)
    BY <1>1, <2>1, HandlerKeeps
  <2>2. CASE OnFrameArrived(c) \/ FlushFrames(c)
    BY <1>2, <2>2, CaptureCaptures
  <2> QED BY <1>4, <2>1, <2>2
<1>5. ASSUME NEW c \in Calls, NEW m, Starts(c, m) \/ Ends(c, m) \/ FansOut(c, m)
      PROVE  \A d \in Calls : Fine(d)
  <2>1. UNCHANGED <<made, frames, enc>>
    BY <1>5 DEF Starts, Ends, FansOut
  <2> QED BY <1>1, <2>1
<1>6. ASSUME NEW p \in Peers, Take(p) PROVE \A d \in Calls : Fine(d)
  <2>1. UNCHANGED <<made, frames, enc>>
    BY <1>6 DEF Take, captureVars
  <2> QED BY <1>1, <2>1
<1>7. CASE FramesStay
  <2>1. UNCHANGED <<made, frames, enc>>
    BY <1>7 DEF FramesStay
  <2> QED BY <1>00, <1>1, <2>1
<1> HIDE DEF Fine
<1> QED BY <1>00, <1>3, <1>4, <1>5, <1>6, <1>7, ShareMoves

\* What is behind a place is behind those after it.
LEMMA BehindPasses ==
  ASSUME ShareTypes, NEW c \in Calls, NEW x \in Nat, NEW y \in Nat, x <= y, Behind(c, x)
  PROVE  Behind(c, y)
<1> SUFFICES ASSUME NEW p \in Peers PROVE Below(link[p], chan[c], rx[p].pos[c], c, y)
  BY DEF Behind
<1>1. Below(link[p], chan[c], rx[p].pos[c], c, x)
  BY DEF Behind
<1>2. link[p] \in Seq(Message) /\ chan[c] \in Seq(Message) /\ rx[p].pos[c] \in Nat
  BY DEF ShareTypes, ChannelTypes, Receiver
<1>3. rx[p].pos[c] <= x /\ UpTo(link[p], c, x) /\ UpTo(chan[c], c, x)
  BY <1>1 DEF Below
<1>4. UpTo(link[p], c, y) /\ UpTo(chan[c], c, y)
  BY <1>2, <1>3, BoundsPass
<1>5. rx[p].pos[c] <= y
  BY <1>2, <1>3
<1> QED BY <1>4, <1>5 DEF Below

\* A stream grows by a message that is ahead of what has left the bridge.
LEMMA StreamGrows ==
  ASSUME ShareTypes, LinesInOrder, NEW c \in Calls, NEW m \in Message,
         UNCHANGED <<link, rx>>,
         \/ /\ chan' = [chan EXCEPT ![c] = Append(chan[c], m)]
            /\ Moves(m, c) => Behind(c, Place(m))
         \/ chan' = [chan EXCEPT ![c] = <<m>>] /\ Behind(c, 0)
  PROVE  /\ LinesInOrder'
         /\ \A d \in Calls \ {c}, x \in Nat : Behind(d, x) => Behind(d, x)'
         /\ \A x \in Nat : Behind(c, x) /\ (Moves(m, c) => Place(m) <= x) => Behind(c, x)'
<1>0. /\ chan \in [Calls -> Seq(Message)] /\ \A p \in Peers : link[p] \in Seq(Message)
      /\ \A p \in Peers, d \in Calls : rx[p].pos[d] \in Nat
  BY DEF ShareTypes, ChannelTypes, Receiver
<1>1. \A d \in Calls \ {c} : chan'[d] = chan[d]
  BY <1>0
<1>2. \A d \in Calls \ {c}, x \in Nat : Behind(d, x) => Behind(d, x)'
  BY <1>1 DEF Behind
<1>3. ASSUME NEW p \in Peers, NEW d \in Calls \ {c} PROVE Line(link[p], chan'[d], rx[p].pos[d], d)
  BY <1>1 DEF LinesInOrder
<1>4. ASSUME NEW p \in Peers
      PROVE  /\ Line(link[p], chan'[c], rx[p].pos[c], c)
             /\ \A x \in Nat : Below(link[p], chan[c], rx[p].pos[c], c, x)
                               /\ (Moves(m, c) => Place(m) <= x)
                                 => Below(link[p], chan'[c], rx[p].pos[c], c, x)
  <2>1. PICK l \in Seq(Message), ch \in Seq(Message), k \in Nat :
          l = link[p] /\ ch = chan[c] /\ k = rx[p].pos[c]
    BY <1>0
  <2>2. Line(l, ch, k, c)
    BY <2>1 DEF LinesInOrder
  <2>3. CASE /\ chan' = [chan EXCEPT ![c] = Append(chan[c], m)]
             /\ Moves(m, c) => Behind(c, Place(m))
    <3>1. Moves(m, c) => Below(l, ch, k, c, Place(m))
      BY <2>1, <2>3 DEF Behind
    <3>2. /\ Line(l, Append(ch, m), k, c)
          /\ \A x : Below(l, ch, k, c, x) /\ (Moves(m, c) => Place(m) <= x)
                      => Below(l, Append(ch, m), k, c, x)
      BY <2>2, <3>1, LineGrows
    <3>3. chan'[c] = Append(ch, m)
      BY <1>0, <2>1, <2>3
    <3> QED BY <2>1, <3>2, <3>3
  <2>4. CASE chan' = [chan EXCEPT ![c] = <<m>>] /\ Behind(c, 0)
    <3>1. Below(l, ch, k, c, 0)
      BY <2>1, <2>4 DEF Behind
    <3>2. chan'[c] = <<m>>
      BY <1>0, <2>4
    <3>3. Line(l, <<m>>, k, c)
      <4>1. Place(m) \in Nat
        BY PlaceNat
      <4>2. Place(m) <= Place(m)
        BY <4>1
      <4> QED BY <2>2, <3>1, <4>1, <4>2, LineStarts
    <3>4. ASSUME NEW x \in Nat, Below(l, ch, k, c, x), Moves(m, c) => Place(m) <= x
          PROVE  Below(l, <<m>>, k, c, x)
      <4>1. k <= x /\ UpTo(l, c, x)
        BY <3>4 DEF Below
      <4>2. ToSet(<<m>>) = {m}
        BY SetOfQueue
      <4>3. UpTo(<<m>>, c, x)
        BY <3>4, <4>2 DEF UpTo
      <4> QED BY <4>1, <4>3 DEF Below
    <3> QED BY <2>1, <3>2, <3>3, <3>4
  <2> QED BY <2>3, <2>4
<1>5. LinesInOrder'
  BY <1>3, <1>4 DEF LinesInOrder
<1>6. ASSUME NEW x \in Nat, Behind(c, x), Moves(m, c) => Place(m) <= x PROVE Behind(c, x)'
  BY <1>4, <1>6 DEF Behind
<1> QED BY <1>2, <1>5, <1>6

\* The fan-out and the peers keep the streams in order, and leave them behind the bridge.
LEMMA StreamsMove ==
  ASSUME ShareTypes, MessagesFaithful, LinesInOrder,
         \/ Same
         \/ \E c \in Calls, m \in Message : FansOut(c, m)
         \/ \E p \in Peers : Take(p)
  PROVE  /\ LinesInOrder'
         /\ \A d \in Calls, x \in Nat : Behind(d, x) => Behind(d, x)'
         /\ \A p \in Peers, d \in Calls : rx[p].pos[d] <= rx'[p].pos[d]
<1> DEFINE Good(p, d) ==
             /\ Line(link'[p], chan'[d], rx'[p].pos[d], d)
             /\ \A x : Below(link[p], chan[d], rx[p].pos[d], d, x)
                         => Below(link'[p], chan'[d], rx'[p].pos[d], d, x)
             /\ rx[p].pos[d] <= rx'[p].pos[d]
<1>0. /\ chan \in [Calls -> Seq(Message)] /\ link \in [Peers -> Seq(Message)]
      /\ rx \in [Peers -> Receiver] /\ \A p \in Peers : rx[p].pos \in [Calls -> Nat]
  BY DEF ShareTypes, ChannelTypes, Receiver
<1>a. ASSUME \A p \in Peers, d \in Calls : Good(p, d)
      PROVE  /\ LinesInOrder'
             /\ \A d \in Calls, x \in Nat : Behind(d, x) => Behind(d, x)'
             /\ \A p \in Peers, d \in Calls : rx[p].pos[d] <= rx'[p].pos[d]
  BY <1>a DEF LinesInOrder, Behind
<1>b. ASSUME NEW p \in Peers, NEW d \in Calls,
             link'[p] = link[p], chan'[d] = chan[d], rx'[p] = rx[p]
      PROVE  Good(p, d)
  <2>1. rx[p].pos[d] \in Nat
    BY <1>0
  <2> QED BY <1>b, <2>1 DEF LinesInOrder
<1>1. ASSUME Same, NEW p \in Peers, NEW d \in Calls PROVE Good(p, d)
  BY <1>1, <1>b DEF Same
<1>2. ASSUME NEW c \in Calls, NEW m \in Message, FansOut(c, m), NEW p \in Peers, NEW d \in Calls
      PROVE  Good(p, d)
  <2>1. /\ chan[c] # <<>> /\ m = Head(chan[c]) /\ rx' = rx
        /\ link'[p] \in {link[p], Append(link[p], m)}
        /\ chan'[c] = Tail(chan[c]) /\ \A e \in Calls \ {c} : chan'[e] = chan[e]
    BY <1>0, <1>2 DEF FansOut
  <2>2. PICK l \in Seq(Message), ch \in Seq(Message), k \in Nat :
          l = link[p] /\ ch = chan[d] /\ k = rx[p].pos[d]
    BY <1>0
  <2>3. Line(l, ch, k, d) /\ rx'[p].pos[d] = k /\ k <= k
    BY <2>1, <2>2 DEF LinesInOrder
  <2>4. CASE d = c
    <3>1. /\ Line(l, Tail(ch), k, d) /\ Line(Append(l, m), Tail(ch), k, d)
          /\ \A x : Below(l, ch, k, d, x) =>
               Below(l, Tail(ch), k, d, x) /\ Below(Append(l, m), Tail(ch), k, d, x)
      <4>1. ch # <<>> /\ m = Head(ch)
        BY <2>1, <2>2, <2>4
      <4> QED BY <2>3, <4>1, LineFans
    <3>2. chan'[d] = Tail(ch) /\ (link'[p] = l \/ link'[p] = Append(l, m))
      BY <2>1, <2>2, <2>4
    <3>3. CASE link'[p] = l
      BY <2>2, <2>3, <3>1, <3>2, <3>3
    <3>4. CASE link'[p] = Append(l, m)
      BY <2>2, <2>3, <3>1, <3>2, <3>4
    <3> QED BY <3>2, <3>3, <3>4
  <2>5. CASE d # c
    <3>1. ~Moves(m, d)
      <4>1. m \in ToSet(chan[c])
        BY <1>0, <2>1, SetOfQueue
      <4>2. m.s = c
        BY <4>1 DEF MessagesFaithful
      <4> QED BY <2>5, <4>2 DEF Moves
    <3>2. /\ Line(Append(l, m), ch, k, d)
          /\ \A x : Below(l, ch, k, d, x) => Below(Append(l, m), ch, k, d, x)
      BY <2>3, <3>1, LineOther
    <3>3. chan'[d] = ch /\ (link'[p] = l \/ link'[p] = Append(l, m))
      BY <2>1, <2>2, <2>5
    <3>4. CASE link'[p] = l
      BY <2>2, <2>3, <3>3, <3>4
    <3>5. CASE link'[p] = Append(l, m)
      BY <2>2, <2>3, <3>2, <3>3, <3>5
    <3> QED BY <3>3, <3>4, <3>5
  <2> QED BY <2>4, <2>5
<1>3. ASSUME NEW q \in Peers, Take(q), NEW p \in Peers, NEW d \in Calls PROVE Good(p, d)
  <2>1. PICK m \in Message, pos \in [Calls -> Nat] :
          /\ link[q] # <<>> /\ m = Head(link[q])
          /\ link' = [link EXCEPT ![q] = Tail(link[q])]
          /\ pos = IF m.k = "Frame" /\ m.pay = <<>> THEN rx[q].pos
                   ELSE [rx[q].pos EXCEPT ![m.s] = Place(m)]
          /\ rx' = [rx EXCEPT ![q] = [codec |-> CodecAfter(q, m), stream |-> StreamAfter(q, m),
                                      pos |-> pos]]
          /\ chan' = chan
    BY <1>3, PeerTakes
  <2>2. CASE p # q
    <3>1. link'[p] = link[p] /\ rx'[p] = rx[p]
      BY <1>0, <2>1, <2>2
    <3> QED BY <1>b, <2>1, <3>1
  <2>3. CASE p = q
    <3>1. PICK l \in Seq(Message), ch \in Seq(Message), k \in Nat, j \in Nat :
            l = link[p] /\ ch = chan[d] /\ k = rx[p].pos[d] /\ j = pos[d]
      BY <1>0
    <3>2. Line(l, ch, k, d) /\ l # <<>> /\ m = Head(l)
      BY <2>1, <2>3, <3>1 DEF LinesInOrder
    <3>3. j = IF Moves(m, d) THEN Place(m) ELSE k
      <4>1. rx[q].pos \in [Calls -> Nat]
        BY <1>0
      <4>2. CASE m.k = "Frame" /\ m.pay = <<>>
        BY <2>1, <2>3, <3>1, <4>2 DEF Moves
      <4>3. CASE ~(m.k = "Frame" /\ m.pay = <<>>)
        <5>1. pos = [rx[q].pos EXCEPT ![m.s] = Place(m)]
          BY <2>1, <4>3
        <5>2. pos[d] = IF d = m.s THEN Place(m) ELSE rx[q].pos[d]
          BY <4>1, <5>1
        <5> QED BY <2>3, <3>1, <4>3, <5>2 DEF Moves
      <4> QED BY <4>2, <4>3
    <3>4. /\ k <= j /\ Line(Tail(l), ch, j, d)
          /\ \A x : Below(l, ch, k, d, x) => Below(Tail(l), ch, j, d, x)
      BY <3>2, <3>3, LineTakes
    <3>5. link'[p] = Tail(l) /\ chan'[d] = ch
      BY <1>0, <2>1, <2>3, <3>1
    <3>6. rx'[p].pos = pos
      BY <1>0, <2>1, <2>3
    <3> QED BY <3>1, <3>4, <3>5, <3>6
  <2> QED BY <2>2, <2>3
<1> HIDE DEF Good
<1> QED BY <1>1, <1>2, <1>3, <1>a

\* The frames still to leave the bridge have numbers.
LEMMA LeaveNumbers == ShareTypes => \A c \in Calls : ToLeave(c) \subseteq Nat
<1> SUFFICES ASSUME ShareTypes, NEW c \in Calls PROVE ToLeave(c) \subseteq Nat
  OBVIOUS
<1>1. made[c] \in Nat /\ enc[c].held \in Seq(Nat) /\ frames[c] \in Seq(CapturedFrame)
  BY EncoderParts DEF ShareTypes, FrameTypes
<1>2. ToSet(enc[c].held) \subseteq Nat /\ ToSet(frames[c]) \subseteq CapturedFrame
  BY <1>1, SetOfQueue
<1>3. \A f \in CapturedFrame : Last0(f.pay) \in Nat
  BY PlaceNat DEF CapturedFrame
<1> QED BY <1>1, <1>2, <1>3 DEF ToLeave

\* Of what a capture leaves to be sent nothing is behind what there was.
LEMMA CaptureLeaves ==
  ASSUME ShareTypes, NEW c \in Calls, Captures(c)
  PROVE  /\ \A d \in Calls \ {c} : ToLeave(d)' = ToLeave(d)
         /\ \A y \in ToLeave(c)' : y \in Nat /\ \E x \in ToLeave(c) : x <= y
<1> DEFINE Adds(f) == /\ frames' = [frames EXCEPT ![c] = Append(frames[c], f)]
                      /\ f.pay # <<>> => Last0(f.pay) \in ToSet(enc[c].held) \cup {made[c] + 1}
                      /\ \A x \in ToSet(enc'[c].held) : Last0(f.pay) <= x
<1>0. /\ made \in [Calls -> Nat] /\ frames \in [Calls -> Seq(CapturedFrame)]
      /\ ToLeave(c) \subseteq Nat
  BY LeaveNumbers DEF ShareTypes, FrameTypes
<1>1. /\ made' = [made EXCEPT ![c] = made[c] + 1]
      /\ \A d \in Calls \ {c} : enc'[d].held = enc[d].held
      /\ ToSet(enc'[c].held) \subseteq ToSet(enc[c].held) \cup {made[c] + 1}
      /\ frames' = frames \/ \E f \in CapturedFrame : Adds(f)
  BY DEF Captures
<1>2. \A d \in Calls \ {c} : made'[d] = made[d] /\ frames'[d] = frames[d]
  BY <1>0, <1>1
<1>3. \A d \in Calls \ {c} : ToLeave(d)' = ToLeave(d)
  BY <1>1, <1>2 DEF ToLeave
<1>4. PICK n \in Nat : n = made[c] + 1 /\ made[c] <= n /\ made'[c] = n
  BY <1>0, <1>1
<1>5. \A y \in ToLeave(c)' : y \in ToLeave(c) \cup {n}
  <2>1. ToSet(enc'[c].held) \subseteq ToLeave(c) \cup {n}
    BY <1>1, <1>4 DEF ToLeave
  <2>2. ASSUME NEW f \in ToSet(frames'[c]), f.pay # <<>> PROVE Last0(f.pay) \in ToLeave(c) \cup {n}
    <3>1. CASE f \in ToSet(frames[c])
      BY <2>2, <3>1 DEF ToLeave
    <3>2. ASSUME NEW g \in CapturedFrame, Adds(g), f \notin ToSet(frames[c])
          PROVE  Last0(f.pay) \in ToLeave(c) \cup {n}
      <4>1. frames'[c] = Append(frames[c], g) /\ frames[c] \in Seq(CapturedFrame)
        BY <1>0, <3>2
      <4>2. ToSet(Append(frames[c], g)) = ToSet(frames[c]) \cup {g}
        BY <4>1, SetOfQueue
      <4>3. f = g
        BY <3>2, <4>1, <4>2
      <4>4. Last0(f.pay) \in ToSet(enc[c].held) \cup {n}
        BY <1>4, <2>2, <3>2, <4>3
      <4> QED BY <4>4 DEF ToLeave
    <3>3. CASE frames' = frames
      BY <3>1, <3>3
    <3> QED BY <1>1, <3>1, <3>2, <3>3
  <2> QED BY <1>4, <2>1, <2>2 DEF ToLeave
<1>6. made[c] \in ToLeave(c)
  BY DEF ToLeave
<1>7. \A y \in ToLeave(c) : y <= y
  BY <1>0
<1>8. ASSUME NEW y \in ToLeave(c)' PROVE y \in Nat /\ \E x \in ToLeave(c) : x <= y
  <2>1. CASE y \in ToLeave(c)
    BY <1>0, <1>7, <2>1
  <2>2. CASE y = n
    BY <1>4, <1>6, <2>2
  <2> QED BY <1>5, <2>1, <2>2
<1> QED BY <1>3, <1>8

\* A step keeps the streams in order and the bridges ahead, and a peer goes on.
LEMMA StreamsStep ==
  ASSUME ShareTypes, StagesFollow, MessagesFaithful, OrderInv, [Next]_vars
  PROVE  /\ LinesInOrder' /\ BridgeAhead'
         /\ \A p \in Peers, d \in Calls : rx[p].pos[d] <= rx'[p].pos[d]
<1> DEFINE Fine(d) == /\ bridge'[d] = "off" => Behind(d, 0)'
                      /\ bridge'[d] = "run" => \A x \in ToLeave(d)' : Behind(d, 1 + x)'
           Goal == /\ LinesInOrder' /\ BridgeAhead'
                   /\ \A p \in Peers, d \in Calls : rx[p].pos[d] <= rx'[p].pos[d]
<1>0. /\ bridge \in [Calls -> {"off", "run", "done"}]
      /\ \A d \in Calls : ToLeave(d) \subseteq Nat
      /\ \A p \in Peers, d \in Calls : rx[p].pos[d] \in Nat
      /\ LinesInOrder /\ BridgeAhead /\ FramesOrdered /\ EncodersHold
  BY LeaveNumbers DEF ShareTypes, StageTypes, Receiver, OrderInv
<1>a. (\A d \in Calls : Fine(d)) => BridgeAhead'
  BY DEF BridgeAhead
<1>b. ASSUME NEW d \in Calls, bridge'[d] = bridge[d], ToLeave(d)' = ToLeave(d),
             \A x \in Nat : Behind(d, x) => Behind(d, x)'
      PROVE  Fine(d)
  <2>1. \A x \in ToLeave(d) : 1 + x \in Nat
    BY <1>0
  <2>2. bridge[d] = "run" => \A x \in ToLeave(d) : Behind(d, 1 + x)'
    BY <1>0, <1>b, <2>1 DEF BridgeAhead
  <2>3. bridge[d] = "off" => Behind(d, 0)'
    BY <1>0, <1>b DEF BridgeAhead
  <2> QED BY <1>b, <2>2, <2>3
<1>c. ASSUME rx' = rx PROVE \A p \in Peers, d \in Calls : rx[p].pos[d] <= rx'[p].pos[d]
  BY <1>0, <1>c
<1>d. ASSUME UNCHANGED <<made, frames>>, \A d \in Calls : enc'[d].held = enc[d].held
      PROVE  \A d \in Calls : ToLeave(d)' = ToLeave(d)
  BY <1>d DEF ToLeave
<1>e. ASSUME \/ Same
             \/ \E c \in Calls, m \in Message : FansOut(c, m)
             \/ \E p \in Peers : Take(p),
             bridge' = bridge, \A d \in Calls : ToLeave(d)' = ToLeave(d)
      PROVE  Goal
  <2>1. /\ LinesInOrder'
        /\ \A d \in Calls, x \in Nat : Behind(d, x) => Behind(d, x)'
        /\ \A p \in Peers, d \in Calls : rx[p].pos[d] <= rx'[p].pos[d]
    BY <1>0, <1>e, StreamsMove
  <2>2. \A d \in Calls : Fine(d)
    BY <1>b, <1>e, <2>1
  <2> HIDE DEF Fine
  <2> QED BY <1>a, <2>1, <2>2
<1>1. ASSUME Same, FramesStay PROVE Goal
  BY <1>1, <1>d, <1>e DEF Same, FramesStay
<1>2. ASSUME Same, NEW c \in Calls, NewHandler(c) PROVE Goal
  BY <1>2, <1>d, <1>e, HandlerKeeps DEF Same
<1>3. ASSUME Same, NEW c \in Calls, OnFrameArrived(c) \/ FlushFrames(c) PROVE Goal
  <2>1. Captures(c)
    BY <1>0, <1>3, CaptureCaptures
  <2>2. /\ \A d \in Calls \ {c} : ToLeave(d)' = ToLeave(d)
        /\ \A y \in ToLeave(c)' : y \in Nat /\ \E x \in ToLeave(c) : x <= y
    BY <2>1, CaptureLeaves
  <2>3. /\ LinesInOrder'
        /\ \A d \in Calls, x \in Nat : Behind(d, x) => Behind(d, x)'
        /\ \A p \in Peers, d \in Calls : rx[p].pos[d] <= rx'[p].pos[d]
    BY <1>0, <1>3, StreamsMove
  <2>4. bridge' = bridge
    BY <1>3 DEF Same
  <2>5. \A d \in Calls \ {c} : Fine(d)
    BY <1>b, <2>2, <2>3, <2>4
  <2>6. Fine(c)
    <3>1. bridge[c] = "off" => Behind(c, 0)'
      BY <1>0, <2>3 DEF BridgeAhead
    <3>2. ASSUME bridge[c] = "run", NEW y \in ToLeave(c)' PROVE Behind(c, 1 + y)'
      <4>1. PICK x \in ToLeave(c) : x <= y
        BY <2>2
      <4>2. Behind(c, 1 + x)
        BY <1>0, <3>2 DEF BridgeAhead
      <4>3. y \in Nat
        BY <2>2
      <4>4. PICK a \in Nat, b \in Nat : a = 1 + x /\ b = 1 + y /\ a <= b
        <5>1. x \in Nat
          BY <1>0
        <5> QED BY <4>1, <4>3, <5>1
      <4>5. Behind(c, b)
        BY <4>2, <4>4, BehindPasses
      <4>6. Behind(c, b)'
        BY <2>3, <4>5
      <4> QED BY <4>4, <4>6
    <3> QED BY <2>4, <3>1, <3>2
  <2> HIDE DEF Fine
  <2> QED BY <1>a, <2>3, <2>5, <2>6
<1>4. ASSUME NEW c \in Calls, NEW m \in Message, Starts(c, m) PROVE Goal
  <2>1. /\ bridge[c] = "off" /\ m.k = "Start" /\ chan' = [chan EXCEPT ![c] = <<m>>]
        /\ bridge' = [bridge EXCEPT ![c] = "run"] /\ UNCHANGED <<link, rx, made, frames, enc>>
    BY <1>4 DEF Starts, StartMsg
  <2>2. Behind(c, 0) /\ Place(m) = 1
    BY <1>0, <2>1 DEF BridgeAhead, Place
  <2>3. /\ LinesInOrder'
        /\ \A d \in Calls \ {c}, x \in Nat : Behind(d, x) => Behind(d, x)'
        /\ \A x \in Nat : Behind(c, x) /\ (Moves(m, c) => Place(m) <= x) => Behind(c, x)'
    BY <1>0, <2>1, <2>2, StreamGrows
  <2>4. \A d \in Calls : ToLeave(d)' = ToLeave(d)
    BY <1>d, <2>1
  <2>5. bridge'[c] = "run" /\ \A d \in Calls \ {c} : bridge'[d] = bridge[d]
    BY <1>0, <2>1
  <2>6. \A d \in Calls \ {c} : Fine(d)
    BY <1>b, <2>3, <2>4, <2>5
  <2>7. ASSUME NEW x \in ToLeave(c) PROVE Behind(c, 1 + x)'
    <3>1. PICK a \in Nat : a = 1 + x /\ 1 <= a /\ 0 <= a
      BY <1>0
    <3>2. Behind(c, a)
      BY <2>2, <3>1, BehindPasses
    <3>3. Behind(c, a)'
      BY <2>2, <2>3, <3>1, <3>2
    <3> QED BY <3>1, <3>3
  <2>8. Fine(c)
    BY <2>4, <2>5, <2>7
  <2> HIDE DEF Fine
  <2> QED BY <1>a, <1>c, <2>1, <2>3, <2>6, <2>8
<1>5. ASSUME NEW c \in Calls, NEW m \in Message, Ends(c, m) PROVE Goal
  <2>1. /\ bridge[c] = "run" /\ m = StopMsg(c) /\ chan' = [chan EXCEPT ![c] = Append(chan[c], m)]
        /\ bridge' = [bridge EXCEPT ![c] = "done"] /\ UNCHANGED <<link, rx, made, frames, enc>>
    BY <1>5 DEF Ends
  <2>2. Behind(c, Place(m))
    <3>1. Behind(c, 1 + made[c])
      BY <1>0, <2>1 DEF BridgeAhead, ToLeave
    <3>2. m.k = "Stop" /\ m.s = c
      BY <2>1 DEF StopMsg
    <3>3. Place(m) = MaxFrames[c] + 2
      BY <3>2 DEF Place
    <3>4. made[c] \in Nat /\ MaxFrames[c] \in Nat /\ made[c] <= MaxFrames[c]
      BY ShareBounds DEF ShareTypes, FrameTypes
    <3>5. PICK a \in Nat, b \in Nat : a = 1 + made[c] /\ b = MaxFrames[c] + 2 /\ a <= b
      BY <3>4
    <3> QED BY <3>1, <3>3, <3>5, BehindPasses
  <2>3. /\ LinesInOrder'
        /\ \A d \in Calls \ {c}, x \in Nat : Behind(d, x) => Behind(d, x)'
    BY <1>0, <2>1, <2>2, StreamGrows
  <2>4. \A d \in Calls : ToLeave(d)' = ToLeave(d)
    BY <1>d, <2>1
  <2>5. bridge'[c] = "done" /\ \A d \in Calls \ {c} : bridge'[d] = bridge[d]
    BY <1>0, <2>1
  <2>6. \A d \in Calls \ {c} : Fine(d)
    BY <1>b, <2>3, <2>4, <2>5
  <2>7. Fine(c)
    BY <2>5
  <2> HIDE DEF Fine
  <2> QED BY <1>a, <1>c, <2>1, <2>3, <2>6, <2>7
<1>6. ASSUME NEW c \in Calls, NEW h \in CapturedFrame, NEW m \in Message, Passes(c, h, m)
      PROVE  Goal
  <2>1. /\ frames[c] # <<>> /\ h = Head(frames[c]) /\ bridge[c] = "run"
        /\ frames' = [frames EXCEPT ![c] = Tail(frames[c])]
        /\ chan' = [chan EXCEPT ![c] = Append(chan[c], m)]
        /\ m.k = "Frame" /\ m.s = c /\ m.pay = h.pay
        /\ UNCHANGED <<enc, made, bridge, link, rx>>
    BY <1>6 DEF Passes
  <2>2. PICK q \in Seq(CapturedFrame) : q = frames[c]
    BY DEF ShareTypes, FrameTypes
  <2>3. frames'[c] = Tail(q) /\ \A d \in Calls \ {c} : frames'[d] = frames[d]
    BY <2>1, <2>2 DEF ShareTypes, FrameTypes
  <2>4. /\ h \in ToSet(q) /\ ToSet(Tail(q)) \subseteq ToSet(q)
        /\ \A g \in ToSet(Tail(q)) : g.pay # <<>> => Last0(h.pay) <= Last0(g.pay)
    <3>1. q # <<>> /\ h = Head(q) /\ Content(q)
      BY <1>0, <2>1, <2>2 DEF FramesOrdered
    <3> QED BY <3>1, SetOfQueue, ContentMoves
  <2>5. Place(m) = 1 + Last0(h.pay) /\ (Moves(m, c) => h.pay # <<>>)
    BY <2>1 DEF Place, Moves
  <2>6. h.pay # <<>> => Last0(h.pay) \in ToLeave(c)
    BY <2>2, <2>4 DEF ToLeave
  <2>7. Moves(m, c) => Behind(c, Place(m))
    BY <1>0, <2>1, <2>5, <2>6 DEF BridgeAhead
  <2>8. /\ LinesInOrder'
        /\ \A d \in Calls \ {c}, x \in Nat : Behind(d, x) => Behind(d, x)'
        /\ \A x \in Nat : Behind(c, x) /\ (Moves(m, c) => Place(m) <= x) => Behind(c, x)'
    BY <1>0, <2>1, <2>7, StreamGrows
  <2>9. \A d \in Calls \ {c} : ToLeave(d)' = ToLeave(d)
    BY <2>1, <2>3 DEF ToLeave
  <2>10. \A d \in Calls \ {c} : Fine(d)
    BY <1>b, <2>1, <2>8, <2>9
  <2>11. /\ ToLeave(c)' \subseteq ToLeave(c)
         /\ \A y \in ToLeave(c)' : Last0(h.pay) <= y
    <3>1. ToLeave(c)' = {made[c]} \cup ToSet(enc[c].held)
                          \cup {Last0(f.pay) : f \in {g \in ToSet(Tail(q)) : g.pay # <<>>}}
      BY <2>1, <2>3 DEF ToLeave
    <3>2. Last0(h.pay) <= made[c] /\ \A x \in ToSet(enc[c].held) : Last0(h.pay) <= x
      BY <1>0, <2>2, <2>4 DEF FramesOrdered
    <3>3. ToLeave(c)' \subseteq ToLeave(c)
      BY <2>2, <2>4, <3>1 DEF ToLeave
    <3>4. \A y \in ToLeave(c)' : Last0(h.pay) <= y
      BY <2>4, <3>1, <3>2
    <3> QED BY <3>3, <3>4
  <2>12. ASSUME NEW y \in ToLeave(c)' PROVE Behind(c, 1 + y)'
    <3>1. y \in ToLeave(c) /\ y \in Nat /\ Last0(h.pay) <= y
      BY <1>0, <2>11
    <3>2. Last0(h.pay) \in Nat
      BY PlaceNat DEF CapturedFrame
    <3>3. PICK a \in Nat : a = 1 + y /\ 1 + Last0(h.pay) <= a
      BY <3>1, <3>2
    <3>4. Behind(c, a)
      BY <1>0, <2>1, <3>1, <3>3 DEF BridgeAhead
    <3>5. Behind(c, a)'
      BY <2>5, <2>8, <3>3, <3>4
    <3> QED BY <3>3, <3>5
  <2>13. Fine(c)
    BY <2>1, <2>12
  <2> HIDE DEF Fine
  <2> QED BY <1>a, <1>c, <2>1, <2>8, <2>10, <2>13
<1>7. ASSUME NEW c \in Calls, NEW m \in Message, FansOut(c, m) PROVE Goal
  <2>1. UNCHANGED <<bridge, made, frames, enc>>
    BY <1>7 DEF FansOut
  <2> QED BY <1>7, <1>d, <1>e, <2>1
<1>8. ASSUME NEW p \in Peers, Take(p) PROVE Goal
  <2>1. UNCHANGED <<bridge, made, frames, enc>>
    BY <1>8 DEF Take, captureVars, pipeVars
  <2> QED BY <1>8, <1>d, <1>e, <2>1
<1> HIDE DEF Goal
<1>9. ASSUME Same, \E c \in Calls : NewHandler(c) \/ OnFrameArrived(c) \/ FlushFrames(c) PROVE Goal
  BY <1>2, <1>3, <1>9
<1>10. ASSUME \E c \in Calls, m \in Message : Starts(c, m) \/ Ends(c, m) \/ FansOut(c, m) PROVE Goal
  BY <1>4, <1>5, <1>7, <1>10
<1>11. ASSUME \E c \in Calls, h \in CapturedFrame, m \in Message : Passes(c, h, m) PROVE Goal
  BY <1>6, <1>11
<1>12. Goal
  BY <1>1, <1>8, <1>9, <1>10, <1>11, ShareMoves
<1> QED BY <1>12 DEF Goal

\* A share begins with nothing to put in order.
LEMMA StreamOrderStarts == Init => OrderInv
<1> SUFFICES ASSUME Init PROVE OrderInv
  OBVIOUS
<1>1. /\ link = [p \in Peers |-> <<>>] /\ chan = [c \in Calls |-> <<>>]
      /\ frames = [c \in Calls |-> <<>>] /\ bridge = [c \in Calls |-> "off"]
      /\ \A c \in Calls : enc[c].held = <<>> /\ enc[c].kind = NoEncoder
      /\ \A p \in Peers, c \in Calls : rx[p].pos[c] = 0
  BY DEF Init, NoStream
<1>2. ToSet(<<>>) = {}
  BY SetOfQueue
<1>3. \A c : NonDecr(<<>>, c) /\ \A x : UpTo(<<>>, c, x) /\ From(<<>>, c, x)
  BY <1>2, NonDecrShort DEF UpTo, From
<1>4. LinesInOrder
  BY <1>1, <1>2, <1>3 DEF LinesInOrder, Line
<1>5. FramesOrdered
  BY <1>1, <1>2 DEF FramesOrdered, Content, Kept
<1>6. EncodersHold
  BY <1>1 DEF EncodersHold
<1>7. BridgeAhead
  <2>1. \A c \in Calls : Behind(c, 0)
    <3>1. \A c : Below(<<>>, <<>>, 0, c, 0)
      BY <1>3 DEF Below
    <3>2. \A p \in Peers, c \in Calls : link[p] = <<>> /\ chan[c] = <<>> /\ rx[p].pos[c] = 0
      BY <1>1
    <3> QED BY <3>1, <3>2 DEF Behind
  <2> QED BY <1>1, <2>1 DEF BridgeAhead
<1> QED BY <1>4, <1>5, <1>6, <1>7 DEF OrderInv

\* ... and keeps it so.
LEMMA StreamOrderStep ==
  ASSUME ShareInv, OrderInv, [Next]_vars
  PROVE  OrderInv' /\ \A p \in Peers, c \in Calls : rx'[p].pos[c] >= rx[p].pos[c]
<1>1. ShareTypes /\ StagesFollow /\ MessagesFaithful /\ FramesOrdered /\ EncodersHold
  BY DEF ShareInv, OrderInv
<1>2. FramesOrdered' /\ EncodersHold'
  BY <1>1, FramesOrderedStep, EncodersStep
<1>3. /\ LinesInOrder' /\ BridgeAhead'
      /\ \A p \in Peers, c \in Calls : rx[p].pos[c] <= rx'[p].pos[c]
  BY <1>1, StreamsStep
<1>4. ShareTypes'
  BY <1>1, ShareTypesStep
<1>5. \A p \in Peers, c \in Calls : rx[p].pos[c] \in Nat /\ rx'[p].pos[c] \in Nat
  BY <1>1, <1>4 DEF ShareTypes, Receiver
<1>6. \A p \in Peers, c \in Calls : rx'[p].pos[c] >= rx[p].pos[c]
  BY <1>3, <1>5
<1> QED BY <1>2, <1>3, <1>6 DEF OrderInv

\* What a peer receives of a stream moves on: StreamStart, then frames whose content never
\* goes back, then StreamStop and nothing more, whatever the channels of the sessions
\* dropped and the encoder kept back (start_video_share, start_audio_share, the bridge and
\* the fan-out).
THEOREM StreamGoesOnHolds == Spec => StreamGoesOn
<1> DEFINE Safe == \A p \in Peers, c \in Calls : rx'[p].pos[c] >= rx[p].pos[c]
<1>1. Init => OrderInv
  BY StreamOrderStarts
<1>2. ShareInv /\ OrderInv /\ [Next]_vars => OrderInv' /\ Safe
  BY StreamOrderStep
<1> HIDE DEF Safe
<1>3. ShareInv /\ OrderInv /\ [Next]_vars => [Safe]_vars
  BY <1>2
<1>4. Spec => [][Safe]_vars
  BY <1>1, <1>2, <1>3, ShareInvHolds, PTL DEF Spec
<1> QED BY <1>4 DEF StreamGoesOn, Safe
=============================================================================
