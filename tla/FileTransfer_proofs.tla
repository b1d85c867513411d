-------------------------- MODULE FileTransfer_proofs -------------------------
(* Proofs about FileTransfer, for any transfers, sessions, offers, contents,   *)
(* chunk sizes and channels: the messages of a transfer find their slots, a    *)
(* transfer reported done is accounted for, and a file judged verified holds   *)
(* what its sender read.                                                       *)
EXTENDS FileTransfer, SequenceTheorems, TLAPS

-----------------------------------------------------------------------------
(* The inductive invariant.                                                  *)

Phases == {"idle", "start", "spawn", "wait", "done", "failed"}
Started == {"spawn", "wait", "done"}
Outcomes == {None, "unknown", "unflushed", "incomplete", "mismatch", "verified"}
TaskStates == {None, "run", "last", "sent", "failed"}

\* The sending devices.
SenderOK ==
  /\ DOMAIN source = Transfers
  /\ \A t \in Transfers :
       /\ DOMAIN source[t] = DOMAIN Content[t]
       /\ \A f \in DOMAIN source[t] : source[t][f] \in Seq(Units)
  /\ snd \in [Transfers -> [phase : Phases, entries : Seq(FileEntry), next : Nat \ {0}]]
  /\ \A t \in Transfers : \A i \in Idx(t) : snd[t].entries[i].path \in DOMAIN Content[t]
  /\ DOMAIN task = Transfers
  /\ \A t \in Transfers :
       /\ DOMAIN task[t] = DOMAIN snd[t].entries
       /\ task[t] \in [DOMAIN task[t] -> [st : TaskStates, off : Nat, hash : Seq(Units)]]

\* The sessions and the receiving device.
ReceiverOK ==
  /\ up \subseteq Sessions
  /\ chan \in [Sessions -> Seq(FileMessage)]
  /\ \A s \in Sessions : Len(chan[s]) <= ChanCap
  /\ DOMAIN transfers \subseteq Transfers
  /\ \A t \in DOMAIN transfers : /\ DOMAIN transfers[t] \subseteq Idx(t)
                                 /\ \A i \in DOMAIN transfers[t] : transfers[t][i] \in FileSlot
  /\ disk \in [Destinations -> Seq(Units) \cup {Absent}]
  /\ DOMAIN outcome = Transfers
  /\ \A t \in Transfers :
       outcome[t] \in [DOMAIN snd[t].entries -> Outcomes]
  /\ refused \subseteq Transfers
  /\ faults \in 0 .. MaxFaults

\* How far send_paths is, and what it has spawned.
TransferOK(t) ==
  /\ snd[t].phase = "idle" => snd[t].entries = <<>>
  /\ snd[t].phase \notin Started => snd[t].next = 1
  /\ snd[t].phase \in {"wait", "done"} => snd[t].next > Len(snd[t].entries)
  /\ snd[t].phase = "done" => Running(t) = {}
  /\ \A i \in DOMAIN task[t] :
       /\ task[t][i].st # None =>
            snd[t].phase \in Started /\ i \in Idx(t) /\ i < snd[t].next
       /\ snd[t].phase \in Started /\ i \in Idx(t) /\ i < snd[t].next => task[t][i].st # None
       /\ task[t][i].st = None => task[t][i].off = 0

PhaseOK == \A t \in Transfers : TransferOK(t)

\* A message is in the session of its transfer, about a file of it, after the start.
MessageOK(s, k) ==
  LET m == chan[s][k]
  IN  /\ SessionOf[m.t] = s /\ snd[m.t].phase \in Started
      /\ m.kind = "start" => m.files = snd[m.t].entries /\ m.t \notin DOMAIN transfers
      /\ m.kind \in {"chunk", "complete"} => m.i \in Idx(m.t)
      /\ m.kind = "complete" => /\ task[m.t][m.i].st = "sent"
                                /\ m.hash = task[m.t][m.i].hash
      /\ \A j \in 1 .. k - 1 : chan[s][j].t = m.t => m.kind # "start"

MessagesOK == \A s \in Sessions : \A k \in 1 .. Len(chan[s]) : MessageOK(s, k)

StartUnderWay(t) ==
  \E k \in 1 .. Len(chan[SessionOf[t]]) :
    chan[SessionOf[t]][k].t = t /\ chan[SessionOf[t]][k].kind = "start"

\* A file that is not sent to its end has a slot, or will have.
SlotAwaits ==
  \A t \in Transfers :
    /\ t \in DOMAIN transfers => snd[t].phase \in Started
    /\ SessionOf[t] \in up /\ snd[t].phase \in Started /\ t \notin refused =>
         \/ StartUnderWay(t)
         \/ \A i \in Idx(t) : task[t][i].st # "sent" => HasSlot(t, i)

\* A file sent to its end is judged, or its TransferComplete is under way.
SentOK ==
  \A t \in Transfers : SessionOf[t] \in up =>
    \A i \in Idx(t) : task[t][i].st = "sent" =>
      \/ outcome[t][i] # None
      \/ \E k \in 1 .. Len(chan[SessionOf[t]]) :
           LET m == chan[SessionOf[t]][k] IN m.kind = "complete" /\ m.t = t /\ m.i = i

\* Chunk k of the channel of t is one of its file i.
IsChunk(t, i, k) ==
  LET m == chan[SessionOf[t]][k] IN m.kind = "chunk" /\ m.t = t /\ m.i = i
ChunkOff(t, k) == chan[SessionOf[t]][k].off
ChunkEnd(t, k) == ChunkOff(t, k) + Len(chan[SessionOf[t]][k].data)

\* What the receiver has, or will have, when it has had the messages before those
\* under way; Awaited holds if it has or will have a slot.
Base(t, i) == IF HasSlot(t, i) THEN transfers[t][i].received ELSE 0
Awaited(t, i) == StartUnderWay(t) \/ HasSlot(t, i)

\* A chunk under way begins where the one before it ends, or the receiver stopped.
ChunkFollows(t, i, k) ==
  IsChunk(t, i, k) =>
    /\ ChunkOff(t, k) < ChunkEnd(t, k) /\ ChunkEnd(t, k) <= task[t][i].off
    /\ \A j \in 1 .. k - 1 : IsChunk(t, i, j) => ChunkEnd(t, j) <= ChunkOff(t, k)
    /\ Awaited(t, i) =>
         \/ ChunkOff(t, k) = Base(t, i)
         \/ \E j \in 1 .. k - 1 : IsChunk(t, i, j) /\ ChunkEnd(t, j) = ChunkOff(t, k)

\* While the session is up, they reach to where the sender's task has read.
AllFollows(t, i) ==
  Awaited(t, i) /\ SessionOf[t] \in up =>
    \/ task[t][i].off = Base(t, i)
    \/ \E k \in 1 .. Len(chan[SessionOf[t]]) :
         IsChunk(t, i, k) /\ ChunkEnd(t, k) = task[t][i].off

ChunksFollow ==
  \A t \in Transfers : \A i \in Idx(t) :
    /\ \A k \in 1 .. Len(chan[SessionOf[t]]) : ChunkFollows(t, i, k)
    /\ AllFollows(t, i)

\* What a file holds that has received part of its content.
Partial(s) ==
  [u \in 1 .. (IF s.received > s.expected THEN s.received ELSE s.expected) |->
     IF u <= s.received THEN s.hash[u] ELSE Zero]

\* A slot counts what it hashed; its file holds that unless a write failed or there is
\* another writer, and two writers of a file know of each other.
SlotOK(t, i) ==
  LET s == transfers[t][i]
  IN  /\ s.dest = Clean(snd[t].entries[i].path)
      /\ s.received = Len(s.hash)
      /\ <<t, i>> \notin spoiled =>
           /\ disk[s.dest] = Partial(s)
           /\ \A u \in DOMAIN transfers : \A j \in DOMAIN transfers[u] :
                transfers[u][j].dest = s.dest => u = t /\ j = i

SlotsOK == \A t \in DOMAIN transfers : \A i \in DOMAIN transfers[t] : SlotOK(t, i)

IInv == /\ SenderOK /\ ReceiverOK /\ PhaseOK /\ MessagesOK /\ MessagesFindTheirSlot
        /\ SlotAwaits /\ SentOK /\ ChunksFollow /\ SlotsOK

-----------------------------------------------------------------------------
(* Types of what is sent and read.                                           *)

\* The bounds on chunks, permits and channels are positive.
LEMMA SizesFacts == ChunkUnits \in Nat \ {0} /\ Threads \in Nat \ {0} /\ ChanCap \in Nat \ {0}
BY SizesAssumption

\* A message of each kind has the fields of its kind.
LEMMA MessageFacts ==
  ASSUME NEW m \in FileMessage
  PROVE  /\ m.t \in Transfers
         /\ m.kind \in {"start", "chunk", "complete", "cancel"}
         /\ m.kind = "start" => m.files \in Seq(FileEntry)
         /\ m.kind = "chunk" => m.i \in Nat /\ m.off \in Nat /\ m.data \in Seq(Units)
         /\ m.kind = "complete" => m.i \in Nat /\ m.hash \in Seq(Units)
<1>1. CASE m \in [kind : {"start"}, t : Transfers, files : Seq(FileEntry)]
  BY <1>1
<1>2. CASE m \in [kind : {"chunk"}, t : Transfers, i : Nat, off : Nat, data : Seq(Units)]
  BY <1>2
<1>3. CASE m \in [kind : {"complete"}, t : Transfers, i : Nat, hash : Seq(Units)]
  BY <1>3
<1>4. CASE m \in [kind : {"cancel"}, t : Transfers]
  BY <1>4
<1> QED BY <1>1, <1>2, <1>3, <1>4 DEF FileMessage

\* A session's channel after a send: the message is the last one.
LEMMA PushFacts ==
  ASSUME ReceiverOK, NEW s \in Sessions, NEW m \in FileMessage, Push(s, m)
  PROVE  /\ s \in up
         /\ chan' \in [Sessions -> Seq(FileMessage)]
         /\ Len(chan[s]) \in Nat
         /\ Len(chan'[s]) = Len(chan[s]) + 1 /\ Len(chan'[s]) <= ChanCap
         /\ \A k \in 1 .. Len(chan[s]) : chan'[s][k] = chan[s][k]
         /\ chan'[s][Len(chan[s]) + 1] = m
         /\ \A r \in Sessions \ {s} : chan'[r] = chan[r]
<1>1. chan \in [Sessions -> Seq(FileMessage)]
  BY DEF ReceiverOK
<1>2. chan[s] \in Seq(FileMessage) /\ Len(chan[s]) \in Nat
  BY <1>1
<1>3. s \in up /\ Len(chan[s]) < ChanCap /\ chan' = [chan EXCEPT ![s] = Append(@, m)]
  BY DEF Push
<1>4. /\ chan'[s] = Append(chan[s], m)
      /\ \A r \in Sessions \ {s} : chan'[r] = chan[r]
  BY <1>1, <1>3
<1>5. /\ Append(chan[s], m) \in Seq(FileMessage)
      /\ Len(Append(chan[s], m)) = Len(chan[s]) + 1
      /\ \A k \in 1 .. Len(chan[s]) : Append(chan[s], m)[k] = chan[s][k]
      /\ Append(chan[s], m)[Len(chan[s]) + 1] = m
  BY <1>2, AppendProperties
<1>6. chan' \in [Sessions -> Seq(FileMessage)]
  BY <1>1, <1>3, <1>5
<1>7. Len(chan'[s]) <= ChanCap
  BY <1>2, <1>3, <1>4, <1>5, SizesFacts
<1> QED BY <1>2, <1>3, <1>4, <1>5, <1>6, <1>7

\* A session's channel after a message is taken: the others move up.
LEMMA TakeFacts ==
  ASSUME ReceiverOK, NEW s \in Sessions, chan[s] # <<>>, Take(s)
  PROVE  /\ chan' \in [Sessions -> Seq(FileMessage)]
         /\ Len(chan[s]) \in Nat /\ Len(chan[s]) > 0
         /\ chan[s][1] \in FileMessage /\ Head(chan[s]) = chan[s][1]
         /\ Len(chan'[s]) = Len(chan[s]) - 1
         /\ \A k \in 1 .. Len(chan'[s]) : chan'[s][k] = chan[s][k + 1]
         /\ \A r \in Sessions \ {s} : chan'[r] = chan[r]
         /\ \A r \in Sessions : Len(chan'[r]) <= ChanCap
<1>1. chan \in [Sessions -> Seq(FileMessage)]
  BY DEF ReceiverOK
<1>2. chan[s] \in Seq(FileMessage)
  BY <1>1
<1>3. chan' = [chan EXCEPT ![s] = Tail(chan[s])]
  BY DEF Take
<1>4. /\ chan'[s] = Tail(chan[s])
      /\ \A r \in Sessions \ {s} : chan'[r] = chan[r]
  BY <1>1, <1>3
<1>5. /\ Head(chan[s]) = chan[s][1] /\ chan[s][1] \in FileMessage
      /\ Tail(chan[s]) \in Seq(FileMessage)
      /\ Len(chan[s]) \in Nat /\ Len(chan[s]) > 0
      /\ Len(Tail(chan[s])) = Len(chan[s]) - 1
      /\ \A k \in 1 .. Len(Tail(chan[s])) : Tail(chan[s])[k] = chan[s][k + 1]
  BY <1>2, HeadTailProperties
<1>6. chan' \in [Sessions -> Seq(FileMessage)]
  BY <1>1, <1>3, <1>5
<1>7. \A r \in Sessions : Len(chan'[r]) <= ChanCap
  <2>1. \A r \in Sessions : Len(chan[r]) <= ChanCap
    BY DEF ReceiverOK
  <2>2. Len(chan'[s]) <= ChanCap
    BY <1>4, <1>5, <2>1, SizesFacts
  <2> QED BY <1>4, <2>1, <2>2
<1> QED BY <1>4, <1>5, <1>6, <1>7

\* What send_paths announces: one entry per path walked, and a content for each file.
LEMMA EntriesFacts ==
  ASSUME SenderOK, NEW t \in Transfers
  PROVE  /\ Entries(t) \in Seq(FileEntry)
         /\ \A i \in DOMAIN Entries(t) : ~Entries(t)[i].dir =>
              Entries(t)[i].path \in DOMAIN Content[t]
<1> DEFINE W == Walked(t)
<1>1. /\ W \in Seq([path : Seq(STRING), dir : BOOLEAN])
      /\ \A i \in DOMAIN W : ~W[i].dir => W[i].path \in DOMAIN Content[t]
  BY WalkAssumption
<1>2. ASSUME NEW i \in DOMAIN W
      PROVE  [path |-> W[i].path, dir |-> W[i].dir,
              size |-> IF W[i].dir THEN 0 ELSE Len(source[t][W[i].path])] \in FileEntry
  <2>1. W[i] \in [path : Seq(STRING), dir : BOOLEAN]
    <3>1. i \in 1 .. Len(W)
      BY <1>1
    <3> HIDE DEF W
    <3> QED BY <1>1, <3>1, ElementOfSeq
  <2>2. ASSUME ~W[i].dir PROVE Len(source[t][W[i].path]) \in Nat
    BY <1>1, <1>2, <2>2 DEF SenderOK
  <2> QED BY <2>1, <2>2 DEF FileEntry
<1>3. DOMAIN W = 1 .. Len(W) /\ Len(W) \in Nat
  BY <1>1
<1> HIDE DEF W
<1>4. Entries(t) = [i \in 1 .. Len(W) |->
                      [path |-> W[i].path, dir |-> W[i].dir,
                       size |-> IF W[i].dir THEN 0 ELSE Len(source[t][W[i].path])]]
  BY <1>3 DEF Entries, W
<1>5. Entries(t) \in Seq(FileEntry)
  BY <1>2, <1>3, <1>4
<1>6. \A i \in DOMAIN Entries(t) : ~Entries(t)[i].dir => Entries(t)[i].path \in DOMAIN Content[t]
  BY <1>1, <1>3, <1>4
<1> QED BY <1>5, <1>6
-----------------------------------------------------------------------------
(* Steps of the sending devices that send nothing.                           *)

\* A transfer that has not started has no message under way and no slot.
LEMMA NotStartedFacts ==
  ASSUME IInv, NEW t \in Transfers, snd[t].phase \notin Started
  PROVE  /\ t \notin DOMAIN transfers
         /\ \A s \in Sessions : \A k \in 1 .. Len(chan[s]) : chan[s][k].t # t
         /\ ~StartUnderWay(t)
         /\ \A i \in DOMAIN task[t] : task[t][i].st = None /\ task[t][i].off = 0
<1>1. t \notin DOMAIN transfers
  BY DEF IInv, SlotAwaits
<1>2. \A s \in Sessions : \A k \in 1 .. Len(chan[s]) : chan[s][k].t # t
  BY DEF IInv, MessagesOK, MessageOK
<1>3. ~StartUnderWay(t)
  BY <1>2, SessionAssumption DEF StartUnderWay
<1>4. \A i \in DOMAIN task[t] : task[t][i].st = None /\ task[t][i].off = 0
  BY DEF IInv, PhaseOK, TransferOK
<1> QED BY <1>1, <1>2, <1>3, <1>4

\* Steps that leave the channels and the receiver alone, and of a started transfer
\* everything but which of its tasks run, keep what relates them.
LEMMA QuietFrame ==
  ASSUME IInv, SenderOK', ReceiverOK', PhaseOK',
         UNCHANGED <<chan, up, transfers, disk, refused, spoiled>>,
         \A t \in Transfers : snd'[t].phase \in Started <=> snd[t].phase \in Started,
         \A t \in Transfers : snd[t].phase \in Started =>
           /\ snd'[t].entries = snd[t].entries /\ outcome'[t] = outcome[t]
           /\ \A i \in Idx(t) : /\ task'[t][i].off = task[t][i].off
                                /\ task'[t][i].hash = task[t][i].hash
                                /\ task'[t][i].st = "sent" <=> task[t][i].st = "sent"
  PROVE  IInv'
<1>1. \A t \in Transfers : snd[t].phase \in Started => Idx(t)' = Idx(t)
  BY DEF Idx
<1>2. \A s \in Sessions : \A k \in 1 .. Len(chan[s]) :
        chan[s][k] \in FileMessage /\ chan[s][k].t \in Transfers
        /\ snd[chan[s][k].t].phase \in Started
  <2>1. \A s \in Sessions : \A k \in 1 .. Len(chan[s]) : chan[s][k] \in FileMessage
    BY DEF IInv, ReceiverOK
  <2> QED BY <2>1, MessageFacts DEF IInv, MessagesOK, MessageOK
<1>3. MessagesOK'
  <2> SUFFICES ASSUME NEW s \in Sessions, NEW k \in 1 .. Len(chan[s]) PROVE MessageOK(s, k)'
    BY DEF MessagesOK
  <2>1. MessageOK(s, k)
    BY DEF IInv, MessagesOK
  <2>2. chan[s][k].t \in Transfers /\ snd[chan[s][k].t].phase \in Started
    BY <1>2
  <2> QED BY <1>1, <2>1, <2>2 DEF MessageOK
<1>4. MessagesFindTheirSlot'
  BY DEF IInv, MessagesFindTheirSlot, HasSlot
<1>5. SlotAwaits'
  <2> SUFFICES ASSUME NEW t \in Transfers
               PROVE  /\ t \in DOMAIN transfers => snd'[t].phase \in Started
                      /\ SessionOf[t] \in up /\ snd'[t].phase \in Started /\ t \notin refused =>
                           \/ StartUnderWay(t)
                           \/ \A i \in Idx(t)' : task'[t][i].st # "sent" => HasSlot(t, i)
    BY DEF SlotAwaits, StartUnderWay, HasSlot
  <2> QED BY <1>1 DEF IInv, SlotAwaits
<1>6. SentOK'
  <2> SUFFICES ASSUME NEW t \in Transfers, SessionOf[t] \in up, NEW i \in Idx(t)',
                      task'[t][i].st = "sent"
               PROVE  \/ outcome'[t][i] # None
                      \/ \E k \in 1 .. Len(chan[SessionOf[t]]) :
                           LET m == chan[SessionOf[t]][k]
                           IN  m.kind = "complete" /\ m.t = t /\ m.i = i
    BY DEF SentOK
  <2>1. i \in DOMAIN task'[t]
    BY DEF SenderOK, Idx
  <2>2. snd[t].phase \in Started
    BY <2>1 DEF PhaseOK, TransferOK, None
  <2>3. i \in Idx(t) /\ task[t][i].st = "sent" /\ outcome'[t] = outcome[t]
    BY <1>1, <2>2
  <2> QED BY <2>3 DEF IInv, SentOK
<1>7. ChunksFollow'
  <2> SUFFICES ASSUME NEW t \in Transfers, NEW i \in Idx(t)'
               PROVE  /\ \A k \in 1 .. Len(chan[SessionOf[t]]) : ChunkFollows(t, i, k)'
                      /\ AllFollows(t, i)'
    BY DEF ChunksFollow
  <2> USE DEF ChunkFollows, AllFollows, IsChunk, ChunkOff, ChunkEnd, Awaited, Base,
         StartUnderWay, HasSlot
  <2>1. CASE snd[t].phase \in Started
    <3>1. i \in Idx(t) /\ task'[t][i].off = task[t][i].off
      BY <1>1, <2>1
    <3>2. /\ \A k \in 1 .. Len(chan[SessionOf[t]]) : ChunkFollows(t, i, k)
          /\ AllFollows(t, i)
      BY ZenonT(90), <3>1 DEF IInv, ChunksFollow
    <3> QED BY <3>1, <3>2
  <2>2. CASE snd[t].phase \notin Started
    <3>1. /\ t \notin DOMAIN transfers /\ ~StartUnderWay(t)
          /\ \A k \in 1 .. Len(chan[SessionOf[t]]) : chan[SessionOf[t]][k].t # t
      BY <2>2, NotStartedFacts, SessionAssumption
    <3> QED BY <3>1
  <2> QED BY <2>1, <2>2
<1>8. SlotsOK'
  <2>1. \A t \in DOMAIN transfers : t \in Transfers /\ snd[t].phase \in Started
    BY DEF IInv, ReceiverOK, SlotAwaits
  <2>2. \A t \in DOMAIN transfers : snd'[t].entries = snd[t].entries
    BY <2>1
  <2> SUFFICES ASSUME NEW t \in DOMAIN transfers, NEW i \in DOMAIN transfers[t]
               PROVE  SlotOK(t, i)'
    BY DEF SlotsOK
  <2>3. SlotOK(t, i)
    BY DEF IInv, SlotsOK
  <2> QED BY <2>2, <2>3 DEF SlotOK, Partial
<1> QED BY <1>3, <1>4, <1>5, <1>6, <1>7, <1>8 DEF IInv
-----------------------------------------------------------------------------
(* The initial state and the quiet steps.                                    *)

\* The empty sequence is a function of no argument into any set.
LEMMA NothingFacts == ASSUME NEW S PROVE <<>> \in [DOMAIN <<>> -> S] /\ DOMAIN <<>> = {}
<1>1. <<>> \in Seq(S) /\ Len(<<>>) = 0
  OBVIOUS
<1> QED BY <1>1, LenProperties

\* At the start nothing is offered, under way or received.
LEMMA InitHolds == Init => IInv
<1> SUFFICES ASSUME Init PROVE IInv
  OBVIOUS
<1>1. \A t \in Transfers : /\ snd[t] = [phase |-> "idle", entries |-> <<>>, next |-> 1]
                           /\ task[t] = <<>> /\ outcome[t] = <<>> /\ Idx(t) = {}
  BY DEF Init, Idx
<1>2. \A s \in Sessions : chan[s] = <<>> /\ Len(chan[s]) = 0
  BY DEF Init
<1>3. DOMAIN transfers = {}
  BY DEF Init
<1>4. SenderOK
  <2>1. /\ DOMAIN source = Transfers
        /\ \A t \in Transfers :
             /\ DOMAIN source[t] = DOMAIN Content[t]
             /\ \A f \in DOMAIN source[t] : source[t][f] \in Seq(Units)
    BY ContentAssumption DEF Init
  <2>2. snd \in [Transfers -> [phase : Phases, entries : Seq(FileEntry), next : Nat \ {0}]]
    BY DEF Init, Phases
  <2>3. DOMAIN task = Transfers
    BY DEF Init
  <2>4. \A t \in Transfers :
          /\ DOMAIN task[t] = DOMAIN snd[t].entries
          /\ task[t] \in [DOMAIN task[t] -> [st : TaskStates, off : Nat, hash : Seq(Units)]]
    <3>1. <<>> \in [DOMAIN <<>> -> [st : TaskStates, off : Nat, hash : Seq(Units)]]
      BY ONLY NothingFacts
    <3>2. \A t \in Transfers : task[t] = <<>> /\ snd[t].entries = <<>>
      BY <1>1
    <3> QED BY <3>1, <3>2, Zenon
  <2> QED BY <1>1, <2>1, <2>2, <2>3, <2>4 DEF SenderOK
<1>5. ReceiverOK
  <2>1. /\ up \subseteq Sessions
        /\ DOMAIN transfers \subseteq Transfers
        /\ \A t \in DOMAIN transfers : /\ DOMAIN transfers[t] \subseteq Idx(t)
                                       /\ \A i \in DOMAIN transfers[t] : transfers[t][i] \in FileSlot
        /\ DOMAIN outcome = Transfers
        /\ refused \subseteq Transfers
    BY <1>3 DEF Init
  <2>2. chan \in [Sessions -> Seq(FileMessage)]
    BY DEF Init
  <2>3. \A s \in Sessions : Len(chan[s]) <= ChanCap
    BY <1>2, SizesFacts
  <2>4. disk \in [Destinations -> Seq(Units) \cup {Absent}]
    BY DEF Init
  <2>5. \A t \in Transfers :
          outcome[t] \in [DOMAIN snd[t].entries -> Outcomes]
    <3>1. <<>> \in [DOMAIN <<>> -> Outcomes]
      BY ONLY NothingFacts
    <3>2. \A t \in Transfers : outcome[t] = <<>> /\ snd[t].entries = <<>>
      BY <1>1
    <3> QED BY <3>1, <3>2, Zenon
  <2>6. faults \in 0 .. MaxFaults
    BY SizesAssumption DEF Init
  <2> QED BY <2>1, <2>2, <2>3, <2>4, <2>5, <2>6 DEF ReceiverOK
<1>6. PhaseOK
  BY <1>1 DEF PhaseOK, TransferOK, Started
<1>7. MessagesOK /\ MessagesFindTheirSlot
  BY <1>2 DEF MessagesOK, MessagesFindTheirSlot
<1>8. SlotAwaits
  BY <1>1, <1>3 DEF SlotAwaits, Started
<1>9. SentOK /\ ChunksFollow
  BY <1>1 DEF SentOK, ChunksFollow
<1>10. SlotsOK
  BY <1>3 DEF SlotsOK
<1> QED BY <1>4, <1>5, <1>6, <1>7, <1>8, <1>9, <1>10 DEF IInv

\* A change of the phase, or of how far send_paths is, keeps the types.
LEMMA SenderFrame ==
  ASSUME IInv, UNCHANGED <<source, chan, up, recvVars>>,
         snd' \in [Transfers -> [phase : Phases, entries : Seq(FileEntry), next : Nat \ {0}]],
         \A t \in Transfers : snd'[t].entries = snd[t].entries,
         DOMAIN task' = Transfers,
         \A t \in Transfers :
           /\ DOMAIN task'[t] = DOMAIN task[t]
           /\ task'[t] \in [DOMAIN task[t] -> [st : TaskStates, off : Nat, hash : Seq(Units)]],
         faults' \in 0 .. MaxFaults
  PROVE  SenderOK' /\ ReceiverOK' /\ \A t \in Transfers : Idx(t)' = Idx(t)
<1>1. \A t \in Transfers : Idx(t)' = Idx(t)
  BY DEF Idx
<1>2. SenderOK'
  BY <1>1 DEF IInv, SenderOK
<1>3. ReceiverOK'
  <2>1. ReceiverOK /\ UNCHANGED <<transfers, disk, outcome, refused>>
    BY DEF IInv, recvVars
  <2>2. \A t \in Transfers : outcome'[t] \in [DOMAIN snd'[t].entries -> Outcomes]
    BY <2>1 DEF ReceiverOK
  <2>3. chan' = chan /\ up' = up
    OBVIOUS
  <2>4. \A t \in DOMAIN transfers' : /\ DOMAIN transfers'[t] \subseteq Idx(t)'
                                     /\ \A i \in DOMAIN transfers'[t] : transfers'[t][i] \in FileSlot
    BY <1>1, <2>1 DEF ReceiverOK
  <2> QED BY <2>1, <2>2, <2>3, <2>4 DEF ReceiverOK
<1> QED BY <1>1, <1>2, <1>3

\* A counted fault keeps the count within its bound.
LEMMA FaultFacts ==
  ASSUME ReceiverOK, Fault \/ UNCHANGED faults
  PROVE  faults' \in 0 .. MaxFaults
BY SizesAssumption DEF ReceiverOK, Fault

\* Changing the phase of one transfer.
LEMMA PhaseFacts ==
  ASSUME SenderOK, NEW t \in Transfers, NEW ph \in Phases, SetPhase(t, ph)
  PROVE  /\ snd' \in [Transfers -> [phase : Phases, entries : Seq(FileEntry), next : Nat \ {0}]]
         /\ snd'[t].phase = ph /\ snd'[t].entries = snd[t].entries /\ snd'[t].next = snd[t].next
         /\ \A u \in Transfers \ {t} : snd'[u] = snd[u]
<1>1. snd \in [Transfers -> [phase : Phases, entries : Seq(FileEntry), next : Nat \ {0}]]
  BY DEF SenderOK
<1>2. snd' = [snd EXCEPT ![t] = [snd[t] EXCEPT !.phase = ph]]
  BY <1>1 DEF SetPhase
<1>3. [snd[t] EXCEPT !.phase = ph] \in [phase : Phases, entries : Seq(FileEntry), next : Nat \ {0}]
  BY <1>1
<1>4. snd'[t] = [snd[t] EXCEPT !.phase = ph] /\ \A u \in Transfers \ {t} : snd'[u] = snd[u]
  BY <1>1, <1>2
<1> QED BY <1>1, <1>2, <1>3, <1>4

\* send_files only adds to a transfer that was idle.
LEMMA SendFilesStep == ASSUME IInv, NEW t \in Transfers, SendFiles(t) PROVE IInv'
<1>1. PICK ph \in {"failed", "start"} :
        /\ snd' = [snd EXCEPT ![t].phase = ph, ![t].entries = Entries(t)]
        /\ Entries(t) = <<>> => ph = "failed"
  BY DEF SendFiles
<1>2. /\ snd[t].phase = "idle"
      /\ task' = [task EXCEPT ![t] = [i \in DOMAIN Entries(t) |-> [st |-> None, off |-> 0, hash |-> <<>>]]]
      /\ outcome' = [outcome EXCEPT ![t] = [i \in DOMAIN Entries(t) |-> None]]
      /\ UNCHANGED <<source, chan, up, transfers, disk, refused, spoiled, faults>>
  BY DEF SendFiles
<1>3. SenderOK /\ ReceiverOK /\ PhaseOK
  BY DEF IInv
<1>4. /\ Entries(t) \in Seq(FileEntry)
      /\ \A i \in DOMAIN Entries(t) : ~Entries(t)[i].dir =>
              Entries(t)[i].path \in DOMAIN Content[t]
  BY <1>3, EntriesFacts
<1>5. PICK es : es = Entries(t)
  OBVIOUS
<1>6. snd \in [Transfers -> [phase : Phases, entries : Seq(FileEntry), next : Nat \ {0}]]
  BY <1>3 DEF SenderOK
<1>7. /\ snd'[t] = [snd[t] EXCEPT !.phase = ph, !.entries = es]
      /\ \A u \in Transfers \ {t} : snd'[u] = snd[u]
      /\ DOMAIN snd' = Transfers /\ snd' = [u \in Transfers |-> snd'[u]]
  BY <1>1, <1>5, <1>6
<1>8. snd'[t].phase = ph /\ snd'[t].entries = es /\ snd'[t].next = snd[t].next
  BY <1>6, <1>7
<1>9. snd'[t] \in [phase : Phases, entries : Seq(FileEntry), next : Nat \ {0}]
  BY <1>4, <1>5, <1>6, <1>7 DEF Phases
<1>10. snd' \in [Transfers -> [phase : Phases, entries : Seq(FileEntry), next : Nat \ {0}]]
  BY <1>6, <1>7, <1>9
<1>11. /\ DOMAIN task' = Transfers /\ DOMAIN outcome' = Transfers
       /\ task'[t] = [i \in DOMAIN es |-> [st |-> None, off |-> 0, hash |-> <<>>]]
       /\ outcome'[t] = [i \in DOMAIN es |-> None]
       /\ \A u \in Transfers \ {t} : task'[u] = task[u] /\ outcome'[u] = outcome[u]
  BY <1>2, <1>3, <1>5 DEF SenderOK, ReceiverOK
<1>12. \A u \in Transfers \ {t} : Idx(u)' = Idx(u)
  BY <1>7 DEF Idx
<1>13. \A i \in Idx(t)' : i \in DOMAIN es /\ ~es[i].dir
  BY <1>8 DEF Idx
<1>14. SenderOK'
  <2>1. /\ DOMAIN source' = Transfers
        /\ \A u \in Transfers :
             /\ DOMAIN source'[u] = DOMAIN Content[u]
             /\ \A f \in DOMAIN source'[u] : source'[u][f] \in Seq(Units)
    BY <1>2, <1>3 DEF SenderOK
  <2>2. ASSUME NEW u \in Transfers, NEW i \in Idx(u)'
        PROVE  snd'[u].entries[i].path \in DOMAIN Content[u]
    <3>1. CASE u = t
      BY <1>4, <1>5, <1>8, <1>13, <2>2, <3>1
    <3>2. CASE u # t
      BY <1>3, <1>7, <1>12, <2>2, <3>2 DEF SenderOK
    <3> QED BY <3>1, <3>2
  <2>3. ASSUME NEW u \in Transfers
        PROVE  /\ DOMAIN task'[u] = DOMAIN snd'[u].entries
               /\ task'[u] \in [DOMAIN task'[u] -> [st : TaskStates, off : Nat, hash : Seq(Units)]]
    <3>1. CASE u = t
      <4>1. [st |-> None, off |-> 0, hash |-> <<>>] \in [st : TaskStates, off : Nat, hash : Seq(Units)]
        BY DEF TaskStates
      <4>2. [i \in DOMAIN es |-> [st |-> None, off |-> 0, hash |-> <<>>]]
              \in [DOMAIN es -> [st : TaskStates, off : Nat, hash : Seq(Units)]]
        BY ONLY <4>1, Zenon
      <4>3. DOMAIN [i \in DOMAIN es |-> [st |-> None, off |-> 0, hash |-> <<>>]] = DOMAIN es
        OBVIOUS
      <4> QED BY <1>8, <1>11, <3>1, <4>2, <4>3, Zenon
    <3>2. CASE u # t
      BY <1>3, <1>7, <1>11, <3>2 DEF SenderOK
    <3> QED BY <3>1, <3>2
  <2> QED BY <1>10, <1>11, <2>1, <2>2, <2>3 DEF SenderOK
<1>15. t \notin DOMAIN transfers
  BY <1>2, NotStartedFacts DEF Started
<1>16. ReceiverOK'
  <2>1. \A u \in DOMAIN transfers : u # t /\ u \in Transfers /\ Idx(u)' = Idx(u)
    BY <1>3, <1>12, <1>15 DEF ReceiverOK
  <2>2. ASSUME NEW u \in Transfers
        PROVE  outcome'[u] \in [DOMAIN snd'[u].entries -> Outcomes]
    <3>1. CASE u = t
      BY <1>8, <1>11, <3>1 DEF Outcomes
    <3>2. CASE u # t
      BY <1>3, <1>7, <1>11, <3>2 DEF ReceiverOK
    <3> QED BY <3>1, <3>2
  <2> QED BY <1>2, <1>3, <1>11, <2>1, <2>2 DEF ReceiverOK
<1>17. PhaseOK'
  <2> SUFFICES ASSUME NEW u \in Transfers
               PROVE  TransferOK(u)'
    BY DEF PhaseOK
  <2>1. CASE u = t
    <3>1. snd[t].next = 1
      BY <1>2, <1>3 DEF PhaseOK, TransferOK, Started
    <3> QED BY <1>8, <1>11, <2>1, <3>1 DEF TransferOK, Started
  <2>2. CASE u # t
    <3>1. /\ snd'[u] = snd[u] /\ task'[u] = task[u] /\ Idx(u)' = Idx(u)
          /\ Running(u)' = Running(u)
      BY <1>7, <1>11, <1>12, <2>2 DEF Running
    <3> QED BY <1>3, <3>1 DEF PhaseOK, TransferOK
  <2> QED BY <2>1, <2>2
<1>18. \A u \in Transfers : snd'[u].phase \in Started <=> snd[u].phase \in Started
  BY <1>2, <1>7, <1>8 DEF Started
<1>19. \A u \in Transfers : snd[u].phase \in Started =>
           /\ snd'[u].entries = snd[u].entries /\ outcome'[u] = outcome[u] /\ task'[u] = task[u]
  BY <1>2, <1>7, <1>11 DEF Started
<1> QED BY <1>2, <1>14, <1>16, <1>17, <1>18, <1>19, QuietFrame

\* send_paths gives up before it has started.
LEMMA SendFailsStep == ASSUME IInv, NEW t \in Transfers, SendFails(t) PROVE IInv'
<1>1. /\ snd[t].phase \in {"idle", "start"} /\ (Fault \/ UNCHANGED faults)
      /\ SetPhase(t, "failed")
      /\ UNCHANGED <<source, task, chan, up, recvVars>>
  BY DEF SendFails
<1>2. SenderOK /\ ReceiverOK /\ PhaseOK
  BY DEF IInv
<1>3. /\ snd' \in [Transfers -> [phase : Phases, entries : Seq(FileEntry), next : Nat \ {0}]]
      /\ snd'[t].phase = "failed" /\ snd'[t].entries = snd[t].entries /\ snd'[t].next = snd[t].next
      /\ \A u \in Transfers \ {t} : snd'[u] = snd[u]
  BY <1>1, <1>2, PhaseFacts DEF Phases
<1>4. SenderOK' /\ ReceiverOK' /\ \A u \in Transfers : Idx(u)' = Idx(u)
  BY <1>1, <1>2, <1>3, FaultFacts, SenderFrame DEF SenderOK
<1>5. PhaseOK'
  <2>1. \A u \in Transfers : TransferOK(u)
    BY <1>2 DEF PhaseOK
  <2>2. TransferOK(t)'
    <3>1. snd[t].next = 1 /\ \A i \in DOMAIN task[t] : task[t][i].st = None /\ task[t][i].off = 0
      BY <1>1, <2>1 DEF TransferOK, Started
    <3> QED BY <1>1, <1>3, <3>1 DEF TransferOK, Started
  <2>3. ASSUME NEW u \in Transfers \ {t} PROVE TransferOK(u)'
    <3>1. /\ snd'[u] = snd[u] /\ task'[u] = task[u] /\ Idx(u)' = Idx(u)
          /\ Running(u)' = Running(u)
      BY <1>1, <1>3, <1>4 DEF Running
    <3> QED BY <2>1, <3>1 DEF TransferOK
  <2> QED BY <2>2, <2>3 DEF PhaseOK
<1> QED BY <1>1, <1>3, <1>4, <1>5, QuietFrame DEF Started, recvVars

\* send_paths reports success once no task has a permit.
LEMMA FinishStep == ASSUME IInv, NEW t \in Transfers, Finish(t) PROVE IInv'
<1>1. /\ snd[t].phase = "wait" /\ Running(t) = {}
      /\ SetPhase(t, "done")
      /\ UNCHANGED <<source, task, chan, up, recvVars, faults>>
  BY DEF Finish
<1>2. SenderOK /\ ReceiverOK /\ PhaseOK
  BY DEF IInv
<1>3. /\ snd' \in [Transfers -> [phase : Phases, entries : Seq(FileEntry), next : Nat \ {0}]]
      /\ snd'[t].phase = "done" /\ snd'[t].entries = snd[t].entries /\ snd'[t].next = snd[t].next
      /\ \A u \in Transfers \ {t} : snd'[u] = snd[u]
  BY <1>1, <1>2, PhaseFacts DEF Phases
<1>4. SenderOK' /\ ReceiverOK' /\ \A u \in Transfers : Idx(u)' = Idx(u)
  BY <1>1, <1>2, <1>3, FaultFacts, SenderFrame DEF SenderOK
<1>5. PhaseOK'
  BY <1>1, <1>2, <1>3, <1>4 DEF PhaseOK, TransferOK, Running, Started
<1> QED BY <1>1, <1>3, <1>4, <1>5, QuietFrame DEF Started, recvVars

\* Steps of one task of a started transfer: what the invariant says of the others stays.
LEMMA TaskFacts ==
  ASSUME SenderOK, NEW t \in Transfers, NEW i \in DOMAIN task[t],
         NEW r \in [st : TaskStates, off : Nat, hash : Seq(Units)],
         task' = [task EXCEPT ![t] = [task[t] EXCEPT ![i] = r]]
  PROVE  /\ DOMAIN task' = Transfers
         /\ \A u \in Transfers :
              /\ DOMAIN task'[u] = DOMAIN task[u]
              /\ task'[u] \in [DOMAIN task[u] -> [st : TaskStates, off : Nat, hash : Seq(Units)]]
         /\ task'[t][i] = r
         /\ \A j \in DOMAIN task[t] \ {i} : task'[t][j] = task[t][j]
         /\ \A u \in Transfers \ {t} : task'[u] = task[u]
<1> DEFINE T == [st : TaskStates, off : Nat, hash : Seq(Units)]
<1>1. DOMAIN task = Transfers /\ \A u \in Transfers : task[u] \in [DOMAIN task[u] -> T]
  BY DEF SenderOK
<1>2. r \in T
  OBVIOUS
<1> HIDE DEF T
<1>3. /\ task'[t] = [task[t] EXCEPT ![i] = r]
      /\ \A u \in Transfers \ {t} : task'[u] = task[u]
      /\ DOMAIN task' = Transfers
  BY <1>1
<1>4. /\ task'[t] \in [DOMAIN task[t] -> T] /\ DOMAIN task'[t] = DOMAIN task[t]
      /\ task'[t][i] = r
      /\ \A j \in DOMAIN task[t] \ {i} : task'[t][j] = task[t][j]
  BY <1>1, <1>2, <1>3
<1>5. \A u \in Transfers :
        /\ DOMAIN task'[u] = DOMAIN task[u]
        /\ task'[u] \in [DOMAIN task[u] -> T]
  BY <1>1, <1>3, <1>4
<1> QED BY <1>3, <1>4, <1>5 DEF T

\* send_paths takes the next entry: a task for a file with a permit, or the wait.
LEMMA SpawnStep == ASSUME IInv, NEW t \in Transfers, Spawn(t) PROVE IInv'
<1>1. /\ snd[t].phase = "spawn"
      /\ UNCHANGED <<source, chan, up, recvVars, faults>>
  BY DEF Spawn
<1>2. SenderOK /\ ReceiverOK /\ PhaseOK
  BY DEF IInv
<1>3. /\ snd[t] \in [phase : Phases, entries : Seq(FileEntry), next : Nat \ {0}]
      /\ snd \in [Transfers -> [phase : Phases, entries : Seq(FileEntry), next : Nat \ {0}]]
  BY <1>2 DEF SenderOK
<1>4. /\ snd[t].entries \in Seq(FileEntry) /\ snd[t].next \in Nat \ {0}
      /\ DOMAIN task[t] = 1 .. Len(snd[t].entries) /\ Len(snd[t].entries) \in Nat
  BY <1>2, <1>3 DEF SenderOK
<1>5. CASE snd[t].next > Len(snd[t].entries)
  <2>1. SetPhase(t, "wait") /\ UNCHANGED task
    BY <1>5 DEF Spawn
  <2>2. /\ snd' \in [Transfers -> [phase : Phases, entries : Seq(FileEntry), next : Nat \ {0}]]
        /\ snd'[t].phase = "wait" /\ snd'[t].entries = snd[t].entries /\ snd'[t].next = snd[t].next
        /\ \A u \in Transfers \ {t} : snd'[u] = snd[u]
    BY <1>2, <2>1, PhaseFacts DEF Phases
  <2>3. SenderOK' /\ ReceiverOK' /\ \A u \in Transfers : Idx(u)' = Idx(u)
    BY <1>1, <1>2, <2>1, <2>2, FaultFacts, SenderFrame DEF SenderOK
  <2>4. PhaseOK'
    BY <1>1, <1>2, <1>5, <2>1, <2>2, <2>3 DEF PhaseOK, TransferOK, Running, Started
  <2> QED BY <1>1, <2>1, <2>2, <2>3, <2>4, QuietFrame DEF Started, recvVars
<1>6. CASE ~(snd[t].next > Len(snd[t].entries))
  <2> DEFINE n == snd[t].next
  <2>1. n \in DOMAIN task[t]
    BY <1>4, <1>6
  <2>2. snd' = [snd EXCEPT ![t].next = snd[t].next + 1]
    BY <1>6 DEF Spawn
  <2>3. /\ snd'[t] = [snd[t] EXCEPT !.next = snd[t].next + 1]
        /\ \A u \in Transfers \ {t} : snd'[u] = snd[u]
        /\ snd' = [snd EXCEPT ![t] = [snd[t] EXCEPT !.next = snd[t].next + 1]]
    BY <1>3, <2>2
  <2>4. snd[t].next + 1 \in Nat \ {0}
    BY <1>4
  <2>5. [snd[t] EXCEPT !.next = snd[t].next + 1]
          \in [phase : Phases, entries : Seq(FileEntry), next : Nat \ {0}]
    BY <1>3, <2>4
  <2>6. snd' \in [Transfers -> [phase : Phases, entries : Seq(FileEntry), next : Nat \ {0}]]
    BY <1>3, <2>3, <2>5
  <2>7. snd'[t].phase = "spawn" /\ snd'[t].entries = snd[t].entries /\ snd'[t].next = snd[t].next + 1
    BY <1>1, <1>3, <2>3
  <2>8. \A u \in Transfers : snd'[u].entries = snd[u].entries /\ snd'[u].phase = snd[u].phase
    BY <1>1, <2>3, <2>7
  <2>9. CASE snd[t].entries[n].dir
    <3>1. UNCHANGED task
      BY <1>6, <2>9 DEF Spawn
    <3>2. SenderOK' /\ ReceiverOK' /\ \A u \in Transfers : Idx(u)' = Idx(u)
      BY <1>1, <1>2, <2>6, <2>8, <3>1, FaultFacts, SenderFrame DEF SenderOK
    <3>3. n \notin Idx(t)
      BY <2>9 DEF Idx
    <3>4. \A i \in Idx(t) : i < n + 1 <=> i < n
      BY <1>4, <3>3 DEF Idx
    <3>5. PhaseOK'
      <4> SUFFICES ASSUME NEW u \in Transfers
                   PROVE  TransferOK(u)'
        BY DEF PhaseOK
      <4>1. Running(u)' = Running(u)
        BY <3>1 DEF Running
      <4>2. CASE u = t
        BY <1>2, <1>1, <2>7, <3>1, <3>2, <3>4, <4>2 DEF PhaseOK, TransferOK, Started
      <4>3. CASE u # t
        BY <1>2, <2>3, <3>1, <3>2, <4>1, <4>3 DEF PhaseOK, TransferOK
      <4> QED BY <4>2, <4>3
    <3> QED BY <1>1, <2>8, <3>1, <3>2, <3>5, QuietFrame DEF recvVars
  <2>10. CASE ~snd[t].entries[n].dir
    <3>1. task' = [task EXCEPT ![t][n].st = "run"]
      BY <1>6, <2>10 DEF Spawn
    <3>2. task' = [task EXCEPT ![t] = [task[t] EXCEPT ![n] = [task[t][n] EXCEPT !.st = "run"]]]
      BY <3>1
    <3>3. task[t][n] \in [st : TaskStates, off : Nat, hash : Seq(Units)]
      BY <1>2, <2>1 DEF SenderOK
    <3>4. [task[t][n] EXCEPT !.st = "run"] \in [st : TaskStates, off : Nat, hash : Seq(Units)]
      BY <3>3 DEF TaskStates
    <3> HIDE DEF n
    <3>5. PICK r \in [st : TaskStates, off : Nat, hash : Seq(Units)] :
            r = [task[t][n] EXCEPT !.st = "run"]
      BY <3>4
    <3>6. r.st = "run" /\ r.off = task[t][n].off /\ r.hash = task[t][n].hash
      BY <3>3, <3>5
    <3>7. /\ DOMAIN task' = Transfers
          /\ \A u \in Transfers :
               /\ DOMAIN task'[u] = DOMAIN task[u]
               /\ task'[u] \in [DOMAIN task[u] -> [st : TaskStates, off : Nat, hash : Seq(Units)]]
          /\ task'[t][n] = r
          /\ \A j \in DOMAIN task[t] \ {n} : task'[t][j] = task[t][j]
          /\ \A u \in Transfers \ {t} : task'[u] = task[u]
      BY <1>2, <2>1, <3>2, <3>5, TaskFacts
    <3>8. SenderOK' /\ ReceiverOK' /\ \A u \in Transfers : Idx(u)' = Idx(u)
      BY <1>1, <1>2, <2>6, <2>8, <3>7, FaultFacts, SenderFrame
    <3>9. n \in Idx(t) /\ task[t][n].st = None
      BY <1>2, <1>4, <2>1, <2>10 DEF Idx, PhaseOK, TransferOK, n, SenderOK
    <3>10. \A i \in Idx(t) : i < snd[t].next + 1 <=> i < snd[t].next \/ i = n
      BY <1>4 DEF Idx, n
    <3>11. PhaseOK'
      <4> SUFFICES ASSUME NEW u \in Transfers
                   PROVE  TransferOK(u)'
        BY DEF PhaseOK
      <4>1. CASE u = t
        <5>1. /\ snd'[u].phase = "spawn" /\ snd[u].phase = "spawn" /\ snd'[u].next = snd[u].next + 1
              /\ Idx(u)' = Idx(u) /\ DOMAIN task'[u] = DOMAIN task[u]
          BY <1>1, <2>7, <3>7, <3>8, <4>1
        <5>2. ASSUME NEW i \in DOMAIN task[u]
              PROVE  /\ task'[u][i].st # None => i \in Idx(u) /\ i < snd'[u].next
                     /\ i \in Idx(u) /\ i < snd'[u].next => task'[u][i].st # None
                     /\ task'[u][i].st = None => task'[u][i].off = 0
          <6>1. CASE i = n
            BY <3>6, <3>7, <3>9, <3>10, <4>1, <5>1, <6>1 DEF None
          <6>2. CASE i # n
            <7>1. task'[u][i] = task[u][i]
              BY <3>7, <4>1, <5>2, <6>2
            <7>2. i \in Idx(u) => (i < snd'[u].next <=> i < snd[u].next)
              BY <3>10, <4>1, <5>1, <6>2
            <7>3. TransferOK(u)
              BY <1>2 DEF PhaseOK
            <7>4. /\ task[u][i].st # None => i \in Idx(u) /\ i < snd[u].next
                  /\ i \in Idx(u) /\ i < snd[u].next => task[u][i].st # None
                  /\ task[u][i].st = None => task[u][i].off = 0
              BY <5>1, <5>2, <7>3 DEF TransferOK, Started
            <7> QED BY <7>1, <7>2, <7>4
          <6> QED BY <6>1, <6>2
        <5> QED BY <5>1, <5>2 DEF TransferOK, Started
      <4>2. CASE u # t
        <5>1. Running(u)' = Running(u)
          BY <3>7, <4>2 DEF Running
        <5> QED BY <1>2, <2>3, <3>7, <3>8, <4>2, <5>1 DEF PhaseOK, TransferOK
      <4> QED BY <4>1, <4>2
    <3>12. ASSUME NEW u \in Transfers, snd[u].phase \in Started, NEW i \in Idx(u)
           PROVE  /\ task'[u][i].off = task[u][i].off /\ task'[u][i].hash = task[u][i].hash
                  /\ task'[u][i].st = "sent" <=> task[u][i].st = "sent"
      <4>1. i \in DOMAIN task[u]
        BY <1>2, <3>12 DEF Idx, SenderOK
      <4> QED BY <3>6, <3>7, <3>9, <4>1 DEF None
    <3> QED BY <1>1, <2>8, <3>8, <3>11, <3>12, QuietFrame DEF recvVars
  <2> QED BY <2>9, <2>10
<1> QED BY <1>5, <1>6

\* A task that runs goes on or ends: send_paths is where it was.
LEMMA TaskStep ==
  ASSUME IInv, NEW t \in Transfers, NEW i \in Idx(t),
         NEW r \in [st : TaskStates, off : Nat, hash : Seq(Units)], r.st # None,
         task[t][i].st \in {"run", "last"},
         task' = [task EXCEPT ![t] = [task[t] EXCEPT ![i] = r]],
         UNCHANGED <<source, snd>>
  PROVE  /\ snd[t].phase \in Started
         /\ SenderOK' /\ PhaseOK' /\ \A u \in Transfers : Idx(u)' = Idx(u)
         /\ task'[t][i] = r
         /\ \A j \in Idx(t) \ {i} : task'[t][j] = task[t][j]
         /\ \A u \in Transfers \ {t} : task'[u] = task[u]
<1>1. SenderOK /\ PhaseOK
  BY DEF IInv
<1>2. i \in DOMAIN task[t]
  BY <1>1 DEF Idx, SenderOK
<1>3. /\ DOMAIN task' = Transfers
      /\ \A u \in Transfers :
           /\ DOMAIN task'[u] = DOMAIN task[u]
           /\ task'[u] \in [DOMAIN task[u] -> [st : TaskStates, off : Nat, hash : Seq(Units)]]
      /\ task'[t][i] = r
      /\ \A j \in DOMAIN task[t] \ {i} : task'[t][j] = task[t][j]
      /\ \A u \in Transfers \ {t} : task'[u] = task[u]
  BY <1>1, <1>2, TaskFacts
<1>4. \A u \in Transfers : Idx(u)' = Idx(u)
  BY DEF Idx
<1>5. SenderOK'
  BY <1>1, <1>3, <1>4 DEF SenderOK
<1>6. /\ snd[t].phase \in Started /\ snd[t].phase # "done" /\ i < snd[t].next
  BY <1>1, <1>2 DEF PhaseOK, TransferOK, Running, None
<1>7. PhaseOK'
  <2> SUFFICES ASSUME NEW u \in Transfers
               PROVE  TransferOK(u)'
    BY DEF PhaseOK
  <2>1. CASE u = t
    <3>1. ASSUME NEW j \in DOMAIN task[u]
          PROVE  /\ task'[u][j].st # None => snd[u].phase \in Started /\ j \in Idx(u) /\ j < snd[u].next
                 /\ snd[u].phase \in Started /\ j \in Idx(u) /\ j < snd[u].next => task'[u][j].st # None
                 /\ task'[u][j].st = None => task'[u][j].off = 0
      <4>1. CASE j = i
        BY <1>3, <1>6, <2>1, <4>1
      <4>2. CASE j # i
        BY <1>1, <1>3, <2>1, <3>1, <4>2 DEF PhaseOK, TransferOK
      <4> QED BY <4>1, <4>2
    <3> QED BY <1>1, <1>3, <1>4, <1>6, <2>1, <3>1 DEF PhaseOK, TransferOK
  <2>2. CASE u # t
    <3>1. Running(u)' = Running(u)
      BY <1>3, <2>2 DEF Running
    <3> QED BY <1>1, <1>3, <1>4, <2>2, <3>1 DEF PhaseOK, TransferOK
  <2> QED BY <2>1, <2>2
<1>8. \A j \in Idx(t) \ {i} : task'[t][j] = task[t][j]
  BY <1>1, <1>3 DEF Idx, SenderOK
<1> QED BY <1>3, <1>4, <1>5, <1>6, <1>7, <1>8

\* A task gives up: it gives its permit back.
LEMMA TaskFailsStep ==
  ASSUME IInv, NEW t \in Transfers, NEW i \in Idx(t), TaskFails(t, i) PROVE IInv'
<1>1. /\ i \in Running(t) /\ (Fault \/ UNCHANGED faults)
      /\ task' = [task EXCEPT ![t][i].st = "failed"]
      /\ UNCHANGED <<source, snd, chan, up, recvVars>>
  BY DEF TaskFails
<1>2. SenderOK /\ ReceiverOK
  BY DEF IInv
<1>3. i \in DOMAIN task[t] /\ task[t][i].st \in {"run", "last"}
  BY <1>1 DEF Running
<1>4. task[t][i] \in [st : TaskStates, off : Nat, hash : Seq(Units)]
  BY <1>2, <1>3 DEF SenderOK
<1>5. PICK r \in [st : TaskStates, off : Nat, hash : Seq(Units)] :
        r = [task[t][i] EXCEPT !.st = "failed"]
  BY <1>4 DEF TaskStates
<1>6. r.st = "failed" /\ r.off = task[t][i].off /\ r.hash = task[t][i].hash
  BY <1>4, <1>5
<1>7. task' = [task EXCEPT ![t] = [task[t] EXCEPT ![i] = r]]
  BY <1>1, <1>5
<1>8. /\ SenderOK' /\ PhaseOK' /\ \A u \in Transfers : Idx(u)' = Idx(u)
      /\ task'[t][i] = r
      /\ \A j \in Idx(t) \ {i} : task'[t][j] = task[t][j]
      /\ \A u \in Transfers \ {t} : task'[u] = task[u]
  <2>1. r.st # None /\ UNCHANGED <<source, snd>>
    BY <1>1, <1>6 DEF None
  <2>2. r \in [st : TaskStates, off : Nat, hash : Seq(Units)] /\ task[t][i].st \in {"run", "last"}
    BY <1>3, <1>5
  <2>3. /\ snd[t].phase \in Started
        /\ SenderOK' /\ PhaseOK' /\ \A u \in Transfers : Idx(u)' = Idx(u)
        /\ task'[t][i] = r
        /\ \A j \in Idx(t) \ {i} : task'[t][j] = task[t][j]
        /\ \A u \in Transfers \ {t} : task'[u] = task[u]
    BY <1>7, <2>1, <2>2, TaskStep
  <2> QED BY <2>3
<1>9. ReceiverOK'
  BY <1>1, <1>2, <1>8, FaultFacts DEF ReceiverOK, recvVars
<1>10. ASSUME NEW u \in Transfers, NEW j \in Idx(u)
       PROVE  /\ task'[u][j].off = task[u][j].off /\ task'[u][j].hash = task[u][j].hash
              /\ task'[u][j].st = "sent" <=> task[u][j].st = "sent"
  BY <1>3, <1>6, <1>8, <1>10
<1> QED BY <1>1, <1>8, <1>9, <1>10, QuietFrame DEF recvVars

\* A file changes on the disk of its sender: what was read of it stays read.
LEMMA EditStep ==
  ASSUME IInv, NEW t \in Transfers, NEW p \in DOMAIN source[t], Edit(t, p) PROVE IInv'
<1>1. Fault /\ UNCHANGED <<snd, task, chan, up, recvVars>>
  BY DEF Edit
<1>2. SenderOK /\ ReceiverOK
  BY DEF IInv
<1>3. DOMAIN source = Transfers /\ source[t][p] \in Seq(Units)
  BY <1>2 DEF SenderOK
<1>4. PICK c \in Seq(Units) : source' = [source EXCEPT ![t] = [source[t] EXCEPT ![p] = c]]
  <2> DEFINE f == source[t][p]
  <2> HIDE DEF f
  <2>1. f \in Seq(Units)
    BY <1>3 DEF f
  <2>2. CASE source' = [source EXCEPT ![t][p] = Append(@, Edited)]
    <3>1. Append(f, Edited) \in Seq(Units)
      <4>1. Edited \in Units
        BY DEF Units
      <4> QED BY <2>1, <4>1, AppendProperties
    <3>2. source' = [source EXCEPT ![t] = [source[t] EXCEPT ![p] = Append(f, Edited)]]
      BY <2>2 DEF f
    <3> QED BY <3>1, <3>2
  <2>3. CASE source[t][p] # <<>> /\ source' = [source EXCEPT ![t][p] = Front(@)]
    <3>1. Front(f) \in Seq(Units)
      BY <2>1, <2>3 DEF Front, f
    <3>2. source' = [source EXCEPT ![t] = [source[t] EXCEPT ![p] = Front(f)]]
      BY <2>3 DEF f
    <3> QED BY <3>1, <3>2
  <2>4. CASE source[t][p] # <<>> /\ source' = [source EXCEPT ![t][p] = [k \in DOMAIN @ |-> Edited]]
    <3>1. [k \in DOMAIN f |-> Edited] \in Seq(Units)
      <4>1. Edited \in Units
        BY DEF Units
      <4>2. DOMAIN f = 1 .. Len(f) /\ Len(f) \in Nat
        BY <2>1
      <4>3. [k \in DOMAIN f |-> Edited] = [k \in 1 .. Len(f) |-> Edited]
        BY <4>2
      <4>4. \A e \in Units : [k \in 1 .. Len(f) |-> e] \in Seq(Units)
        BY <4>2
      <4> QED BY <4>1, <4>3, <4>4
    <3>2. source' = [source EXCEPT ![t] = [source[t] EXCEPT ![p] = [k \in DOMAIN f |-> Edited]]]
      BY <2>4 DEF f
    <3> QED BY <3>1, <3>2
  <2> QED BY <2>2, <2>3, <2>4 DEF Edit
<1>5. SenderOK'
  <2>1. DOMAIN source' = Transfers
    BY <1>3, <1>4
  <2>2. /\ source'[t] = [source[t] EXCEPT ![p] = c]
        /\ \A u \in Transfers \ {t} : source'[u] = source[u]
    BY <1>3, <1>4
  <2>3. \A u \in Transfers :
          /\ DOMAIN source'[u] = DOMAIN Content[u]
          /\ \A f \in DOMAIN source'[u] : source'[u][f] \in Seq(Units)
    BY <1>2, <2>2 DEF SenderOK
  <2>4. \A u \in Transfers : Idx(u)' = Idx(u)
    BY <1>1 DEF Idx
  <2> QED BY <1>1, <1>2, <2>1, <2>3, <2>4 DEF SenderOK
<1>6. ReceiverOK'
  <2>1. \A u \in Transfers : Idx(u)' = Idx(u)
    BY <1>1 DEF Idx
  <2> QED BY <1>1, <1>2, <2>1, FaultFacts DEF ReceiverOK, recvVars
<1>7. PhaseOK'
  <2>1. \A u \in Transfers : Idx(u)' = Idx(u) /\ Running(u)' = Running(u)
    BY <1>1 DEF Idx, Running
  <2> QED BY <1>1, <2>1 DEF IInv, PhaseOK, TransferOK
<1> QED BY <1>1, <1>5, <1>6, <1>7, QuietFrame DEF recvVars

-----------------------------------------------------------------------------
(* Steps of the sending devices that send a message.                         *)

\* What makes a message right after a step, when it is known by a name.
LEMMA MessageKept ==
  ASSUME NEW r, NEW k, NEW x, chan'[r][k] = x,
         SessionOf[x.t] = r, snd'[x.t].phase \in Started,
         x.kind = "start" => x.files = snd'[x.t].entries /\ x.t \notin DOMAIN transfers',
         x.kind \in {"chunk", "complete"} => x.i \in Idx(x.t)',
         x.kind = "complete" => /\ task'[x.t][x.i].st = "sent"
                                /\ x.hash = task'[x.t][x.i].hash,
         \A j \in 1 .. k - 1 : chan'[r][j].t = x.t => x.kind # "start"
  PROVE  MessageOK(r, k)'
BY DEF MessageOK

\* A message of a started transfer at the end of its channel: what the invariant says
\* of the messages before it stays, what it says of the new one is to be shown.
LEMMA PushFrame ==
  ASSUME IInv, SenderOK', ReceiverOK', PhaseOK',
         NEW t \in Transfers, NEW m \in FileMessage, m.t = t, Push(SessionOf[t], m),
         NEW n, n = Len(chan[SessionOf[t]]) + 1,
         UNCHANGED <<up, transfers, disk, outcome, refused, spoiled>>,
         \A u \in Transfers : /\ snd'[u].entries = snd[u].entries
                              /\ snd[u].phase \in Started => snd'[u].phase \in Started,
         \A u \in Transfers \ {t} : snd'[u] = snd[u] /\ task'[u] = task[u],
         \A i \in Idx(t) : /\ task'[t][i].off >= task[t][i].off
                           /\ task[t][i].st = "sent" => task'[t][i] = task[t][i],
         m.kind = "start" => snd[t].phase \notin Started,
         MessageOK(SessionOf[t], n)',
         m.kind \in {"chunk", "complete"} =>
           /\ t \in refused \/ StartUnderWay(t) \/ HasSlot(t, m.i)
           /\ task[t][m.i].st # "sent",
         snd'[t].phase \in Started,
         t \notin refused =>
           StartUnderWay(t)' \/ \A i \in Idx(t) : task'[t][i].st # "sent" => HasSlot(t, i),
         \A i \in Idx(t) : task'[t][i].st = "sent" =>
           task[t][i].st = "sent" \/ (m.kind = "complete" /\ m.i = i),
         \A i \in Idx(t) : ChunkFollows(t, i, n)' /\ AllFollows(t, i)'
  PROVE  IInv'
<1> DEFINE s == SessionOf[t]
<1>1. SenderOK /\ ReceiverOK /\ s \in Sessions
  BY SessionAssumption DEF IInv
<1>2. /\ s \in up
      /\ chan' \in [Sessions -> Seq(FileMessage)]
      /\ n \in Nat \ {0} /\ Len(chan[s]) = n - 1 /\ Len(chan'[s]) = n
      /\ \A k \in 1 .. n - 1 : chan'[s][k] = chan[s][k]
      /\ chan'[s][n] = m
      /\ \A r \in Sessions \ {s} : chan'[r] = chan[r]
  <2>1. /\ s \in up
        /\ chan' \in [Sessions -> Seq(FileMessage)]
        /\ Len(chan[s]) \in Nat
        /\ Len(chan'[s]) = Len(chan[s]) + 1
        /\ \A k \in 1 .. Len(chan[s]) : chan'[s][k] = chan[s][k]
        /\ chan'[s][Len(chan[s]) + 1] = m
        /\ \A r \in Sessions \ {s} : chan'[r] = chan[r]
    BY <1>1, PushFacts
  <2>2. Len(chan[s]) = n - 1
    BY <2>1
  <2> QED BY <2>1, <2>2
<1>3. \A u \in Transfers : Idx(u)' = Idx(u)
  BY DEF Idx
<1>4. \A r \in Sessions : \A k \in 1 .. Len(chan'[r]) :
        (r = s /\ k = n) \/ (k \in 1 .. Len(chan[r]) /\ chan'[r][k] = chan[r][k]
                               /\ (r = s => k < n))
  BY <1>2
<1>5. \A r \in Sessions : \A k \in 1 .. Len(chan[r]) :
        /\ k \in 1 .. Len(chan'[r]) /\ chan'[r][k] = chan[r][k]
        /\ \A j \in 1 .. k - 1 : chan'[r][j] = chan[r][j]
        /\ k \in Nat
  <2> SUFFICES ASSUME NEW r \in Sessions, NEW k \in 1 .. Len(chan[r])
               PROVE  /\ k \in 1 .. Len(chan'[r]) /\ chan'[r][k] = chan[r][k]
                      /\ \A j \in 1 .. k - 1 : chan'[r][j] = chan[r][j]
                      /\ k \in Nat
    OBVIOUS
  <2>1. CASE r = s
    <3>1. n \in Nat \ {0} /\ Len(chan[s]) = n - 1 /\ Len(chan'[s]) = n /\ k \in 1 .. n - 1
      BY <1>2, <2>1
    <3>2. /\ k \in 1 .. n /\ k \in Nat
          /\ \A j \in 1 .. k - 1 : j \in 1 .. n - 1
      BY <3>1
    <3>3. \A j \in 1 .. n - 1 : chan'[s][j] = chan[s][j]
      BY <1>2
    <3> QED BY <2>1, <3>1, <3>2, <3>3
  <2>2. CASE r # s
    <3>1. chan'[r] = chan[r]
      BY <1>2, <2>2
    <3>2. Len(chan[r]) \in Nat
      BY <1>1 DEF ReceiverOK
    <3> QED BY <3>1, <3>2
  <2> QED BY <2>1, <2>2
<1>6. \A r \in Sessions : \A k \in 1 .. Len(chan[r]) :
        /\ chan[r][k] \in FileMessage /\ chan[r][k].t \in Transfers
        /\ chan[r][k].kind \in {"chunk", "complete"} => chan[r][k].i \in Idx(chan[r][k].t)
        /\ chan[r][k].kind = "complete" => task[chan[r][k].t][chan[r][k].i].st = "sent"
  <2>1. \A r \in Sessions : \A k \in 1 .. Len(chan[r]) : chan[r][k] \in FileMessage
    BY <1>1 DEF ReceiverOK
  <2> SUFFICES ASSUME NEW r \in Sessions, NEW k \in 1 .. Len(chan[r])
               PROVE  /\ chan[r][k].t \in Transfers
                      /\ chan[r][k].kind \in {"chunk", "complete"} => chan[r][k].i \in Idx(chan[r][k].t)
                      /\ chan[r][k].kind = "complete" =>
                           task[chan[r][k].t][chan[r][k].i].st = "sent"
    BY <2>1
  <2>2. MessageOK(r, k)
    BY DEF IInv, MessagesOK
  <2> QED BY <2>1, <2>2, MessageFacts DEF MessageOK
<1> HIDE DEF s
<1>7. MessagesOK'
  <2> SUFFICES ASSUME NEW r \in Sessions, NEW k \in 1 .. Len(chan'[r]) PROVE MessageOK(r, k)'
    BY DEF MessagesOK
  <2>1. CASE r = s /\ k = n
    BY <2>1 DEF s
  <2>2. CASE k \in 1 .. Len(chan[r])
    <3>1. MessageOK(r, k)
      BY <2>2 DEF IInv, MessagesOK
    <3>2. PICK x \in FileMessage : x = chan[r][k]
      BY <1>6, <2>2
    <3>3. chan'[r][k] = x /\ \A j \in 1 .. k - 1 : chan'[r][j] = chan[r][j]
      BY <1>5, <2>2, <3>2
    <3>4. x.t \in Transfers /\ Idx(x.t)' = Idx(x.t)
      BY <1>3, <3>2, MessageFacts
    <3>5. /\ snd'[x.t].entries = snd[x.t].entries
          /\ snd[x.t].phase \in Started => snd'[x.t].phase \in Started
      BY <3>4
    <3>6. x.kind = "complete" => task'[x.t][x.i] = task[x.t][x.i]
      BY <1>6, <2>2, <3>2, <3>4
    <3>7. /\ SessionOf[x.t] = r /\ snd'[x.t].phase \in Started
          /\ x.kind = "start" => x.files = snd'[x.t].entries /\ x.t \notin DOMAIN transfers
          /\ x.kind \in {"chunk", "complete"} => x.i \in Idx(x.t)
          /\ x.kind = "complete" => /\ task'[x.t][x.i].st = "sent"
                                    /\ x.hash = task'[x.t][x.i].hash
      BY <3>1, <3>2, <3>5, <3>6 DEF MessageOK
    <3>8. \A j \in 1 .. k - 1 : chan'[r][j].t = x.t => x.kind # "start"
      <4>1. \A j \in 1 .. k - 1 : chan[r][j].t = x.t => x.kind # "start"
        BY <3>1, <3>2 DEF MessageOK
      <4> QED BY ONLY <3>3, <4>1
    <3>9. /\ x.kind = "start" => x.files = snd'[x.t].entries /\ x.t \notin DOMAIN transfers'
          /\ x.kind \in {"chunk", "complete"} => x.i \in Idx(x.t)'
      BY <3>4, <3>7
    <3>10. chan'[r][k] = x
      BY <3>3
    <3> QED BY ONLY <3>7, <3>8, <3>9, <3>10, MessageKept
  <2> QED BY <1>4, <2>1, <2>2
<1>8. MessagesFindTheirSlot'
  <2> SUFFICES ASSUME NEW r \in Sessions, NEW k \in 1 .. Len(chan'[r]),
                      chan'[r][k].kind \in {"chunk", "complete"}
               PROVE
    /\ \/ chan'[r][k].t \in refused
       \/ \E j \in 1 .. k - 1 : chan'[r][j].t = chan'[r][k].t /\ chan'[r][j].kind = "start"
       \/ HasSlot(chan'[r][k].t, chan'[r][k].i)
    /\ \A j \in 1 .. k - 1 : chan'[r][j].t = chan'[r][k].t /\ chan'[r][j].kind = "complete"
                                => chan'[r][j].i # chan'[r][k].i
    BY DEF MessagesFindTheirSlot, HasSlot
  <2>1. CASE r = s /\ k = n
    <3>1. chan'[r][k] = m
      BY <1>2, <2>1
    <3>2. StartUnderWay(t) => \E j \in 1 .. k - 1 : chan'[r][j].t = t /\ chan'[r][j].kind = "start"
      BY <1>1, <1>2, <2>1 DEF StartUnderWay, s
    <3>3. \A j \in 1 .. k - 1 : chan'[r][j].t = t /\ chan'[r][j].kind = "complete"
                                  => task[t][chan'[r][j].i].st = "sent"
      BY <1>1, <1>2, <1>6, <2>1
    <3> QED BY <3>1, <3>2, <3>3
  <2>2. CASE k \in 1 .. Len(chan[r])
    <3>1. chan'[r][k] = chan[r][k] /\ \A j \in 1 .. k - 1 : chan'[r][j] = chan[r][j]
      BY <1>5, <2>2
    <3> QED BY <2>2, <3>1 DEF IInv, MessagesFindTheirSlot
  <2> QED BY <1>4, <2>1, <2>2
<1>9. \A u \in Transfers : StartUnderWay(u) => StartUnderWay(u)'
  BY <1>5, SessionAssumption DEF StartUnderWay
<1>10. SlotAwaits'
  <2> SUFFICES ASSUME NEW u \in Transfers
               PROVE  /\ u \in DOMAIN transfers => snd'[u].phase \in Started
                      /\ SessionOf[u] \in up /\ snd'[u].phase \in Started /\ u \notin refused =>
                           \/ StartUnderWay(u)'
                           \/ \A i \in Idx(u)' : task'[u][i].st # "sent" => HasSlot(u, i)
    BY DEF SlotAwaits, HasSlot
  <2>1. CASE u = t
    BY <1>3, <2>1
  <2>2. CASE u # t
    BY <1>3, <1>9, <2>2 DEF IInv, SlotAwaits
  <2> QED BY <2>1, <2>2
<1>11. SentOK'
  <2> SUFFICES ASSUME NEW u \in Transfers, SessionOf[u] \in up, NEW i \in Idx(u),
                      task'[u][i].st = "sent"
               PROVE  \/ outcome[u][i] # None
                      \/ \E k \in 1 .. Len(chan'[SessionOf[u]]) :
                           LET x == chan'[SessionOf[u]][k]
                           IN  x.kind = "complete" /\ x.t = u /\ x.i = i
    BY <1>3 DEF SentOK
  <2>1. CASE u = t /\ m.kind = "complete" /\ m.i = i
    BY <1>2, <2>1 DEF s
  <2>2. CASE task[u][i].st = "sent"
    <3>1. \/ outcome[u][i] # None
          \/ \E k \in 1 .. Len(chan[SessionOf[u]]) :
               LET x == chan[SessionOf[u]][k]
               IN  x.kind = "complete" /\ x.t = u /\ x.i = i
      BY <2>2 DEF IInv, SentOK
    <3>2. SessionOf[u] \in Sessions
      BY SessionAssumption
    <3> QED BY <1>5, <3>1, <3>2
  <2> QED BY <2>1, <2>2
<1>12. ChunksFollow'
  <2> SUFFICES ASSUME NEW u \in Transfers, NEW i \in Idx(u)
               PROVE  /\ \A k \in 1 .. Len(chan'[SessionOf[u]]) : ChunkFollows(u, i, k)'
                      /\ AllFollows(u, i)'
    BY <1>3 DEF ChunksFollow
  <2> DEFINE r == SessionOf[u]
  <2>1. r \in Sessions
    BY SessionAssumption
  <2>2. /\ \A k \in 1 .. Len(chan[r]) : ChunkFollows(u, i, k)
        /\ AllFollows(u, i)
    BY DEF IInv, ChunksFollow
  <2>3. \A k \in 1 .. Len(chan[r]) :
          /\ IsChunk(u, i, k)' <=> IsChunk(u, i, k)
          /\ ChunkOff(u, k)' = ChunkOff(u, k) /\ ChunkEnd(u, k)' = ChunkEnd(u, k)
    BY <1>5, <2>1 DEF IsChunk, ChunkOff, ChunkEnd
  <2>4. Base(u, i)' = Base(u, i) /\ (HasSlot(u, i)' <=> HasSlot(u, i))
    BY DEF Base, HasSlot
  <2>5. StartUnderWay(u)' => StartUnderWay(u) \/ (u = t /\ m.kind = "start")
    BY <1>2, <1>4, <2>1 DEF StartUnderWay, s
  <2>6. task'[u][i].off >= task[u][i].off
    <3>1. i \in DOMAIN task[u] /\ task[u][i].off \in Nat
      BY <1>1 DEF Idx, SenderOK
    <3> QED BY <3>1
  <2>7. ASSUME NEW k \in 1 .. Len(chan[r])
        PROVE  ChunkFollows(u, i, k)'
    <3>1. IsChunk(u, i, k) => ~(u = t /\ m.kind = "start")
      BY <2>1, <2>7, NotStartedFacts DEF IsChunk
    <3>2. IsChunk(u, i, k)' /\ Awaited(u, i)' => Awaited(u, i)
      BY <2>3, <2>4, <2>5, <2>7, <3>1 DEF Awaited
    <3>3. \A j \in 1 .. k - 1 : j \in 1 .. Len(chan[r])
      BY <1>5, <2>1, <2>7
    <3>4. \A j \in 1 .. k - 1 :
            /\ IsChunk(u, i, j)' <=> IsChunk(u, i, j)
            /\ ChunkOff(u, j)' = ChunkOff(u, j) /\ ChunkEnd(u, j)' = ChunkEnd(u, j)
      BY <2>3, <3>3
    <3>5. ChunkFollows(u, i, k)
      BY <2>2, <2>7
    <3>6. IsChunk(u, i, k) => ChunkEnd(u, k) <= task'[u][i].off
      <4>1. IsChunk(u, i, k) => ChunkEnd(u, k) \in Nat
        <5>1. chan[r][k] \in FileMessage
          BY <1>6, <2>1, <2>7
        <5> QED BY <5>1, MessageFacts DEF IsChunk, ChunkEnd, ChunkOff
      <4>2. task'[u][i].off \in Nat /\ task[u][i].off \in Nat
        BY SMTT(30), <1>1, <1>3 DEF Idx, SenderOK
      <4>3. IsChunk(u, i, k) => ChunkEnd(u, k) <= task[u][i].off
        BY <3>5 DEF ChunkFollows
      <4> QED BY <2>6, <4>1, <4>2, <4>3
    <3> QED BY <2>3, <2>4, <2>7, <3>2, <3>4, <3>5, <3>6 DEF ChunkFollows
  <2>8. CASE u = t
    <3>1. r = s
      BY <2>8 DEF s
    <3>2. ChunkFollows(u, i, n)' /\ AllFollows(u, i)'
      BY <2>8
    <3>3. \A k \in 1 .. Len(chan'[r]) : k \in 1 .. Len(chan[r]) \/ k = n
      BY <1>2, <3>1
    <3> QED BY <2>7, <3>2, <3>3
  <2>9. CASE u # t
    <3>1. \A k \in 1 .. Len(chan'[r]) : k \in 1 .. Len(chan[r]) \/ ~IsChunk(u, i, k)'
      BY <1>2, <1>4, <2>1, <2>9 DEF IsChunk
    <3>2. \A k \in 1 .. Len(chan'[r]) : ChunkFollows(u, i, k)'
      BY <2>7, <3>1 DEF ChunkFollows
    <3>3. AllFollows(u, i)'
      <4>1. Awaited(u, i)' => Awaited(u, i)
        BY <2>4, <2>5, <2>9 DEF Awaited
      <4>2. task'[u][i].off = task[u][i].off
        BY <2>9
      <4>3. \A k \in 1 .. Len(chan[r]) : k \in 1 .. Len(chan'[r])
        BY <1>5, <2>1
      <4> QED BY <2>2, <2>3, <2>4, <4>1, <4>2, <4>3 DEF AllFollows
    <3> QED BY <3>2, <3>3
  <2> QED BY <2>8, <2>9
<1>13. SlotsOK'
  <2> SUFFICES ASSUME NEW u \in DOMAIN transfers, NEW i \in DOMAIN transfers[u]
               PROVE  SlotOK(u, i)'
    BY DEF SlotsOK
  <2>1. u \in Transfers /\ snd'[u].entries = snd[u].entries
    BY <1>1 DEF ReceiverOK
  <2>2. SlotOK(u, i)
    BY DEF IInv, SlotsOK
  <2> QED BY <2>1, <2>2 DEF SlotOK, Partial
<1> QED BY <1>7, <1>8, <1>10, <1>11, <1>12, <1>13 DEF IInv

\* The start of a transfer, before anything else of it.
LEMMA SendStartStep == ASSUME IInv, NEW t \in Transfers, SendStart(t) PROVE IInv'
<1> DEFINE s == SessionOf[t]
<1>1. /\ snd[t].phase = "start" /\ SetPhase(t, "spawn")
      /\ UNCHANGED <<source, task, up, recvVars, faults>>
  BY DEF SendStart
<1>2. SenderOK /\ ReceiverOK /\ PhaseOK /\ s \in Sessions
  BY SessionAssumption DEF IInv
<1>3. /\ snd' \in [Transfers -> [phase : Phases, entries : Seq(FileEntry), next : Nat \ {0}]]
      /\ snd'[t].phase = "spawn" /\ snd'[t].entries = snd[t].entries /\ snd'[t].next = snd[t].next
      /\ \A u \in Transfers \ {t} : snd'[u] = snd[u]
  BY <1>1, <1>2, PhaseFacts DEF Phases
<1>4. PICK m \in FileMessage : /\ m.kind = "start" /\ m.t = t /\ m.files = snd[t].entries
                               /\ Push(s, m)
  <2>1. snd[t].entries \in Seq(FileEntry)
    BY <1>2 DEF SenderOK
  <2>2. [kind |-> "start", t |-> t, files |-> snd[t].entries] \in FileMessage
    BY <2>1 DEF FileMessage
  <2>3. Push(s, [kind |-> "start", t |-> t, files |-> snd[t].entries])
    BY DEF SendStart
  <2> QED BY <2>2, <2>3
<1>5. /\ chan' \in [Sessions -> Seq(FileMessage)]
      /\ Len(chan[s]) \in Nat
      /\ Len(chan'[s]) = Len(chan[s]) + 1 /\ Len(chan'[s]) <= ChanCap
      /\ \A k \in 1 .. Len(chan[s]) : chan'[s][k] = chan[s][k]
      /\ chan'[s][Len(chan[s]) + 1] = m
      /\ \A r \in Sessions \ {s} : chan'[r] = chan[r]
  BY <1>2, <1>4, PushFacts
<1>6. PICK n \in Nat : n = Len(chan[s]) + 1
  BY <1>5
<1>7. \A u \in Transfers : Idx(u)' = Idx(u)
  BY <1>3 DEF Idx
<1>8. SenderOK'
  BY <1>1, <1>2, <1>3, <1>7 DEF SenderOK
<1>9. ReceiverOK'
  <2>1. \A r \in Sessions : Len(chan'[r]) <= ChanCap
    BY <1>2, <1>5 DEF ReceiverOK
  <2> QED BY ZenonT(90), <1>1, <1>2, <1>3, <1>5, <1>7, <2>1 DEF ReceiverOK, recvVars
<1>10. /\ t \notin DOMAIN transfers
       /\ \A k \in 1 .. Len(chan[s]) : chan[s][k].t # t
       /\ ~StartUnderWay(t)
       /\ \A i \in DOMAIN task[t] : task[t][i].st = None /\ task[t][i].off = 0
  BY <1>1, <1>2, NotStartedFacts DEF Started
<1>11. PhaseOK'
  <2>1. \A u \in Transfers : Running(u)' = Running(u)
    BY <1>1 DEF Running
  <2>2. snd[t].next = 1 /\ \A i \in DOMAIN task[t] : ~(i < 1)
    <3>1. snd[t].next = 1
      BY <1>1, <1>2 DEF PhaseOK, TransferOK, Started
    <3>2. snd[t].entries \in Seq(FileEntry) /\ DOMAIN task[t] = DOMAIN snd[t].entries
      BY <1>2 DEF SenderOK
    <3>3. DOMAIN task[t] = 1 .. Len(snd[t].entries)
      BY <3>2
    <3> QED BY <3>1, <3>3
  <2>3. TransferOK(t)'
    BY <1>1, <1>3, <1>10, <2>1, <2>2 DEF TransferOK, Started
  <2>4. ASSUME NEW u \in Transfers \ {t} PROVE TransferOK(u)'
    BY <1>1, <1>2, <1>3, <1>7, <2>1 DEF PhaseOK, TransferOK
  <2> QED BY <2>3, <2>4 DEF PhaseOK
<1>12. MessageOK(s, n)'
  <2>1. chan'[s][n] = m
    BY <1>5, <1>6
  <2>2. \A j \in 1 .. n - 1 : chan'[s][j].t # t
    BY <1>5, <1>6, <1>10
  <2> QED BY <1>1, <1>3, <1>4, <1>10, <2>1, <2>2 DEF MessageOK, Started, recvVars
<1>13. StartUnderWay(t)'
  <2>1. n \in 1 .. Len(chan'[s]) /\ chan'[s][n] = m
    BY <1>5, <1>6
  <2> QED BY <1>4, <2>1 DEF StartUnderWay
<1>14. ASSUME NEW i \in Idx(t)
       PROVE  ChunkFollows(t, i, n)' /\ AllFollows(t, i)'
  <2>1. chan'[s][n] = m
    BY <1>5, <1>6
  <2>2. ~IsChunk(t, i, n)'
    BY <1>4, <2>1 DEF IsChunk
  <2>3. i \in DOMAIN task[t]
    BY <1>2, <1>14 DEF Idx, SenderOK
  <2>4. task'[t][i].off = 0 /\ Base(t, i)' = 0
    BY <1>1, <1>10, <2>3 DEF Base, HasSlot, recvVars
  <2> QED BY <2>2, <2>4 DEF ChunkFollows, AllFollows
<1>15. \A u \in Transfers : /\ snd'[u].entries = snd[u].entries
                            /\ snd[u].phase \in Started => snd'[u].phase \in Started
  BY <1>1, <1>3 DEF Started
<1>16. \A i \in Idx(t) : /\ task'[t][i].off >= task[t][i].off /\ task'[t][i] = task[t][i]
                         /\ task[t][i].st # "sent"
  <2>1. \A i \in Idx(t) : i \in DOMAIN task[t]
    BY <1>2 DEF Idx, SenderOK
  <2> QED BY <1>1, <1>10, <2>1 DEF None
<1>17. UNCHANGED <<up, transfers, disk, outcome, refused, spoiled>>
  BY <1>1 DEF recvVars
<1>18. \A u \in Transfers \ {t} : snd'[u] = snd[u] /\ task'[u] = task[u]
  BY <1>1, <1>3
<1>19. snd[t].phase \notin Started /\ snd'[t].phase \in Started
  BY <1>1, <1>3 DEF Started
<1> HIDE DEF s
<1>20. Push(SessionOf[t], m) /\ n = Len(chan[SessionOf[t]]) + 1 /\ MessageOK(SessionOf[t], n)'
  BY <1>4, <1>6, <1>12 DEF s
<1> QED BY <1>4, <1>8, <1>9, <1>11, <1>13, <1>14, <1>15, <1>16, <1>17, <1>18, <1>19, <1>20, PushFrame

\* A cancel, sent by a peer that can.
LEMMA SendCancelStep == ASSUME IInv, NEW t \in Transfers, SendCancel(t) PROVE IInv'
<1> DEFINE s == SessionOf[t]
<1>1. /\ snd[t].phase \in {"spawn", "wait"} /\ Fault
      /\ UNCHANGED <<senderVars, up, recvVars>>
  BY DEF SendCancel
<1>2. SenderOK /\ ReceiverOK /\ PhaseOK /\ s \in Sessions
  BY SessionAssumption DEF IInv
<1>3. PICK m \in FileMessage : m.kind = "cancel" /\ m.t = t /\ Push(s, m)
  <2>1. [kind |-> "cancel", t |-> t] \in FileMessage
    BY DEF FileMessage
  <2> QED BY <2>1 DEF SendCancel
<1>4. /\ s \in up
      /\ chan' \in [Sessions -> Seq(FileMessage)]
      /\ Len(chan[s]) \in Nat
      /\ Len(chan'[s]) = Len(chan[s]) + 1 /\ Len(chan'[s]) <= ChanCap
      /\ \A k \in 1 .. Len(chan[s]) : chan'[s][k] = chan[s][k]
      /\ chan'[s][Len(chan[s]) + 1] = m
      /\ \A r \in Sessions \ {s} : chan'[r] = chan[r]
  BY <1>2, <1>3, PushFacts
<1>5. PICK n \in Nat : n = Len(chan[s]) + 1
  BY <1>4
<1>6. chan'[s][n] = m
  BY <1>4, <1>5
<1>7. \A u \in Transfers : Idx(u)' = Idx(u)
  BY <1>1 DEF Idx, senderVars
<1>8. SenderOK'
  BY <1>1, <1>2, <1>7 DEF SenderOK, senderVars
<1>9. ReceiverOK'
  <2>1. \A r \in Sessions : Len(chan'[r]) <= ChanCap
    BY <1>2, <1>4 DEF ReceiverOK
  <2>2. faults' \in 0 .. MaxFaults
    BY <1>1, <1>2, FaultFacts
  <2> QED BY <1>1, <1>2, <1>4, <1>7, <2>1, <2>2 DEF ReceiverOK, recvVars, senderVars
<1>10. PhaseOK'
  <2>1. \A u \in Transfers : Running(u)' = Running(u)
    BY <1>1 DEF Running, senderVars
  <2> QED BY <1>1, <1>2, <1>7, <2>1 DEF PhaseOK, TransferOK, senderVars
<1>11. snd[t].phase \in Started /\ UNCHANGED <<snd, task, up, transfers, disk, outcome, refused, spoiled>>
  BY <1>1 DEF Started, senderVars, recvVars
<1>12. MessageOK(s, n)'
  BY <1>3, <1>6, <1>11 DEF MessageOK
<1>13. StartUnderWay(t) => StartUnderWay(t)'
  BY SMTT(30), <1>4 DEF StartUnderWay
<1>14. t \notin refused =>
           StartUnderWay(t)' \/ \A i \in Idx(t) : task'[t][i].st # "sent" => HasSlot(t, i)
  BY <1>4, <1>11, <1>13 DEF IInv, SlotAwaits
<1>15. ASSUME NEW i \in Idx(t)
       PROVE  ChunkFollows(t, i, n)' /\ AllFollows(t, i)'
  <2>1. ~IsChunk(t, i, n)'
    BY <1>3, <1>6 DEF IsChunk
  <2>2. AllFollows(t, i)
    BY <1>15 DEF IInv, ChunksFollow
  <2>3. StartUnderWay(t)' => StartUnderWay(t)
    <3>1. \A k \in 1 .. Len(chan'[s]) : k \in 1 .. Len(chan[s]) \/ k = n
      BY <1>4, <1>5
    <3> QED BY <1>3, <1>4, <1>6, <3>1 DEF StartUnderWay
  <2>4. Base(t, i)' = Base(t, i) /\ (HasSlot(t, i)' <=> HasSlot(t, i))
    BY <1>11 DEF Base, HasSlot
  <2>5. \A k \in 1 .. Len(chan[s]) :
          /\ k \in 1 .. Len(chan'[s])
          /\ IsChunk(t, i, k)' <=> IsChunk(t, i, k)
          /\ ChunkEnd(t, k)' = ChunkEnd(t, k)
    BY SMTT(30), <1>4 DEF IsChunk, ChunkEnd, ChunkOff
  <2>6. AllFollows(t, i)'
    BY <1>11, <2>2, <2>3, <2>4, <2>5 DEF AllFollows, Awaited
  <2> QED BY <2>1, <2>6 DEF ChunkFollows
<1>16. \A i \in Idx(t) : task'[t][i] = task[t][i] /\ task'[t][i].off >= task[t][i].off
  <2>1. \A i \in Idx(t) : task[t][i].off \in Nat
    BY <1>2 DEF Idx, SenderOK
  <2> QED BY <1>11, <2>1
<1> HIDE DEF s
<1>17. Push(SessionOf[t], m) /\ n = Len(chan[SessionOf[t]]) + 1 /\ MessageOK(SessionOf[t], n)'
  BY <1>3, <1>5, <1>12 DEF s
<1> QED BY <1>3, <1>8, <1>9, <1>10, <1>11, <1>14, <1>15, <1>16, <1>17, PushFrame

\* What a task reads is data.
LEMMA ReadFacts ==
  ASSUME SenderOK, NEW t \in Transfers, NEW i \in Idx(t)
  PROVE  ReadAt(t, i) \in Seq(Units) /\ Len(ReadAt(t, i)) \in Nat
<1> DEFINE f == source[t][snd[t].entries[i].path]
           o == task[t][i].off
           b == Smaller(Len(f), o + ChunkUnits)
<1>1. f \in Seq(Units) /\ o \in Nat
  BY DEF SenderOK, Idx
<1> HIDE DEF f, o
<1>2. b \in Nat /\ b <= Len(f) /\ Len(f) \in Nat
  BY <1>1, SizesFacts DEF Smaller
<1> HIDE DEF b
<1>3. \A k \in o + 1 .. b : f[k] \in Units
  BY <1>1, <1>2
<1>4. SubSeq(f, o + 1, b) \in Seq(Units)
  BY <1>1, <1>2, <1>3
<1>5. Len(SubSeq(f, o + 1, b)) \in Nat
  BY <1>4
<1>6. ReadAt(t, i) = SubSeq(f, o + 1, b)
  BY DEF ReadAt, f, o, b
<1> QED BY <1>4, <1>5, <1>6

\* The next chunk of a file, or its last.
LEMMA SendChunkStep ==
  ASSUME IInv, NEW t \in Transfers, NEW i \in Idx(t), SendChunk(t, i) PROVE IInv'
<1> DEFINE s == SessionOf[t]
<1>1. PICK data \in Seq(Units) :
        /\ data = ReadAt(t, i) /\ Len(data) \in Nat /\ Len(data) > 0
        /\ task[t][i].st = "run"
        /\ Push(s, [kind |-> "chunk", t |-> t, i |-> i, off |-> task[t][i].off, data |-> data])
        /\ task' = [task EXCEPT ![t][i] =
                      [st |-> IF IsLast(t, i, Len(data)) THEN "last" ELSE "run",
                       off |-> @.off + Len(data), hash |-> @.hash \o data]]
        /\ UNCHANGED <<source, snd, up, recvVars, faults>>
  BY ReadFacts DEF SendChunk, IInv
<1>2. SenderOK /\ ReceiverOK /\ PhaseOK /\ s \in Sessions
  BY SessionAssumption DEF IInv
<1>3. PICK old \in [st : TaskStates, off : Nat, hash : Seq(Units)] : old = task[t][i]
  BY <1>2 DEF SenderOK, Idx
<1>4. PICK st \in {"run", "last"} :
        task' = [task EXCEPT ![t] = [task[t] EXCEPT ![i] =
                   [st |-> st, off |-> old.off + Len(data), hash |-> old.hash \o data]]]
  <2>1. DOMAIN task = Transfers /\ i \in DOMAIN task[t]
    BY <1>2 DEF SenderOK, Idx
  <2>2. PICK st \in {"run", "last"} : st = IF IsLast(t, i, Len(data)) THEN "last" ELSE "run"
    OBVIOUS
  <2> QED BY <1>1, <1>3, <2>1, <2>2
<1>5. PICK r \in [st : TaskStates, off : Nat, hash : Seq(Units)] :
        r = [st |-> st, off |-> old.off + Len(data), hash |-> old.hash \o data]
  <2>1. old.hash \o data \in Seq(Units)
    BY <1>1, <1>3, ConcatProperties
  <2>2. old.off + Len(data) \in Nat /\ st \in TaskStates
    BY <1>1, <1>3, <1>4 DEF TaskStates
  <2> QED BY <2>1, <2>2
<1>6. r.st = st /\ r.off = old.off + Len(data) /\ r.st # None /\ r.st # "sent"
  BY <1>4, <1>5 DEF None
<1>7. task' = [task EXCEPT ![t] = [task[t] EXCEPT ![i] = r]] /\ task[t][i].st \in {"run", "last"}
  BY <1>1, <1>4, <1>5
<1>8. /\ snd[t].phase \in Started
      /\ SenderOK' /\ PhaseOK' /\ \A u \in Transfers : Idx(u)' = Idx(u)
      /\ task'[t][i] = r
      /\ \A j \in Idx(t) \ {i} : task'[t][j] = task[t][j]
      /\ \A u \in Transfers \ {t} : task'[u] = task[u]
  <2>1. r \in [st : TaskStates, off : Nat, hash : Seq(Units)]
    BY <1>5
  <2>2. r.st # None /\ UNCHANGED <<source, snd>>
    BY <1>1, <1>6
  <2>3. /\ snd[t].phase \in Started
        /\ SenderOK' /\ PhaseOK' /\ \A u \in Transfers : Idx(u)' = Idx(u)
        /\ task'[t][i] = r
        /\ \A j \in Idx(t) \ {i} : task'[t][j] = task[t][j]
        /\ \A u \in Transfers \ {t} : task'[u] = task[u]
    BY <1>7, <2>1, <2>2, TaskStep
  <2> QED BY <2>3
<1>9. PICK m \in FileMessage : /\ m.kind = "chunk" /\ m.t = t /\ m.i = i /\ m.off = old.off
                               /\ m.data = data /\ Push(s, m)
  <2>1. i \in Nat
    <3>1. i \in DOMAIN snd[t].entries /\ snd[t].entries \in Seq(FileEntry)
      BY <1>2 DEF SenderOK, Idx
    <3> QED BY <3>1
  <2>2. [kind |-> "chunk", t |-> t, i |-> i, off |-> old.off, data |-> data] \in FileMessage
    BY <1>1, <1>3, <2>1 DEF FileMessage
  <2> QED BY <1>1, <1>3, <2>2
<1>10. /\ s \in up
       /\ chan' \in [Sessions -> Seq(FileMessage)]
       /\ Len(chan[s]) \in Nat
       /\ Len(chan'[s]) = Len(chan[s]) + 1 /\ Len(chan'[s]) <= ChanCap
       /\ \A k \in 1 .. Len(chan[s]) : chan'[s][k] = chan[s][k]
       /\ chan'[s][Len(chan[s]) + 1] = m
       /\ \A q \in Sessions \ {s} : chan'[q] = chan[q]
  BY <1>2, <1>9, PushFacts
<1>11. PICK n \in Nat : n = Len(chan[s]) + 1
  BY <1>10
<1>12. chan'[s][n] = m /\ n \in 1 .. Len(chan'[s])
  BY <1>10, <1>11
<1>13. ReceiverOK'
  <2>1. \A q \in Sessions : Len(chan'[q]) <= ChanCap
    BY <1>2, <1>10 DEF ReceiverOK
  <2> QED BY <1>1, <1>2, <1>8, <1>10, <2>1 DEF ReceiverOK, recvVars
<1>14. UNCHANGED <<snd, up, transfers, disk, outcome, refused, spoiled>>
  BY <1>1 DEF recvVars
<1>15. MessageOK(s, n)'
  BY <1>8, <1>9, <1>12, <1>14 DEF MessageOK
<1>16. t \notin refused => StartUnderWay(t) \/ \A j \in Idx(t) : task[t][j].st # "sent" => HasSlot(t, j)
  BY <1>8, <1>10 DEF IInv, SlotAwaits
<1>17. StartUnderWay(t)' <=> StartUnderWay(t)
  <2>1. \A k \in 1 .. Len(chan'[s]) : k \in 1 .. Len(chan[s]) \/ k = n
    BY <1>10, <1>11
  <2>2. \A k \in 1 .. Len(chan[s]) : k \in 1 .. Len(chan'[s])
    BY <1>10
  <2> QED BY <1>9, <1>10, <1>12, <2>1, <2>2 DEF StartUnderWay
<1>18. ASSUME NEW j \in Idx(t)
       PROVE  ChunkFollows(t, j, n)' /\ AllFollows(t, j)'
  <2>1. AllFollows(t, j) /\ \A k \in 1 .. Len(chan[s]) : ChunkFollows(t, j, k)
    BY <1>18 DEF IInv, ChunksFollow
  <2>2. Base(t, j)' = Base(t, j) /\ (Awaited(t, j)' <=> Awaited(t, j))
    BY <1>14, <1>17 DEF Base, HasSlot, Awaited
  <2>3. \A k \in 1 .. n - 1 :
          /\ k \in 1 .. Len(chan'[s]) /\ k \in 1 .. Len(chan[s])
          /\ IsChunk(t, j, k)' <=> IsChunk(t, j, k)
          /\ ChunkEnd(t, k)' = ChunkEnd(t, k)
    <3>1. \A k \in 1 .. n - 1 : k \in 1 .. Len(chan[s]) /\ k \in 1 .. Len(chan'[s])
      BY <1>10, <1>11
    <3>2. \A k \in 1 .. n - 1 : chan'[s][k] = chan[s][k]
      BY <1>10, <3>1
    <3> QED BY <3>1, <3>2 DEF IsChunk, ChunkEnd, ChunkOff
  <2>4. Len(chan[s]) = n - 1
    BY <1>10, <1>11
  <2>5. CASE j = i
    <3>1. /\ IsChunk(t, j, n)' /\ ChunkOff(t, n)' = old.off
          /\ ChunkEnd(t, n)' = old.off + Len(data) /\ task'[t][j].off = old.off + Len(data)
      BY <1>6, <1>8, <1>9, <1>12, <2>5 DEF IsChunk, ChunkEnd, ChunkOff
    <3>2. old.off < old.off + Len(data) /\ old.off + Len(data) <= old.off + Len(data)
      BY <1>1, <1>3
    <3>3. \A k \in 1 .. n - 1 : IsChunk(t, j, k)' => ChunkEnd(t, k)' <= old.off
      BY <1>3, <2>1, <2>3, <2>5 DEF ChunkFollows
    <3>4. Awaited(t, j)' =>
            \/ old.off = Base(t, j)'
            \/ \E k \in 1 .. n - 1 : IsChunk(t, j, k)' /\ ChunkEnd(t, k)' = old.off
      BY <1>3, <1>10, <2>1, <2>2, <2>3, <2>4, <2>5 DEF AllFollows
    <3>5. ChunkFollows(t, j, n)'
      BY <3>1, <3>2, <3>3, <3>4 DEF ChunkFollows
    <3>6. AllFollows(t, j)'
      BY <1>12, <3>1 DEF AllFollows
    <3> QED BY <3>5, <3>6
  <2>6. CASE j # i
    <3>1. ~IsChunk(t, j, n)'
      BY <1>9, <1>12, <2>6 DEF IsChunk
    <3>2. task'[t][j] = task[t][j]
      BY <1>8, <1>18, <2>6
    <3>3. AllFollows(t, j)'
      BY <1>14, <2>1, <2>2, <2>3, <2>4, <3>2 DEF AllFollows
    <3> QED BY <3>1, <3>3 DEF ChunkFollows
  <2> QED BY <2>5, <2>6
<1>19. \A j \in Idx(t) : /\ task'[t][j].off >= task[t][j].off
                         /\ task[t][j].st = "sent" => task'[t][j] = task[t][j]
                         /\ task'[t][j].st = "sent" => task[t][j].st = "sent"
  <2>1. \A j \in Idx(t) : task[t][j].off \in Nat
    BY <1>2 DEF Idx, SenderOK
  <2>2. old.off + Len(data) >= old.off
    BY <1>1, <1>3
  <2>3. \A j \in Idx(t) : j # i => task'[t][j] = task[t][j]
    BY <1>8
  <2>4. task'[t][i].off >= task[t][i].off /\ task'[t][i].st # "sent" /\ task[t][i].st # "sent"
    BY <1>1, <1>3, <1>6, <1>8, <2>2
  <2> QED BY <2>1, <2>3, <2>4
<1>20. /\ \A u \in Transfers : /\ snd'[u].entries = snd[u].entries
                               /\ snd[u].phase \in Started => snd'[u].phase \in Started
       /\ \A u \in Transfers \ {t} : snd'[u] = snd[u] /\ task'[u] = task[u]
       /\ snd'[t].phase \in Started
  BY <1>1, <1>8
<1>21. /\ t \in refused \/ StartUnderWay(t) \/ HasSlot(t, m.i)
       /\ task[t][m.i].st # "sent"
  BY <1>1, <1>9, <1>16
<1>22. t \notin refused =>
         StartUnderWay(t)' \/ \A j \in Idx(t) : task'[t][j].st # "sent" => HasSlot(t, j)
  <2>1. \A j \in Idx(t) : task'[t][j].st # "sent" => task[t][j].st # "sent"
    BY <1>1, <1>8
  <2> QED BY <1>16, <1>17, <2>1
<1> HIDE DEF s
<1>23. Push(SessionOf[t], m) /\ n = Len(chan[SessionOf[t]]) + 1 /\ MessageOK(SessionOf[t], n)'
  BY <1>9, <1>11, <1>15 DEF s
<1> QED BY <1>8, <1>9, <1>13, <1>14, <1>18, <1>19, <1>20, <1>21, <1>22, <1>23, PushFrame

\* The end of a file, with the hash of what was read of it.
LEMMA SendCompleteStep ==
  ASSUME IInv, NEW t \in Transfers, NEW i \in Idx(t), SendComplete(t, i) PROVE IInv'
<1> DEFINE s == SessionOf[t]
<1>1. /\ task[t][i].st \in {"run", "last"}
      /\ task' = [task EXCEPT ![t][i].st = "sent"]
      /\ UNCHANGED <<source, snd, up, recvVars, faults>>
  BY DEF SendComplete
<1>2. SenderOK /\ ReceiverOK /\ PhaseOK /\ s \in Sessions
  BY SessionAssumption DEF IInv
<1>3. PICK old \in [st : TaskStates, off : Nat, hash : Seq(Units)] : old = task[t][i]
  BY <1>2 DEF SenderOK, Idx
<1>4. PICK r \in [st : TaskStates, off : Nat, hash : Seq(Units)] : r = [old EXCEPT !.st = "sent"]
  BY <1>3 DEF TaskStates
<1>5. r.st = "sent" /\ r.st # None /\ r.off = old.off /\ r.hash = old.hash
  BY <1>3, <1>4 DEF None
<1>6. task' = [task EXCEPT ![t] = [task[t] EXCEPT ![i] = r]]
  <2>1. DOMAIN task = Transfers /\ i \in DOMAIN task[t]
    BY <1>2 DEF SenderOK, Idx
  <2> QED BY <1>1, <1>3, <1>4, <2>1
<1>7. /\ snd[t].phase \in Started
      /\ SenderOK' /\ PhaseOK' /\ \A u \in Transfers : Idx(u)' = Idx(u)
      /\ task'[t][i] = r
      /\ \A j \in Idx(t) \ {i} : task'[t][j] = task[t][j]
      /\ \A u \in Transfers \ {t} : task'[u] = task[u]
  <2>1. r \in [st : TaskStates, off : Nat, hash : Seq(Units)]
    BY <1>4
  <2>2. r.st # None /\ task[t][i].st \in {"run", "last"} /\ UNCHANGED <<source, snd>>
    BY <1>1, <1>5
  <2>3. /\ snd[t].phase \in Started
        /\ SenderOK' /\ PhaseOK' /\ \A u \in Transfers : Idx(u)' = Idx(u)
        /\ task'[t][i] = r
        /\ \A j \in Idx(t) \ {i} : task'[t][j] = task[t][j]
        /\ \A u \in Transfers \ {t} : task'[u] = task[u]
    BY <1>6, <2>1, <2>2, TaskStep
  <2> QED BY <2>3
<1>8. PICK m \in FileMessage : /\ m.kind = "complete" /\ m.t = t /\ m.i = i /\ m.hash = old.hash
                               /\ Push(s, m)
  <2>1. i \in Nat
    <3>1. i \in DOMAIN snd[t].entries /\ snd[t].entries \in Seq(FileEntry)
      BY <1>2 DEF SenderOK, Idx
    <3> QED BY <3>1
  <2>2. [kind |-> "complete", t |-> t, i |-> i, hash |-> old.hash] \in FileMessage
    BY <1>3, <2>1 DEF FileMessage
  <2>3. Push(s, [kind |-> "complete", t |-> t, i |-> i, hash |-> old.hash])
    BY <1>3 DEF SendComplete
  <2> QED BY <2>2, <2>3
<1>9. /\ s \in up
      /\ chan' \in [Sessions -> Seq(FileMessage)]
      /\ Len(chan[s]) \in Nat
      /\ Len(chan'[s]) = Len(chan[s]) + 1 /\ Len(chan'[s]) <= ChanCap
      /\ \A k \in 1 .. Len(chan[s]) : chan'[s][k] = chan[s][k]
      /\ chan'[s][Len(chan[s]) + 1] = m
      /\ \A q \in Sessions \ {s} : chan'[q] = chan[q]
  BY <1>2, <1>8, PushFacts
<1>10. PICK n \in Nat : n = Len(chan[s]) + 1
  BY <1>9
<1>11. chan'[s][n] = m /\ n \in 1 .. Len(chan'[s])
  BY <1>9, <1>10
<1>12. ReceiverOK'
  <2>1. \A q \in Sessions : Len(chan'[q]) <= ChanCap
    BY <1>2, <1>9 DEF ReceiverOK
  <2> QED BY <1>1, <1>2, <1>7, <1>9, <2>1 DEF ReceiverOK, recvVars
<1>13. UNCHANGED <<snd, up, transfers, disk, outcome, refused, spoiled>>
  BY <1>1 DEF recvVars
<1>14. MessageOK(s, n)'
  BY <1>5, <1>7, <1>8, <1>11, <1>13 DEF MessageOK
<1>15. t \notin refused => StartUnderWay(t) \/ \A j \in Idx(t) : task[t][j].st # "sent" => HasSlot(t, j)
  BY <1>7, <1>9 DEF IInv, SlotAwaits
<1>16. StartUnderWay(t)' <=> StartUnderWay(t)
  <2>1. \A k \in 1 .. Len(chan'[s]) : k \in 1 .. Len(chan[s]) \/ k = n
    BY <1>9, <1>10
  <2>2. \A k \in 1 .. Len(chan[s]) : k \in 1 .. Len(chan'[s])
    BY <1>9
  <2> QED BY <1>8, <1>9, <1>11, <2>1, <2>2 DEF StartUnderWay
<1>17. task'[t][i].off = task[t][i].off
  BY <1>3, <1>5, <1>7
<1>18. ASSUME NEW j \in Idx(t)
       PROVE  ChunkFollows(t, j, n)' /\ AllFollows(t, j)'
  <2>1. AllFollows(t, j)
    BY <1>18 DEF IInv, ChunksFollow
  <2>2. Base(t, j)' = Base(t, j) /\ (Awaited(t, j)' <=> Awaited(t, j))
    BY <1>13, <1>16 DEF Base, HasSlot, Awaited
  <2>3. \A k \in 1 .. Len(chan[s]) :
          /\ k \in 1 .. Len(chan'[s])
          /\ IsChunk(t, j, k)' <=> IsChunk(t, j, k)
          /\ ChunkEnd(t, k)' = ChunkEnd(t, k)
    <3>1. \A k \in 1 .. Len(chan[s]) : k \in 1 .. Len(chan'[s]) /\ chan'[s][k] = chan[s][k]
      BY <1>9
    <3> QED BY <3>1 DEF IsChunk, ChunkEnd, ChunkOff
  <2>4. ~IsChunk(t, j, n)'
    BY <1>8, <1>11 DEF IsChunk
  <2>5. task'[t][j].off = task[t][j].off
    BY <1>7, <1>17, <1>18
  <2>6. AllFollows(t, j)'
    BY <1>13, <2>1, <2>2, <2>3, <2>5 DEF AllFollows
  <2> QED BY <2>4, <2>6 DEF ChunkFollows
<1>19. \A j \in Idx(t) : /\ task'[t][j].off >= task[t][j].off
                         /\ task[t][j].st = "sent" => task'[t][j] = task[t][j]
                         /\ task'[t][j].st = "sent" => task[t][j].st = "sent" \/ m.i = j
  <2>1. \A j \in Idx(t) : task[t][j].off \in Nat /\ task'[t][j].off = task[t][j].off
    BY <1>2, <1>7, <1>17 DEF Idx, SenderOK
  <2>2. \A j \in Idx(t) : j # i => task'[t][j] = task[t][j]
    BY <1>7
  <2> QED BY <1>1, <1>8, <2>1, <2>2
<1>20. /\ \A u \in Transfers : /\ snd'[u].entries = snd[u].entries
                               /\ snd[u].phase \in Started => snd'[u].phase \in Started
       /\ \A u \in Transfers \ {t} : snd'[u] = snd[u] /\ task'[u] = task[u]
       /\ snd'[t].phase \in Started
  BY <1>1, <1>7
<1>21. /\ t \in refused \/ StartUnderWay(t) \/ HasSlot(t, m.i)
       /\ task[t][m.i].st # "sent"
  BY <1>1, <1>8, <1>15
<1>22. t \notin refused =>
         StartUnderWay(t)' \/ \A j \in Idx(t) : task'[t][j].st # "sent" => HasSlot(t, j)
  <2>1. \A j \in Idx(t) : task'[t][j].st # "sent" => task[t][j].st # "sent"
    BY <1>1, <1>5, <1>7
  <2> QED BY <1>15, <1>16, <2>1
<1> HIDE DEF s
<1>23. Push(SessionOf[t], m) /\ n = Len(chan[SessionOf[t]]) + 1 /\ MessageOK(SessionOf[t], n)'
  BY <1>8, <1>10, <1>14 DEF s
<1> QED BY <1>7, <1>8, <1>12, <1>13, <1>18, <1>19, <1>20, <1>21, <1>22, <1>23, PushFrame

\* A session ends: what is left of its channel is a part of what was there.
LEMMA CutSessionStep == ASSUME IInv, NEW s \in Sessions, CutSession(s) PROVE IInv'
<1>1. /\ s \in up /\ up' = up \ {s} /\ Fault
      /\ UNCHANGED <<source, snd, task, disk, outcome, refused, spoiled>>
  BY DEF CutSession, senderVars
<1>2. SenderOK /\ ReceiverOK /\ PhaseOK /\ chan \in [Sessions -> Seq(FileMessage)]
  BY DEF IInv, ReceiverOK
<1>3. PICK k \in 0 .. Len(chan[s]) :
        /\ chan' = [chan EXCEPT ![s] = SubSeq(chan[s], 1, k)]
        /\ transfers' = IF k = 0 THEN Unjudged(s) ELSE transfers
  BY DEF CutSession
<1>4. /\ chan'[s] = SubSeq(chan[s], 1, k) /\ \A r \in Sessions \ {s} : chan'[r] = chan[r]
      /\ chan[s] \in Seq(FileMessage) /\ Len(chan[s]) \in Nat /\ k \in Nat /\ k <= Len(chan[s])
  BY <1>2, <1>3
<1>5. /\ SubSeq(chan[s], 1, k) \in Seq(FileMessage)
      /\ Len(SubSeq(chan[s], 1, k)) = k
      /\ \A j \in 1 .. k : SubSeq(chan[s], 1, k)[j] = chan[s][j]
  BY <1>4, SubSeqProperties
<1>6. chan' \in [Sessions -> Seq(FileMessage)]
  BY <1>2, <1>3, <1>5
<1>7. \A r \in Sessions :
        /\ Len(chan'[r]) \in Nat /\ Len(chan[r]) \in Nat /\ Len(chan'[r]) <= Len(chan[r])
        /\ \A j \in 1 .. Len(chan'[r]) : j \in 1 .. Len(chan[r]) /\ chan'[r][j] = chan[r][j]
        /\ r # s => chan'[r] = chan[r]
  BY <1>2, <1>4, <1>5
<1>8. \A r \in Sessions : \A n \in 1 .. Len(chan'[r]) : \A j \in 1 .. n - 1 :
        j \in 1 .. Len(chan'[r]) /\ chan'[r][j] = chan[r][j]
  BY <1>7
<1>9. \A u \in Transfers : Idx(u)' = Idx(u) /\ SessionOf[u] \in Sessions
  BY <1>1, SessionAssumption DEF Idx
<1>10. SenderOK'
  BY <1>1, <1>2, <1>9 DEF SenderOK
\* Slots go with the tail of the channel, and only those of transfers of the session.
<1>20. /\ DOMAIN transfers' = DOMAIN transfers
       /\ \A u \in DOMAIN transfers : /\ DOMAIN transfers'[u] \subseteq DOMAIN transfers[u]
                                      /\ \A i \in DOMAIN transfers'[u] :
                                           transfers'[u][i] = transfers[u][i]
       /\ \A u \in DOMAIN transfers : SessionOf[u] # s \/ k # 0 => transfers'[u] = transfers[u]
  <2>1. CASE k = 0
    BY <1>3, <2>1 DEF Unjudged
  <2>2. CASE k # 0
    BY <1>3, <2>2
  <2> QED BY <2>1, <2>2
<1>21. \A u \in Transfers : SessionOf[u] # s \/ k # 0 => \A i : HasSlot(u, i)' <=> HasSlot(u, i)
  BY <1>20 DEF HasSlot
<1>22. \A r \in Sessions : \A n \in 1 .. Len(chan'[r]) : r # s \/ k # 0
  BY <1>4, <1>5
<1>11. ReceiverOK'
  <2>1. \A r \in Sessions : Len(chan'[r]) <= ChanCap
    BY <1>2, <1>7, SizesFacts DEF ReceiverOK
  <2>2. faults' \in 0 .. MaxFaults
    BY <1>1, <1>2, FaultFacts
  <2>3. \A t \in DOMAIN transfers' : /\ DOMAIN transfers'[t] \subseteq Idx(t)
                                     /\ \A i \in DOMAIN transfers'[t] : transfers'[t][i] \in FileSlot
    BY <1>2, <1>20 DEF ReceiverOK
  <2>4. DOMAIN transfers' \subseteq Transfers
    BY <1>2, <1>20 DEF ReceiverOK
  <2> QED BY <1>1, <1>2, <1>6, <1>9, <2>1, <2>2, <2>3, <2>4 DEF ReceiverOK
<1>12. PhaseOK'
  <2>1. \A u \in Transfers : Running(u)' = Running(u)
    BY <1>1 DEF Running
  <2> QED BY <1>1, <1>2, <1>9, <2>1 DEF PhaseOK, TransferOK
<1>13. MessagesOK'
  <2> SUFFICES ASSUME NEW r \in Sessions, NEW n \in 1 .. Len(chan'[r]) PROVE MessageOK(r, n)'
    BY DEF MessagesOK
  <2>1. MessageOK(r, n) /\ chan'[r][n] = chan[r][n] /\ chan[r][n] \in FileMessage
    BY <1>2, <1>7 DEF IInv, MessagesOK
  <2>2. Idx(chan[r][n].t)' = Idx(chan[r][n].t)
    BY <1>9, <2>1, MessageFacts
  <2> QED BY <1>1, <1>8, <1>20, <2>1, <2>2 DEF MessageOK
<1>14. MessagesFindTheirSlot'
  <2> SUFFICES ASSUME NEW r \in Sessions, NEW n \in 1 .. Len(chan'[r]),
                      NEW x, x = chan'[r][n], x.kind \in {"chunk", "complete"}
               PROVE
    /\ \/ x.t \in refused
       \/ \E j \in 1 .. n - 1 : chan'[r][j].t = x.t /\ chan'[r][j].kind = "start"
       \/ HasSlot(x.t, x.i)'
    /\ \A j \in 1 .. n - 1 : chan'[r][j].t = x.t /\ chan'[r][j].kind = "complete"
                                => chan'[r][j].i # x.i
    BY <1>1 DEF MessagesFindTheirSlot
  <2>1. n \in 1 .. Len(chan[r]) /\ x = chan[r][n]
    BY <1>7
  <2>2. \A j \in 1 .. n - 1 : chan'[r][j] = chan[r][j]
    BY <1>8
  <2>3. /\ \/ x.t \in refused
           \/ \E j \in 1 .. n - 1 : chan[r][j].t = x.t /\ chan[r][j].kind = "start"
           \/ HasSlot(x.t, x.i)
        /\ \A j \in 1 .. n - 1 : chan[r][j].t = x.t /\ chan[r][j].kind = "complete"
                                     => chan[r][j].i # x.i
    BY <2>1 DEF IInv, MessagesFindTheirSlot
  <2>4. HasSlot(x.t, x.i)' <=> HasSlot(x.t, x.i)
    <3>1. x \in FileMessage /\ MessageOK(r, n)
      BY <1>2, <2>1 DEF IInv, MessagesOK
    <3>2. x.t \in Transfers /\ SessionOf[x.t] = r
      BY <2>1, <3>1, MessageFacts DEF MessageOK
    <3> QED BY <1>21, <1>22, <3>2
  <2> QED BY <2>1, <2>2, <2>3, <2>4
<1>15. \A u \in Transfers : SessionOf[u] \in up' =>
         SessionOf[u] \in up /\ chan'[SessionOf[u]] = chan[SessionOf[u]]
  BY <1>1, <1>7, <1>9
<1>16. SlotAwaits'
  <2>1. ASSUME NEW u \in Transfers, SessionOf[u] \in up'
        PROVE  StartUnderWay(u)' <=> StartUnderWay(u)
    BY <1>15, <2>1 DEF StartUnderWay
  <2>2. \A u \in Transfers : SessionOf[u] \in up' => \A i : HasSlot(u, i)' <=> HasSlot(u, i)
    BY <1>1, <1>21
  <2> QED BY <1>1, <1>9, <1>15, <1>20, <2>1, <2>2 DEF IInv, SlotAwaits
<1>17. SentOK'
  BY <1>1, <1>9, <1>15 DEF IInv, SentOK
<1>18. ChunksFollow'
  <2> SUFFICES ASSUME NEW u \in Transfers, NEW i \in Idx(u)
               PROVE  /\ \A n \in 1 .. Len(chan'[SessionOf[u]]) : ChunkFollows(u, i, n)'
                      /\ AllFollows(u, i)'
    BY <1>9 DEF ChunksFollow
  <2> DEFINE r == SessionOf[u]
  <2>1. r \in Sessions /\ AllFollows(u, i) /\ \A n \in 1 .. Len(chan[r]) : ChunkFollows(u, i, n)
    BY <1>9 DEF IInv, ChunksFollow
  <2>2. r # s \/ k # 0 => Base(u, i)' = Base(u, i) /\ (Awaited(u, i)' => Awaited(u, i))
    <3> SUFFICES ASSUME r # s \/ k # 0
                 PROVE  Base(u, i)' = Base(u, i) /\ (Awaited(u, i)' => Awaited(u, i))
      OBVIOUS
    <3>1. HasSlot(u, i)' <=> HasSlot(u, i)
      BY <1>21
    <3>2. u \in DOMAIN transfers => transfers'[u] = transfers[u]
      BY <1>20
    <3>3. StartUnderWay(u)' => StartUnderWay(u)
      BY <1>7, <1>9 DEF StartUnderWay
    <3> QED BY <3>1, <3>2, <3>3 DEF Base, HasSlot, Awaited
  <2>3. \A n \in 1 .. Len(chan'[r]) :
          /\ n \in 1 .. Len(chan[r])
          /\ IsChunk(u, i, n)' <=> IsChunk(u, i, n)
          /\ ChunkOff(u, n)' = ChunkOff(u, n) /\ ChunkEnd(u, n)' = ChunkEnd(u, n)
    BY <1>7, <2>1 DEF IsChunk, ChunkEnd, ChunkOff
  <2>4. ASSUME NEW n \in 1 .. Len(chan'[r]) PROVE ChunkFollows(u, i, n)'
    <3>1. \A j \in 1 .. n - 1 :
          /\ IsChunk(u, i, j)' <=> IsChunk(u, i, j)
          /\ ChunkOff(u, j)' = ChunkOff(u, j) /\ ChunkEnd(u, j)' = ChunkEnd(u, j)
      BY <1>8, <2>1, <2>3, <2>4
    <3>2. ChunkFollows(u, i, n)
      BY <2>1, <2>3, <2>4
    <3>3. /\ IsChunk(u, i, n)' <=> IsChunk(u, i, n)
          /\ ChunkOff(u, n)' = ChunkOff(u, n) /\ ChunkEnd(u, n)' = ChunkEnd(u, n)
      BY <2>3, <2>4
    <3>4. r # s \/ k # 0
      BY <1>22, <2>1, <2>4
    <3> QED BY <1>1, <2>2, <3>1, <3>2, <3>3, <3>4 DEF ChunkFollows
  <2>5. AllFollows(u, i)'
    <3>1. CASE r \in up'
      <4>1. r \in up /\ chan'[r] = chan[r] /\ r # s
        BY <1>1, <1>15, <3>1
      <4> QED BY <1>1, <2>1, <2>2, <2>3, <4>1 DEF AllFollows
    <3>2. CASE r \notin up'
      BY <3>2 DEF AllFollows
    <3> QED BY <3>1, <3>2
  <2> QED BY <2>4, <2>5
<1>19. SlotsOK'
  <2> SUFFICES ASSUME NEW u \in DOMAIN transfers', NEW i \in DOMAIN transfers'[u]
               PROVE  SlotOK(u, i)'
    BY DEF SlotsOK
  <2>1. SlotOK(u, i)
    BY <1>20 DEF IInv, SlotsOK
  <2> QED BY <1>1, <1>20, <2>1 DEF SlotOK, Partial
<1> QED BY <1>10, <1>11, <1>12, <1>13, <1>14, <1>16, <1>17, <1>18, <1>19 DEF IInv

-----------------------------------------------------------------------------
(* Steps of the receiving device.                                            *)

\* A file that is taken to its verdict keeps all the invariant speaks of.
LEMMA CloseFileStep == ASSUME IInv, NEW s \in Sessions, CloseFile(s) PROVE IInv'
<1>1. PICK m : m = Head(chan[s])
  OBVIOUS
<1>2. /\ HasSlot(m.t, m.i)
      /\ transfers' = [transfers EXCEPT ![m.t][m.i].open = FALSE]
      /\ UNCHANGED <<source, snd, task, chan, up, disk, outcome, refused, spoiled, faults>>
  BY <1>1 DEF CloseFile, senderVars
<1>3. SenderOK /\ ReceiverOK /\ PhaseOK /\ \A u \in Transfers : Idx(u)' = Idx(u)
  BY <1>2 DEF IInv, Idx
<1>4. /\ DOMAIN transfers' = DOMAIN transfers
      /\ \A u \in DOMAIN transfers : DOMAIN transfers'[u] = DOMAIN transfers[u]
      /\ transfers'[m.t][m.i] = [transfers[m.t][m.i] EXCEPT !.open = FALSE]
      /\ \A u \in DOMAIN transfers : \A i \in DOMAIN transfers[u] :
           ~(u = m.t /\ i = m.i) => transfers'[u][i] = transfers[u][i]
  BY <1>2 DEF HasSlot
<1>5. \A u \in DOMAIN transfers : \A i \in DOMAIN transfers[u] :
        /\ transfers'[u][i] \in FileSlot
        /\ transfers'[u][i].dest = transfers[u][i].dest
        /\ transfers'[u][i].hash = transfers[u][i].hash
        /\ transfers'[u][i].expected = transfers[u][i].expected
        /\ transfers'[u][i].received = transfers[u][i].received
  <2> SUFFICES ASSUME NEW u \in DOMAIN transfers, NEW i \in DOMAIN transfers[u]
               PROVE  /\ transfers'[u][i] \in FileSlot
                      /\ transfers'[u][i].dest = transfers[u][i].dest
                      /\ transfers'[u][i].hash = transfers[u][i].hash
                      /\ transfers'[u][i].expected = transfers[u][i].expected
                      /\ transfers'[u][i].received = transfers[u][i].received
    OBVIOUS
  <2>1. PICK sl \in FileSlot : sl = transfers[u][i]
    BY <1>3 DEF ReceiverOK
  <2>2. CASE u = m.t /\ i = m.i
    <3>1. transfers'[u][i] = [sl EXCEPT !.open = FALSE]
      BY <1>4, <2>1, <2>2
    <3> QED BY <2>1, <3>1 DEF FileSlot
  <2>3. CASE ~(u = m.t /\ i = m.i)
    BY <1>4, <2>1, <2>3
  <2> QED BY <2>2, <2>3
<1>6. \A u, i : /\ HasSlot(u, i)' <=> HasSlot(u, i)
                /\ Base(u, i)' = Base(u, i)
  BY <1>4, <1>5 DEF HasSlot, Base
<1>7. ReceiverOK'
  <2>1. ReceiverOK /\ \A t \in Transfers : snd'[t].entries = snd[t].entries
    BY <1>2, <1>3
  <2>2. \A t \in DOMAIN transfers' : /\ DOMAIN transfers'[t] \subseteq Idx(t)'
                                     /\ \A i \in DOMAIN transfers'[t] : transfers'[t][i] \in FileSlot
    BY <1>3, <1>4, <1>5 DEF ReceiverOK
  <2>3. DOMAIN transfers' \subseteq Transfers
    BY <1>4, <2>1 DEF ReceiverOK
  <2> QED BY <1>2, <2>1, <2>2, <2>3 DEF ReceiverOK
<1>8. SenderOK' /\ PhaseOK'
  <2>1. \A u \in Transfers : Running(u)' = Running(u)
    BY <1>2 DEF Running
  <2> QED BY <1>2, <1>3, <2>1 DEF SenderOK, PhaseOK, TransferOK
<1>9. MessagesOK'
  <2> SUFFICES ASSUME NEW r \in Sessions, NEW k \in 1 .. Len(chan[r]) PROVE MessageOK(r, k)'
    BY <1>2 DEF MessagesOK
  <2>1. MessageOK(r, k) /\ chan[r][k].t \in Transfers
    BY <1>3, MessageFacts DEF IInv, MessagesOK, ReceiverOK
  <2> QED BY <1>2, <1>3, <1>4, <2>1 DEF MessageOK
<1>10. MessagesFindTheirSlot'
  BY <1>2, <1>6 DEF IInv, MessagesFindTheirSlot
<1>11. SlotAwaits' /\ SentOK'
  BY <1>2, <1>3, <1>4, <1>6 DEF IInv, SlotAwaits, SentOK, StartUnderWay
<1>12. ChunksFollow'
  <2> SUFFICES ASSUME NEW u \in Transfers, NEW i \in Idx(u)
               PROVE  /\ \A k \in 1 .. Len(chan[SessionOf[u]]) : ChunkFollows(u, i, k)'
                      /\ AllFollows(u, i)'
    BY <1>2, <1>3 DEF ChunksFollow
  <2>1. Base(u, i)' = Base(u, i) /\ (Awaited(u, i)' <=> Awaited(u, i))
    BY <1>2, <1>6 DEF Awaited, StartUnderWay
  <2>2. \A k : /\ IsChunk(u, i, k)' <=> IsChunk(u, i, k)
               /\ ChunkOff(u, k)' = ChunkOff(u, k) /\ ChunkEnd(u, k)' = ChunkEnd(u, k)
    BY <1>2 DEF IsChunk, ChunkOff, ChunkEnd
  <2>3. AllFollows(u, i) /\ \A k \in 1 .. Len(chan[SessionOf[u]]) : ChunkFollows(u, i, k)
    BY DEF IInv, ChunksFollow
  <2> QED BY <1>2, <2>1, <2>2, <2>3 DEF ChunkFollows, AllFollows
<1>13. SlotsOK'
  <2> SUFFICES ASSUME NEW u \in DOMAIN transfers, NEW i \in DOMAIN transfers[u]
               PROVE  SlotOK(u, i)'
    BY <1>4 DEF SlotsOK
  <2>1. SlotOK(u, i)
    BY DEF IInv, SlotsOK
  <2>2. Partial(transfers[u][i])' = Partial(transfers[u][i])
    BY <1>5 DEF Partial
  <2>3. \A v \in DOMAIN transfers' : \A j \in DOMAIN transfers'[v] :
          v \in DOMAIN transfers /\ j \in DOMAIN transfers[v]
          /\ transfers'[v][j].dest = transfers[v][j].dest
    BY <1>4, <1>5
  <2> QED BY <1>2, <1>5, <2>1, <2>2, <2>3 DEF SlotOK
<1> QED BY <1>7, <1>8, <1>9, <1>10, <1>11, <1>12, <1>13 DEF IInv

\* The message at the head of a channel, and what can no longer follow it.
LEMMA HeadFacts ==
  ASSUME IInv, NEW s \in Sessions, chan[s] # <<>>, NEW m, m = Head(chan[s])
  PROVE  /\ m \in FileMessage /\ m.t \in Transfers /\ SessionOf[m.t] = s
         /\ 1 \in 1 .. Len(chan[s]) /\ chan[s][1] = m
         /\ snd[m.t].phase \in Started
         /\ m.kind = "start" => m.files = snd[m.t].entries /\ m.t \notin DOMAIN transfers
         /\ m.kind \in {"chunk", "complete"} => m.i \in Idx(m.t)
         /\ m.kind = "complete" => task[m.t][m.i].st = "sent" /\ m.hash = task[m.t][m.i].hash
         /\ \A k \in 2 .. Len(chan[s]) : chan[s][k].t = m.t => chan[s][k].kind # "start"
         /\ m.kind # "start" => ~StartUnderWay(m.t)
<1>1. chan[s] \in Seq(FileMessage)
  BY DEF IInv, ReceiverOK
<1>2. /\ m = chan[s][1] /\ m \in FileMessage
      /\ Len(chan[s]) \in Nat /\ Len(chan[s]) > 0
  BY <1>1, HeadTailProperties
<1>3. 1 \in 1 .. Len(chan[s])
  BY <1>2
<1>4. MessageOK(s, 1) /\ m.t \in Transfers
  BY <1>2, <1>3, MessageFacts DEF IInv, MessagesOK
<1>5. ASSUME NEW k \in 2 .. Len(chan[s]), chan[s][k].t = m.t
      PROVE  chan[s][k].kind # "start"
  <2>1. k \in 1 .. Len(chan[s]) /\ 1 \in 1 .. k - 1
    BY <1>2
  <2>2. MessageOK(s, k)
    BY <2>1 DEF IInv, MessagesOK
  <2> QED BY <1>2, <1>5, <2>1, <2>2 DEF MessageOK
<1>6. /\ SessionOf[m.t] = s /\ snd[m.t].phase \in Started
      /\ m.kind = "start" => m.files = snd[m.t].entries /\ m.t \notin DOMAIN transfers
      /\ m.kind \in {"chunk", "complete"} => m.i \in Idx(m.t)
      /\ m.kind = "complete" => task[m.t][m.i].st = "sent" /\ m.hash = task[m.t][m.i].hash
  BY <1>2, <1>4 DEF MessageOK
<1>7. m.kind # "start" => ~StartUnderWay(m.t)
  <2>1. \A k \in 1 .. Len(chan[s]) : k = 1 \/ k \in 2 .. Len(chan[s])
    BY <1>2
  <2> QED BY <1>2, <1>5, <1>6, <2>1 DEF StartUnderWay
<1> QED BY <1>2, <1>3, <1>4, <1>5, <1>6, <1>7

\* The units of a chunk under way begin and end at a place in the file.
LEMMA ChunkTypes ==
  ASSUME IInv, NEW t \in Transfers, NEW i \in Idx(t), NEW k \in 1 .. Len(chan[SessionOf[t]]),
         IsChunk(t, i, k)
  PROVE  ChunkOff(t, k) \in Nat /\ ChunkEnd(t, k) \in Nat
<1>1. chan[SessionOf[t]] \in Seq(FileMessage)
  BY SessionAssumption DEF IInv, ReceiverOK
<1>2. chan[SessionOf[t]][k] \in FileMessage
  BY <1>1
<1> QED BY <1>2, MessageFacts DEF IsChunk, ChunkOff, ChunkEnd

\* The receiver takes a message: the chunks under way follow what it has now, if what it
\* has of a file grew by the units of the message.
LEMMA TakeFollows ==
  ASSUME IInv, NEW s \in Sessions, chan[s] # <<>>, Take(s), UNCHANGED <<snd, task, up>>,
         NEW t \in Transfers, NEW i \in Idx(t),
         Awaited(t, i)' => Awaited(t, i),
         Awaited(t, i)' /\ SessionOf[t] = s /\ IsChunk(t, i, 1) =>
           Base(t, i)' = Base(t, i) + Len(chan[s][1].data),
         Awaited(t, i)' /\ ~(SessionOf[t] = s /\ IsChunk(t, i, 1)) => Base(t, i)' = Base(t, i)
  PROVE  /\ \A k \in 1 .. Len(chan'[SessionOf[t]]) : ChunkFollows(t, i, k)'
         /\ AllFollows(t, i)'
<1> DEFINE r == SessionOf[t]
<1>1. /\ chan' \in [Sessions -> Seq(FileMessage)]
      /\ Len(chan[s]) \in Nat /\ Len(chan[s]) > 0
      /\ Len(chan'[s]) = Len(chan[s]) - 1
      /\ \A k \in 1 .. Len(chan'[s]) : chan'[s][k] = chan[s][k + 1]
      /\ \A q \in Sessions \ {s} : chan'[q] = chan[q]
  BY TakeFacts DEF IInv
<1>2. /\ \A k \in 1 .. Len(chan[r]) : ChunkFollows(t, i, k)
      /\ AllFollows(t, i)
      /\ r \in Sessions
  BY SessionAssumption DEF IInv, ChunksFollow
<1>3. CASE r # s
  <2>1. chan'[r] = chan[r] /\ (Awaited(t, i)' => Awaited(t, i) /\ Base(t, i)' = Base(t, i))
    BY <1>1, <1>2, <1>3
  <2>2. \A k : /\ IsChunk(t, i, k)' <=> IsChunk(t, i, k)
               /\ ChunkOff(t, k)' = ChunkOff(t, k) /\ ChunkEnd(t, k)' = ChunkEnd(t, k)
    BY <2>1 DEF IsChunk, ChunkOff, ChunkEnd
  <2> QED BY <1>2, <2>1, <2>2 DEF ChunkFollows, AllFollows
<1>4. CASE r = s
  <2>1. 1 \in 1 .. Len(chan[r])
    BY <1>1, <1>4
  <2>2. \A k \in 1 .. Len(chan'[r]) :
          /\ k + 1 \in 1 .. Len(chan[r]) /\ k + 1 # 1
          /\ IsChunk(t, i, k)' <=> IsChunk(t, i, k + 1)
          /\ ChunkOff(t, k)' = ChunkOff(t, k + 1) /\ ChunkEnd(t, k)' = ChunkEnd(t, k + 1)
    <3>1. \A k \in 1 .. Len(chan'[r]) : k + 1 \in 1 .. Len(chan[r]) /\ k + 1 # 1
      BY <1>1, <1>4
    <3>2. \A k \in 1 .. Len(chan'[r]) : chan'[r][k] = chan[r][k + 1]
      BY <1>1, <1>4
    <3> QED BY <3>1, <3>2 DEF IsChunk, ChunkOff, ChunkEnd
  <2>3. \A k \in 1 .. Len(chan[r]) : k = 1 \/ (k - 1 \in 1 .. Len(chan'[r]) /\ (k - 1) + 1 = k)
    BY <1>1, <1>4
  <2>4. ASSUME Awaited(t, i)', IsChunk(t, i, 1)
        PROVE  Base(t, i) = ChunkOff(t, 1) /\ Base(t, i)' = ChunkEnd(t, 1)
    <3>1. ChunkFollows(t, i, 1) /\ \A j \in 1 .. 1 - 1 : FALSE
      BY <1>2, <2>1
    <3>2. Base(t, i) = ChunkOff(t, 1)
      BY <2>4, <3>1 DEF ChunkFollows
    <3> QED BY <1>4, <2>4, <3>2 DEF ChunkEnd
  <2>5. Awaited(t, i)' /\ ~IsChunk(t, i, 1) => Base(t, i)' = Base(t, i)
    OBVIOUS
  \* Where a later chunk begins, or the sender is, is where the one before it ended.
  <2>6. ASSUME NEW x \in Nat, NEW n \in 1 .. Len(chan[r]) + 1, Awaited(t, i)',
               IsChunk(t, i, 1) => ChunkEnd(t, 1) <= x,
               \/ x = Base(t, i)
               \/ \E j \in 1 .. n - 1 : IsChunk(t, i, j) /\ ChunkEnd(t, j) = x
        PROVE  \/ x = Base(t, i)'
               \/ \E j \in 1 .. n - 2 : IsChunk(t, i, j)' /\ ChunkEnd(t, j)' = x
    <3>1. ASSUME IsChunk(t, i, 1), x = Base(t, i) PROVE FALSE
      <4>1. ChunkOff(t, 1) \in Nat /\ ChunkEnd(t, 1) \in Nat /\ ChunkOff(t, 1) < ChunkEnd(t, 1)
        BY <1>2, <2>1, <3>1, ChunkTypes DEF ChunkFollows
      <4> QED BY <2>4, <2>6, <3>1, <4>1
    <3>2. CASE x = Base(t, i)
      BY <2>5, <2>6, <3>1, <3>2
    <3>3. CASE \E j \in 1 .. n - 1 : IsChunk(t, i, j) /\ ChunkEnd(t, j) = x
      <4>1. PICK j \in 1 .. n - 1 : IsChunk(t, i, j) /\ ChunkEnd(t, j) = x
        BY <3>3
      <4>2. CASE j = 1
        BY <2>4, <2>6, <4>1, <4>2
      <4>3. CASE j # 1
        <5>1. j \in 1 .. Len(chan[r]) /\ j - 1 \in 1 .. n - 2
          BY <1>1, <1>4, <4>1, <4>3
        <5>2. j - 1 \in 1 .. Len(chan'[r]) /\ (j - 1) + 1 = j
          BY <2>3, <4>3, <5>1
        <5>3. IsChunk(t, i, j - 1)' /\ ChunkEnd(t, j - 1)' = x
          BY <2>2, <4>1, <5>2
        <5> QED BY <5>1, <5>3
      <4> QED BY <4>2, <4>3
    <3> QED BY <2>6, <3>2, <3>3
  <2>7. ASSUME NEW k \in 1 .. Len(chan'[r]), IsChunk(t, i, k)'
        PROVE  ChunkFollows(t, i, k)'
    <3>1. /\ k + 1 \in 1 .. Len(chan[r]) /\ k + 1 # 1 /\ IsChunk(t, i, k + 1)
          /\ ChunkOff(t, k)' = ChunkOff(t, k + 1) /\ ChunkEnd(t, k)' = ChunkEnd(t, k + 1)
      BY <2>2, <2>7
    <3>2. ChunkFollows(t, i, k + 1)
      BY <1>2, <3>1
    <3>3. PICK K \in 1 .. Len(chan[r]) : K = k + 1
      BY <3>1
    <3>4. /\ ChunkOff(t, K) < ChunkEnd(t, K) /\ ChunkEnd(t, K) <= task[t][i].off
          /\ \A j \in 1 .. K - 1 : IsChunk(t, i, j) => ChunkEnd(t, j) <= ChunkOff(t, K)
          /\ Awaited(t, i) =>
               \/ ChunkOff(t, K) = Base(t, i)
               \/ \E j \in 1 .. K - 1 : IsChunk(t, i, j) /\ ChunkEnd(t, j) = ChunkOff(t, K)
      BY <3>1, <3>2, <3>3 DEF ChunkFollows
    <3>5. ChunkOff(t, K) \in Nat
      BY <3>1, <3>3, ChunkTypes
    <3>6. \A j \in 1 .. k - 1 : IsChunk(t, i, j)' => ChunkEnd(t, j)' <= ChunkOff(t, K)
      <4>1. \A j \in 1 .. k - 1 : j \in 1 .. Len(chan'[r]) /\ j + 1 \in 1 .. K - 1
        BY <1>1, <1>4, <3>3
      <4> QED BY <2>2, <3>4, <4>1
    <3>7. Awaited(t, i)' =>
            \/ ChunkOff(t, K) = Base(t, i)'
            \/ \E j \in 1 .. k - 1 : IsChunk(t, i, j)' /\ ChunkEnd(t, j)' = ChunkOff(t, K)
      <4> SUFFICES ASSUME Awaited(t, i)'
                   PROVE  \/ ChunkOff(t, K) = Base(t, i)'
                          \/ \E j \in 1 .. k - 1 : IsChunk(t, i, j)' /\ ChunkEnd(t, j)' = ChunkOff(t, K)
        OBVIOUS
      <4>1. K - 2 = k - 1 /\ K \in 1 .. Len(chan[r]) + 1 /\ 1 \in 1 .. K - 1
        BY <1>1, <1>4, <3>3
      <4>2. IsChunk(t, i, 1) => ChunkEnd(t, 1) <= ChunkOff(t, K)
        BY <3>4, <4>1
      <4>3. \/ ChunkOff(t, K) = Base(t, i)
            \/ \E j \in 1 .. K - 1 : IsChunk(t, i, j) /\ ChunkEnd(t, j) = ChunkOff(t, K)
        BY <3>4
      <4>4. \/ ChunkOff(t, K) = Base(t, i)'
            \/ \E j \in 1 .. K - 2 : IsChunk(t, i, j)' /\ ChunkEnd(t, j)' = ChunkOff(t, K)
        BY <2>6, <3>5, <4>1, <4>2, <4>3
      <4> QED BY <4>1, <4>4
    <3> QED BY <3>1, <3>3, <3>4, <3>6, <3>7 DEF ChunkFollows
  <2>8. AllFollows(t, i)'
    <3> SUFFICES ASSUME Awaited(t, i)', r \in up
                 PROVE  \/ task[t][i].off = Base(t, i)'
                        \/ \E k \in 1 .. Len(chan'[r]) :
                             IsChunk(t, i, k)' /\ ChunkEnd(t, k)' = task[t][i].off
      BY DEF AllFollows
    <3>1. task[t][i].off \in Nat
      BY DEF IInv, SenderOK, Idx
    <3>2. IsChunk(t, i, 1) => ChunkEnd(t, 1) <= task[t][i].off
      BY <1>2, <2>1 DEF ChunkFollows
    <3>3. PICK n \in 1 .. Len(chan[r]) + 1 : n = Len(chan[r]) + 1
      BY <1>1, <1>4
    <3>4. n - 1 = Len(chan[r]) /\ n - 2 = Len(chan'[r])
      BY <1>1, <1>4, <3>3
    <3>5. \/ task[t][i].off = Base(t, i)
          \/ \E j \in 1 .. n - 1 : IsChunk(t, i, j) /\ ChunkEnd(t, j) = task[t][i].off
      BY <1>2, <3>4 DEF AllFollows
    <3>6. \/ task[t][i].off = Base(t, i)'
          \/ \E j \in 1 .. n - 2 : IsChunk(t, i, j)' /\ ChunkEnd(t, j)' = task[t][i].off
      BY <2>6, <3>1, <3>2, <3>5
    <3> QED BY <3>4, <3>6
  <2>9. \A k \in 1 .. Len(chan'[r]) : ChunkFollows(t, i, k)'
    BY <2>7 DEF ChunkFollows
  <2> QED BY <2>8, <2>9
<1> QED BY <1>3, <1>4

\* The receiver takes a message: what the invariant says of those behind it stays, if
\* the message did its work.
LEMMA TakeFrame ==
  ASSUME IInv, NEW s \in Sessions, chan[s] # <<>>, Take(s), NEW m, m = Head(chan[s]),
         ReceiverOK', SlotsOK', UNCHANGED <<source, snd, task, up>>,
         refused \subseteq refused',
         \A u \in Transfers \ {m.t} :
           /\ u \in DOMAIN transfers' <=> u \in DOMAIN transfers
           /\ u \in DOMAIN transfers => transfers'[u] = transfers[u],
         m.t \in DOMAIN transfers' => m.t \in DOMAIN transfers \/ m.kind = "start",
         \A u \in Transfers : \A i \in Idx(u) : outcome[u][i] # None => outcome'[u][i] # None,
         m.kind = "start" => m.t \in refused' \/ \A i \in Idx(m.t) : HasSlot(m.t, i)',
         \A i \in Idx(m.t) : HasSlot(m.t, i) =>
           m.t \in refused' \/ HasSlot(m.t, i)' \/ (m.kind = "complete" /\ m.i = i),
         m.kind = "complete" => outcome'[m.t][m.i] # None,
         \A i \in Idx(m.t) : HasSlot(m.t, i)' =>
           IF m.kind = "start" THEN Base(m.t, i)' = 0
           ELSE /\ HasSlot(m.t, i)
                /\ Base(m.t, i)' = Base(m.t, i) + (IF m.kind = "chunk" /\ m.i = i
                                                   THEN Len(m.data) ELSE 0)
  PROVE  IInv'
<1> DEFINE t == m.t
<1>1. /\ chan' \in [Sessions -> Seq(FileMessage)]
      /\ Len(chan[s]) \in Nat /\ Len(chan[s]) > 0
      /\ Len(chan'[s]) = Len(chan[s]) - 1
      /\ \A k \in 1 .. Len(chan'[s]) : chan'[s][k] = chan[s][k + 1]
      /\ \A q \in Sessions \ {s} : chan'[q] = chan[q]
  BY TakeFacts DEF IInv
<1>2. /\ m \in FileMessage /\ t \in Transfers /\ SessionOf[t] = s
      /\ 1 \in 1 .. Len(chan[s]) /\ chan[s][1] = m
      /\ snd[t].phase \in Started
      /\ m.kind = "start" => m.files = snd[t].entries /\ t \notin DOMAIN transfers
      /\ m.kind \in {"chunk", "complete"} => m.i \in Idx(t)
      /\ m.kind = "complete" => task[t][m.i].st = "sent"
      /\ \A k \in 2 .. Len(chan[s]) : chan[s][k].t = t => chan[s][k].kind # "start"
      /\ m.kind # "start" => ~StartUnderWay(t)
  BY HeadFacts
<1>3. \A u \in Transfers : Idx(u)' = Idx(u) /\ SessionOf[u] \in Sessions
  BY SessionAssumption DEF Idx
<1> HIDE DEF t
<1>4. SenderOK' /\ PhaseOK'
  <2>1. \A u \in Transfers : Running(u)' = Running(u)
    BY DEF Running
  <2> QED BY <1>3, <2>1 DEF IInv, SenderOK, PhaseOK, TransferOK
<1>5. \A k \in 1 .. Len(chan'[s]) : \E K \in 2 .. Len(chan[s]) :
        /\ K \in 1 .. Len(chan[s]) /\ 1 \in 1 .. K - 1 /\ chan'[s][k] = chan[s][K]
        /\ \A j \in 1 .. k - 1 : \E J \in 1 .. K - 1 : chan'[s][j] = chan[s][J]
        /\ \A J \in 1 .. K - 1 : J = 1 \/ \E j \in 1 .. k - 1 : chan'[s][j] = chan[s][J]
  <2> SUFFICES ASSUME NEW k \in 1 .. Len(chan'[s])
               PROVE  \E K \in 2 .. Len(chan[s]) :
        /\ K \in 1 .. Len(chan[s]) /\ 1 \in 1 .. K - 1 /\ chan'[s][k] = chan[s][K]
        /\ \A j \in 1 .. k - 1 : \E J \in 1 .. K - 1 : chan'[s][j] = chan[s][J]
        /\ \A J \in 1 .. K - 1 : J = 1 \/ \E j \in 1 .. k - 1 : chan'[s][j] = chan[s][J]
    OBVIOUS
  <2>1. PICK K \in 2 .. Len(chan[s]) : K = k + 1
    BY <1>1
  <2>2. K \in 1 .. Len(chan[s]) /\ 1 \in 1 .. K - 1 /\ chan'[s][k] = chan[s][K]
    BY <1>1, <2>1
  <2>3. ASSUME NEW j \in 1 .. k - 1
        PROVE  \E J \in 1 .. K - 1 : chan'[s][j] = chan[s][J]
    <3>1. j + 1 \in 1 .. K - 1 /\ j \in 1 .. Len(chan'[s])
      BY <1>1, <2>1
    <3> QED BY <1>1, <3>1
  <2>4. ASSUME NEW J \in 1 .. K - 1, J # 1
        PROVE  \E j \in 1 .. k - 1 : chan'[s][j] = chan[s][J]
    <3>1. PICK j \in 1 .. k - 1 : J = j + 1 /\ j \in 1 .. Len(chan'[s])
      BY <1>1, <2>1, <2>4
    <3> QED BY <1>1, <3>1
  <2> QED BY <2>2, <2>3, <2>4
<1>6. \A k \in 1 .. Len(chan[s]) :
        k = 1 \/ \E j \in 1 .. Len(chan'[s]) : chan'[s][j] = chan[s][k]
  <2> SUFFICES ASSUME NEW k \in 1 .. Len(chan[s]), k # 1
               PROVE  \E j \in 1 .. Len(chan'[s]) : chan'[s][j] = chan[s][k]
    OBVIOUS
  <2>1. k - 1 \in 1 .. Len(chan'[s]) /\ (k - 1) + 1 = k
    BY <1>1
  <2> QED BY <1>1, <2>1
<1>7. MessagesOK'
  <2> SUFFICES ASSUME NEW r \in Sessions, NEW k \in 1 .. Len(chan'[r]) PROVE MessageOK(r, k)'
    BY DEF MessagesOK
  <2>1. PICK x \in FileMessage : x = chan'[r][k]
    BY <1>1
  <2>2. x.t \in Transfers /\ Idx(x.t)' = Idx(x.t)
    BY <1>3, <2>1, MessageFacts
  <2>3. CASE r # s
    <3>1. chan'[r] = chan[r] /\ MessageOK(r, k)
      BY <1>1, <2>3 DEF IInv, MessagesOK
    <3>2. SessionOf[x.t] = r /\ x.t # t
      BY <1>2, <2>1, <2>3, <3>1 DEF MessageOK
    <3>3. x.t \in DOMAIN transfers' <=> x.t \in DOMAIN transfers
      BY <2>2, <3>2 DEF t
    <3> QED BY <2>1, <2>2, <3>1, <3>3 DEF MessageOK
  <2>4. CASE r = s
    <3>1. PICK K \in 2 .. Len(chan[s]) :
        /\ K \in 1 .. Len(chan[s]) /\ 1 \in 1 .. K - 1 /\ chan'[s][k] = chan[s][K]
        /\ \A j \in 1 .. k - 1 : \E J \in 1 .. K - 1 : chan'[s][j] = chan[s][J]
      BY <1>5, <2>4
    <3>2. MessageOK(s, K) /\ x = chan[s][K]
      BY <2>1, <2>4, <3>1 DEF IInv, MessagesOK
    <3>3. /\ SessionOf[x.t] = s /\ snd[x.t].phase \in Started
          /\ x.kind = "start" => x.files = snd[x.t].entries /\ x.t \notin DOMAIN transfers
          /\ x.kind \in {"chunk", "complete"} => x.i \in Idx(x.t)
          /\ x.kind = "complete" => /\ task[x.t][x.i].st = "sent"
                                    /\ x.hash = task[x.t][x.i].hash
          /\ \A j \in 1 .. K - 1 : chan[s][j].t = x.t => x.kind # "start"
      BY <3>2 DEF MessageOK
    <3>4. x.kind = "start" => x.t # t
      BY <1>2, <3>2 DEF t
    <3>5. x.kind = "start" => x.t \notin DOMAIN transfers'
      BY <2>2, <3>3, <3>4 DEF t
    <3>6. \A j \in 1 .. k - 1 : chan'[s][j].t = x.t => x.kind # "start"
      BY <3>1, <3>3
    <3> QED BY <2>1, <2>2, <2>4, <3>3, <3>5, <3>6 DEF MessageOK
  <2> QED BY <2>3, <2>4
<1>8. ASSUME NEW u \in Transfers \ {t}, NEW i PROVE HasSlot(u, i)' <=> HasSlot(u, i)
  BY <1>8 DEF HasSlot, t
<1>9. MessagesFindTheirSlot'
  <2> SUFFICES ASSUME NEW r \in Sessions, NEW k \in 1 .. Len(chan'[r]),
                      NEW x, x = chan'[r][k], x.kind \in {"chunk", "complete"}
               PROVE
    /\ \/ x.t \in refused'
       \/ \E j \in 1 .. k - 1 : chan'[r][j].t = x.t /\ chan'[r][j].kind = "start"
       \/ HasSlot(x.t, x.i)'
    /\ \A j \in 1 .. k - 1 : chan'[r][j].t = x.t /\ chan'[r][j].kind = "complete"
                                => chan'[r][j].i # x.i
    BY DEF MessagesFindTheirSlot
  <2>1. x \in FileMessage /\ x.t \in Transfers
    BY <1>1, MessageFacts
  <2>2. x.i \in Idx(x.t) /\ SessionOf[x.t] = r
    BY <1>3, <1>7, <2>1 DEF MessagesOK, MessageOK
  <2>3. CASE r # s
    <3>1. chan'[r] = chan[r] /\ k \in 1 .. Len(chan[r])
      BY <1>1, <2>3
    <3>2. /\ \/ x.t \in refused
             \/ \E j \in 1 .. k - 1 : chan[r][j].t = x.t /\ chan[r][j].kind = "start"
             \/ HasSlot(x.t, x.i)
          /\ \A j \in 1 .. k - 1 : chan[r][j].t = x.t /\ chan[r][j].kind = "complete"
                                      => chan[r][j].i # x.i
      BY <3>1 DEF IInv, MessagesFindTheirSlot
    <3>3. x.t \in Transfers \ {t}
      BY <1>2, <2>1, <2>2, <2>3
    <3> QED BY <1>8, <3>1, <3>2, <3>3
  <2>4. CASE r = s
    <3>1. PICK K \in 2 .. Len(chan[s]) :
        /\ K \in 1 .. Len(chan[s]) /\ 1 \in 1 .. K - 1 /\ chan'[s][k] = chan[s][K]
        /\ \A j \in 1 .. k - 1 : \E J \in 1 .. K - 1 : chan'[s][j] = chan[s][J]
        /\ \A J \in 1 .. K - 1 : J = 1 \/ \E j \in 1 .. k - 1 : chan'[s][j] = chan[s][J]
      BY <1>5, <2>4
    <3>2. x = chan[s][K] /\ K \in 1 .. Len(chan[s])
      BY <2>4, <3>1
    <3>3. /\ \/ x.t \in refused
             \/ \E j \in 1 .. K - 1 : chan[s][j].t = x.t /\ chan[s][j].kind = "start"
             \/ HasSlot(x.t, x.i)
          /\ \A j \in 1 .. K - 1 : chan[s][j].t = x.t /\ chan[s][j].kind = "complete"
                                      => chan[s][j].i # x.i
      <4>1. chan[s][K].kind \in {"chunk", "complete"}
        BY <3>2
      <4>2. /\ \/ chan[s][K].t \in refused
               \/ \E j \in 1 .. K - 1 : chan[s][j].t = chan[s][K].t /\ chan[s][j].kind = "start"
               \/ HasSlot(chan[s][K].t, chan[s][K].i)
            /\ \A j \in 1 .. K - 1 : chan[s][j].t = chan[s][K].t /\ chan[s][j].kind = "complete"
                                        => chan[s][j].i # chan[s][K].i
        BY <3>2, <4>1 DEF IInv, MessagesFindTheirSlot
      <4> QED BY <3>2, <4>2
    <3>4. \A j \in 1 .. k - 1 : chan'[s][j].t = x.t /\ chan'[s][j].kind = "complete"
                                  => chan'[s][j].i # x.i
      <4> SUFFICES ASSUME NEW j \in 1 .. k - 1, chan'[s][j].t = x.t, chan'[s][j].kind = "complete"
                   PROVE  chan'[s][j].i # x.i
        OBVIOUS
      <4>1. PICK J \in 1 .. K - 1 : chan'[s][j] = chan[s][J]
        BY <3>1
      <4> QED BY <3>3, <4>1
    <3>5. CASE \E j \in 1 .. K - 1 : chan[s][j].t = x.t /\ chan[s][j].kind = "start"
      <4>1. PICK j \in 1 .. K - 1 : chan[s][j].t = x.t /\ chan[s][j].kind = "start"
        BY <3>5
      <4>2. CASE j = 1
        <5>1. x.t = t /\ m.kind = "start"
          BY <1>2, <4>1, <4>2 DEF t
        <5> QED BY <2>2, <3>4, <5>1, <2>4 DEF t
      <4>3. CASE j # 1
        <5>1. \E n \in 1 .. k - 1 : chan'[s][n] = chan[s][j]
          BY <3>1, <4>1, <4>3
        <5> QED BY <2>4, <3>4, <4>1, <5>1
      <4> QED BY <4>2, <4>3
    <3>6. CASE HasSlot(x.t, x.i)
      <4>1. CASE x.t # t
        BY <1>8, <2>1, <2>4, <3>4, <3>6, <4>1
      <4>2. CASE x.t = t
        <5>2. ~(m.kind = "complete" /\ m.i = x.i)
          BY <1>2, <3>1, <3>3, <4>2 DEF t
        <5>3. x.t \in refused' \/ HasSlot(x.t, x.i)'
          BY <2>2, <3>6, <4>2, <5>2 DEF t
        <5> QED BY <2>4, <3>4, <5>3
      <4> QED BY <4>1, <4>2
    <3>7. CASE x.t \in refused
      BY <2>4, <3>4, <3>7
    <3> QED BY <3>3, <3>5, <3>6, <3>7
  <2> QED BY <2>3, <2>4
<1>10. \A u \in Transfers : StartUnderWay(u) => StartUnderWay(u)' \/ (u = t /\ m.kind = "start")
  <2> SUFFICES ASSUME NEW u \in Transfers, StartUnderWay(u)
               PROVE  StartUnderWay(u)' \/ (u = t /\ m.kind = "start")
    OBVIOUS
  <2>1. PICK k \in 1 .. Len(chan[SessionOf[u]]) :
          chan[SessionOf[u]][k].t = u /\ chan[SessionOf[u]][k].kind = "start"
    BY DEF StartUnderWay
  <2>2. CASE SessionOf[u] # s
    <3>1. chan'[SessionOf[u]] = chan[SessionOf[u]]
      BY <1>1, <1>3, <2>2
    <3> QED BY <2>1, <3>1 DEF StartUnderWay
  <2>3. CASE SessionOf[u] = s
    <3>1. CASE k = 1
      BY <1>2, <2>1, <2>3, <3>1 DEF t
    <3>2. CASE k # 1
      BY <1>6, <2>1, <2>3, <3>2 DEF StartUnderWay
    <3> QED BY <3>1, <3>2
  <2> QED BY <2>2, <2>3
<1>11. \A u \in Transfers : StartUnderWay(u)' => StartUnderWay(u)
  <2> SUFFICES ASSUME NEW u \in Transfers, StartUnderWay(u)' PROVE StartUnderWay(u)
    OBVIOUS
  <2>1. PICK k \in 1 .. Len(chan'[SessionOf[u]]) :
          chan'[SessionOf[u]][k].t = u /\ chan'[SessionOf[u]][k].kind = "start"
    BY DEF StartUnderWay
  <2>2. CASE SessionOf[u] # s
    <3>1. chan'[SessionOf[u]] = chan[SessionOf[u]]
      BY <1>1, <1>3, <2>2
    <3> QED BY <2>1, <3>1 DEF StartUnderWay
  <2>3. CASE SessionOf[u] = s
    <3>1. \E K \in 1 .. Len(chan[s]) : chan'[s][k] = chan[s][K]
      BY <1>5, <2>1, <2>3
    <3> QED BY <2>1, <2>3, <3>1 DEF StartUnderWay
  <2> QED BY <2>2, <2>3
<1>12. ~StartUnderWay(t)'
  <2>1. \A k \in 1 .. Len(chan'[s]) : chan'[s][k].t = t => chan'[s][k].kind # "start"
    BY <1>2, <1>5
  <2> QED BY <1>2, <2>1 DEF StartUnderWay
<1>13. SlotAwaits'
  <2> SUFFICES ASSUME NEW u \in Transfers
               PROVE  /\ u \in DOMAIN transfers' => snd[u].phase \in Started
                      /\ SessionOf[u] \in up /\ snd[u].phase \in Started /\ u \notin refused' =>
                           \/ StartUnderWay(u)'
                           \/ \A i \in Idx(u) : task[u][i].st # "sent" => HasSlot(u, i)'
    BY <1>3 DEF SlotAwaits
  <2>1. /\ u \in DOMAIN transfers => snd[u].phase \in Started
        /\ SessionOf[u] \in up /\ snd[u].phase \in Started /\ u \notin refused =>
             \/ StartUnderWay(u)
             \/ \A i \in Idx(u) : task[u][i].st # "sent" => HasSlot(u, i)
    BY DEF IInv, SlotAwaits
  <2>2. CASE u # t
    <3>1. u \in DOMAIN transfers' <=> u \in DOMAIN transfers
      BY <2>2 DEF t
    <3> QED BY <1>8, <1>10, <2>1, <2>2, <3>1
  <2>3. CASE u = t
    <3>1. CASE m.kind = "start"
      BY <1>2, <2>3, <3>1 DEF t
    <3>2. CASE m.kind # "start"
      <4>1. ~StartUnderWay(u)
        BY <1>2, <2>3, <3>2
      <4>2. \A i \in Idx(u) : task[u][i].st # "sent" /\ HasSlot(u, i) =>
                                u \in refused' \/ HasSlot(u, i)'
        BY <1>2, <2>3 DEF t
      <4> QED BY <1>2, <2>1, <2>3, <4>1, <4>2
    <3> QED BY <3>1, <3>2
  <2> QED BY <2>2, <2>3
<1>14. SentOK'
  <2> SUFFICES ASSUME NEW u \in Transfers, SessionOf[u] \in up, NEW i \in Idx(u),
                      task[u][i].st = "sent"
               PROVE  \/ outcome'[u][i] # None
                      \/ \E k \in 1 .. Len(chan'[SessionOf[u]]) :
                           LET x == chan'[SessionOf[u]][k]
                           IN  x.kind = "complete" /\ x.t = u /\ x.i = i
    BY <1>3 DEF SentOK
  <2>1. CASE outcome[u][i] # None
    BY <2>1
  <2>2. CASE \E k \in 1 .. Len(chan[SessionOf[u]]) :
               LET x == chan[SessionOf[u]][k] IN x.kind = "complete" /\ x.t = u /\ x.i = i
    <3>1. PICK k \in 1 .. Len(chan[SessionOf[u]]) :
               LET x == chan[SessionOf[u]][k] IN x.kind = "complete" /\ x.t = u /\ x.i = i
      BY <2>2
    <3>2. CASE SessionOf[u] # s
      <4>1. chan'[SessionOf[u]] = chan[SessionOf[u]]
        BY <1>1, <1>3, <3>2
      <4> QED BY <3>1, <4>1
    <3>3. CASE SessionOf[u] = s
      <4>1. CASE k = 1
        BY <1>2, <3>1, <3>3, <4>1 DEF t
      <4>2. CASE k # 1
        BY <1>6, <3>1, <3>3, <4>2
      <4> QED BY <4>1, <4>2
    <3> QED BY <3>2, <3>3
  <2> QED BY <2>1, <2>2 DEF IInv, SentOK
<1>15. ChunksFollow'
  <2> SUFFICES ASSUME NEW u \in Transfers, NEW i \in Idx(u)
               PROVE  /\ \A k \in 1 .. Len(chan'[SessionOf[u]]) : ChunkFollows(u, i, k)'
                      /\ AllFollows(u, i)'
    BY <1>3 DEF ChunksFollow
  <2>1. SessionOf[u] = s /\ IsChunk(u, i, 1) <=> u = t /\ m.kind = "chunk" /\ m.i = i
    BY <1>2 DEF IsChunk, t
  <2>2. CASE u # t
    <3>1. /\ HasSlot(u, i)' <=> HasSlot(u, i)
          /\ HasSlot(u, i) => transfers'[u] = transfers[u]
      BY <1>8, <2>2 DEF HasSlot, t
    <3>2. Base(u, i)' = Base(u, i) /\ (Awaited(u, i)' => Awaited(u, i))
      BY <1>11, <3>1 DEF Base, Awaited
    <3>3. ~(SessionOf[u] = s /\ IsChunk(u, i, 1))
      BY <2>1, <2>2
    <3> QED BY <3>2, <3>3, TakeFollows
  <2>3. CASE u = t
    <3>1. Awaited(u, i)' => HasSlot(u, i)'
      BY <1>12, <2>3 DEF Awaited
    <3>2. CASE m.kind = "start"
      <4>1. StartUnderWay(u) /\ Base(u, i) = 0
        BY <1>2, <2>3, <3>2 DEF StartUnderWay, Base, HasSlot, t
      <4>2. HasSlot(u, i)' => Base(u, i)' = 0
        BY <2>3, <3>2 DEF t
      <4>3. Awaited(u, i) /\ ~(SessionOf[u] = s /\ IsChunk(u, i, 1))
        BY <2>1, <3>2, <4>1 DEF Awaited
      <4>4. Awaited(u, i)' => Base(u, i)' = Base(u, i)
        BY <3>1, <4>1, <4>2
      <4> QED BY <4>3, <4>4, TakeFollows
    <3>3. CASE m.kind # "start"
      <4>1. HasSlot(u, i)' =>
              /\ HasSlot(u, i)
              /\ Base(u, i)' = Base(u, i) + (IF m.kind = "chunk" /\ m.i = i THEN Len(m.data) ELSE 0)
        BY <2>3, <3>3 DEF t
      <4>2. Base(u, i) \in Nat
        BY DEF IInv, ReceiverOK, Base, HasSlot, FileSlot
      <4>3. Awaited(u, i)' => Awaited(u, i)
        BY <3>1, <4>1 DEF Awaited
      <4>4. Awaited(u, i)' /\ SessionOf[u] = s /\ IsChunk(u, i, 1) =>
              Base(u, i)' = Base(u, i) + Len(chan[s][1].data)
        BY <1>2, <2>1, <3>1, <4>1
      <4>5. Awaited(u, i)' /\ ~(SessionOf[u] = s /\ IsChunk(u, i, 1)) => Base(u, i)' = Base(u, i)
        BY <2>1, <2>3, <3>1, <4>1, <4>2
      <4> QED BY <4>3, <4>4, <4>5, TakeFollows
    <3> QED BY <3>2, <3>3
  <2> QED BY <2>2, <2>3
<1> QED BY <1>4, <1>7, <1>9, <1>13, <1>14, <1>15 DEF IInv

\* What a partly received file holds is data, and is there.
LEMMA PartialFacts ==
  ASSUME NEW sl \in FileSlot, sl.received = Len(sl.hash)
  PROVE  /\ Partial(sl) \in Seq(Units) /\ Partial(sl) # Absent
         /\ Len(Partial(sl)) = IF sl.received > sl.expected THEN sl.received ELSE sl.expected
         /\ \A u \in 1 .. Len(Partial(sl)) :
              Partial(sl)[u] = IF u <= sl.received THEN sl.hash[u] ELSE Zero
<1>1. /\ sl.hash \in Seq(Units) /\ sl.received \in Nat /\ sl.expected \in Nat
      /\ \A u \in 1 .. Len(sl.hash) : sl.hash[u] \in Units
  BY DEF FileSlot
<1>2. PICK n \in Nat : n = IF sl.received > sl.expected THEN sl.received ELSE sl.expected
  BY <1>1
<1>3. Zero \in Units
  BY DEF Units
<1>4. Partial(sl) = [u \in 1 .. n |-> IF u <= sl.received THEN sl.hash[u] ELSE Zero]
  BY <1>2 DEF Partial
<1>5. \A u \in 1 .. n : (IF u <= sl.received THEN sl.hash[u] ELSE Zero) \in Units
  BY <1>1, <1>3
<1>6. Partial(sl) \in Seq(Units) /\ Len(Partial(sl)) = n
  BY <1>4, <1>5
<1> QED BY <1>2, <1>4, <1>6, AbsentAssumption

\* Writing leaves a file of units, or no file where there is none.
LEMMA WrittenFacts ==
  ASSUME NEW old \in Seq(Units) \cup {Absent}, NEW off \in Nat, NEW data \in Seq(Units)
  PROVE  Written(old, off, data) \in Seq(Units) \cup {Absent}
<1>1. CASE old = Absent
  BY <1>1 DEF Written
<1>2. CASE old # Absent
  <2>1. old \in Seq(Units)
    BY <1>2
  <2>2. PICK n \in Nat : n = IF off + Len(data) > Len(old) THEN off + Len(data) ELSE Len(old)
    BY <2>1
  <2> DEFINE e(u) == IF u > off /\ u <= off + Len(data) THEN data[u - off]
                     ELSE IF u <= Len(old) THEN old[u] ELSE Zero
  <2>3. Written(old, off, data) = [u \in 1 .. n |-> e(u)]
    BY <1>2, <2>2 DEF Written
  <2>4. ASSUME NEW u \in 1 .. n PROVE e(u) \in Units
    <3>1. CASE u > off /\ u <= off + Len(data)
      <4>1. u - off \in 1 .. Len(data)
        BY <3>1
      <4> QED BY <3>1, <4>1
    <3>2. CASE ~(u > off /\ u <= off + Len(data)) /\ u <= Len(old)
      BY <2>1, <3>2
    <3>3. CASE ~(u > off /\ u <= off + Len(data)) /\ ~(u <= Len(old))
      BY <3>3 DEF Units
    <3> QED BY <3>1, <3>2, <3>3
  <2> HIDE DEF e
  <2> QED BY <2>3, <2>4
<1> QED BY <1>1, <1>2

\* Writing at the end of what was received leaves what is received then.
LEMMA WrittenPartial ==
  ASSUME NEW sl \in FileSlot, sl.received = Len(sl.hash), NEW data \in Seq(Units),
         NEW next \in FileSlot, next.hash = sl.hash \o data, next.expected = sl.expected,
         next.received = sl.received + Len(data)
  PROVE  Written(Partial(sl), sl.received, data) = Partial(next) /\ next.received = Len(next.hash)
<1>1. /\ sl.hash \in Seq(Units) /\ sl.received \in Nat /\ sl.expected \in Nat
      /\ Len(data) \in Nat /\ Len(sl.hash) \in Nat
  BY DEF FileSlot
<1>2. /\ Len(sl.hash \o data) = Len(sl.hash) + Len(data)
      /\ \A u \in 1 .. Len(sl.hash) + Len(data) :
           (sl.hash \o data)[u] = IF u <= Len(sl.hash) THEN sl.hash[u] ELSE data[u - Len(sl.hash)]
  BY <1>1, ConcatProperties
<1>3. /\ Partial(sl) \in Seq(Units) /\ Partial(sl) # Absent
      /\ Len(Partial(sl)) = IF sl.received > sl.expected THEN sl.received ELSE sl.expected
      /\ \A u \in 1 .. Len(Partial(sl)) :
           Partial(sl)[u] = IF u <= sl.received THEN sl.hash[u] ELSE Zero
  BY PartialFacts
<1>4. PICK old \in Seq(Units), r \in Nat, d \in Nat, e \in Nat :
        /\ old = Partial(sl) /\ r = sl.received /\ d = Len(data) /\ e = sl.expected
  BY <1>1, <1>3
<1>5. PICK n \in Nat : n = IF r + d > e THEN r + d ELSE e
  BY <1>4
<1>6. n = IF r + d > Len(old) THEN r + d ELSE Len(old)
  BY <1>3, <1>4, <1>5
<1>7. Written(old, r, data) =
        [u \in 1 .. n |-> IF u > r /\ u <= r + d THEN data[u - r]
                          ELSE IF u <= Len(old) THEN old[u] ELSE Zero]
  BY <1>3, <1>4, <1>6 DEF Written
<1>8. Partial(next) = [u \in 1 .. n |-> IF u <= r + d THEN next.hash[u] ELSE Zero]
  BY <1>4, <1>5 DEF Partial
<1>9. ASSUME NEW u \in 1 .. n
      PROVE  (IF u > r /\ u <= r + d THEN data[u - r]
              ELSE IF u <= Len(old) THEN old[u] ELSE Zero)
             = (IF u <= r + d THEN next.hash[u] ELSE Zero)
  <2>1. CASE u <= r
    <3>1. u \in 1 .. Len(old) /\ u <= r + d /\ ~(u > r)
      BY <1>3, <1>4, <2>1
    <3>2. old[u] = sl.hash[u] /\ next.hash[u] = sl.hash[u]
      BY <1>2, <1>3, <1>4, <2>1, <3>1
    <3> QED BY <3>1, <3>2
  <2>2. CASE u > r /\ u <= r + d
    <3>1. next.hash[u] = data[u - r]
      BY <1>2, <1>4, <2>2
    <3> QED BY <2>2, <3>1
  <2>3. CASE u > r + d
    <3>1. u <= Len(old) => old[u] = Zero
      BY <1>3, <1>4, <2>3
    <3>2. ~(u <= r + d)
      BY <2>3
    <3> QED BY <3>1, <3>2
  <2> QED BY <1>4, <2>1, <2>2, <2>3
<1>10. Written(old, r, data) = Partial(next)
  BY <1>7, <1>8, <1>9
<1> QED BY <1>1, <1>2, <1>4, <1>10

\* A cancelled transfer is forgotten.
LEMMA OnCancelStep ==
  ASSUME IInv, NEW s \in Sessions, chan[s] # <<>>, Take(s), NEW m, m = Head(chan[s]),
         m.kind = "cancel", OnCancel(m), UNCHANGED <<senderVars, up, faults>>
  PROVE  IInv'
<1>1. /\ m.t \in Transfers
      /\ transfers' = [u \in DOMAIN transfers \ {m.t} |-> transfers[u]]
      /\ refused' = refused \cup {m.t}
      /\ UNCHANGED <<source, snd, task, disk, outcome, spoiled, up, faults>>
  BY HeadFacts DEF OnCancel, senderVars
<1>2. /\ chan' \in [Sessions -> Seq(FileMessage)]
      /\ \A r \in Sessions : Len(chan'[r]) <= ChanCap
  BY TakeFacts DEF IInv
<1>3. \A u \in Transfers : Idx(u)' = Idx(u)
  BY <1>1 DEF Idx
<1>4. /\ DOMAIN transfers' = DOMAIN transfers \ {m.t}
      /\ \A u \in DOMAIN transfers' : transfers'[u] = transfers[u]
  BY <1>1
<1>5. ReceiverOK'
  BY <1>1, <1>2, <1>3, <1>4 DEF IInv, ReceiverOK
<1>6. SlotsOK'
  <2> SUFFICES ASSUME NEW u \in DOMAIN transfers', NEW i \in DOMAIN transfers'[u]
               PROVE  SlotOK(u, i)'
    BY DEF SlotsOK
  <2>1. SlotOK(u, i)
    BY <1>4 DEF IInv, SlotsOK
  <2> QED BY <1>1, <1>4, <2>1 DEF SlotOK, Partial
<1>7. m.t \notin DOMAIN transfers' /\ m.t \in refused'
  BY <1>1, <1>4
<1>8. \A i : ~HasSlot(m.t, i)'
  BY <1>7 DEF HasSlot
<1> QED BY <1>1, <1>4, <1>5, <1>6, <1>7, <1>8, TakeFrame

\* A file is judged and its slot goes; a file that does not match is removed.
LEMMA OnCompleteStep ==
  ASSUME IInv, NEW s \in Sessions, chan[s] # <<>>, Take(s), NEW m, m = Head(chan[s]),
         NEW flushed \in BOOLEAN, m.kind = "complete", OnComplete(m, flushed),
         Fault \/ UNCHANGED faults, UNCHANGED <<senderVars, up>>
  PROVE  IInv'
<1> DEFINE t == m.t
           i == m.i
<1>1. t \in Transfers /\ i \in Idx(t) /\ ~StartUnderWay(t)
  BY HeadFacts
<1>2. /\ chan' \in [Sessions -> Seq(FileMessage)]
      /\ \A r \in Sessions : Len(chan'[r]) <= ChanCap
  BY TakeFacts DEF IInv
<1>3. /\ ReceiverOK /\ UNCHANGED <<source, snd, task, up>> /\ \A u \in Transfers : Idx(u)' = Idx(u)
      /\ faults' \in 0 .. MaxFaults
  BY FaultFacts DEF IInv, senderVars, Idx
<1>4. PICK what \in Outcomes \ {None} :
        /\ outcome' = [outcome EXCEPT ![t][i] = what]
        /\ HasSlot(t, i) => what = IF flushed THEN Verdict(transfers[t][i], m) ELSE "unflushed"
  <2>1. CASE HasSlot(t, i)
    <3> DEFINE w == IF flushed THEN Verdict(transfers[t][i], m) ELSE "unflushed"
    <3>1. w \in Outcomes \ {None}
      BY DEF Verdict, None, Outcomes
    <3>2. outcome' = [outcome EXCEPT ![t][i] = w]
      BY <2>1 DEF OnComplete, Log
    <3> QED BY <2>1, <3>1, <3>2
  <2>2. CASE ~HasSlot(t, i)
    <3>1. outcome' = [outcome EXCEPT ![t][i] = "unknown"]
      BY <2>2 DEF OnComplete, Log
    <3>2. "unknown" \in Outcomes \ {None}
      BY DEF None, Outcomes
    <3> QED BY <2>2, <3>1, <3>2
  <2> QED BY <2>1, <2>2
<1>5. /\ DOMAIN outcome' = Transfers /\ outcome'[t][i] = what /\ what # None
      /\ \A u \in Transfers : outcome'[u] \in [DOMAIN snd[u].entries -> Outcomes]
      /\ \A u \in Transfers : \A j \in Idx(u) : outcome[u][j] # None => outcome'[u][j] # None
  <2>1. /\ DOMAIN outcome = Transfers
        /\ \A u \in Transfers : outcome[u] \in [DOMAIN snd[u].entries -> Outcomes]
    BY <1>3 DEF ReceiverOK
  <2>2. i \in DOMAIN snd[t].entries
    BY <1>1 DEF Idx
  <2>3. /\ outcome'[t] = [outcome[t] EXCEPT ![i] = what] /\ DOMAIN outcome' = Transfers
        /\ \A u \in Transfers \ {t} : outcome'[u] = outcome[u]
    BY <1>1, <1>4, <2>1
  <2> HIDE DEF t, i
  <2>4. /\ outcome'[t] \in [DOMAIN snd[t].entries -> Outcomes] /\ outcome'[t][i] = what
        /\ \A j \in DOMAIN snd[t].entries : j # i => outcome'[t][j] = outcome[t][j]
    BY <1>1, <1>4, <2>1, <2>2, <2>3
  <2>5. \A u \in Transfers : \A j \in Idx(u) : outcome[u][j] # None => outcome'[u][j] # None
    BY <1>4, <2>3, <2>4 DEF Idx
  <2> QED BY <1>4, <2>1, <2>3, <2>4, <2>5
<1>6. CASE ~HasSlot(t, i)
  <2>1. UNCHANGED <<transfers, disk, refused, spoiled>>
    BY <1>6 DEF OnComplete
  <2>2. ReceiverOK'
    BY <1>2, <1>3, <1>5, <2>1 DEF ReceiverOK
  <2>3. SlotsOK'
    <3> SUFFICES ASSUME NEW u \in DOMAIN transfers, NEW j \in DOMAIN transfers[u]
                 PROVE  SlotOK(u, j)'
      BY <2>1 DEF SlotsOK
    <3>1. SlotOK(u, j)
      BY DEF IInv, SlotsOK
    <3> QED BY <1>3, <2>1, <3>1 DEF SlotOK, Partial
  <2>4. \A j \in Idx(t) : /\ HasSlot(t, j)' <=> HasSlot(t, j)
                          /\ Base(t, j)' = Base(t, j) /\ Base(t, j) \in Nat
    BY <1>1, <1>3, <2>1 DEF HasSlot, Base, ReceiverOK, FileSlot
  <2>5. \A j \in Idx(t) : HasSlot(t, j)' => HasSlot(t, j) /\ Base(t, j)' = Base(t, j) + 0
    BY <2>4
  <2> QED BY <1>1, <1>3, <1>5, <2>1, <2>2, <2>3, <2>4, <2>5, TakeFrame
<1>7. CASE HasSlot(t, i)
  <2>1. t \in DOMAIN transfers /\ i \in DOMAIN transfers[t]
    BY <1>7 DEF HasSlot
  <2>2. PICK sl \in FileSlot : sl = transfers[t][i]
    BY <1>3, <2>1 DEF ReceiverOK
  <2>3. /\ transfers' = [transfers EXCEPT ![t] = [j \in DOMAIN transfers[t] \ {i} |-> transfers[t][j]]]
        /\ disk' = IF what = "mismatch" THEN [disk EXCEPT ![sl.dest] = Absent] ELSE disk
        /\ UNCHANGED <<refused, spoiled>>
    BY <1>4, <1>7, <2>2 DEF OnComplete
  <2>4. /\ DOMAIN transfers' = DOMAIN transfers
        /\ transfers'[t] = [j \in DOMAIN transfers[t] \ {i} |-> transfers[t][j]]
        /\ \A u \in DOMAIN transfers \ {t} : transfers'[u] = transfers[u]
    BY <2>1, <2>3
  <2>5. \A u \in DOMAIN transfers' : \A j \in DOMAIN transfers'[u] :
          /\ u \in DOMAIN transfers /\ j \in DOMAIN transfers[u]
          /\ transfers'[u][j] = transfers[u][j] /\ ~(u = t /\ j = i)
    BY <2>1, <2>4
  <2>6. \A j : HasSlot(t, j)' <=> HasSlot(t, j) /\ j # i
    BY <2>1, <2>4 DEF HasSlot
  <2>7. \A j \in Idx(t) : HasSlot(t, j)' => Base(t, j)' = Base(t, j) /\ Base(t, j) \in Nat
    BY <1>3, <2>5, <2>6 DEF Base, HasSlot, ReceiverOK, FileSlot
  <2>8. disk' \in [Destinations -> Seq(Units) \cup {Absent}]
    BY <1>3, <2>2, <2>3 DEF ReceiverOK, FileSlot
  <2>9. ReceiverOK'
    <3>1. \A u \in DOMAIN transfers' :
            /\ DOMAIN transfers'[u] \subseteq Idx(u)'
            /\ \A j \in DOMAIN transfers'[u] : transfers'[u][j] \in FileSlot
      BY <1>3, <1>5, <2>4, <2>5 DEF ReceiverOK
    <3>2. DOMAIN transfers' \subseteq Transfers
      BY <1>3, <2>4 DEF ReceiverOK
    <3> QED BY <1>2, <1>3, <1>5, <2>3, <2>8, <3>1, <3>2 DEF ReceiverOK
  <2>10. SlotsOK'
    <3> SUFFICES ASSUME NEW u \in DOMAIN transfers', NEW j \in DOMAIN transfers'[u]
                 PROVE  SlotOK(u, j)'
      BY DEF SlotsOK
    <3>1. /\ u \in DOMAIN transfers /\ j \in DOMAIN transfers[u]
          /\ transfers'[u][j] = transfers[u][j] /\ ~(u = t /\ j = i)
      BY <2>5
    <3>2. SlotOK(u, j)
      BY <3>1 DEF IInv, SlotsOK
    <3>3. PICK s2 \in FileSlot : s2 = transfers[u][j]
      BY <1>3, <3>1 DEF ReceiverOK
    <3>4. /\ s2.dest = Clean(snd[u].entries[j].path)
          /\ s2.received = Len(s2.hash)
          /\ <<u, j>> \notin spoiled =>
               /\ disk[s2.dest] = Partial(s2)
               /\ \A v \in DOMAIN transfers : \A l \in DOMAIN transfers[v] :
                    transfers[v][l].dest = s2.dest => v = u /\ l = j
      BY <3>2, <3>3 DEF SlotOK
    <3>5. ASSUME <<u, j>> \notin spoiled
          PROVE  disk'[s2.dest] = Partial(s2)
      <4>1. sl.dest # s2.dest
        BY <2>1, <2>2, <3>1, <3>4, <3>5
      <4>2. disk'[s2.dest] = disk[s2.dest]
        BY <1>3, <2>3, <4>1 DEF ReceiverOK
      <4> QED BY <3>4, <3>5, <4>2
    <3>6. <<u, j>> \notin spoiled =>
            \A v \in DOMAIN transfers' : \A l \in DOMAIN transfers'[v] :
                    transfers'[v][l].dest = s2.dest => v = u /\ l = j
      BY <2>5, <3>4
    <3>7. transfers'[u][j] = s2 /\ Partial(transfers[u][j])' = Partial(s2)
      BY <3>1, <3>3 DEF Partial
    <3>8. spoiled' = spoiled /\ snd' = snd
      BY <1>3, <2>3
    <3> QED BY <3>4, <3>5, <3>6, <3>7, <3>8 DEF SlotOK
  <2>11. \A j \in Idx(t) : HasSlot(t, j)' => HasSlot(t, j) /\ Base(t, j)' = Base(t, j) + 0
    BY <2>6, <2>7
  <2>12. \A u \in Transfers \ {t} : /\ u \in DOMAIN transfers' <=> u \in DOMAIN transfers
                                    /\ u \in DOMAIN transfers => transfers'[u] = transfers[u]
    BY <2>4
  <2>13. refused \subseteq refused' /\ (t \in DOMAIN transfers' => t \in DOMAIN transfers)
    BY <2>3, <2>4
  <2> QED BY <1>1, <1>3, <1>5, <2>6, <2>9, <2>10, <2>11, <2>12, <2>13, TakeFrame
<1> QED BY <1>6, <1>7

\* A chunk goes where the one before it ended; a write that fails is counted and hashed
\* all the same.
LEMMA OnChunkStep ==
  ASSUME IInv, NEW s \in Sessions, chan[s] # <<>>, Take(s), NEW m, m = Head(chan[s]),
         NEW written \in BOOLEAN, m.kind = "chunk", OnChunk(m, written),
         Fault \/ UNCHANGED faults, UNCHANGED <<senderVars, up>>
  PROVE  IInv'
<1> DEFINE t == m.t
           i == m.i
<1>1. /\ t \in Transfers /\ i \in Idx(t) /\ ~StartUnderWay(t) /\ SessionOf[t] = s
      /\ chan[s][1] = m /\ m \in FileMessage /\ 1 \in 1 .. Len(chan[s])
  BY HeadFacts
<1>2. /\ chan' \in [Sessions -> Seq(FileMessage)]
      /\ \A r \in Sessions : Len(chan'[r]) <= ChanCap
  BY TakeFacts DEF IInv
<1>3. /\ ReceiverOK /\ UNCHANGED <<source, snd, task, up, outcome, refused>>
      /\ \A u \in Transfers : Idx(u)' = Idx(u)
      /\ faults' \in 0 .. MaxFaults
  BY FaultFacts DEF IInv, senderVars, Idx, OnChunk
<1>4. CASE ~HasSlot(t, i)
  <2>1. UNCHANGED <<transfers, disk, spoiled>>
    BY <1>4 DEF OnChunk
  <2>2. ReceiverOK'
    BY <1>2, <1>3, <2>1 DEF ReceiverOK
  <2>3. SlotsOK'
    <3> SUFFICES ASSUME NEW u \in DOMAIN transfers, NEW j \in DOMAIN transfers[u]
                 PROVE  SlotOK(u, j)'
      BY <2>1 DEF SlotsOK
    <3>1. SlotOK(u, j)
      BY DEF IInv, SlotsOK
    <3> QED BY <1>3, <2>1, <3>1 DEF SlotOK, Partial
  <2>4. \A j \in Idx(t) : /\ HasSlot(t, j)' <=> HasSlot(t, j)
                          /\ Base(t, j)' = Base(t, j) /\ Base(t, j) \in Nat
    BY <1>1, <1>3, <2>1 DEF HasSlot, Base, ReceiverOK, FileSlot
  <2>5. \A j \in Idx(t) : HasSlot(t, j)' =>
          HasSlot(t, j) /\ Base(t, j)' = Base(t, j) + (IF m.i = j THEN Len(m.data) ELSE 0)
    BY <1>4, <2>4
  <2> QED BY <1>1, <1>3, <2>1, <2>2, <2>3, <2>4, <2>5, TakeFrame
<1>5. CASE HasSlot(t, i)
  <2>1. t \in DOMAIN transfers /\ i \in DOMAIN transfers[t]
    BY <1>5 DEF HasSlot
  <2>2. PICK sl \in FileSlot : sl = transfers[t][i]
    BY <1>3, <2>1 DEF ReceiverOK
  <2>3. PICK data \in Seq(Units), off \in Nat : data = m.data /\ off = m.off
    BY <1>1, MessageFacts
  <2>4. /\ sl.dest = Clean(snd[t].entries[i].path) /\ sl.received = Len(sl.hash)
        /\ <<t, i>> \notin spoiled =>
             /\ disk[sl.dest] = Partial(sl)
             /\ \A u \in DOMAIN transfers : \A j \in DOMAIN transfers[u] :
                  transfers[u][j].dest = sl.dest => u = t /\ j = i
    <3>1. SlotOK(t, i)
      BY <2>1 DEF IInv, SlotsOK
    <3>2. sl.dest = Clean(snd[t].entries[i].path) /\ sl.received = Len(sl.hash)
      BY <2>2, <3>1 DEF SlotOK
    <3>3. <<t, i>> \notin spoiled =>
            /\ disk[sl.dest] = Partial(sl)
            /\ \A u \in DOMAIN transfers : \A j \in DOMAIN transfers[u] :
                 transfers[u][j].dest = sl.dest => u = t /\ j = i
      BY <2>2, <3>1 DEF SlotOK
    <3> QED BY <3>2, <3>3
  <2>5. off = sl.received
    <3>1. IsChunk(t, i, 1) /\ ChunkOff(t, 1) = off /\ Base(t, i) = sl.received /\ Awaited(t, i)
      BY <1>1, <1>5, <2>2, <2>3 DEF IsChunk, ChunkOff, Base, Awaited
    <3>2. ChunkFollows(t, i, 1) /\ \A j \in 1 .. 1 - 1 : FALSE
      BY <1>1 DEF IInv, ChunksFollow
    <3> QED BY <3>1, <3>2 DEF ChunkFollows
  <2>6. PICK next \in FileSlot :
          /\ next.dest = sl.dest /\ next.hash = sl.hash \o data
          /\ next.received = sl.received + Len(data) /\ next.expected = sl.expected
          /\ transfers' = [transfers EXCEPT ![t] = [transfers[t] EXCEPT ![i] = next]]
    <3>1. PICK h \in Seq(Units), n \in Nat : h = sl.hash \o data /\ n = sl.received + Len(data)
      <4>1. sl.hash \o data \in Seq(Units) /\ sl.received + Len(data) \in Nat
        BY ConcatProperties DEF FileSlot
      <4> QED BY <4>1
    <3>2. [sl EXCEPT !.hash = h, !.received = n] \in FileSlot
      BY DEF FileSlot
    <3>3. PICK x \in FileSlot : x = [sl EXCEPT !.hash = h, !.received = n]
      BY <3>2
    <3>4. x.dest = sl.dest /\ x.hash = h /\ x.received = n /\ x.expected = sl.expected
      BY <3>3 DEF FileSlot
    <3>5. transfers' = [transfers EXCEPT ![t] = [transfers[t] EXCEPT ![i] = x]]
      BY <1>5, <2>1, <2>2, <2>3, <3>1, <3>3 DEF OnChunk
    <3> QED BY <3>1, <3>3, <3>4, <3>5
  <2>7. /\ DOMAIN transfers' = DOMAIN transfers
        /\ \A u \in DOMAIN transfers \ {t} : transfers'[u] = transfers[u]
        /\ DOMAIN transfers'[t] = DOMAIN transfers[t] /\ transfers'[t][i] = next
        /\ \A j \in DOMAIN transfers[t] \ {i} : transfers'[t][j] = transfers[t][j]
    BY <2>1, <2>6
  <2>8. \A u \in DOMAIN transfers : /\ DOMAIN transfers'[u] = DOMAIN transfers[u]
                                    /\ \A j \in DOMAIN transfers[u] :
                                         ~(u = t /\ j = i) => transfers'[u][j] = transfers[u][j]
    BY <2>7
  <2>9. \A u \in DOMAIN transfers : \A j \in DOMAIN transfers[u] :
          transfers'[u][j].dest = transfers[u][j].dest /\ transfers'[u][j] \in FileSlot
    BY <1>3, <2>2, <2>6, <2>7, <2>8 DEF ReceiverOK
  <2>10. /\ disk' = IF written THEN [disk EXCEPT ![sl.dest] = Written(disk[sl.dest], off, data)] ELSE disk
         /\ spoiled' = IF written THEN spoiled ELSE spoiled \cup {<<t, i>>}
    BY <1>5, <2>2, <2>3 DEF OnChunk
  <2>11. disk' \in [Destinations -> Seq(Units) \cup {Absent}]
    <3>1. disk \in [Destinations -> Seq(Units) \cup {Absent}] /\ sl.dest \in Destinations
      BY <1>3 DEF ReceiverOK, FileSlot
    <3>2. Written(disk[sl.dest], off, data) \in Seq(Units) \cup {Absent}
      BY <3>1, WrittenFacts
    <3> QED BY <2>10, <3>1, <3>2
  <2>12. ReceiverOK'
    BY <1>2, <1>3, <2>7, <2>8, <2>9, <2>11 DEF ReceiverOK
  <2>13. SlotsOK'
    <3> SUFFICES ASSUME NEW u \in DOMAIN transfers, NEW j \in DOMAIN transfers[u]
                 PROVE  SlotOK(u, j)'
      BY <2>7, <2>8 DEF SlotsOK
    <3>1. PICK s2 \in FileSlot : s2 = transfers[u][j]
      BY <1>3 DEF ReceiverOK
    <3>2. /\ s2.dest = Clean(snd[u].entries[j].path)
          /\ s2.received = Len(s2.hash)
          /\ <<u, j>> \notin spoiled =>
               /\ disk[s2.dest] = Partial(s2)
               /\ \A v \in DOMAIN transfers : \A l \in DOMAIN transfers[v] :
                    transfers[v][l].dest = s2.dest => v = u /\ l = j
      BY <3>1 DEF IInv, SlotsOK, SlotOK
    <3>3. <<u, j>> \notin spoiled' => <<u, j>> \notin spoiled
      BY <2>10
    <3>4. <<u, j>> \notin spoiled' =>
            \A v \in DOMAIN transfers' : \A l \in DOMAIN transfers'[v] :
              transfers'[v][l].dest = s2.dest => v = u /\ l = j
      BY <2>7, <2>8, <2>9, <3>2, <3>3
    <3>5. CASE u = t /\ j = i
      <4>1. s2 = sl /\ transfers'[u][j] = next
        BY <2>2, <2>7, <3>1, <3>5
      <4>2. Written(Partial(sl), off, data) = Partial(next) /\ next.received = Len(next.hash)
        BY <2>4, <2>5, <2>6, WrittenPartial
      <4>3. <<u, j>> \notin spoiled' => disk'[next.dest] = Partial(next)
        <5>1. <<u, j>> \notin spoiled' => written /\ disk[sl.dest] = Partial(sl)
          BY <2>10, <3>2, <3>3, <3>5, <4>1
        <5>2. sl.dest \in DOMAIN disk
          BY <1>3 DEF ReceiverOK, FileSlot
        <5> QED BY <2>6, <2>10, <4>2, <5>1, <5>2
      <4>4. Partial(transfers[u][j])' = Partial(next)
        BY <4>1 DEF Partial
      <4>5. next.dest = s2.dest /\ snd' = snd
        BY <1>3, <2>6, <4>1
      <4>6. /\ next.dest = Clean(snd'[u].entries[j].path)
            /\ <<u, j>> \notin spoiled' =>
                 \A v \in DOMAIN transfers' : \A l \in DOMAIN transfers'[v] :
                   transfers'[v][l].dest = next.dest => v = u /\ l = j
        BY <3>2, <3>4, <4>5
      <4> QED BY <4>1, <4>2, <4>3, <4>4, <4>6 DEF SlotOK
    <3>6. CASE ~(u = t /\ j = i)
      <4>1. transfers'[u][j] = s2
        BY <2>8, <3>1, <3>6
      <4>2. ASSUME <<u, j>> \notin spoiled PROVE disk'[s2.dest] = Partial(s2)
        <5>1. sl.dest # s2.dest
          BY <2>1, <2>2, <3>2, <3>6, <4>2
        <5>2. disk'[s2.dest] = disk[s2.dest]
          BY <1>3, <2>10, <5>1 DEF ReceiverOK
        <5> QED BY <3>2, <4>2, <5>2
      <4>3. Partial(transfers[u][j])' = Partial(s2)
        BY <4>1 DEF Partial
      <4> QED BY <1>3, <3>2, <3>3, <3>4, <4>1, <4>2, <4>3 DEF SlotOK
    <3> QED BY <3>5, <3>6
  <2>14. \A j : HasSlot(t, j)' <=> HasSlot(t, j)
    BY <2>1, <2>7 DEF HasSlot
  <2>15. \A j \in Idx(t) : HasSlot(t, j)' =>
          HasSlot(t, j) /\ Base(t, j)' = Base(t, j) + (IF m.i = j THEN Len(m.data) ELSE 0)
    <3> SUFFICES ASSUME NEW j \in Idx(t), HasSlot(t, j)
                 PROVE  Base(t, j)' = Base(t, j) + (IF m.i = j THEN Len(m.data) ELSE 0)
      BY <2>14
    <3>1. Base(t, j) = transfers[t][j].received /\ Base(t, j)' = transfers'[t][j].received
      BY <2>14 DEF Base
    <3>2. CASE j = i
      BY ZenonT(90), <2>2, <2>3, <2>6, <2>7, <3>1, <3>2
    <3>3. CASE j # i
      <4>1. Base(t, j)' = Base(t, j) /\ Base(t, j) \in Nat
        BY <1>3, <2>7, <3>1, <3>3 DEF HasSlot, ReceiverOK, FileSlot
      <4> QED BY <3>3, <4>1
    <3> QED BY <3>2, <3>3
  <2>16. \A u \in Transfers \ {t} : /\ u \in DOMAIN transfers' <=> u \in DOMAIN transfers
                                    /\ u \in DOMAIN transfers => transfers'[u] = transfers[u]
    BY <2>7
  <2> QED BY <1>1, <1>3, <2>7, <2>12, <2>13, <2>14, <2>15, <2>16, TakeFrame
<1> QED BY <1>4, <1>5

\* A transfer's files are created one by one; when a path is refused or a file cannot be
\* created, none of them gets a slot.
LEMMA OnStartStep ==
  ASSUME IInv, NEW s \in Sessions, chan[s] # <<>>, Take(s), NEW m, m = Head(chan[s]),
         m.kind = "start", NEW k \in 0 .. Len(m.files), OnStart(m, k),
         Fault \/ UNCHANGED faults, UNCHANGED <<senderVars, up>>
  PROVE  IInv'
<1> DEFINE t == m.t
           es == m.files
           wanted == {i \in 1 .. k : ~es[i].dir}
           dest(i) == Clean(es[i].path)
           opened == {dest(i) : i \in wanted}
           shared == {i \in wanted : Writers(dest(i)) # {} \/ \E j \in wanted : j # i /\ dest(j) = dest(i)}
<1>1. /\ t \in Transfers /\ es = snd[t].entries /\ t \notin DOMAIN transfers
  BY HeadFacts
<1>2. /\ chan' \in [Sessions -> Seq(FileMessage)]
      /\ \A r \in Sessions : Len(chan'[r]) <= ChanCap
  BY TakeFacts DEF IInv
<1>3. /\ ReceiverOK /\ SenderOK /\ UNCHANGED <<source, snd, task, up, outcome>>
      /\ \A u \in Transfers : Idx(u)' = Idx(u)
      /\ faults' \in 0 .. MaxFaults
  BY FaultFacts DEF IInv, senderVars, Idx, OnStart
<1>4. es \in Seq(FileEntry) /\ Len(es) \in Nat /\ \A i \in 1 .. Len(es) : es[i] \in FileEntry
  <2>1. snd[t].entries \in Seq(FileEntry)
    BY <1>1, <1>3 DEF SenderOK
  <2>2. es \in Seq(FileEntry)
    BY <1>1, <2>1
  <2> HIDE DEF es
  <2> QED BY <2>2
<1>5. /\ wanted \subseteq Idx(t) /\ (k = Len(es) => wanted = Idx(t))
      /\ \A i \in wanted : es[i].size \in Nat /\ dest(i) \in Destinations
  <2>1. Idx(t) = {i \in 1 .. Len(es) : ~es[i].dir}
    BY <1>1, <1>4 DEF Idx
  <2>2. wanted \subseteq Idx(t) /\ (k = Len(es) => wanted = Idx(t))
    BY <1>4, <2>1
  <2>3. ASSUME NEW i \in wanted PROVE es[i].size \in Nat /\ dest(i) \in Destinations
    <3>1. es[i] \in FileEntry /\ i \in Idx(t)
      BY <1>4, <2>1, <2>2
    <3>2. es[i].path \in DOMAIN Content[t]
      BY <1>1, <1>3, <3>1 DEF SenderOK
    <3>3. es[i].path \in Files
      BY <1>1, <3>2 DEF Files
    <3> QED BY <3>1, <3>3 DEF Destinations, FileEntry
  <2> QED BY <2>2, <2>3
<1>6. PICK last \in [opened -> wanted] :
        /\ \A p \in opened : dest(last[p]) = p
        /\ disk' = [p \in DOMAIN disk |-> IF p \in opened THEN [u \in 1 .. es[last[p]].size |-> Zero]
                                          ELSE disk[p]]
  BY DEF OnStart
<1>7. /\ spoiled' = spoiled \cup {<<t, i>> : i \in shared} \cup UNION {Writers(p) : p \in opened}
      /\ IF k = Len(es)
         THEN /\ transfers' = [u \in DOMAIN transfers \cup {t} |->
                                 IF u # t THEN transfers[u]
                                 ELSE [i \in wanted |-> [dest |-> dest(i), hash |-> <<>>,
                                         expected |-> es[i].size, received |-> 0, open |-> TRUE]]]
              /\ refused' = refused
         ELSE refused' = refused \cup {t} /\ transfers' = transfers
  BY DEF OnStart
<1>8. disk' \in [Destinations -> Seq(Units) \cup {Absent}]
  <2>1. disk \in [Destinations -> Seq(Units) \cup {Absent}]
    BY <1>3 DEF ReceiverOK
  <2>2. ASSUME NEW p \in opened PROVE [u \in 1 .. es[last[p]].size |-> Zero] \in Seq(Units)
    <3>1. es[last[p]].size \in Nat
      BY <1>5, <1>6
    <3> HIDE DEF es
    <3>2. Zero \in Units
      BY DEF Units
    <3> QED BY <3>1, <3>2
  <2> HIDE DEF opened, es
  <2> QED BY <1>6, <2>1, <2>2
\* The slots that were there: those whose file is not opened again keep it.
<1>9. \A u \in DOMAIN transfers : \A j \in DOMAIN transfers[u] :
        <<u, j>> \notin spoiled' => <<u, j>> \notin spoiled /\ transfers[u][j].dest \notin opened
  <2> HIDE DEF opened, shared
  <2>1. \A u \in DOMAIN transfers : \A j \in DOMAIN transfers[u] :
          <<u, j>> \in Writers(transfers[u][j].dest)
    BY DEF Writers
  <2> QED BY <1>7, <2>1
<1>10. ASSUME NEW u \in DOMAIN transfers, NEW j \in DOMAIN transfers[u], <<u, j>> \notin spoiled'
       PROVE  disk'[transfers[u][j].dest] = Partial(transfers[u][j])
  <2>1. disk[transfers[u][j].dest] = Partial(transfers[u][j])
    BY <1>9, <1>10 DEF IInv, SlotsOK, SlotOK
  <2>2. transfers[u][j].dest \in DOMAIN disk
    BY <1>3 DEF ReceiverOK, FileSlot
  <2>3. transfers[u][j].dest \notin opened
    BY <1>9, <1>10
  <2> HIDE DEF opened
  <2> QED BY <1>6, <2>1, <2>2, <2>3
<1>11. \A u \in Transfers : \A i \in Idx(u) : outcome[u][i] # None => outcome'[u][i] # None
  BY <1>3
<1>12. CASE k # Len(es)
  <2>1. refused' = refused \cup {t} /\ transfers' = transfers
    BY <1>7, <1>12
  <2>2. ReceiverOK'
    BY <1>1, <1>2, <1>3, <1>8, <2>1 DEF ReceiverOK
  <2>3. SlotsOK'
    <3> SUFFICES ASSUME NEW u \in DOMAIN transfers, NEW j \in DOMAIN transfers[u]
                 PROVE  SlotOK(u, j)'
      BY <2>1 DEF SlotsOK
    <3>1. SlotOK(u, j)
      BY DEF IInv, SlotsOK
    <3>2. Partial(transfers[u][j])' = Partial(transfers[u][j])
      BY <2>1 DEF Partial
    <3>3. <<u, j>> \notin spoiled' =>
            <<u, j>> \notin spoiled /\ disk'[transfers[u][j].dest] = Partial(transfers[u][j])
      BY <1>9, <1>10
    <3> QED BY <1>3, <2>1, <3>1, <3>2, <3>3 DEF SlotOK
  <2>4. \A i : ~HasSlot(t, i)' /\ ~HasSlot(t, i)
    BY <1>1, <2>1 DEF HasSlot
  <2>5. /\ refused \subseteq refused' /\ t \in refused' /\ t \notin DOMAIN transfers'
        /\ \A u \in Transfers \ {t} : /\ u \in DOMAIN transfers' <=> u \in DOMAIN transfers
                                      /\ u \in DOMAIN transfers => transfers'[u] = transfers[u]
    BY <1>1, <2>1
  <2> QED BY <1>3, <1>11, <2>2, <2>3, <2>4, <2>5, TakeFrame
<1>13. CASE k = Len(es)
  <2>1. /\ refused' = refused
        /\ DOMAIN transfers' = DOMAIN transfers \cup {t}
        /\ \A u \in DOMAIN transfers : u # t /\ transfers'[u] = transfers[u]
        /\ DOMAIN transfers'[t] = Idx(t)
        /\ \A i \in Idx(t) : transfers'[t][i] = [dest |-> dest(i), hash |-> <<>>,
                                                 expected |-> es[i].size, received |-> 0, open |-> TRUE]
    <3>1. /\ refused' = refused
          /\ transfers' = [u \in DOMAIN transfers \cup {t} |->
                             IF u # t THEN transfers[u]
                             ELSE [i \in Idx(t) |-> [dest |-> dest(i), hash |-> <<>>,
                                     expected |-> es[i].size, received |-> 0, open |-> TRUE]]]
      BY <1>5, <1>7, <1>13
    <3> HIDE DEF dest, es
    <3> QED BY <1>1, <3>1
  <2>2. wanted = Idx(t)
    BY <1>5, <1>13
  <2>3. ASSUME NEW i \in Idx(t) PROVE transfers'[t][i] \in FileSlot
    <3>1. PICK d \in Destinations, n \in Nat : d = dest(i) /\ n = es[i].size
      BY <1>5, <2>2
    <3>2. transfers'[t][i] = [dest |-> d, hash |-> <<>>, expected |-> n, received |-> 0, open |-> TRUE]
      BY <2>1, <3>1
    <3>3. [dest |-> d, hash |-> <<>>, expected |-> n, received |-> 0, open |-> TRUE] \in FileSlot
      BY <3>1 DEF FileSlot
    <3> HIDE DEF t
    <3> QED BY <3>2, <3>3
  <2>10. \A i \in Idx(t) : transfers'[t][i].dest = dest(i) /\ transfers'[t][i].received = 0
    <3> SUFFICES ASSUME NEW i \in Idx(t)
                 PROVE  transfers'[t][i].dest = dest(i) /\ transfers'[t][i].received = 0
      OBVIOUS
    <3>1. PICK d \in Destinations, n \in Nat : d = dest(i) /\ n = es[i].size
      BY <1>5, <2>2
    <3>2. transfers'[t][i] = [dest |-> d, hash |-> <<>>, expected |-> n, received |-> 0, open |-> TRUE]
      BY <2>1, <3>1
    <3>3. transfers'[t][i].dest = d /\ transfers'[t][i].received = 0
      BY <3>2
    <3> QED BY <3>1, <3>3
  <2>4. ReceiverOK'
    <3>1. \A u \in DOMAIN transfers' : /\ DOMAIN transfers'[u] \subseteq Idx(u)
                                       /\ \A i \in DOMAIN transfers'[u] : transfers'[u][i] \in FileSlot
      BY <1>3, <2>1, <2>3 DEF ReceiverOK
    <3>2. DOMAIN transfers' \subseteq Transfers
      BY <1>1, <1>3, <2>1 DEF ReceiverOK
    <3> QED BY <1>2, <1>3, <1>8, <2>1, <3>1, <3>2 DEF ReceiverOK
  <2>5. ASSUME NEW u \in DOMAIN transfers, NEW j \in DOMAIN transfers[u]
        PROVE  SlotOK(u, j)'
    <3>1. SlotOK(u, j)
      BY DEF IInv, SlotsOK
    <3>2. transfers'[u] = transfers[u] /\ Partial(transfers[u][j])' = Partial(transfers[u][j])
      BY <2>1 DEF Partial
    <3>3. ASSUME <<u, j>> \notin spoiled', NEW v \in DOMAIN transfers', NEW l \in DOMAIN transfers'[v],
                 transfers'[v][l].dest = transfers[u][j].dest
          PROVE  v = u /\ l = j
      <4>1. CASE v = t
        <5>0. l \in Idx(t) /\ transfers'[v][l].dest = dest(l)
          BY <2>1, <2>10, <3>3, <4>1
        <5>1. transfers'[v][l].dest \in opened
          BY <2>2, <5>0
        <5> QED BY <1>9, <3>3, <5>1
      <4>2. CASE v # t
        BY ZenonT(90), <1>9, <2>1, <3>1, <3>3, <4>2 DEF SlotOK
      <4> QED BY <4>1, <4>2
    <3>4. <<u, j>> \notin spoiled' => disk'[transfers[u][j].dest] = Partial(transfers[u][j])
      BY <1>10
    <3> QED BY <1>3, <3>1, <3>2, <3>3, <3>4 DEF SlotOK
  <2>6. ASSUME NEW i \in Idx(t)
        PROVE  SlotOK(t, i)'
    <3>1. PICK d \in Destinations, n \in Nat : d = dest(i) /\ n = es[i].size
      BY <1>5, <2>2
    <3>2. PICK sl : sl = [dest |-> d, hash |-> <<>>, expected |-> n, received |-> 0, open |-> TRUE]
      OBVIOUS
    <3>3. transfers'[t][i] = sl /\ sl.dest = d /\ sl.received = 0 /\ sl.expected = n /\ sl.hash = <<>>
      BY <2>1, <3>1, <3>2
    <3>4. Partial(transfers[t][i])' = [u \in 1 .. n |-> Zero]
      <4>1. Partial(transfers[t][i])' = [u \in 1 .. n |-> IF u <= 0 THEN sl.hash[u] ELSE Zero]
        BY <3>3 DEF Partial
      <4> QED BY <4>1
    <3>5. ASSUME <<t, i>> \notin spoiled'
          PROVE  Writers(d) = {} /\ \A j \in wanted : dest(j) = d => j = i
      <4>1. i \notin shared
        BY <1>7, <3>5
      <4> QED BY <2>2, <3>1, <4>1
    <3>6. ASSUME <<t, i>> \notin spoiled'
          PROVE  disk'[d] = [u \in 1 .. n |-> Zero]
      <4>1. d \in opened /\ d \in DOMAIN disk
        BY <1>3, <2>2, <3>1 DEF ReceiverOK
      <4>2. last[d] = i
        BY <1>6, <3>5, <3>6, <4>1
      <4> QED BY <1>6, <3>1, <4>1, <4>2
    <3>7. ASSUME <<t, i>> \notin spoiled', NEW v \in DOMAIN transfers', NEW l \in DOMAIN transfers'[v],
                 transfers'[v][l].dest = d
          PROVE  v = t /\ l = i
      <4>1. CASE v = t
        <5>1. l \in Idx(t) /\ dest(l) = d
          BY <2>1, <2>10, <3>7, <4>1
        <5> QED BY <2>2, <3>5, <3>7, <4>1, <5>1
      <4>2. CASE v # t
        <5>1. v \in DOMAIN transfers /\ l \in DOMAIN transfers[v] /\ transfers[v][l].dest = d
          BY <2>1, <3>7, <4>2
        <5>2. <<v, l>> \in Writers(d)
          BY <5>1 DEF Writers
        <5> QED BY <3>5, <3>7, <5>2
      <4> QED BY <4>1, <4>2
    <3>8. sl.dest = Clean(snd'[t].entries[i].path) /\ sl.received = Len(sl.hash)
      BY <1>1, <1>3, <3>1, <3>3
    <3> QED BY <3>3, <3>4, <3>6, <3>7, <3>8 DEF SlotOK
  <2>7. SlotsOK'
    BY <2>1, <2>5, <2>6 DEF SlotsOK
  <2>8. \A i \in Idx(t) : HasSlot(t, i)' /\ ~HasSlot(t, i) /\ Base(t, i)' = 0
    BY <1>1, <2>1, <2>10 DEF HasSlot, Base
  <2>9. \A u \in Transfers \ {t} : /\ u \in DOMAIN transfers' <=> u \in DOMAIN transfers
                                   /\ u \in DOMAIN transfers => transfers'[u] = transfers[u]
    BY <2>1
  <2> QED BY SMTT(30), <1>3, <1>11, <2>1, <2>4, <2>7, <2>8, <2>9, TakeFrame
<1> QED BY <1>12, <1>13

-----------------------------------------------------------------------------
(* The invariant holds, and what follows from it.                            *)

\* The inductive invariant is kept by every step.
LEMMA IInvStep == IInv /\ [Next]_vars => IInv'
<1> SUFFICES ASSUME IInv, [Next]_vars PROVE IInv'
  OBVIOUS
<1>1. ASSUME NEW t \in Transfers, SendFiles(t) PROVE IInv'
  BY <1>1, SendFilesStep
<1>2. ASSUME NEW t \in Transfers, SendStart(t) PROVE IInv'
  BY <1>2, SendStartStep
<1>3. ASSUME NEW t \in Transfers, SendFails(t) PROVE IInv'
  BY <1>3, SendFailsStep
<1>4. ASSUME NEW t \in Transfers, Spawn(t) PROVE IInv'
  BY <1>4, SpawnStep
<1>5. ASSUME NEW t \in Transfers, Finish(t) PROVE IInv'
  BY <1>5, FinishStep
<1>6. ASSUME NEW t \in Transfers, SendCancel(t) PROVE IInv'
  BY <1>6, SendCancelStep
<1>7. ASSUME NEW t \in Transfers, NEW i \in Idx(t), SendChunk(t, i) PROVE IInv'
  BY <1>7, SendChunkStep
<1>8. ASSUME NEW t \in Transfers, NEW i \in Idx(t), SendComplete(t, i) PROVE IInv'
  BY <1>8, SendCompleteStep
<1>9. ASSUME NEW t \in Transfers, NEW i \in Idx(t), TaskFails(t, i) PROVE IInv'
  BY <1>9, TaskFailsStep
<1>10. ASSUME NEW t \in Transfers, NEW p \in DOMAIN source[t], Edit(t, p) PROVE IInv'
  BY <1>10, EditStep
<1>11. ASSUME NEW s \in Sessions, OnMessage(s) PROVE IInv'
  <2>1. PICK m : m = Head(chan[s])
    OBVIOUS
  <2>2. chan[s] # <<>> /\ Take(s) /\ UNCHANGED <<senderVars, up>>
    BY <1>11 DEF OnMessage
  <2>3. CASE m.kind = "start" /\ UNCHANGED faults /\ \E k \in 0 .. Len(m.files) : OnStart(m, k)
    BY <2>1, <2>2, <2>3, OnStartStep
  <2>4. CASE m.kind = "start" /\ Fault /\ \E k \in 0 .. Len(m.files) - 1 : OnStart(m, k)
    <3>1. m.files \in Seq(FileEntry)
      BY <2>1, <2>2, <2>4, HeadFacts, MessageFacts
    <3>2. 0 .. Len(m.files) - 1 \subseteq 0 .. Len(m.files)
      BY <3>1
    <3> QED BY <2>1, <2>2, <2>4, <3>2, OnStartStep
  <2>5. CASE m.kind = "chunk" /\ OnChunk(m, TRUE) /\ UNCHANGED faults
    BY <2>1, <2>2, <2>5, OnChunkStep
  <2>6. CASE m.kind = "chunk" /\ Fault /\ OnChunk(m, FALSE)
    BY <2>1, <2>2, <2>6, OnChunkStep
  <2>7. CASE m.kind = "complete" /\ OnComplete(m, TRUE) /\ UNCHANGED faults
    BY <2>1, <2>2, <2>7, OnCompleteStep
  <2>9. CASE m.kind = "complete" /\ Fault /\ OnComplete(m, FALSE)
    BY <2>1, <2>2, <2>9, OnCompleteStep
  <2>8. CASE m.kind = "cancel" /\ OnCancel(m) /\ UNCHANGED faults
    BY <2>1, <2>2, <2>8, OnCancelStep
  <2> QED BY <1>11, <2>1, <2>3, <2>4, <2>5, <2>6, <2>7, <2>8, <2>9 DEF OnMessage
<1>12. ASSUME NEW s \in Sessions, CutSession(s) PROVE IInv'
  BY <1>12, CutSessionStep
<1>14. ASSUME NEW s \in Sessions, CloseFile(s) PROVE IInv'
  BY <1>14, CloseFileStep
<1>13. CASE UNCHANGED vars
  <2>1. /\ UNCHANGED <<source, snd, task>> /\ UNCHANGED <<chan, up>>
        /\ UNCHANGED <<transfers, disk, outcome, refused, spoiled>> /\ UNCHANGED faults
    BY <1>13 DEF vars, senderVars, recvVars
  <2>2. SenderOK'
    BY <2>1 DEF IInv, SenderOK, Idx
  <2>3. ReceiverOK'
    BY <2>1 DEF IInv, ReceiverOK, Idx
  <2>4. PhaseOK'
    BY <2>1 DEF IInv, PhaseOK, TransferOK, Idx, Running
  <2> QED BY <2>1, <2>2, <2>3, <2>4, QuietFrame
<1> QED BY <1>1, <1>2, <1>3, <1>4, <1>5, <1>6, <1>7, <1>8, <1>9, <1>10, <1>11, <1>12, <1>13, <1>14 DEF Next

\* The inductive invariant holds of the specification.
THEOREM IInvHolds == Spec => []IInv
<1>1. IInv /\ [Next]_vars => IInv'
  BY IInvStep
<1> QED BY InitHolds, <1>1, PTL DEF Spec

\* A session's channel keeps its capacity, a slot its shape, and no chunk or completion
\* meets a receiver that does not know its file (sender.rs send_paths and
\* send_one_file, receiver.rs write_chunk), for any number of transfers and sessions.
THEOREM InvHolds == Spec => []Inv
<1>1. IInv => Inv
  <2> SUFFICES ASSUME IInv PROVE Inv
    OBVIOUS
  <2>1. SenderOK /\ ReceiverOK /\ MessagesFindTheirSlot
    BY DEF IInv
  <2>2. ASSUME NEW t \in Transfers
        PROVE  /\ snd[t].phase \in {"idle", "start", "spawn", "wait", "done", "failed"}
               /\ \A i \in DOMAIN task[t] : task[t][i].st \in {None, "run", "last", "sent", "failed"}
               /\ \A i \in DOMAIN outcome[t] :
                    outcome[t][i] \in {None, "unknown", "unflushed", "incomplete", "mismatch", "verified"}
    <3>1. snd[t].phase \in {"idle", "start", "spawn", "wait", "done", "failed"}
      BY <2>1 DEF SenderOK, Phases
    <3>2. \A i \in DOMAIN task[t] : task[t][i].st \in {None, "run", "last", "sent", "failed"}
      BY <2>1 DEF SenderOK, TaskStates
    <3>3. \A i \in DOMAIN outcome[t] :
            outcome[t][i] \in {None, "unknown", "unflushed", "incomplete", "mismatch", "verified"}
      BY <2>1 DEF ReceiverOK, Outcomes
    <3> QED BY <3>1, <3>2, <3>3
  <2>3. \A s \in Sessions : chan[s] \in Seq(FileMessage) /\ Len(chan[s]) <= ChanCap
    BY <2>1 DEF ReceiverOK
  <2> QED BY <2>1, <2>2, <2>3 DEF Inv, TypeOK, ReceiverOK
<1> QED BY IInvHolds, <1>1, PTL

\* When send_paths returns success, every file it did not give up is judged by the
\* receiver or its TransferComplete is under way, as long as the session is up: with
\* all permits back no task runs, and none is still to be spawned (sender.rs
\* send_paths).
THEOREM DoneIsAccountedHolds == Spec => []DoneIsAccounted
<1>1. IInv => DoneIsAccounted
  <2> SUFFICES ASSUME IInv, NEW t \in Transfers, snd[t].phase = "done", SessionOf[t] \in up,
                      NEW i \in Idx(t), task[t][i].st # "failed", outcome[t][i] = None
               PROVE  \E m \in ToSet(chan[SessionOf[t]]) : m.kind = "complete" /\ m.t = t /\ m.i = i
    BY DEF DoneIsAccounted
  <2>1. i \in DOMAIN task[t] /\ i \in 1 .. Len(snd[t].entries) /\ i < snd[t].next
    <3>1. snd[t].entries \in Seq(FileEntry) /\ snd[t].next \in Nat
      BY DEF IInv, SenderOK
    <3>2. i \in DOMAIN snd[t].entries /\ i \in DOMAIN task[t]
      BY DEF IInv, SenderOK, Idx
    <3>3. snd[t].next > Len(snd[t].entries)
      BY DEF IInv, PhaseOK, TransferOK
    <3>4. i \in 1 .. Len(snd[t].entries) /\ Len(snd[t].entries) \in Nat
      BY <3>1, <3>2
    <3> QED BY <3>1, <3>2, <3>3, <3>4
  <2>2. task[t][i].st \in TaskStates /\ task[t][i].st # None /\ i \notin Running(t)
    <3>1. task[t][i].st \in TaskStates
      BY <2>1 DEF IInv, SenderOK
    <3>2. task[t][i].st # None /\ Running(t) = {}
      BY <2>1 DEF IInv, PhaseOK, TransferOK, Started
    <3> QED BY <3>1, <3>2
  <2>3. task[t][i].st = "sent"
    BY <2>1, <2>2 DEF TaskStates, Running
  <2>4. PICK k \in 1 .. Len(chan[SessionOf[t]]) :
          LET m == chan[SessionOf[t]][k] IN m.kind = "complete" /\ m.t = t /\ m.i = i
    BY <2>3 DEF IInv, SentOK
  <2>5. chan[SessionOf[t]][k] \in ToSet(chan[SessionOf[t]])
    <3>1. chan[SessionOf[t]] \in Seq(FileMessage)
      BY SessionAssumption DEF IInv, ReceiverOK
    <3> QED BY <3>1 DEF ToSet
  <2> QED BY <2>4, <2>5
<1> QED BY IInvHolds, <1>1, PTL

\* A file judged verified holds on the receiver's disk what its sender's task read,
\* however files and transfers are interleaved and edited, unless a write to it failed
\* or another transfer opened it (receiver.rs write_chunk and complete): its slot
\* counted at least the size announced, so that what the slot hashed is the whole file.
THEOREM VerifiedOnDiskHolds == Spec => VerifiedOnDisk
<1> DEFINE Verified(t, i) == outcome[t][i] = None /\ outcome'[t][i] = "verified"
                             /\ <<t, i>> \notin spoiled
           OnDisk(t, i) == disk[Clean(snd[t].entries[i].path)] = task[t][i].hash
           Step == \A t \in Transfers : \A i \in DOMAIN outcome[t] : Verified(t, i) => OnDisk(t, i)
<1>1. ASSUME IInv, [Next]_vars PROVE [Step]_vars
  <2> SUFFICES ASSUME NEW t \in Transfers, NEW i \in DOMAIN outcome[t], Verified(t, i)
               PROVE  OnDisk(t, i)
    OBVIOUS
  <2>1. outcome'[t] # outcome[t]
    BY DEF None
  <2>2. ~UNCHANGED outcome
    BY <2>1
  <2>3. ASSUME NEW u \in Transfers, SendFiles(u) PROVE FALSE
    <3>1. CASE u = t
      <4>1. snd[t].phase = "idle" /\ outcome' = [outcome EXCEPT ![t] = [l \in DOMAIN Entries(t) |-> None]]
        BY <2>3, <3>1 DEF SendFiles
      <4>2. snd[t].entries = <<>> /\ DOMAIN outcome[t] = DOMAIN snd[t].entries
        BY <1>1, <4>1 DEF IInv, PhaseOK, TransferOK, ReceiverOK
      <4> QED BY <4>2
    <3>2. CASE u # t
      BY <1>1, <2>1, <2>3, <3>2 DEF SendFiles, IInv, ReceiverOK
    <3> QED BY <3>1, <3>2
  <2>4. PICK s \in Sessions : OnMessage(s)
    BY ZenonT(90), <1>1, <2>2, <2>3 DEF Next, vars, recvVars, SendStart, SendFails, Spawn, Finish, SendCancel,
       SendChunk, SendComplete, TaskFails, Edit, CutSession, CloseFile
  <2>5. PICK m : m = Head(chan[s])
    OBVIOUS
  <2>6. PICK flushed \in BOOLEAN :
          chan[s] # <<>> /\ Take(s) /\ m.kind = "complete" /\ OnComplete(m, flushed)
    BY <2>2, <2>4, <2>5 DEF OnMessage, OnStart, OnChunk, OnCancel
  <2>7. /\ m.t \in Transfers /\ SessionOf[m.t] = s /\ chan[s][1] = m
        /\ 1 \in 1 .. Len(chan[s]) /\ m.i \in Idx(m.t)
    BY <1>1, <2>5, <2>6, HeadFacts
  <2>8. m.hash = task[m.t][m.i].hash
    <3>1. MessageOK(s, 1)
      BY <1>1, <2>7 DEF IInv, MessagesOK
    <3> QED BY <2>6, <2>7, <3>1 DEF MessageOK
  <2>9. HasSlot(m.t, m.i) /\ Verdict(transfers[m.t][m.i], m) = "verified" /\ m.t = t /\ m.i = i
    <3>1. DOMAIN outcome = Transfers /\ "unknown" # "verified"
      BY <1>1 DEF IInv, ReceiverOK
    <3>2. CASE ~HasSlot(m.t, m.i)
      <4>1. outcome' = [outcome EXCEPT ![m.t][m.i] = "unknown"]
        BY <2>6, <3>2 DEF OnComplete, Log
      <4> QED BY <2>1, <2>7, <3>1, <4>1 DEF None
    <3>3. CASE HasSlot(m.t, m.i)
      <4>1. PICK w : w = IF flushed THEN Verdict(transfers[m.t][m.i], m) ELSE "unflushed"
        OBVIOUS
      <4>2. outcome' = [outcome EXCEPT ![m.t][m.i] = w]
        BY <2>6, <3>3, <4>1 DEF OnComplete, Log
      <4>3. m.t = t /\ m.i = i /\ w = "verified"
        BY <2>1, <2>7, <3>1, <4>2 DEF None
      <4> QED BY <3>3, <4>1, <4>3
    <3> QED BY <3>2, <3>3
  <2>10. PICK sl \in FileSlot : sl = transfers[t][i]
    BY <1>1, <2>9 DEF IInv, ReceiverOK, HasSlot
  <2>11. ~(sl.received < sl.expected) /\ sl.hash = m.hash
    BY <2>9, <2>10 DEF Verdict
  <2>12. /\ sl.dest = Clean(snd[t].entries[i].path) /\ sl.received = Len(sl.hash)
         /\ disk[sl.dest] = Partial(sl)
    BY <1>1, <2>9, <2>10 DEF IInv, SlotsOK, SlotOK, HasSlot
  <2>13. Partial(sl) = sl.hash
    <3>1. /\ sl.hash \in Seq(Units) /\ sl.received \in Nat /\ sl.expected \in Nat
      BY DEF FileSlot
    <3>2. Partial(sl) = [n \in 1 .. Len(sl.hash) |-> sl.hash[n]]
      <4>1. \A n \in 1 .. Len(sl.hash) : n <= sl.received
        BY <2>12, <3>1
      <4>2. sl.received > sl.expected \/ sl.received = sl.expected
        BY <2>11, <3>1
      <4> QED BY <2>12, <4>1, <4>2 DEF Partial
    <3> QED BY <3>1, <3>2
  <2> QED BY <2>8, <2>9, <2>11, <2>12, <2>13
<1>2. IInv /\ [Next]_vars => [Step]_vars
  BY <1>1
<1> QED BY IInvHolds, <1>2, PTL DEF Spec, VerifiedOnDisk

=============================================================================
