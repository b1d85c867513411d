---------------------------- MODULE SessionTasks ----------------------------
(***************************************************************************)
(* A session between two devices, after its handshake: the tasks that      *)
(* Session::start spawns on each side (okvm-net, session.rs), the inbound  *)
(* tasks and the on_close callback of the SessionRef made from it          *)
(* (app/src-tauri, state.rs), and the TCP connection between them.         *)
(*                                                                         *)
(* The application gives typed messages to one bounded channel per kind;   *)
(* an encoder task per channel moves them to the bounded write channel,    *)
(* which the writer task empties into TCP.  The reader task of the other   *)
(* side gives each message to the bounded channel of its kind, which an    *)
(* inbound task consumes.  Encryption and encoding are left out: a frame   *)
(* arrives intact, or it is one the reader gives up at.  Messages of a     *)
(* kind are numbered.                                                      *)
(* The control channel carries heartbeats and GoodBye only: nothing sends  *)
(* a Ping.                                                                 *)
(***************************************************************************)
EXTENDS Naturals, Sequences, FiniteSets

CONSTANTS Data,      \* the typed channels other than the control channel
          Ctrl,      \* the control channel
          MaxMsg,    \* bound: messages sent on a channel, 1 or more
          AppCap,    \* APP_CHANNEL_CAPACITY
          WriteCap,  \* WRITE_CHANNEL_CAPACITY
          WireCap    \* bound: frames TCP holds in one direction

ASSUME CtrlAssumption == Ctrl \notin Data
ASSUME CapAssumption == {MaxMsg, AppCap, WriteCap, WireCap} \subseteq Nat \ {0}

Side == 1 .. 2
Other(s) == 3 - s
Kind == Data \cup {Ctrl}

VARIABLES sent,        \* side -> kind -> messages the application sent
          appq,        \* side -> kind -> application channel to the encoder
          senders,     \* sides whose SessionRef, with its senders, is alive
          refused,     \* side -> kinds whose encoder the write channel refused
          writeq,      \* side -> the write channel
          writer,      \* sides whose writer task runs
          hb_sender,   \* sides whose heartbeat task runs
          shutdowner,  \* side -> state of its shutdown task
          wire,        \* side -> frames it wrote and the other has not read
          broken,      \* the connection has failed
          exited,      \* sides whose process has ended
          garbled,     \* history: sides whose reader gave up at a frame
          reader,      \* sides whose reader task runs
          inbox,       \* side -> kind -> channel to the inbound task
          inbound,     \* side -> kinds whose inbound task runs
          got,         \* side -> kind -> last message its inbound task took
          hb_watchdog, \* sides whose watchdog task runs
          late         \* sides that lacked a heartbeat for heartbeat_timeout

sendVars == <<sent, appq, senders, refused>>
writeVars == <<writeq, writer, hb_sender, shutdowner>>
readVars == <<reader, inbox>>
taskVars == <<inbound, got>>
netVars == <<broken, exited, garbled>>
watchVars == <<hb_watchdog, late>>
vars == <<sendVars, writeVars, wire, netVars, readVars, taskVars, watchVars>>

Heartbeat == [kind |-> Ctrl, n |-> 0]
GoodBye == [kind |-> Ctrl, n |-> 1]
Frame == [kind : Data, n : 1 .. MaxMsg] \cup {Heartbeat, GoodBye}

Init == /\ sent = [s \in Side |-> [k \in Data |-> 0]]
        /\ appq = [s \in Side |-> [k \in Data |-> <<>>]]
        /\ senders = Side
        /\ refused = [s \in Side |-> {}]
        /\ writeq = [s \in Side |-> <<>>]
        /\ writer = Side /\ hb_sender = Side
        /\ shutdowner = [s \in Side |-> "waiting"]
        /\ wire = [s \in Side |-> <<>>] /\ broken = FALSE /\ exited = {} /\ garbled = {}
        /\ reader = Side
        /\ inbox = [s \in Side |-> [k \in Kind |-> <<>>]]
        /\ inbound = [s \in Side |-> Kind]
        /\ got = [s \in Side |-> [k \in Data |-> 0]]
        /\ hb_watchdog = Side /\ late = {}

-----------------------------------------------------------------------------
(* Sending: the application, the encoders, the writer.                     *)

Send(s, k) ==
  /\ s \in senders /\ k \notin refused[s]
  /\ sent[s][k] < MaxMsg /\ Len(appq[s][k]) < AppCap
  /\ sent' = [sent EXCEPT ![s][k] = @ + 1]
  /\ appq' = [appq EXCEPT ![s][k] = Append(@, sent'[s][k])]
  /\ UNCHANGED <<senders, refused, writeVars, wire, netVars, readVars, taskVars, watchVars>>

\* Mutant: a full write channel makes the encoder drop the message.
EncodeOrDrop(s, k) ==
  /\ appq[s][k] # <<>>
  /\ s \in writer
  /\ writeq' = IF Len(writeq[s]) = WriteCap THEN writeq
               ELSE [writeq EXCEPT ![s] = Append(@, [kind |-> k, n |-> Head(appq[s][k])])]
  /\ appq' = [appq EXCEPT ![s][k] = Tail(@)]
  /\ UNCHANGED <<sent, senders, refused, writer, hb_sender, shutdowner, wire, netVars,
                 readVars, taskVars, watchVars>>

\* A full write channel makes the encoder wait.
Encode(s, k) ==
  /\ appq[s][k] # <<>>
  /\ s \in writer /\ Len(writeq[s]) < WriteCap
  /\ writeq' = [writeq EXCEPT ![s] = Append(@, [kind |-> k, n |-> Head(appq[s][k])])]
  /\ appq' = [appq EXCEPT ![s][k] = Tail(@)]
  /\ UNCHANGED <<sent, senders, refused, writer, hb_sender, shutdowner, wire, netVars,
                 readVars, taskVars, watchVars>>

\* A write channel whose writer has ended refuses: the encoder ends, and what is
\* queued is lost.
EncodeRefused(s, k) ==
  /\ appq[s][k] # <<>> /\ s \notin writer
  /\ refused' = [refused EXCEPT ![s] = @ \cup {k}]
  /\ appq' = [appq EXCEPT ![s][k] = <<>>]
  /\ UNCHANGED <<sent, senders, writeVars, wire, netVars, readVars, taskVars, watchVars>>

\* The encoders hold clones of write_tx while there are senders left, or messages;
\* for the control channel a sender is also held, for Pong, by its inbound task.
EncodersDone(s) ==
  /\ s \notin senders /\ Ctrl \notin inbound[s]
  /\ \A k \in Data : appq[s][k] = <<>>

\* Mutant: the writer stops at the GoodBye.
WriteUpToGoodBye(s) ==
  /\ s \in writer /\ writeq[s] # <<>> /\ ~broken /\ Len(wire[s]) < WireCap
  /\ wire' = [wire EXCEPT ![s] = Append(@, Head(writeq[s]))]
  /\ writeq' = [writeq EXCEPT ![s] = IF Head(@) = GoodBye THEN <<>> ELSE Tail(@)]
  /\ writer' = IF Head(writeq[s]) = GoodBye THEN writer \ {s} ELSE writer
  /\ UNCHANGED <<hb_sender, shutdowner, sendVars, netVars, readVars, taskVars, watchVars>>

Write(s) ==
  /\ s \in writer /\ writeq[s] # <<>> /\ ~broken /\ Len(wire[s]) < WireCap
  /\ wire' = [wire EXCEPT ![s] = Append(@, Head(writeq[s]))]
  /\ writeq' = [writeq EXCEPT ![s] = Tail(@)]
  /\ UNCHANGED <<writer, hb_sender, shutdowner, sendVars, netVars, readVars, taskVars,
                 watchVars>>

\* The stream is dropped, and closed, with the later of its halves.
Closed(s) == s \notin reader \cup writer

\* A write fails, or every clone of write_tx is gone.
WriterEnds(s) ==
  /\ s \in writer
  /\ IF writeq[s] # <<>> THEN broken \/ Closed(Other(s))
     ELSE EncodersDone(s) /\ s \notin hb_sender /\ shutdowner[s] = "ended"
  /\ writer' = writer \ {s}
  /\ writeq' = [writeq EXCEPT ![s] = <<>>]
  /\ UNCHANGED <<hb_sender, shutdowner, sendVars, wire, netVars, readVars, taskVars,
                 watchVars>>

\* The heartbeat task, until the write channel refuses.
Beat(s) ==
  /\ s \in hb_sender
  /\ \/ /\ s \in writer /\ Len(writeq[s]) < WriteCap
        /\ writeq' = [writeq EXCEPT ![s] = Append(@, Heartbeat)]
        /\ UNCHANGED hb_sender
     \/ /\ s \notin writer
        /\ hb_sender' = hb_sender \ {s}
        /\ UNCHANGED writeq
  /\ UNCHANGED <<writer, shutdowner, sendVars, wire, netVars, readVars, taskVars, watchVars>>

\* Mutant: the shutdown task ends without its GoodBye.
LeaveSilently(s) ==
  /\ shutdowner[s] = "signalled"
  /\ shutdowner' = [shutdowner EXCEPT ![s] = "ended"]
  /\ UNCHANGED <<writeq, writer, hb_sender, sendVars, wire, netVars, readVars, taskVars,
                 watchVars>>

\* The shutdown task, once signalled.
SayGoodBye(s) ==
  /\ shutdowner[s] = "signalled"
  /\ \/ /\ s \in writer /\ Len(writeq[s]) < WriteCap
        /\ writeq' = [writeq EXCEPT ![s] = Append(@, GoodBye)]
     \/ s \notin writer /\ UNCHANGED writeq
  /\ shutdowner' = [shutdowner EXCEPT ![s] = "ended"]
  /\ UNCHANGED <<writer, hb_sender, sendVars, wire, netVars, readVars, taskVars, watchVars>>

-----------------------------------------------------------------------------
(* Receiving: the reader, the watchdog, the inbound tasks.                 *)

\* The reader waits for room in the channel of the frame, which holds up the
\* other kinds too; a channel whose inbound task is gone loses the frame.
Read(s) ==
  /\ s \in reader /\ ~broken /\ wire[Other(s)] # <<>>
  /\ LET f == Head(wire[Other(s)]) IN
     /\ f.kind \in inbound[s] => Len(inbox[s][f.kind]) < AppCap
     /\ inbox' = IF f.kind \in inbound[s]
                 THEN [inbox EXCEPT ![s][f.kind] = Append(@, f.n)] ELSE inbox
     /\ late' = IF f = Heartbeat THEN late \ {s} ELSE late
  /\ wire' = [wire EXCEPT ![Other(s)] = Tail(@)]
  /\ UNCHANGED <<sendVars, writeVars, netVars, reader, taskVars, hb_watchdog>>

\* EOF after the last frame, or a read error.
ReaderEnds(s) ==
  /\ s \in reader
  /\ broken \/ (wire[Other(s)] = <<>> /\ Other(s) \notin writer)
  /\ reader' = reader \ {s}
  /\ UNCHANGED <<sendVars, writeVars, wire, netVars, inbox, taskVars, watchVars>>

\* What was read is no frame, or one that the channel does not open: the reader
\* returns.  Its half of the stream goes with it, the other half stays.
ReaderGivesUp(s) ==
  /\ s \in reader /\ wire[Other(s)] # <<>>
  /\ reader' = reader \ {s}
  /\ garbled' = garbled \cup {s}
  /\ UNCHANGED <<sendVars, writeVars, wire, broken, exited, inbox, taskVars, watchVars>>

\* No heartbeat was read for heartbeat_timeout.
BeatsLate(s) ==
  /\ s \in hb_watchdog \ late
  /\ late' = late \cup {s}
  /\ UNCHANGED <<sendVars, writeVars, wire, netVars, readVars, taskVars, hb_watchdog>>

\* The watchdog logs, and ends.
Watchdog(s) ==
  /\ s \in hb_watchdog \cap late
  /\ hb_watchdog' = hb_watchdog \ {s}
  /\ UNCHANGED <<sendVars, writeVars, wire, netVars, readVars, taskVars, late>>

\* Signalling shutdown, or dropping the SessionRef that holds its sender.
Signalled(s) ==
  shutdowner' = [shutdowner EXCEPT ![s] = IF @ = "waiting" THEN "signalled" ELSE @]

\* on_close, the first time: the SessionRef leaves the registry and is dropped.
OnClose(s) ==
  /\ senders' = senders \ {s}
  /\ Signalled(s)

Consume(s, k) ==
  /\ k \in inbound[s] /\ inbox[s][k] # <<>>
  /\ got' = [got EXCEPT ![s][k] = Head(inbox[s][k])]
  /\ inbox' = [inbox EXCEPT ![s][k] = Tail(@)]
  /\ UNCHANGED <<sendVars, writeVars, wire, netVars, reader, inbound, watchVars>>

ConsumeHeartbeat(s) ==
  /\ Ctrl \in inbound[s] /\ inbox[s][Ctrl] # <<>> /\ Head(inbox[s][Ctrl]) = Heartbeat.n
  /\ inbox' = [inbox EXCEPT ![s][Ctrl] = Tail(@)]
  /\ UNCHANGED <<sendVars, writeVars, wire, netVars, reader, taskVars, watchVars>>

\* The inbound task of k ends: its channel is dropped, on_close is called.
InboundEnds(s, k) ==
  /\ inbound' = [inbound EXCEPT ![s] = @ \ {k}]
  /\ inbox' = [inbox EXCEPT ![s][k] = <<>>]
  /\ OnClose(s)
  /\ UNCHANGED <<sent, appq, refused, writeq, writer, hb_sender, wire, netVars, reader, got,
                 watchVars>>

ConsumeGoodBye(s) ==
  /\ Ctrl \in inbound[s] /\ inbox[s][Ctrl] # <<>> /\ Head(inbox[s][Ctrl]) = GoodBye.n
  /\ InboundEnds(s, Ctrl)

InboundDrained(s, k) ==
  /\ k \in inbound[s] /\ inbox[s][k] = <<>> /\ s \notin reader
  /\ InboundEnds(s, k)

-----------------------------------------------------------------------------
(* The application and the network.                                        *)

\* SessionRef::shutdown, by unpair_peer or stop_services: on_close will not run.
Shutdown(s) ==
  /\ s \in senders
  /\ senders' = senders \ {s}
  /\ inbound' = [inbound EXCEPT ![s] = {}]
  /\ inbox' = [inbox EXCEPT ![s] = [k \in Kind |-> <<>>]]
  /\ Signalled(s)
  /\ UNCHANGED <<sent, appq, refused, writeq, writer, hb_sender, wire, netVars, reader, got,
                 watchVars>>

\* The connection fails, with an error for whoever reads or writes.
Break ==
  /\ ~broken
  /\ broken' = TRUE
  /\ wire' = [s \in Side |-> <<>>]
  /\ UNCHANGED <<exited, garbled, sendVars, writeVars, readVars, taskVars, watchVars>>

\* The process of a side ends, with all its tasks; what TCP has taken is still
\* delivered to the other side.
Exit(s) ==
  /\ s \notin exited
  /\ exited' = exited \cup {s}
  /\ senders' = senders \ {s}
  /\ appq' = [appq EXCEPT ![s] = [k \in Data |-> <<>>]]
  /\ writer' = writer \ {s} /\ hb_sender' = hb_sender \ {s}
  /\ writeq' = [writeq EXCEPT ![s] = <<>>]
  /\ shutdowner' = [shutdowner EXCEPT ![s] = "ended"]
  /\ wire' = [wire EXCEPT ![Other(s)] = <<>>]
  /\ reader' = reader \ {s} /\ hb_watchdog' = hb_watchdog \ {s}
  /\ inbound' = [inbound EXCEPT ![s] = {}]
  /\ inbox' = [inbox EXCEPT ![s] = [k \in Kind |-> <<>>]]
  /\ UNCHANGED <<sent, refused, broken, garbled, got, late>>

-----------------------------------------------------------------------------

Outgoing(s) == \/ \E k \in Data : Encode(s, k) \/ EncodeRefused(s, k)
               \/ WriterEnds(s) \/ Write(s) \/ SayGoodBye(s)

Incoming(s) == \/ Read(s) \/ ReaderEnds(s) \/ ReaderGivesUp(s)
               \/ \E k \in Data : Consume(s, k)
               \/ ConsumeHeartbeat(s) \/ ConsumeGoodBye(s)
               \/ \E k \in Kind : InboundDrained(s, k)

Timers(s) == Beat(s) \/ BeatsLate(s) \/ Watchdog(s)

Next == \/ \E s \in Side : \/ Outgoing(s) \/ Incoming(s) \/ Timers(s)
                           \/ \E k \in Data : Send(s, k)
                           \/ Shutdown(s) \/ Exit(s)
        \/ Break

Spec == Init /\ [][Next]_vars

\* Every task that can run does.  A write channel has a queue of waiters, served
\* in turn: a sender that waits for room gets it (SF).
Fairness ==
  \A s \in Side :
     /\ \A k \in Data : /\ SF_vars(Encode(s, k)) /\ WF_vars(EncodeRefused(s, k))
                        /\ WF_vars(Consume(s, k))
     /\ \A k \in Kind : WF_vars(InboundDrained(s, k))
     /\ SF_vars(SayGoodBye(s))
     /\ WF_vars(Write(s)) /\ WF_vars(WriterEnds(s))
     /\ WF_vars(Read(s)) /\ WF_vars(ReaderEnds(s))
     /\ WF_vars(ConsumeHeartbeat(s)) /\ WF_vars(ConsumeGoodBye(s))
     /\ WF_vars(Watchdog(s))

FairSpec == Spec /\ Fairness

\* As long as it runs, a heartbeat task gets its turn too.
BeatingSpec == FairSpec /\ \A s \in Side : SF_vars(Beat(s))

-----------------------------------------------------------------------------

Within(q, cap) == Len(q) <= cap

\* The four kinds of queues keep to their capacities.
TypeOK ==
  /\ sent \in [Side -> [Data -> 0 .. MaxMsg]]
  /\ appq \in [Side -> [Data -> Seq(1 .. MaxMsg)]]
  /\ \A s \in Side : \A k \in Data : Within(appq[s][k], AppCap)
  /\ senders \subseteq Side /\ writer \subseteq Side /\ hb_sender \subseteq Side
  /\ refused \in [Side -> SUBSET Data]
  /\ writeq \in [Side -> Seq(Frame)]
  /\ \A s \in Side : Within(writeq[s], WriteCap)
  /\ shutdowner \in [Side -> {"waiting", "signalled", "ended"}]
  /\ wire \in [Side -> Seq(Frame)]
  /\ \A s \in Side : Within(wire[s], WireCap)
  /\ broken \in BOOLEAN
  /\ exited \subseteq Side /\ garbled \subseteq Side /\ reader \subseteq Side
  /\ inbox \in [Side -> [Kind -> Seq(0 .. MaxMsg)]]
  /\ \A s \in Side : \A k \in Kind : Within(inbox[s][k], AppCap)
  /\ inbound \in [Side -> SUBSET Kind]
  /\ got \in [Side -> [Data -> 0 .. MaxMsg]]
  /\ hb_watchdog \subseteq Side /\ late \subseteq Side

Link == Side \X Data

\* Every typed channel delivers in order, without duplicates or gaps, however the
\* tasks of the two sides and the end of the session interleave.
Channels == INSTANCE OrderedChannel
              WITH sent <- [l \in Link |-> sent[l[1]][l[2]]],
                   got <- [l \in Link |-> got[Other(l[1])][l[2]]]

ChannelSpec == Channels!Spec

Over(s) == s \notin senders

\* What was sent arrives, unless the connection fails, one of the processes ends, the
\* receiver meets a frame it cannot take or it shut its session down, which leaves only
\* its reader running: also what was still queued when the sender left, although its
\* GoodBye may overtake it.
SentArrives ==
  \A s \in Side, k \in Data, n \in 1 .. MaxMsg :
     sent[s][k] >= n ~> \/ got[Other(s)][k] >= n
                        \/ broken \/ exited # {} \/ Other(s) \in garbled
                        \/ k \notin inbound[Other(s)] /\ Other(s) \in reader

\* A side does not keep a session the other side has left, by a shutdown, by the
\* end of one of its tasks, a reader that gave up among them, or by the end of its
\* process.
CloseIsMutual == \A s \in Side : Over(s) ~> Over(Other(s))

\* A session that the heartbeat watchdog gave up is over.
LateIsCut == \A s \in Side : s \notin hb_watchdog ~> Over(s)

\* The GoodBye of a session that is over on both sides ends the writer.
GoodByeEndsWriter ==
  \A s \in Side : shutdowner[s] = "ended" /\ senders = {} ~> s \notin writer
=============================================================================
