------------------------------ MODULE UdpAudio ------------------------------
(***************************************************************************)
(* The sound of one session between a server, which accepted it, and a     *)
(* client: the choice between TCP and UDP (listener.rs, connector.rs,      *)
(* start_with_udp of session.rs), the two tasks of a UdpAudioPipe          *)
(* (udp_audio.rs), and the inbound audio task of the application.  The     *)
(* client knows the server's address from the handshake; the server learns *)
(* the client's from the first frame it opens.                             *)
(*                                                                         *)
(* A message of a side is its number: 1 is the StreamStart of its share,   *)
(* the others are frames.  A frame on the network is delivered once or     *)
(* lost, in any order (UdpFec); what is not sent for an I/O error is lost  *)
(* too.  TCP delivers in order (SessionTasks).                             *)
(***************************************************************************)
EXTENDS Naturals, Sequences, FiniteSets

CONSTANTS MaxMsg,  \* bound: messages that a side shares
          AppCap   \* APP_CHANNEL_CAPACITY

ASSUME BoundAssumption == MaxMsg \in Nat /\ AppCap \in Nat \ {0}

Side == {"server", "client"}
Other(s) == IF s = "server" THEN "client" ELSE "server"
Msg == 1 .. MaxMsg
None == "none"

VARIABLES route,       \* side -> how its session carries audio
          held,        \* side -> its SessionRef is in the table of sessions
          made,        \* side -> messages shared so far
          audio_tx,    \* side -> channel from the fan-out to the sending task
          sender,      \* side -> state of the sender task
          frame_seq,   \* side -> next counter of the sender's AeadSession
          remote_addr, \* side -> where the pipe sends to
          sent,        \* frames given to the network: [from, seq, msg]
          opened,      \* those that were opened by their receiver
          lost,        \* those that never will be
          receiver,    \* side -> state of the receiver task
          inhand,      \* side -> message the receiver task waits to hand over
          audio_rx,    \* side -> channel to the inbound task
          inbound,     \* side -> the inbound task runs
          heard,       \* side -> messages given to the playback, in order
          unsent       \* history: side -> messages dropped for want of an address

senderVars == <<audio_tx, sender, frame_seq, unsent>>
netVars == <<sent, opened, lost>>
receiverVars == <<remote_addr, receiver, inhand>>
playVars == <<audio_rx, inbound, heard>>
audioVars == <<route, held, made, senderVars, netVars, receiverVars, playVars>>

\* The client uses UDP if the server announced a port and it has a socket itself.
RouteOf(bound) == [s \in Side |-> IF \A t \in {s, "server"} : bound[t] THEN "udp" ELSE "tcp"]

\* Each side binds a socket or fails to; Session::start or start_with_udp.
AudioInit ==
  /\ \E bound \in [Side -> BOOLEAN] : route = RouteOf(bound)
  /\ held = [s \in Side |-> TRUE] /\ made = [s \in Side |-> 0]
  /\ audio_tx = [s \in Side |-> <<>>]
  /\ sender = [s \in Side |-> IF route[s] = "tcp" THEN "off"
                              ELSE IF s = "client" THEN "made" ELSE "waits"]
  /\ frame_seq = [s \in Side |-> 0]
  /\ remote_addr = [s \in Side |-> IF s = "client" /\ route[s] = "udp" THEN "server" ELSE None]
  /\ sent = {} /\ opened = {} /\ lost = {}
  /\ receiver = [s \in Side |-> IF route[s] = "tcp" THEN "off" ELSE "recv"]
  /\ inhand = [s \in Side |-> 0] /\ audio_rx = [s \in Side |-> <<>>]
  /\ inbound = [s \in Side |-> TRUE] /\ heard = [s \in Side |-> <<>>]
  /\ unsent = [s \in Side |-> {}]

-----------------------------------------------------------------------------
\* The fan-out of start_audio_share: try_send, a full channel drops the message.
Share(s) ==
  /\ held[s] /\ made[s] < MaxMsg
  /\ made' = [made EXCEPT ![s] = @ + 1]
  /\ audio_tx' = IF Len(audio_tx[s]) < AppCap
                 THEN [audio_tx EXCEPT ![s] = Append(@, made'[s])] ELSE audio_tx
  /\ UNCHANGED <<route, held, sender, frame_seq, unsent, netVars, receiverVars, playVars>>

\* Mutant: a sender is only made when the task starts.
ReadyAtStart(s) == sender[s] = "made"

\* There is a sender, or an address to make one with.
Ready(s) == sender[s] = "made" \/ (sender[s] = "waits" /\ remote_addr[s] # None)

\* Mutant: the task waits for the address, with the message in hand.
WaitForPin(s) == FALSE /\ UNCHANGED <<sender, frame_seq, sent, unsent>>

\* With no address the message is taken and dropped.
DropUnpinned(s) ==
  /\ ~Ready(s)
  /\ unsent' = [unsent EXCEPT ![s] = @ \cup {Head(audio_tx[s])}]
  /\ UNCHANGED <<sender, frame_seq, sent>>

\* Mutant: a sender is made for each message.
SeqOfNew(s) == 0

\* The counter of the UdpFecSender in use: one made now counts from 0.
SeqOf(s) == IF sender[s] = "waits" THEN 0 ELSE frame_seq[s]

\* send_frame
SendSealed(s) ==
  /\ Ready(s)
  /\ sender' = [sender EXCEPT ![s] = "made"]
  /\ frame_seq' = [frame_seq EXCEPT ![s] = SeqOf(s) + 1]
  /\ sent' = sent \cup {[from |-> s, seq |-> SeqOf(s), msg |-> Head(audio_tx[s])]}
  /\ UNCHANGED unsent

\* One round of the sender task.
SenderTakes(s) ==
  /\ route[s] = "udp" /\ audio_tx[s] # <<>>
  /\ DropUnpinned(s) \/ SendSealed(s)
  /\ audio_tx' = [audio_tx EXCEPT ![s] = Tail(@)]
  /\ UNCHANGED <<route, held, made, opened, lost, receiverVars, playVars>>

\* Nobody holds audio_tx and it is empty.
SenderEnds(s) ==
  /\ ~held[s] /\ audio_tx[s] = <<>> /\ sender[s] \in {"waits", "made"}
  /\ sender' = [sender EXCEPT ![s] = "done"]
  /\ UNCHANGED <<route, held, made, audio_tx, frame_seq, unsent, netVars, receiverVars,
                 playVars>>

-----------------------------------------------------------------------------
InFlight(d) == d \in sent \ (opened \cup lost)

Lose(d) ==
  /\ InFlight(d)
  /\ lost' = lost \cup {d}
  /\ UNCHANGED <<route, held, made, senderVars, sent, opened, receiverVars, playVars>>

\* The AEAD session opens a counter once.
Opens(d) == \A e \in opened : <<e.from, e.seq>> # <<d.from, d.seq>>

\* The address of the first frame that opens is kept.
Pinned(s, src) == IF remote_addr[s] = None THEN src ELSE remote_addr[s]

\* recv_frame gives a frame; the server may learn the address from it.
Receive(s, d) ==
  /\ receiver[s] = "recv" /\ InFlight(d) /\ d.from = Other(s) /\ Opens(d)
  /\ opened' = opened \cup {d}
  /\ remote_addr' = [remote_addr EXCEPT ![s] = Pinned(s, d.from)]
  /\ receiver' = [receiver EXCEPT ![s] = "send"]
  /\ inhand' = [inhand EXCEPT ![s] = d.msg]
  /\ UNCHANGED <<route, held, made, senderVars, sent, lost, playVars>>

\* app_audio_recv_tx.send: it waits for room, and fails if the inbound task is gone.
HandOver(s) ==
  /\ receiver[s] = "send"
  /\ \/ /\ ~inbound[s]
        /\ receiver' = [receiver EXCEPT ![s] = "done"]
        /\ UNCHANGED audio_rx
     \/ /\ inbound[s] /\ Len(audio_rx[s]) < AppCap
        /\ receiver' = [receiver EXCEPT ![s] = "recv"]
        /\ audio_rx' = [audio_rx EXCEPT ![s] = Append(@, inhand[s])]
  /\ UNCHANGED <<route, held, made, senderVars, netVars, remote_addr, inhand, inbound, heard>>

\* encoder_audio, TCP and the reader: a side on UDP has dropped the channel for it.
OverTcp(s) ==
  /\ route[s] = "tcp" /\ audio_tx[s] # <<>>
  /\ LET o == Other(s)
         taken == route[o] = "tcp" /\ inbound[o] /\ held[o]
     IN  /\ taken => Len(audio_rx[o]) < AppCap
         /\ audio_rx' = IF taken THEN [audio_rx EXCEPT ![o] = Append(@, Head(audio_tx[s]))]
                        ELSE audio_rx
  /\ audio_tx' = [audio_tx EXCEPT ![s] = Tail(@)]
  /\ UNCHANGED <<route, held, made, sender, frame_seq, unsent, netVars, receiverVars,
                 inbound, heard>>

\* inbound_audio_task
Play(s) ==
  /\ inbound[s] /\ audio_rx[s] # <<>>
  /\ heard' = [heard EXCEPT ![s] = Append(@, Head(audio_rx[s]))]
  /\ audio_rx' = [audio_rx EXCEPT ![s] = Tail(@)]
  /\ UNCHANGED <<route, held, made, senderVars, netVars, receiverVars, inbound>>

\* The channel to the inbound task has no sender left: the reader of the TCP session has
\* ended with it, or the receiver task.
InboundEnds(s) ==
  /\ inbound[s] /\ audio_rx[s] = <<>>
  /\ IF route[s] = "tcp" THEN ~held[s] ELSE receiver[s] = "done"
  /\ inbound' = [inbound EXCEPT ![s] = FALSE]
  /\ UNCHANGED <<route, held, made, senderVars, netVars, receiverVars, audio_rx, heard>>

-----------------------------------------------------------------------------
\* on_close removes the SessionRef; its tasks are not aborted.
OnClose(s) ==
  /\ held[s]
  /\ held' = [held EXCEPT ![s] = FALSE]
  /\ UNCHANGED <<route, made, senderVars, netVars, receiverVars, playVars>>

\* SessionRef::shutdown aborts the inbound task.
Shutdown(s) ==
  /\ held[s]
  /\ held' = [held EXCEPT ![s] = FALSE]
  /\ inbound' = [inbound EXCEPT ![s] = FALSE]
  /\ audio_rx' = [audio_rx EXCEPT ![s] = <<>>]
  /\ UNCHANGED <<route, made, senderVars, netVars, receiverVars, heard>>

AudioNext ==
  \E s \in Side :
    \/ Share(s) \/ SenderTakes(s) \/ SenderEnds(s) \/ HandOver(s) \/ OverTcp(s)
    \/ Play(s) \/ InboundEnds(s) \/ OnClose(s) \/ Shutdown(s)
    \/ \E d \in sent : Lose(d) \/ Receive(s, d)

\* The tasks run; a frame in flight is taken some day by a task that keeps asking, or is
\* lost; a session that ended on one side ends on the other (CloseIsMutual of
\* SessionTasks).
Fairness ==
  \A s \in Side :
    /\ WF_audioVars(SenderTakes(s)) /\ WF_audioVars(SenderEnds(s)) /\ WF_audioVars(HandOver(s))
    /\ WF_audioVars(OverTcp(s)) /\ WF_audioVars(Play(s)) /\ WF_audioVars(InboundEnds(s))
    /\ WF_audioVars(~held[Other(s)] /\ OnClose(s))
    /\ \A n \in Msg : SF_audioVars(\E d \in sent : d.msg = n /\ d.from # s /\ Receive(s, d))

AudioSpec == AudioInit /\ [][AudioNext]_audioVars /\ Fairness

-----------------------------------------------------------------------------
AudioTypeOK ==
  /\ route \in [Side -> {"tcp", "udp"}] /\ held \in [Side -> BOOLEAN]
  /\ made \in [Side -> 0 .. MaxMsg]
  /\ \A s \in Side : /\ audio_tx[s] \in Seq(Msg) /\ Len(audio_tx[s]) <= AppCap
                     /\ audio_rx[s] \in Seq(Msg) /\ Len(audio_rx[s]) <= AppCap
                     /\ heard[s] \in Seq(Msg)
  /\ sender \in [Side -> {"off", "waits", "made", "done"}]
  /\ frame_seq \in [Side -> Nat] /\ remote_addr \in [Side -> Side \cup {None}]
  /\ sent \subseteq [from : Side, seq : Nat, msg : Msg]
  /\ opened \subseteq sent /\ lost \subseteq sent
  /\ receiver \in [Side -> {"off", "recv", "send", "done"}]
  /\ inhand \in [Side -> 0 .. MaxMsg] /\ inbound \in [Side -> BOOLEAN]
  /\ unsent \in [Side -> SUBSET Msg]

\* No nonce is used for two frames, although the AEAD session is made anew when the
\* address becomes known and counts from 0 again (sender task of spawn_pipe).
NonceOnce == \A d, e \in sent : d.from = e.from /\ d.seq = e.seq => d = e

\* Once the sender has sent a message it drops no later one, whenever the address
\* became known ("REVIEW fix #1").
AwakeForGood == \A s \in Side : \A m \in unsent[s] : \A d \in sent : d.from = s => m < d.msg

\* A message is heard at most once, and only on the side it was shared with.
HeardOnce ==
  \A s \in Side : /\ \A i, j \in DOMAIN heard[s] : heard[s][i] = heard[s][j] => i = j
                  /\ \A i \in DOMAIN heard[s] : heard[s][i] <= made[Other(s)]

\* The channels keep their capacity, and the frames of a session are sealed, sent and
\* heard once (spawn_pipe).
AudioInv == AudioTypeOK /\ NonceOnce /\ AwakeForGood /\ HeardOnce

Queued(s, n) == \E i \in DOMAIN audio_tx[s] : audio_tx[s][i] = n
Heard(s, n) == \E i \in DOMAIN heard[s] : heard[s][i] = n
Lost(s, n) == \E d \in lost : d.from = s /\ d.msg = n
SessionOver == \E s \in Side : ~held[s]

\* A message that waits to be sent when the address is known is heard on the other side,
\* unless the network loses it or the session ends: also the first ones of a server
\* that learned the address late (sender and receiver task of spawn_pipe).
LateFramesArrive ==
  \A s \in Side, n \in Msg :
    Queued(s, n) /\ remote_addr[s] # None ~> Heard(Other(s), n) \/ Lost(s, n) \/ SessionOver

\* The sender task never holds up the fan-out: the messages handed over are taken
\* whether or not there is an address, and the task ends with the session.
SenderGoesOn ==
  \A s \in Side : /\ \A n \in Msg : Queued(s, n) ~> ~Queued(s, n)
                  /\ ~held[s] ~> sender[s] \in {"off", "done"}

-----------------------------------------------------------------------------
(* What the code says of itself, and is not so.                              *)

\* "buffer en interne et flushe dès qu'on pin l'addr": no message is dropped for want of
\* an address.
BufferedUntilPin == \A s \in Side : unsent[s] = {}

\* "l'envoie a tous les pairs connectes": a message is heard by the other side, unless it
\* was lost on the way or the session ends.  A server that shares with a client that does
\* not is never heard.
SharedIsHeard ==
  \A s \in Side, n \in Msg : Queued(s, n) ~> Heard(Other(s), n) \/ Lost(s, n) \/ SessionOver

\* "client UDP bind echec — fallback TCP audio": the client is heard over TCP.
FallbackIsHeard ==
  \A n \in Msg : Queued("client", n) /\ route["client"] = "tcp" ~> Heard("server", n) \/ SessionOver

\* "Intègre les UDP tasks dans le handle pour shutdown coordonne": they end with the
\* session.
TasksEndWithSession == \A s \in Side : ~held[s] ~> receiver[s] \in {"off", "done"}

\* Frames are played in the stream that StreamStart announced (CpalPlayback::push).  A
\* server's StreamStart is dropped with the rest before the address is known, or comes later.
FramesFollowStart ==
  \A s \in Side : heard[s] # <<>> /\ lost = {} => Heard(s, 1)
=============================================================================
