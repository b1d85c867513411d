----------------------------- MODULE MediaShare -----------------------------
(***************************************************************************)
(* Sharing the screen or the sound of a device: start_video_share and      *)
(* start_audio_share of the application, WindowsCaptureSource and          *)
(* CpalCapture that produce frames on a thread of their own, the bridge    *)
(* that numbers them, the fan-out to the sessions there are, and what a    *)
(* peer does with the messages.  The two media run the same way and differ *)
(* in how a frame is coded; a behaviour is about one of them.              *)
(*                                                                         *)
(* Every start is a stream, named by its call.  "coded" is H.264 or Opus,  *)
(* "plain" is MJPEG or PCM.  A frame is its number in the stream; pay are  *)
(* the frames whose bits a message carries.  The session between the       *)
(* fan-out and a peer is a bounded channel in order (SessionTasks); the    *)
(* encoder with a transform inside is modelled by VideoEncoder, here it    *)
(* is a queue that keeps up to Hold frames back.                           *)
(***************************************************************************)
EXTENDS EncoderChoice, FiniteSets, SequencesExt

CONSTANTS Media,       \* of "video" and "audio"
          NCalls,      \* bound: calls of start_video_share or start_audio_share
          Backend,     \* h264_backend of the configuration
          Machines,    \* machines, see EncoderChoice, with their screens: small is below
                       \* the target size
          Peers, Slow, \* devices; those whose session is stuck
          ChanCap,     \* messages of the channel to the fan-out (64 and 256)
          LinkCap,     \* messages of a session's channel
          Hold,        \* frames a transform keeps back
          KeyEvery,    \* keyframe_every
          MaxFrames,   \* bound: call -> frames of its stream
          MaxFaults    \* bound: failing calls, changes of the machine

ASSUME MediaAssumption == /\ Backend \in Backends /\ Media \subseteq {"video", "audio"}
                          /\ Machines # {}
                          /\ {ChanCap, LinkCap, KeyEvery} \subseteq Nat \ {0}
                          /\ MaxFrames \in [1 .. NCalls -> Nat]
                          /\ {NCalls, Hold, MaxFaults} \subseteq Nat
                          /\ Slow \subseteq Peers

VARIABLES medium, machine,
          call,     \* call -> what the command does
          init,     \* call -> what the capture thread reported
          cap,      \* call -> state of the capture thread
          codec,    \* call -> codec announced
          enc,      \* call -> [kind, held, count] of the handler's encoder
          made,     \* call -> frames captured
          frames,   \* call -> frame_tx: frames on their way to the bridge
          chan,     \* call -> channel to the fan-out
          bridge, fan, \* call -> state of these tasks
          handle,   \* video_capture_handle or audio_capture_handle
          sessions, \* peers in the table of sessions
          link,     \* peer -> messages of its session
          rx,       \* peer -> [codec, stream, pos]: codec_state, and how far it got
          garbled,  \* history: peers that showed what they could not decode
          spoiled,  \* history: the machine changed or a frame could not be coded
          faults

captureVars == <<cap, codec, enc, made, frames>>
pipeVars == <<chan, bridge, fan>>
peerVars == <<sessions, link, rx, garbled>>
vars == <<medium, machine, call, init, captureVars, pipeVars, handle, peerVars,
          spoiled, faults>>

None == "none"
Calls == 1 .. NCalls   \* in the order of their first step
NoCall == 0
Fault == faults < MaxFaults /\ faults' = faults + 1

StartMsg(c, k) == [k |-> "Start", s |-> c, codec |-> k, pay |-> <<>>]
FrameMsg(c, f) == [k |-> "Frame", s |-> c, codec |-> f.codec, pay |-> f.pay]
StopMsg(c) == [k |-> "Stop", s |-> c, codec |-> None, pay |-> <<>>]

NoStream == [codec |-> None, stream |-> NoCall, pos |-> [c \in Calls |-> 0]]

Init ==
  /\ medium \in Media
  /\ machine \in IF medium = "video" THEN Machines ELSE {CHOOSE m \in Machines : TRUE}
  /\ call = [c \in Calls |-> "idle"] /\ init = [c \in Calls |-> None]
  /\ cap = [c \in Calls |-> "off"] /\ codec = [c \in Calls |-> None]
  /\ enc = [c \in Calls |-> [kind |-> NoEncoder, held |-> <<>>, count |-> 0]]
  /\ made = [c \in Calls |-> 0] /\ frames = [c \in Calls |-> <<>>]
  /\ chan = [c \in Calls |-> <<>>]
  /\ bridge = [c \in Calls |-> "off"] /\ fan = [c \in Calls |-> "off"]
  /\ handle = NoCall
  /\ sessions = Slow /\ link = [p \in Peers |-> <<>>]
  /\ rx = [p \in Peers |-> NoStream] /\ garbled = {}
  /\ spoiled = FALSE /\ faults = 0

-----------------------------------------------------------------------------
(* The commands.                                                             *)

Free == handle = NoCall

\* The handle is read, then the capture thread is started.
StartShare(c) ==
  /\ call[c] = "idle" /\ (c > 1 => call[c - 1] # "idle")
  /\ IF Free
     THEN call' = [call EXCEPT ![c] = "init"] /\ cap' = [cap EXCEPT ![c] = "select"]
     ELSE call' = [call EXCEPT ![c] = "done"] /\ UNCHANGED cap
  /\ UNCHANGED <<medium, machine, init, codec, enc, made, frames, pipeVars, handle,
                 peerVars, spoiled, faults>>

\* build_opus_encoder: Opus, when it knows the device's rate and channels, else PCM.
AudioCodecs == {"coded", "plain"}
Codecs(c) == IF medium = "video" THEN {codec[c]} ELSE AudioCodecs

\* init_rx.recv_timeout(2 s); then StreamStart goes into the empty channel and the bridge
\* starts.  On an error the channel for the frames is dropped.
InitResult(c) ==
  /\ call[c] = "init"
  /\ \/ /\ init[c] = "ok"
        /\ call' = [call EXCEPT ![c] = "store"]
        /\ \E k \in Codecs(c) : /\ codec' = [codec EXCEPT ![c] = k]
                               /\ chan' = [chan EXCEPT ![c] = <<StartMsg(c, k)>>]
        /\ bridge' = [bridge EXCEPT ![c] = "run"]
        /\ UNCHANGED faults
     \/ /\ init[c] = "err"
        /\ call' = [call EXCEPT ![c] = "failed"]
        /\ UNCHANGED <<codec, chan, bridge, faults>>
     \/ /\ init[c] # "err" /\ Fault
        /\ call' = [call EXCEPT ![c] = "failed"]
        /\ UNCHANGED <<codec, chan, bridge>>
  /\ UNCHANGED <<medium, machine, init, cap, enc, made, frames, fan, handle, peerVars,
                 spoiled>>

\* The handle is kept, over one that a concurrent start kept; the fan-out starts.
Store(c) ==
  /\ call[c] = "store"
  /\ call' = [call EXCEPT ![c] = "done"]
  /\ handle' = c
  /\ fan' = [fan EXCEPT ![c] = "run"]
  /\ UNCHANGED <<medium, machine, init, captureVars, chan, bridge, peerVars, spoiled,
                 faults>>

\* stop_video_share, stop_audio_share: nobody receives what stop sends, and the task
\* that is aborted only waits for the bridge.
StopShare ==
  /\ handle # NoCall
  /\ handle' = NoCall
  /\ UNCHANGED <<medium, machine, call, init, captureVars, pipeVars, peerVars, spoiled,
                 faults>>

-----------------------------------------------------------------------------
(* The capture thread.                                                       *)

Report(c, r, k) ==
  /\ init' = [init EXCEPT ![c] = r]
  /\ cap' = [cap EXCEPT ![c] = IF r = "ok" THEN "begin" ELSE "end"]
  /\ codec' = [codec EXCEPT ![c] = k]

\* run_capture_thread of okvm-video: select_monitor, and the codec by a trial.
SelectMonitor(c) ==
  /\ medium = "video" /\ cap[c] = "select"
  /\ \/ Report(c, "ok", Announced(Backend, machine)) /\ UNCHANGED faults
     \/ Report(c, "err", None) /\ Fault
  /\ UNCHANGED <<medium, machine, call, enc, made, frames, pipeVars, handle, peerVars,
                 spoiled>>

\* run_capture_thread of okvm-audio: the device and its format.
SelectDevice(c) ==
  /\ medium = "audio" /\ cap[c] = "select"
  /\ \/ Report(c, "ok", None) /\ UNCHANGED faults
     \/ Report(c, "err", None) /\ Fault
  /\ UNCHANGED <<medium, machine, call, enc, made, frames, pipeVars, handle, peerVars,
                 spoiled>>

\* FrameEncoderHandler::new on the way to the first frame.
NewHandler(c) ==
  /\ medium = "video" /\ cap[c] = "begin"
  /\ \/ /\ cap' = [cap EXCEPT ![c] = "run"]
        /\ enc' = [enc EXCEPT ![c].kind = Chosen(Backend, codec[c], machine)]
        /\ UNCHANGED faults
     \/ Fault /\ cap' = [cap EXCEPT ![c] = "end"] /\ UNCHANGED enc
  /\ UNCHANGED <<medium, machine, call, init, codec, made, frames, pipeVars, handle,
                 peerVars, spoiled>>

\* build_input_stream and play.
BuildStream(c) ==
  /\ medium = "audio" /\ cap[c] = "begin"
  /\ \/ cap' = [cap EXCEPT ![c] = "run"] /\ UNCHANGED faults
     \/ cap' = [cap EXCEPT ![c] = "end"] /\ Fault
  /\ UNCHANGED <<medium, machine, call, init, codec, enc, made, frames, pipeVars, handle,
                 peerVars, spoiled>>

\* Mutant: a start that gave up keeps the channel for the frames.
UnheardBridge(c) == bridge[c] = "done"

\* No task takes frames: start gave up or the bridge is gone.
Unheard(c) == call[c] = "failed" \/ bridge[c] = "done"

\* force_keyframe is due; the synchronous encoder flushes what its transform keeps.
KeyDue(c) == enc[c].count % KeyEvery = 0
Held(c) == IF KeyDue(c) /\ enc[c].kind = "sync" THEN <<>> ELSE enc[c].held

\* How many of the frames it has an encoder gives back: openh264 all of them; encode_rgb
\* of the synchronous transform until process_output_once needs more; the asynchronous one
\* what its worker has put into the channel.
AllOut(all) == {Len(all)}
Ready(all) == IF Len(all) > Hold THEN Len(all) - Hold ELSE 0
SyncOut(all) == {Ready(all)}
AsyncOut(all) == {n \in 0 .. Len(all) : n >= Len(all) - Hold}
Outputs(kind, all) == CASE kind = "openh264" -> AllOut(all)
                        [] kind = "sync" -> SyncOut(all)
                        [] kind = "async" -> AsyncOut(all)

\* The frames an encoder has when encode_rgb fails: before ProcessInput took the frame, or
\* after, in process_output_once; openh264 keeps none, the asynchronous encoder does not
\* fail.
AfterError(c, all) ==
  {Held(c)} \cup {SubSeq(all, n + 1, Len(all)) : n \in 0 .. Ready(all)}
Failing == {"openh264", "sync"}

\* A captured frame is coded unless it has not the size the encoder was made for.
Codes(c) == medium = "audio" \/ enc[c].kind = NoEncoder \/ ~machine.small

Keep(c, f) == frames' = [frames EXCEPT ![c] = Append(@, f)]
EncoderKeeps(c, held) == enc' = [enc EXCEPT ![c].held = held, ![c].count = @ + 1]
Captured(c) == /\ cap[c] = "run" /\ ~Unheard(c) /\ made[c] < MaxFrames[c]
               /\ made' = [made EXCEPT ![c] = @ + 1]

\* on_frame_arrived: H.264 when the handler has an encoder, else a JPEG; a frame that cannot
\* be coded is dropped, its keyframe is counted.
OnFrameArrived(c) ==
  /\ medium = "video" /\ Captured(c)
  /\ LET all == Append(Held(c), made'[c])
     IN  \/ /\ enc[c].kind = NoEncoder
            /\ \/ /\ Keep(c, [codec |-> "plain", pay |-> <<made'[c]>>])
                  /\ UNCHANGED faults
               \/ Fault /\ UNCHANGED frames
            /\ UNCHANGED enc
         \/ /\ enc[c].kind # NoEncoder /\ Codes(c)
            /\ \/ \E n \in Outputs(enc[c].kind, all) :
                     /\ Keep(c, [codec |-> "coded", pay |-> SubSeq(all, 1, n)])
                     /\ EncoderKeeps(c, SubSeq(all, n + 1, Len(all)))
                     /\ UNCHANGED faults
               \/ /\ enc[c].kind \in Failing /\ Fault /\ UNCHANGED frames
                  /\ \E held \in AfterError(c, all) : EncoderKeeps(c, held)
         \/ /\ ~Codes(c)
            /\ EncoderKeeps(c, Held(c)) /\ UNCHANGED <<frames, faults>>
  /\ UNCHANGED <<medium, machine, call, init, cap, codec, pipeVars, handle, peerVars,
                 spoiled>>

\* flush_frames in the device's callback, when there are samples for a frame.
FlushFrames(c) ==
  /\ medium = "audio" /\ Captured(c)
  /\ Keep(c, [codec |-> "plain", pay |-> <<made'[c]>>])
  /\ UNCHANGED <<medium, machine, call, init, cap, codec, enc, pipeVars, handle, peerVars,
                 spoiled, faults>>

\* A frame is captured and coded, and its send fails: windows-capture stops, the audio
\* thread sees the closed channel.
CaptureEnds(c) ==
  /\ cap[c] = "run" /\ Unheard(c) /\ Codes(c)
  /\ cap' = [cap EXCEPT ![c] = "end"]
  /\ UNCHANGED <<medium, machine, call, init, codec, enc, made, frames, pipeVars,
                 handle, peerVars, spoiled, faults>>

\* The monitor is closed; an audio device that fails stops calling back.
SourceGone(c) ==
  /\ cap[c] = "run" /\ Fault
  /\ cap' = [cap EXCEPT ![c] = IF medium = "video" THEN "end" ELSE "mute"]
  /\ UNCHANGED <<medium, machine, call, init, codec, enc, made, frames, pipeVars,
                 handle, peerVars, spoiled>>

\* A driver is installed or removed.
MachineChanges ==
  /\ medium = "video" /\ Fault /\ machine' \in Machines \ {machine} /\ spoiled' = TRUE
  /\ UNCHANGED <<medium, call, init, captureVars, pipeVars, handle, peerVars>>

-----------------------------------------------------------------------------
(* The bridge and the fan-out.                                               *)

Pass(c, f) ==
  /\ bridge[c] = "run" /\ frames[c] # <<>> /\ Len(chan[c]) < ChanCap
  /\ frames' = [frames EXCEPT ![c] = Tail(@)]
  /\ chan' = [chan EXCEPT ![c] = Append(@, FrameMsg(c, f))]
  /\ UNCHANGED <<medium, machine, call, init, cap, codec, enc, made, bridge, fan,
                 handle, peerVars>>

VideoBridge(c) == /\ medium = "video" /\ frames[c] # <<>>
                  /\ Pass(c, Head(frames[c])) /\ UNCHANGED <<spoiled, faults>>

\* The audio bridge codes; a frame Opus refuses is sent as it is.
AudioBridge(c) ==
  /\ medium = "audio" /\ frames[c] # <<>>
  /\ LET f == Head(frames[c])
     IN \/ Pass(c, [f EXCEPT !.codec = codec[c]]) /\ UNCHANGED <<spoiled, faults>>
        \/ codec[c] = "coded" /\ Fault /\ spoiled' = TRUE /\ Pass(c, f)

\* Mutant: StreamStop is sent as soon as the capture ends.
DrainedAny(c) == cap[c] = "end"

Drained(c) == cap[c] = "end" /\ frames[c] = <<>>

BridgeEnds(c) ==
  /\ bridge[c] = "run" /\ Drained(c) /\ Len(chan[c]) < ChanCap
  /\ chan' = [chan EXCEPT ![c] = Append(@, StopMsg(c))]
  /\ bridge' = [bridge EXCEPT ![c] = IF frames[c] = <<>> THEN "done" ELSE @]
  /\ UNCHANGED <<medium, machine, call, init, captureVars, fan, handle, peerVars,
                 spoiled, faults>>

\* Mutant: the fan-out waits for room in the channel of every session.
RoomInAll == \A p \in sessions : Len(link[p]) < LinkCap

Room == TRUE

\* Mutant: a session keeps every message.
PushedAll(q, m) == Append(q, m)

\* try_send: a channel that is full loses the message.
Pushed(q, m) == IF Len(q) < LinkCap THEN Append(q, m) ELSE q

\* Each message goes to the sessions of this moment.
FanOut(c) ==
  /\ fan[c] = "run" /\ chan[c] # <<>> /\ Room
  /\ link' = [p \in Peers |-> IF p \in sessions THEN Pushed(link[p], Head(chan[c]))
                              ELSE link[p]]
  /\ chan' = [chan EXCEPT ![c] = Tail(@)]
  /\ UNCHANGED <<medium, machine, call, init, captureVars, bridge, fan, handle,
                 sessions, rx, garbled, spoiled, faults>>

FanEnds(c) ==
  /\ fan[c] = "run" /\ chan[c] = <<>> /\ bridge[c] = "done"
  /\ fan' = [fan EXCEPT ![c] = "done"]
  /\ UNCHANGED <<medium, machine, call, init, captureVars, chan, bridge, handle,
                 peerVars, spoiled, faults>>

-----------------------------------------------------------------------------
(* The peers.                                                                *)

Join(p) ==
  /\ p \in Peers \ sessions
  /\ sessions' = sessions \cup {p}
  /\ UNCHANGED <<medium, machine, call, init, captureVars, pipeVars, handle, link, rx,
                 garbled, spoiled, faults>>

\* How far a message is in its stream: after the Start, after each frame, after the Stop.
Last0(pay) == IF pay = <<>> THEN 0 ELSE pay[Len(pay)]
Place(m) == CASE m.k = "Start" -> 1
              [] m.k = "Frame" -> 1 + Last0(m.pay)
              [] m.k = "Stop" -> MaxFrames[m.s] + 2

\* Mutant: a stream that starts while another is received keeps the codec of that one.
CodecAfterFirst(p, m) ==
  CASE m.k = "Start" -> IF rx[p].codec = None THEN m.codec ELSE rx[p].codec
    [] m.k = "Frame" -> rx[p].codec
    [] m.k = "Stop" -> None

\* codec_state and the decoder of on_video_frame, current_codec of CpalPlayback::push.
CodecAfter(p, m) ==
  CASE m.k = "Start" -> m.codec
    [] m.k = "Frame" -> rx[p].codec
    [] m.k = "Stop" -> None

StreamAfter(p, m) ==
  CASE m.k = "Start" -> m.s [] m.k = "Frame" -> rx[p].stream
                        [] m.k = "Stop" -> NoCall

\* A frame is decoded when codec_state says so, and shown as it is otherwise.
Garbles(p, m) ==
  /\ m.k = "Frame"
  /\ (rx[p].codec = "coded") # (m.codec = "coded")

Take(p) ==
  /\ p \notin Slow /\ link[p] # <<>>
  /\ LET m == Head(link[p])
     IN  /\ rx' = [rx EXCEPT ![p] = [codec |-> CodecAfter(p, m), stream |-> StreamAfter(p, m),
                                     pos |-> IF m.k = "Frame" /\ m.pay = <<>> THEN @.pos
                                             ELSE [@.pos EXCEPT ![m.s] = Place(m)]]]
         /\ garbled' = garbled \cup {q \in {p} : Garbles(p, m)}
  /\ link' = [link EXCEPT ![p] = Tail(@)]
  /\ UNCHANGED <<medium, machine, call, init, captureVars, pipeVars, handle, sessions,
                 spoiled, faults>>

-----------------------------------------------------------------------------
Stream(c) == \/ StartShare(c) \/ InitResult(c) \/ Store(c)
             \/ SelectMonitor(c) \/ SelectDevice(c) \/ NewHandler(c) \/ BuildStream(c)
             \/ OnFrameArrived(c) \/ FlushFrames(c) \/ CaptureEnds(c) \/ SourceGone(c)
             \/ VideoBridge(c) \/ AudioBridge(c) \/ BridgeEnds(c) \/ FanOut(c) \/ FanEnds(c)

Next == \/ \E c \in Calls : Stream(c)
        \/ \E p \in Peers : Join(p) \/ Take(p)
        \/ StopShare \/ MachineChanges

\* Threads and tasks run; users, sources and slow peers owe nothing.
Fairness ==
  /\ \A c \in Calls : /\ WF_vars(InitResult(c)) /\ WF_vars(Store(c))
                      /\ WF_vars(SelectMonitor(c)) /\ WF_vars(SelectDevice(c))
                      /\ WF_vars(NewHandler(c)) /\ WF_vars(BuildStream(c))
                      /\ WF_vars(VideoBridge(c)) /\ WF_vars(AudioBridge(c))
                      /\ WF_vars(BridgeEnds(c))
                      /\ WF_vars(FanOut(c)) /\ WF_vars(FanEnds(c))
  /\ \A p \in Peers : WF_vars(Take(p))

Spec == Init /\ [][Next]_vars /\ Fairness

-----------------------------------------------------------------------------
(* Properties.                                                               *)

\* Every variable has its type, and the channels keep their capacities.
TypeOK ==
  /\ medium \in Media /\ machine \in Machines
  /\ \A c \in Calls :
       /\ call[c] \in {"idle", "init", "store", "done", "failed"}
       /\ init[c] \in {None, "ok", "err"}
       /\ cap[c] \in {"off", "select", "begin", "run", "end", "mute"}
       /\ codec[c] \in {None, "coded", "plain"}
       /\ enc[c].kind \in {NoEncoder, "openh264", "sync", "async"}
       /\ made[c] \in 0 .. MaxFrames[c] /\ Len(frames[c]) <= made[c]
       /\ {bridge[c], fan[c]} \subseteq {"off", "run", "done"}
       /\ Len(chan[c]) <= ChanCap
  /\ handle \in Calls \cup {NoCall} /\ sessions \subseteq Peers /\ garbled \subseteq Peers
  /\ \A p \in Peers : Len(link[p]) <= LinkCap
  /\ spoiled \in BOOLEAN /\ faults \in 0 .. MaxFaults

\* What a peer receives of a stream moves on: StreamStart, then frames whose content never
\* goes back, then StreamStop and nothing more, whatever was dropped on the way (bridge,
\* fan-out, the encoders).
StreamGoesOn ==
  [][\A p \in Peers, c \in Calls : rx'[p].pos[c] >= rx[p].pos[c]]_vars

\* A peer decodes each frame of the stream it follows with the codec the frame was made
\* with, as long as the machine stays as it is and Opus refuses no frame: what the capture
\* thread announces is what the handler's encoder makes (run_capture_thread,
\* FrameEncoderHandler::new, on_video_frame).
FollowsItsCodec ==
  [][\A p \in Peers : p \in garbled' \ garbled =>
        spoiled \/ rx[p].stream # Head(link[p]).s]_vars

\* A session that takes nothing holds nobody up: frames captured leave the channel of the
\* fan-out (start_video_share, start_audio_share: try_send).
SlowPeerHarmless ==
  \A c \in Calls : fan[c] = "run" /\ chan[c] # <<>> /\ frames[c] # <<>> ~> frames[c] = <<>>

\* The capture of a start that failed ends, where frames are captured again and again and
\* can be coded: nothing but the send of a frame tells it that nobody listens (start,
\* on_frame_arrived, flush_frames).
FailedStartEnds ==
  \A c \in Calls :
    WF_vars(CaptureEnds(c)) =>
      (call[c] = "failed" ~> cap[c] \in {"off", "end", "mute"} \/ ~Codes(c))

-----------------------------------------------------------------------------
(* What comments say and the code does not do.                               *)

\* "Arrete la capture video", "Arrete la capture audio" (stop_video_share).
StopStops == \A c \in Calls : cap[c] = "run" /\ handle = NoCall /\ call[c] = "done"
                              ~> cap[c] # "run" \/ handle # NoCall

\* "true si on partage actuellement notre ecran" (is_video_sharing).
SharingMeansCapturing == handle # NoCall => cap[handle] \notin {"end", "mute"}

\* "Demarre la capture video de l'ecran et l'envoie a tous les pairs connectes": every
\* peer can show what it is sent.
PeersCanShow == garbled = {}

\* The bits of a frame that was encoded reach the bridge, but for those the encoder keeps:
\* force_keyframe forces "un IDR au prochain frame" and says no word of a loss.
NothingFlushed ==
  [][\A c \in Calls : frames'[c] # frames[c] /\ made'[c] > made[c] =>
        ToSet(enc[c].held) \subseteq ToSet(enc'[c].held) \cup ToSet(Last(frames'[c]).pay)]_vars
=============================================================================
