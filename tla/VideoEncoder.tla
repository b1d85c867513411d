---------------------------- MODULE VideoEncoder ----------------------------
(***************************************************************************)
(* MfH264AsyncEncoder of okvm-video: a caller that hands over RGB frames,  *)
(* a worker thread that owns the Media Foundation transform and serves it  *)
(* by credits, and the callback through which Media Foundation reports its *)
(* events.  They share three unbounded queues, the queue of events and a   *)
(* shutdown flag; every step of the worker loop may be separated from the  *)
(* next by steps of the others.                                            *)
(*                                                                         *)
(* The transform is external.  Its contract is modelled as the code uses   *)
(* it: NeedInput gives a credit for one ProcessInput, HaveOutput announces *)
(* one output, outputs come in the order of the inputs, at most Lag        *)
(* inputs are kept back, and a drained transform accepts no input.  A      *)
(* frame is its number; its content and its bitstream are left out.        *)
(***************************************************************************)
EXTENDS EncoderChoice, FiniteSets, SequencesExt

CONSTANTS CandidateLists, \* what MFTEnumEx may list: sequences of [activates, works],
                          \* see EncoderChoice
          MaxPending,     \* MAX_PENDING_INPUTS
          Depth,          \* frames the transform asks for or keeps, at most
          Lag,            \* frames the transform keeps to compress the next ones
          NFrames,        \* bound: frames the caller encodes
          MaxCommands,    \* bound: drains and keyframes it asks for
          MaxFailures     \* bound: calls of Media Foundation that fail

ASSUME EncoderAssumption ==
         /\ {MaxPending, Depth} \subseteq Nat \ {0}
         /\ {Lag, NFrames, MaxCommands, MaxFailures} \subseteq Nat
         /\ Lag < Depth

VARIABLES caller,   \* what the thread of the encoder does
          next,     \* number of the next frame: frame_index + 1
          got,      \* history: frames whose bitstream the caller has
          calls,    \* commands the caller has sent
          input, cmd, output, \* the three channels
          acked,    \* drains whose ack was sent
          shutdown,
          worker,   \* step of the worker loop
          needs, pending, \* its credits and its queue
          waiting,  \* pending_drain_ack: a drain, or NoDrain
          events,   \* event_rx: events the bridge passed on
          armed,    \* a BeginGetEvent is outstanding
          mft,      \* the transform
          lost,     \* history: frames given up
          leaked,   \* history: credits taken for a frame that was never handed over
          unheard,  \* history: an event of another type ended the event pump
          unarmed,  \* history: a BeginGetEvent that failed ended it
          failures

callerVars == <<caller, next, got, calls>>
chanVars == <<input, cmd, output, acked, shutdown>>
workVars == <<worker, needs, pending, waiting>>
eventVars == <<events, armed, unheard, unarmed>>
encoderVars == <<callerVars, chanVars, workVars, eventVars, mft, lost, leaked, failures>>

NoDrain == 0
ForceAt(n) == -n   \* in cmd: ForceKeyframe sent before frame n; a drain is its number

Fails == failures < MaxFailures /\ failures' = failures + 1

EncoderInit ==
  /\ caller = "init" /\ next = 1 /\ got = <<>> /\ calls = 0
  /\ input = <<>> /\ cmd = <<>> /\ output = <<>> /\ acked = {} /\ shutdown = FALSE
  /\ worker = "setup" /\ needs = 0 /\ pending = <<>> /\ waiting = NoDrain
  /\ events = <<>> /\ armed = FALSE
  /\ mft = [phase |-> "off", inq |-> <<>>, outq |-> <<>>, queue |-> <<>>,
            credits |-> 0, idr |-> FALSE]
  /\ lost = {} /\ leaked = 0 /\ unheard = FALSE /\ unarmed = FALSE /\ failures = 0

-----------------------------------------------------------------------------
(* The caller: try_new, encode_rgb, force_keyframe, drain, Drop.             *)

\* recv_timeout returns what the worker sent, or gives up after 5 seconds.
TryNew ==
  /\ caller = "init"
  /\ \/ worker = "done" /\ caller' = "failed"
     \/ worker \notin {"setup", "done"} /\ caller' = "idle"
     \/ caller' = "failed"
  /\ UNCHANGED <<next, got, calls, chanVars, workVars, eventVars, mft, lost, leaked,
                 failures>>

\* Mutant: what is taken replaces what was taken before.
CollectLast == /\ got' = got \o (IF output = <<>> THEN <<>> ELSE <<Last(output)>>)
               /\ output' = <<>>

\* Takes what is in output_rx.
Collect == got' = got \o output /\ output' = <<>>

EncodeRgb ==
  /\ caller = "idle" /\ next <= NFrames
  /\ input' = Append(input, next)
  /\ next' = next + 1
  /\ Collect
  /\ UNCHANGED <<caller, calls, cmd, acked, shutdown, workVars, eventVars, mft, lost,
                 leaked, failures>>

ForceKeyframe ==
  /\ caller = "idle" /\ calls < MaxCommands
  /\ calls' = calls + 1
  /\ cmd' = Append(cmd, ForceAt(next))
  /\ UNCHANGED <<caller, next, got, input, output, acked, shutdown, workVars, eventVars, mft,
                 lost, leaked, failures>>

DrainCall ==
  /\ caller = "idle" /\ calls < MaxCommands
  /\ calls' = calls + 1
  /\ cmd' = Append(cmd, calls')
  /\ caller' = "drain"
  /\ UNCHANGED <<next, got, input, output, acked, shutdown, workVars, eventVars, mft,
                 lost, leaked, failures>>

\* The ack of this drain, or the timeout of 2 seconds.
DrainReturn ==
  /\ caller = "drain"
  /\ Collect
  /\ caller' \in IF calls \in acked THEN {"drained", "idle"} ELSE {"idle"}
  /\ UNCHANGED <<next, calls, input, cmd, acked, shutdown, workVars, eventVars, mft,
                 lost, leaked, failures>>

\* The caller goes on after a drain that ended in time.
GoOn ==
  /\ caller = "drained"
  /\ caller' = "idle"
  /\ UNCHANGED <<next, got, calls, chanVars, workVars, eventVars, mft, lost, leaked,
                 failures>>

Drop ==
  /\ caller = "idle" /\ caller' = "drop" /\ shutdown' = TRUE
  /\ UNCHANGED <<next, got, calls, input, cmd, output, acked, workVars, eventVars, mft,
                 lost, leaked, failures>>

JoinThread ==
  /\ caller = "drop" /\ worker = "done" /\ caller' = "gone"
  /\ UNCHANGED <<next, got, calls, chanVars, workVars, eventVars, mft, lost, leaked,
                 failures>>

-----------------------------------------------------------------------------
(* The transform and the bridge.                                             *)

Emit(m, kind) == [m EXCEPT !.queue = Append(@, kind)]

CanAsk == mft.phase = "on" /\ mft.credits + Len(mft.inq) < Depth
AskInput ==
  /\ CanAsk
  /\ mft' = Emit([mft EXCEPT !.credits = @ + 1], "NeedInput")
  /\ UNCHANGED <<callerVars, chanVars, workVars, eventVars, lost, leaked, failures>>

CanEncode == mft.inq # <<>> /\ Len(mft.outq) < Depth /\ mft.phase # "off"
MustEncode == CanEncode /\ (Len(mft.inq) > Lag \/ mft.phase = "draining")
Encode ==
  /\ CanEncode
  /\ mft' = Emit([mft EXCEPT !.inq = Tail(@), !.outq = Append(@, Head(mft.inq))], "HaveOutput")
  /\ UNCHANGED <<callerVars, chanVars, workVars, eventVars, lost, leaked, failures>>

DrainDone ==
  /\ mft.phase = "draining" /\ mft.inq = <<>>
  /\ mft' = Emit([mft EXCEPT !.phase = "drained"], "DrainComplete")
  /\ UNCHANGED <<callerVars, chanVars, workVars, eventVars, lost, leaked, failures>>

\* An event the bridge has no branch for (a stream sink marker, an error).
OtherEvent ==
  /\ mft.phase = "on" /\ Fails
  /\ mft' = Emit(mft, "Other")
  /\ UNCHANGED <<callerVars, chanVars, workVars, eventVars, lost, leaked>>

\* EventBridge::Invoke: one event per BeginGetEvent; it does not ask for the next.
Invoke ==
  /\ armed /\ mft.queue # <<>>
  /\ armed' = FALSE
  /\ mft' = [mft EXCEPT !.queue = Tail(@)]
  /\ IF Head(mft.queue) = "Other"
     THEN unheard' = TRUE /\ UNCHANGED events
     ELSE events' = Append(events, Head(mft.queue)) /\ UNCHANGED unheard
  /\ UNCHANGED <<callerVars, chanVars, workVars, unarmed, lost, leaked, failures>>

-----------------------------------------------------------------------------
(* The worker.                                                               *)

Setup ==
  /\ worker = "setup"
  /\ \E list \in CandidateLists :
       IF SetUp(list)
       THEN worker' = "top" /\ armed' = TRUE /\ mft' = [mft EXCEPT !.phase = "on"]
       ELSE worker' = "done" /\ UNCHANGED <<armed, mft>>
  /\ UNCHANGED <<callerVars, chanVars, needs, pending, waiting, events, unheard, unarmed, lost,
                 leaked, failures>>

\* Mutant: the flag is only read when there is nothing to do.
StopsIdle == shutdown /\ needs = 0 /\ pending = <<>>

Stops == shutdown

\* Reads the flag; on shutdown the transform is flushed and the thread ends.
Top ==
  /\ worker = "top"
  /\ IF Stops
     THEN /\ worker' = "done"
          /\ lost' = lost \cup ToSet(mft.inq \o mft.outq)
          /\ mft' = [mft EXCEPT !.phase = "off", !.inq = <<>>, !.outq = <<>>]
     ELSE worker' = "events" /\ UNCHANGED <<lost, mft>>
  /\ UNCHANGED <<callerVars, chanVars, needs, pending, waiting, eventVars, leaked, failures>>

\* process_one_output: the output goes to the caller, or is lost with a warning.
ProcessOneOutput ==
  IF mft.outq = <<>>
  THEN UNCHANGED <<mft, output, lost, failures>>
  ELSE /\ mft' = [mft EXCEPT !.outq = Tail(@)]
       /\ \/ /\ caller # "failed"
             /\ output' = Append(output, Head(mft.outq))
             /\ UNCHANGED <<lost, failures>>
          \/ /\ caller = "failed"
             /\ lost' = lost \cup {Head(mft.outq)} /\ UNCHANGED <<output, failures>>
          \/ /\ Fails
             /\ lost' = lost \cup {Head(mft.outq)} /\ UNCHANGED output

SendAck(d) == acked' = acked \cup ({d} \ {NoDrain})

\* Mutant: the next event is asked for after a NeedInput only.
RearmNeedInput == armed' = (Head(events) = "NeedInput") /\ UNCHANGED unarmed

\* The worker asks for the next event after each one it received; when BeginGetEvent fails
\* it is a warning, and no event comes any more.
Rearm == \/ armed' = TRUE /\ UNCHANGED unarmed
         \/ armed' = FALSE /\ unarmed' = TRUE

OnEvent ==
  /\ worker = "events" /\ events # <<>>
  /\ \/ /\ Head(events) = "NeedInput"
        /\ needs' = needs + 1
        /\ UNCHANGED <<mft, output, lost, failures, waiting, acked>>
     \/ /\ Head(events) = "HaveOutput"
        /\ ProcessOneOutput
        /\ UNCHANGED <<needs, waiting, acked>>
     \/ /\ Head(events) = "DrainComplete"
        /\ SendAck(waiting) /\ waiting' = NoDrain
        /\ UNCHANGED <<mft, output, lost, failures, needs>>
  /\ Rearm
  /\ events' = Tail(events)
  /\ UNCHANGED <<callerVars, input, cmd, shutdown, worker, pending, unheard, leaked>>

\* Mutant: the ack is sent once the transform was told to drain.
CommandDrainAcks(d) ==
  /\ mft' = [mft EXCEPT !.phase = "draining"]
  /\ SendAck(d) /\ waiting' = NoDrain /\ UNCHANGED failures

\* A drain replaces the one that waits; a failed command is acked at once.
CommandDrain(d) ==
  \/ /\ mft' = [mft EXCEPT !.phase = "draining"]
     /\ waiting' = d /\ UNCHANGED <<acked, failures>>
  \/ /\ Fails
     /\ SendAck(d) /\ waiting' = NoDrain /\ UNCHANGED mft

OnCommand ==
  /\ worker = "cmds" /\ cmd # <<>>
  /\ \/ /\ Head(cmd) < 0
        /\ mft' \in {mft, [mft EXCEPT !.idr = TRUE]}   \* best effort: ICodecAPI, SetValue
        /\ UNCHANGED <<waiting, acked, failures>>
     \/ Head(cmd) > 0 /\ CommandDrain(Head(cmd))
  /\ cmd' = Tail(cmd)
  /\ UNCHANGED <<callerVars, input, output, shutdown, worker, needs, pending, eventVars, lost,
                 leaked>>

\* The oldest frame makes room.
Queued(q) == IF Len(q) >= MaxPending THEN Tail(q) ELSE q

OnInput ==
  /\ worker = "inputs" /\ input # <<>>
  /\ pending' = Append(Queued(pending), Head(input))
  /\ lost' = lost \cup (ToSet(pending) \ ToSet(Queued(pending)))
  /\ input' = Tail(input)
  /\ UNCHANGED <<callerVars, cmd, output, acked, shutdown, worker, needs, waiting, eventVars,
                 mft, leaked, failures>>

\* ProcessInput: the transform takes the frame, as a keyframe when one is due.
Accept(f) ==
  mft' = [mft EXCEPT !.inq = Append(@, f), !.credits = @ - 1, !.idr = FALSE]

\* Mutant: a refused frame costs its credit.
NeedsAfterErrorKept == needs - 1

NeedsAfterError == needs

OnMatch ==
  /\ worker = "match" /\ needs > 0 /\ pending # <<>>
  /\ pending' = Tail(pending)
  /\ \/ /\ mft.phase = "on" /\ mft.credits > 0
        /\ Accept(Head(pending)) /\ needs' = needs - 1
        /\ UNCHANGED <<lost, leaked, failures>>
     \/ /\ mft.phase # "on" \/ mft.credits = 0   \* ProcessInput refuses it
        /\ needs' = NeedsAfterError
        /\ lost' = lost \cup {Head(pending)}
        /\ UNCHANGED <<mft, leaked, failures>>
     \/ /\ Fails /\ needs' = NeedsAfterError     \* ProcessInput fails
        /\ lost' = lost \cup {Head(pending)}
        /\ UNCHANGED <<mft, leaked>>
     \/ /\ Fails /\ needs' = needs - 1           \* make_input_sample fails
        /\ lost' = lost \cup {Head(pending)}
        /\ leaked' = leaked + 1
        /\ UNCHANGED mft
  /\ UNCHANGED <<callerVars, chanVars, worker, waiting, eventVars>>

\* A while loop over a queue ends when it finds nothing; then comes the next one.
Empty(step) == CASE step = "events" -> events = <<>>
                 [] step = "cmds" -> cmd = <<>>
                 [] step = "inputs" -> input = <<>>
                 [] step = "match" -> needs = 0 \/ pending = <<>>
After == [events |-> "cmds", cmds |-> "inputs", inputs |-> "match", match |-> "top"]

NextLoop ==
  /\ worker \in DOMAIN After /\ Empty(worker)
  /\ worker' = After[worker]
  /\ UNCHANGED <<callerVars, chanVars, needs, pending, waiting, eventVars, mft, lost, leaked,
                 failures>>

-----------------------------------------------------------------------------
Worker == Setup \/ Top \/ OnEvent \/ OnCommand \/ OnInput \/ OnMatch \/ NextLoop
Caller == TryNew \/ EncodeRgb \/ ForceKeyframe \/ DrainCall \/ DrainReturn \/ GoOn \/ Drop
          \/ JoinThread
Transform == AskInput \/ Encode \/ DrainDone \/ OtherEvent \/ Invoke

EncoderNext == Worker \/ Caller \/ Transform

\* The worker runs, Media Foundation keeps its contract and calls the bridge, a call
\* that waits returns.
EncoderFairness ==
  /\ WF_encoderVars(Worker)
  /\ WF_encoderVars(AskInput) /\ WF_encoderVars(Encode /\ MustEncode)
  /\ WF_encoderVars(DrainDone) /\ WF_encoderVars(Invoke)
  /\ WF_encoderVars(TryNew) /\ WF_encoderVars(DrainReturn)
  /\ WF_encoderVars(JoinThread)

EncoderSpec == EncoderInit /\ [][EncoderNext]_encoderVars /\ EncoderFairness

-----------------------------------------------------------------------------
(* Properties.                                                               *)

Steps == {"setup", "top", "events", "cmds", "inputs", "match", "done"}
Kinds == {"NeedInput", "HaveOutput", "DrainComplete", "Other"}
Frames == 1 .. NFrames

\* Every variable has its type; the worker's queue of frames stays within
\* MAX_PENDING_INPUTS, and at most one event is asked for or under way to the worker.
EncoderTypeOK ==
  /\ caller \in {"init", "idle", "drain", "drained", "drop", "gone", "failed"}
  /\ next \in 1 .. NFrames + 1 /\ calls \in 0 .. MaxCommands
  /\ {got, input, output, pending} \subseteq Seq(Frames)
  /\ cmd \in Seq(-(NFrames + 1) .. MaxCommands) /\ waiting \in 0 .. MaxCommands
  /\ acked \subseteq 1 .. MaxCommands
  /\ shutdown \in BOOLEAN /\ armed \in BOOLEAN
  /\ unheard \in BOOLEAN /\ unarmed \in BOOLEAN
  /\ worker \in Steps /\ events \in Seq(Kinds \ {"Other"})
  /\ needs \in Nat /\ leaked \in 0 .. MaxFailures /\ failures \in 0 .. MaxFailures
  /\ mft.phase \in {"off", "on", "draining", "drained"}
  /\ {mft.inq, mft.outq} \subseteq Seq(Frames) /\ mft.queue \in Seq(Kinds)
  /\ mft.credits \in 0 .. Depth /\ mft.idr \in BOOLEAN
  /\ lost \subseteq Frames
  /\ Len(pending) <= MaxPending
  /\ Len(events) + (IF armed THEN 1 ELSE 0) <= 1

\* Frames that went in come out once and in order: what the caller has, what is in the
\* output channel, in the transform, in the worker's queue and in the input channel are,
\* in this order, the frames it encoded without those that were given up (encode_rgb,
\* worker_loop, process_one_output).
FramesInOrder ==
  LET all == got \o output \o mft.outq \o mft.inq \o pending \o input
  IN  /\ \A i, j \in DOMAIN all : i < j => all[i] < all[j]
      /\ ToSet(all) = (1 .. next - 1) \ lost

Count(kind) == Cardinality({i \in DOMAIN mft.queue : mft.queue[i] = kind})
               + Cardinality({i \in DOMAIN events : events[i] = kind})

\* The worker's credits and the NeedInput events under way are the inputs the transform
\* asked for and did not get, but for credits lost with a frame no sample could be made
\* of; and each HaveOutput under way stands for one output (the credit-based flow of
\* worker_loop).
CreditBalance ==
  mft.phase # "off" => /\ needs + Count("NeedInput") + leaked = mft.credits
                       /\ Count("HaveOutput") = Len(mft.outq)

\* The worker's queue and the pump keep their limits, and no credit is lost or made
\* (worker_loop).
EncoderInv == EncoderTypeOK /\ CreditBalance

\* A drain that returns in time, and whose command did not fail, has brought back every
\* frame the transform took (drain, WorkerCmd::Drain).
DrainReturnsAccepted ==
  caller = "drained" /\ failures = 0 =>
    mft.inq = <<>> /\ mft.outq = <<>> /\ output = <<>>

\* Events are heard of and asked for, credits are left and the transform was not drained.
Served == ~unheard /\ ~unarmed /\ leaked < Depth - Lag /\ mft.phase \notin {"draining", "drained"}

Queue(n) == n \in ToSet(input \o pending)

\* A frame does not wait for ever: it goes to the transform or is given up, as long as
\* the event pump runs (no event of another type came, no BeginGetEvent failed), credits
\* are left and no drain ended the stream, or the encoder is dropped (worker_loop).
FramesFlow ==
  \A n \in Frames : Queue(n) /\ Served ~> ~Queue(n) \/ ~Served \/ shutdown

\* Drop returns: the worker sees the flag whatever it has to do (Drop, worker_loop).
DropEnds == caller = "drop" ~> caller = "gone"

-----------------------------------------------------------------------------
(* What the comments say and the code does not do.                           *)

\* "Le worker re-arm de toute facon a chaque event recu" (invoke_inner): the pump goes on
\* after an event the bridge drops.
PumpGoesOn == \A n \in Frames : Queue(n) ~> ~Queue(n) \/ shutdown \/ unarmed

\* "une commande au worker qui appellera ... avant le prochain ProcessInput", "Force le
\* prochain frame a etre un keyframe" (force_keyframe).
NextFrameIsKey == \A n \in ToSet(mft.inq) : ForceAt(n) \notin ToSet(cmd)

\* "Bloque jusqu'a ce que le worker ait draine tous les NAL pending" (drain): no frame
\* encoded before is left or given up.
DrainReturnsAll ==
  caller = "drained" /\ failures = 0 => ToSet(got) \cup lost = 1 .. next - 1

\* "Boucle worker - bloque jusqu'a shutdown ou disconnect" (try_new).
WorkerFollowsOwner == caller = "failed" ~> worker = "done"
=============================================================================
