------------------------- MODULE MasterSwitch_proofs ------------------------
(* Proofs about MasterSwitch, for any set of peers and any number of        *)
(* captures, overlapping or not.                                            *)
EXTENDS MasterSwitch, FiniteSetTheorems, TLAPS

\* An event is copied once per installed hook, a natural number of times.
LEMMA CopiesType == TypeOK => Cardinality(Hooked) \in Nat
<1>1. IsFiniteSet(Capture)
  BY FS_Interval, BoundAssumption DEF Capture
<1>2. Hooked \subseteq Capture
  BY DEF Hooked
<1>3. IsFiniteSet(Hooked)
  BY <1>1, <1>2, FS_Subset
<1> QED BY <1>3, FS_CardinalityType

\* What on_input can decide is well typed, and a switch makes its target current.
LEMMA OnInputType ==
  ASSUME TypeOK, NEW e \in Event, NEW d \in OnInput(e)
  PROVE  /\ d[1] \in Peer \cup {None}
         /\ d[2] \in Peer \cup {None}
         /\ d[3] \in BOOLEAN
<1> SUFFICES \E x, y \in Peer \cup {None}, h \in BOOLEAN : d = <<x, y, h>>
  OBVIOUS
<1>1. CASE e = "inside"
  BY <1>1 DEF OnInput, MouseMove, TypeOK
<1>2. CASE e = "edge"
  BY <1>2 DEF OnInput, MouseMove, TypeOK
<1>3. CASE e \notin {"inside", "edge"}
  BY <1>3 DEF OnInput, Hotkey, TypeOK
<1> QED BY <1>1, <1>2, <1>3

\* The two ways a loop writes its request keep it equal to "has a target".
LEMMA RequestSet ==
  ASSUME TypeOK, RequestFollowsTarget, NEW c \in Capture,
         NEW p \in Peer \cup {None}, NEW value \in BOOLEAN,
         value <=> p # None, SetTarget(c, p), Suppress(c, value)
  PROVE  /\ RequestFollowsTarget'
         /\ watch' \in [Capture -> BOOLEAN] /\ dirty' \in [Capture -> BOOLEAN]
         /\ current_target' \in [Capture -> Peer \cup {None}]
         /\ current_target'[c] = p
         /\ \A b \in Capture : b # c => current_target'[b] = current_target[b]
BY DEF TypeOK, RequestFollowsTarget, SetTarget, Suppress

\* Stopping a capture touches its own thread only.
LEMMA StoppedThreads ==
  ASSUME TypeOK, NEW threads \in Stopped(capture_handle)
  PROVE  /\ threads \in [Capture -> {"none", "starting", "published", "reported", "doomed",
                                      "hooked", "quitting", "ended"}]
         /\ \A c \in Capture : c # capture_handle => threads[c] = thread[c]
BY DEF Stopped, TypeOK

\* Start of captures and hook threads: the stored handle stays that of a hooked
\* thread whose loop was spawned.
LEMMA CaptureSteps ==
  ASSUME Inv, NEW c \in Capture, Start(c) \/ HookThread(c) \/ StopMaster
  PROVE  Inv'
<1> USE DEF Inv, TypeOK, Capture, captureVars, loopVars, engineVars, registryVars,
            Label
<1>1. CASE BecomeMaster(c)
  BY <1>1, BoundAssumption DEF BecomeMaster, RequestFollowsTarget, TargetWhenNeeded,
                         HandleIsHooked, HandleHasLoop
<1>2. CASE StartFails(c)
  BY <1>2, BoundAssumption DEF StartFails, RequestFollowsTarget, TargetWhenNeeded,
                         HandleIsHooked, HandleHasLoop
<1>3. CASE BecomeMasterDone(c)
  <2>1. capture_handle # c
    BY <1>3 DEF BecomeMasterDone, HandleHasLoop
  <2>2. /\ thread' \in [Capture -> {"none", "starting", "published", "reported", "doomed",
                                   "hooked", "quitting", "ended"}]
        /\ thread'[c] = thread[c]
    BY <1>3, <2>1, StoppedThreads DEF BecomeMasterDone
  <2> QED BY <1>3, <2>1, <2>2, BoundAssumption DEF BecomeMasterDone,
             RequestFollowsTarget, TargetWhenNeeded, HandleIsHooked, HandleHasLoop
<1>4. CASE StopMaster
  <2>1. thread' \in [Capture -> {"none", "starting", "published", "reported", "doomed",
                                "hooked", "quitting", "ended"}]
    BY <1>4, StoppedThreads DEF StopMaster
  <2> QED BY <1>4, <2>1, BoundAssumption DEF StopMaster, RequestFollowsTarget,
             TargetWhenNeeded, HandleIsHooked, HandleHasLoop
<1>5. CASE Publish(c)
  <2>1. capture_handle = c => thread'[c] \in {"reported", "hooked"}
    BY <1>5 DEF Publish, HandleIsHooked
  <2> QED BY <1>5, <2>1, BoundAssumption DEF Publish, RequestFollowsTarget,
             TargetWhenNeeded, HandleIsHooked, HandleHasLoop
<1>7. CASE ReportTid(c)
  <2>1. capture_handle = c => thread'[c] \in {"reported", "hooked"}
    BY <1>7 DEF ReportTid, HandleIsHooked
  <2> QED BY <1>7, <2>1, BoundAssumption DEF ReportTid, RequestFollowsTarget,
             TargetWhenNeeded, HandleIsHooked, HandleHasLoop
<1>8. CASE HookInstall(c)
  <2>1. PICK before \in {"reported", "doomed"}, after \in {"hooked", "quitting"} :
           /\ thread[c] = before /\ thread' = [thread EXCEPT ![c] = after]
           /\ before = "reported" => after = "hooked"
    <3>1. CASE thread[c] = "reported"
      BY <1>8, <3>1 DEF HookInstall
    <3>2. CASE thread[c] = "doomed"
      BY <1>8, <3>2 DEF HookInstall
    <3> QED BY <1>8, <3>1, <3>2 DEF HookInstall
  <2>2. UNCHANGED <<capture_handle, HOOK_STATE, SUPPRESS, queue, dirty, pc, current_target,
                    dest, watch, adrift, current, last_edge_hit, sessions, chan, grid,
                    registering, closing>>
    BY <1>8 DEF HookInstall
  <2>3. HandleIsHooked'
    BY <2>1, <2>2 DEF HandleIsHooked
  <2>4. TypeOK'
    BY <2>1, <2>2
  <2> QED BY <2>2, <2>3, <2>4 DEF RequestFollowsTarget, TargetWhenNeeded, HandleHasLoop
<1>6. CASE HookQuit(c)
  BY <1>6, BoundAssumption DEF HookQuit, RequestFollowsTarget, TargetWhenNeeded,
                         HandleIsHooked, HandleHasLoop
<1> QED BY <1>1, <1>2, <1>3, <1>4, <1>5, <1>6, <1>7, <1>8 DEF Start, HookThread

\* User input and the watcher do not touch what the loops decided.
LEMMA InputSteps ==
  ASSUME Inv, (\E e \in Event : Input(e)) \/ (\E c \in Capture : StoreSuppress(c))
  PROVE  Inv'
<1> USE DEF Inv, captureVars, loopVars, engineVars, registryVars
<1>1. ASSUME NEW e \in Event, Input(e) PROVE Inv'
  <2>1. queue' \in [Capture -> Seq(Event)]
    <3> DEFINE copies == IF SUPPRESS THEN 1 ELSE Cardinality(Hooked)
    <3>1. copies \in Nat
      BY CopiesType
    <3>2. HOOK_STATE \in Capture
      BY <1>1 DEF Input, TypeOK
    <3>3. [i \in 1 .. copies |-> e] \in Seq(Event)
      BY <3>1
    <3>4. queue[HOOK_STATE] \o [i \in 1 .. copies |-> e] \in Seq(Event)
      BY <3>2, <3>3 DEF TypeOK
    <3> QED BY <1>1, <3>2, <3>4 DEF Input, TypeOK
  <2> QED BY <1>1, <2>1 DEF Input, TypeOK, RequestFollowsTarget, TargetWhenNeeded,
             HandleIsHooked, HandleHasLoop
<1>2. ASSUME NEW c \in Capture, StoreSuppress(c) PROVE Inv'
  BY <1>2 DEF StoreSuppress, TypeOK, RequestFollowsTarget, TargetWhenNeeded,
              HandleIsHooked, HandleHasLoop
<1> QED BY <1>1, <1>2

\* What a step of the loop of c owes the invariant: it leaves the captures and
\* the registry alone, keeps its request in line with its target, and goes to a
\* place where the target, or the decision, it needs is there.
LEMMA LoopFrame ==
  ASSUME Inv, NEW c \in Capture, NEW label \in Label \ {"none", "failed"},
         Goto(c, label),
         UNCHANGED <<capture_handle, HOOK_STATE, thread, SUPPRESS>>,
         UNCHANGED <<sessions, chan, grid, registering, closing>>,
         queue' \in [Capture -> Seq(Event)],
         current' \in Peer \cup {None}, last_edge_hit' \in BOOLEAN,
         RequestFollowsTarget',
         watch' \in [Capture -> BOOLEAN], dirty' \in [Capture -> BOOLEAN],
         current_target' \in [Capture -> Peer \cup {None}],
         dest' \in [Capture -> Peer \cup {None, Gone}], adrift' \in BOOLEAN,
         \A b \in Capture : b # c => /\ current_target'[b] = current_target[b]
                                     /\ dest'[b] = dest[b],
         label \in {"enter", "entering", "forward", "forwarding"}
           => current_target'[c] # None,
         label = "resolve" <=> dest'[c] # None
  PROVE  Inv'
<1>1. /\ pc' \in [Capture -> Label] /\ pc'[c] = label
      /\ \A b \in Capture : b # c => pc'[b] = pc[b]
  BY DEF Inv, TypeOK, Goto
<1>2. TypeOK'
  BY <1>1 DEF Inv, TypeOK
<1>3. TargetWhenNeeded'
  BY <1>1 DEF Inv, TargetWhenNeeded
<1>4. HandleIsHooked' /\ HandleHasLoop'
  BY <1>1 DEF Inv, HandleIsHooked, HandleHasLoop, TypeOK
<1> QED BY <1>2, <1>3, <1>4 DEF Inv

\* The two outcomes of a send, or of the lack of a session: carry on, or give up.
LEMMA CarryOnOrGiveUp ==
  ASSUME TypeOK, RequestFollowsTarget, NEW c \in Capture,
         \/ NoSuppress /\ UNCHANGED current_target
         \/ SetTarget(c, None) /\ Suppress(c, FALSE)
  PROVE  /\ RequestFollowsTarget'
         /\ watch' \in [Capture -> BOOLEAN] /\ dirty' \in [Capture -> BOOLEAN]
         /\ current_target' \in [Capture -> Peer \cup {None}]
         /\ \A b \in Capture : b # c => current_target'[b] = current_target[b]
<1>1. CASE NoSuppress /\ UNCHANGED current_target
  BY <1>1 DEF NoSuppress, TypeOK, RequestFollowsTarget
<1>2. CASE SetTarget(c, None) /\ Suppress(c, FALSE)
  BY <1>2, RequestSet
<1> QED BY <1>1, <1>2

\* The next event: the engine decides, and a return to local is noticed.
LEMMA RecvStep == ASSUME Inv, NEW c \in Capture, Recv(c) PROVE Inv'
<1> USE DEF Inv, captureVars, registryVars
<1>1. PICK d \in OnInput(Head(queue[c])) :
         /\ current' = d[2] /\ last_edge_hit' = d[3]
         /\ ReturnLocal(c, d[2])
         /\ dest' = [dest EXCEPT ![c] = d[1]]
         /\ Goto(c, IF d[1] # None THEN "resolve"
                    ELSE IF current_target'[c] # None THEN "forward" ELSE "recv")
  BY DEF Recv
<1>2. /\ queue[c] # <<>> /\ queue' = [queue EXCEPT ![c] = Tail(@)]
      /\ UNCHANGED <<capture_handle, thread, HOOK_STATE, SUPPRESS>>
      /\ UNCHANGED <<sessions, chan, grid, registering, closing>>
  BY DEF Recv
<1>3. Head(queue[c]) \in Event /\ Tail(queue[c]) \in Seq(Event)
  BY <1>2 DEF TypeOK
<1>4. d[1] \in Peer \cup {None} /\ d[2] \in Peer \cup {None} /\ d[3] \in BOOLEAN
  BY <1>3, OnInputType
<1>5. \/ NoSuppress /\ UNCHANGED current_target
      \/ SetTarget(c, None) /\ Suppress(c, FALSE)
  BY <1>1 DEF ReturnLocal
<1> DEFINE label == IF d[1] # None THEN "resolve"
                    ELSE IF current_target'[c] # None THEN "forward" ELSE "recv"
<1>6. label \in Label \ {"none", "failed"}
  BY DEF Label
<1>7. /\ queue' \in [Capture -> Seq(Event)]
      /\ dest' \in [Capture -> Peer \cup {None, Gone}] /\ dest'[c] = d[1]
      /\ adrift' \in BOOLEAN
      /\ \A b \in Capture : b # c => dest'[b] = dest[b]
  BY <1>1, <1>2, <1>3, <1>4 DEF TypeOK, Recv
<1>8. label \in {"enter", "entering", "forward", "forwarding"}
        => current_target'[c] # None
  OBVIOUS
<1>9. label = "resolve" <=> dest'[c] # None
  BY <1>7
<1>10. Goto(c, label)
  BY <1>1
<1> HIDE DEF label
<1> QED BY <1>1, <1>2, <1>4, <1>6, <1>7, <1>8, <1>9, <1>10, <1>5, CarryOnOrGiveUp,
           LoopFrame

\* The decision is mapped to a peer of the grid, or dropped.
LEMMA ResolveStep == ASSUME Inv, NEW c \in Capture, Resolve(c) PROVE Inv'
<1> USE DEF Inv, captureVars, registryVars, engineVars
<1>1. /\ UNCHANGED <<capture_handle, thread, HOOK_STATE, SUPPRESS, queue>>
      /\ UNCHANGED <<current, last_edge_hit>>
      /\ UNCHANGED <<sessions, chan, grid, registering, closing>>
      /\ dest' = [dest EXCEPT ![c] = None]
      /\ dest[c] \in Peer \cup {Gone} /\ adrift' \in BOOLEAN
  BY DEF Resolve, TypeOK, TargetWhenNeeded
<1>2. /\ dest' \in [Capture -> Peer \cup {None, Gone}] /\ dest'[c] = None
      /\ \A b \in Capture : b # c => dest'[b] = dest[b]
      /\ queue' \in [Capture -> Seq(Event)]
      /\ current' \in Peer \cup {None} /\ last_edge_hit' \in BOOLEAN
  BY <1>1 DEF TypeOK
<1>3. CASE dest[c] \notin grid
  <2>1. Goto(c, "recv") /\ NoSuppress /\ UNCHANGED current_target
    BY <1>3 DEF Resolve
  <2>2. "recv" \in Label \ {"none", "failed"}
    BY DEF Label
  <2> QED BY <1>1, <1>2, <2>1, <2>2, CarryOnOrGiveUp, LoopFrame
<1>4. CASE dest[c] \in grid
  <2>1. Goto(c, "enter") /\ Suppress(c, TRUE) /\ SetTarget(c, dest[c])
    BY <1>4 DEF Resolve
  <2>2. "enter" \in Label \ {"none", "failed"}
    BY DEF Label
  <2>3. dest[c] # None /\ dest[c] \in Peer
    BY <1>1, <1>4, NoneAssumption DEF TypeOK
  <2>4. /\ RequestFollowsTarget'
        /\ watch' \in [Capture -> BOOLEAN] /\ dirty' \in [Capture -> BOOLEAN]
        /\ current_target' \in [Capture -> Peer \cup {None}]
        /\ current_target'[c] = dest[c]
        /\ \A b \in Capture : b # c => current_target'[b] = current_target[b]
    BY <1>1, <2>1, <2>3, RequestSet
  <2> QED BY <1>1, <1>2, <2>1, <2>2, <2>3, <2>4, LoopFrame
<1> QED BY <1>3, <1>4

\* Steps that only move the loop along, its target being there or not needed.
LEMMA PlainLoopSteps ==
  ASSUME Inv, NEW c \in Capture, Enter(c) \/ EnterSent(c) \/ LoopEnd(c)
  PROVE  Inv'
<1> USE DEF Inv, captureVars, registryVars, engineVars, loopVars
<1>1. /\ UNCHANGED <<capture_handle, thread, HOOK_STATE, SUPPRESS, queue>>
      /\ UNCHANGED <<current, last_edge_hit, watch, dirty, current_target, dest, adrift>>
      /\ UNCHANGED <<sessions, chan, grid, registering, closing>>
      /\ \E label \in {"entering", "forward", "done"} :
            /\ Goto(c, label)
            /\ label # "done" => pc[c] \in {"enter", "entering"}
            /\ label = "done" => pc[c] = "recv"
  BY DEF Enter, EnterSent, LoopEnd
<1>2. PICK label \in {"entering", "forward", "done"} :
         /\ Goto(c, label)
         /\ label # "done" => pc[c] \in {"enter", "entering"}
         /\ label = "done" => pc[c] = "recv"
  BY <1>1
<1>3. /\ label \in Label \ {"none", "failed"}
      /\ label # "done" => current_target[c] # None
      /\ dest[c] = None
  BY <1>2 DEF Label, TargetWhenNeeded
<1>4. /\ RequestFollowsTarget'
      /\ queue' \in [Capture -> Seq(Event)]
      /\ current' \in Peer \cup {None} /\ last_edge_hit' \in BOOLEAN
      /\ watch' \in [Capture -> BOOLEAN] /\ dirty' \in [Capture -> BOOLEAN]
      /\ current_target' \in [Capture -> Peer \cup {None}]
      /\ dest' \in [Capture -> Peer \cup {None, Gone}] /\ adrift' \in BOOLEAN
  BY <1>1 DEF TypeOK, RequestFollowsTarget
<1> QED BY <1>1, <1>2, <1>3, <1>4, LoopFrame

\* Sending an event to the target: sent, blocked on its channel, or given up.
LEMMA ForwardSteps ==
  ASSUME Inv, NEW c \in Capture, Forward(c) \/ Forwarded(c)
  PROVE  Inv'
<1> USE DEF Inv, captureVars, registryVars, engineVars
<1>1. /\ UNCHANGED <<capture_handle, thread, HOOK_STATE, SUPPRESS, queue, dest>>
      /\ UNCHANGED <<current, last_edge_hit>>
      /\ UNCHANGED <<sessions, chan, grid, registering, closing>>
      /\ pc[c] \in {"forward", "forwarding"}
  BY DEF Forward, Forwarded
<1>2. /\ queue' \in [Capture -> Seq(Event)]
      /\ current' \in Peer \cup {None} /\ last_edge_hit' \in BOOLEAN
      /\ dest' \in [Capture -> Peer \cup {None, Gone}] /\ dest'[c] = None
      /\ current_target[c] # None
  BY <1>1 DEF TypeOK, TargetWhenNeeded
<1> adrift' \in BOOLEAN
  BY DEF Forward, Forwarded, Carry, GiveUp, TypeOK
<1>3. CASE Goto(c, "recv") /\ (Carry \/ GiveUp(c))
  <2>1. "recv" \in Label \ {"none", "failed"}
    BY DEF Label
  <2> QED BY <1>1, <1>2, <1>3, <2>1, CarryOnOrGiveUp, LoopFrame DEF Carry, GiveUp
<1>4. CASE Goto(c, "forwarding") /\ Carry
  <2>1. "forwarding" \in Label \ {"none", "failed"}
    BY DEF Label
  <2> QED BY <1>1, <1>2, <1>4, <2>1, CarryOnOrGiveUp, LoopFrame DEF Carry
<1> QED BY <1>3, <1>4 DEF Forward, Forwarded

\* The registry is no part of what the captures are bound to, beyond its type.
LEMMA RegistrySteps ==
  ASSUME Inv, (\E p \in Peer : Registry(p)) \/ StopServices
  PROVE  Inv'
<1> USE DEF Inv, captureVars, loopVars, engineVars
<1>1. /\ LoopsAside
      /\ dest' \in [Capture -> Peer \cup {None, Gone}]
      /\ \A c \in Capture : dest'[c] = None <=> dest[c] = None
  BY NoneAssumption DEF RegistryOnly, LoopsAside, TypeOK, Registry, StopServices, Register, RegisterGrid, SessionDies, Close,
         CloseGrid, Stall
<1>2. /\ sessions' \in SUBSET Peer /\ grid' \in SUBSET Peer
      /\ registering' \in SUBSET Peer /\ closing' \in SUBSET Peer
  BY DEF Registry, StopServices, Register, RegisterGrid, SessionDies, Close,
         CloseGrid, Stall, TypeOK
<1>3. chan' \in [Peer -> {"ok", "stalled", "closed"}]
  BY DEF Registry, StopServices, Register, RegisterGrid, SessionDies, Close,
         CloseGrid, Stall, TypeOK
<1>4. TypeOK'
  BY <1>1, <1>2, <1>3 DEF TypeOK, LoopsAside
<1>5. RequestFollowsTarget' /\ TargetWhenNeeded' /\ HandleIsHooked' /\ HandleHasLoop'
  BY <1>1 DEF LoopsAside, RequestFollowsTarget, TargetWhenNeeded, HandleIsHooked,
              HandleHasLoop
<1> QED BY <1>4, <1>5

-----------------------------------------------------------------------------

\* The program starts with no capture and an empty registry.
LEMMA InitHolds == Init => Inv
<1> SUFFICES ASSUME Init PROVE Inv
  OBVIOUS
<1>1. queue \in [Capture -> Seq(Event)]
  BY DEF Init
<1>2. pc \in [Capture -> Label] /\ chan \in [Peer -> {"ok", "stalled", "closed"}]
  BY DEF Init, Label
<1>3. TypeOK
  BY <1>1, <1>2 DEF Init, TypeOK
<1>4. RequestFollowsTarget /\ TargetWhenNeeded /\ HandleIsHooked /\ HandleHasLoop
  BY DEF Init, RequestFollowsTarget, TargetWhenNeeded, HandleIsHooked, HandleHasLoop
<1> QED BY <1>3, <1>4 DEF Inv

\* Every step of captures, loops, users and the registry keeps the invariant.
LEMMA InvStep == Inv /\ [Next]_vars => Inv'
<1> SUFFICES ASSUME Inv, [Next]_vars PROVE Inv'
  OBVIOUS
<1>1. CASE UNCHANGED vars
  BY <1>1 DEF vars, captureVars, loopVars, engineVars, registryVars, Inv, TypeOK,
     RequestFollowsTarget, TargetWhenNeeded, HandleIsHooked, HandleHasLoop
<1>2. ASSUME NEW c \in Capture, Start(c) \/ HookThread(c) \/ StopMaster PROVE Inv'
  BY <1>2, CaptureSteps
<1>3. ASSUME NEW c \in Capture, Loop(c) PROVE Inv'
  BY <1>3, RecvStep, ResolveStep, PlainLoopSteps, ForwardSteps DEF Loop
<1>4. ASSUME NEW c \in Capture, BlockedSend(c) PROVE Inv'
  BY <1>4, PlainLoopSteps, ForwardSteps DEF BlockedSend
<1>5. CASE (\E e \in Event : Input(e)) \/ \E c \in Capture : StoreSuppress(c)
  BY <1>5, InputSteps
<1>6. CASE (\E p \in Peer : Registry(p)) \/ StopServices
  BY <1>6, RegistrySteps
<1>7. CASE StopMaster
  <2>1. 1 \in Capture
    BY BoundAssumption DEF Capture
  <2> QED BY <1>7, <2>1, <1>2
<1> QED BY <1>1, <1>2, <1>3, <1>4, <1>5, <1>6, <1>7 DEF Next

\* The invariant holds at the start and is kept by every step, of any number of
\* captures whose threads, watchers and loops interleave freely.
THEOREM InvHolds == Spec => []Inv
BY InitHolds, InvStep, PTL DEF Spec

\* Every variable of the master side keeps its type.
THEOREM TypeOKHolds == Spec => []TypeOK
BY InvHolds, PTL DEF Inv

\* A capture asks the hooks to swallow input exactly while its loop has a target.
THEOREM RequestFollowsTargetHolds == Spec => []RequestFollowsTarget
BY InvHolds, PTL DEF Inv

\* The stored handle is that of a thread whose hooks are set, or about to be, and that
\* was not told to quit.
THEOREM HandleIsHookedHolds == Spec => []HandleIsHooked
BY InvHolds, PTL DEF Inv

-----------------------------------------------------------------------------
(* The master role when it is taken for the first time: one capture.        *)

\* What the static holds, once the watcher has stored the last request, is that
\* request.
Stored == \A c \in Capture : dirty[c] \/ (SUPPRESS <=> watch[c])

\* Nothing is routed to a peer while the engine is local; a decision being applied
\* is the engine's, if it still has a peer; and a target that was not given up, or
\* kept against a decision that had none, is the engine's current peer.
Routed ==
  \A c \in Capture :
     /\ current = None => current_target[c] = None
     /\ pc[c] = "resolve" => current # None /\ dest[c] \in {current, Gone}
     /\ ~adrift /\ pc[c] # "resolve" => current_target[c] = current

\* A hook thread, from its first step to its last, is the one the hooks send to.
Heard == \A c \in Capture :
            thread[c] \notin {"none", "starting", "ended"} => HOOK_STATE = c

AloneInv == Inv /\ Stored /\ Routed /\ Heard

\* A decision for a peer makes it the engine's current one; without a decision the
\* engine stays where it is or becomes local.
LEMMA DecidesCurrent ==
  ASSUME NEW e \in Event, NEW d \in OnInput(e)
  PROVE  /\ d[1] # None => d[2] = d[1]
         /\ d[1] = None => d[2] \in {None, current}
<1>1. CASE e \in {"inside", "edge"}
  <2>1. d \in MouseMove(e)
    BY <1>1 DEF OnInput
  <2>2. CASE current # None
    <3>1. d = <<None, current, last_edge_hit>>
      BY <2>1, <2>2 DEF MouseMove
    <3> QED BY <3>1
  <2>3. CASE current = None /\ e = "inside"
    <3>1. PICK hit \in {last_edge_hit, FALSE} : d = <<None, None, hit>>
      BY <2>1, <2>3 DEF MouseMove
    <3> QED BY <3>1
  <2>4. CASE current = None /\ e = "edge"
    <3>1. \/ d \in {<<None, None, last_edge_hit>>, <<None, None, TRUE>>}
          \/ d \in {<<p, p, FALSE>> : p \in {q \in grid : last_edge_hit}}
      BY <2>1, <2>4 DEF MouseMove
    <3>2. CASE d \in {<<None, None, last_edge_hit>>, <<None, None, TRUE>>}
      <4>1. PICK hit \in {last_edge_hit, TRUE} : d = <<None, None, hit>>
        BY <3>2
      <4> QED BY <4>1
    <3>3. CASE d \in {<<p, p, FALSE>> : p \in {q \in grid : last_edge_hit}}
      <4>1. PICK p \in {q \in grid : last_edge_hit} : d = <<p, p, FALSE>>
        BY <3>3
      <4>2. d[1] = d[2]
        BY <4>1
      <4> QED BY <4>2
    <3> QED BY <3>1, <3>2, <3>3
  <2> QED BY <1>1, <2>2, <2>3, <2>4
<1>2. CASE e \notin {"inside", "edge"}
  <2>1. \/ d = <<None, None, last_edge_hit>> \/ d = <<None, current, last_edge_hit>>
        \/ d = <<e, e, last_edge_hit>>
    BY <1>2 DEF OnInput, Hotkey
  <2>2. CASE d = <<e, e, last_edge_hit>>
    BY <2>2
  <2>3. CASE d = <<None, None, last_edge_hit>>
    BY <2>3
  <2>4. CASE d = <<None, current, last_edge_hit>>
    BY <2>4
  <2> QED BY <2>1, <2>2, <2>3, <2>4
<1> QED BY <1>1, <1>2

\* The engine, the loop and the request, on the way of an event.
LEMMA RoutedStep ==
  ASSUME MaxCapture = 1, Inv, Routed, [Next]_vars
  PROVE  Routed'
<1>0. Capture = {1}
  BY BoundAssumption DEF Capture
<1>1. CASE UNCHANGED <<current, current_target, pc, dest, adrift>>
  BY <1>1 DEF Routed
<1>2. ASSUME NEW c \in Capture, Recv(c) PROVE Routed'
  <2>0. pc[c] = "recv" /\ Head(queue[c]) \in Event
    BY <1>2 DEF Recv, Inv, TypeOK
  <2>1. PICK d \in OnInput(Head(queue[c])) :
           /\ current' = d[2] /\ ReturnLocal(c, d[2])
           /\ dest' = [dest EXCEPT ![c] = d[1]]
           /\ Goto(c, IF d[1] # None THEN "resolve"
                      ELSE IF current_target'[c] # None THEN "forward" ELSE "recv")
    BY <1>2 DEF Recv
  <2>2. /\ d[1] # None => d[2] = d[1]
        /\ d[1] = None => d[2] \in {None, current}
    BY <2>0, DecidesCurrent
  <2>3. /\ current' = None => current_target'[c] = None
        /\ current' # None => current_target'[c] = current_target[c]
    BY <2>1 DEF ReturnLocal, SetTarget, Inv, TypeOK
  <2>4. /\ pc'[c] = "resolve" <=> d[1] # None
        /\ dest'[c] = d[1]
    BY <2>1 DEF Goto, Inv, TypeOK
  <2>5. adrift' = (adrift /\ current' # None)
    BY <1>2 DEF Recv
  <2>6. ~adrift' /\ d[1] = None => current_target'[c] = current'
    BY <2>0, <2>1, <2>2, <2>3, <2>5 DEF Routed
  <2> QED BY <1>0, <2>1, <2>2, <2>3, <2>4, <2>6 DEF Routed
<1>3. ASSUME NEW c \in Capture, Resolve(c) PROVE Routed'
  <2>1. current' = current /\ current # None /\ dest[c] \in {current, Gone}
    BY <1>3 DEF Resolve, Routed, engineVars
  <2>2. CASE dest[c] \notin grid
    <3>1. pc' = [pc EXCEPT ![c] = "recv"] /\ adrift'
      BY <1>3, <2>2 DEF Resolve, Goto
    <3> QED BY <1>0, <2>1, <3>1 DEF Routed, Inv, TypeOK
  <2>3. CASE dest[c] \in grid
    <3>1. /\ pc' = [pc EXCEPT ![c] = "enter"]
          /\ current_target' = [current_target EXCEPT ![c] = dest[c]]
      BY <1>3, <2>3 DEF Resolve, Goto, SetTarget
    <3>2. dest[c] = current
      BY <2>1, <2>3, NoneAssumption DEF Inv, TypeOK
    <3> QED BY <1>0, <2>1, <3>1, <3>2 DEF Routed, Inv, TypeOK
  <2> QED BY <2>2, <2>3
<1>4. ASSUME NEW c \in Capture,
             Enter(c) \/ EnterSent(c) \/ Forward(c) \/ Forwarded(c) \/ LoopEnd(c)
      PROVE  Routed'
  <2>1. /\ current' = current
        /\ \/ current_target' = current_target /\ adrift' = adrift
           \/ current_target' = [current_target EXCEPT ![c] = None] /\ adrift'
    BY <1>4 DEF Enter, EnterSent, Forward, Forwarded, LoopEnd, engineVars, GiveUp, SetTarget,
       Carry
  <2>2. /\ pc[c] # "resolve"
        /\ \E label \in {"entering", "forward", "recv", "forwarding", "done"} :
              pc' = [pc EXCEPT ![c] = label]
    BY <1>4 DEF Enter, EnterSent, Forward, Forwarded, LoopEnd, Goto
  <2> QED BY <1>0, <2>1, <2>2 DEF Routed, Inv, TypeOK
<1>5. ASSUME NEW c \in Capture, Start(c) PROVE Routed'
  <2>1. UNCHANGED <<current, current_target, dest, adrift>>
    BY <1>5 DEF Start, BecomeMaster, BecomeMasterDone, StartFails, engineVars, loopVars
  <2>2. \/ pc' = pc
        \/ /\ pc[c] = "none"
           /\ pc' = [pc EXCEPT ![c] = "recv"] \/ pc' = [pc EXCEPT ![c] = "failed"]
    BY <1>5 DEF Start, BecomeMaster, BecomeMasterDone, StartFails, loopVars
  <2> QED BY <1>0, <2>1, <2>2 DEF Routed, Inv, TypeOK
<1>6. ASSUME (\E p \in Peer : Registry(p)) \/ StopServices PROVE Routed'
  <2>1. /\ UNCHANGED <<current, current_target, pc, adrift>>
        /\ \/ dest' = dest
           \/ \E p \in Peer :
                 dest' = [c \in Capture |-> IF dest[c] = p THEN Gone ELSE dest[c]]
    BY <1>6 DEF Registry, Register, RegisterGrid, SessionDies, Close, CloseGrid, Stall,
       StopServices, RegistryOnly, LoopsAside, engineVars
  <2> QED BY <1>1, <2>1 DEF Routed
<1>7. ASSUME \/ \E c \in Capture : HookThread(c) \/ StoreSuppress(c)
             \/ StopMaster \/ \E e \in Event : Input(e)
             \/ UNCHANGED vars
      PROVE  Routed'
  BY <1>1, <1>7 DEF HookThread, Publish, ReportTid, HookInstall, HookQuit, StoreSuppress,
     StopMaster, Input, vars, loopVars, engineVars
<1> QED BY <1>2, <1>3, <1>4, <1>5, <1>6, <1>7 DEF Next, Loop, BlockedSend

\* The watcher and the requests of the loop.
LEMMA StoredStep ==
  ASSUME MaxCapture = 1, Inv, Stored, [Next]_vars
  PROVE  Stored'
<1>0. Capture = {1}
  BY BoundAssumption DEF Capture
<1>1. CASE UNCHANGED <<SUPPRESS, watch, dirty>>
  BY <1>1 DEF Stored
<1>2. ASSUME NEW c \in Capture, NEW value \in BOOLEAN, Suppress(c, value) PROVE Stored'
  BY <1>0, <1>2 DEF Suppress, Stored, Inv, TypeOK
<1>3. ASSUME NEW c \in Capture, StoreSuppress(c) PROVE Stored'
  BY <1>0, <1>3 DEF StoreSuppress, loopVars, Stored, Inv, TypeOK
<1>4. ASSUME NEW c \in Capture, Loop(c) \/ BlockedSend(c) PROVE Stored'
  <2>1. SUPPRESS' = SUPPRESS
    BY <1>4 DEF Loop, BlockedSend, Recv, Resolve, Enter, EnterSent, Forward, Forwarded, LoopEnd
  <2>2. UNCHANGED <<watch, dirty>> \/ Suppress(c, TRUE) \/ Suppress(c, FALSE)
    BY <1>4 DEF Loop, BlockedSend, Recv, Resolve, Enter, EnterSent, Forward, Forwarded, LoopEnd,
       ReturnLocal, GiveUp, Carry, NoSuppress
  <2> QED BY <1>1, <1>2, <2>1, <2>2
<1>5. ASSUME \/ \E c \in Capture : Start(c) \/ HookThread(c)
             \/ StopMaster \/ \E e \in Event : Input(e)
             \/ (\E p \in Peer : Registry(p)) \/ StopServices
             \/ UNCHANGED vars
      PROVE  Stored'
  BY <1>1, <1>5 DEF Start, BecomeMaster, BecomeMasterDone, StartFails, HookThread, Publish,
     ReportTid, HookInstall, HookQuit, StopMaster, Input, Registry, Register, RegisterGrid, SessionDies, Close, CloseGrid,
     Stall, StopServices, RegistryOnly, LoopsAside, vars, loopVars
<1> QED BY <1>3, <1>4, <1>5 DEF Next

\* The hook thread and the channel the hooks send to.
LEMMA HeardStep ==
  ASSUME MaxCapture = 1, Inv, Heard, [Next]_vars
  PROVE  Heard'
<1>0. Capture = {1} /\ capture_handle \in {0, 1}
  BY BoundAssumption DEF Capture, Inv, TypeOK
<1>1. CASE UNCHANGED <<thread, HOOK_STATE>>
  BY <1>1 DEF Heard
<1>2. ASSUME NEW c \in Capture, Start(c) \/ HookThread(c) \/ StopMaster PROVE Heard'
  <2>1. CASE BecomeMaster(c) \/ StartFails(c)
    BY <1>0, <2>1 DEF BecomeMaster, StartFails, captureVars, Heard, Inv, TypeOK
  <2>2. CASE BecomeMasterDone(c) \/ StopMaster
    BY <1>0, <2>2 DEF BecomeMasterDone, StopMaster, Stopped, Heard, Inv, TypeOK, HandleIsHooked
  <2>3. CASE HookThread(c)
    BY <1>0, <2>3 DEF HookThread, Publish, ReportTid, HookInstall, HookQuit, Heard, Inv, TypeOK
  <2> QED BY <1>2, <2>1, <2>2, <2>3 DEF Start
<1>3. ASSUME \/ \E c \in Capture : Loop(c) \/ BlockedSend(c) \/ StoreSuppress(c)
             \/ \E e \in Event : Input(e)
             \/ (\E p \in Peer : Registry(p)) \/ StopServices
             \/ UNCHANGED vars
      PROVE  Heard'
  BY <1>1, <1>3 DEF Loop, BlockedSend, Recv, Resolve, Enter, EnterSent, Forward, Forwarded,
     LoopEnd, StoreSuppress, Input, Registry, Register, RegisterGrid, SessionDies, Close, CloseGrid,
     Stall, StopServices, RegistryOnly, LoopsAside, vars, captureVars
<1> QED BY <1>0, <1>2, <1>3 DEF Next

\* In a first term as master, for as long as it lasts, at every step of the peers, the
\* user and the registry: the hooks swallow input exactly while the loop routes it to a
\* peer and send to the loop the handle controls; loop and engine have the cursor in
\* the same place between two decisions unless the loop abandoned the last one or gave
\* its target up; and an engine that is local routes nothing (state.rs, become_master).
THEOREM MasterAgreesHolds == ASSUME MaxCapture = 1 PROVE Spec => []MasterAgrees
<1>1. Init => AloneInv
  BY InitHolds DEF Init, AloneInv, Stored, Routed, Heard
<1>2. AloneInv /\ [Next]_vars => AloneInv'
  BY InvStep, RoutedStep, StoredStep, HeardStep DEF AloneInv
<1>3. AloneInv => MasterAgrees
  <2> SUFFICES ASSUME AloneInv PROVE MasterAgrees
    OBVIOUS
  <2>1. SuppressedIffAway
    BY DEF AloneInv, Inv, TypeOK, SuppressedIffAway, Settled, Stored, RequestFollowsTarget
  <2>2. LocalEngineRoutesNothing /\ LoopFollowsEngine
    BY DEF AloneInv, Routed, LocalEngineRoutesNothing, LoopFollowsEngine
  <2>3. MasterHearsHooks
    BY DEF AloneInv, Inv, TypeOK, MasterHearsHooks, HandleIsHooked, Heard
  <2> QED BY <2>1, <2>2, <2>3 DEF MasterAgrees
<1> QED BY <1>1, <1>2, <1>3, PTL DEF Spec
=============================================================================
