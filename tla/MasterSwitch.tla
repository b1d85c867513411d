---------------------------- MODULE MasterSwitch ----------------------------
(***************************************************************************)
(* The master side of keyboard and mouse sharing: the Win32 hooks and      *)
(* their two process-wide statics (okvm-input-capture, win32.rs), the      *)
(* master loop (state.rs, become_master), the SwitchEngine (okvm-switch),  *)
(* and the registry of sessions it looks its target up in.                 *)
(*                                                                         *)
(* Every call of become_master that gets past its first check creates a    *)
(* capture: a hook thread, a channel of input events, a watch channel      *)
(* carrying the suppression request, and one master loop.  Captures are    *)
(* numbered.  Geometry is abstracted: a point is inside the local screens  *)
(* or past an edge behind which every peer of the grid may be the nearest. *)
(* Time is abstracted: the cooldown and the 20 ms dwell may or may not     *)
(* have elapsed.  A grid identifier is named by the peer it stands for as  *)
(* long as it does: a peer that comes back draws another one, and a        *)
(* decision that still has the old one is for Gone.                        *)
(***************************************************************************)
EXTENDS Naturals, Sequences, FiniteSets

CONSTANTS Peer,         \* the remote devices
          None,           \* no peer: Option::None of current and current_target
          Gone,           \* a grid identifier that has lost its peer
          MaxCapture,     \* bound: calls of become_master that start a capture
          QueueBound      \* bound: the user acts while fewer events are in flight

ASSUME NoneAssumption == None \notin Peer /\ Gone \notin Peer \cup {None}
ASSUME BoundAssumption == /\ MaxCapture \in Nat \ {0}
                          /\ QueueBound \in Nat

VARIABLES capture_handle,  \* AppState.capture_handle: 0, or the capture it holds
          HOOK_STATE,      \* static: 0, or the capture whose channel it sends to
          SUPPRESS,        \* static: the hooks swallow what they see
          thread,          \* capture -> life cycle of its hook thread
          queue,           \* capture -> events on their way to its loop
          watch,           \* capture -> last value given to suppress_tx.send
          dirty,           \* capture -> the watcher has a change to store
          pc,              \* capture -> where its master loop is
          current_target,  \* capture -> the loop's current_target
          dest,            \* capture -> target of the decision being applied
          current,         \* SwitchEngine.current
          last_edge_hit,   \* SwitchEngine.last_edge_hit is Some
          sessions,        \* devices with an entry in AppState.sessions
          chan,            \* device -> state of its session's input channel
          grid,            \* devices in the grid and in grid_id_by_device
          registering,     \* devices whose registration has the grid left to do
          closing,         \* devices whose on_close has the grid left to do
          adrift           \* history: the engine's last decision was not followed

captureVars == <<capture_handle, HOOK_STATE, thread>>
loopVars == <<pc, current_target, dest, watch, adrift>>
engineVars == <<current, last_edge_hit>>
registryVars == <<sessions, chan, grid, registering, closing>>
vars == <<captureVars, SUPPRESS, queue, dirty, loopVars, engineVars, registryVars>>

Capture == 1 .. MaxCapture

\* A hotkey with a digit is the peer it designates; "other" is any event the
\* engine never reacts to (key release, wheel, button).
Event == Peer \cup {"inside", "edge", "zero", "other"}

Init == /\ capture_handle = 0 /\ HOOK_STATE = 0 /\ SUPPRESS = FALSE
        /\ thread = [c \in Capture |-> "none"]
        /\ queue = [c \in Capture |-> <<>>]
        /\ watch = [c \in Capture |-> FALSE]
        /\ dirty = [c \in Capture |-> FALSE]
        /\ pc = [c \in Capture |-> "none"]
        /\ current_target = [c \in Capture |-> None]
        /\ dest = [c \in Capture |-> None]
        /\ current = None /\ last_edge_hit = FALSE
        /\ sessions = {} /\ grid = {} /\ registering = {} /\ closing = {}
        /\ chan = [p \in Peer |-> "closed"] /\ adrift = FALSE

-----------------------------------------------------------------------------
(* Captures: become_master, the hook thread and stop_master.               *)

\* become_master up to capture.start: the check, then a thread is spawned.
BecomeMaster(c) ==
  /\ capture_handle = 0
  /\ thread[c] = "none" /\ \A b \in 1 .. c-1 : thread[b] # "none"
  /\ thread' = [thread EXCEPT ![c] = "starting"]
  /\ UNCHANGED <<capture_handle, HOOK_STATE, SUPPRESS, queue, dirty, loopVars,
                 engineVars, registryVars>>

\* run_hook_thread, in its three steps: the channel is published, ...
Publish(c) ==
  /\ thread[c] = "starting"
  /\ thread' = [thread EXCEPT ![c] = "published"]
  /\ HOOK_STATE' = c
  /\ UNCHANGED <<capture_handle, SUPPRESS, queue, dirty, loopVars, engineVars,
                 registryVars>>

\* ... the thread id is reported, ...
ReportTid(c) ==
  /\ thread[c] = "published"
  /\ thread' = [thread EXCEPT ![c] = "reported"]
  /\ UNCHANGED <<capture_handle, HOOK_STATE, SUPPRESS, queue, dirty, loopVars,
                 engineVars, registryVars>>

\* ... and the hooks are set, perhaps with a WM_QUIT waiting already.
HookInstall(c) ==
  /\ \/ thread[c] = "reported" /\ thread' = [thread EXCEPT ![c] = "hooked"]
     \/ thread[c] = "doomed" /\ thread' = [thread EXCEPT ![c] = "quitting"]
  /\ UNCHANGED <<capture_handle, HOOK_STATE, SUPPRESS, queue, dirty, loopVars,
                 engineVars, registryVars>>

\* No thread id within two seconds: become_master fails, the thread lives on.
StartFails(c) ==
  /\ thread[c] \in {"starting", "published"} /\ pc[c] = "none"
  /\ pc' = [pc EXCEPT ![c] = "failed"]
  /\ UNCHANGED <<captureVars, SUPPRESS, queue, dirty, current_target, dest, watch,
                 adrift, engineVars, registryVars>>

\* Signalling stop, or dropping the handle that holds its sender, posts
\* WM_QUIT to the hook thread; a thread that has no message queue yet may
\* miss it.
Stopped(c) ==
  IF c = 0 THEN {thread}
  ELSE IF thread[c] = "reported" THEN {thread, [thread EXCEPT ![c] = "doomed"]}
  ELSE {[thread EXCEPT ![c] = "quitting"]}

\* The rest of become_master, once the thread id is there: the handle is stored
\* after the await, over whatever it holds by then, and the loop is spawned.
BecomeMasterDone(c) ==
  /\ thread[c] \in {"reported", "hooked"} /\ pc[c] = "none"
  /\ thread' \in Stopped(capture_handle)
  /\ capture_handle' = c
  /\ pc' = [pc EXCEPT ![c] = "recv"]
  /\ UNCHANGED <<HOOK_STATE, SUPPRESS, queue, dirty, current_target, dest, watch,
                 adrift, engineVars, registryVars>>

StopMaster ==
  /\ capture_handle # 0
  /\ thread' \in Stopped(capture_handle)
  /\ capture_handle' = 0
  /\ UNCHANGED <<HOOK_STATE, SUPPRESS, queue, dirty, loopVars, engineVars,
                 registryVars>>

\* The thread leaves its message loop: hooks removed, then HOOK_STATE cleared.
HookQuit(c) ==
  /\ thread[c] = "quitting"
  /\ thread' = [thread EXCEPT ![c] = "ended"]
  /\ HOOK_STATE' = 0
  /\ UNCHANGED <<capture_handle, SUPPRESS, queue, dirty, loopVars, engineVars,
                 registryVars>>

Hooked == {c \in Capture : thread[c] \in {"hooked", "quitting"}}

\* The user acts.  Every installed hook, newest first, forwards the event to
\* the channel in HOOK_STATE; one that swallows it ends the chain.
Input(e) ==
  LET copies == IF SUPPRESS THEN 1 ELSE Cardinality(Hooked) IN
  /\ Hooked # {} /\ HOOK_STATE # 0 /\ pc[HOOK_STATE] # "failed"
  /\ Len(queue[HOOK_STATE]) < QueueBound
  /\ queue' = [queue EXCEPT ![HOOK_STATE] = @ \o [i \in 1 .. copies |-> e]]
  /\ UNCHANGED <<captureVars, SUPPRESS, dirty, loopVars, engineVars, registryVars>>

\* The watcher task stores a changed request in the static.
StoreSuppress(c) ==
  /\ dirty[c]
  /\ SUPPRESS' = watch[c]
  /\ dirty' = [dirty EXCEPT ![c] = FALSE]
  /\ UNCHANGED <<captureVars, queue, loopVars, engineVars, registryVars>>

-----------------------------------------------------------------------------
(* SwitchEngine.on_input: the possible <<decision, current', edge hit'>> on  *)
(* an event; a decision is None (Stay) or the peer of a SwitchTo.           *)

MouseMove(e) ==
  CASE current # None -> {<<None, current, last_edge_hit>>}
    [] current = None /\ e = "inside" ->
         {<<None, None, last_edge_hit>>,                      \* in cooldown
          <<None, None, FALSE>>}
    [] current = None /\ e = "edge" ->
         {<<None, None, last_edge_hit>>, <<None, None, TRUE>>} \* no dwell yet
           \cup {<<p, p, FALSE>> : p \in {q \in grid : last_edge_hit}}

Hotkey(e) ==
  IF e = "zero" THEN {<<None, None, last_edge_hit>>}
  ELSE IF e \in grid THEN {<<e, e, last_edge_hit>>}
  ELSE {<<None, current, last_edge_hit>>}

OnInput(e) ==
  IF e \in {"inside", "edge"} THEN MouseMove(e)
  ELSE IF e = "other" THEN {<<None, current, last_edge_hit>>}
  ELSE Hotkey(e)

-----------------------------------------------------------------------------
(* The master loop, one action per lock it takes or await it may block on. *)

Suppress(c, value) == /\ watch' = [watch EXCEPT ![c] = value]
                      /\ dirty' = [dirty EXCEPT ![c] = TRUE]

NoSuppress == UNCHANGED <<watch, dirty>>

\* The request and the target stay as they are.
Carry == NoSuppress /\ UNCHANGED <<current_target, adrift>>

Goto(c, label) == pc' = [pc EXCEPT ![c] = label]

SetTarget(c, p) == current_target' = [current_target EXCEPT ![c] = p]

\* Mutant: the return of the engine to local is not noticed.
ReturnUnnoticed(c, engine_current) == NoSuppress /\ UNCHANGED current_target

\* A hotkey 0 shows only as the engine being local while the loop is not.
ReturnLocal(c, engine_current) ==
  IF engine_current = None /\ current_target[c] # None
  THEN SetTarget(c, None) /\ Suppress(c, FALSE)
  ELSE NoSuppress /\ UNCHANGED current_target

\* Next event: on_input under the lock of the engine, then the local return.
Recv(c) ==
  /\ pc[c] = "recv" /\ queue[c] # <<>>
  /\ \E d \in OnInput(Head(queue[c])) :
        /\ current' = d[2] /\ last_edge_hit' = d[3]
        /\ ReturnLocal(c, d[2])
        /\ dest' = [dest EXCEPT ![c] = d[1]]
        /\ Goto(c, IF d[1] # None THEN "resolve"
                   ELSE IF current_target'[c] # None THEN "forward" ELSE "recv")
  /\ adrift' = (adrift /\ current' # None)
  /\ queue' = [queue EXCEPT ![c] = Tail(@)]
  /\ UNCHANGED <<captureVars, SUPPRESS, registryVars>>

\* Mutant: the event is forwarded before the new target is recorded.
ResolveForgetsTarget(c) ==
  /\ pc[c] = "resolve"
  /\ Suppress(c, TRUE)
  /\ Goto(c, "enter")
  /\ dest' = [dest EXCEPT ![c] = None]
  /\ UNCHANGED <<captureVars, SUPPRESS, queue, current_target, adrift, engineVars,
                 registryVars>>

\* The grid identifier is mapped back to a device, or the event is abandoned.
Resolve(c) ==
  /\ pc[c] = "resolve"
  /\ \/ /\ dest[c] \notin grid
        /\ Goto(c, "recv")
        /\ adrift' = TRUE
        /\ NoSuppress /\ UNCHANGED current_target
     \/ /\ dest[c] \in grid
        /\ Suppress(c, TRUE)
        /\ SetTarget(c, dest[c])
        /\ adrift' = FALSE
        /\ Goto(c, "enter")
  /\ dest' = [dest EXCEPT ![c] = None]
  /\ UNCHANGED <<captureVars, SUPPRESS, queue, engineVars, registryVars>>

\* SwitchEnter is sent if the target has a session, and its failure ignored.
Enter(c) ==
  /\ pc[c] = "enter"
  /\ Goto(c, IF current_target[c] \in sessions /\ chan[current_target[c]] = "stalled"
             THEN "entering" ELSE "forward")
  /\ UNCHANGED <<captureVars, SUPPRESS, queue, dirty, current_target, dest, watch,
                 adrift, engineVars, registryVars>>

\* A send blocked on a full channel ends when that channel drains or closes,
\* whatever became of the registry entry it was cloned from meanwhile.
EnterSent(c) ==
  /\ pc[c] = "entering"
  /\ Goto(c, "forward")
  /\ UNCHANGED <<captureVars, SUPPRESS, queue, dirty, current_target, dest, watch,
                 adrift, engineVars, registryVars>>

\* Mutant: the target is forgotten but the suppression is left on.
GiveUpKeepsSuppress(c) == SetTarget(c, None) /\ NoSuppress /\ adrift' = TRUE

\* "cible disparue" and "input forward echec": back to local, but for the engine.
GiveUp(c) == SetTarget(c, None) /\ Suppress(c, FALSE) /\ adrift' = TRUE

\* Mutant: a missing session is taken for one that accepted the event.
ForwardToNobody(c) ==
  /\ pc[c] = "forward"
  /\ Goto(c, "recv")
  /\ UNCHANGED <<captureVars, SUPPRESS, queue, dirty, current_target, dest, watch,
                 adrift, engineVars, registryVars>>

\* The event goes to the session of the target, whichever it is by now.
Forward(c) ==
  LET target == current_target[c] IN
  /\ pc[c] = "forward"
  /\ \/ /\ target \notin sessions \/ chan[target] = "closed"
        /\ GiveUp(c)
        /\ Goto(c, "recv")
     \/ /\ target \in sessions /\ chan[target] = "ok"
        /\ Goto(c, "recv")
        /\ Carry
     \/ /\ target \in sessions /\ chan[target] = "stalled"
        /\ Goto(c, "forwarding")
        /\ Carry
  /\ UNCHANGED <<captureVars, SUPPRESS, queue, dest, engineVars, registryVars>>

Forwarded(c) ==
  /\ pc[c] = "forwarding"
  /\ Carry \/ GiveUp(c)
  /\ Goto(c, "recv")
  /\ UNCHANGED <<captureVars, SUPPRESS, queue, dest, engineVars, registryVars>>

\* rx.recv returns None once the queue is drained and no sender is left.
LoopEnd(c) ==
  /\ pc[c] = "recv" /\ queue[c] = <<>> /\ HOOK_STATE # c
  /\ Goto(c, "done")
  /\ UNCHANGED <<captureVars, SUPPRESS, queue, dirty, current_target, dest, watch,
                 adrift, engineVars, registryVars>>

-----------------------------------------------------------------------------
(* The registry, as far as the loop sees it.  Registration inserts the      *)
(* session, later the grid entry; on_close removes them in the same order.  *)

LoopsAside == UNCHANGED <<captureVars, SUPPRESS, queue, dirty, pc, current_target,
                          watch, adrift, engineVars>>

RegistryOnly == LoopsAside /\ UNCHANGED dest

Register(p) ==
  /\ p \notin registering
  /\ sessions' = sessions \cup {p}
  /\ chan' = [chan EXCEPT ![p] = "ok"]
  /\ registering' = registering \cup {p}
  /\ UNCHANGED <<grid, closing>> /\ RegistryOnly

RegisterGrid(p) ==
  /\ p \in registering
  /\ grid' = grid \cup {p}
  /\ registering' = registering \ {p}
  /\ UNCHANGED <<sessions, chan, closing>> /\ RegistryOnly

SessionDies(p) ==
  /\ p \in sessions /\ chan[p] # "closed"
  /\ chan' = [chan EXCEPT ![p] = "closed"]
  /\ UNCHANGED <<sessions, grid, registering, closing>> /\ RegistryOnly

Close(p) ==
  /\ p \in sessions /\ p \notin closing
  /\ sessions' = sessions \ {p}
  /\ chan' = [chan EXCEPT ![p] = "closed"]
  /\ closing' = closing \cup {p}
  /\ UNCHANGED <<grid, registering>> /\ RegistryOnly

\* The identifier goes with the entry: a decision that has it is for nobody.
CloseGrid(p) ==
  /\ p \in closing
  /\ grid' = grid \ {p}
  /\ closing' = closing \ {p}
  /\ dest' = [c \in Capture |-> IF dest[c] = p THEN Gone ELSE dest[c]]
  /\ UNCHANGED <<sessions, chan, registering>> /\ LoopsAside

\* stop_services: every session is dropped, the grid keeps its peers.
StopServices ==
  /\ sessions # {}
  /\ sessions' = {}
  /\ chan' = [p \in Peer |-> "closed"]
  /\ UNCHANGED <<grid, registering, closing>> /\ RegistryOnly

\* The remote or the network stops, and starts again, draining a session.
Stall(p) ==
  /\ \/ chan[p] = "ok" /\ chan' = [chan EXCEPT ![p] = "stalled"]
     \/ chan[p] = "stalled" /\ chan' = [chan EXCEPT ![p] = "ok"]
  /\ UNCHANGED <<sessions, grid, registering, closing>> /\ RegistryOnly

-----------------------------------------------------------------------------

Loop(c) == Recv(c) \/ Resolve(c) \/ Enter(c) \/ Forward(c) \/ LoopEnd(c)

BlockedSend(c) == EnterSent(c) \/ Forwarded(c)

Start(c) == BecomeMaster(c) \/ BecomeMasterDone(c) \/ StartFails(c)

HookThread(c) == Publish(c) \/ ReportTid(c) \/ HookInstall(c) \/ HookQuit(c)

Registry(p) == \/ Register(p) \/ RegisterGrid(p) \/ SessionDies(p)
               \/ Close(p) \/ CloseGrid(p) \/ Stall(p)

Next == \/ \E c \in Capture : \/ Start(c) \/ HookThread(c) \/ StoreSuppress(c)
                              \/ Loop(c) \/ BlockedSend(c)
        \/ StopMaster
        \/ \E e \in Event : Input(e)
        \/ \E p \in Peer : Registry(p)
        \/ StopServices

Spec == Init /\ [][Next]_vars

\* The loop and the watcher are spawned tasks: they run when they can.  Users,
\* peers and networks owe nothing, nor does a send blocked on one.
Fairness == \A c \in Capture : WF_vars(Loop(c)) /\ WF_vars(StoreSuppress(c))

FairSpec == Spec /\ Fairness

-----------------------------------------------------------------------------

Label == {"none", "failed", "recv", "resolve", "enter", "entering", "forward",
          "forwarding", "done"}

TypeOK ==
  /\ capture_handle \in {0} \cup Capture
  /\ HOOK_STATE \in {0} \cup Capture
  /\ SUPPRESS \in BOOLEAN
  /\ thread \in [Capture -> {"none", "starting", "published", "reported", "doomed",
                             "hooked", "quitting", "ended"}]
  /\ queue \in [Capture -> Seq(Event)]
  /\ watch \in [Capture -> BOOLEAN]
  /\ dirty \in [Capture -> BOOLEAN]
  /\ pc \in [Capture -> Label]
  /\ current_target \in [Capture -> Peer \cup {None}]
  /\ dest \in [Capture -> Peer \cup {None, Gone}]
  /\ current \in Peer \cup {None}
  /\ last_edge_hit \in BOOLEAN
  /\ sessions \in SUBSET Peer /\ grid \in SUBSET Peer
  /\ registering \in SUBSET Peer /\ closing \in SUBSET Peer
  /\ chan \in [Peer -> {"ok", "stalled", "closed"}]
  /\ adrift \in BOOLEAN

\* A capture asks for suppression exactly while its loop routes the input to a
\* peer, on every exit of the loop body: hotkey 0, a vanished target, a failed
\* send, an unmapped decision.
RequestFollowsTarget ==
  \A c \in Capture : watch[c] <=> current_target[c] # None

\* Where the loop uses its target, or the decision to apply, there is one.
TargetWhenNeeded ==
  \A c \in Capture :
     /\ pc[c] \in {"enter", "entering", "forward", "forwarding"}
           => current_target[c] # None
     /\ pc[c] = "resolve" <=> dest[c] # None

\* The handle the application holds is that of a capture whose hooks are set, or
\* about to be, and were not told to quit, whatever calls of become_master
\* overlapped.
HandleIsHooked ==
  capture_handle # 0 => thread[capture_handle] \in {"reported", "hooked"}

\* A handle is stored no earlier than its loop is spawned.
HandleHasLoop == capture_handle # 0 => pc[capture_handle] \notin {"none", "failed"}

Inv == /\ TypeOK
       /\ RequestFollowsTarget
       /\ TargetWhenNeeded
       /\ HandleIsHooked
       /\ HandleHasLoop

\* Nothing is on its way between the hooks and the statics.
Settled == \A c \in Capture :
              /\ thread[c] \in {"none", "hooked", "ended"}
              /\ queue[c] = <<>> /\ ~dirty[c]
              /\ pc[c] \in {"none", "failed", "recv", "done"}
              /\ thread[c] = "hooked" => pc[c] # "none"

\* While master, local input passes exactly when the cursor is local.
SuppressedIffAway ==
  Settled /\ capture_handle # 0 =>
     (SUPPRESS <=> current_target[capture_handle] # None)

\* When a loop considers the cursor local, so does the engine, which decides
\* whether the edges of the screen are watched.  (It does not after a give-up.)
EngineAgrees ==
  Settled /\ capture_handle # 0 =>
     (current_target[capture_handle] = None => current = None)

\* Loop and engine have the cursor in the same place whenever the loop is between
\* two decisions, unless it has not followed the engine's last one: its target had
\* left the grid, or the loop gave it up for lack of a session.
LoopFollowsEngine ==
  \A c \in Capture : ~adrift /\ pc[c] # "resolve" => current_target[c] = current

\* And even then nothing is routed to a peer while the engine is local.
LocalEngineRoutesNothing ==
  \A c \in Capture : pc[c] # "resolve" => (current = None => current_target[c] = None)

\* While master, the hooks feed the loop of the capture the handle controls.
MasterHearsHooks == Settled /\ capture_handle # 0 => HOOK_STATE = capture_handle

\* In a first term as master, on every exit of the loop body and whatever the peers
\* do meanwhile (state.rs, become_master): the static asks for suppression exactly
\* while the loop has a target, the hooks feed that loop, and its target is the
\* engine's, unless the loop has abandoned a decision or given a target up.
MasterAgrees == /\ SuppressedIffAway /\ MasterHearsHooks
                /\ LoopFollowsEngine /\ LocalEngineRoutesNothing

\* The loop waits for room in the channel of a session.
Blocked(c) == pc[c] \in {"entering", "forwarding"}

ZeroTyped(c) == \E i \in DOMAIN queue[c] : queue[c][i] = "zero"

\* Hotkey 0, once typed, is followed by the loop being local, whatever was decided,
\* resolved and sent before it is read, unless a send of the loop never ends.
HotkeyReturnsLocal ==
  \A c \in Capture : []<>~Blocked(c) => (ZeroTyped(c) ~> current_target[c] = None)

\* The same of a user who counts on it whatever the peers do (README.md:130).
HotkeyAlwaysReturns ==
  \A c \in Capture : ZeroTyped(c) ~> current_target[c] = None

\* A user who goes on typing or moving the mouse is not kept on a peer that is
\* gone for good: the loop gives its target up, again each time a leftover grid
\* entry brings it back, unless a send never ends.  Hotkeys do not count: one that
\* designates a peer whose entry is gone when it is resolved is abandoned with the
\* old target in place.
VanishedTargetReleased ==
  \A c \in Capture, p \in Peer :
     /\ <>[](p \notin sessions)
     /\ []<>(queue[c] # <<>> /\ Head(queue[c]) \notin Peer)
     /\ []<>~Blocked(c)
     => []<>(current_target[c] # p)
=============================================================================
