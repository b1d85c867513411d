---------------------------- MODULE InputRouting ----------------------------
(***************************************************************************)
(* What becomes of the user's input while a machine is the master: the     *)
(* hooks that see it (okvm-input-capture, win32.rs), the SwitchEngine and  *)
(* the grid that decide where it goes (okvm-switch), the master loop that  *)
(* sends it there (state.rs, become_master), and the machine it is         *)
(* injected on (okvm-input-inject, win32.rs).                              *)
(*                                                                         *)
(* MasterSwitch has the concurrency of this path: captures that overlap,   *)
(* sends that block, a registry that changes between two locks.  Here a    *)
(* capture is installed, one iteration of the loop is one step, a peer's   *)
(* session and its grid entry come and go together, and geometry, time,    *)
(* keys and cursors are those of the code.                                 *)
(*                                                                         *)
(* Time is counted in steps of 20 ms, and a clock stops where it has       *)
(* passed its threshold.  A mouse button is a key, and the move its event  *)
(* makes first, or a wheel's does, is a move.                              *)
(***************************************************************************)
EXTENDS Grid, Sequences

CONSTANTS Peer,        \* the remote devices
          Me,            \* the local machine
          None,          \* Option::None
          Layout,        \* the sets of screens a peer may have
          Desktop,       \* the local screens
          Key,           \* what can be held: keys and mouse buttons
          DigitOf,       \* the digit keys, with the digit each one is
          Shift,         \* the displacements of the mouse
          QueueBound,    \* bound: the user acts while fewer events are queued
          GridBound      \* bound: peers are placed left of this abscissa

ASSUME KeyAssumption == /\ DOMAIN DigitOf \subseteq Key
                        /\ \A k \in DOMAIN DigitOf : DigitOf[k] \in 0 .. 9
ASSUME MachineAssumption == Me \notin Peer /\ None \notin Peer \cup {Me}
ASSUME ScreenAssumption ==
  \A screens \in Layout \cup {Desktop} :
     /\ IsFiniteSet(screens)
     /\ \E s \in screens : s.x = 0 /\ s.y = 0
     /\ \A s \in screens : s.x \in Int /\ s.y \in Int /\ s.w \in Nat \ {0} /\ s.h \in Nat \ {0}
ASSUME ShiftAssumption == Shift \subseteq Int \X Int
ASSUME BoundAssumption == {QueueBound, GridBound} \subseteq Nat \ {0}

VARIABLES grid,            \* SwitchEngine.grid, and the peers with a session
          current,         \* SwitchEngine.current
          last_edge_hit,   \* SwitchEngine.last_edge_hit, and its age
          last_switch,     \* the age of SwitchEngine.last_switch
          current_target,  \* the loop's current_target
          requested,       \* the last value given to suppress_tx.send
          SUPPRESS,        \* static: the hooks swallow what they see
          queue,           \* the events between the hooks and the loop
          cursor,          \* machine -> where its cursor is
          held,            \* the keys under the user's fingers
          pressed,         \* machine -> the keys its system takes to be down
          crossed          \* history: keys held, or in the queue, at a switch

engineVars == <<current, last_edge_hit, last_switch>>
loopVars == <<current_target, requested>>
machineVars == <<cursor, pressed>>
vars == <<grid, engineVars, loopVars, SUPPRESS, queue, held, machineVars, crossed>>

Machine == Peer \cup {Me}

Cooldown == 4   \* 80 ms

Dwell == 1      \* 20 ms

NoHit == [edge |-> "none", age |-> 0]

LocalBbox == Around(Desktop)

Init == /\ grid = [m \in {Me} |-> LocalEntry(Desktop)]
        /\ current = None /\ last_edge_hit = NoHit /\ last_switch = Cooldown
        /\ current_target = None /\ requested = FALSE /\ SUPPRESS = FALSE
        /\ queue = <<>> /\ cursor = [m \in Machine |-> <<0, 0>>]
        /\ held = {} /\ pressed = [m \in Machine |-> {}] /\ crossed = {}

-----------------------------------------------------------------------------
(* Injection: what an event does to the machine it reaches, whether its    *)
(* own system delivers it or SendInput does.                               *)

\* The local system keeps its cursor on its screens.
Kept(screens, at) ==
  LET r == Around(screens) IN
  <<Clamp(at[1], r.x, r.x + r.w - 1), Clamp(at[2], r.y, r.y + r.h - 1)>>

\* SendInput is given a position as a share of the virtual desktop, in 65535ths,
\* rounded and clamped.
Normalised(v, low, size) == Clamp((2 * (v - low) * 65535 + size) \div (2 * size), 0, 65535)

\* The pixel the system makes of it.
Pixel(share, low, size) == low + (share * size) \div 65536

Along(v, low, size) == Pixel(Normalised(v, low, size), low, size)

Onto(screens, at) ==
  LET r == Around(screens) IN <<Along(at[1], r.x, r.w), Along(at[2], r.y, r.h)>>

ScreensOf(m) == grid[m].screens

Reached(m, at) == IF m = Me THEN Kept(ScreensOf(m), at) ELSE Onto(ScreensOf(m), at)

Inject(m, e) ==
  /\ cursor' = IF e.kind = "move" THEN [cursor EXCEPT ![m] = Reached(m, e.at)] ELSE cursor
  /\ pressed' = CASE e.kind = "move" -> pressed
                  [] e.kind = "key" -> [pressed EXCEPT ![m] = IF e.down THEN @ \cup {e.key}
                                                              ELSE @ \ {e.key}]

-----------------------------------------------------------------------------
(* The hooks.                                                              *)

\* The callback reads SUPPRESS, then forwards, and swallows if it was set.
Hook(e) ==
  /\ Len(queue) < QueueBound
  /\ queue' = Append(queue, e)
  /\ IF SUPPRESS THEN UNCHANGED machineVars ELSE Inject(Me, e)
  /\ UNCHANGED <<grid, engineVars, loopVars, SUPPRESS>>

\* The position an event carries is that of the local cursor, which stays
\* where it is while moves are swallowed, plus the displacement (by, which the
\* raw delta of the event stands for, and injection ignores).
MoveMouse(d) ==
  LET at == <<cursor[Me][1] + d[1], cursor[Me][2] + d[2]>> IN
  /\ Hook([kind |-> "move", at |-> at, by |-> d])
  /\ UNCHANGED <<held, crossed>>

\* Mutant: WM_SYSKEYUP, what a release is while Alt is down, reads as a press.
IsDownUnlessSys(down, chord) == down \/ chord

\* A release is LLKHF_UP, WM_KEYUP or WM_SYSKEYUP, the modifiers down or not.
IsDown(down, chord) == down

Queued(k) == \E i \in DOMAIN queue : queue[i].kind # "move" /\ queue[i].key = k

\* Nothing is left of what the key did before.
Fresh(k) == ~Queued(k) /\ \A m \in Machine : k \notin pressed[m]

\* A key that is held may repeat its press.  Whether Ctrl, Alt and
\* Win are down is what GetKeyState answers (current_modifiers): their presses and
\* releases are keys like any other, and for a hook that swallows some of them the
\* system promises no answer in particular.
PressOrRelease(k, down) ==
  /\ k \notin held => down
  /\ \E chord \in BOOLEAN :
        Hook([kind |-> "key", key |-> k, down |-> IsDown(down, chord), chord |-> chord])
  /\ held' = IF down THEN held \cup {k} ELSE held \ {k}
  /\ crossed' = IF k \notin held /\ Fresh(k) THEN crossed \ {k} ELSE crossed

Crossing == {k \in Key : k \in held \/ Queued(k)}

\* The watcher stores the last request in the static.
StoreSuppress ==
  /\ SUPPRESS # requested
  /\ SUPPRESS' = requested
  /\ crossed' = crossed \cup Crossing
  /\ UNCHANGED <<grid, engineVars, loopVars, queue, held, machineVars>>

-----------------------------------------------------------------------------
(* SwitchEngine.on_input: the possible outcomes, as records of the peer    *)
(* decided for, or None, and the engine's next state.                      *)

Outcome(target, cur, hit, since) ==
  [target |-> target, current |-> cur, hit |-> hit, since |-> since]

Stay(hit) == Outcome(None, current, hit, last_switch)

\* Mutant: the dwell starts again on every event past the edge.
HitAlwaysNew(edge) == [edge |-> edge, age |-> 0]

\* The hit goes on if the last event past an edge was past this one.
Hit(edge) == IF last_edge_hit.edge = edge THEN last_edge_hit ELSE [edge |-> edge, age |-> 0]

Confirmed(edge) == Hit(edge).age >= Dwell

OnMouseMove(at) ==
  LET edge == ExitEdge(LocalBbox, at)
      next == Neighbors(grid, Me, edge, at)
  IN  CASE current # None \/ last_switch < Cooldown -> {Stay(last_edge_hit)}
        [] current = None /\ last_switch = Cooldown /\ edge = "none" -> {Stay(NoHit)}
        [] current = None /\ last_switch = Cooldown /\ edge # "none" ->
             IF ~Confirmed(edge) \/ next = {} THEN {Stay(Hit(edge))}
             ELSE {Outcome(q, q, NoHit, 0) : q \in next}

OnHotkey(digit) ==
  IF digit = 0 THEN {Outcome(None, None, last_edge_hit, last_switch)}
  ELSE IF ByHotkey(grid, digit) = {} THEN {Stay(last_edge_hit)}
  ELSE {Outcome(q, q, last_edge_hit, 0) : q \in ByHotkey(grid, digit)}

OnInput(e) ==
  IF e.kind = "move" THEN OnMouseMove(e.at)
  ELSE IF e.kind = "key" /\ e.down /\ e.chord /\ e.key \in DOMAIN DigitOf
       THEN OnHotkey(DigitOf[e.key])
  ELSE {Stay(last_edge_hit)}

-----------------------------------------------------------------------------
(* The master loop.                                                        *)

\* The target after a decision, and after an engine that went back to local.
TargetAfter(o) == IF o.target # None THEN o.target
                  ELSE IF o.current = None THEN None ELSE current_target

\* One iteration: the engine, the local return or the switch (SwitchEnter is
\* not among what is injected), then the event to the target if it is there.
Loop ==
  /\ queue # <<>>
  /\ queue' = Tail(queue)
  /\ \E o \in OnInput(Head(queue)) :
        /\ current' = o.current /\ last_edge_hit' = o.hit /\ last_switch' = o.since
        /\ LET target == TargetAfter(o) IN
           IF target # None /\ target \in DOMAIN grid
           THEN /\ current_target' = target
                /\ requested' = IF o.target # None THEN TRUE ELSE requested
                /\ Inject(target, Head(queue))
           ELSE /\ current_target' = None
                /\ requested' = IF current_target # None THEN FALSE ELSE requested
                /\ UNCHANGED machineVars
  /\ crossed' = IF current_target' # current_target THEN crossed \cup Crossing ELSE crossed
  /\ UNCHANGED <<grid, SUPPRESS, held>>

-----------------------------------------------------------------------------
(* Peers and time.                                                         *)

Join(p, screens) ==
  /\ p \notin DOMAIN grid
  /\ MaxRight(grid) < GridBound
  /\ grid' = [q \in DOMAIN grid \cup {p} |->
                IF q = p THEN Placed(grid, LocalBbox, screens) ELSE grid[q]]
  /\ cursor' = [cursor EXCEPT ![p] = <<0, 0>>]
  /\ UNCHANGED <<engineVars, loopVars, SUPPRESS, queue, held, pressed, crossed>>

\* on_close: the peer's session and entry go; its machine stays as it is.
Leave(p) ==
  /\ p \in DOMAIN grid
  /\ grid' = [q \in DOMAIN grid \ {p} |-> grid[q]]
  /\ crossed' = crossed \cup Crossing
  /\ UNCHANGED <<engineVars, loopVars, SUPPRESS, queue, held, machineVars>>

Older(age, enough) == IF age < enough THEN age + 1 ELSE age

Tick ==
  /\ last_switch' = Older(last_switch, Cooldown)
  /\ last_edge_hit' = IF last_edge_hit = NoHit THEN NoHit
                      ELSE [last_edge_hit EXCEPT !.age = Older(@, Dwell)]
  /\ <<last_switch', last_edge_hit'>> # <<last_switch, last_edge_hit>>
  /\ UNCHANGED <<grid, current, loopVars, SUPPRESS, queue, held, machineVars, crossed>>

Next == \/ \E d \in Shift : MoveMouse(d)
        \/ \E k \in Key, down \in BOOLEAN : PressOrRelease(k, down)
        \/ StoreSuppress
        \/ Loop
        \/ \E p \in Peer, screens \in Layout : Join(p, screens)
        \/ \E p \in Peer : Leave(p)
        \/ Tick

\* Time passes, and the spawned tasks run when they can; the user and the
\* peers owe nothing.
Fairness == WF_vars(Tick) /\ WF_vars(Loop) /\ WF_vars(StoreSuppress)

Spec == Init /\ [][Next]_vars /\ Fairness

-----------------------------------------------------------------------------

TypeOK ==
  /\ Me \in DOMAIN grid /\ DOMAIN grid \subseteq Machine
  /\ \A m \in DOMAIN grid : /\ grid[m].screens \in Layout \cup {Desktop}
                            /\ grid[m].origin[1] < GridBound
                            /\ grid[m].hotkey \in 0 .. 9
  /\ current \in Peer \cup {None} /\ current_target \in Peer \cup {None}
  /\ last_edge_hit \in [edge : Edge \cup {"none"}, age : 0 .. Dwell]
  /\ last_switch \in 0 .. Cooldown
  /\ requested \in BOOLEAN /\ SUPPRESS \in BOOLEAN
  /\ Len(queue) <= QueueBound
  /\ \A i \in DOMAIN queue : queue[i].kind \in {"move", "key"}
  /\ cursor \in [Machine -> Int \X Int]
  /\ \A m \in DOMAIN grid : Inside(Around(ScreensOf(m)), cursor[m])
  /\ held \subseteq Key /\ crossed \subseteq Key
  /\ pressed \in [Machine -> SUBSET Key]

\* What register_session keeps of the order of the machines, whoever left in between:
\* no two entries end at the same abscissa, and a peer has the corner of its primary
\* screen past every entry that ends before its own does.  What it has left of that
\* screen may lie on others (PeersDisjoint), and what the local machine's entry ends
\* at is not where its screens do (DesktopIsClear): see the end of the module.
PrimariesInOrder ==
  \A p \in DOMAIN grid \ {Me} :
     \A q \in DOMAIN grid \ {p} :
        LET mine == RightOf(Bbox(grid[p]))
            other == RightOf(Bbox(grid[q]))
        IN  other # mine /\ (other < mine => other <= grid[p].origin[1])

\* Every cursor stays on the screens of its machine (SendInput), and the peers'
\* primary screens keep their order in the grid (register_session).
Inv == TypeOK /\ PrimariesInOrder

\* The machine the input goes to.
Where == IF current_target = None THEN Me ELSE current_target

\* Once the hooks and the loop have caught up with the user, a key that was not
\* held while the input changed machine is down on the machine that has the input
\* exactly while it is held, and up everywhere else (hooks, loop and injection).
KeyInOnePlace ==
  queue = <<>> /\ SUPPRESS = requested
    => \A k \in Key \ crossed, m \in Machine :
          k \in pressed[m] <=> k \in held /\ m = Where

\* A move past the right edge, in front of a peer.
Pushes(e) == e.kind = "move" /\ ExitEdge(LocalBbox, e.at) = "right"
               /\ Neighbors(grid, Me, "right", e.at) # {}

\* A user who keeps pushing the cursor against an edge with a peer behind it has the
\* input go to a peer: neither the cooldown nor the dwell of on_mouse_move starts again
\* for ever.  This needs an engine that does not keep a peer the loop has given up,
\* which it may: EngineAgrees of MasterSwitch has that.
PushSwitches ==
  /\ []<>(queue # <<>>)
  /\ <>[](\A i \in DOMAIN queue : Pushes(queue[i]))
  /\ []<>~(current # None /\ current_target = None)
  => []<>(current_target # None)

-----------------------------------------------------------------------------
(* What comments of the code say and the code does not do.                 *)

\* lib.rs, neighbor: a candidate is a peer whose box overlaps the zone that goes
\* from the point to infinity behind the edge.
EdgeFindsNeighbor ==
  \A i \in DOMAIN queue :
     LET at == queue[i].at IN
     /\ queue[i].kind = "move" /\ ExitEdge(LocalBbox, at) = "right"
     /\ \E q \in DOMAIN grid \ {Me} : /\ OverlapsY(Bbox(grid[q]), at[2])
                                      /\ at[1] < RightOf(Bbox(grid[q]))
     => Neighbors(grid, Me, "right", at) # {}

\* lib.rs, Rect: the boxes of the grid share one plane, where no peer lies on the
\* screens of this machine.
DesktopIsClear ==
  \A p \in DOMAIN grid \ {Me} :
     Bbox(grid[p]).x >= grid[p].origin[1] => RightOf(LocalBbox) <= Bbox(grid[p]).x

\* lib.rs, GridPeer and Rect: the origin of a peer is the corner of its desktop, and
\* the boxes of the grid share one plane, where no two peers have a column in common.
PeersDisjoint ==
  \A p \in DOMAIN grid \ {Me} :
     \A q \in DOMAIN grid \ {Me, p} :
        \/ RightOf(Bbox(grid[p])) <= Bbox(grid[q]).x
        \/ RightOf(Bbox(grid[q])) <= Bbox(grid[p]).x

\* lib.rs, SwitchDecision: the coordinates a switch enters by are in the target's own
\* virtual desktop.
EnterIsLocal ==
  \A i \in DOMAIN queue :
     LET at == queue[i].at
         edge == ExitEdge(LocalBbox, at)
     IN  queue[i].kind = "move" /\ edge # "none"
           => \A q \in Neighbors(grid, Me, edge, at) :
                 Inside(Around(ScreensOf(q)), EnterPoint(Bbox(grid[q]), edge, at))

\* messages.rs, MouseMove: the position sent is one of the remote desktop, already
\* reprojected, so the remote cursor moves as the user does.
MoveIsReprojected ==
  [][Loop /\ Head(queue).kind = "move" /\ current_target' # None
       /\ current_target' = current_target
       => LET p == current_target
              by == Head(queue).by
          IN  cursor'[p] = Onto(ScreensOf(p), <<cursor[p][1] + by[1], cursor[p][2] + by[2]>>)]_vars

\* lib.rs, on_mouse_move: the 20 ms past the edge are continuous, so a hit is over
\* when the input has gone elsewhere.
HitIsOver == current # None => last_edge_hit = NoHit

\* When the user holds nothing and all is quiet, no machine has a key down.
KeysComeUp ==
  queue = <<>> /\ SUPPRESS = requested /\ held = {} => \A m \in Machine : pressed[m] = {}
=============================================================================
