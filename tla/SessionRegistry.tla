--------------------------- MODULE SessionRegistry ---------------------------
(***************************************************************************)
(* The registries of the application that follow its sessions: sessions,   *)
(* peers, grid_id_by_device, the grid of the SwitchEngine and peers.json   *)
(* (app/src-tauri, state.rs and commands.rs).                              *)
(*                                                                         *)
(* A connection is one TCP session with a device; connections are numbered *)
(* in the order they are opened.  The Tauri runtime has several worker     *)
(* threads, so registration, the on_close callback, unpairing, discovery   *)
(* and stop_services interleave at every lock they take: each of them is   *)
(* one action per section of the code under a lock.                        *)
(* A grid identifier (a fresh UUID) is named by the connection whose       *)
(* registration drew it.  Screens and positions in the grid are left out,  *)
(* and so is the local entry of the grid, which never changes.             *)
(* Two history variables say what the properties make an exception of: the *)
(* devices two operations of which went on at once, and how the last save  *)
(* of peers.json went.                                                     *)
(***************************************************************************)
EXTENDS Naturals, FiniteSets

CONSTANTS Device,     \* the remote devices, by identity
          None,       \* no device
          MaxConn     \* bound: connections opened

ASSUME DeviceAssumption == None \notin Device
ASSUME ConnAssumption == MaxConn \in Nat

VARIABLES running,    \* AppState.running holds the services
          stopping,   \* stop_services has its second half to do
          dev,        \* connection -> its device, None before it is opened
          via,        \* connection -> accepted ("in") or opened ("out") here,
                      \* while it is to be registered
          stage,      \* connection -> what its registration does next
          uuid,       \* connection -> new_uuid its registration will insert, or 0
          snapshot,   \* connection -> the list its registration will write
          gone,       \* connections an inbound task of which ends, to run on_close
          aborted,    \* connections whose inbound tasks were aborted
          replaced,   \* connections whose SessionRef another one replaced
          closer,     \* connection -> what its on_close does next
          sessions,   \* device -> connection of its SessionRef, or 0
          known,      \* devices with an entry in peers,
          paired,     \* ... the ones with paired = true,
          online,     \* ... the ones with online = true
          mapping,    \* grid_id_by_device: device -> grid identifier, or 0
          grid,       \* identifiers in the grid
          hotkey,     \* grid identifier -> hotkey_index of its entry, 0 = None
          disk,       \* devices in peers.json
          announce,   \* the announcement the discovery consumer is handling
          unpairing,  \* the unpair_peer command being executed
          crossed,    \* devices two operations of which went on at once
          lastSave    \* the last save begun: "alone", "overlapping" or "failed"

connVars == <<dev, via, stage>>
taskVars == <<gone, aborted, replaced, closer>>
gridVars == <<mapping, grid, hotkey>>
peerVars == <<known, paired, online>>
serviceVars == <<running, stopping>>
persistVars == <<snapshot, disk, lastSave>>
vars == <<serviceVars, connVars, uuid, persistVars, taskVars, sessions, peerVars,
          gridVars, announce, unpairing, crossed>>

Conn == 1 .. MaxConn

\* What a registration does next, in order.
Registration == {"peers", "session", "map", "grid", "snapshot", "write"}
Stage == {"none", "connecting", "ready", "failed", "done"} \cup Registration

\* from_session has spawned the inbound tasks.
Spawned(x) == stage[x] \in Registration \cup {"done"}

Idle == [step |-> "idle", device |-> None, paired |-> FALSE, connected |-> FALSE]

Init == /\ running = TRUE /\ stopping = FALSE
        /\ dev = [x \in Conn |-> None]
        /\ via = [x \in Conn |-> "none"]
        /\ stage = [x \in Conn |-> "none"]
        /\ uuid = [x \in Conn |-> 0]
        /\ snapshot = [x \in Conn |-> {}]
        /\ gone = {} /\ aborted = {} /\ replaced = {}
        /\ closer = [x \in Conn |-> "idle"]
        /\ sessions = [d \in Device |-> 0]
        /\ disk \in SUBSET Device
        /\ known = disk /\ paired = disk /\ online = {}
        /\ mapping = [d \in Device |-> 0]
        /\ grid = {} /\ hotkey = [x \in Conn |-> 0]
        /\ announce = Idle
        /\ unpairing = [step |-> "idle", device |-> None, snapshot |-> {}]
        /\ crossed = {} /\ lastSave = "alone"

-----------------------------------------------------------------------------
(* Connections, up to the Session their handshake yields.                  *)

Open(x, d, way) ==
  /\ dev[x] = None /\ \A y \in 1 .. x-1 : dev[y] # None
  /\ dev' = [dev EXCEPT ![x] = d]
  /\ via' = [via EXCEPT ![x] = way]
  /\ stage' = [stage EXCEPT ![x] = "connecting"]

\* The listener accepts a device, or the user connects to one.
Connect(x, d) ==
  /\ \/ running /\ Open(x, d, "in")
     \/ Open(x, d, "out")
  /\ UNCHANGED <<serviceVars, uuid, persistVars, taskVars, sessions, peerVars,
                 gridVars, announce, unpairing>>

Handshake(x) ==
  /\ stage[x] = "connecting"
  /\ \E result \in {"ready", "failed"} : stage' = [stage EXCEPT ![x] = result]
  /\ UNCHANGED <<serviceVars, dev, via, uuid, persistVars, taskVars, sessions,
                 peerVars, gridVars, announce, unpairing>>

\* EOF, a read or decryption error, or a GoodBye: an inbound task will end, and
\* run on_close unless it is aborted first.
Gone(x) ==
  /\ stage[x] = "ready" \/ Spawned(x)
  /\ x \notin gone \cup aborted
  /\ gone' = gone \cup {x}
  /\ UNCHANGED <<serviceVars, connVars, uuid, persistVars, aborted, replaced, closer,
                 sessions, peerVars, gridVars, announce, unpairing>>

-----------------------------------------------------------------------------
(* register_session_with_grid.                                             *)

Advance(x, from, to) == stage[x] = from /\ stage' = [stage EXCEPT ![x] = to]

\* The dispatcher registers accepted sessions one after the other.
Spawn(x) ==
  /\ Advance(x, "ready", "peers")
  /\ via[x] = "in" => ~\E y \in Conn : via[y] = "in" /\ stage[y] \in Registration
  /\ UNCHANGED <<serviceVars, dev, via, uuid, persistVars, taskVars, sessions,
                 peerVars, gridVars, announce, unpairing>>

\* Mutant: only the entry of a device already known is updated.
UpdateKnownPeer(x) ==
  /\ Advance(x, "peers", "session")
  /\ paired' = paired \cup ({dev[x]} \cap known)
  /\ online' = online \cup ({dev[x]} \cap known)
  /\ UNCHANGED <<serviceVars, dev, via, uuid, persistVars, taskVars, sessions, known,
                 gridVars, announce, unpairing>>

RegisterPeer(x) ==
  /\ Advance(x, "peers", "session")
  /\ known' = known \cup {dev[x]}
  /\ paired' = paired \cup {dev[x]}
  /\ online' = online \cup {dev[x]}
  /\ UNCHANGED <<serviceVars, dev, via, uuid, persistVars, taskVars, sessions,
                 gridVars, announce, unpairing>>

\* A SessionRef that is replaced is dropped: its GoodBye is sent, its inbound
\* tasks stay.
RegisterSession(x) ==
  /\ Advance(x, "session", "map")
  /\ sessions' = [sessions EXCEPT ![dev[x]] = x]
  /\ replaced' = replaced \cup ({sessions[dev[x]]} \ {0})
  /\ UNCHANGED <<serviceVars, dev, via, uuid, persistVars, gone, aborted, closer,
                 peerVars, gridVars, announce, unpairing>>

RegisterMapping(x) ==
  /\ Advance(x, "map", "grid")
  /\ mapping' = [mapping EXCEPT ![dev[x]] = IF @ = 0 THEN x ELSE @]
  /\ uuid' = [uuid EXCEPT ![x] = mapping'[dev[x]]]
  /\ UNCHANGED <<serviceVars, dev, via, persistVars, taskVars, sessions, peerVars,
                 grid, hotkey, announce, unpairing>>

\* The index is the length of the grid, whose local entry counts for one.
HotkeyIndex(n) == IF n \in 1 .. 9 THEN n ELSE 0

RegisterGrid(x) ==
  /\ Advance(x, "grid", "snapshot")
  /\ hotkey' = [hotkey EXCEPT ![uuid[x]] = HotkeyIndex(Cardinality(grid) + 1)]
  /\ grid' = grid \cup {uuid[x]}
  /\ uuid' = [uuid EXCEPT ![x] = 0]
  /\ UNCHANGED <<serviceVars, dev, via, persistVars, taskVars, sessions,
                 peerVars, mapping, announce, unpairing>>

\* A save whose list is built and whose file is not written.
Saving == unpairing.step = "write" \/ \E x \in Conn : stage[x] = "write"

BeginSave == lastSave' = IF Saving THEN "overlapping" ELSE "alone"

\* The file is replaced by the list; a save that fails is only logged.
EndSave(list) == \/ disk' = list /\ UNCHANGED lastSave
                 \/ disk' = disk /\ lastSave' = "failed"

\* persist_peers_from_ctx: the list is built under the lock, written after it.
Snapshot(x) ==
  /\ Advance(x, "snapshot", "write")
  /\ snapshot' = [snapshot EXCEPT ![x] = paired]
  /\ BeginSave
  /\ UNCHANGED <<serviceVars, dev, via, uuid, disk, taskVars, sessions, peerVars,
                 gridVars, announce, unpairing>>

Write(x) ==
  /\ Advance(x, "write", "done")
  /\ EndSave(snapshot[x])
  /\ snapshot' = [snapshot EXCEPT ![x] = {}]
  /\ via' = [via EXCEPT ![x] = "none"]
  /\ UNCHANGED <<serviceVars, dev, uuid, taskVars, sessions, peerVars, gridVars,
                 announce, unpairing>>

-----------------------------------------------------------------------------
(* on_close, run once, by whichever inbound task ends first.               *)

\* Mutant: the session is left in the registry.
CloseKeepsSession(x) ==
  /\ x \in gone /\ Spawned(x) /\ closer[x] = "idle"
  /\ closer' = [closer EXCEPT ![x] = "offline"]
  /\ UNCHANGED <<serviceVars, connVars, uuid, persistVars, gone, aborted, replaced,
                 sessions, peerVars, gridVars, announce, unpairing>>

\* The entry of the device is removed, whichever session it holds.
CloseSession(x) ==
  /\ x \in gone /\ Spawned(x) /\ closer[x] = "idle"
  /\ sessions' = [sessions EXCEPT ![dev[x]] = 0]
  /\ closer' = [closer EXCEPT ![x] = "offline"]
  /\ UNCHANGED <<serviceVars, connVars, uuid, persistVars, gone, aborted, replaced,
                 peerVars, gridVars, announce, unpairing>>

CloseOnline(x) ==
  /\ closer[x] = "offline"
  /\ online' = online \ {dev[x]}
  /\ closer' = [closer EXCEPT ![x] = "grid"]
  /\ UNCHANGED <<serviceVars, connVars, uuid, persistVars, gone, aborted, replaced,
                 sessions, known, paired, gridVars, announce, unpairing>>

\* The lock of the mapping is held while the grid entry is removed.
RemovePeerFromGrid(d) ==
  /\ mapping' = [mapping EXCEPT ![d] = 0]
  /\ grid' = grid \ {mapping[d]}
  /\ hotkey' = [u \in Conn |-> IF u = mapping[d] THEN 0 ELSE hotkey[u]]

CloseGrid(x) ==
  /\ closer[x] = "grid"
  /\ RemovePeerFromGrid(dev[x])
  /\ closer' = [closer EXCEPT ![x] = "done"]
  /\ UNCHANGED <<serviceVars, connVars, uuid, persistVars, gone, aborted, replaced,
                 sessions, peerVars, announce, unpairing>>

-----------------------------------------------------------------------------
(* The command unpair_peer.                                                *)

\* The inbound tasks of the connections C are aborted, at their next await: one
\* that was ending may be past its last one, and runs on_close all the same.
Abort(C) ==
  /\ aborted' = aborted \cup C
  /\ \E ended \in SUBSET (C \cap gone) :
        gone' = gone \ {x \in ended : closer[x] = "idle"}

\* Mutant: the session is shut down but its entry is kept.
UnpairKeepsEntry(d) ==
  /\ unpairing.step = "idle"
  /\ Abort({sessions[d]} \ {0})
  /\ unpairing' = [unpairing EXCEPT !.step = "peers", !.device = d]
  /\ UNCHANGED <<serviceVars, connVars, uuid, persistVars, replaced, closer,
                 sessions, peerVars, gridVars, announce>>

\* The session is removed and shut down, which aborts its inbound tasks.
UnpairSession(d) ==
  /\ unpairing.step = "idle"
  /\ sessions' = [sessions EXCEPT ![d] = 0]
  /\ Abort({sessions[d]} \ {0})
  /\ unpairing' = [unpairing EXCEPT !.step = "peers", !.device = d]
  /\ UNCHANGED <<serviceVars, connVars, uuid, persistVars, replaced, closer,
                 peerVars, gridVars, announce>>

UnpairPeer ==
  /\ unpairing.step = "peers"
  /\ known' = known \ {unpairing.device}
  /\ paired' = paired \ {unpairing.device}
  /\ online' = online \ {unpairing.device}
  /\ unpairing' = [unpairing EXCEPT !.step = "grid"]
  /\ UNCHANGED <<serviceVars, connVars, uuid, persistVars, taskVars, sessions,
                 gridVars, announce>>

UnpairGrid ==
  /\ unpairing.step = "grid"
  /\ RemovePeerFromGrid(unpairing.device)
  /\ unpairing' = [unpairing EXCEPT !.step = "snapshot"]
  /\ UNCHANGED <<serviceVars, connVars, uuid, persistVars, taskVars, sessions,
                 peerVars, announce>>

\* save_peers, like persist_peers_from_ctx.
UnpairSnapshot ==
  /\ unpairing.step = "snapshot"
  /\ unpairing' = [unpairing EXCEPT !.step = "write", !.snapshot = paired]
  /\ BeginSave
  /\ UNCHANGED <<serviceVars, connVars, uuid, snapshot, disk, taskVars, sessions,
                 peerVars, gridVars, announce>>

UnpairWrite ==
  /\ unpairing.step = "write"
  /\ EndSave(unpairing.snapshot)
  /\ unpairing' = [step |-> "idle", device |-> None, snapshot |-> {}]
  /\ UNCHANGED <<serviceVars, connVars, uuid, snapshot, taskVars, sessions, peerVars,
                 gridVars, announce>>

-----------------------------------------------------------------------------
(* The services: start_services, stop_services, the discovery consumer.    *)

StartServices ==
  /\ ~running
  /\ running' = TRUE
  /\ UNCHANGED <<stopping, connVars, uuid, persistVars, taskVars, sessions, peerVars,
                 gridVars, announce, unpairing>>

\* Listener and dispatcher are aborted: what they had not registered is dropped.
\* A registration or an announcement being handled ends first.
StopServices ==
  /\ running /\ ~stopping
  /\ running' = FALSE /\ stopping' = TRUE
  /\ stage' = [x \in Conn |-> IF via[x] = "in" /\ stage[x] \in {"connecting", "ready"}
                              THEN "failed" ELSE stage[x]]
  /\ UNCHANGED <<dev, via, uuid, persistVars, taskVars, sessions, peerVars, gridVars,
                 announce, unpairing>>

\* After the await on the discovery service: every session is shut down.
StopSessions ==
  /\ stopping
  /\ stopping' = FALSE
  /\ Abort({sessions[d] : d \in Device} \ {0})
  /\ sessions' = [d \in Device |-> 0]
  /\ UNCHANGED <<running, connVars, uuid, persistVars, replaced, closer, peerVars,
                 gridVars, announce, unpairing>>

\* An announcement of d: is it paired, ...
Announced(d) ==
  /\ running /\ announce.step = "idle"
  /\ announce' = [Idle EXCEPT !.step = "connected", !.device = d, !.paired = d \in paired]
  /\ UNCHANGED <<serviceVars, connVars, uuid, persistVars, taskVars, sessions, peerVars,
                 gridVars, unpairing>>

\* ... is it connected, ...
AnnouncedConnected ==
  /\ announce.step = "connected"
  /\ announce' = [announce EXCEPT !.step = "upsert",
                                  !.connected = sessions[announce.device] # 0]
  /\ UNCHANGED <<serviceVars, connVars, uuid, persistVars, taskVars, sessions, peerVars,
                 gridVars, unpairing>>

\* ... then an entry made of what was read, if there is none, and a reconnection.
AnnouncedUpsert ==
  LET d == announce.device
      entry == {d} \ known IN
  /\ announce.step = "upsert"
  /\ known' = known \cup entry
  /\ paired' = IF announce.paired THEN paired \cup entry ELSE paired
  /\ online' = IF announce.connected THEN online \cup entry ELSE online
  /\ announce' = Idle
  /\ \/ announce.paired /\ ~announce.connected /\ \E x \in Conn : Open(x, d, "out")
     \/ UNCHANGED connVars
  /\ UNCHANGED <<serviceVars, uuid, persistVars, taskVars, sessions, gridVars,
                 unpairing>>

-----------------------------------------------------------------------------

Register(x) == \/ Spawn(x) \/ RegisterPeer(x) \/ RegisterSession(x)
               \/ RegisterMapping(x) \/ RegisterGrid(x) \/ Snapshot(x) \/ Write(x)

OnClose(x) == CloseSession(x) \/ CloseOnline(x) \/ CloseGrid(x)

Unpair == \/ \E d \in Device : UnpairSession(d)
          \/ UnpairPeer \/ UnpairGrid \/ UnpairSnapshot \/ UnpairWrite

Services == StartServices \/ StopServices \/ StopSessions

Discovery == \/ \E d \in Device : Announced(d)
             \/ AnnouncedConnected \/ AnnouncedUpsert

\* What is being done about device d, each thing by its name.
Work(d) ==
       {<<"register", x>> : x \in {y \in Conn : dev[y] = d /\ stage[y] \in Registration}}
  \cup {<<"close", x>> : x \in {y \in Conn : dev[y] = d /\ closer[y] \in {"offline", "grid"}}}
  \cup (IF unpairing.step # "idle" /\ unpairing.device = d THEN {<<"unpair", 0>>} ELSE {})
  \cup (IF announce.step # "idle" /\ announce.device = d THEN {<<"announce", 0>>} ELSE {})
  \cup (IF stopping THEN {<<"stop", 0>>} ELSE {})

\* Nothing more comes of a connection: it never became a session, its on_close
\* is done, or its inbound tasks were aborted before they could run one.
Over(x) == stage[x] = "failed" \/ closer[x] = "done" \/ x \in aborted \ gone

\* Two things are being done about d, or it has two connections.
Overlaps(d) ==
  \/ \E o, p \in Work(d) : o # p
  \/ \E x, y \in Conn : x # y /\ dev[x] = d /\ dev[y] = d /\ ~Over(x) /\ ~Over(y)

Step == \/ \E x \in Conn, d \in Device : Connect(x, d)
        \/ \E x \in Conn : Handshake(x) \/ Gone(x) \/ Register(x) \/ OnClose(x)
        \/ Unpair
        \/ Services
        \/ Discovery

RecordOverlaps == crossed' = crossed \cup {d \in Device : Overlaps(d)'}

Next == Step /\ RecordOverlaps

Spec == Init /\ [][Next]_vars

\* An inbound task that has ended goes on to on_close, which waits for nothing but
\* locks that are held for a moment.
Fairness == \A x \in Conn : WF_vars(OnClose(x) /\ RecordOverlaps)

-----------------------------------------------------------------------------

TypeOK ==
  /\ running \in BOOLEAN /\ stopping \in BOOLEAN
  /\ dev \in [Conn -> Device \cup {None}]
  /\ via \in [Conn -> {"none", "in", "out"}]
  /\ stage \in [Conn -> Stage]
  /\ uuid \in [Conn -> Conn \cup {0}]
  /\ snapshot \in [Conn -> SUBSET Device]
  /\ gone \subseteq Conn /\ aborted \subseteq Conn /\ replaced \subseteq Conn
  /\ closer \in [Conn -> {"idle", "offline", "grid", "done"}]
  /\ sessions \in [Device -> Conn \cup {0}]
  /\ known \subseteq Device /\ paired \subseteq known /\ online \subseteq known
  /\ mapping \in [Device -> Conn \cup {0}]
  /\ grid \subseteq Conn
  /\ hotkey \in [Conn -> 0 .. 9]
  /\ disk \subseteq Device
  /\ announce \in [step : {"idle", "connected", "upsert"},
                   device : Device \cup {None},
                   paired : BOOLEAN, connected : BOOLEAN]
  /\ unpairing \in [step : {"idle", "peers", "grid", "snapshot", "write"},
                    device : Device \cup {None}, snapshot : SUBSET Device]
  /\ lastSave \in {"alone", "overlapping", "failed"}

\* A session found in the registry was never told to shut down, and no newer one
\* took its place: what is routed to it reaches tasks nobody stopped, however
\* registration, unpairing and stop_services overlap.
RegisteredNotStopped ==
  \A d \in Device : sessions[d] # 0 =>
     /\ dev[sessions[d]] = d
     /\ sessions[d] \notin aborted \cup replaced

\* The mapping the master loop routes with leads to an entry of the grid, unless
\* the registration that owes the entry is about to insert it.
MappedIsInGrid ==
  \A d \in Device : mapping[d] # 0 =>
     \/ mapping[d] \in grid
     \/ \E x \in Conn : dev[x] = d /\ stage[x] = "grid" /\ uuid[x] = mapping[d]

\* Connections whose SessionRef went into the registry, once.
Entered == {x \in Conn : stage[x] \in {"map", "grid", "snapshot", "write", "done"}}

\* Only they were ever held, replaced or stopped.
OnlyEnteredHeld ==
  /\ aborted \cup replaced \subseteq Entered
  /\ \A d \in Device : sessions[d] # 0 => sessions[d] \in Entered

\* A grid identifier is mapped to by the device it was drawn for, and no other.
MappingIsOwn == \A d \in Device : mapping[d] # 0 => dev[mapping[d]] = d

\* Whatever is being done is being done about some device.
DeviceWhenNeeded ==
  /\ \A x \in Conn : stage[x] # "none" <=> dev[x] # None
  /\ \A x \in Conn : stage[x] = "grid" => uuid[x] # 0
  /\ \A x \in Conn : closer[x] # "idle" => stage[x] # "none"
  /\ announce.step # "idle" => announce.device # None
  /\ unpairing.step # "idle" => unpairing.device # None

Inv == /\ TypeOK
       /\ OnlyEnteredHeld
       /\ MappingIsOwn
       /\ DeviceWhenNeeded
       /\ RegisteredNotStopped
       /\ MappedIsInGrid

\* Nothing is being done about device d, and no on_close is to come.
AtRest(d) == /\ Work(d) = {}
             /\ \A x \in gone : dev[x] = d /\ Spawned(x) => closer[x] = "done"

\* A session that was registered and has neither ended, nor been replaced,
\* unpaired or stopped, is the one the registry holds for its device.
LiveIsHeld(d) ==
  \A x \in Entered \ (gone \cup aborted \cup replaced) : dev[x] = d => sessions[d] = x

LiveSessionRegistered == \A d \in Device : LiveIsHeld(d)

\* A device with a session is shown connected, and can be switched to.
HeldIsShown(d) == sessions[d] # 0 => d \in online /\ mapping[d] \in grid

SessionIsShown == \A d \in Device : AtRest(d) => HeldIsShown(d)

\* A device shown connected, or that can be switched to, has a session.
ShownHasSession ==
  \A d \in Device : AtRest(d) /\ (d \in online \/ mapping[d] # 0) => sessions[d] # 0

\* Or it had one, which this side shut down without running on_close.
ShownHadSession(d) ==
  d \in online \/ mapping[d] # 0 => sessions[d] # 0 \/ \E x \in aborted : dev[x] = d

\* The grid has no entry of d but the one that maps back to it.
EntryIsMapped(d) == \A u \in grid : dev[u] = d => mapping[d] = u

\* Every entry of the grid can be mapped back to a device: no ghost of a peer
\* attracts the cursor.
GridIsMapped == \A d \in Device : AtRest(d) => EntryIsMapped(d)

\* At rest, when no save failed, what a restart would read is what the application
\* believes.
PersistedIsPaired ==
  (\A d \in Device : AtRest(d)) /\ lastSave # "failed" => disk = paired

\* Registrations, ends, unpairings, announcements and restarts of the services, in
\* any interleaving, leave the sessions, what is shown of a peer, the grid and
\* peers.json in agreement about every device at rest no two operations of which
\* went on at once, whatever went on about the others; as to peers.json, when the
\* last save began alone, is over and succeeded (state.rs, commands.rs).
AgreesAtRest ==
  \A d \in Device \ crossed :
     AtRest(d) => /\ LiveIsHeld(d)
                  /\ HeldIsShown(d)
                  /\ ShownHadSession(d)
                  /\ EntryIsMapped(d)
                  /\ lastSave = "alone" /\ ~Saving => (d \in disk <=> d \in paired)

\* A hotkey designates one peer.
HotkeysDistinct ==
  \A u, v \in grid : hotkey[u] = hotkey[v] /\ hotkey[u] # 0 => u = v

Held(x) == \E d \in Device : sessions[d] = x

\* A session whose end is noticed while the registry holds it does not stay there,
\* where auto-reconnect would take its device for connected, and its device is
\* shown offline, unless a shutdown aborts the tasks that would see to it; whatever
\* else goes on meanwhile (on_close, state.rs).
EndedSessionForgotten ==
  \A x \in Conn :
     Held(x) /\ x \in gone /\ closer[x] = "idle"
        ~> ~Held(x) /\ (dev[x] \notin online \/ x \in aborted)
=============================================================================
