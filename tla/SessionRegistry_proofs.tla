----------------------- MODULE SessionRegistry_proofs ------------------------
(* Proofs about SessionRegistry, for any set of devices and any number of    *)
(* connections, whose registrations, callbacks and commands interleave.      *)
EXTENDS SessionRegistry, TLAPS

\* Opening a connection: it gets a device, and no other one is touched.
LEMMA OpenStep ==
  ASSUME Inv, NEW x \in Conn, NEW d \in Device, NEW way \in {"in", "out"},
         Open(x, d, way)
  PROVE  /\ dev' \in [Conn -> Device \cup {None}]
         /\ via' \in [Conn -> {"none", "in", "out"}]
         /\ stage' \in [Conn -> Stage]
         /\ stage[x] = "none" /\ stage'[x] = "connecting" /\ dev'[x] = d
         /\ \A y \in Conn \ {x} : dev'[y] = dev[y] /\ stage'[y] = stage[y]
BY DEF Inv, TypeOK, DeviceWhenNeeded, Open, Stage

\* Steps that leave the registry of sessions and the grid alone, and take no
\* connection into or out of the stages the invariant speaks of.
LEMMA FrameStep ==
  ASSUME Inv, TypeOK',
         DeviceWhenNeeded',
         UNCHANGED <<sessions, aborted, replaced, mapping, grid>>,
         \A x \in Conn : stage[x] # "none" => dev'[x] = dev[x],
         \A x \in Entered : x \in Entered',
         \A x \in Conn : stage[x] = "grid" => stage'[x] = "grid" /\ uuid'[x] = uuid[x]
  PROVE  Inv'
<1>1. OnlyEnteredHeld'
  BY DEF Inv, OnlyEnteredHeld
<1>2. RegisteredNotStopped'
  BY DEF Inv, RegisteredNotStopped, OnlyEnteredHeld, Entered
<1>3. MappedIsInGrid'
  BY DEF Inv, MappedIsInGrid
<1>4. MappingIsOwn'
  BY DeviceAssumption DEF Inv, TypeOK, MappingIsOwn, DeviceWhenNeeded
<1> QED BY <1>1, <1>2, <1>3, <1>4 DEF Inv

\* A registration that moves on only changes its own stage.
LEMMA AdvanceStep ==
  ASSUME Inv, NEW x \in Conn, NEW from \in Stage, NEW to \in Stage, Advance(x, from, to)
  PROVE  /\ stage' \in [Conn -> Stage]
         /\ stage[x] = from /\ stage'[x] = to
         /\ \A y \in Conn \ {x} : stage'[y] = stage[y]
BY DEF Inv, TypeOK, Advance

\* Connections, and the stages of a registration that only it can see.
LEMMA ConnectionSteps ==
  ASSUME Inv, NEW x \in Conn,
         \/ \E d \in Device : Connect(x, d)
         \/ Handshake(x) \/ Gone(x) \/ Spawn(x) \/ RegisterPeer(x)
         \/ Snapshot(x) \/ Write(x)
  PROVE  Inv'
<1> USE DEF serviceVars, connVars, persistVars, taskVars, peerVars, gridVars
<1>1. ASSUME NEW d \in Device, Connect(x, d) PROVE Inv'
  <2>1. PICK way \in {"in", "out"} : Open(x, d, way)
    BY <1>1 DEF Connect
  <2>2. TypeOK'
    BY <1>1, <2>1, OpenStep DEF Connect, Inv, TypeOK
  <2>3. DeviceWhenNeeded'
    BY <1>1, <2>1, OpenStep, DeviceAssumption DEF Connect, Inv, DeviceWhenNeeded
  <2>4. \A y \in Entered : y \in Entered'
    BY <2>1, OpenStep DEF Entered
  <2> QED BY <1>1, <2>1, <2>2, <2>3, <2>4, OpenStep, FrameStep DEF Connect
<1>2. CASE Handshake(x)
  <2>1. PICK result \in {"ready", "failed"} : Advance(x, "connecting", result)
    BY <1>2 DEF Handshake, Advance
  <2>2. {"connecting", "ready", "failed"} \subseteq Stage
    BY DEF Stage
  <2>3. /\ stage' \in [Conn -> Stage]
        /\ stage[x] = "connecting" /\ stage'[x] = result
        /\ \A y \in Conn \ {x} : stage'[y] = stage[y]
    BY <2>1, <2>2, AdvanceStep
  <2>4. TypeOK'
    BY <1>2, <2>3 DEF Handshake, Inv, TypeOK
  <2>5. DeviceWhenNeeded'
    BY <1>2, <2>3 DEF Handshake, Inv, DeviceWhenNeeded
  <2>6. \A y \in Entered : y \in Entered'
    BY <2>3 DEF Entered
  <2> QED BY <1>2, <2>3, <2>4, <2>5, <2>6, FrameStep DEF Handshake
<1>3. CASE Gone(x)
  <2>1. TypeOK'
    BY <1>3 DEF Gone, Inv, TypeOK
  <2>2. DeviceWhenNeeded'
    BY <1>3 DEF Gone, Inv, DeviceWhenNeeded
  <2>3. \A y \in Entered : y \in Entered'
    BY <1>3 DEF Gone, Entered
  <2> QED BY <1>3, <2>1, <2>2, <2>3, FrameStep DEF Gone
<1>4. CASE Spawn(x) \/ RegisterPeer(x) \/ Snapshot(x) \/ Write(x)
  <2>1. PICK from \in {"ready", "peers", "snapshot", "write"},
             to \in {"peers", "session", "write", "done"} :
                /\ Advance(x, from, to)
                /\ from \in {"snapshot", "write"} => to \in {"write", "done"}
    BY <1>4 DEF Spawn, RegisterPeer, Snapshot, Write
  <2>2. from \in Stage /\ to \in Stage
    BY DEF Stage, Registration
  <2>3. /\ stage' \in [Conn -> Stage]
        /\ stage[x] = from /\ stage'[x] = to
        /\ \A y \in Conn \ {x} : stage'[y] = stage[y]
    BY <2>1, <2>2, AdvanceStep
  <2>4. /\ UNCHANGED <<running, stopping, dev, uuid, gone, aborted, replaced, closer>>
        /\ UNCHANGED <<sessions, mapping, grid, hotkey, announce, unpairing>>
        /\ via' = via \/ via' = [via EXCEPT ![x] = "none"]
    BY <1>4 DEF Spawn, RegisterPeer, Snapshot, Write
  <2>5. dev[x] \in Device
    BY <2>3 DEF Inv, TypeOK, DeviceWhenNeeded
  <2>6. /\ known' \subseteq Device /\ paired' \subseteq known' /\ online' \subseteq known'
        /\ disk' \subseteq Device /\ lastSave' \in {"alone", "overlapping", "failed"}
    BY <1>4, <2>5 DEF Spawn, RegisterPeer, Snapshot, Write, BeginSave, EndSave, Inv, TypeOK
  <2>7. snapshot' \in [Conn -> SUBSET Device]
    BY <1>4 DEF Spawn, RegisterPeer, Snapshot, Write, Inv, TypeOK
  <2>8. TypeOK'
    BY <2>3, <2>4, <2>6, <2>7 DEF Inv, TypeOK
  <2>9. DeviceWhenNeeded'
    BY <2>1, <2>3, <2>4 DEF Inv, DeviceWhenNeeded
  <2>10. \A y \in Entered : y \in Entered'
    BY <2>1, <2>3 DEF Entered
  <2>11. \A y \in Conn : stage[y] = "grid" => stage'[y] = "grid" /\ uuid'[y] = uuid[y]
    BY <2>3, <2>4
  <2> QED BY <2>4, <2>8, <2>9, <2>10, <2>11, FrameStep
<1> QED BY <1>1, <1>2, <1>3, <1>4

\* The session enters the registry, the only time it does.
LEMMA RegisterSessionStep == ASSUME Inv, NEW x \in Conn, RegisterSession(x) PROVE Inv'
<1> USE DEF serviceVars, persistVars, peerVars, gridVars
<1>1. /\ stage' \in [Conn -> Stage]
      /\ stage[x] = "session" /\ stage'[x] = "map"
      /\ \A y \in Conn \ {x} : stage'[y] = stage[y]
  BY AdvanceStep DEF RegisterSession, Stage, Registration
<1>2. dev[x] \in Device /\ x # 0
  BY <1>1, ConnAssumption DEF Inv, TypeOK, DeviceWhenNeeded, Conn
<1>3. /\ sessions' = [sessions EXCEPT ![dev[x]] = x]
      /\ replaced' = replaced \cup ({sessions[dev[x]]} \ {0})
      /\ UNCHANGED <<running, stopping, dev, via, uuid, snapshot, disk, gone, aborted, closer>>
      /\ UNCHANGED <<lastSave, known, paired, online, mapping, grid, hotkey, announce, unpairing>>
  BY DEF RegisterSession
<1>4. TypeOK'
  <2>1. sessions' \in [Device -> Conn \cup {0}] /\ replaced' \subseteq Conn
    BY <1>2, <1>3 DEF Inv, TypeOK
  <2> QED BY <1>1, <1>3, <2>1 DEF Inv, TypeOK
<1>5. DeviceWhenNeeded'
  BY <1>1, <1>3 DEF Inv, DeviceWhenNeeded
<1>6. x \notin Entered /\ Entered' = Entered \cup {x}
  BY <1>1 DEF Entered
<1>7. OnlyEnteredHeld'
  BY <1>2, <1>3, <1>6 DEF Inv, TypeOK, OnlyEnteredHeld
<1>8. RegisteredNotStopped'
  <2> SUFFICES ASSUME NEW d \in Device, sessions'[d] # 0
               PROVE  /\ dev[sessions'[d]] = d
                      /\ sessions'[d] \notin aborted \cup replaced'
    BY <1>3 DEF RegisteredNotStopped
  <2>1. CASE d = dev[x]
    <3>1. sessions'[d] = x
      BY <1>3, <2>1 DEF Inv, TypeOK
    <3>2. x \notin aborted \cup replaced /\ sessions[dev[x]] # x
      BY <1>2, <1>6 DEF Inv, OnlyEnteredHeld
    <3> QED BY <1>3, <2>1, <3>1, <3>2
  <2>2. CASE d # dev[x]
    <3>1. sessions'[d] = sessions[d]
      BY <1>3, <2>2 DEF Inv, TypeOK
    <3>2. sessions[d] # sessions[dev[x]]
      BY <1>2, <2>2, <3>1 DEF Inv, RegisteredNotStopped
    <3> QED BY <1>3, <3>1, <3>2 DEF Inv, RegisteredNotStopped
  <2> QED BY <2>1, <2>2
<1>9. MappedIsInGrid' /\ MappingIsOwn'
  BY <1>1, <1>3 DEF Inv, MappedIsInGrid, MappingIsOwn
<1> QED BY <1>4, <1>5, <1>7, <1>8, <1>9 DEF Inv

\* A registration maps its device, then inserts the grid entry it mapped.
LEMMA RegisterGridSteps ==
  ASSUME Inv, NEW x \in Conn, RegisterMapping(x) \/ RegisterGrid(x)
  PROVE  Inv'
<1> USE DEF serviceVars, persistVars, peerVars, taskVars
<1>1. PICK from \in {"map", "grid"}, to \in {"grid", "snapshot"} :
         Advance(x, from, to) /\ (from = "map" <=> to = "grid")
  BY DEF RegisterMapping, RegisterGrid
<1>2. /\ stage' \in [Conn -> Stage]
      /\ stage[x] = from /\ stage'[x] = to
      /\ \A y \in Conn \ {x} : stage'[y] = stage[y]
  BY <1>1, AdvanceStep DEF Stage, Registration
<1>3. dev[x] \in Device /\ x # 0
  BY <1>2, ConnAssumption DEF Inv, TypeOK, DeviceWhenNeeded, Conn
<1>4. /\ UNCHANGED <<running, stopping, dev, via, snapshot, disk, gone, aborted, replaced, closer>>
      /\ UNCHANGED <<lastSave, sessions, known, paired, online, announce, unpairing>>
  BY DEF RegisterMapping, RegisterGrid
<1>5. Entered' = Entered
  BY <1>2 DEF Entered
<1>6. OnlyEnteredHeld' /\ RegisteredNotStopped'
  BY <1>4, <1>5 DEF Inv, OnlyEnteredHeld, RegisteredNotStopped
<1>7. CASE RegisterMapping(x)
  <2>1. stage[x] = "map" /\ stage'[x] = "grid"
    BY <1>7 DEF RegisterMapping, Advance, Inv, TypeOK
  <2> DEFINE id == IF mapping[dev[x]] = 0 THEN x ELSE mapping[dev[x]]
  <2>2. id \in Conn /\ id # 0
    BY <1>3 DEF Inv, TypeOK
  <2>3. /\ mapping' = [mapping EXCEPT ![dev[x]] = id]
        /\ UNCHANGED <<grid, hotkey>>
    BY <1>7, <1>3 DEF RegisterMapping, Inv, TypeOK
  <2>4. uuid' = [uuid EXCEPT ![x] = id]
    BY <1>7, <1>3, <2>3 DEF RegisterMapping, Inv, TypeOK
  <2> HIDE DEF id
  <2>5. TypeOK'
    BY ZenonT(90), <1>2, <1>4, <2>2, <2>3, <2>4 DEF Inv, TypeOK
  <2>6. DeviceWhenNeeded'
    BY <1>2, <1>4, <2>1, <2>2, <2>4 DEF Inv, TypeOK, DeviceWhenNeeded
  <2>7. MappedIsInGrid'
    <3> SUFFICES ASSUME NEW d \in Device, mapping'[d] # 0
                 PROVE  \/ mapping'[d] \in grid
                        \/ \E y \in Conn : /\ dev[y] = d /\ stage'[y] = "grid"
                                           /\ uuid'[y] = mapping'[d]
      BY <1>4, <2>3 DEF MappedIsInGrid
    <3>1. CASE d = dev[x]
      BY <2>1, <2>3, <2>4, <3>1 DEF Inv, TypeOK
    <3>2. CASE d # dev[x]
      BY <1>2, <2>3, <2>4, <3>2 DEF Inv, TypeOK, MappedIsInGrid
    <3> QED BY <3>1, <3>2
  <2>8. MappingIsOwn'
    BY <1>4, <2>3 DEF Inv, TypeOK, MappingIsOwn, id
  <2> QED BY <1>6, <2>5, <2>6, <2>7, <2>8 DEF Inv
<1>8. CASE RegisterGrid(x)
  <2>1. stage[x] = "grid" /\ stage'[x] = "snapshot"
    BY <1>8 DEF RegisterGrid, Advance, Inv, TypeOK
  <2>2. uuid[x] \in Conn
    BY <2>1 DEF Inv, TypeOK, DeviceWhenNeeded
  <2>3. /\ grid' = grid \cup {uuid[x]}
        /\ hotkey' = [hotkey EXCEPT ![uuid[x]] = HotkeyIndex(Cardinality(grid) + 1)]
        /\ uuid' = [uuid EXCEPT ![x] = 0]
        /\ UNCHANGED mapping
    BY <1>8 DEF RegisterGrid
  <2>4. HotkeyIndex(Cardinality(grid) + 1) \in 0 .. 9
    BY DEF HotkeyIndex
  <2>5. TypeOK'
    BY <1>2, <1>4, <2>2, <2>3, <2>4 DEF Inv, TypeOK
  <2>6. \A y \in Conn \ {x} : uuid'[y] = uuid[y]
    BY <2>3 DEF Inv, TypeOK
  <2>7. DeviceWhenNeeded'
    BY <1>2, <1>4, <2>1, <2>6 DEF Inv, DeviceWhenNeeded
  <2>8. MappedIsInGrid'
    BY <1>2, <1>4, <2>1, <2>3, <2>6 DEF Inv, MappedIsInGrid
  <2>9. MappingIsOwn'
    BY <1>4, <2>3 DEF Inv, MappingIsOwn
  <2> QED BY <1>6, <2>5, <2>7, <2>8, <2>9 DEF Inv
<1> QED BY <1>7, <1>8

\* Taking a session out of the registry, aborted or not, keeps what is left.
LEMMA RemovalStep ==
  ASSUME Inv, NEW D \in SUBSET Device,
         sessions' = [d \in Device |-> IF d \in D THEN 0 ELSE sessions[d]],
         aborted' = aborted \/ aborted' = aborted \cup ({sessions[d] : d \in D} \ {0}),
         UNCHANGED <<dev, stage, replaced>>
  PROVE  /\ sessions' \in [Device -> Conn \cup {0}]
         /\ aborted' \subseteq Conn
         /\ OnlyEnteredHeld' /\ RegisteredNotStopped'
<1>1. sessions' \in [Device -> Conn \cup {0}]
  BY DEF Inv, TypeOK
<1>2. {sessions[d] : d \in D} \ {0} \subseteq Entered \cap Conn
  BY DEF Inv, TypeOK, OnlyEnteredHeld
<1>3. Entered' = Entered
  BY DEF Entered
<1>4. aborted' \subseteq Conn /\ OnlyEnteredHeld'
  BY <1>2, <1>3 DEF Inv, TypeOK, OnlyEnteredHeld
<1>5. RegisteredNotStopped'
  <2> SUFFICES ASSUME NEW d \in Device, sessions'[d] # 0
               PROVE  /\ dev[sessions'[d]] = d
                      /\ sessions'[d] \notin aborted' \cup replaced
    BY DEF RegisteredNotStopped
  <2>1. d \notin D /\ sessions'[d] = sessions[d]
    OBVIOUS
  <2>2. dev[sessions[d]] = d /\ sessions[d] \notin aborted \cup replaced
    BY <2>1 DEF Inv, RegisteredNotStopped
  <2>3. ASSUME NEW e \in D, sessions[e] # 0 PROVE sessions[e] # sessions[d]
    BY <2>1, <2>2, <2>3 DEF Inv, RegisteredNotStopped
  <2>4. sessions[d] \notin {sessions[e] : e \in D} \ {0}
    BY <2>3
  <2> QED BY <2>1, <2>2, <2>4
<1> QED BY <1>1, <1>4, <1>5

\* on_close, unpair_peer and stop_services, as far as they remove a session.
LEMMA RemovalSteps ==
  ASSUME Inv,
         \/ \E x \in Conn : CloseSession(x)
         \/ \E d \in Device : UnpairSession(d)
         \/ StopSessions
  PROVE  Inv'
<1> USE DEF connVars, persistVars, peerVars, gridVars, serviceVars
<1> DEFINE Removed(D) ==
      /\ sessions' = [d \in Device |-> IF d \in D THEN 0 ELSE sessions[d]]
      /\ aborted' = aborted \/ aborted' = aborted \cup ({sessions[d] : d \in D} \ {0})
<1>1. \E D \in SUBSET Device : Removed(D)
  <2>1. ASSUME NEW x \in Conn, CloseSession(x) PROVE \E D \in SUBSET Device : Removed(D)
    <3>1. {dev[x]} \in SUBSET Device
      BY <2>1 DEF CloseSession, Spawned, Registration, Inv, TypeOK, DeviceWhenNeeded
    <3>2. /\ sessions' = [d \in Device |-> IF d \in {dev[x]} THEN 0 ELSE sessions[d]]
          /\ aborted' = aborted
      BY <2>1, <3>1 DEF CloseSession, Inv, TypeOK
    <3> QED BY <3>1, <3>2
  <2>2. ASSUME NEW d \in Device, UnpairSession(d) PROVE \E D \in SUBSET Device : Removed(D)
    <3>1. {d} \in SUBSET Device
      OBVIOUS
    <3>2. sessions' = [e \in Device |-> IF e \in {d} THEN 0 ELSE sessions[e]]
      BY <2>2 DEF UnpairSession, Inv, TypeOK
    <3>3. {sessions[e] : e \in {d}} = {sessions[d]}
      OBVIOUS
    <3>4. aborted' = aborted \cup ({sessions[d]} \ {0})
      BY <2>2 DEF UnpairSession, Abort
    <3>5. Removed({d})
      BY <3>2, <3>3, <3>4
    <3> HIDE DEF Removed
    <3> QED BY <3>1, <3>5
  <2>3. CASE StopSessions
    <3>1. /\ sessions' = [e \in Device |-> IF e \in Device THEN 0 ELSE sessions[e]]
          /\ aborted' = aborted \cup ({sessions[e] : e \in Device} \ {0})
      BY <2>3 DEF StopSessions, Abort
    <3> QED BY <3>1
  <2> QED BY <2>1, <2>2, <2>3
<1>2. /\ UNCHANGED <<running, dev, via, stage, uuid, snapshot, disk, lastSave, replaced>>
      /\ UNCHANGED <<known, paired, online, mapping, grid, hotkey, announce>>
  BY DEF CloseSession, UnpairSession, StopSessions
<1>3. /\ sessions' \in [Device -> Conn \cup {0}]
      /\ aborted' \subseteq Conn
      /\ OnlyEnteredHeld' /\ RegisteredNotStopped'
  BY <1>1, <1>2, RemovalStep
<1>4. /\ closer' \in [Conn -> {"idle", "offline", "grid", "done"}]
      /\ stopping' \in BOOLEAN
      /\ gone' \subseteq Conn
  BY DEF CloseSession, UnpairSession, StopSessions, Abort, Inv, TypeOK
<1>5. /\ unpairing' \in [step : {"idle", "peers", "grid", "snapshot", "write"},
                         device : Device \cup {None}, snapshot : SUBSET Device]
      /\ unpairing'.step # "idle" => unpairing'.device # None
  <2>1. CASE UNCHANGED unpairing
    BY <2>1 DEF Inv, TypeOK, DeviceWhenNeeded
  <2>2. ASSUME NEW d \in Device,
               unpairing' = [unpairing EXCEPT !.step = "peers", !.device = d]
        PROVE  /\ unpairing' \in [step : {"idle", "peers", "grid", "snapshot", "write"},
                                  device : Device \cup {None}, snapshot : SUBSET Device]
               /\ unpairing'.step # "idle" => unpairing'.device # None
    <3>1. unpairing' = [step |-> "peers", device |-> d, snapshot |-> unpairing.snapshot]
      BY <2>2 DEF Inv, TypeOK
    <3> QED BY <3>1, DeviceAssumption DEF Inv, TypeOK
  <2> QED BY <2>1, <2>2 DEF CloseSession, UnpairSession, StopSessions
<1>6. TypeOK'
  BY <1>2, <1>3, <1>4, <1>5 DEF Inv, TypeOK
<1>7. DeviceWhenNeeded'
  <2>1. \A x \in Conn : closer'[x] # "idle" => stage[x] # "none"
    <3>1. ASSUME NEW x \in Conn, CloseSession(x)
          PROVE  /\ stage[x] # "none"
                 /\ \A y \in Conn \ {x} : closer'[y] = closer[y]
      BY <3>1 DEF CloseSession, Spawned, Registration, Inv, TypeOK
    <3>2. CASE UNCHANGED closer
      BY <3>2 DEF Inv, DeviceWhenNeeded
    <3> QED BY <3>1, <3>2 DEF UnpairSession, StopSessions, Inv, DeviceWhenNeeded
  <2> QED BY <1>2, <1>5, <2>1 DEF Inv, DeviceWhenNeeded
<1>8. MappedIsInGrid' /\ MappingIsOwn'
  BY <1>2 DEF Inv, MappedIsInGrid, MappingIsOwn
<1> QED BY <1>3, <1>6, <1>7, <1>8 DEF Inv

\* Taking a device out of the grid takes no entry another device is mapped to.
LEMMA RemoveFromGridSteps ==
  ASSUME Inv, (\E x \in Conn : CloseGrid(x)) \/ UnpairGrid
  PROVE  Inv'
<1> USE DEF connVars, persistVars, peerVars, serviceVars, taskVars
<1>1. PICK d \in Device : RemovePeerFromGrid(d)
  <2>1. ASSUME NEW x \in Conn, CloseGrid(x) PROVE \E d \in Device : RemovePeerFromGrid(d)
    <3>1. dev[x] \in Device
      BY <2>1 DEF CloseGrid, Inv, TypeOK, DeviceWhenNeeded
    <3> QED BY <2>1, <3>1 DEF CloseGrid
  <2>2. CASE UnpairGrid
    <3>1. unpairing.device \in Device
      BY <2>2 DEF UnpairGrid, Inv, TypeOK, DeviceWhenNeeded
    <3> QED BY <2>2, <3>1 DEF UnpairGrid
  <2> QED BY <2>1, <2>2
<1>2. /\ UNCHANGED <<running, stopping, dev, via, stage, uuid, snapshot, disk>>
      /\ UNCHANGED <<lastSave, gone, aborted, replaced, sessions, known, paired, online, announce>>
  BY DEF CloseGrid, UnpairGrid
<1>3. /\ mapping' = [mapping EXCEPT ![d] = 0]
      /\ grid' = grid \ {mapping[d]}
      /\ hotkey' = [u \in Conn |-> IF u = mapping[d] THEN 0 ELSE hotkey[u]]
  BY <1>1 DEF RemovePeerFromGrid
<1>4. closer' \in [Conn -> {"idle", "offline", "grid", "done"}]
  BY DEF CloseGrid, UnpairGrid, Inv, TypeOK
<1>5. /\ unpairing' \in [step : {"idle", "peers", "grid", "snapshot", "write"},
                         device : Device \cup {None}, snapshot : SUBSET Device]
      /\ unpairing'.step # "idle" => unpairing'.device # None
  BY DEF CloseGrid, UnpairGrid, Inv, TypeOK, DeviceWhenNeeded
<1>6. TypeOK'
  <2>1. hotkey' \in [Conn -> 0 .. 9]
    BY <1>3 DEF Inv, TypeOK
  <2> QED BY <1>2, <1>3, <1>4, <1>5, <2>1 DEF Inv, TypeOK
<1>7. DeviceWhenNeeded'
  <2>1. \A x \in Conn : closer'[x] # "idle" => stage[x] # "none"
    BY DEF CloseGrid, UnpairGrid, Inv, TypeOK, DeviceWhenNeeded
  <2> QED BY <1>2, <1>5, <2>1 DEF Inv, DeviceWhenNeeded
<1>8. OnlyEnteredHeld' /\ RegisteredNotStopped'
  BY <1>2 DEF Inv, OnlyEnteredHeld, RegisteredNotStopped, Entered
<1>9. MappingIsOwn'
  BY <1>2, <1>3 DEF Inv, TypeOK, MappingIsOwn
<1>10. MappedIsInGrid'
  <2> SUFFICES ASSUME NEW e \in Device, mapping'[e] # 0
               PROVE  \/ mapping'[e] \in grid'
                      \/ \E x \in Conn : /\ dev[x] = e /\ stage[x] = "grid"
                                         /\ uuid[x] = mapping'[e]
    BY <1>2 DEF MappedIsInGrid
  <2>1. e # d /\ mapping'[e] = mapping[e]
    BY <1>3 DEF Inv, TypeOK
  <2>2. mapping[e] # mapping[d]
    BY <2>1 DEF Inv, MappingIsOwn
  <2> QED BY <1>3, <2>1, <2>2 DEF Inv, MappedIsInGrid
<1> QED BY <1>6, <1>7, <1>8, <1>9, <1>10 DEF Inv

\* Peer flags, persistence, services and announcements: no registry, no grid.
LEMMA OtherSteps ==
  ASSUME Inv,
         \/ \E x \in Conn : CloseOnline(x)
         \/ UnpairPeer \/ UnpairSnapshot \/ UnpairWrite
         \/ StartServices \/ StopServices
  PROVE  Inv'
<1> USE DEF connVars, persistVars, serviceVars, taskVars, gridVars, peerVars
<1>1. /\ UNCHANGED <<dev, via, uuid, snapshot, gone, aborted, replaced, sessions>>
      /\ UNCHANGED <<mapping, grid, hotkey, announce>>
  BY DEF CloseOnline, UnpairPeer, UnpairSnapshot, UnpairWrite, StartServices, StopServices
<1>2. /\ running' \in BOOLEAN /\ stopping' \in BOOLEAN
      /\ known' \subseteq Device /\ paired' \subseteq known' /\ online' \subseteq known'
      /\ disk' \subseteq Device /\ lastSave' \in {"alone", "overlapping", "failed"}
  BY DEF CloseOnline, UnpairPeer, UnpairSnapshot, UnpairWrite, BeginSave, EndSave,
     StartServices, StopServices, Inv, TypeOK
<1>3. /\ stage' \in [Conn -> Stage]
      /\ \A x \in Conn : \/ stage'[x] = stage[x]
                         \/ stage[x] \in {"connecting", "ready"} /\ stage'[x] = "failed"
  <2>1. CASE StopServices
    BY <2>1 DEF StopServices, Stage, Inv, TypeOK
  <2>2. CASE ~StopServices
    BY <2>2 DEF CloseOnline, UnpairPeer, UnpairSnapshot, UnpairWrite, StartServices,
       Inv, TypeOK
  <2> QED BY <2>1, <2>2
<1>4. /\ closer' \in [Conn -> {"idle", "offline", "grid", "done"}]
      /\ \A x \in Conn : closer'[x] # "idle" => closer[x] # "idle"
  BY DEF CloseOnline, UnpairPeer, UnpairSnapshot, UnpairWrite, StartServices,
     StopServices, Inv, TypeOK
<1>5. /\ unpairing' \in [step : {"idle", "peers", "grid", "snapshot", "write"},
                         device : Device \cup {None}, snapshot : SUBSET Device]
      /\ unpairing'.step # "idle" => unpairing'.device # None
  <2>1. CASE UnpairPeer \/ UnpairSnapshot \/ UnpairWrite
    <3>1. PICK step \in {"grid", "write"}, list \in SUBSET Device :
             \/ unpairing' = [step |-> step, device |-> unpairing.device, snapshot |-> list]
             \/ unpairing' = [step |-> "idle", device |-> None, snapshot |-> {}]
      BY ZenonT(90), <2>1 DEF UnpairPeer, UnpairSnapshot, UnpairWrite, Inv, TypeOK
    <3>2. unpairing.device \in Device
      BY <2>1 DEF UnpairPeer, UnpairSnapshot, UnpairWrite, Inv, TypeOK, DeviceWhenNeeded
    <3> QED BY <3>1, <3>2, DeviceAssumption
  <2>2. CASE ~(UnpairPeer \/ UnpairSnapshot \/ UnpairWrite)
    BY <2>2 DEF CloseOnline, StartServices, StopServices, Inv, TypeOK, DeviceWhenNeeded
  <2> QED BY <2>1, <2>2
<1>6. TypeOK'
  BY <1>1, <1>2, <1>3, <1>4, <1>5 DEF Inv, TypeOK
<1>7. DeviceWhenNeeded'
  BY <1>1, <1>3, <1>4, <1>5 DEF Inv, DeviceWhenNeeded
<1>8. \A x \in Entered : x \in Entered'
  BY <1>3 DEF Entered
<1> QED BY <1>1, <1>3, <1>6, <1>7, <1>8, FrameStep

\* An announcement updates the peers and may open a connection.
LEMMA DiscoverySteps == ASSUME Inv, Discovery PROVE Inv'
<1> USE DEF persistVars, serviceVars, taskVars, gridVars, peerVars
<1>1. /\ UNCHANGED <<running, stopping, uuid, snapshot, disk, gone, aborted, replaced, closer>>
      /\ UNCHANGED <<lastSave, sessions, mapping, grid, hotkey, unpairing>>
  BY DEF Discovery, Announced, AnnouncedConnected, AnnouncedUpsert
<1>2. /\ announce' \in [step : {"idle", "connected", "upsert"}, device : Device \cup {None},
                        paired : BOOLEAN, connected : BOOLEAN]
      /\ announce'.step # "idle" => announce'.device # None
  <2>1. ASSUME NEW d \in Device, Announced(d) PROVE <1>2
    <3>1. announce' = [step |-> "connected", device |-> d, paired |-> d \in paired,
                       connected |-> FALSE]
      BY <2>1 DEF Announced, Idle
    <3> QED BY <3>1, DeviceAssumption
  <2>2. CASE AnnouncedConnected
    BY <2>2 DEF AnnouncedConnected, Inv, TypeOK, DeviceWhenNeeded
  <2>3. CASE AnnouncedUpsert
    BY <2>3 DEF AnnouncedUpsert, Idle
  <2> QED BY <2>1, <2>2, <2>3 DEF Discovery
<1>3. known' \subseteq Device /\ paired' \subseteq known' /\ online' \subseteq known'
  <2>1. CASE AnnouncedUpsert
    <3>1. announce.device \in Device
      BY <2>1 DEF AnnouncedUpsert, Inv, TypeOK, DeviceWhenNeeded
    <3> QED BY <2>1, <3>1 DEF AnnouncedUpsert, Inv, TypeOK
  <2>2. CASE ~AnnouncedUpsert
    BY <2>2 DEF Discovery, Announced, AnnouncedConnected, Inv, TypeOK
  <2> QED BY <2>1, <2>2
<1>4. /\ dev' \in [Conn -> Device \cup {None}]
      /\ via' \in [Conn -> {"none", "in", "out"}]
      /\ stage' \in [Conn -> Stage]
      /\ \A x \in Conn : \/ dev'[x] = dev[x] /\ stage'[x] = stage[x]
                         \/ stage[x] = "none" /\ stage'[x] = "connecting" /\ dev'[x] # None
  <2>1. CASE UNCHANGED connVars
    BY <2>1 DEF connVars, Inv, TypeOK
  <2>2. CASE AnnouncedUpsert /\ ~UNCHANGED connVars
    <3>1. announce.device \in Device
      BY <2>2 DEF AnnouncedUpsert, Inv, TypeOK, DeviceWhenNeeded
    <3>2. PICK x \in Conn : Open(x, announce.device, "out")
      BY <2>2 DEF AnnouncedUpsert
    <3>3. /\ dev' \in [Conn -> Device \cup {None}]
          /\ via' \in [Conn -> {"none", "in", "out"}]
          /\ stage' \in [Conn -> Stage]
          /\ stage[x] = "none" /\ stage'[x] = "connecting" /\ dev'[x] = announce.device
          /\ \A y \in Conn \ {x} : dev'[y] = dev[y] /\ stage'[y] = stage[y]
      BY <3>1, <3>2, OpenStep
    <3> QED BY <3>1, <3>3, DeviceAssumption
  <2> QED BY <2>1, <2>2 DEF Discovery, Announced, AnnouncedConnected, connVars
<1>5. TypeOK'
  BY <1>1, <1>2, <1>3, <1>4 DEF Inv, TypeOK
<1>6. DeviceWhenNeeded'
  BY <1>1, <1>2, <1>4 DEF Inv, DeviceWhenNeeded
<1>7. \A x \in Entered : x \in Entered'
  BY <1>4 DEF Entered
<1> QED BY <1>1, <1>4, <1>5, <1>6, <1>7, FrameStep

-----------------------------------------------------------------------------

\* The application starts with the paired peers of peers.json, none connected.
LEMMA InvInit == ASSUME Init PROVE Inv
<1>1. stage \in [Conn -> Stage]
  BY DEF Init, Stage
<1>2. /\ dev \in [Conn -> Device \cup {None}]
      /\ via \in [Conn -> {"none", "in", "out"}]
      /\ uuid \in [Conn -> Conn \cup {0}]
      /\ snapshot \in [Conn -> SUBSET Device]
      /\ closer \in [Conn -> {"idle", "offline", "grid", "done"}]
      /\ sessions \in [Device -> Conn \cup {0}]
      /\ mapping \in [Device -> Conn \cup {0}]
      /\ hotkey \in [Conn -> 0 .. 9]
  BY DEF Init
<1>3. TypeOK
  BY <1>1, <1>2 DEF Init, TypeOK, Idle
<1>4. DeviceWhenNeeded
  BY DEF Init, DeviceWhenNeeded, Idle
<1>5. OnlyEnteredHeld /\ MappingIsOwn /\ RegisteredNotStopped /\ MappedIsInGrid
  BY DEF Init, OnlyEnteredHeld, MappingIsOwn, RegisteredNotStopped, MappedIsInGrid
<1> QED BY <1>3, <1>4, <1>5 DEF Inv

\* Every step of the registries keeps the invariant.
LEMMA InvStep == ASSUME Inv, [Next]_vars PROVE Inv'
<1>1. CASE UNCHANGED vars
  BY <1>1 DEF vars, connVars, taskVars, gridVars, peerVars, serviceVars, persistVars,
     Inv, TypeOK, OnlyEnteredHeld, Entered, MappingIsOwn, DeviceWhenNeeded,
     RegisteredNotStopped, MappedIsInGrid
<1>2. CASE \E x \in Conn, d \in Device : Connect(x, d)
  BY <1>2, ConnectionSteps
<1>3. ASSUME NEW x \in Conn, Handshake(x) \/ Gone(x) \/ Register(x) PROVE Inv'
  BY <1>3, ConnectionSteps, RegisterSessionStep, RegisterGridSteps DEF Register
<1>4. ASSUME NEW x \in Conn, OnClose(x) PROVE Inv'
  BY <1>4, RemovalSteps, RemoveFromGridSteps, OtherSteps DEF OnClose
<1>5. CASE Unpair
  BY <1>5, RemovalSteps, RemoveFromGridSteps, OtherSteps DEF Unpair
<1>6. CASE Services
  BY <1>6, RemovalSteps, OtherSteps DEF Services
<1>7. CASE Discovery
  BY <1>7, DiscoverySteps
<1> QED BY <1>1, <1>2, <1>3, <1>4, <1>5, <1>6, <1>7 DEF Next, Step

\* The invariant holds at the start and is kept by every step.
THEOREM InvHolds == Spec => []Inv
<1>1. Init => Inv
  BY InvInit
<1>2. Inv /\ [Next]_vars => Inv'
  BY InvStep
<1> QED BY <1>1, <1>2, PTL DEF Spec

\* Every variable of the registries keeps its type; in particular only a device
\* with an entry in peers is paired or online.
THEOREM TypeOKHolds == Spec => []TypeOK
BY InvHolds, PTL DEF Inv

\* The registry never holds a session that was shut down or replaced.
THEOREM RegisteredNotStoppedHolds == Spec => []RegisteredNotStopped
BY InvHolds, PTL DEF Inv

\* A mapping always leads to a grid entry, there or about to be inserted.
THEOREM MappedIsInGridHolds == Spec => []MappedIsInGrid
BY InvHolds, PTL DEF Inv
-----------------------------------------------------------------------------
(* What is recorded of a device no two operations of which went on at once:  *)
(* it agrees whenever the device is at rest, whatever goes on about others.  *)

Registering(x) == stage[x] \in Registration
Closing(x) == closer[x] \in {"offline", "grid"}
Unpairing(d) == unpairing.step # "idle" /\ unpairing.device = d
Announcing(d) == announce.step # "idle" /\ announce.device = d

\* One thing at a time is done about d, and one of its connections is not over.
Alone(d) ==
  /\ \A x, y \in Conn : dev[x] = d /\ dev[y] = d =>
        /\ x = y \/ Over(x) \/ Over(y)
        /\ Registering(x) /\ Registering(y) => x = y
        /\ Closing(x) /\ Closing(y) => x = y
        /\ ~(Registering(x) /\ Closing(y))
  /\ \A x \in Conn : dev[x] = d /\ (Registering(x) \/ Closing(x)) =>
        ~Unpairing(d) /\ ~Announcing(d) /\ ~stopping
  /\ Unpairing(d) => ~Announcing(d) /\ ~stopping
  /\ Announcing(d) => ~stopping

\* What the operation under way about d has done so far.
Progress(d) ==
  /\ \A x \in Conn : dev[x] = d =>
        /\ stage[x] = "session" => d \in online
        /\ stage[x] \in {"map", "grid", "snapshot", "write"} => sessions[d] = x
        /\ stage[x] = "grid" => uuid[x] = mapping[d]
        /\ Closing(x) => sessions[d] = 0
        /\ closer[x] = "grid" => d \notin online
  /\ Unpairing(d) => sessions[d] = 0

\* What was read for an announcement of d still holds when it is used.
AnnounceCurrent(d) == Announcing(d) =>
  /\ announce.paired => d \in paired
  /\ announce.step = "upsert" /\ announce.connected => sessions[d] # 0

\* With a session, d is online, and in the grid or about to be inserted.
Shown(d) == sessions[d] # 0 =>
  /\ d \in online
  /\ mapping[d] \in grid \/ stage[sessions[d]] \in {"map", "grid"}

\* What is shown of d without a session is about to change, or was left by a
\* shutdown, which does not run on_close.
Had(d) == d \in online \/ mapping[d] # 0 =>
  \/ sessions[d] # 0
  \/ \E x \in Conn : dev[x] = d /\ (x \in aborted \/ Registering(x) \/ Closing(x))

PeerRecords(d) == Progress(d) /\ AnnounceCurrent(d) /\ LiveIsHeld(d) /\ Shown(d) /\ Had(d)
                    /\ EntryIsMapped(d)

\* A change of d is yet to be listed for a save.
Owes(d) ==
  \/ \E x \in Conn : dev[x] = d /\ stage[x] \in {"session", "map", "grid", "snapshot"}
  \/ Unpairing(d) /\ unpairing.step \in {"grid", "snapshot"}

\* Every list being written, or else the file, says of d what the peers say.
Saved(d) ==
  /\ \A x \in Conn : stage[x] = "write" => (d \in snapshot[x] <=> d \in paired)
  /\ unpairing.step = "write" => (d \in unpairing.snapshot <=> d \in paired)
  /\ ~Saving => (d \in disk <=> d \in paired)

Persisted(d) == lastSave = "alone" => Owes(d) \/ Saved(d)

\* The last save is alone when no other one was being written as it began.
OneSave == lastSave = "alone" =>
  /\ \A x, y \in Conn : stage[x] = "write" /\ stage[y] = "write" => x = y
  /\ \A x \in Conn : stage[x] = "write" => unpairing.step # "write"

ClosingIsGone == \A x \in Conn : closer[x] # "idle" => x \in gone

IdentifierIsOwn ==
  /\ \A x \in Conn : uuid[x] # 0 => dev[x] # None /\ dev[uuid[x]] = dev[x]
  /\ \A u \in grid : dev[u] # None

Bookkeeping == OneSave /\ ClosingIsGone /\ IdentifierIsOwn

RecordsInv == /\ Inv /\ Bookkeeping
              /\ \A d \in Device \ crossed : Alone(d) /\ PeerRecords(d) /\ Persisted(d)

\* Two operations that are not the same one would be two in Work(d).
LEMMA AloneWhenCalm == ASSUME NEW d \in Device, ~Overlaps(d) PROVE Alone(d)
<1>1. \A o, p \in Work(d) : o = p
  BY DEF Overlaps
<1>2. \A x, y \in Conn : dev[x] = d /\ dev[y] = d => x = y \/ Over(x) \/ Over(y)
  BY DEF Overlaps
<1>3. /\ \A x \in Conn : dev[x] = d /\ Registering(x) => <<"register", x>> \in Work(d)
      /\ \A x \in Conn : dev[x] = d /\ Closing(x) => <<"close", x>> \in Work(d)
  BY DEF Work, Registering, Closing
<1>4. /\ Unpairing(d) => <<"unpair", 0>> \in Work(d)
      /\ Announcing(d) => <<"announce", 0>> \in Work(d)
      /\ stopping => <<"stop", 0>> \in Work(d)
  BY DEF Work, Unpairing, Announcing
<1>5. /\ \A x, y \in Conn : <<"register", x>> = <<"register", y>> => x = y
      /\ \A x, y \in Conn : <<"close", x>> = <<"close", y>> => x = y
      /\ \A x, y \in Conn : <<"register", x>> # <<"close", y>>
      /\ \A x \in Conn : /\ <<"register", x>> # <<"unpair", 0>>
                         /\ <<"register", x>> # <<"announce", 0>>
                         /\ <<"register", x>> # <<"stop", 0>>
                         /\ <<"close", x>> # <<"unpair", 0>>
                         /\ <<"close", x>> # <<"announce", 0>>
                         /\ <<"close", x>> # <<"stop", 0>>
      /\ <<"unpair", 0>> # <<"announce", 0>> /\ <<"unpair", 0>> # <<"stop", 0>>
      /\ <<"announce", 0>> # <<"stop", 0>>
  OBVIOUS
<1>6. \A x, y \in Conn : dev[x] = d /\ dev[y] = d =>
        /\ Registering(x) /\ Registering(y) => x = y
        /\ Closing(x) /\ Closing(y) => x = y
        /\ ~(Registering(x) /\ Closing(y))
  BY <1>1, <1>3, <1>5
<1>7. \A x \in Conn : dev[x] = d /\ (Registering(x) \/ Closing(x)) =>
        ~Unpairing(d) /\ ~Announcing(d) /\ ~stopping
  <2>1. ASSUME NEW x \in Conn, dev[x] = d, Registering(x)
        PROVE  ~Unpairing(d) /\ ~Announcing(d) /\ ~stopping
    BY <1>1, <1>3, <1>4, <1>5, <2>1
  <2>2. ASSUME NEW x \in Conn, dev[x] = d, Closing(x)
        PROVE  ~Unpairing(d) /\ ~Announcing(d) /\ ~stopping
    BY <1>1, <1>3, <1>4, <1>5, <2>2
  <2> QED BY <2>1, <2>2
<1>8. /\ Unpairing(d) => ~Announcing(d) /\ ~stopping
      /\ Announcing(d) => ~stopping
  BY <1>1, <1>4, <1>5
<1> QED BY <1>2, <1>6, <1>7, <1>8 DEF Alone

\* At rest, the records are what agreement asks.
LEMMA RecordsAgree == ASSUME RecordsInv PROVE AgreesAtRest
<1> SUFFICES ASSUME NEW d \in Device \ crossed, AtRest(d)
             PROVE  /\ LiveIsHeld(d) /\ HeldIsShown(d) /\ ShownHadSession(d)
                    /\ EntryIsMapped(d)
                    /\ lastSave = "alone" /\ ~Saving => (d \in disk <=> d \in paired)
  BY DEF AgreesAtRest
<1>1. PeerRecords(d) /\ Persisted(d)
  BY DEF RecordsInv
<1>2. /\ \A x \in Conn : dev[x] = d => ~Registering(x) /\ ~Closing(x)
      /\ ~Unpairing(d)
  BY DEF AtRest, Work, Registering, Closing, Unpairing
<1>3. sessions[d] # 0 => sessions[d] \in Conn /\ dev[sessions[d]] = d
  BY DEF RecordsInv, Inv, TypeOK, RegisteredNotStopped
<1>4. LiveIsHeld(d) /\ EntryIsMapped(d)
  BY <1>1 DEF PeerRecords
<1>5. HeldIsShown(d)
  BY <1>1, <1>2, <1>3 DEF PeerRecords, Shown, HeldIsShown, Registering, Registration
<1>6. ShownHadSession(d)
  BY <1>1, <1>2 DEF PeerRecords, Had, ShownHadSession, RecordsInv, Inv, TypeOK
<1>7. ~Owes(d)
  BY <1>2 DEF Owes, Registering, Registration
<1>8. lastSave = "alone" /\ ~Saving => (d \in disk <=> d \in paired)
  BY <1>1, <1>7 DEF Persisted, Saved
<1> QED BY <1>4, <1>5, <1>6, <1>8

\* The records start empty, but for the peers read from peers.json.
LEMMA RecordsInit == ASSUME Init PROVE RecordsInv
<1>1. Bookkeeping
  BY DEF Init, Bookkeeping, OneSave, ClosingIsGone, IdentifierIsOwn
<1>2. ASSUME NEW d \in Device PROVE Alone(d) /\ PeerRecords(d) /\ Persisted(d)
  <2>1. d # None
    BY DeviceAssumption
  <2>2. Alone(d)
    BY <2>1 DEF Init, Alone, Unpairing, Announcing, Idle
  <2>3. Progress(d) /\ AnnounceCurrent(d)
    BY <2>1 DEF Init, Progress, AnnounceCurrent, Unpairing, Announcing, Idle
  <2>4. LiveIsHeld(d) /\ Shown(d) /\ Had(d) /\ EntryIsMapped(d)
    BY DEF Init, LiveIsHeld, Entered, Shown, Had, EntryIsMapped
  <2>5. Saved(d)
    BY DEF Init, Saved
  <2> QED BY <2>2, <2>3, <2>4, <2>5 DEF PeerRecords, Persisted
<1> QED BY <1>1, <1>2, InvInit DEF RecordsInv

\* A connection that was opened has a device, a session and a mapping are of
\* the device they are found by.
LEMMA RecordFacts ==
  ASSUME Inv
  PROVE  /\ \A x \in Conn : stage[x] # "none" <=> dev[x] \in Device
         /\ \A x \in Conn : closer[x] # "idle" => stage[x] # "none"
         /\ \A d \in Device : sessions[d] # 0 =>
              sessions[d] \in Conn /\ dev[sessions[d]] = d
         /\ \A d \in Device : mapping[d] # 0 => mapping[d] \in Conn /\ dev[mapping[d]] = d
         /\ 0 \notin Conn /\ 0 \notin grid
BY ConnAssumption, DeviceAssumption
   DEF Inv, TypeOK, DeviceWhenNeeded, RegisteredNotStopped, MappingIsOwn, Conn

\* A step that is about other devices, or only about connections yet to be
\* registered, leaves what is recorded of d as it is.
LEMMA Elsewhere ==
  ASSUME Inv, Bookkeeping, NEW d \in Device, PeerRecords(d), AnnounceCurrent(d)',
         sessions'[d] = sessions[d], mapping'[d] = mapping[d],
         d \in online' <=> d \in online,
         aborted \subseteq aborted', replaced \subseteq replaced',
         \A x \in Conn : dev[x] = d /\ x \in gone => x \in gone' \/ x \in aborted',
         \A x \in Conn : stage[x] # "none" => dev'[x] = dev[x],
         \A x \in Conn : dev'[x] = d => closer'[x] = closer[x] /\ uuid'[x] = uuid[x],
         \A x \in Conn : dev'[x] = d =>
            \/ stage'[x] = stage[x]
            \/ /\ stage[x] \in {"none", "connecting", "ready"}
               /\ stage'[x] \in {"connecting", "failed", "ready", "peers"},
         \A u \in grid' : u \in grid \/ dev'[u] # d,
         mapping[d] \in grid => mapping[d] \in grid',
         Unpairing(d)' => Unpairing(d)
  PROVE  PeerRecords(d)'
<1> USE DEF PeerRecords
<1>1. \A x \in Conn : dev'[x] = d /\ stage[x] # "none" => dev[x] = d
  OBVIOUS
<1>2. \A x \in Conn : dev'[x] = d /\ stage'[x] \in Registration \ {"peers"} =>
         stage'[x] = stage[x] /\ dev[x] = d
  BY <1>1 DEF Registration
<1>3. \A x \in Conn : dev'[x] = d /\ Closing(x)' => Closing(x) /\ dev[x] = d
  BY <1>1, RecordFacts DEF Closing
<1>4. Progress(d)'
  BY <1>2, <1>3 DEF Progress, Registration, Closing
<1>5. LiveIsHeld(d)'
  <2> SUFFICES ASSUME NEW x \in Conn, x \in Entered', dev'[x] = d,
                      x \notin gone' \cup aborted' \cup replaced'
               PROVE  sessions[d] = x
    BY DEF LiveIsHeld, Entered
  <2>1. x \in Entered /\ dev[x] = d
    BY <1>1 DEF Entered
  <2> QED BY <2>1 DEF LiveIsHeld
<1>6. Shown(d)'
  <2> SUFFICES ASSUME sessions[d] # 0
               PROVE  mapping[d] \in grid' \/ stage'[sessions[d]] \in {"map", "grid"}
    BY DEF Shown
  <2>1. sessions[d] \in Conn /\ dev'[sessions[d]] = d
    BY RecordFacts
  <2> QED BY <2>1 DEF Shown
<1>7. Had(d)'
  <2>1. ASSUME NEW x \in Conn, dev[x] = d, x \in aborted \/ Registering(x) \/ Closing(x)
        PROVE  dev'[x] = d /\ (x \in aborted' \/ Registering(x)' \/ Closing(x)')
    BY <2>1, RecordFacts DEF Registering, Registration, Closing
  <2> QED BY <2>1 DEF Had
<1>8. EntryIsMapped(d)'
  <2> SUFFICES ASSUME NEW u \in grid', dev'[u] = d PROVE mapping[d] = u
    BY DEF EntryIsMapped
  <2>1. u \in grid /\ u \in Conn
    BY DEF Inv, TypeOK
  <2>2. dev[u] = d
    BY <1>1, <2>1 DEF Bookkeeping, IdentifierIsOwn, Inv, TypeOK, DeviceWhenNeeded
  <2> QED BY <2>1, <2>2 DEF EntryIsMapped
<1> QED BY <1>4, <1>5, <1>6, <1>7, <1>8

\* What was read for an announcement is not touched by a step about others.
LEMMA AnnounceFrame ==
  ASSUME NEW d \in Device, AnnounceCurrent(d), UNCHANGED announce,
         sessions'[d] = sessions[d], d \in paired => d \in paired'
  PROVE  AnnounceCurrent(d)'
BY DEF AnnounceCurrent, Announcing

\* Of a registration, the peer's entry comes first, then the session, the mapping
\* and the grid entry, then the file.
LEMMA RegistrationRecords ==
  ASSUME RecordsInv, Inv', NEW x \in Conn, NEW d \in Device, d = dev[x],
         Alone(d), Alone(d)', PeerRecords(d),
         \/ RegisterPeer(x) \/ RegisterSession(x) \/ RegisterMapping(x)
         \/ RegisterGrid(x) \/ Snapshot(x) \/ Write(x)
  PROVE  PeerRecords(d)'
<1> USE DEF PeerRecords
<1> USE DEF serviceVars, connVars, persistVars, taskVars, peerVars, gridVars
<1>1. PICK from \in Registration, to \in Registration \cup {"done"} :
         /\ Advance(x, from, to)
         /\ \/ from = "peers" /\ to = "session" /\ RegisterPeer(x)
            \/ from = "session" /\ to = "map" /\ RegisterSession(x)
            \/ from = "map" /\ to = "grid" /\ RegisterMapping(x)
            \/ from = "grid" /\ to = "snapshot" /\ RegisterGrid(x)
            \/ from = "snapshot" /\ to = "write" /\ Snapshot(x)
            \/ from = "write" /\ to = "done" /\ Write(x)
  BY DEF RegisterPeer, RegisterSession, RegisterMapping, RegisterGrid, Snapshot, Write,
     Registration
<1>2. /\ stage[x] = from /\ stage'[x] = to
      /\ \A y \in Conn \ {x} : stage'[y] = stage[y]
  <2>1. from \in Stage /\ to \in Stage
    BY DEF Stage
  <2> QED BY <1>1, <2>1, AdvanceStep DEF RecordsInv
<1>3. UNCHANGED <<dev, gone, aborted, closer, announce, unpairing, stopping>>
  BY DEF RegisterPeer, RegisterSession, RegisterMapping, RegisterGrid, Snapshot, Write
<1>4. /\ \A y \in Conn \ {x} : dev[y] = d => ~Registering(y)
      /\ \A y \in Conn : dev[y] = d => ~Closing(y)
      /\ ~Unpairing(d) /\ ~Announcing(d)
  BY <1>1, <1>2 DEF Alone, Registering
<1>5. AnnounceCurrent(d)' /\ ~Unpairing(d)'
  BY <1>3, <1>4 DEF AnnounceCurrent, Announcing, Unpairing
<1>6. \A y \in Conn \ {x} : dev[y] = d => stage'[y] \notin Registration
  BY <1>2, <1>4 DEF Registering
<1>7. sessions[d] # 0 => sessions[d] \in Conn /\ dev[sessions[d]] = d
  BY RecordFacts DEF RecordsInv
<1>8. x # 0
  BY RecordFacts DEF RecordsInv
<1>9. \A y \in Conn \ {x} : dev[y] = d =>
         (y \in aborted \/ Registering(y) \/ Closing(y) <=> y \in aborted)
  BY <1>4
<1>10. CASE from = "peers"
  <2>1. /\ to = "session"
        /\ UNCHANGED <<sessions, mapping, grid, replaced>>
        /\ online' = online \cup {d}
    BY <1>1, <1>10 DEF RegisterPeer
  <2>2. Progress(d)'
    BY <1>2, <1>3, <1>4, <1>5, <1>6, <1>10, <2>1 DEF Progress, Registration, Closing
  <2>3. LiveIsHeld(d)'
    BY <1>2, <1>3, <1>10, <2>1 DEF LiveIsHeld, Entered
  <2>4. Shown(d)'
    BY <1>2, <1>7, <1>10, <2>1 DEF Shown
  <2>5. Had(d)'
    BY <1>2, <1>3, <2>1 DEF Had, Registering, Registration
  <2>6. EntryIsMapped(d)'
    BY <1>3, <2>1 DEF EntryIsMapped
  <2> QED BY <1>5, <2>2, <2>3, <2>4, <2>5, <2>6
<1>11. CASE from = "session"
  <2>1. /\ to = "map"
        /\ UNCHANGED <<online, mapping, grid>>
        /\ replaced' = replaced \cup ({sessions[d]} \ {0})
        /\ sessions' = [sessions EXCEPT ![d] = x]
    BY <1>1, <1>11 DEF RegisterSession
  <2>2. sessions'[d] = x
    BY <2>1 DEF RecordsInv, Inv, TypeOK
  <2>3. Progress(d)'
    BY <1>2, <1>3, <1>4, <1>5, <1>6, <2>1, <2>2 DEF Progress, Registration, Closing
  <2>4. LiveIsHeld(d)'
    <3> SUFFICES ASSUME NEW y \in Conn, y \in Entered, y # x, dev[y] = d,
                        y \notin gone \cup aborted \cup replaced'
                 PROVE  FALSE
      BY <1>2, <1>3, <2>2 DEF LiveIsHeld, Entered
    <3>1. sessions[d] = y /\ y # 0
      BY <2>1, RecordFacts DEF LiveIsHeld, RecordsInv
    <3> QED BY <2>1, <3>1
  <2>5. Shown(d)'
    BY <1>2, <1>11, <2>1, <2>2 DEF Shown, Progress
  <2>6. Had(d)'
    BY <1>8, <2>2 DEF Had
  <2>7. EntryIsMapped(d)'
    BY <1>3, <2>1 DEF EntryIsMapped
  <2> QED BY <1>5, <2>3, <2>4, <2>5, <2>6, <2>7
<1>12. CASE from = "map"
  <2>1. /\ to = "grid"
        /\ UNCHANGED <<sessions, online, grid, replaced>>
    BY <1>1, <1>12 DEF RegisterMapping
  <2>2. /\ uuid'[x] = mapping'[d]
        /\ mapping[d] # 0 => mapping'[d] = mapping[d]
    BY <1>1, <1>12 DEF RegisterMapping, RecordsInv, Inv, TypeOK
  <2>3. sessions[d] = x
    BY <1>2, <1>12 DEF Progress
  <2>4. Progress(d)'
    BY <1>2, <1>3, <1>4, <1>5, <1>6, <1>12, <2>1, <2>2, <2>3 DEF Progress, Registration, Closing
  <2>5. LiveIsHeld(d)'
    BY <1>2, <1>3, <1>12, <2>1 DEF LiveIsHeld, Entered
  <2>6. Shown(d)'
    BY <1>2, <2>1, <2>3 DEF Shown
  <2>7. Had(d)'
    BY <1>8, <2>1, <2>3 DEF Had
  <2>8. EntryIsMapped(d)'
    BY <1>3, <2>1, <2>2, RecordFacts DEF EntryIsMapped, RecordsInv
  <2> QED BY <1>5, <2>4, <2>5, <2>6, <2>7, <2>8
<1>13. CASE from = "grid"
  <2>1. /\ to = "snapshot"
        /\ UNCHANGED <<sessions, online, mapping, replaced>>
        /\ grid' = grid \cup {uuid[x]}
    BY <1>1, <1>13 DEF RegisterGrid
  <2>2. uuid[x] = mapping[d] /\ sessions[d] = x
    BY <1>2, <1>13 DEF Progress
  <2>3. Progress(d)'
    BY <1>2, <1>3, <1>4, <1>5, <1>6, <1>13, <2>1, <2>2 DEF Progress, Registration, Closing
  <2>4. LiveIsHeld(d)'
    BY <1>2, <1>3, <1>13, <2>1 DEF LiveIsHeld, Entered
  <2>5. Shown(d)'
    BY <2>1, <2>2 DEF Shown
  <2>6. Had(d)'
    BY <1>8, <2>1, <2>2 DEF Had
  <2>7. EntryIsMapped(d)'
    BY <1>3, <2>1, <2>2 DEF EntryIsMapped
  <2> QED BY <1>5, <2>3, <2>4, <2>5, <2>6, <2>7
<1>14. CASE from \in {"snapshot", "write"}
  <2>1. UNCHANGED <<sessions, online, mapping, grid, replaced>>
    BY <1>1, <1>14 DEF Snapshot, Write
  <2>2. sessions[d] = x
    BY <1>2, <1>14 DEF Progress
  <2>3. to \in {"write", "done"}
    BY <1>1, <1>14
  <2>4. Progress(d)'
    BY <1>2, <1>3, <1>4, <1>5, <1>6, <1>14, <2>1, <2>2, <2>3 DEF Progress, Registration, Closing
  <2>5. LiveIsHeld(d)'
    BY <1>2, <1>3, <1>14, <2>1 DEF LiveIsHeld, Entered
  <2>6. Shown(d)'
    BY <1>2, <1>14, <2>1, <2>2 DEF Shown
  <2>7. Had(d)'
    BY <1>8, <2>1, <2>2 DEF Had
  <2>8. EntryIsMapped(d)'
    BY <1>3, <2>1 DEF EntryIsMapped
  <2> QED BY <1>5, <2>4, <2>5, <2>6, <2>7, <2>8
<1> QED BY <1>10, <1>11, <1>12, <1>13, <1>14 DEF Registration

\* on_close: the session leaves the registry, then online, then the grid.
LEMMA CloseRecords ==
  ASSUME RecordsInv, NEW x \in Conn, NEW d \in Device, d = dev[x],
         Alone(d), Alone(d)', PeerRecords(d), OnClose(x)
  PROVE  PeerRecords(d)'
<1> USE DEF PeerRecords
<1> USE DEF serviceVars, connVars, persistVars, taskVars, peerVars, gridVars
<1>1. /\ UNCHANGED <<dev, stage, uuid, gone, aborted, replaced>>
      /\ UNCHANGED <<announce, unpairing>>
  BY DEF OnClose, CloseSession, CloseOnline, CloseGrid
<1>2. /\ closer' \in [Conn -> {"idle", "offline", "grid", "done"}]
      /\ \A y \in Conn \ {x} : closer'[y] = closer[y]
      /\ Closing(x) \/ Closing(x)'
  BY DEF OnClose, CloseSession, CloseOnline, CloseGrid, Closing, RecordsInv, Inv, TypeOK
<1>3. /\ \A y \in Conn : dev[y] = d => ~Registering(y)
      /\ \A y \in Conn \ {x} : dev[y] = d => ~Closing(y)
      /\ ~Unpairing(d) /\ ~Announcing(d)
  <2>1. CASE Closing(x)
    BY <2>1 DEF Alone
  <2>2. CASE Closing(x)'
    <3>1. /\ \A y \in Conn : dev[y] = d => ~Registering(y)'
          /\ \A y \in Conn \ {x} : dev[y] = d => ~Closing(y)'
          /\ ~Unpairing(d)' /\ ~Announcing(d)'
      BY <1>1, <2>2 DEF Alone
    <3> QED BY <1>1, <1>2, <3>1 DEF Registering, Closing, Unpairing, Announcing
  <2> QED BY <1>2, <2>1, <2>2
<1>4. \A y \in Conn : dev[y] = d => stage[y] \notin Registration
  BY <1>3 DEF Registering
<1>5. AnnounceCurrent(d)' /\ ~Unpairing(d)'
  BY <1>1, <1>3 DEF AnnounceCurrent, Announcing, Unpairing
<1>6. CASE CloseSession(x)
  <2>1. /\ UNCHANGED <<online, mapping, grid>>
        /\ closer[x] = "idle" /\ closer'[x] = "offline"
        /\ x \in gone /\ Spawned(x)
        /\ sessions'[d] = 0
    BY <1>6 DEF CloseSession, RecordsInv, Inv, TypeOK
  <2>2. Progress(d)'
    BY <1>1, <1>2, <1>3, <1>4, <1>5, <2>1 DEF Progress, Registration, Closing
  <2>3. LiveIsHeld(d)'
    <3> SUFFICES ASSUME NEW y \in Conn, y \in Entered, dev[y] = d,
                        y \notin gone \cup aborted \cup replaced
                 PROVE  FALSE
      BY <1>1 DEF LiveIsHeld, Entered
    <3>1. y # x /\ closer[y] = "idle"
      BY <2>1 DEF RecordsInv, Bookkeeping, ClosingIsGone
    <3>2. ~Over(x) /\ ~Over(y)
      BY <2>1, <3>1 DEF Over, Spawned, Registration, Entered
    <3> QED BY <3>1, <3>2 DEF Alone
  <2>4. Shown(d)'
    BY <2>1 DEF Shown
  <2>5. Had(d)'
    BY <1>1, <2>1 DEF Had, Closing
  <2>6. EntryIsMapped(d)'
    BY <1>1, <2>1 DEF EntryIsMapped
  <2> QED BY <1>5, <2>2, <2>3, <2>4, <2>5, <2>6
<1>7. CASE CloseOnline(x)
  <2>1. /\ UNCHANGED <<sessions, mapping, grid>>
        /\ closer[x] = "offline" /\ closer'[x] = "grid"
        /\ online' = online \ {d}
    BY <1>7 DEF CloseOnline, RecordsInv, Inv, TypeOK
  <2>2. sessions[d] = 0
    BY <2>1 DEF Progress, Closing
  <2>3. Progress(d)'
    BY <1>1, <1>2, <1>3, <1>4, <1>5, <2>1, <2>2 DEF Progress, Registration, Closing
  <2>4. LiveIsHeld(d)'
    BY <1>1, <2>1 DEF LiveIsHeld, Entered
  <2>5. Shown(d)'
    BY <2>1, <2>2 DEF Shown
  <2>6. Had(d)'
    BY <1>1, <2>1 DEF Had, Closing
  <2>7. EntryIsMapped(d)'
    BY <1>1, <2>1 DEF EntryIsMapped
  <2> QED BY <1>5, <2>3, <2>4, <2>5, <2>6, <2>7
<1>8. CASE CloseGrid(x)
  <2>1. /\ UNCHANGED <<sessions, online>>
        /\ closer[x] = "grid" /\ closer'[x] = "done"
        /\ grid' = grid \ {mapping[d]}
        /\ mapping'[d] = 0
    BY <1>8 DEF CloseGrid, RemovePeerFromGrid, RecordsInv, Inv, TypeOK
  <2>2. sessions[d] = 0 /\ d \notin online
    BY <2>1 DEF Progress, Closing
  <2>3. Progress(d)'
    BY <1>1, <1>2, <1>3, <1>4, <1>5, <2>1, <2>2 DEF Progress, Registration, Closing
  <2>4. LiveIsHeld(d)'
    BY <1>1, <2>1 DEF LiveIsHeld, Entered
  <2>5. Shown(d)'
    BY <2>1, <2>2 DEF Shown
  <2>6. Had(d)'
    BY <2>1, <2>2 DEF Had
  <2>7. EntryIsMapped(d)'
    BY <1>1, <2>1 DEF EntryIsMapped
  <2> QED BY <1>5, <2>3, <2>4, <2>5, <2>6, <2>7
<1> QED BY <1>6, <1>7, <1>8 DEF OnClose

\* unpair_peer: the session is stopped and removed, then the peer, then the grid
\* entry, then the file is written.
LEMMA UnpairRecords ==
  ASSUME RecordsInv, NEW d \in Device, Alone(d), Alone(d)', PeerRecords(d),
         \/ UnpairSession(d)
         \/ /\ unpairing.device = d
            /\ UnpairPeer \/ UnpairGrid \/ UnpairSnapshot \/ UnpairWrite
  PROVE  PeerRecords(d)'
<1> USE DEF PeerRecords
<1> USE DEF serviceVars, connVars, persistVars, taskVars, peerVars, gridVars
<1>1. UNCHANGED <<dev, stage, uuid, replaced, closer, announce>>
  BY DEF UnpairSession, UnpairPeer, UnpairGrid, UnpairSnapshot, UnpairWrite
<1>2. unpairing \in [step : {"idle", "peers", "grid", "snapshot", "write"},
                     device : Device \cup {None}, snapshot : SUBSET Device]
  BY DEF RecordsInv, Inv, TypeOK
<1>3. Unpairing(d) \/ Unpairing(d)'
  BY <1>2 DEF UnpairSession, UnpairPeer, UnpairGrid, UnpairSnapshot, UnpairWrite, Unpairing
<1>4. /\ \A y \in Conn : dev[y] = d => ~Registering(y) /\ ~Closing(y)
      /\ ~Announcing(d)
  <2>1. CASE Unpairing(d)
    BY <2>1 DEF Alone
  <2>2. CASE Unpairing(d)'
    <3>1. /\ \A y \in Conn : dev[y] = d => ~Registering(y)' /\ ~Closing(y)'
          /\ ~Announcing(d)'
      BY <1>1, <2>2 DEF Alone
    <3> QED BY <1>1, <3>1 DEF Registering, Closing, Announcing
  <2> QED BY <1>3, <2>1, <2>2
<1>5. \A y \in Conn : dev[y] = d => stage[y] \notin Registration
  BY <1>4 DEF Registering
<1>6. AnnounceCurrent(d)'
  BY <1>1, <1>4 DEF AnnounceCurrent, Announcing
<1>7. sessions[d] # 0 => sessions[d] \in Conn /\ dev[sessions[d]] = d
  BY RecordFacts DEF RecordsInv
<1>8. CASE UnpairSession(d)
  <2>1. /\ UNCHANGED <<online, mapping, grid>>
        /\ aborted' = aborted \cup ({sessions[d]} \ {0})
        /\ gone \subseteq gone' \cup aborted'
        /\ sessions'[d] = 0
    BY <1>8 DEF UnpairSession, Abort, RecordsInv, Inv, TypeOK
  <2>2. Progress(d)'
    BY <1>1, <1>4, <1>5, <2>1 DEF Progress, Registration, Closing
  <2>3. LiveIsHeld(d)'
    <3> SUFFICES ASSUME NEW y \in Conn, y \in Entered, dev[y] = d,
                        y \notin gone' \cup aborted' \cup replaced
                 PROVE  FALSE
      BY <1>1 DEF LiveIsHeld, Entered
    <3>1. sessions[d] = y /\ y # 0
      BY <2>1, RecordFacts DEF LiveIsHeld, RecordsInv
    <3> QED BY <2>1, <3>1
  <2>4. Shown(d)'
    BY <2>1 DEF Shown
  <2>5. Had(d)'
    BY <1>1, <1>4, <1>7, <2>1 DEF Had
  <2>6. EntryIsMapped(d)'
    BY <1>1, <2>1 DEF EntryIsMapped
  <2> QED BY <1>6, <2>2, <2>3, <2>4, <2>5, <2>6
<1>9. CASE unpairing.device = d /\ UnpairPeer
  <2>1. /\ UNCHANGED <<sessions, gone, aborted, mapping, grid>>
        /\ unpairing.step = "peers"
        /\ online' = online \ {d}
    BY <1>9 DEF UnpairPeer
  <2>2. sessions[d] = 0
    BY <1>9, <2>1 DEF Progress, Unpairing
  <2>3. Progress(d)'
    BY <1>1, <1>4, <1>5, <2>1, <2>2 DEF Progress, Registration, Closing
  <2>4. LiveIsHeld(d)'
    BY <1>1, <2>1 DEF LiveIsHeld, Entered
  <2>5. Shown(d)'
    BY <2>1, <2>2 DEF Shown
  <2>6. Had(d)'
    BY <1>1, <1>4, <2>1 DEF Had
  <2>7. EntryIsMapped(d)'
    BY <1>1, <2>1 DEF EntryIsMapped
  <2> QED BY <1>6, <2>3, <2>4, <2>5, <2>6, <2>7
<1>10. CASE unpairing.device = d /\ UnpairGrid
  <2>1. /\ UNCHANGED <<sessions, gone, aborted, online>>
        /\ unpairing.step = "grid"
        /\ grid' = grid \ {mapping[d]}
        /\ mapping'[d] = 0
    BY <1>10 DEF UnpairGrid, RemovePeerFromGrid, RecordsInv, Inv, TypeOK
  <2>2. sessions[d] = 0
    BY <1>10, <2>1 DEF Progress, Unpairing
  <2>3. Progress(d)'
    BY <1>1, <1>4, <1>5, <2>1, <2>2 DEF Progress, Registration, Closing
  <2>4. LiveIsHeld(d)'
    BY <1>1, <2>1 DEF LiveIsHeld, Entered
  <2>5. Shown(d)'
    BY <2>1, <2>2 DEF Shown
  <2>6. Had(d)'
    BY <1>1, <1>4, <2>1 DEF Had
  <2>7. EntryIsMapped(d)'
    BY <1>1, <2>1 DEF EntryIsMapped
  <2> QED BY <1>6, <2>3, <2>4, <2>5, <2>6, <2>7
<1>11. CASE unpairing.device = d /\ (UnpairSnapshot \/ UnpairWrite)
  <2>1. UNCHANGED <<sessions, gone, aborted, online, mapping, grid>>
    BY <1>11 DEF UnpairSnapshot, UnpairWrite
  <2>2. sessions[d] = 0
    BY <1>11 DEF Progress, Unpairing, UnpairSnapshot, UnpairWrite
  <2>3. Progress(d)'
    BY <1>1, <1>4, <1>5, <2>1, <2>2 DEF Progress, Registration, Closing
  <2>4. LiveIsHeld(d)'
    BY <1>1, <2>1 DEF LiveIsHeld, Entered
  <2>5. Shown(d)'
    BY <2>1, <2>2 DEF Shown
  <2>6. Had(d)'
    BY <1>1, <1>4, <2>1 DEF Had
  <2>7. EntryIsMapped(d)'
    BY <1>1, <2>1 DEF EntryIsMapped
  <2> QED BY <1>6, <2>3, <2>4, <2>5, <2>6, <2>7
<1> QED BY <1>8, <1>9, <1>10, <1>11

\* stop_services, second half: every session is stopped and removed.
LEMMA StopRecords ==
  ASSUME RecordsInv, NEW d \in Device, Alone(d), PeerRecords(d), StopSessions
  PROVE  PeerRecords(d)'
<1> USE DEF PeerRecords
<1> USE DEF serviceVars, connVars, persistVars, peerVars, gridVars
<1>1. /\ UNCHANGED <<dev, stage, uuid, replaced, closer>>
      /\ UNCHANGED <<online, mapping, grid, announce, unpairing>>
      /\ stopping
      /\ aborted' = aborted \cup ({sessions[e] : e \in Device} \ {0})
      /\ gone \subseteq gone' \cup aborted'
      /\ sessions'[d] = 0
  BY DEF StopSessions, Abort
<1>2. /\ \A y \in Conn : dev[y] = d => ~Registering(y) /\ ~Closing(y)
      /\ ~Unpairing(d) /\ ~Announcing(d)
  BY <1>1 DEF Alone
<1>3. Progress(d)' /\ AnnounceCurrent(d)'
  BY <1>1, <1>2 DEF Progress, AnnounceCurrent, Unpairing, Announcing, Registering,
     Registration, Closing
<1>4. sessions[d] # 0 => sessions[d] \in aborted'
  BY <1>1
<1>5. LiveIsHeld(d)'
  <2> SUFFICES ASSUME NEW y \in Conn, y \in Entered, dev[y] = d,
                      y \notin gone' \cup aborted' \cup replaced
               PROVE  FALSE
    BY <1>1 DEF LiveIsHeld, Entered
  <2>1. sessions[d] = y /\ y # 0
    BY <1>1, RecordFacts DEF LiveIsHeld, RecordsInv
  <2> QED BY <1>4, <2>1
<1>6. Shown(d)'
  BY <1>1 DEF Shown
<1>7. Had(d)'
  BY <1>1, <1>2, <1>4, RecordFacts DEF Had, RecordsInv
<1>8. EntryIsMapped(d)'
  BY <1>1 DEF EntryIsMapped
<1> QED BY <1>3, <1>5, <1>6, <1>7, <1>8

\* Registrations, on_close and unpairings of another device.
LEMMA ElsewhereSteps ==
  ASSUME RecordsInv, NEW d \in Device, PeerRecords(d),
         \/ \E x \in Conn : /\ dev[x] # d
                            /\ \/ RegisterPeer(x) \/ RegisterSession(x) \/ RegisterMapping(x)
                               \/ RegisterGrid(x) \/ Snapshot(x) \/ Write(x) \/ OnClose(x)
         \/ \E e \in Device \ {d} : UnpairSession(e)
         \/ /\ unpairing.device # d
            /\ UnpairPeer \/ UnpairGrid \/ UnpairSnapshot \/ UnpairWrite
  PROVE  PeerRecords(d)'
<1> USE DEF serviceVars, connVars, persistVars, taskVars, peerVars, gridVars
<1>1. Inv /\ Bookkeeping /\ AnnounceCurrent(d)
  BY DEF RecordsInv, PeerRecords
<1>2. ASSUME NEW x \in Conn, dev[x] # d,
             \/ RegisterPeer(x) \/ RegisterSession(x) \/ RegisterMapping(x)
             \/ RegisterGrid(x) \/ Snapshot(x) \/ Write(x)
      PROVE  PeerRecords(d)'
  <2>1. /\ UNCHANGED <<dev, gone, aborted, closer, announce, unpairing>>
        /\ replaced \subseteq replaced'
        /\ paired \subseteq paired'
    BY <1>2 DEF RegisterPeer, RegisterSession, RegisterMapping, RegisterGrid, Snapshot, Write
  <2>2. \E from, to \in Stage : Advance(x, from, to) /\ from # "none"
    BY <1>2 DEF RegisterPeer, RegisterSession, RegisterMapping, RegisterGrid, Snapshot, Write,
       Stage, Registration
  <2>3. dev[x] \in Device /\ \A y \in Conn \ {x} : stage'[y] = stage[y]
    BY <1>1, <2>2, AdvanceStep, RecordFacts
  <2>4. sessions'[d] = sessions[d]
    BY <1>1, <1>2, <2>3 DEF RegisterPeer, RegisterSession, RegisterMapping, RegisterGrid,
       Snapshot, Write, Inv, TypeOK
  <2>5. mapping'[d] = mapping[d]
    BY <1>1, <1>2, <2>3 DEF RegisterPeer, RegisterSession, RegisterMapping, RegisterGrid,
       Snapshot, Write, Inv, TypeOK
  <2>6. d \in online' <=> d \in online
    BY <1>2 DEF RegisterPeer, RegisterSession, RegisterMapping, RegisterGrid, Snapshot, Write
  <2>7. \A y \in Conn \ {x} : uuid'[y] = uuid[y]
    BY <1>1, <1>2 DEF RegisterPeer, RegisterSession, RegisterMapping, RegisterGrid, Snapshot,
       Write, Inv, TypeOK
  <2>8. grid \subseteq grid' /\ \A u \in grid' : u \in grid \/ dev[u] # d
    <3>1. CASE RegisterGrid(x)
      <4>1. stage[x] = "grid" /\ grid' = grid \cup {uuid[x]}
        BY <3>1 DEF RegisterGrid, Advance
      <4>2. uuid[x] # 0 /\ dev[uuid[x]] = dev[x]
        BY <1>1, <4>1 DEF Inv, DeviceWhenNeeded, Bookkeeping, IdentifierIsOwn
      <4> QED BY <1>2, <4>1, <4>2
    <3>2. CASE ~RegisterGrid(x)
      BY <1>2, <3>2 DEF RegisterPeer, RegisterSession, RegisterMapping, Snapshot, Write
    <3> QED BY <3>1, <3>2
  <2>9. AnnounceCurrent(d)'
    BY <1>1, <2>1, <2>4, AnnounceFrame
  <2>10. Unpairing(d)' => Unpairing(d)
    BY <2>1 DEF Unpairing
  <2> QED BY <1>1, <1>2, <2>1, <2>3, <2>4, <2>5, <2>6, <2>7, <2>8, <2>9, <2>10, Elsewhere
<1>3. ASSUME NEW x \in Conn, dev[x] # d, OnClose(x) PROVE PeerRecords(d)'
  <2>1. /\ UNCHANGED <<dev, stage, uuid, gone, aborted, replaced, announce, unpairing, paired>>
        /\ grid' \subseteq grid
    BY <1>3 DEF OnClose, CloseSession, CloseOnline, CloseGrid, RemovePeerFromGrid
  <2>2. dev[x] \in Device
    BY <1>1, <1>3, RecordFacts
       DEF OnClose, CloseSession, CloseOnline, CloseGrid, Spawned, Registration
  <2>3. sessions'[d] = sessions[d] /\ mapping'[d] = mapping[d]
    BY <1>1, <1>3, <2>2 DEF OnClose, CloseSession, CloseOnline, CloseGrid, RemovePeerFromGrid,
       Inv, TypeOK
  <2>4. \A y \in Conn \ {x} : closer'[y] = closer[y]
    BY <1>1, <1>3 DEF OnClose, CloseSession, CloseOnline, CloseGrid, Inv, TypeOK
  <2>5. d \in online' <=> d \in online
    BY <1>3 DEF OnClose, CloseSession, CloseOnline, CloseGrid
  <2>6. mapping[d] \in grid => mapping[d] \in grid'
    <3>1. mapping[d] # 0 => mapping[d] # mapping[dev[x]]
      BY <1>1, <1>3, <2>2, RecordFacts
    <3>2. mapping[d] \in grid => mapping[d] # 0
      BY <1>1, RecordFacts
    <3> QED BY <1>3, <3>1, <3>2 DEF OnClose, CloseSession, CloseOnline, CloseGrid,
            RemovePeerFromGrid
  <2>7. AnnounceCurrent(d)'
    BY <1>1, <2>1, <2>3, AnnounceFrame
  <2>8. Unpairing(d)' => Unpairing(d)
    BY <2>1 DEF Unpairing
  <2> QED BY <1>1, <1>3, <2>1, <2>3, <2>4, <2>5, <2>6, <2>7, <2>8, Elsewhere
<1>4. ASSUME NEW e \in Device \ {d}, UnpairSession(e) PROVE PeerRecords(d)'
  <2>1. /\ UNCHANGED <<dev, stage, uuid, closer, replaced, announce, paired, online, mapping, grid>>
        /\ unpairing'.device = e \/ unpairing' = unpairing
        /\ aborted \subseteq aborted' /\ gone \subseteq gone' \cup aborted'
        /\ sessions'[d] = sessions[d]
    BY <1>1, <1>4 DEF UnpairSession, Abort, Inv, TypeOK
  <2>2. AnnounceCurrent(d)'
    BY <1>1, <2>1, AnnounceFrame
  <2>3. Unpairing(d)' => Unpairing(d)
    BY <2>1 DEF Unpairing
  <2> QED BY <1>1, <2>1, <2>2, <2>3, Elsewhere
<1>5. CASE unpairing.device # d /\ (UnpairPeer \/ UnpairGrid \/ UnpairSnapshot \/ UnpairWrite)
  <2>1. /\ UNCHANGED <<dev, stage, uuid, closer, gone, aborted, replaced, announce, sessions>>
        /\ grid' \subseteq grid
    BY <1>5 DEF UnpairPeer, UnpairGrid, UnpairSnapshot, UnpairWrite, RemovePeerFromGrid
  <2>2. unpairing.device \in Device
    BY <1>1, <1>5 DEF UnpairPeer, UnpairGrid, UnpairSnapshot, UnpairWrite, Inv, TypeOK,
       DeviceWhenNeeded
  <2>3. mapping'[d] = mapping[d] /\ (d \in online' <=> d \in online) /\ (d \in paired' <=> d \in paired)
    BY <1>1, <1>5, <2>2 DEF UnpairPeer, UnpairGrid, UnpairSnapshot, UnpairWrite,
       RemovePeerFromGrid, Inv, TypeOK
  <2>4. mapping[d] \in grid => mapping[d] \in grid'
    <3>1. mapping[d] # 0 => mapping[d] # mapping[unpairing.device]
      BY <1>1, <1>5, <2>2, RecordFacts
    <3>2. mapping[d] \in grid => mapping[d] # 0
      BY <1>1, RecordFacts
    <3> QED BY <1>5, <3>1, <3>2 DEF UnpairPeer, UnpairGrid, UnpairSnapshot, UnpairWrite,
            RemovePeerFromGrid
  <2>5. AnnounceCurrent(d)'
    BY <1>1, <2>1, <2>3, AnnounceFrame
  <2>6. ~Unpairing(d)'
    <3>1. unpairing'.device \in {unpairing.device, None}
      <4>1. unpairing \in [step : {"idle", "peers", "grid", "snapshot", "write"},
                           device : Device \cup {None}, snapshot : SUBSET Device]
        BY <1>1 DEF Inv, TypeOK
      <4>2. CASE UnpairPeer \/ UnpairGrid \/ UnpairSnapshot
        BY <4>1, <4>2 DEF UnpairPeer, UnpairGrid, UnpairSnapshot
      <4>3. CASE UnpairWrite
        BY <4>3 DEF UnpairWrite
      <4> QED BY <1>5, <4>2, <4>3
    <3>2. d # None /\ unpairing.device # d
      BY <1>5, DeviceAssumption
    <3>3. unpairing'.device # d
      BY <3>1, <3>2
    <3> QED BY <3>3 DEF Unpairing
  <2> QED BY <1>1, <2>1, <2>3, <2>4, <2>5, <2>6, Elsewhere
<1> QED BY <1>2, <1>3, <1>4, <1>5

\* An announcement adds no paired and no online peer: it only rereads what is known.
LEMMA DiscoveryRecords ==
  ASSUME RecordsInv, NEW d \in Device, PeerRecords(d), Discovery
  PROVE  PeerRecords(d)' /\ (d \in paired' <=> d \in paired)
<1> USE DEF serviceVars, persistVars, taskVars, peerVars, gridVars
<1>1. UNCHANGED <<sessions, aborted, replaced, closer, uuid, gone, mapping, grid, unpairing>>
  BY DEF Discovery, Announced, AnnouncedConnected, AnnouncedUpsert
<1>2. announce.step # "idle" => announce.device \in Device
  BY DEF RecordsInv, Inv, TypeOK, DeviceWhenNeeded
<1>3. (d \in paired' <=> d \in paired) /\ (d \in online' <=> d \in online)
  <2>1. CASE AnnouncedUpsert /\ announce.device = d
    <3>1. announce.step = "upsert" /\ Announcing(d)
      BY <2>1 DEF AnnouncedUpsert, Announcing
    <3>2. /\ announce.paired => d \in known
          /\ announce.connected => d \in known
      BY <3>1 DEF PeerRecords, AnnounceCurrent, Shown, RecordsInv, Inv, TypeOK
    <3> QED BY <2>1, <3>2 DEF AnnouncedUpsert
  <2>2. CASE AnnouncedUpsert /\ announce.device # d
    BY <2>2 DEF AnnouncedUpsert
  <2> QED BY <2>1, <2>2 DEF Discovery, Announced, AnnouncedConnected
<1>4. AnnounceCurrent(d)'
  <2>1. ASSUME NEW e \in Device, Announced(e) PROVE AnnounceCurrent(d)'
    <3>1. announce' = [step |-> "connected", device |-> e, paired |-> e \in paired,
                       connected |-> FALSE]
      BY <2>1 DEF Announced, Idle
    <3>2. /\ announce'.step = "connected" /\ announce'.device = e
          /\ announce'.paired <=> e \in paired
      BY <3>1
    <3> QED BY <1>3, <3>2 DEF AnnounceCurrent, Announcing
  <2>2. CASE AnnouncedConnected
    <3>1. /\ announce'.step = "upsert" /\ announce'.device = announce.device
          /\ announce'.paired <=> announce.paired
          /\ announce'.connected <=> sessions[announce.device] # 0
          /\ announce.step # "idle"
      BY <2>2 DEF AnnouncedConnected, RecordsInv, Inv, TypeOK
    <3> QED BY <1>1, <1>3, <3>1 DEF PeerRecords, AnnounceCurrent, Announcing
  <2>3. CASE AnnouncedUpsert
    BY <2>3 DEF AnnouncedUpsert, Idle, AnnounceCurrent, Announcing
  <2> QED BY <2>1, <2>2, <2>3 DEF Discovery
<1>5. /\ \A x \in Conn : stage[x] # "none" => dev'[x] = dev[x]
      /\ \A x \in Conn : \/ stage'[x] = stage[x]
                         \/ stage[x] = "none" /\ stage'[x] = "connecting"
  <2>1. CASE UNCHANGED connVars
    BY <2>1 DEF connVars
  <2>2. CASE AnnouncedUpsert /\ ~UNCHANGED connVars
    <3>1. announce.device \in Device
      BY <1>2, <2>2 DEF AnnouncedUpsert
    <3>2. PICK x \in Conn : Open(x, announce.device, "out")
      BY <2>2 DEF AnnouncedUpsert
    <3>3. /\ stage[x] = "none" /\ stage'[x] = "connecting"
          /\ \A y \in Conn \ {x} : dev'[y] = dev[y] /\ stage'[y] = stage[y]
      BY <3>1, <3>2, OpenStep DEF RecordsInv
    <3> QED BY <3>3
  <2> QED BY <2>1, <2>2 DEF Discovery, Announced, AnnouncedConnected, connVars
<1>6. Unpairing(d)' => Unpairing(d)
  BY <1>1 DEF Unpairing
<1>7. \A u \in grid' : u \in grid
  BY <1>1
<1>8. Inv /\ Bookkeeping
  BY DEF RecordsInv
<1> QED BY <1>1, <1>3, <1>4, <1>5, <1>6, <1>7, <1>8, Elsewhere

\* Steps that record nothing of the peers.
LEMMA OtherConnections ==
  ASSUME Inv,
         \/ \E x \in Conn, d \in Device : Connect(x, d)
         \/ \E x \in Conn : Handshake(x) \/ Gone(x) \/ Spawn(x)
         \/ StartServices \/ StopServices
         \/ UNCHANGED vars
  PROVE  /\ UNCHANGED <<sessions, aborted, replaced, closer, uuid, snapshot, disk, lastSave>>
         /\ UNCHANGED <<paired, online, mapping, grid, unpairing, announce>>
         /\ gone \subseteq gone'
         /\ \A x \in Conn : stage[x] # "none" => dev'[x] = dev[x]
         /\ \A x \in Conn : \/ stage'[x] = stage[x]
                            \/ /\ stage[x] \in {"none", "connecting", "ready"}
                               /\ stage'[x] \in {"connecting", "failed", "ready", "peers"}
<1> USE DEF serviceVars, persistVars, taskVars, peerVars, gridVars
<1>1. /\ UNCHANGED <<sessions, aborted, replaced, closer, uuid, snapshot, disk, lastSave>>
      /\ UNCHANGED <<paired, online, mapping, grid, unpairing, announce>>
      /\ gone \subseteq gone'
  BY DEF Connect, Handshake, Gone, Spawn, StartServices, StopServices, vars, connVars
<1>2. /\ \A x \in Conn : stage[x] # "none" => dev'[x] = dev[x]
      /\ \A x \in Conn : \/ stage'[x] = stage[x]
                         \/ /\ stage[x] \in {"none", "connecting", "ready"}
                            /\ stage'[x] \in {"connecting", "failed", "ready", "peers"}
  <2>1. ASSUME NEW x \in Conn, NEW d \in Device, Connect(x, d) PROVE <1>2
    <3>1. PICK way \in {"in", "out"} : Open(x, d, way)
      BY <2>1 DEF Connect
    <3>2. /\ stage[x] = "none" /\ stage'[x] = "connecting"
          /\ \A y \in Conn \ {x} : dev'[y] = dev[y] /\ stage'[y] = stage[y]
      BY <3>1, OpenStep
    <3> QED BY <3>2
  <2>2. ASSUME NEW x \in Conn, Handshake(x) \/ Spawn(x) PROVE <1>2
    BY <2>2 DEF Handshake, Spawn, Advance, Inv, TypeOK
  <2>3. CASE StopServices
    BY <2>3 DEF StopServices
  <2>4. CASE StartServices \/ UNCHANGED vars \/ \E x \in Conn : Gone(x)
    BY <2>4 DEF StartServices, Gone, vars, connVars
  <2> QED BY <2>1, <2>2, <2>3, <2>4
<1> QED BY <1>1, <1>2

\* Every step keeps what is recorded of a device, about which nothing else goes on.
LEMMA PeerStep ==
  ASSUME RecordsInv, Inv', NEW d \in Device, Alone(d), Alone(d)', PeerRecords(d),
         Step \/ UNCHANGED vars
  PROVE  PeerRecords(d)'
<1>1. ASSUME NEW x \in Conn,
             \/ RegisterPeer(x) \/ RegisterSession(x) \/ RegisterMapping(x)
             \/ RegisterGrid(x) \/ Snapshot(x) \/ Write(x)
      PROVE  PeerRecords(d)'
  BY <1>1, RegistrationRecords, ElsewhereSteps
<1>2. ASSUME NEW x \in Conn, OnClose(x) PROVE PeerRecords(d)'
  BY <1>2, CloseRecords, ElsewhereSteps
<1>3. CASE Unpair
  BY <1>3, UnpairRecords, ElsewhereSteps DEF Unpair
<1>4. CASE StopSessions
  BY <1>4, StopRecords
<1>5. CASE Discovery
  BY <1>5, DiscoveryRecords
<1>6. CASE \/ \E x \in Conn, e \in Device : Connect(x, e)
           \/ \E x \in Conn : Handshake(x) \/ Gone(x) \/ Spawn(x)
           \/ StartServices \/ StopServices
           \/ UNCHANGED vars
  <2>1. Inv /\ Bookkeeping /\ AnnounceCurrent(d)
    BY DEF RecordsInv, PeerRecords
  <2>2. /\ UNCHANGED <<sessions, aborted, replaced, closer, uuid>>
        /\ UNCHANGED <<paired, online, mapping, grid, unpairing, announce>>
        /\ gone \subseteq gone'
        /\ \A x \in Conn : stage[x] # "none" => dev'[x] = dev[x]
        /\ \A x \in Conn : \/ stage'[x] = stage[x]
                           \/ /\ stage[x] \in {"none", "connecting", "ready"}
                              /\ stage'[x] \in {"connecting", "failed", "ready", "peers"}
    BY <1>6, <2>1, OtherConnections
  <2>3. AnnounceCurrent(d)'
    BY <2>1, <2>2, AnnounceFrame
  <2>4. Unpairing(d)' => Unpairing(d)
    BY <2>2 DEF Unpairing
  <2> QED BY <2>1, <2>2, <2>3, <2>4, Elsewhere
<1> QED BY <1>1, <1>2, <1>3, <1>4, <1>5, <1>6 DEF Step, Register, Services

\* Steps that begin or end no save.
LEMMA SaveFrame ==
  ASSUME UNCHANGED <<snapshot, disk, lastSave>>,
         unpairing'.step = "write" <=> unpairing.step = "write",
         unpairing.step = "write" => unpairing' = unpairing,
         \A x \in Conn : stage'[x] = "write" <=> stage[x] = "write"
  PROVE  /\ OneSave => OneSave'
         /\ \A d \in Device : Saved(d) /\ (d \in paired' <=> d \in paired) => Saved(d)'
<1>1. Saving' <=> Saving
  BY DEF Saving
<1>2. OneSave => OneSave'
  BY DEF OneSave
<1> QED BY <1>1, <1>2 DEF Saved

\* All steps but those of a save are such steps.
LEMMA SaveFrameSteps ==
  ASSUME Inv, Step \/ UNCHANGED vars,
         ~\E x \in Conn : Snapshot(x) \/ Write(x), ~UnpairSnapshot, ~UnpairWrite
  PROVE  /\ UNCHANGED <<snapshot, disk, lastSave>>
         /\ unpairing'.step = "write" <=> unpairing.step = "write"
         /\ unpairing.step = "write" => unpairing' = unpairing
         /\ \A x \in Conn : stage'[x] = "write" <=> stage[x] = "write"
         /\ \A x \in Conn : stage[x] # "none" => dev'[x] = dev[x]
         /\ \A x \in Conn : stage[x] \in {"session", "map", "grid", "snapshot"} =>
              stage'[x] \in {"session", "map", "grid", "snapshot"}
         /\ unpairing.step \in {"grid", "snapshot"} =>
              unpairing'.step \in {"grid", "snapshot"} /\ unpairing'.device = unpairing.device
<1> USE DEF serviceVars, taskVars, peerVars, gridVars, persistVars
<1>1. unpairing \in [step : {"idle", "peers", "grid", "snapshot", "write"},
                     device : Device \cup {None}, snapshot : SUBSET Device]
  BY DEF Inv, TypeOK
<1>2. CASE \/ \E x \in Conn, e \in Device : Connect(x, e)
           \/ \E x \in Conn : Handshake(x) \/ Gone(x) \/ Spawn(x)
           \/ StartServices \/ StopServices
           \/ UNCHANGED vars
  BY <1>2, OtherConnections
<1>3. ASSUME NEW x \in Conn,
             RegisterPeer(x) \/ RegisterSession(x) \/ RegisterMapping(x) \/ RegisterGrid(x)
      PROVE  /\ UNCHANGED <<snapshot, disk, lastSave, unpairing, dev>>
             /\ \A y \in Conn : \/ stage'[y] = stage[y]
                                \/ /\ stage[y] \in {"peers", "session", "map", "grid"}
                                   /\ stage'[y] \in {"session", "map", "grid", "snapshot"}
  BY <1>3 DEF RegisterPeer, RegisterSession, RegisterMapping, RegisterGrid, Advance, Inv, TypeOK
<1>4. ASSUME NEW x \in Conn, OnClose(x)
      PROVE  UNCHANGED <<snapshot, disk, lastSave, unpairing, dev, stage>>
  BY <1>4 DEF OnClose, CloseSession, CloseOnline, CloseGrid, connVars
<1>5. CASE (\E e \in Device : UnpairSession(e)) \/ UnpairPeer \/ UnpairGrid
  <2>1. UNCHANGED <<snapshot, disk, lastSave, dev, stage>>
    BY <1>5 DEF UnpairSession, UnpairPeer, UnpairGrid, connVars
  <2>2. /\ unpairing.step # "write" /\ unpairing'.step # "write"
        /\ unpairing.step \in {"grid", "snapshot"} =>
             unpairing'.step \in {"grid", "snapshot"} /\ unpairing'.device = unpairing.device
    BY <1>1, <1>5 DEF UnpairSession, UnpairPeer, UnpairGrid
  <2> QED BY <2>1, <2>2
<1>6. CASE StopSessions
  BY <1>6 DEF StopSessions, connVars
<1>7. CASE Discovery
  <2>1. UNCHANGED <<snapshot, disk, lastSave, unpairing>>
    BY <1>7 DEF Discovery, Announced, AnnouncedConnected, AnnouncedUpsert
  <2>2. \A x \in Conn : \/ stage'[x] = stage[x] /\ dev'[x] = dev[x]
                        \/ stage[x] = "none" /\ stage'[x] = "connecting"
    <3>1. CASE UNCHANGED connVars
      BY <3>1 DEF connVars
    <3>2. CASE AnnouncedUpsert /\ ~UNCHANGED connVars
      <4>1. announce.device \in Device
        BY <3>2 DEF AnnouncedUpsert, Inv, TypeOK, DeviceWhenNeeded
      <4>2. PICK x \in Conn : Open(x, announce.device, "out")
        BY <3>2 DEF AnnouncedUpsert
      <4>3. /\ stage[x] = "none" /\ stage'[x] = "connecting"
            /\ \A y \in Conn \ {x} : dev'[y] = dev[y] /\ stage'[y] = stage[y]
        BY <4>1, <4>2, OpenStep
      <4> QED BY <4>3
    <3> QED BY <1>7, <3>1, <3>2 DEF Discovery, Announced, AnnouncedConnected
  <2> QED BY <2>1, <2>2
<1> QED
  <2>1. ASSUME NEW x \in Conn,
               RegisterPeer(x) \/ RegisterSession(x) \/ RegisterMapping(x) \/ RegisterGrid(x)
        PROVE  /\ UNCHANGED <<snapshot, disk, lastSave, unpairing, dev>>
               /\ \A y \in Conn : stage'[y] = "write" <=> stage[y] = "write"
               /\ \A y \in Conn : stage[y] \in {"session", "map", "grid", "snapshot"} =>
                    stage'[y] \in {"session", "map", "grid", "snapshot"}
    BY <1>3, <2>1
  <2> QED BY <1>2, <1>4, <1>5, <1>6, <1>7, <2>1 DEF Step, Register, Services, Unpair

\* A save that begins while none is being written lists the peers as they are.
LEMMA BeginSaves ==
  ASSUME Inv, (\E x \in Conn : Snapshot(x)) \/ UnpairSnapshot
  PROVE  OneSave' /\ \A d \in Device : Persisted(d)'
<1> USE DEF serviceVars, connVars, taskVars, peerVars, gridVars
<1>1. CASE lastSave' # "alone"
  BY <1>1 DEF OneSave, Persisted
<1>2. CASE lastSave' = "alone"
  <2>1. ~Saving
    BY <1>2 DEF Snapshot, UnpairSnapshot, BeginSave
  <2>2. unpairing.step # "write" /\ \A y \in Conn : stage[y] # "write"
    BY <2>1 DEF Saving
  <2>3. ASSUME NEW x \in Conn, Snapshot(x) PROVE OneSave' /\ \A d \in Device : Saved(d)'
    <3>1. stage'[x] = "write" /\ \A y \in Conn \ {x} : stage'[y] = stage[y]
      <4>1. "snapshot" \in Stage /\ "write" \in Stage
        BY DEF Stage, Registration
      <4> QED BY <2>3, <4>1, AdvanceStep DEF Snapshot
    <3>2. snapshot'[x] = paired /\ UNCHANGED <<paired, unpairing>>
      BY <2>3 DEF Snapshot, Inv, TypeOK
    <3>3. \A y \in Conn : stage'[y] = "write" <=> y = x
      BY <2>2, <3>1
    <3>4. Saving'
      BY <3>1 DEF Saving
    <3> QED BY <2>2, <3>2, <3>3, <3>4 DEF OneSave, Saved
  <2>4. ASSUME UnpairSnapshot PROVE OneSave' /\ \A d \in Device : Saved(d)'
    <3>1. UNCHANGED <<stage, paired>>
      BY <2>4 DEF UnpairSnapshot
    <3>2. unpairing'.step = "write" /\ unpairing'.snapshot = paired
      BY <2>4 DEF UnpairSnapshot, Inv, TypeOK
    <3>3. Saving'
      BY <3>2 DEF Saving
    <3> QED BY <2>2, <3>1, <3>2, <3>3 DEF OneSave, Saved
  <2> QED BY <2>3, <2>4 DEF Persisted
<1> QED BY <1>1, <1>2

\* The end of the only save leaves its list in the file, or was a failure.
LEMMA EndSaves ==
  ASSUME Inv, OneSave, (\E x \in Conn : Write(x)) \/ UnpairWrite
  PROVE  OneSave' /\ \A d \in Device : Persisted(d) => Persisted(d)'
<1> USE DEF serviceVars, connVars, taskVars, peerVars, gridVars
<1>1. CASE lastSave' # "alone"
  BY <1>1 DEF OneSave, Persisted
<1>2. CASE lastSave' = "alone"
  <2>1. lastSave = "alone"
    BY <1>2 DEF Write, UnpairWrite, EndSave
  <2>2. ASSUME NEW x \in Conn, Write(x)
        PROVE  OneSave' /\ \A d \in Device : Persisted(d) => Persisted(d)'
    <3>1. /\ stage[x] = "write" /\ stage'[x] = "done"
          /\ \A y \in Conn \ {x} : stage'[y] = stage[y]
      <4>1. "done" \in Stage /\ "write" \in Stage
        BY DEF Stage, Registration
      <4> QED BY <2>2, <4>1, AdvanceStep DEF Write
    <3>2. disk' = snapshot[x] /\ UNCHANGED <<paired, unpairing, dev>>
      BY <1>2, <2>2 DEF Write, EndSave
    <3>3. unpairing.step # "write" /\ \A y \in Conn : stage[y] = "write" => y = x
      BY <2>1, <3>1 DEF OneSave
    <3>4. \A y \in Conn : stage'[y] # "write"
      BY <3>1, <3>3
    <3>5. OneSave'
      BY <3>4 DEF OneSave
    <3>6. ASSUME NEW d \in Device, Owes(d) PROVE Owes(d)'
      BY <3>1, <3>2, <3>6 DEF Owes, Unpairing
    <3>7. ASSUME NEW d \in Device, Saved(d) PROVE Saved(d)'
      <4>1. d \in disk' <=> d \in paired'
        BY <3>1, <3>2, <3>7 DEF Saved
      <4> QED BY <3>2, <3>3, <3>4, <4>1 DEF Saved
    <3> QED BY <2>1, <3>5, <3>6, <3>7 DEF Persisted
  <2>3. CASE UnpairWrite
    <3>1. disk' = unpairing.snapshot /\ UNCHANGED <<paired, stage, dev>>
      BY <1>2, <2>3 DEF UnpairWrite, EndSave
    <3>2. unpairing.step = "write" /\ unpairing'.step = "idle"
      BY <2>3 DEF UnpairWrite
    <3>3. \A y \in Conn : stage[y] # "write"
      BY <2>1, <3>2 DEF OneSave
    <3>4. OneSave'
      BY <3>1, <3>3 DEF OneSave
    <3>5. ASSUME NEW d \in Device, Owes(d) PROVE Owes(d)'
      BY <3>1, <3>2, <3>5 DEF Owes, Unpairing
    <3>6. ASSUME NEW d \in Device, Saved(d) PROVE Saved(d)'
      <4>1. d \in disk' <=> d \in paired'
        BY <3>1, <3>2, <3>6 DEF Saved
      <4> QED BY <3>1, <3>2, <3>3, <4>1 DEF Saved
    <3> QED BY <2>1, <3>4, <3>5, <3>6 DEF Persisted
  <2> QED BY <2>2, <2>3
<1> QED BY <1>1, <1>2

\* Whoever changes what the peers say of d owes a save.
LEMMA PersistedStep ==
  ASSUME RecordsInv, NEW d \in Device, PeerRecords(d), Persisted(d), Step \/ UNCHANGED vars
  PROVE  Persisted(d)'
<1>1. Inv /\ OneSave
  BY DEF RecordsInv, Bookkeeping
<1>2. CASE (\E x \in Conn : Snapshot(x)) \/ UnpairSnapshot
  BY <1>1, <1>2, BeginSaves
<1>3. CASE (\E x \in Conn : Write(x)) \/ UnpairWrite
  BY <1>1, <1>3, EndSaves
<1>4. CASE ~(\E x \in Conn : Snapshot(x) \/ Write(x)) /\ ~UnpairSnapshot /\ ~UnpairWrite
  <2>1. /\ UNCHANGED <<snapshot, disk, lastSave>>
        /\ unpairing'.step = "write" <=> unpairing.step = "write"
        /\ unpairing.step = "write" => unpairing' = unpairing
        /\ \A x \in Conn : stage'[x] = "write" <=> stage[x] = "write"
        /\ \A x \in Conn : stage[x] # "none" => dev'[x] = dev[x]
        /\ \A x \in Conn : stage[x] \in {"session", "map", "grid", "snapshot"} =>
             stage'[x] \in {"session", "map", "grid", "snapshot"}
        /\ unpairing.step \in {"grid", "snapshot"} =>
             unpairing'.step \in {"grid", "snapshot"} /\ unpairing'.device = unpairing.device
    BY <1>1, <1>4, SaveFrameSteps
  <2>2. Owes(d) => Owes(d)'
    BY <2>1 DEF Owes, Unpairing
  <2>3. (d \in paired' <=> d \in paired) \/ Owes(d)'
    <3>1. ASSUME NEW x \in Conn, RegisterPeer(x) PROVE (d \in paired' <=> d \in paired) \/ Owes(d)'
      <4>1. stage'[x] = "session"
        <5>1. "peers" \in Stage /\ "session" \in Stage
          BY DEF Stage, Registration
        <5> QED BY <1>1, <3>1, <5>1, AdvanceStep DEF RegisterPeer
      <4>2. UNCHANGED dev /\ paired' = paired \cup {dev[x]}
        BY <3>1 DEF RegisterPeer
      <4> QED BY <4>1, <4>2 DEF Owes
    <3>2. CASE UnpairPeer
      <4>1. /\ unpairing'.step = "grid" /\ unpairing'.device = unpairing.device
            /\ paired' = paired \ {unpairing.device}
        BY <1>1, <3>2 DEF UnpairPeer, Inv, TypeOK
      <4> QED BY <4>1 DEF Owes, Unpairing
    <3>3. CASE Discovery
      BY <3>3, DiscoveryRecords
    <3>4. CASE UNCHANGED paired
      BY <3>4
    <3>5. UNCHANGED paired \/ (\E x \in Conn : RegisterPeer(x)) \/ UnpairPeer \/ Discovery
      <4>1. ASSUME NEW x \in Conn, Register(x), ~RegisterPeer(x) PROVE UNCHANGED paired
        BY <4>1 DEF Register, Spawn, RegisterSession, RegisterMapping, RegisterGrid, Snapshot,
           Write, peerVars
      <4>2. ASSUME NEW x \in Conn, OnClose(x) PROVE UNCHANGED paired
        BY <4>2 DEF OnClose, CloseSession, CloseOnline, CloseGrid, peerVars
      <4>3. CASE Unpair /\ ~UnpairPeer
        BY <4>3 DEF Unpair, UnpairSession, UnpairGrid, UnpairSnapshot, UnpairWrite, peerVars
      <4>4. CASE Services
        BY <4>4 DEF Services, StartServices, StopServices, StopSessions, peerVars
      <4>5. CASE \/ \E x \in Conn, e \in Device : Connect(x, e)
                 \/ \E x \in Conn : Handshake(x) \/ Gone(x)
                 \/ UNCHANGED vars
        BY <4>5 DEF Connect, Handshake, Gone, vars, peerVars
      <4> QED BY <4>1, <4>2, <4>3, <4>4, <4>5 DEF Step
    <3> QED BY <3>1, <3>2, <3>3, <3>4, <3>5
  <2>4. Saved(d) /\ (d \in paired' <=> d \in paired) => Saved(d)'
    BY <2>1, SaveFrame
  <2> QED BY <2>1, <2>2, <2>3, <2>4 DEF Persisted
<1> QED BY <1>2, <1>3, <1>4

\* on_close is run by a task that ends, and a grid identifier stays its device's.
LEMMA BookkeepingStep ==
  ASSUME Inv, Inv', Bookkeeping, Step \/ UNCHANGED vars
  PROVE  Bookkeeping'
<1> USE DEF serviceVars, taskVars, peerVars, gridVars, persistVars
<1>1. OneSave'
  <2>1. CASE (\E x \in Conn : Snapshot(x)) \/ UnpairSnapshot
    BY <2>1, BeginSaves
  <2>2. CASE (\E x \in Conn : Write(x)) \/ UnpairWrite
    BY <2>2, EndSaves DEF Bookkeeping
  <2>3. CASE ~(\E x \in Conn : Snapshot(x) \/ Write(x)) /\ ~UnpairSnapshot /\ ~UnpairWrite
    <3>1. /\ UNCHANGED <<snapshot, disk, lastSave>>
          /\ unpairing'.step = "write" <=> unpairing.step = "write"
          /\ unpairing.step = "write" => unpairing' = unpairing
          /\ \A x \in Conn : stage'[x] = "write" <=> stage[x] = "write"
      BY <2>3, SaveFrameSteps
    <3> QED BY <3>1, SaveFrame DEF Bookkeeping
  <2> QED BY <2>1, <2>2, <2>3
<1>2. \A x \in Conn : stage[x] # "none" => dev'[x] = dev[x]
  <2>1. CASE (\E x \in Conn : Snapshot(x) \/ Write(x)) \/ UnpairSnapshot \/ UnpairWrite
    BY <2>1 DEF Snapshot, Write, UnpairSnapshot, UnpairWrite, connVars
  <2>2. CASE ~(\E x \in Conn : Snapshot(x) \/ Write(x)) /\ ~UnpairSnapshot /\ ~UnpairWrite
    BY <2>2, SaveFrameSteps
  <2> QED BY <2>1, <2>2
<1>3. ClosingIsGone' /\ IdentifierIsOwn'
  <2>1. \A x \in Conn : dev[x] # None => dev'[x] = dev[x]
    BY <1>2 DEF Inv, DeviceWhenNeeded
  <2>2. ASSUME UNCHANGED <<uuid, grid>> PROVE IdentifierIsOwn'
    <3>1. ASSUME NEW x \in Conn, uuid[x] # 0 PROVE dev'[x] # None /\ dev'[uuid[x]] = dev'[x]
      <4>1. uuid[x] \in Conn /\ dev[x] # None /\ dev[uuid[x]] = dev[x]
        BY <3>1 DEF Bookkeeping, IdentifierIsOwn, Inv, TypeOK
      <4> QED BY <2>1, <4>1
    <3>2. ASSUME NEW u \in grid PROVE dev'[u] # None
      <4>1. u \in Conn /\ dev[u] # None
        BY DEF Bookkeeping, IdentifierIsOwn, Inv, TypeOK
      <4> QED BY <2>1, <4>1
    <3> QED BY <2>2, <3>1, <3>2 DEF IdentifierIsOwn
  <2>3. ASSUME UNCHANGED closer, gone \subseteq gone' PROVE ClosingIsGone'
    BY <2>3 DEF Bookkeeping, ClosingIsGone
  <2>4. CASE \/ \E x \in Conn, e \in Device : Connect(x, e)
             \/ \E x \in Conn : Handshake(x) \/ Gone(x) \/ Spawn(x)
             \/ StartServices \/ StopServices
             \/ UNCHANGED vars
    BY <2>2, <2>3, <2>4, OtherConnections
  <2>5. ASSUME NEW x \in Conn, RegisterPeer(x) \/ RegisterSession(x) \/ Snapshot(x) \/ Write(x)
        PROVE  ClosingIsGone' /\ IdentifierIsOwn'
    <3>1. UNCHANGED <<uuid, grid, closer, gone>>
      BY <2>5 DEF RegisterPeer, RegisterSession, Snapshot, Write
    <3> QED BY <2>2, <2>3, <3>1
  <2>6. ASSUME NEW x \in Conn, RegisterMapping(x) PROVE ClosingIsGone' /\ IdentifierIsOwn'
    <3>1. UNCHANGED <<dev, grid, closer, gone>>
      BY <2>6 DEF RegisterMapping
    <3>2. stage[x] = "map" /\ dev[x] \in Device
      BY <2>6, RecordFacts DEF RegisterMapping, Advance
    <3>3. /\ uuid'[x] = mapping'[dev[x]]
          /\ \A y \in Conn \ {x} : uuid'[y] = uuid[y]
      BY <2>6 DEF RegisterMapping, Inv, TypeOK
    <3>4. mapping'[dev[x]] # 0 => dev[mapping'[dev[x]]] = dev[x]
      BY <3>1, <3>2 DEF Inv, MappingIsOwn
    <3>5. dev[x] # None
      BY <3>2, DeviceAssumption
    <3>6. IdentifierIsOwn'
      BY <3>1, <3>3, <3>4, <3>5 DEF Bookkeeping, IdentifierIsOwn
    <3> QED BY <2>3, <3>1, <3>6
  <2>7. ASSUME NEW x \in Conn, RegisterGrid(x) PROVE ClosingIsGone' /\ IdentifierIsOwn'
    <3>1. UNCHANGED <<dev, closer, gone>> /\ grid' = grid \cup {uuid[x]}
      BY <2>7 DEF RegisterGrid
    <3>2. uuid'[x] = 0 /\ \A y \in Conn \ {x} : uuid'[y] = uuid[y]
      BY <2>7 DEF RegisterGrid, Inv, TypeOK
    <3>3. stage[x] = "grid"
      BY <2>7 DEF RegisterGrid, Advance
    <3>4. dev[uuid[x]] # None
      BY <3>3 DEF Bookkeeping, IdentifierIsOwn, Inv, DeviceWhenNeeded
    <3>5. IdentifierIsOwn'
      BY <3>1, <3>2, <3>4 DEF Bookkeeping, IdentifierIsOwn
    <3> QED BY <2>3, <3>1, <3>5
  <2>8. ASSUME NEW x \in Conn, OnClose(x) PROVE ClosingIsGone' /\ IdentifierIsOwn'
    <3>1. UNCHANGED <<dev, uuid, gone>> /\ grid' \subseteq grid
      BY <2>8 DEF OnClose, CloseSession, CloseOnline, CloseGrid, RemovePeerFromGrid, connVars
    <3>2. \A y \in Conn \ {x} : closer'[y] = closer[y]
      BY <2>8 DEF OnClose, CloseSession, CloseOnline, CloseGrid, Inv, TypeOK
    <3>3. x \in gone
      BY <2>8 DEF OnClose, CloseSession, CloseOnline, CloseGrid, Bookkeeping, ClosingIsGone
    <3> QED BY <3>1, <3>2, <3>3 DEF Bookkeeping, ClosingIsGone, IdentifierIsOwn
  <2>9. CASE (\E e \in Device : UnpairSession(e)) \/ StopSessions
    <3>1. UNCHANGED <<uuid, grid, closer>>
      BY <2>9 DEF UnpairSession, StopSessions
    <3>2. \A x \in gone : closer[x] # "idle" => x \in gone'
      BY <2>9 DEF UnpairSession, StopSessions, Abort
    <3> QED BY <2>2, <3>1, <3>2 DEF Bookkeeping, ClosingIsGone
  <2>10. CASE UnpairPeer \/ UnpairGrid \/ UnpairSnapshot \/ UnpairWrite
    <3>1. UNCHANGED <<dev, uuid, closer, gone>> /\ grid' \subseteq grid
      BY <2>10 DEF UnpairPeer, UnpairGrid, UnpairSnapshot, UnpairWrite, RemovePeerFromGrid,
         connVars
    <3> QED BY <2>3, <3>1 DEF Bookkeeping, IdentifierIsOwn
  <2>11. CASE Discovery
    <3>1. UNCHANGED <<uuid, grid, closer, gone>>
      BY <2>11 DEF Discovery, Announced, AnnouncedConnected, AnnouncedUpsert
    <3> QED BY <2>2, <2>3, <3>1
  <2> QED BY <2>4, <2>5, <2>6, <2>7, <2>8, <2>9, <2>10, <2>11
      DEF Step, Register, Unpair, Services
<1> QED BY <1>1, <1>3 DEF Bookkeeping

\* Whatever registrations, ends, unpairings, announcements and restarts of the
\* services interleave, sessions, peers, grid and peers.json agree about every
\* device at rest no two operations of which went on at once, however many devices
\* and connections there are (state.rs, commands.rs).
THEOREM AgreesAtRestHolds == Spec => []AgreesAtRest
<1>1. \A d \in Device : ~Overlaps(d) => Alone(d)
  BY AloneWhenCalm
<1>2. (\A d \in Device : ~Overlaps(d) => Alone(d))'
  BY <1>1, PTL
<1>3. Init => RecordsInv
  BY RecordsInit
<1>4. RecordsInv /\ [Next]_vars => RecordsInv'
  <2> SUFFICES ASSUME RecordsInv, [Next]_vars PROVE RecordsInv'
    OBVIOUS
  <2>1. Step \/ UNCHANGED vars
    BY DEF Next
  <2>2. Inv'
    BY InvStep DEF RecordsInv
  <2>3. Bookkeeping'
    BY <2>1, <2>2, BookkeepingStep DEF RecordsInv
  <2>4. ASSUME NEW d \in Device, d \notin crossed'
        PROVE  (Alone(d) /\ PeerRecords(d) /\ Persisted(d))'
    <3>1. d \notin crossed
      BY <2>4 DEF Next, RecordOverlaps, vars
    <3>2. Alone(d) /\ PeerRecords(d) /\ Persisted(d)
      BY <3>1 DEF RecordsInv
    <3>3. Alone(d)'
      <4>1. CASE Next
        <5>1. ~Overlaps(d)'
          BY <2>4, <4>1 DEF Next, RecordOverlaps
        <5> QED BY <1>2, <5>1
      <4>2. CASE UNCHANGED vars
        BY <3>2, <4>2 DEF vars, connVars, taskVars, serviceVars, Alone, Registering, Closing,
           Unpairing, Announcing, Over
      <4> QED BY <4>1, <4>2
    <3>4. PeerRecords(d)'
      BY <2>1, <2>2, <3>2, <3>3, PeerStep
    <3>5. Persisted(d)'
      BY <2>1, <3>2, PersistedStep
    <3> QED BY <3>3, <3>4, <3>5
  <2> QED BY <2>2, <2>3, <2>4 DEF RecordsInv
<1>5. RecordsInv => AgreesAtRest
  BY RecordsAgree
<1> QED BY <1>3, <1>4, <1>5, PTL DEF Spec
=============================================================================
