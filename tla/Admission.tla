----------------------------- MODULE Admission -----------------------------
(***************************************************************************)
(* Who gets a session: the handshake drivers of both sides (okvm-net       *)
(* handshake.rs, with the state machine of okvm-crypto), the task the      *)
(* listener gives each connection, and the access list with its pairing    *)
(* mode (app/src-tauri, state.rs and commands.rs).                         *)
(*                                                                         *)
(* The module has one server, the devices that connect to it, and one      *)
(* handshake per connection; connections are numbered in the order they    *)
(* are opened and their handshakes run in parallel.  Each side waits for   *)
(* the next message under one timeout for the whole handshake: it may fail *)
(* at each of its reads, for the timeout, a lost connection or the end of  *)
(* the other side, which look the same from here.  What was written before *)
(* a side failed can still be read.  Keys and signatures are ideal, so     *)
(* that of a message only what a side decides by is kept.                  *)
(* PINs are numbered as they are drawn; 0 stands for no PIN or a wrong one.*)
(***************************************************************************)
EXTENDS Naturals, Sequences, FiniteSets

CONSTANTS Device,       \* the devices that connect
          None,         \* no device
          MaxAttempts,  \* MAX_PIN_ATTEMPTS
          MaxConn,      \* bound: connections
          MaxPin,       \* bound: PINs drawn
          MaxStart      \* bound: times the services are started

ASSUME DeviceAssumption == None \notin Device
ASSUME AttemptsAssumption == MaxAttempts \in Nat \ {0}
ASSUME BoundAssumption == MaxConn \in Nat /\ MaxPin \in Nat /\ MaxStart \in Nat \ {0}

VARIABLES pairing_mode, \* pin (0: None), failed attempts, whether time is over
          drawn,        \* number of PINs drawn
          commands,     \* start_pairing_mode commands between their two sections
          paired,       \* devices with paired = true in peers
          running,      \* the services run
          starts,       \* how many times they were started
          dev,          \* connection -> device
          offer,        \* connection -> PIN of its ClientHello
          born,         \* connection -> value of starts when it was accepted
          client,       \* connection -> where the driver of the device is
          server,       \* connection -> where the task of the listener is
          decision,     \* connection -> result of accept_predicate
          c2s, s2c,     \* connection -> messages on the way
          wrong,        \* history: PIN -> refusals while it was the current one
          ground,       \* history: connection -> why it was accepted
          granted       \* history: devices ever admitted by the user

modeVars == <<pairing_mode, drawn, commands>>
serviceVars == <<running, starts>>
connVars == <<dev, offer, born>>
wireVars == <<c2s, s2c>>
aclVars == <<decision, wrong, ground, granted>>
admissionVars ==
  <<modeVars, paired, serviceVars, connVars, client, server, wireVars, aclVars>>

Conn == 1 .. MaxConn
Off == [pin |-> 0, failed |-> 0, over |-> FALSE]

is_alive == /\ pairing_mode.pin # 0
            /\ ~pairing_mode.over /\ pairing_mode.failed < MaxAttempts

Accepted == [kind |-> "ServerFinished", accepted |-> TRUE]
Refused == [kind |-> "ServerFinished", accepted |-> FALSE]
Hello(side) == [kind |-> side, accepted |-> FALSE]
Message == [kind : {"ClientHello", "ClientFinished", "ServerHello", "ServerFinished"},
            accepted : BOOLEAN]

AdmissionInit ==
  /\ pairing_mode = Off /\ drawn = 0 /\ commands = 0
  /\ paired \in SUBSET Device
  /\ running = TRUE /\ starts = 1
  /\ dev = [x \in Conn |-> None] /\ offer = [x \in Conn |-> 0]
  /\ born = [x \in Conn |-> 0]
  /\ client = [x \in Conn |-> "idle"] /\ server = [x \in Conn |-> "idle"]
  /\ c2s = [x \in Conn |-> <<>>] /\ s2c = [x \in Conn |-> <<>>]
  /\ decision = [x \in Conn |-> "none"] /\ ground = [x \in Conn |-> "none"]
  /\ wrong = [n \in 1 .. MaxPin |-> 0]
  /\ granted = paired

-----------------------------------------------------------------------------
(* The pairing mode.                                                       *)

\* First section of start_pairing_mode: an active PIN is returned as it is.
StartCommand ==
  /\ ~is_alive
  /\ commands + drawn < MaxPin
  /\ pairing_mode' = Off
  /\ commands' = commands + 1
  /\ UNCHANGED <<drawn, paired, serviceVars, connVars, client, server, wireVars,
                 aclVars>>

\* Second section: a new PIN, whatever became of the mode in between.
DrawPin ==
  /\ commands > 0
  /\ commands' = commands - 1
  /\ drawn' = drawn + 1
  /\ pairing_mode' = [pin |-> drawn + 1, failed |-> 0, over |-> FALSE]
  /\ UNCHANGED <<paired, serviceVars, connVars, client, server, wireVars, aclVars>>

\* stop_pairing_mode, or a snapshot that finds the mode over.
StopPairing ==
  /\ pairing_mode # Off
  /\ pairing_mode' = Off
  /\ UNCHANGED <<drawn, commands, paired, serviceVars, connVars, client, server,
                 wireVars, aclVars>>

\* expires_at_ms passes.
Expire ==
  /\ is_alive
  /\ pairing_mode' = [pairing_mode EXCEPT !.over = TRUE]
  /\ UNCHANGED <<drawn, commands, paired, serviceVars, connVars, client, server,
                 wireVars, aclVars>>

-----------------------------------------------------------------------------
(* Peers and services, as far as they decide over a handshake.             *)

\* unpair_peer removes the entry of the device.
Unpair(d) ==
  /\ d \in paired
  /\ paired' = paired \ {d}
  /\ UNCHANGED <<modeVars, serviceVars, connVars, client, server, wireVars, aclVars>>

\* The user connects to the device: the session registered marks it as paired.
ConnectOut(d) ==
  /\ d \notin paired
  /\ paired' = paired \cup {d}
  /\ granted' = granted \cup {d}
  /\ UNCHANGED <<modeVars, serviceVars, connVars, client, server, wireVars,
                 decision, wrong, ground>>

\* stop_services: listener and dispatcher are aborted, handshakes are not.
StopServices ==
  /\ running
  /\ running' = FALSE
  /\ UNCHANGED <<modeVars, paired, starts, connVars, client, server, wireVars,
                 aclVars>>

StartServices ==
  /\ ~running /\ starts < MaxStart
  /\ running' = TRUE /\ starts' = starts + 1
  /\ UNCHANGED <<modeVars, paired, connVars, client, server, wireVars, aclVars>>

-----------------------------------------------------------------------------
(* The driver of the device, drive_client and Connector::connect.          *)

\* It connects and sends ClientHello, with a PIN its user was told or not; the
\* listener spawns the task of the connection.
Connect(x, d, n) ==
  /\ running
  /\ client[x] = "idle" /\ \A y \in 1 .. x-1 : client[y] # "idle"
  /\ dev' = [dev EXCEPT ![x] = d]
  /\ offer' = [offer EXCEPT ![x] = n]
  /\ born' = [born EXCEPT ![x] = starts]
  /\ client' = [client EXCEPT ![x] = "hello"]
  /\ server' = [server EXCEPT ![x] = "hello"]
  /\ c2s' = [c2s EXCEPT ![x] = <<Hello("ClientHello")>>]
  /\ UNCHANGED <<modeVars, paired, serviceVars, s2c, aclVars>>

ClientFinish(x) ==
  /\ client[x] = "hello" /\ s2c[x] # <<>>
  /\ s2c' = [s2c EXCEPT ![x] = Tail(@)]
  /\ c2s' = [c2s EXCEPT ![x] = Append(@, Hello("ClientFinished"))]
  /\ client' = [client EXCEPT ![x] = "finished"]
  /\ UNCHANGED <<modeVars, paired, serviceVars, connVars, server, aclVars>>

\* ServerFinished ends the handshake.
ClientEnd(x) ==
  /\ client[x] = "finished" /\ s2c[x] # <<>>
  /\ s2c' = [s2c EXCEPT ![x] = Tail(@)]
  /\ client' = [client EXCEPT ![x] = IF Head(s2c[x]).accepted THEN "open" ELSE "failed"]
  /\ UNCHANGED <<modeVars, paired, serviceVars, connVars, server, c2s, aclVars>>

ClientFails(x) ==
  /\ client[x] \in {"hello", "finished"}
  /\ client' = [client EXCEPT ![x] = "failed"]
  /\ UNCHANGED <<modeVars, paired, serviceVars, connVars, server, wireVars, aclVars>>

-----------------------------------------------------------------------------
(* The driver of the server, drive_server, with the access list.           *)

\* The predicate has decided; ServerHello is sent either way.
Greet(x, result) ==
  /\ decision' = [decision EXCEPT ![x] = result]
  /\ s2c' = [s2c EXCEPT ![x] = Append(@, Hello("ServerHello"))]
  /\ server' = [server EXCEPT ![x] = "finished"]

\* Mutant: the first lock alone decides while a pairing mode is active.
AclPeersOrMode(x) ==
  /\ server[x] = "hello" /\ c2s[x] # <<>>
  /\ c2s' = [c2s EXCEPT ![x] = Tail(@)]
  /\ IF dev[x] \in paired \/ is_alive
       THEN Greet(x, "ok") /\ ground' = [ground EXCEPT ![x] = "paired"]
       ELSE server' = [server EXCEPT ![x] = "pin"] /\ UNCHANGED <<decision, s2c, ground>>
  /\ UNCHANGED <<modeVars, paired, serviceVars, connVars, client, wrong, granted>>

\* The first lock of the access list: a paired device is let in.
AclPeers(x) ==
  /\ server[x] = "hello" /\ c2s[x] # <<>>
  /\ c2s' = [c2s EXCEPT ![x] = Tail(@)]
  /\ IF dev[x] \in paired
       THEN Greet(x, "ok") /\ ground' = [ground EXCEPT ![x] = "paired"]
       ELSE server' = [server EXCEPT ![x] = "pin"] /\ UNCHANGED <<decision, s2c, ground>>
  /\ UNCHANGED <<modeVars, paired, serviceVars, connVars, client, wrong, granted>>

\* A wrong or missing PIN costs an attempt; the last one ends the mode.
Miss == IF pairing_mode.failed + 1 >= MaxAttempts
          THEN Off ELSE [pairing_mode EXCEPT !.failed = @ + 1]

\* The second lock, held from the look at the mode to the end of the decision.
AclPin(x) ==
  /\ server[x] = "pin"
  /\ \/ /\ ~is_alive
        /\ pairing_mode' = Off
        /\ Greet(x, "refused")
        /\ UNCHANGED <<wrong, ground, granted>>
     \/ /\ is_alive /\ offer[x] = pairing_mode.pin
        /\ Greet(x, "ok")
        /\ ground' = [ground EXCEPT ![x] = "pin"]
        /\ granted' = granted \cup {dev[x]}
        /\ UNCHANGED <<pairing_mode, wrong>>
     \/ /\ is_alive /\ offer[x] # pairing_mode.pin
        /\ pairing_mode' = Miss
        /\ wrong' = [wrong EXCEPT ![pairing_mode.pin] = @ + 1]
        /\ Greet(x, "refused")
        /\ UNCHANGED <<ground, granted>>
  /\ UNCHANGED <<drawn, commands, paired, serviceVars, connVars, client, c2s>>

\* ClientFinished is answered with the decision taken at ClientHello.
ServerEnd(x) ==
  /\ server[x] = "finished" /\ c2s[x] # <<>>
  /\ c2s' = [c2s EXCEPT ![x] = Tail(@)]
  /\ LET ok == decision[x] = "ok" IN
     /\ s2c' = [s2c EXCEPT ![x] = Append(@, IF ok THEN Accepted ELSE Refused)]
     /\ server' = [server EXCEPT ![x] = IF ok THEN "open" ELSE "failed"]
  /\ UNCHANGED <<modeVars, paired, serviceVars, connVars, client, aclVars>>

\* Mutant: the timeout covers the first read only.
ServerFailsEarly(x) ==
  /\ server[x] = "hello"
  /\ server' = [server EXCEPT ![x] = "failed"]
  /\ UNCHANGED <<modeVars, paired, serviceVars, connVars, client, wireVars, aclVars>>

ServerFails(x) ==
  /\ server[x] \in {"hello", "finished"}
  /\ server' = [server EXCEPT ![x] = "failed"]
  /\ UNCHANGED <<modeVars, paired, serviceVars, connVars, client, wireVars, aclVars>>

\* The dispatcher registers the session, or is gone: then the session is dropped.
Dispatch(x) ==
  /\ server[x] = "open"
  /\ IF running /\ born[x] = starts
       THEN /\ server' = [server EXCEPT ![x] = "registered"]
            /\ paired' = paired \cup {dev[x]}
       ELSE server' = [server EXCEPT ![x] = "dropped"] /\ UNCHANGED paired
  /\ UNCHANGED <<modeVars, serviceVars, connVars, client, wireVars, aclVars>>

-----------------------------------------------------------------------------
AdmissionNext ==
  \/ StartCommand \/ DrawPin \/ StopPairing \/ Expire
  \/ \E d \in Device : Unpair(d) \/ ConnectOut(d)
  \/ StopServices \/ StartServices
  \/ \E x \in Conn, d \in Device : \E n \in 0 .. drawn : Connect(x, d, n)
  \/ \E x \in Conn : \/ ClientFinish(x) \/ ClientEnd(x) \/ ClientFails(x)
                     \/ AclPeers(x) \/ AclPin(x) \/ ServerEnd(x) \/ ServerFails(x)
                     \/ Dispatch(x)

AdmissionSpec == AdmissionInit /\ [][AdmissionNext]_admissionVars

\* Both drivers run under a timeout, on tasks of a multi-threaded runtime; the access
\* list never waits but for its locks.
AdmissionFairSpec ==
  /\ AdmissionSpec
  /\ \A x \in Conn : /\ WF_admissionVars(ClientFails(x)) /\ WF_admissionVars(ServerFails(x))
                     /\ WF_admissionVars(AclPin(x)) /\ WF_admissionVars(Dispatch(x))

-----------------------------------------------------------------------------
AdmissionTypeOK ==
  /\ pairing_mode \in [pin : 0 .. MaxPin, failed : 0 .. MaxAttempts - 1, over : BOOLEAN]
  /\ drawn \in 0 .. MaxPin /\ commands \in 0 .. MaxPin
  /\ paired \subseteq Device /\ granted \subseteq Device
  /\ running \in BOOLEAN /\ starts \in 1 .. MaxStart
  /\ dev \in [Conn -> Device \cup {None}] /\ offer \in [Conn -> 0 .. MaxPin]
  /\ born \in [Conn -> 0 .. MaxStart]
  /\ client \in [Conn -> {"idle", "hello", "finished", "open", "failed"}]
  /\ server \in [Conn -> {"idle", "hello", "pin", "finished", "open", "failed",
                          "registered", "dropped"}]
  /\ c2s \in [Conn -> Seq(Message)] /\ s2c \in [Conn -> Seq(Message)]
  /\ decision \in [Conn -> {"none", "ok", "refused"}]
  /\ wrong \in [1 .. MaxPin -> Nat]
  /\ ground \in [Conn -> {"none", "paired", "pin"}]

ServerHasIt(x) == server[x] \in {"open", "registered", "dropped"}

\* However many handshakes run in parallel, whenever the mode expires, is stopped or
\* started again by overlapping commands, no PIN is compared with more than
\* MAX_PIN_ATTEMPTS wrong or missing ones (state.rs:249-252).
AttemptsBounded == \A n \in 1 .. MaxPin : wrong[n] <= MaxAttempts

\* A device is paired only after its user was admitted once: it was paired at the start,
\* was connected to from here, or has given a PIN while it was current
\* (state.rs:652-723), although it is registered long after the access list decided.
PairedWasGranted == paired \subseteq granted

\* A device that believes in its session talks to a server that does: the refusal taken
\* at ClientHello reaches it in ServerFinished (handshake.rs, steps 1 and 5).
ClientHasServer == \A x \in Conn : client[x] = "open" => ServerHasIt(x)

\* The counter of the current mode is that of its PIN; PINs not drawn have none.
FailedIsWrong ==
  /\ pairing_mode.pin <= drawn /\ drawn + commands <= MaxPin
  /\ pairing_mode.pin # 0 => pairing_mode.failed = wrong[pairing_mode.pin]
  /\ \A n \in 1 .. MaxPin : n > drawn => wrong[n] = 0

\* What the access list has accepted was granted, also after the user went on; a
\* connection that was not made yet has no task.
AcceptedWasGranted ==
  \A x \in Conn :
    /\ client[x] = "idle" => server[x] = "idle"
    /\ server[x] # "idle" => dev[x] \in Device
    /\ decision[x] = "ok" => dev[x] \in granted
    /\ server[x] = "open" => decision[x] = "ok"
    /\ server[x] \in {"idle", "hello", "pin"} => decision[x] = "none"

\* An acceptance on its way comes from a server that has the session.
AcceptanceIsTrue ==
  \A x \in Conn : \A i \in 1 .. Len(s2c[x]) : s2c[x][i].accepted => ServerHasIt(x)

\* The inductive invariant of the proofs: the three properties above and what they rest
\* on, the counter of the mode, the decision kept for later, the answer on its way.
AdmissionInv ==
  /\ AdmissionTypeOK /\ FailedIsWrong /\ AttemptsBounded
  /\ AcceptedWasGranted /\ PairedWasGranted
  /\ AcceptanceIsTrue /\ ClientHasServer

\* Every handshake ends on both sides, whatever the other side does: the whole of it is
\* under one timeout (handshake.rs:220-231 and 382-393).
HandshakeEnds ==
  \A x \in Conn : client[x] # "idle"
    ~> client[x] \in {"open", "failed"} /\ server[x] \in {"failed", "registered", "dropped"}

\* Stated by commands.rs:510-512: a PIN that is still good is not replaced.
PinStays ==
  [][is_alive /\ pairing_mode'.pin # pairing_mode.pin => pairing_mode' = Off]_admissionVars

\* Stated by docs/SECURITY.md:154: a PIN is for one use.
PinUsedOnce ==
  \A x, y \in Conn : ground[x] = "pin" /\ ground[y] = "pin" /\ offer[x] = offer[y]
                       => dev[x] = dev[y]

\* Stated by state.rs:645-648: a device that is not paired is let in by a PIN.
UnpairedNeedsPin ==
  [][\A x \in Conn :
       server[x] = "open" /\ server'[x] = "registered" /\ dev[x] \notin paired
         => ground[x] = "pin"]_admissionVars
=============================================================================
