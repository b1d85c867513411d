--------------------------- MODULE Connection_proofs ---------------------------
(* Proofs about a connection, before and after its session starts.  About       *)
(* Admission, for any devices, any number of parallel handshakes and any limit  *)
(* of attempts: its inductive invariant and what follows from it.  About        *)
(* SessionTasks, for any typed channels and any capacities: the queues keep to  *)
(* their capacities, and every typed channel implements OrderedChannel.         *)
EXTENDS Admission, SessionTasks, SequenceTheorems, TLAPS

-----------------------------------------------------------------------------
(* Admission.                                                                 *)

\* Reading a message takes the first one and leaves the others.
LEMMA TailOfMessages ==
  ASSUME NEW s \in Seq(Message), s # <<>>
  PROVE  /\ Tail(s) \in Seq(Message) /\ Head(s) = s[1] /\ 1 \in 1 .. Len(s)
         /\ \A i \in 1 .. Len(Tail(s)) : i + 1 \in 1 .. Len(s) /\ Tail(s)[i] = s[i + 1]
OBVIOUS

\* Sending a message adds it behind the others.
LEMMA AppendMessage ==
  ASSUME NEW s \in Seq(Message), NEW m \in Message
  PROVE  /\ Append(s, m) \in Seq(Message)
         /\ \A i \in 1 .. Len(Append(s, m)) :
              Append(s, m)[i] = m \/ (i \in 1 .. Len(s) /\ Append(s, m)[i] = s[i])
OBVIOUS

\* The messages the drivers send are messages.
LEMMA Messages ==
  /\ Accepted \in Message /\ Refused \in Message
  /\ Hello("ClientHello") \in Message /\ Hello("ServerHello") \in Message
  /\ Hello("ClientFinished") \in Message
BY DEF Accepted, Refused, Hello, Message

\* The initial states satisfy the invariant.
LEMMA AdmissionInitInv == AdmissionInit => AdmissionInv
<1> SUFFICES ASSUME AdmissionInit PROVE AdmissionInv
  OBVIOUS
<1> USE AttemptsAssumption, BoundAssumption DEF AdmissionInit
<1>1. AdmissionTypeOK
  BY DEF AdmissionTypeOK, Off
<1>2. FailedIsWrong /\ AttemptsBounded
  BY DEF FailedIsWrong, AttemptsBounded, Off
<1>3. AcceptedWasGranted /\ PairedWasGranted
  BY DEF AcceptedWasGranted, PairedWasGranted
<1>4. AcceptanceIsTrue /\ ClientHasServer
  BY DEF AcceptanceIsTrue, ClientHasServer
<1> QED BY <1>1, <1>2, <1>3, <1>4 DEF AdmissionInv

\* Steps of the pairing mode: a new PIN has not been tried, and the counter of the mode
\* only goes away with it.
LEMMA ModeSteps ==
  ASSUME AdmissionInv, StartCommand \/ DrawPin \/ StopPairing \/ Expire
  PROVE  AdmissionInv'
<1> USE AttemptsAssumption, BoundAssumption DEF AdmissionInv
<1>1. UNCHANGED <<paired, serviceVars, connVars, client, server, wireVars, aclVars>>
  BY DEF StartCommand, DrawPin, StopPairing, Expire
<1>2. AdmissionTypeOK' /\ FailedIsWrong'
  <2>1. /\ dev' \in [Conn -> Device \cup {None}] /\ offer' \in [Conn -> 0 .. MaxPin]
        /\ UNCHANGED <<wrong, paired, granted, running, starts, born, client, server,
                       c2s, s2c, decision, ground>>
    BY <1>1 DEF AdmissionTypeOK, serviceVars, connVars, wireVars, aclVars
  <2>2. /\ pairing_mode' \in [pin : 0 .. MaxPin, failed : 0 .. MaxAttempts - 1,
                               over : BOOLEAN]
        /\ drawn' \in 0 .. MaxPin /\ commands' \in 0 .. MaxPin
        /\ FailedIsWrong'
    <3>1. CASE StartCommand
      BY <2>1, <3>1 DEF StartCommand, AdmissionTypeOK, FailedIsWrong, Off
    <3>2. CASE DrawPin
      <4>1. drawn + 1 \in 1 .. MaxPin /\ wrong[drawn + 1] = 0
        BY <3>2 DEF DrawPin, AdmissionTypeOK, FailedIsWrong
      <4> QED BY <2>1, <3>2, <4>1 DEF DrawPin, AdmissionTypeOK, FailedIsWrong
    <3>3. CASE StopPairing
      BY <2>1, <3>3 DEF StopPairing, AdmissionTypeOK, FailedIsWrong, Off
    <3>4. CASE Expire
      BY <2>1, <3>4 DEF Expire, AdmissionTypeOK, FailedIsWrong
    <3> QED BY <3>1, <3>2, <3>3, <3>4
  <2> QED BY <2>1, <2>2 DEF AdmissionTypeOK
<1>3. AttemptsBounded' /\ AcceptedWasGranted' /\ PairedWasGranted'
  BY <1>1 DEF AttemptsBounded, AcceptedWasGranted, PairedWasGranted, connVars, aclVars
<1>4. AcceptanceIsTrue' /\ ClientHasServer'
  BY <1>1 DEF AcceptanceIsTrue, ClientHasServer, ServerHasIt, wireVars
<1> QED BY <1>2, <1>3, <1>4

\* Peers and services: what is granted only grows, and so does what is paired unless it
\* was granted.
LEMMA PeerSteps ==
  ASSUME AdmissionInv, \/ \E d \in Device : Unpair(d) \/ ConnectOut(d)
              \/ StopServices \/ StartServices
  PROVE  AdmissionInv'
<1> USE BoundAssumption DEF AdmissionInv
<1>1. UNCHANGED <<modeVars, connVars, client, server, wireVars, decision, wrong, ground>>
  BY DEF Unpair, ConnectOut, StopServices, StartServices, aclVars
<1> DEFINE Grown == /\ granted \subseteq granted' /\ granted' \subseteq Device
                    /\ paired' \subseteq granted' /\ paired' \subseteq Device
                    /\ running' \in BOOLEAN /\ starts' \in 1 .. MaxStart
<1>2. Grown
  <2> USE DEF AdmissionTypeOK, PairedWasGranted, aclVars, serviceVars
  <2>1. ASSUME NEW d \in Device, Unpair(d) PROVE Grown
    BY <2>1 DEF Unpair
  <2>2. ASSUME NEW d \in Device, ConnectOut(d) PROVE Grown
    BY <2>2 DEF ConnectOut
  <2>3. CASE StopServices
    BY <2>3 DEF StopServices
  <2>4. CASE StartServices
    BY <2>4 DEF StartServices
  <2> QED BY <2>1, <2>2, <2>3, <2>4
<1>3. AdmissionTypeOK' /\ FailedIsWrong' /\ AttemptsBounded'
  BY <1>1, <1>2 DEF AdmissionTypeOK, FailedIsWrong, AttemptsBounded, modeVars, connVars, wireVars
<1>4. AcceptedWasGranted' /\ PairedWasGranted'
  BY <1>1, <1>2 DEF AcceptedWasGranted, PairedWasGranted, connVars
<1>5. AcceptanceIsTrue' /\ ClientHasServer'
  BY <1>1 DEF AcceptanceIsTrue, ClientHasServer, ServerHasIt, wireVars
<1> QED BY <1>3, <1>4, <1>5

\* The device: it gives up, or takes an answer off the wire; it opens its session only on
\* an acceptance.
LEMMA ClientSteps ==
  ASSUME AdmissionInv, NEW x \in Conn,
         \/ \E d \in Device : \E n \in 0 .. drawn : Connect(x, d, n)
         \/ ClientFinish(x) \/ ClientEnd(x) \/ ClientFails(x)
  PROVE  AdmissionInv'
<1> USE DEF AdmissionInv
<1>1. UNCHANGED <<pairing_mode, drawn, commands, paired, running, starts, decision, wrong,
                  ground, granted>>
  BY DEF Connect, ClientFinish, ClientEnd, ClientFails, modeVars, serviceVars, aclVars
<1>2. FailedIsWrong' /\ AttemptsBounded' /\ PairedWasGranted'
  BY <1>1 DEF FailedIsWrong, AttemptsBounded, PairedWasGranted
<1> DEFINE Rest == /\ AdmissionTypeOK' /\ AcceptedWasGranted'
                   /\ AcceptanceIsTrue' /\ ClientHasServer'
<1> SUFFICES Rest
  BY <1>2
<1>3. ASSUME NEW d \in Device, NEW n \in 0 .. drawn, Connect(x, d, n) PROVE Rest
  <2>1. client[x] = "idle" /\ server[x] = "idle" /\ decision[x] = "none" /\ UNCHANGED s2c
    BY <1>3 DEF Connect, AcceptedWasGranted
  <2>2. AdmissionTypeOK'
    <3>1. <<Hello("ClientHello")>> \in Seq(Message)
      BY Messages
    <3>2. n \in 0 .. MaxPin /\ starts \in 0 .. MaxStart
      BY BoundAssumption DEF AdmissionTypeOK
    <3> QED BY <1>1, <1>3, <2>1, <3>1, <3>2 DEF AdmissionTypeOK, Connect
  <2>3. AcceptedWasGranted'
    BY <1>1, <1>3, <2>1 DEF AcceptedWasGranted, Connect, AdmissionTypeOK
  <2>4. AcceptanceIsTrue' /\ ClientHasServer'
    BY <1>3, <2>1 DEF AcceptanceIsTrue, ClientHasServer, ServerHasIt, Connect, AdmissionTypeOK
  <2> QED BY <2>2, <2>3, <2>4
<1>4. CASE ClientFinish(x)
  <2>1. /\ client[x] = "hello" /\ UNCHANGED <<server, dev, offer, born>>
        /\ client' = [client EXCEPT ![x] = "finished"]
    BY <1>4 DEF ClientFinish, connVars
  <2>2. /\ s2c[x] \in Seq(Message) /\ s2c[x] # <<>> /\ c2s[x] \in Seq(Message)
        /\ s2c' = [s2c EXCEPT ![x] = Tail(s2c[x])]
        /\ c2s' = [c2s EXCEPT ![x] = Append(c2s[x], Hello("ClientFinished"))]
    BY <1>4 DEF ClientFinish, AdmissionTypeOK
  <2>3. /\ Append(c2s[x], Hello("ClientFinished")) \in Seq(Message)
        /\ Tail(s2c[x]) \in Seq(Message)
        /\ \A i \in 1 .. Len(Tail(s2c[x])) :
             i + 1 \in 1 .. Len(s2c[x]) /\ Tail(s2c[x])[i] = s2c[x][i + 1]
    BY <2>2, TailOfMessages, AppendMessage, Messages
  <2>4. AdmissionTypeOK'
    BY <1>1, <2>1, <2>2, <2>3 DEF AdmissionTypeOK
  <2>5. AcceptedWasGranted' /\ ClientHasServer'
    BY <1>1, <2>1 DEF AcceptedWasGranted, ClientHasServer, ServerHasIt, AdmissionTypeOK
  <2>6. AcceptanceIsTrue'
    BY <2>1, <2>2, <2>3 DEF AcceptanceIsTrue, ServerHasIt, AdmissionTypeOK
  <2> QED BY <2>4, <2>5, <2>6
<1>5. CASE ClientEnd(x)
  <2>1. /\ client[x] = "finished" /\ UNCHANGED <<server, dev, offer, born, c2s>>
        /\ client' = [client EXCEPT ![x] = IF Head(s2c[x]).accepted THEN "open" ELSE "failed"]
    BY <1>5 DEF ClientEnd, connVars
  <2>2. /\ s2c[x] \in Seq(Message) /\ s2c[x] # <<>>
        /\ s2c' = [s2c EXCEPT ![x] = Tail(s2c[x])]
    BY <1>5 DEF ClientEnd, AdmissionTypeOK
  <2>3. /\ Tail(s2c[x]) \in Seq(Message) /\ Head(s2c[x]) = s2c[x][1]
        /\ 1 \in 1 .. Len(s2c[x])
        /\ \A i \in 1 .. Len(Tail(s2c[x])) :
             i + 1 \in 1 .. Len(s2c[x]) /\ Tail(s2c[x])[i] = s2c[x][i + 1]
    BY <2>2, TailOfMessages
  <2>4. AdmissionTypeOK'
    BY <1>1, <2>1, <2>2, <2>3 DEF AdmissionTypeOK
  <2>5. AcceptedWasGranted'
    BY <1>1, <2>1 DEF AcceptedWasGranted, AdmissionTypeOK
  <2>6. AcceptanceIsTrue'
    BY <2>1, <2>2, <2>3 DEF AcceptanceIsTrue, ServerHasIt, AdmissionTypeOK
  <2>7. ClientHasServer'
    <3>1. Head(s2c[x]).accepted => ServerHasIt(x)
      BY <2>3 DEF AcceptanceIsTrue
    <3> QED BY <2>1, <3>1 DEF ClientHasServer, ServerHasIt, AdmissionTypeOK
  <2> QED BY <2>4, <2>5, <2>6, <2>7
<1>6. CASE ClientFails(x)
  <2>1. /\ client[x] \in {"hello", "finished"}
        /\ UNCHANGED <<server, dev, offer, born, c2s, s2c>>
        /\ client' = [client EXCEPT ![x] = "failed"]
    BY <1>6 DEF ClientFails, connVars, wireVars
  <2>2. AdmissionTypeOK' /\ AcceptedWasGranted'
    BY <1>1, <2>1 DEF AdmissionTypeOK, AcceptedWasGranted
  <2>3. AcceptanceIsTrue' /\ ClientHasServer'
    BY <2>1 DEF AcceptanceIsTrue, ClientHasServer, ServerHasIt, AdmissionTypeOK
  <2> QED BY <2>2, <2>3
<1> QED BY <1>3, <1>4, <1>5, <1>6

\* Sending an answer: it may say that the device is accepted once the server has the
\* session, and the server does not lose it by sending.
LEMMA AnswerOnTheWire ==
  ASSUME AdmissionTypeOK, AcceptanceIsTrue, NEW x \in Conn, NEW m \in Message,
         s2c' = [s2c EXCEPT ![x] = Append(s2c[x], m)],
         \A y \in Conn : y # x => server'[y] = server[y],
         ServerHasIt(x) \/ m.accepted => ServerHasIt(x)'
  PROVE  s2c' \in [Conn -> Seq(Message)] /\ AcceptanceIsTrue'
<1>1. s2c[x] \in Seq(Message) /\ s2c \in [Conn -> Seq(Message)]
  BY DEF AdmissionTypeOK
<1>2. /\ Append(s2c[x], m) \in Seq(Message)
      /\ \A i \in 1 .. Len(Append(s2c[x], m)) :
           Append(s2c[x], m)[i] = m \/ (i \in 1 .. Len(s2c[x])
                                        /\ Append(s2c[x], m)[i] = s2c[x][i])
  BY <1>1, AppendMessage
<1>3. s2c' \in [Conn -> Seq(Message)]
  BY <1>1, <1>2
<1>4. ASSUME NEW y \in Conn, NEW i \in 1 .. Len(s2c'[y]), s2c'[y][i].accepted
      PROVE  ServerHasIt(y)'
  <2>1. CASE y = x
    <3>1. s2c'[x] = Append(s2c[x], m)
      BY <1>1
    <3>2. m.accepted \/ (i \in 1 .. Len(s2c[x]) /\ s2c[x][i].accepted)
      BY <1>2, <1>4, <2>1, <3>1
    <3> QED BY <2>1, <3>2 DEF AcceptanceIsTrue
  <2>2. CASE y # x
    <3>1. s2c'[y] = s2c[y] /\ server'[y] = server[y]
      BY <1>1, <2>2
    <3> QED BY <1>4, <3>1 DEF AcceptanceIsTrue, ServerHasIt
  <2> QED BY <2>1, <2>2
<1> QED BY <1>3, <1>4 DEF AcceptanceIsTrue

\* The first lock of the access list: a paired device was granted.
LEMMA AclPeersStep ==
  ASSUME AdmissionInv, NEW x \in Conn, AclPeers(x)
  PROVE  AdmissionInv'
<1> USE DEF AdmissionInv
<1>1. /\ server[x] = "hello" /\ c2s' = [c2s EXCEPT ![x] = Tail(c2s[x])] /\ c2s[x] # <<>>
      /\ UNCHANGED <<pairing_mode, drawn, commands, paired, running, starts, dev, offer,
                     born, client, wrong, granted>>
  BY DEF AclPeers, modeVars, serviceVars, connVars
<1>2. c2s' \in [Conn -> Seq(Message)]
  <2>1. c2s[x] \in Seq(Message) /\ c2s \in [Conn -> Seq(Message)]
    BY DEF AdmissionTypeOK
  <2>2. Tail(c2s[x]) \in Seq(Message)
    BY <1>1, <2>1, TailOfMessages
  <2> QED BY <1>1, <2>1, <2>2
<1>3. ~ServerHasIt(x) /\ client[x] # "open" /\ decision[x] = "none"
  BY <1>1 DEF ServerHasIt, ClientHasServer, AcceptedWasGranted
<1>4. FailedIsWrong' /\ AttemptsBounded' /\ PairedWasGranted'
  BY <1>1 DEF FailedIsWrong, AttemptsBounded, PairedWasGranted
<1> DEFINE Rest == /\ AdmissionTypeOK' /\ AcceptedWasGranted'
                   /\ AcceptanceIsTrue' /\ ClientHasServer'
<1> SUFFICES Rest
  BY <1>4
<1>5. CASE dev[x] \in paired
  <2>1. /\ decision' = [decision EXCEPT ![x] = "ok"]
        /\ ground' = [ground EXCEPT ![x] = "paired"]
        /\ server' = [server EXCEPT ![x] = "finished"]
        /\ s2c' = [s2c EXCEPT ![x] = Append(s2c[x], Hello("ServerHello"))]
    BY <1>5 DEF AclPeers, Greet
  <2>2. s2c' \in [Conn -> Seq(Message)] /\ AcceptanceIsTrue'
    <3>1. /\ \A y \in Conn : y # x => server'[y] = server[y]
          /\ ~Hello("ServerHello").accepted
      BY <2>1 DEF Hello, AdmissionTypeOK
    <3> QED BY <1>3, <2>1, <3>1, AnswerOnTheWire, Messages
  <2>3. AdmissionTypeOK'
    BY <1>1, <1>2, <2>1, <2>2 DEF AdmissionTypeOK
  <2>4. AcceptedWasGranted' /\ ClientHasServer'
    BY <1>1, <1>3, <1>5, <2>1
    DEF AcceptedWasGranted, ClientHasServer, ServerHasIt, PairedWasGranted, AdmissionTypeOK
  <2> QED BY <2>2, <2>3, <2>4
<1>6. CASE dev[x] \notin paired
  <2>1. server' = [server EXCEPT ![x] = "pin"] /\ UNCHANGED <<decision, s2c, ground>>
    BY <1>6 DEF AclPeers
  <2>2. AdmissionTypeOK'
    BY <1>1, <1>2, <2>1 DEF AdmissionTypeOK
  <2>3. AcceptedWasGranted' /\ AcceptanceIsTrue' /\ ClientHasServer'
    BY <1>1, <1>3, <2>1
    DEF AcceptedWasGranted, AcceptanceIsTrue, ClientHasServer, ServerHasIt,
                     AdmissionTypeOK
  <2> QED BY <2>2, <2>3
<1> QED BY <1>5, <1>6

\* The second lock of the access list: the counter of the mode is that of its PIN, and
\* the refusal that reaches the limit ends the mode.
LEMMA AclPinStep ==
  ASSUME AdmissionInv, NEW x \in Conn, AclPin(x)
  PROVE  AdmissionInv'
<1> USE AttemptsAssumption, BoundAssumption DEF AdmissionInv
<1>1. /\ server[x] = "pin" /\ server' = [server EXCEPT ![x] = "finished"]
      /\ s2c' = [s2c EXCEPT ![x] = Append(s2c[x], Hello("ServerHello"))]
      /\ UNCHANGED <<drawn, commands, paired, running, starts, dev, offer, born, client, c2s>>
  BY DEF AclPin, Greet, serviceVars, connVars
<1>2. ~ServerHasIt(x) /\ client[x] # "open" /\ dev[x] \in Device
  BY <1>1 DEF ServerHasIt, ClientHasServer, AcceptedWasGranted
<1>3. s2c' \in [Conn -> Seq(Message)] /\ AcceptanceIsTrue'
  <2>1. (\A y \in Conn : y # x => server'[y] = server[y]) /\ ~Hello("ServerHello").accepted
    BY <1>1 DEF Hello, AdmissionTypeOK
  <2> QED BY <1>1, <1>2, <2>1, AnswerOnTheWire, Messages
<1>4. ClientHasServer'
  BY <1>1, <1>2 DEF ClientHasServer, ServerHasIt, AdmissionTypeOK
<1> DEFINE Mode == [pin : 0 .. MaxPin, failed : 0 .. MaxAttempts - 1, over : BOOLEAN]
<1>5. /\ pairing_mode' \in Mode
      /\ wrong' \in [1 .. MaxPin -> Nat] /\ FailedIsWrong' /\ AttemptsBounded'
  <2>1. CASE ~is_alive
    <3>1. pairing_mode' = Off /\ wrong' = wrong
      BY <2>1 DEF AclPin
    <3>2. Off \in Mode /\ Off.pin = 0
      BY DEF Off
    <3> QED BY <1>1, <3>1, <3>2 DEF FailedIsWrong, AttemptsBounded, AdmissionTypeOK
  <2>2. CASE is_alive /\ offer[x] = pairing_mode.pin
    BY <1>1, <2>2 DEF AclPin, FailedIsWrong, AttemptsBounded, AdmissionTypeOK
  <2>3. CASE is_alive /\ offer[x] # pairing_mode.pin
    <3>1. /\ pairing_mode.pin \in 1 .. MaxPin /\ pairing_mode.failed \in 0 .. MaxAttempts - 1
          /\ wrong[pairing_mode.pin] = pairing_mode.failed
          /\ wrong' = [wrong EXCEPT ![pairing_mode.pin] = wrong[pairing_mode.pin] + 1]
          /\ pairing_mode' = Miss /\ pairing_mode \in Mode
          /\ pairing_mode.pin <= drawn
      BY <1>1, <2>3 DEF AclPin, is_alive, FailedIsWrong, AdmissionTypeOK
    <3>2. wrong' \in [1 .. MaxPin -> Nat] /\ AttemptsBounded'
      BY SMTT(60), <3>1 DEF AttemptsBounded, AdmissionTypeOK
    <3>3. CASE pairing_mode.failed + 1 >= MaxAttempts
      <4>1. pairing_mode' = Off
        BY <3>1, <3>3 DEF Miss
      <4> QED BY <1>1, <3>1, <3>2, <4>1 DEF FailedIsWrong, Off, AdmissionTypeOK
    <3>4. CASE ~(pairing_mode.failed + 1 >= MaxAttempts)
      <4>1. pairing_mode' = [pairing_mode EXCEPT !.failed = pairing_mode.failed + 1]
        BY <3>1, <3>4 DEF Miss
      <4>2. pairing_mode.failed + 1 \in 0 .. MaxAttempts - 1
        BY <3>1, <3>4
      <4>3. /\ pairing_mode' \in Mode /\ pairing_mode'.pin = pairing_mode.pin
            /\ pairing_mode'.failed = pairing_mode.failed + 1
        BY <3>1, <4>1, <4>2
      <4>4. FailedIsWrong'
        BY <1>1, <3>1, <4>3 DEF FailedIsWrong, AdmissionTypeOK
      <4> QED BY <3>2, <4>3, <4>4
    <3> QED BY <3>3, <3>4
  <2> QED BY <2>1, <2>2, <2>3
<1>6. /\ decision' \in [Conn -> {"none", "ok", "refused"}]
      /\ ground' \in [Conn -> {"none", "paired", "pin"}]
      /\ granted \subseteq granted' /\ granted' \subseteq Device
      /\ decision'[x] = "ok" => dev[x] \in granted'
      /\ \A y \in Conn : y # x => decision'[y] = decision[y]
  <2>1. \/ /\ decision' = [decision EXCEPT ![x] = "refused"]
           /\ UNCHANGED <<ground, granted>>
        \/ /\ decision' = [decision EXCEPT ![x] = "ok"]
           /\ ground' = [ground EXCEPT ![x] = "pin"]
           /\ granted' = granted \cup {dev[x]}
    BY DEF AclPin, Greet
  <2> QED BY <1>2, <2>1 DEF AdmissionTypeOK
<1>7. AdmissionTypeOK'
  BY <1>1, <1>3, <1>5, <1>6 DEF AdmissionTypeOK
<1>8. PairedWasGranted' /\ AcceptedWasGranted'
  BY SMTT(60), <1>1, <1>6 DEF PairedWasGranted, AcceptedWasGranted, AdmissionTypeOK
<1> QED BY <1>3, <1>4, <1>5, <1>7, <1>8

\* The end of the server's driver: its answer is the decision, and true.
LEMMA ServerEndStep ==
  ASSUME AdmissionInv, NEW x \in Conn, ServerEnd(x)
  PROVE  AdmissionInv'
<1> USE DEF AdmissionInv
<1> DEFINE ok == decision[x] = "ok"
           m == IF ok THEN Accepted ELSE Refused
<1>1. /\ server[x] = "finished" /\ c2s[x] # <<>>
      /\ c2s' = [c2s EXCEPT ![x] = Tail(c2s[x])]
      /\ s2c' = [s2c EXCEPT ![x] = Append(s2c[x], m)]
      /\ server' = [server EXCEPT ![x] = IF ok THEN "open" ELSE "failed"]
      /\ UNCHANGED <<pairing_mode, drawn, commands, paired, running, starts, dev, offer,
                     born, client, wrong, granted, decision, ground>>
  BY DEF ServerEnd, modeVars, serviceVars, connVars, aclVars
<1>2. ~ServerHasIt(x) /\ client[x] # "open"
  BY <1>1 DEF ServerHasIt, ClientHasServer
<1>3. s2c' \in [Conn -> Seq(Message)] /\ AcceptanceIsTrue'
  <2>1. m \in Message /\ (m.accepted => ok)
    BY Messages DEF Accepted, Refused
  <2>2. /\ \A y \in Conn : y # x => server'[y] = server[y]
        /\ ok => ServerHasIt(x)'
    BY <1>1 DEF ServerHasIt, AdmissionTypeOK
  <2>3. s2c' = [s2c EXCEPT ![x] = Append(s2c[x], m)]
    BY <1>1
  <2> HIDE DEF m
  <2> QED BY <1>2, <2>1, <2>2, <2>3, AnswerOnTheWire
<1>4. c2s' \in [Conn -> Seq(Message)]
  <2>1. c2s[x] \in Seq(Message) /\ c2s \in [Conn -> Seq(Message)]
    BY DEF AdmissionTypeOK
  <2>2. Tail(c2s[x]) \in Seq(Message)
    BY <1>1, <2>1, TailOfMessages
  <2> QED BY <1>1, <2>1, <2>2
<1>5. AdmissionTypeOK'
  BY <1>1, <1>3, <1>4 DEF AdmissionTypeOK
<1>6. AcceptedWasGranted' /\ ClientHasServer'
  BY <1>1, <1>2 DEF AcceptedWasGranted, ClientHasServer, ServerHasIt, AdmissionTypeOK
<1>7. FailedIsWrong' /\ AttemptsBounded' /\ PairedWasGranted'
  BY <1>1 DEF FailedIsWrong, AttemptsBounded, PairedWasGranted
<1> QED BY <1>3, <1>5, <1>6, <1>7

\* The server gives up, or hands the session to the dispatcher: what is registered was
\* accepted, and hence granted.
LEMMA LastSteps ==
  ASSUME AdmissionInv, NEW x \in Conn, ServerFails(x) \/ Dispatch(x)
  PROVE  AdmissionInv'
<1> USE DEF AdmissionInv
<1>1. UNCHANGED <<pairing_mode, drawn, commands, running, starts, dev, offer, born, client,
                  c2s, s2c, wrong, granted, decision, ground>>
  BY DEF ServerFails, Dispatch, modeVars, serviceVars, connVars, wireVars, aclVars
<1>2. PICK state \in {"failed", "registered", "dropped"} :
        /\ server' = [server EXCEPT ![x] = state]
        /\ ServerHasIt(x) => state \in {"registered", "dropped"}
        /\ server[x] # "idle"
        /\ paired' = paired \/ (paired' = paired \cup {dev[x]} /\ dev[x] \in granted)
  <2>1. CASE ServerFails(x)
    BY <2>1 DEF ServerFails, ServerHasIt
  <2>2. CASE Dispatch(x)
    BY <2>2 DEF Dispatch, ServerHasIt, AcceptedWasGranted
  <2> QED BY <2>1, <2>2
<1>3. paired' \subseteq granted
  BY <1>2 DEF PairedWasGranted
<1>4. AdmissionTypeOK' /\ PairedWasGranted'
  BY <1>1, <1>2, <1>3 DEF AdmissionTypeOK, PairedWasGranted
<1>5. AcceptedWasGranted' /\ AcceptanceIsTrue' /\ ClientHasServer'
  BY <1>1, <1>2 DEF AcceptedWasGranted, AcceptanceIsTrue, ClientHasServer, ServerHasIt,
                     AdmissionTypeOK
<1>6. FailedIsWrong' /\ AttemptsBounded'
  BY <1>1 DEF FailedIsWrong, AttemptsBounded
<1> QED BY <1>4, <1>5, <1>6

-----------------------------------------------------------------------------
\* No step of the mode, of a device, of the access list or of the dispatcher breaks the
\* invariant.
LEMMA AdmissionNextInv == AdmissionInv /\ [AdmissionNext]_admissionVars => AdmissionInv'
<1> SUFFICES ASSUME AdmissionInv, [AdmissionNext]_admissionVars PROVE AdmissionInv'
  OBVIOUS
<1>1. CASE StartCommand \/ DrawPin \/ StopPairing \/ Expire
  BY <1>1, ModeSteps
<1>2. CASE (\E d \in Device : Unpair(d) \/ ConnectOut(d)) \/ StopServices \/ StartServices
  BY <1>2, PeerSteps
<1>3. CASE \E x \in Conn, d \in Device : \E n \in 0 .. drawn : Connect(x, d, n)
  BY <1>3, ClientSteps
<1>4. ASSUME NEW x \in Conn, ClientFinish(x) \/ ClientEnd(x) \/ ClientFails(x) PROVE AdmissionInv'
  BY <1>4, ClientSteps
<1>5. ASSUME NEW x \in Conn, AclPeers(x) \/ AclPin(x) PROVE AdmissionInv'
  BY <1>5, AclPeersStep, AclPinStep
<1>6. ASSUME NEW x \in Conn, ServerEnd(x) \/ ServerFails(x) \/ Dispatch(x) PROVE AdmissionInv'
  BY <1>6, ServerEndStep, LastSteps
<1>7. CASE UNCHANGED admissionVars
  BY <1>7 DEF admissionVars, modeVars, serviceVars, connVars, wireVars, aclVars,
              AdmissionInv, AdmissionTypeOK,
              FailedIsWrong, AttemptsBounded, AcceptedWasGranted, PairedWasGranted,
              AcceptanceIsTrue, ClientHasServer, ServerHasIt
<1> QED BY <1>1, <1>2, <1>3, <1>4, <1>5, <1>6, <1>7 DEF AdmissionNext

\* The invariant holds in every reachable state.
THEOREM AdmissionInvHolds == AdmissionSpec => []AdmissionInv
<1>1. AdmissionInit => AdmissionInv
  BY AdmissionInitInv
<1>2. AdmissionInv /\ [AdmissionNext]_admissionVars => AdmissionInv'
  BY AdmissionNextInv
<1> QED BY <1>1, <1>2, PTL DEF AdmissionSpec

\* Every variable keeps its type.
THEOREM AdmissionType == AdmissionSpec => []AdmissionTypeOK
<1>1. AdmissionInv => AdmissionTypeOK
  BY DEF AdmissionInv
<1> QED BY <1>1, AdmissionInvHolds, PTL

\* No PIN is compared with more than MAX_PIN_ATTEMPTS wrong or missing ones.
THEOREM PinAttemptsBounded == AdmissionSpec => []AttemptsBounded
<1>1. AdmissionInv => AttemptsBounded
  BY DEF AdmissionInv
<1> QED BY <1>1, AdmissionInvHolds, PTL

\* A device is paired only after it was admitted.
THEOREM PairedOnlyIfGranted == AdmissionSpec => []PairedWasGranted
<1>1. AdmissionInv => PairedWasGranted
  BY DEF AdmissionInv
<1> QED BY <1>1, AdmissionInvHolds, PTL

\* A device with a session has a server with that session.
THEOREM NoHalfOpenClient == AdmissionSpec => []ClientHasServer
<1>1. AdmissionInv => ClientHasServer
  BY DEF AdmissionInv
<1> QED BY <1>1, AdmissionInvHolds, PTL

-----------------------------------------------------------------------------
(* SessionTasks: the messages in a queue.                                     *)

\* A queue of one kind holds the messages that follow a, in order.
Numbered(q, a) == \A i \in 1 .. Len(q) : q[i] = a + i

\* The messages of kind k in a queue of several kinds are those numbered a + 1 to b, in that order.
Carries(q, k, a, b) ==
  /\ \A i \in 1 .. Len(q) : q[i].kind = k => q[i].n \in a + 1 .. b
  /\ \A i, j \in 1 .. Len(q) :
        i < j /\ q[i].kind = k /\ q[j].kind = k => q[i].n < q[j].n
  /\ \A n \in a + 1 .. b : \E i \in 1 .. Len(q) : q[i].kind = k /\ q[i].n = n

\* Messages of a link the receiver's inbound channel has been given.
Received(s, k) == got[Other(s)][k] + Len(inbox[Other(s)][k])

\* Messages of a link that its encoder has taken.
Encoded(s, k) == sent[s][k] - Len(appq[s][k])

\* What the inbound channel holds.
InboxInOrder(s, k) ==
  /\ Received(s, k) <= sent[s][k]
  /\ Numbered(inbox[Other(s)][k], got[Other(s)][k])

\* What is still to be written, once b messages are.
QueuesInOrder(s, k, b) ==
  /\ b <= Encoded(s, k)
  /\ Carries(writeq[s], k, b, Encoded(s, k))
  /\ Numbered(appq[s][k], Encoded(s, k))

\* What is on the wire, and behind it as long as there is a writer to send it.
WireInOrder(s, k) ==
  \E b \in Received(s, k) .. sent[s][k] :
     /\ Carries(wire[s], k, Received(s, k), b)
     /\ s \in writer => QueuesInOrder(s, k, b)

\* On a link that still has an inbound task, the messages between the sender and the
\* last one taken are all there, in order, as far as a task is left to pass them on.
Flow(s, k) ==
  k \in inbound[Other(s)] =>
     /\ InboxInOrder(s, k)
     /\ ~broken /\ Other(s) \in reader => WireInOrder(s, k)

Flows == \A s \in Side, k \in Data : Flow(s, k)

-----------------------------------------------------------------------------

\* Queues have room for a message.
LEMMA CapFacts ==
  /\ MaxMsg \in Nat \ {0} /\ AppCap \in Nat \ {0}
  /\ WriteCap \in Nat \ {0} /\ WireCap \in Nat \ {0}
BY CapAssumption

\* Messages are numbered from 1.
LEMMA FrameFacts ==
  /\ \A f \in Frame, k \in Data : f.kind = k => f.n \in 1 .. MaxMsg
  /\ \A f \in Frame : f.kind \in Kind /\ f.n \in 0 .. MaxMsg
  /\ Heartbeat \in Frame /\ GoodBye \in Frame
  /\ \A k \in Data : Heartbeat.kind # k /\ GoodBye.kind # k
BY CtrlAssumption, CapFacts DEF Frame, Kind, Heartbeat, GoodBye

\* Adding the next number to consecutive numbers, or taking the first, leaves
\* consecutive numbers.
LEMMA NumberedFacts ==
  ASSUME NEW S, NEW q \in Seq(S), NEW a \in Int, Numbered(q, a)
  PROVE  /\ Len(q) \in Nat
         /\ \A n \in S : n = a + Len(q) + 1 =>
               Numbered(Append(q, n), a) /\ Len(Append(q, n)) = Len(q) + 1
         /\ q # <<>> => /\ Head(q) = a + 1
                        /\ Numbered(Tail(q), a + 1) /\ Len(Tail(q)) = Len(q) - 1
                        /\ Len(q) >= 1
<1>1. ASSUME NEW n \in S, n = a + Len(q) + 1
      PROVE  Numbered(Append(q, n), a) /\ Len(Append(q, n)) = Len(q) + 1
  <2>1. /\ Len(Append(q, n)) = Len(q) + 1 /\ Len(q) \in Nat
        /\ \A i \in 1 .. Len(q) : Append(q, n)[i] = q[i]
        /\ Append(q, n)[Len(q) + 1] = n
    BY <1>1
  <2> QED BY <1>1, <2>1 DEF Numbered
<1>2. ASSUME q # <<>>
      PROVE  /\ Head(q) = a + 1 /\ Len(q) >= 1
             /\ Numbered(Tail(q), a + 1) /\ Len(Tail(q)) = Len(q) - 1
  <2>1. /\ Len(Tail(q)) = Len(q) - 1 /\ Len(q) \in Nat \ {0} /\ Head(q) = q[1]
        /\ \A i \in 1 .. Len(Tail(q)) : Tail(q)[i] = q[i + 1] /\ i + 1 \in 1 .. Len(q)
    BY <1>2
  <2> QED BY <2>1 DEF Numbered
<1> QED BY <1>1, <1>2

\* An empty queue leads from any number to itself.
LEMMA CarriesNothing == \A k : \A a \in Nat : Carries(<<>>, k, a, a)
BY DEF Carries

\* The next message of k, or any message of another kind, joins the queue.
LEMMA CarriesAppend ==
  ASSUME NEW q \in Seq(Frame), NEW f \in Frame, NEW k \in Data, NEW a \in Nat, NEW b \in Nat,
         a <= b, Carries(q, k, a, b), f.kind = k => f.n = b + 1
  PROVE  Carries(Append(q, f), k, a, IF f.kind = k THEN b + 1 ELSE b)
<1> DEFINE r == Append(q, f)
           c == IF f.kind = k THEN b + 1 ELSE b
<1>1. /\ Len(r) = Len(q) + 1 /\ Len(q) \in Nat
      /\ \A i \in 1 .. Len(q) : r[i] = q[i]
      /\ r[Len(q) + 1] = f
  OBVIOUS
<1>2. c \in Nat /\ b <= c /\ (f.kind = k => f.n = c /\ c = b + 1) /\ (f.kind # k => c = b)
  OBVIOUS
<1> HIDE DEF r, c
<1>3. \A i \in 1 .. Len(r) : r[i].kind = k => r[i].n \in a + 1 .. c
  BY <1>1, <1>2 DEF Carries
<1>4. \A i, j \in 1 .. Len(r) : i < j /\ r[i].kind = k /\ r[j].kind = k => r[i].n < r[j].n
  <2> SUFFICES ASSUME NEW i \in 1 .. Len(r), NEW j \in 1 .. Len(r),
                      i < j, r[i].kind = k, r[j].kind = k
               PROVE  r[i].n < r[j].n
    OBVIOUS
  <2>1. i \in 1 .. Len(q) /\ r[i] = q[i] /\ q[i].n \in a + 1 .. b
    BY <1>1 DEF Carries
  <2>2. CASE j \in 1 .. Len(q)
    BY <1>1, <2>1, <2>2 DEF Carries
  <2>3. CASE j \notin 1 .. Len(q)
    BY SMTT(60), <1>1, <1>2, <2>1, <2>3
  <2> QED BY <2>2, <2>3
<1>5. \A n \in a + 1 .. c : \E i \in 1 .. Len(r) : r[i].kind = k /\ r[i].n = n
  <2> TAKE n \in a + 1 .. c
  <2>1. CASE n \in a + 1 .. b
    <3>1. PICK i \in 1 .. Len(q) : q[i].kind = k /\ q[i].n = n
      BY <2>1 DEF Carries
    <3> QED BY <1>1, <3>1
  <2>2. CASE n \notin a + 1 .. b
    BY <1>1, <1>2, <2>2
  <2> QED BY <2>1, <2>2
<1>6. Carries(r, k, a, c)
  BY <1>3, <1>4, <1>5 DEF Carries
<1> QED BY <1>6 DEF r, c

\* The first message leaves the queue: if it is of kind k, it is the next one.
LEMMA CarriesTail ==
  ASSUME NEW q \in Seq(Frame), NEW k \in Data, NEW a \in Nat, NEW b \in Nat,
         q # <<>>, a <= b, Carries(q, k, a, b)
  PROVE  /\ Head(q).kind = k => Head(q).n = a + 1 /\ a + 1 <= b
         /\ Carries(Tail(q), k, IF Head(q).kind = k THEN a + 1 ELSE a, b)
<1> DEFINE r == Tail(q)
           c == IF Head(q).kind = k THEN a + 1 ELSE a
<1>1. /\ Len(r) = Len(q) - 1 /\ Len(q) \in Nat \ {0}
      /\ \A i \in 1 .. Len(r) : r[i] = q[i + 1] /\ i + 1 \in 1 .. Len(q)
      /\ Head(q) = q[1] /\ 1 \in 1 .. Len(q)
  OBVIOUS
<1>2. c \in Nat /\ (q[1].kind = k => c = a + 1) /\ (q[1].kind # k => c = a)
  BY <1>1
<1>3. \A i \in 1 .. Len(q) : q[i].kind = k => q[i].n \in a + 1 .. b /\ q[i].n \in Nat
  BY DEF Carries
<1>4. q[1].kind = k => q[1].n = a + 1
  <2> HAVE q[1].kind = k
  <2>1. a + 1 \in a + 1 .. b
    BY <1>1, <1>3
  <2>2. PICK i \in 1 .. Len(q) : q[i].kind = k /\ q[i].n = a + 1
    BY <2>1 DEF Carries
  <2>3. i = 1
    BY <1>1, <1>3, <2>2 DEF Carries
  <2> QED BY <2>2, <2>3
<1> HIDE DEF r, c
<1>5. \A i \in 1 .. Len(q) : i # 1 /\ q[i].kind = k => q[i].n \in c + 1 .. b
  BY <1>1, <1>2, <1>3, <1>4 DEF Carries
<1>6. \A i \in 1 .. Len(r) : r[i].kind = k => r[i].n \in c + 1 .. b
  BY <1>1, <1>5
<1>7. \A i, j \in 1 .. Len(r) : i < j /\ r[i].kind = k /\ r[j].kind = k => r[i].n < r[j].n
  <2> TAKE i, j \in 1 .. Len(r)
  <2>1. r[i] = q[i + 1] /\ r[j] = q[j + 1] /\ i + 1 \in 1 .. Len(q) /\ j + 1 \in 1 .. Len(q)
    BY <1>1
  <2>2. i < j => i + 1 < j + 1
    BY <1>1
  <2> QED BY SMTT(60), <2>1, <2>2 DEF Carries
<1>8. \A n \in c + 1 .. b : \E i \in 1 .. Len(r) : r[i].kind = k /\ r[i].n = n
  <2> TAKE n \in c + 1 .. b
  <2>1. PICK i \in 1 .. Len(q) : q[i].kind = k /\ q[i].n = n
    BY <1>2 DEF Carries
  <2>2. i # 1
    BY <1>2, <1>4, <2>1
  <2>3. i - 1 \in 1 .. Len(r) /\ r[i - 1] = q[i]
    BY <1>1, <2>2
  <2> QED BY <2>1, <2>3
<1>9. Carries(r, k, c, b)
  BY <1>6, <1>7, <1>8 DEF Carries
<1> QED BY <1>1, <1>3, <1>4, <1>9 DEF r, c

-----------------------------------------------------------------------------
(* Types and capacities.                                                      *)

\* Adding to a queue with room, and taking from one that is not empty.
LEMMA QueueFacts ==
  ASSUME NEW S, NEW q \in Seq(S), NEW cap \in Nat, Within(q, cap)
  PROVE  /\ \A e \in S : Append(q, e) \in Seq(S)
         /\ \A e \in S : Len(q) < cap => Within(Append(q, e), cap)
         /\ q # <<>> => /\ Tail(q) \in Seq(S) /\ Within(Tail(q), cap)
                        /\ Head(q) \in S
BY DEF Within

\* A queue per side, and a queue per side and kind, all of which keep to their capacity.
Queues(f, S, cap) == f \in [Side -> Seq(S)] /\ \A s \in Side : Within(f[s], cap)

KindQueues(f, K, S, cap) ==
  f \in [Side -> [K -> Seq(S)]] /\ \A s \in Side, k \in K : Within(f[s][k], cap)

\* A queue replaced by one within the capacity leaves all queues within it.
LEMMA QueuesUpdate ==
  ASSUME NEW S, NEW cap \in Nat, NEW f, Queues(f, S, cap),
         NEW s \in Side, NEW q \in Seq(S), Within(q, cap)
  PROVE  Queues([f EXCEPT ![s] = q], S, cap)
BY DEF Queues

\* The same for the queues of a side per kind, one at a time or all emptied.
LEMMA KindQueuesUpdate ==
  ASSUME NEW K, NEW S, NEW cap \in Nat, NEW f, KindQueues(f, K, S, cap), NEW s \in Side
  PROVE  /\ \A k \in K, q \in Seq(S) :
              Within(q, cap) => KindQueues([f EXCEPT ![s][k] = q], K, S, cap)
         /\ KindQueues([f EXCEPT ![s] = [k \in K |-> <<>>]], K, S, cap)
<1>1. <<>> \in Seq(S) /\ Within(<<>>, cap)
  BY DEF Within
<1>2. f \in [Side -> [K -> Seq(S)]] /\ f[s] \in [K -> Seq(S)]
  BY DEF KindQueues
<1>3. ASSUME NEW k \in K, NEW q \in Seq(S), Within(q, cap)
      PROVE  KindQueues([f EXCEPT ![s][k] = q], K, S, cap)
  BY <1>2, <1>3 DEF KindQueues
<1>4. KindQueues([f EXCEPT ![s] = [k \in K |-> <<>>]], K, S, cap)
  BY <1>1, <1>2 DEF KindQueues
<1> QED BY <1>3, <1>4

\* The queues of the session, and everything else that has a type.
Carriers ==
  /\ KindQueues(appq, Data, 1 .. MaxMsg, AppCap)
  /\ Queues(writeq, Frame, WriteCap)
  /\ Queues(wire, Frame, WireCap)
  /\ KindQueues(inbox, Kind, 0 .. MaxMsg, AppCap)

Tasks ==
  /\ sent \in [Side -> [Data -> 0 .. MaxMsg]]
  /\ senders \subseteq Side /\ writer \subseteq Side /\ hb_sender \subseteq Side
  /\ refused \in [Side -> SUBSET Data]
  /\ shutdowner \in [Side -> {"waiting", "signalled", "ended"}]
  /\ broken \in BOOLEAN
  /\ exited \subseteq Side /\ garbled \subseteq Side /\ reader \subseteq Side
  /\ inbound \in [Side -> SUBSET Kind]
  /\ got \in [Side -> [Data -> 0 .. MaxMsg]]
  /\ hb_watchdog \subseteq Side /\ late \subseteq Side

\* The type invariant is in two parts: the queues, and the tasks.
LEMMA TypeParts == TypeOK <=> Carriers /\ Tasks
BY DEF TypeOK, Carriers, Tasks, Queues, KindQueues

\* A session starts with empty queues and all its tasks.
LEMMA TypeInit == Init => Carriers /\ Tasks
<1> SUFFICES ASSUME Init PROVE Carriers /\ Tasks
  OBVIOUS
<1>1. \A S, cap : cap \in Nat => <<>> \in Seq(S) /\ Within(<<>>, cap)
  BY DEF Within
<1>2. \A S : \A cap \in Nat : Queues([s \in Side |-> <<>>], S, cap)
  BY <1>1 DEF Queues
<1>3. \A K, S : \A cap \in Nat : KindQueues([s \in Side |-> [k \in K |-> <<>>]], K, S, cap)
  BY <1>1 DEF KindQueues
<1>4. Carriers
  BY <1>2, <1>3, CapFacts DEF Init, Carriers
<1>5. Tasks
  <2>1. 0 \in 0 .. MaxMsg
    BY CapFacts
  <2>2. /\ sent \in [Side -> [Data -> 0 .. MaxMsg]]
        /\ got \in [Side -> [Data -> 0 .. MaxMsg]]
    BY <2>1 DEF Init
  <2> QED BY <2>2 DEF Init, Tasks
<1> QED BY <1>4, <1>5

\* Every step keeps the queues typed and within their capacities.
LEMMA CarriersStep == Carriers /\ Tasks /\ [Next]_vars => Carriers'
<1> SUFFICES ASSUME Carriers, Tasks, [Next]_vars PROVE Carriers'
  OBVIOUS
<1> USE DEF sendVars, writeVars, readVars, netVars, taskVars, watchVars
<1>q. /\ \A s \in Side, k \in Data : appq[s][k] \in Seq(1 .. MaxMsg) /\ Within(appq[s][k], AppCap)
      /\ \A s \in Side, k \in Kind : inbox[s][k] \in Seq(0 .. MaxMsg) /\ Within(inbox[s][k], AppCap)
      /\ \A s \in Side : writeq[s] \in Seq(Frame) /\ Within(writeq[s], WriteCap)
      /\ \A s \in Side : wire[s] \in Seq(Frame) /\ Within(wire[s], WireCap)
  BY DEF Carriers, Queues, KindQueues
<1>e. \A S : <<>> \in Seq(S) /\ Within(<<>>, AppCap) /\ Within(<<>>, WriteCap) /\ Within(<<>>, WireCap)
  BY CapFacts DEF Within
<1>0. \A s \in Side : Other(s) \in Side
  BY DEF Side, Other
<1>1. ASSUME NEW s \in Side, NEW k \in Data, Send(s, k) PROVE Carriers'
  <2>1. sent'[s][k] \in 1 .. MaxMsg
    BY <1>1, CapFacts DEF Send, Tasks
  <2>2. KindQueues([appq EXCEPT ![s][k] = Append(@, sent'[s][k])], Data, 1 .. MaxMsg, AppCap)
    BY <1>q, <1>1, <2>1, CapFacts, QueueFacts, KindQueuesUpdate DEF Carriers, Send
  <2> QED BY <1>1, <2>2 DEF Carriers, Send
<1>2. ASSUME NEW s \in Side, NEW k \in Data, Encode(s, k) PROVE Carriers'
  <2> DEFINE f == [kind |-> k, n |-> Head(appq[s][k])]
  <2>1. f \in Frame
    <3>1. Head(appq[s][k]) \in 1 .. MaxMsg
      BY <1>q, <1>2, CapFacts, QueueFacts DEF Encode
    <3> QED BY <3>1 DEF Frame
  <2>2. Queues([writeq EXCEPT ![s] = Append(@, f)], Frame, WriteCap)
    BY <1>q, <1>2, <2>1, CapFacts, QueueFacts, QueuesUpdate DEF Carriers, Encode
  <2>3. KindQueues([appq EXCEPT ![s][k] = Tail(@)], Data, 1 .. MaxMsg, AppCap)
    BY <1>q, <1>2, CapFacts, QueueFacts, KindQueuesUpdate DEF Carriers, Encode
  <2> QED BY <1>2, <2>2, <2>3 DEF Carriers, Encode
<1>3. ASSUME NEW s \in Side, NEW k \in Data, EncodeRefused(s, k) PROVE Carriers'
  <2>1. KindQueues([appq EXCEPT ![s][k] = <<>>], Data, 1 .. MaxMsg, AppCap)
    BY <1>e, CapFacts, KindQueuesUpdate DEF Carriers
  <2> QED BY <1>3, <2>1 DEF Carriers, EncodeRefused
<1>4. ASSUME NEW s \in Side, NEW k \in Kind, inbox[s][k] # <<>>
      PROVE  KindQueues([inbox EXCEPT ![s][k] = Tail(@)], Kind, 0 .. MaxMsg, AppCap)
  BY <1>q, <1>4, CapFacts, QueueFacts, KindQueuesUpdate DEF Carriers
<1>5. ASSUME NEW s \in Side, NEW k \in Data, Consume(s, k) PROVE Carriers'
  BY <1>4, <1>5 DEF Carriers, Consume, Kind
<1>6. ASSUME NEW s \in Side, NEW k \in Kind, InboundEnds(s, k) PROVE Carriers'
  <2>1. KindQueues([inbox EXCEPT ![s][k] = <<>>], Kind, 0 .. MaxMsg, AppCap)
    BY <1>e, CapFacts, KindQueuesUpdate DEF Carriers
  <2> QED BY <1>6, <2>1 DEF Carriers, InboundEnds
<1>7. \A s \in Side : Queues([writeq EXCEPT ![s] = <<>>], Frame, WriteCap)
  BY <1>e, CapFacts, QueuesUpdate DEF Carriers
<1>8. ASSUME NEW s \in Side, WriterEnds(s) PROVE Carriers'
  BY <1>7, <1>8 DEF Carriers, WriterEnds
<1>9. ASSUME NEW s \in Side, Write(s) PROVE Carriers'
  <2>1. Queues([writeq EXCEPT ![s] = Tail(@)], Frame, WriteCap)
    BY <1>q, <1>9, CapFacts, QueueFacts, QueuesUpdate DEF Carriers, Write
  <2>2. Head(writeq[s]) \in Frame
    BY <1>q, <1>9, CapFacts, QueueFacts DEF Write
  <2>3. Queues([wire EXCEPT ![s] = Append(@, Head(writeq[s]))], Frame, WireCap)
    BY <1>q, <1>9, <2>2, CapFacts, QueueFacts, QueuesUpdate DEF Carriers, Write
  <2> QED BY <1>9, <2>1, <2>3 DEF Carriers, Write
<1>10. ASSUME NEW s \in Side, NEW f \in Frame, Len(writeq[s]) < WriteCap
       PROVE  Queues([writeq EXCEPT ![s] = Append(@, f)], Frame, WriteCap)
  BY <1>q, <1>10, CapFacts, QueueFacts, QueuesUpdate DEF Carriers
<1>11. ASSUME NEW s \in Side, SayGoodBye(s) PROVE Carriers'
  BY <1>10, <1>11, FrameFacts DEF Carriers, SayGoodBye
<1>12. ASSUME NEW s \in Side, Beat(s) PROVE Carriers'
  BY <1>10, <1>12, FrameFacts DEF Carriers, Beat
<1>13. ASSUME NEW s \in Side, Read(s) PROVE Carriers'
  <2> DEFINE f == Head(wire[Other(s)])
  <2>1. f \in Frame
    BY <1>q, <1>0, <1>13, CapFacts, QueueFacts DEF Read
  <2> HIDE DEF f
  <2>2. f.kind \in Kind /\ f.n \in 0 .. MaxMsg
    BY <2>1, FrameFacts
  <2>3. Queues([wire EXCEPT ![Other(s)] = Tail(@)], Frame, WireCap)
    BY <1>q, <1>0, <1>13, CapFacts, QueueFacts, QueuesUpdate DEF Carriers, Read
  <2>4. Len(inbox[s][f.kind]) < AppCap
          => KindQueues([inbox EXCEPT ![s][f.kind] = Append(@, f.n)], Kind, 0 .. MaxMsg, AppCap)
    <3>1. ASSUME NEW k \in Kind, NEW n \in 0 .. MaxMsg, Len(inbox[s][k]) < AppCap
          PROVE  KindQueues([inbox EXCEPT ![s][k] = Append(@, n)], Kind, 0 .. MaxMsg, AppCap)
      BY <1>q, <3>1, CapFacts, QueueFacts, KindQueuesUpdate DEF Carriers
    <3> QED BY <2>2, <3>1
  <2>5. inbox' = inbox \/ (/\ Len(inbox[s][f.kind]) < AppCap
                           /\ inbox' = [inbox EXCEPT ![s][f.kind] = Append(@, f.n)])
    BY <1>13 DEF Read, f
  <2>6. KindQueues(inbox', Kind, 0 .. MaxMsg, AppCap)
    BY <2>4, <2>5 DEF Carriers
  <2> QED BY <1>13, <2>3, <2>6 DEF Carriers, Read
<1>14. ASSUME NEW s \in Side, ConsumeHeartbeat(s) PROVE Carriers'
  BY <1>4, <1>14 DEF Carriers, ConsumeHeartbeat, Kind
<1>15. ASSUME NEW s \in Side, ReaderEnds(s) \/ ReaderGivesUp(s) \/ BeatsLate(s) \/ Watchdog(s)
       PROVE  Carriers'
  BY <1>15 DEF Carriers, ReaderEnds, ReaderGivesUp, BeatsLate, Watchdog
<1>16. \A s \in Side : KindQueues([inbox EXCEPT ![s] = [k \in Kind |-> <<>>]], Kind, 0 .. MaxMsg, AppCap)
  BY CapFacts, KindQueuesUpdate DEF Carriers
<1>17. ASSUME NEW s \in Side, Shutdown(s) PROVE Carriers'
  BY <1>16, <1>17 DEF Carriers, Shutdown
<1>18. ASSUME NEW s \in Side, Exit(s) PROVE Carriers'
  <2>1. KindQueues([appq EXCEPT ![s] = [k \in Data |-> <<>>]], Data, 1 .. MaxMsg, AppCap)
    BY CapFacts, KindQueuesUpdate DEF Carriers
  <2>2. Queues([wire EXCEPT ![Other(s)] = <<>>], Frame, WireCap)
    BY <1>e, <1>0, CapFacts, QueuesUpdate DEF Carriers
  <2> QED BY <1>7, <1>16, <1>18, <2>1, <2>2 DEF Carriers, Exit
<1>19. CASE Break
  <2>1. Queues(wire', Frame, WireCap)
    BY <1>e, <1>19 DEF Break, Queues
  <2> QED BY <1>19, <2>1 DEF Carriers, Break
<1>20. CASE UNCHANGED vars
  BY <1>20 DEF Carriers, vars
<1>21. ASSUME NEW s \in Side, ConsumeGoodBye(s) PROVE Carriers'
  BY <1>6, <1>21 DEF ConsumeGoodBye, Kind
<1>22. ASSUME NEW s \in Side, NEW k \in Kind, InboundDrained(s, k) PROVE Carriers'
  BY <1>6, <1>22 DEF InboundDrained
<1> QED
  BY <1>1, <1>2, <1>3, <1>5, <1>8, <1>9, <1>11, <1>12, <1>13, <1>14, <1>15, <1>17, <1>18,
     <1>19, <1>20, <1>21, <1>22 DEF Next, Outgoing, Incoming, Timers

\* Every step keeps the rest typed.
LEMMA TasksStep == Carriers /\ Tasks /\ [Next]_vars => Tasks'
<1> SUFFICES ASSUME Carriers, Tasks, [Next]_vars PROVE Tasks'
  OBVIOUS
<1> USE DEF sendVars, writeVars, readVars, netVars, taskVars, watchVars
<1>1. ASSUME NEW s \in Side, NEW k \in Data, Send(s, k) PROVE Tasks'
  BY <1>1, CapFacts DEF Send, Tasks
<1>2. ASSUME NEW s \in Side, NEW k \in Data, Encode(s, k) PROVE Tasks'
  BY <1>2 DEF Encode, Tasks
<1>3. ASSUME NEW s \in Side, NEW k \in Data, EncodeRefused(s, k) PROVE Tasks'
  BY <1>3 DEF EncodeRefused, Tasks
<1>4. ASSUME NEW s \in Side, NEW k \in Data, Consume(s, k) PROVE Tasks'
  <2>1. k \in Kind /\ inbox[s][k] \in Seq(0 .. MaxMsg) /\ Within(inbox[s][k], AppCap)
    BY DEF Carriers, KindQueues, Kind
  <2>2. Head(inbox[s][k]) \in 0 .. MaxMsg
    BY <1>4, <2>1, CapFacts, QueueFacts DEF Consume
  <2> QED BY <1>4, <2>2 DEF Consume, Tasks
<1>5. ASSUME NEW s \in Side PROVE Signalled(s) => shutdowner' \in [Side -> {"waiting", "signalled", "ended"}]
  BY DEF Signalled, Tasks
<1>6. ASSUME NEW s \in Side, NEW k \in Kind, InboundEnds(s, k) PROVE Tasks'
  BY <1>5, <1>6 DEF InboundEnds, OnClose, Tasks
<1>7. ASSUME NEW s \in Side, WriterEnds(s) \/ Write(s) \/ SayGoodBye(s) \/ Beat(s) PROVE Tasks'
  BY <1>7 DEF WriterEnds, Write, SayGoodBye, Beat, Tasks
<1>8. ASSUME NEW s \in Side, Read(s) \/ ReaderEnds(s) \/ ReaderGivesUp(s) \/ ConsumeHeartbeat(s)
      PROVE  Tasks'
  BY <1>8 DEF Read, ReaderEnds, ReaderGivesUp, ConsumeHeartbeat, Tasks
<1>9. ASSUME NEW s \in Side, BeatsLate(s) \/ Watchdog(s) PROVE Tasks'
  BY <1>9 DEF BeatsLate, Watchdog, Tasks
<1>10. ASSUME NEW s \in Side, Shutdown(s) PROVE Tasks'
  BY <1>5, <1>10 DEF Shutdown, Tasks
<1>11. ASSUME NEW s \in Side, Exit(s) PROVE Tasks'
  BY <1>11 DEF Exit, Tasks
<1>12. CASE Break
  BY <1>12 DEF Break, Tasks
<1>13. CASE UNCHANGED vars
  BY <1>13 DEF vars, Tasks
<1> QED
  BY <1>1, <1>2, <1>3, <1>4, <1>6, <1>7, <1>8, <1>9, <1>10, <1>11, <1>12, <1>13
  DEF Next, Outgoing, Incoming, Timers, ConsumeGoodBye, InboundDrained, Kind

\* Queues stay within their capacities and hold the frames of their kinds, in any
\* order of sends, failures and ends of the tasks (session.rs Session::start).
THEOREM TypeOKHolds == Spec => []TypeOK
<1>1. Init => Carriers /\ Tasks
  BY TypeInit
<1>2. Carriers /\ Tasks /\ [Next]_vars => Carriers' /\ Tasks'
  BY CarriersStep, TasksStep
<1>3. Carriers /\ Tasks => TypeOK
  BY TypeParts
<1> QED BY <1>1, <1>2, <1>3, PTL DEF Spec

-----------------------------------------------------------------------------
(* Order on the links.                                                        *)

\* The other side of the other side is the side itself.
LEMMA SideFacts ==
  \A s \in Side : /\ Other(s) \in Side /\ Other(s) # s /\ Other(Other(s)) = s
                  /\ \A t \in Side : Other(t) = Other(s) <=> t = s
BY DEF Side, Other

\* The parts of a link, typed.
LEMMA LinkFacts ==
  ASSUME Carriers, Tasks, NEW s \in Side, NEW k \in Data
  PROVE  /\ sent[s][k] \in Nat /\ got[Other(s)][k] \in Nat
         /\ appq[s][k] \in Seq(1 .. MaxMsg) /\ Len(appq[s][k]) \in Nat
         /\ writeq[s] \in Seq(Frame) /\ wire[s] \in Seq(Frame)
         /\ inbox[Other(s)][k] \in Seq(0 .. MaxMsg) /\ Len(inbox[Other(s)][k]) \in Nat
BY SideFacts DEF Carriers, Tasks, Queues, KindQueues, Kind

\* Nothing happens on the link but the loss of its last part.
Trimmed(s, k) ==
  /\ sent'[s][k] = sent[s][k] /\ got'[Other(s)][k] = got[Other(s)][k]
  /\ k \in inbound'[Other(s)] =>
       /\ k \in inbound[Other(s)]
       /\ inbox'[Other(s)][k] = inbox[Other(s)][k]
       /\ ~broken' /\ Other(s) \in reader' =>
            /\ ~broken /\ Other(s) \in reader
            /\ wire'[s] = wire[s]
            /\ s \in writer' => /\ s \in writer
                                /\ writeq'[s] = writeq[s]
                                /\ appq'[s][k] = appq[s][k]

\* A link that only loses what is under way at its end keeps its numbers consecutive.
LEMMA FlowTrimmed ==
  ASSUME NEW s \in Side, NEW k \in Data, Flow(s, k), Trimmed(s, k)
  PROVE  Flow(s, k)'
<1> SUFFICES ASSUME k \in inbound'[Other(s)]
             PROVE  /\ InboxInOrder(s, k)'
                    /\ ~broken' /\ Other(s) \in reader' => WireInOrder(s, k)'
  BY DEF Flow
<1>1. InboxInOrder(s, k)' /\ Received(s, k)' = Received(s, k)
  BY DEF Flow, Trimmed, InboxInOrder, Received
<1>2. ASSUME ~broken', Other(s) \in reader' PROVE WireInOrder(s, k)'
  <2>1. PICK b \in Received(s, k) .. sent[s][k] :
           /\ Carries(wire[s], k, Received(s, k), b)
           /\ s \in writer => QueuesInOrder(s, k, b)
    BY <1>2 DEF Flow, Trimmed, WireInOrder
  <2>2. s \in writer' => QueuesInOrder(s, k, b)'
    BY <1>2, <2>1 DEF Trimmed, QueuesInOrder, Encoded
  <2> QED BY <1>1, <1>2, <2>1, <2>2 DEF Trimmed, WireInOrder
<1> QED BY <1>1, <1>2

\* The application's message is the next one of its channel.
LEMMA FlowSend ==
  ASSUME Carriers, Tasks, NEW s \in Side, NEW k \in Data, Flow(s, k), Send(s, k)
  PROVE  Flow(s, k)'
<1>0. /\ sent[s][k] \in Nat /\ got[Other(s)][k] \in Nat
      /\ appq[s][k] \in Seq(1 .. MaxMsg) /\ Len(appq[s][k]) \in Nat
      /\ writeq[s] \in Seq(Frame) /\ wire[s] \in Seq(Frame)
      /\ Len(inbox[Other(s)][k]) \in Nat
  BY LinkFacts
<1>t. sent \in [Side -> [Data -> 0 .. MaxMsg]] /\ appq \in [Side -> [Data -> Seq(1 .. MaxMsg)]]
  BY DEF Carriers, Tasks, KindQueues
<1>1. /\ sent'[s][k] = sent[s][k] + 1
      /\ sent[s][k] + 1 \in 1 .. MaxMsg
      /\ appq'[s][k] = Append(appq[s][k], sent[s][k] + 1)
      /\ UNCHANGED <<got, inbox, inbound, broken, reader, wire, writer, writeq>>
  <2>1. sent'[s][k] = sent[s][k] + 1 /\ sent[s][k] + 1 \in 1 .. MaxMsg
    BY <1>t, CapFacts DEF Send
  <2>2. appq'[s][k] = Append(appq[s][k], sent'[s][k])
    BY <1>t DEF Send
  <2>3. UNCHANGED <<got, inbox, inbound, broken, reader, wire, writer, writeq>>
    BY DEF Send, writeVars, readVars, taskVars, netVars
  <2> QED BY <2>1, <2>2, <2>3
<1>2. Received(s, k)' = Received(s, k) /\ Encoded(s, k)' = Encoded(s, k) /\ Encoded(s, k) \in Int
  <2>1. Len(appq'[s][k]) = Len(appq[s][k]) + 1
    BY <1>0, <1>1, AppendProperties
  <2>2. Encoded(s, k)' = Encoded(s, k) /\ Encoded(s, k) \in Int
    <3>1. /\ sent'[s][k] = sent[s][k] + 1 /\ sent[s][k] \in Nat
          /\ Len(appq[s][k]) \in Nat
      BY <1>0, <1>1
    <3> QED BY SMTT(30), <2>1, <3>1 DEF Encoded
  <2>3. Received(s, k)' = Received(s, k)
    BY <1>1 DEF Received
  <2> QED BY <2>2, <2>3
<1>3. ASSUME NEW b \in Nat, QueuesInOrder(s, k, b) PROVE QueuesInOrder(s, k, b)'
  <2>1. Numbered(appq[s][k], Encoded(s, k)) /\ Encoded(s, k) + Len(appq[s][k]) = sent[s][k]
    BY <1>0, <1>3 DEF QueuesInOrder, Encoded
  <2>2. Numbered(appq'[s][k], Encoded(s, k))
    BY <1>0, <1>1, <1>2, <2>1, NumberedFacts
  <2> QED BY <1>1, <1>2, <1>3, <2>2 DEF QueuesInOrder
<1>4. InboxInOrder(s, k) => InboxInOrder(s, k)'
  BY <1>0, <1>1, <1>2 DEF InboxInOrder, Received
<1>5. WireInOrder(s, k) => WireInOrder(s, k)'
  <2> HAVE WireInOrder(s, k)
  <2>1. PICK b \in Received(s, k) .. sent[s][k] :
           /\ Carries(wire[s], k, Received(s, k), b)
           /\ s \in writer => QueuesInOrder(s, k, b)
    BY DEF WireInOrder
  <2>2. b \in Nat /\ b \in Received(s, k)' .. sent'[s][k]
    BY <1>0, <1>1, <1>2 DEF Received
  <2> QED BY <1>1, <1>2, <1>3, <2>1, <2>2 DEF WireInOrder
<1> QED BY <1>1, <1>4, <1>5 DEF Flow

\* The encoder moves the next message to the write channel.
LEMMA FlowEncode ==
  ASSUME Carriers, Tasks, NEW s \in Side, NEW k \in Data, Flow(s, k),
         NEW j \in Data, Encode(s, j)
  PROVE  Flow(s, k)'
<1>0. /\ sent[s][k] \in Nat /\ got[Other(s)][k] \in Nat
      /\ appq[s][k] \in Seq(1 .. MaxMsg) /\ Len(appq[s][k]) \in Nat
      /\ writeq[s] \in Seq(Frame) /\ wire[s] \in Seq(Frame)
      /\ Len(inbox[Other(s)][k]) \in Nat
  BY LinkFacts
<1> DEFINE f == [kind |-> j, n |-> Head(appq[s][j])]
<1>1. /\ writeq'[s] = Append(writeq[s], f)
      /\ appq'[s][j] = Tail(appq[s][j]) /\ appq[s][j] # <<>>
      /\ k # j => appq'[s][k] = appq[s][k]
      /\ s \in writer
      /\ UNCHANGED <<sent, got, inbox, inbound, broken, reader, wire, writer>>
  BY DEF Encode, Carriers, Queues, KindQueues, sendVars, writeVars, readVars, taskVars, netVars
<1>2. f \in Frame
  <2>1. appq[s][j] \in Seq(1 .. MaxMsg)
    BY DEF Carriers, KindQueues
  <2>2. Head(appq[s][j]) \in 1 .. MaxMsg
    BY <1>1, <2>1, HeadTailProperties
  <2> QED BY <2>2 DEF Frame
<1>3. Received(s, k)' = Received(s, k) /\ Encoded(s, k) \in Int
  BY <1>0, <1>1 DEF Received, Encoded
<1>4. ASSUME NEW b \in Nat, QueuesInOrder(s, k, b) PROVE QueuesInOrder(s, k, b)'
  <2>1. b <= Encoded(s, k) /\ Encoded(s, k) \in Nat
    BY <1>3, <1>4 DEF QueuesInOrder
  <2>2. CASE k = j
    <3>1. /\ f.n = Encoded(s, k) + 1
          /\ Numbered(appq'[s][k], Encoded(s, k) + 1) /\ Len(appq'[s][k]) = Len(appq[s][k]) - 1
      BY ZenonT(90), <1>0, <1>1, <1>3, <1>4, <2>2, NumberedFacts DEF QueuesInOrder
    <3>2. Encoded(s, k)' = Encoded(s, k) + 1
      <4>1. sent' = sent /\ Len(appq'[s][k]) = Len(appq[s][k]) - 1
        BY <1>1, <3>1
      <4> HIDE DEF f
      <4> QED BY SMTT(60), <1>0, <4>1 DEF Encoded
    <3> HIDE DEF f
    <3>3. Carries(Append(writeq[s], f), k, b, Encoded(s, k) + 1)
      <4>1. f.kind = k
        BY <2>2 DEF f
      <4> QED BY <1>0, <1>2, <1>4, <2>1, <3>1, <4>1, CarriesAppend DEF QueuesInOrder
    <3> QED BY <1>1, <2>1, <3>1, <3>2, <3>3 DEF QueuesInOrder
  <2>3. CASE k # j
    <3>1. f.kind # k
      BY <2>3
    <3> HIDE DEF f
    <3>2. Carries(Append(writeq[s], f), k, b, Encoded(s, k))
      BY <1>0, <1>2, <1>4, <2>1, <3>1, CarriesAppend DEF QueuesInOrder
    <3> QED BY <1>1, <1>4, <2>3, <3>2 DEF QueuesInOrder, Encoded
  <2> QED BY <2>2, <2>3
<1>5. WireInOrder(s, k) => WireInOrder(s, k)'
  <2> HAVE WireInOrder(s, k)
  <2>1. PICK b \in Received(s, k) .. sent[s][k] :
           /\ Carries(wire[s], k, Received(s, k), b)
           /\ s \in writer => QueuesInOrder(s, k, b)
    BY DEF WireInOrder
  <2>2. b \in Nat
    BY <1>0 DEF Received
  <2> QED BY <1>1, <1>3, <1>4, <2>1, <2>2 DEF WireInOrder
<1> QED BY <1>1, <1>3, <1>5 DEF Flow, InboxInOrder

\* A heartbeat or a GoodBye joins the write channel.
LEMMA FlowControl ==
  ASSUME Carriers, Tasks, NEW s \in Side, NEW k \in Data, Flow(s, k),
         NEW f \in {Heartbeat, GoodBye}, writeq' = [writeq EXCEPT ![s] = Append(@, f)],
         UNCHANGED <<sent, appq, got, inbox, inbound, broken, reader, wire, writer>>
  PROVE  Flow(s, k)'
<1>0. /\ sent[s][k] \in Nat /\ got[Other(s)][k] \in Nat
      /\ Len(appq[s][k]) \in Nat /\ Len(inbox[Other(s)][k]) \in Nat
      /\ writeq[s] \in Seq(Frame)
  BY LinkFacts
<1>1. f \in Frame /\ f.kind # k
  BY FrameFacts
<1>2. writeq'[s] = Append(writeq[s], f)
  BY DEF Carriers, Queues
<1>3. Received(s, k)' = Received(s, k) /\ Encoded(s, k)' = Encoded(s, k) /\ Encoded(s, k) \in Int
  BY <1>0 DEF Received, Encoded
<1>4. ASSUME NEW b \in Nat, QueuesInOrder(s, k, b) PROVE QueuesInOrder(s, k, b)'
  <2>1. b <= Encoded(s, k) /\ Encoded(s, k) \in Nat
    BY <1>3, <1>4 DEF QueuesInOrder
  <2>2. Carries(Append(writeq[s], f), k, b, Encoded(s, k))
    BY <1>0, <1>1, <1>4, <2>1, CarriesAppend DEF QueuesInOrder
  <2> QED BY <1>2, <1>3, <1>4, <2>2 DEF QueuesInOrder
<1>5. WireInOrder(s, k) => WireInOrder(s, k)'
  <2> HAVE WireInOrder(s, k)
  <2>1. PICK b \in Received(s, k) .. sent[s][k] :
           /\ Carries(wire[s], k, Received(s, k), b)
           /\ s \in writer => QueuesInOrder(s, k, b)
    BY DEF WireInOrder
  <2>2. b \in Nat
    BY <1>0 DEF Received
  <2> QED BY <1>3, <1>4, <2>1, <2>2 DEF WireInOrder
<1> QED BY <1>3, <1>5 DEF Flow, InboxInOrder

\* The writer moves the first frame of the write channel to the wire.
LEMMA FlowWrite ==
  ASSUME Carriers, Tasks, NEW s \in Side, NEW k \in Data, Flow(s, k), Write(s)
  PROVE  Flow(s, k)'
<1>0. /\ sent[s][k] \in Nat /\ got[Other(s)][k] \in Nat
      /\ Len(appq[s][k]) \in Nat /\ Len(inbox[Other(s)][k]) \in Nat
      /\ writeq[s] \in Seq(Frame) /\ wire[s] \in Seq(Frame)
  BY LinkFacts
<1> DEFINE f == Head(writeq[s])
<1>1. /\ wire'[s] = Append(wire[s], f) /\ writeq'[s] = Tail(writeq[s]) /\ writeq[s] # <<>>
      /\ s \in writer
      /\ UNCHANGED <<sent, appq, got, inbox, inbound, broken, reader, writer>>
  BY DEF Write, Carriers, Queues, sendVars, readVars, taskVars, netVars
<1>2. f \in Frame
  BY <1>0, <1>1, HeadTailProperties
<1>3. Received(s, k)' = Received(s, k) /\ Encoded(s, k)' = Encoded(s, k)
  BY <1>1 DEF Received, Encoded
<1>4. Received(s, k) \in Nat /\ Encoded(s, k) \in Int /\ Encoded(s, k) <= sent[s][k]
  BY <1>0 DEF Received, Encoded
<1>5. WireInOrder(s, k) => WireInOrder(s, k)'
  <2> HAVE WireInOrder(s, k)
  <2>1. PICK b \in Received(s, k) .. sent[s][k] :
           /\ Carries(wire[s], k, Received(s, k), b)
           /\ s \in writer => QueuesInOrder(s, k, b)
    BY DEF WireInOrder
  <2>2. b \in Nat /\ Received(s, k) <= b /\ QueuesInOrder(s, k, b)
    BY <1>0, <1>1, <1>4, <2>1
  <2> PICK c \in Nat : c = IF f.kind = k THEN b + 1 ELSE b
    BY <2>2
  <2>3. /\ f.kind = k => f.n = b + 1 /\ b + 1 <= Encoded(s, k)
        /\ Carries(Tail(writeq[s]), k, c, Encoded(s, k))
    <3>1. Encoded(s, k) \in Nat /\ b <= Encoded(s, k) /\ Carries(writeq[s], k, b, Encoded(s, k))
      BY <1>4, <2>2 DEF QueuesInOrder
    <3> QED BY <1>0, <1>1, <2>2, <3>1, CarriesTail
  <2>4. Carries(Append(wire[s], f), k, Received(s, k), c)
    <3> HIDE DEF f
    <3> QED BY <1>0, <1>2, <1>4, <2>1, <2>2, <2>3, CarriesAppend
  <2>5. c \in Received(s, k) .. sent[s][k] /\ c <= Encoded(s, k)
    <3>1. b <= Encoded(s, k)
      BY <2>2 DEF QueuesInOrder
    <3> HIDE DEF f
    <3> QED BY <1>0, <1>4, <2>2, <2>3, <3>1
  <2>6. QueuesInOrder(s, k, c)'
    BY <1>1, <1>3, <2>2, <2>3, <2>5 DEF QueuesInOrder
  <2> QED BY <1>1, <1>3, <2>4, <2>5, <2>6 DEF WireInOrder
<1> QED BY <1>1, <1>3, <1>5 DEF Flow, InboxInOrder

\* The reader moves the first frame of the wire to the inbound channel of its kind.
LEMMA FlowRead ==
  ASSUME Carriers, Tasks, NEW s \in Side, NEW k \in Data, Flow(s, k), Read(Other(s))
  PROVE  Flow(s, k)'
<1> DEFINE o == Other(s)
           f == Head(wire[s])
<1>0. /\ sent[s][k] \in Nat /\ got[o][k] \in Nat
      /\ Len(appq[s][k]) \in Nat /\ Len(inbox[o][k]) \in Nat
      /\ wire[s] \in Seq(Frame) /\ inbox[o][k] \in Seq(0 .. MaxMsg)
  BY LinkFacts
<1>1. /\ wire'[s] = Tail(wire[s]) /\ wire[s] # <<>>
      /\ inbox' = IF f.kind \in inbound[o] THEN [inbox EXCEPT ![o][f.kind] = Append(@, f.n)]
                  ELSE inbox
      /\ ~broken /\ o \in reader
      /\ UNCHANGED <<sent, appq, got, inbound, broken, reader, writer, writeq>>
  BY SideFacts DEF Read, Carriers, Queues, sendVars, writeVars, taskVars, netVars
<1>2. f \in Frame /\ inbox \in [Side -> [Kind -> Seq(0 .. MaxMsg)]] /\ o \in Side /\ k \in Kind
  BY <1>0, <1>1, HeadTailProperties, SideFacts DEF Carriers, KindQueues, Kind
<1> HIDE DEF f, o
<1> SUFFICES ASSUME k \in inbound[o]
             PROVE  InboxInOrder(s, k)' /\ WireInOrder(s, k)'
  BY <1>1 DEF Flow, o
<1>3. /\ Received(s, k) <= sent[s][k] /\ Numbered(inbox[o][k], got[o][k])
      /\ Received(s, k) = got[o][k] + Len(inbox[o][k])
  BY <1>1 DEF Flow, InboxInOrder, Received, o
<1>4. PICK b \in Received(s, k) .. sent[s][k] :
         /\ Carries(wire[s], k, Received(s, k), b)
         /\ s \in writer => QueuesInOrder(s, k, b)
  BY <1>1 DEF Flow, WireInOrder, o
<1> DEFINE a == IF f.kind = k THEN Received(s, k) + 1 ELSE Received(s, k)
<1>5. b \in Nat /\ Received(s, k) \in Nat /\ Received(s, k) <= b
  BY <1>0, <1>3, <1>4
<1>6. /\ f.kind = k => f.n = Received(s, k) + 1 /\ Received(s, k) + 1 <= b
      /\ Carries(Tail(wire[s]), k, a, b)
  BY <1>0, <1>1, <1>4, <1>5, CarriesTail DEF f
<1>7. Numbered(inbox'[o][k], got[o][k]) /\ got[o][k] + Len(inbox'[o][k]) = a
  <2>1. CASE f.kind = k
    <3>1. PICK n \in 0 .. MaxMsg : n = f.n /\ n = got[o][k] + Len(inbox[o][k]) + 1
      BY <1>2, <1>3, <1>6, <2>1, FrameFacts
    <3>2. inbox'[o][k] = Append(inbox[o][k], n)
      BY <1>1, <1>2, <2>1, <3>1
    <3>3. /\ Numbered(Append(inbox[o][k], n), got[o][k])
          /\ Len(Append(inbox[o][k], n)) = Len(inbox[o][k]) + 1
      <4>1. got[o][k] \in Int /\ Numbered(inbox[o][k], got[o][k])
        BY <1>0, <1>3
      <4> QED BY <1>0, <3>1, <4>1, NumberedFacts
    <3>4. a = got[o][k] + Len(inbox[o][k]) + 1
      BY <1>3, <2>1
    <3> HIDE DEF a
    <3>5. got[o][k] + Len(inbox'[o][k]) = a
      <4>1. Len(inbox'[o][k]) = Len(inbox[o][k]) + 1
        BY <3>2, <3>3
      <4>2. got[o][k] \in Nat /\ Len(inbox[o][k]) \in Nat
        BY <1>0
      <4> QED BY <3>4, <4>1, <4>2
    <3> QED BY <3>2, <3>3, <3>5
  <2>2. CASE f.kind # k
    BY <1>1, <1>2, <1>3, <2>2
  <2> QED BY <2>1, <2>2
<1>8. a \in Nat /\ a <= b /\ b <= sent[s][k]
  BY <1>0, <1>4, <1>5, <1>6
<1> HIDE DEF a
<1>9. Received(s, k)' = a
  BY <1>1, <1>7 DEF Received, o
<1>10. InboxInOrder(s, k)'
  BY <1>0, <1>1, <1>7, <1>8, <1>9 DEF InboxInOrder, o
<1>11. s \in writer => QueuesInOrder(s, k, b)'
  BY <1>1, <1>4 DEF QueuesInOrder, Encoded
<1>12. WireInOrder(s, k)'
  BY <1>0, <1>1, <1>5, <1>6, <1>8, <1>9, <1>11 DEF WireInOrder
<1> QED BY <1>10, <1>12

\* The inbound task takes the next message.
LEMMA NextIsTaken ==
  ASSUME Carriers, Tasks, NEW s \in Side, NEW k \in Data, Flow(s, k), Consume(Other(s), k)
  PROVE  /\ got[Other(s)][k] < sent[s][k]
         /\ Head(inbox[Other(s)][k]) = got[Other(s)][k] + 1
         /\ got' = [got EXCEPT ![Other(s)][k] = @ + 1]
         /\ Flow(s, k)'
<1> DEFINE o == Other(s)
<1>0. /\ sent[s][k] \in Nat /\ got[o][k] \in Nat
      /\ Len(inbox[o][k]) \in Nat /\ inbox[o][k] \in Seq(0 .. MaxMsg)
  BY LinkFacts
<1>1. /\ k \in inbound[o] /\ inbox[o][k] # <<>>
      /\ inbox'[o][k] = Tail(inbox[o][k])
      /\ got' = [got EXCEPT ![o][k] = Head(inbox[o][k])]
      /\ UNCHANGED <<sent, appq, inbound, broken, reader, writer, writeq, wire>>
  BY SideFacts DEF Consume, Carriers, KindQueues, Kind, sendVars, writeVars, netVars
<1>2. /\ Received(s, k) <= sent[s][k] /\ Numbered(inbox[o][k], got[o][k])
      /\ Received(s, k) = got[o][k] + Len(inbox[o][k])
  BY <1>1 DEF Flow, InboxInOrder, Received
<1>3. /\ Head(inbox[o][k]) = got[o][k] + 1
      /\ Numbered(inbox'[o][k], got[o][k] + 1) /\ Len(inbox'[o][k]) = Len(inbox[o][k]) - 1
      /\ Len(inbox[o][k]) >= 1
  BY <1>0, <1>1, <1>2, NumberedFacts
<1>4. got' = [got EXCEPT ![o][k] = @ + 1] /\ got'[o][k] = got[o][k] + 1
  BY <1>1, <1>3, SideFacts DEF Tasks
<1> HIDE DEF o
<1>5. Received(s, k)' = Received(s, k)
  <2>1. Received(s, k)' = got'[o][k] + Len(inbox'[o][k])
    BY DEF Received, o
  <2>2. got'[o][k] = got[o][k] + 1 /\ Len(inbox'[o][k]) = Len(inbox[o][k]) - 1
    BY <1>3, <1>4
  <2>3. Received(s, k) = got[o][k] + Len(inbox[o][k])
    BY <1>2
  <2> QED BY <1>0, <2>1, <2>2, <2>3
<1>6. InboxInOrder(s, k)'
  <2>1. UNCHANGED sent
    BY <1>1
  <2> QED BY <1>2, <1>3, <1>4, <1>5, <2>1 DEF InboxInOrder, o
<1>7. WireInOrder(s, k) => WireInOrder(s, k)'
  <2>1. \A b : QueuesInOrder(s, k, b) => QueuesInOrder(s, k, b)'
    BY <1>1 DEF QueuesInOrder, Encoded
  <2>2. sent' = sent /\ wire' = wire /\ writer' = writer
    BY <1>1
  <2> HAVE WireInOrder(s, k)
  <2>3. PICK b \in Received(s, k) .. sent[s][k] :
           /\ Carries(wire[s], k, Received(s, k), b)
           /\ s \in writer => QueuesInOrder(s, k, b)
    BY DEF WireInOrder
  <2> QED BY <1>5, <2>1, <2>2, <2>3 DEF WireInOrder
<1>8. got[o][k] < sent[s][k]
  <2>1. /\ sent[s][k] \in Nat /\ got[o][k] \in Nat /\ Len(inbox[o][k]) \in Nat
        /\ got[o][k] + Len(inbox[o][k]) <= sent[s][k] /\ Len(inbox[o][k]) >= 1
    BY <1>0, <1>2, <1>3
  <2> QED BY <2>1
<1>9. Flow(s, k)'
  BY <1>1, <1>6, <1>7 DEF Flow, o
<1> QED BY <1>3, <1>4, <1>8, <1>9 DEF o

\* Nothing is under way when a session starts.
LEMMA FlowsInit == Init => Flows
<1> SUFFICES ASSUME Init, NEW s \in Side, NEW k \in Data PROVE Flow(s, k)
  BY DEF Flows
<1>1. /\ sent[s][k] = 0 /\ got[Other(s)][k] = 0 /\ inbox[Other(s)][k] = <<>>
      /\ appq[s][k] = <<>> /\ wire[s] = <<>> /\ writeq[s] = <<>>
  <2>1. Other(s) \in Side /\ k \in Kind
    BY SideFacts DEF Kind
  <2>2. sent[s][k] = 0 /\ appq[s][k] = <<>> /\ wire[s] = <<>> /\ writeq[s] = <<>>
    BY DEF Init
  <2>3. got[Other(s)][k] = 0 /\ inbox[Other(s)][k] = <<>>
    BY <2>1 DEF Init
  <2> QED BY <2>2, <2>3
<1>2. Received(s, k) = 0 /\ Encoded(s, k) = 0
  <2>1. /\ Len(appq[s][k]) = 0 /\ Len(inbox[Other(s)][k]) = 0
        /\ sent[s][k] = 0 /\ got[Other(s)][k] = 0
    BY <1>1
  <2>2. Received(s, k) = 0 + 0 /\ Encoded(s, k) = 0 - 0
    BY <2>1, Zenon DEF Received, Encoded
  <2> QED BY <2>2
<1>3. Carries(<<>>, k, 0, 0) /\ Numbered(<<>>, 0)
  BY CarriesNothing DEF Numbered
<1>4. InboxInOrder(s, k) /\ QueuesInOrder(s, k, 0)
  BY <1>1, <1>2, <1>3 DEF InboxInOrder, QueuesInOrder
<1>5. WireInOrder(s, k)
  BY <1>1, <1>2, <1>3, <1>4 DEF WireInOrder
<1> QED BY <1>4, <1>5 DEF Flow

\* Every step keeps every link in order.
LEMMA FlowsStep == Carriers /\ Tasks /\ Flows /\ [Next]_vars => Flows'
<1> SUFFICES ASSUME Carriers, Tasks, [Next]_vars,
                    NEW s \in Side, NEW k \in Data, Flow(s, k)
             PROVE  Flow(s, k)'
  BY DEF Flows
<1> USE DEF sendVars, writeVars, readVars, netVars, taskVars, watchVars
<1>t. /\ k \in Kind /\ Ctrl \notin Data
      /\ sent \in [Side -> [Data -> 0 .. MaxMsg]] /\ got \in [Side -> [Data -> 0 .. MaxMsg]]
      /\ appq \in [Side -> [Data -> Seq(1 .. MaxMsg)]]
      /\ inbox \in [Side -> [Kind -> Seq(0 .. MaxMsg)]]
      /\ writeq \in [Side -> Seq(Frame)] /\ wire \in [Side -> Seq(Frame)]
      /\ inbound \in [Side -> SUBSET Kind]
  BY CtrlAssumption DEF Carriers, Tasks, Queues, KindQueues, Kind
<1>s. Other(s) \in Side /\ Other(s) # s
  BY SideFacts
<1>1. ASSUME NEW t \in Side, NEW j \in Data, Send(t, j) PROVE Flow(s, k)'
  <2>1. CASE t = s /\ j = k
    BY <1>1, <2>1, FlowSend
  <2>2. CASE ~(t = s /\ j = k)
    <3>1. Trimmed(s, k)
      BY <1>t, <1>1, <2>2 DEF Send, Trimmed
    <3> QED BY <3>1, FlowTrimmed
  <2> QED BY <2>1, <2>2
<1>2. ASSUME NEW t \in Side, NEW j \in Data, Encode(t, j) PROVE Flow(s, k)'
  <2>1. CASE t = s
    BY <1>2, <2>1, FlowEncode
  <2>2. CASE t # s
    <3>1. Trimmed(s, k)
      BY <1>t, <1>2, <2>2 DEF Encode, Trimmed
    <3> QED BY <3>1, FlowTrimmed
  <2> QED BY <2>1, <2>2
<1>3. ASSUME NEW t \in Side, NEW j \in Data, EncodeRefused(t, j) PROVE Flow(s, k)'
  <2>1. Trimmed(s, k)
    BY <1>t, <1>3 DEF EncodeRefused, Trimmed
  <2> QED BY <2>1, FlowTrimmed
<1>4. ASSUME NEW t \in Side, WriterEnds(t) PROVE Flow(s, k)'
  <2>1. Trimmed(s, k)
    BY <1>t, <1>4 DEF WriterEnds, Trimmed
  <2> QED BY <2>1, FlowTrimmed
<1>5. ASSUME NEW t \in Side, Write(t) PROVE Flow(s, k)'
  <2>1. CASE t = s
    BY <1>5, <2>1, FlowWrite
  <2>2. CASE t # s
    <3>1. Trimmed(s, k)
      BY <1>t, <1>5, <2>2 DEF Write, Trimmed
    <3> QED BY <3>1, FlowTrimmed
  <2> QED BY <2>1, <2>2
<1>6. ASSUME NEW t \in Side, NEW f \in {Heartbeat, GoodBye},
             writeq' = [writeq EXCEPT ![t] = Append(@, f)],
             UNCHANGED <<sent, appq, got, inbox, inbound, broken, reader, wire, writer>>
      PROVE  Flow(s, k)'
  <2>1. CASE t = s
    BY <1>6, <2>1, FlowControl
  <2>2. CASE t # s
    <3>1. Trimmed(s, k)
      BY <1>t, <1>6, <2>2 DEF Trimmed
    <3> QED BY <3>1, FlowTrimmed
  <2> QED BY <2>1, <2>2
<1>7. ASSUME UNCHANGED <<sent, appq, got, inbox, inbound, broken, reader, wire, writer, writeq>>
      PROVE  Flow(s, k)'
  <2>1. Trimmed(s, k)
    BY <1>7 DEF Trimmed
  <2> QED BY <2>1, FlowTrimmed
<1>8. ASSUME NEW t \in Side, SayGoodBye(t) PROVE Flow(s, k)'
  BY <1>6, <1>7, <1>8 DEF SayGoodBye
<1>9. ASSUME NEW t \in Side, Beat(t) PROVE Flow(s, k)'
  BY <1>6, <1>7, <1>9 DEF Beat
<1>10. ASSUME NEW t \in Side, Read(t) PROVE Flow(s, k)'
  <2>1. CASE t = Other(s)
    BY <1>10, <2>1, FlowRead
  <2>2. CASE t # Other(s)
    <3>1. Other(t) # s
      BY <2>2, SideFacts
    <3>2. inbox'[Other(s)][k] = inbox[Other(s)][k] /\ wire'[s] = wire[s]
      BY <1>t, <1>s, <1>10, <2>2, <3>1 DEF Read
    <3>3. Trimmed(s, k)
      BY <1>10, <3>2 DEF Read, Trimmed
    <3> QED BY <3>3, FlowTrimmed
  <2> QED BY <2>1, <2>2
<1>11. ASSUME NEW t \in Side, ReaderEnds(t) \/ ReaderGivesUp(t) PROVE Flow(s, k)'
  <2>1. Trimmed(s, k)
    BY <1>11 DEF ReaderEnds, ReaderGivesUp, Trimmed
  <2> QED BY <2>1, FlowTrimmed
<1>12. ASSUME NEW t \in Side, NEW j \in Data, Consume(t, j) PROVE Flow(s, k)'
  <2>1. CASE t = Other(s) /\ j = k
    BY <1>12, <2>1, NextIsTaken
  <2>2. CASE ~(t = Other(s) /\ j = k)
    <3>1. Trimmed(s, k)
      BY <1>t, <1>s, <1>12, <2>2 DEF Consume, Trimmed, Kind
    <3> QED BY <3>1, FlowTrimmed
  <2> QED BY <2>1, <2>2
<1>13. ASSUME NEW t \in Side, ConsumeHeartbeat(t) PROVE Flow(s, k)'
  <2>1. inbox'[Other(s)][k] = inbox[Other(s)][k]
    BY <1>t, <1>s, <1>13 DEF ConsumeHeartbeat, Kind
  <2>2. Trimmed(s, k)
    BY <1>13, <2>1 DEF ConsumeHeartbeat, Trimmed
  <2> QED BY <2>2, FlowTrimmed
<1>14. ASSUME NEW t \in Side, NEW j \in Kind, InboundEnds(t, j) PROVE Flow(s, k)'
  <2>1. k \in inbound'[Other(s)] => /\ k \in inbound[Other(s)]
                                    /\ inbox'[Other(s)][k] = inbox[Other(s)][k]
    BY <1>t, <1>s, <1>14 DEF InboundEnds
  <2>2. Trimmed(s, k)
    BY <1>14, <2>1 DEF InboundEnds, Trimmed
  <2> QED BY <2>2, FlowTrimmed
<1>15. ASSUME NEW t \in Side, Shutdown(t) PROVE Flow(s, k)'
  <2>1. k \in inbound'[Other(s)] => /\ k \in inbound[Other(s)]
                                    /\ inbox'[Other(s)][k] = inbox[Other(s)][k]
    BY <1>t, <1>s, <1>15 DEF Shutdown
  <2>2. Trimmed(s, k)
    BY <1>15, <2>1 DEF Shutdown, Trimmed
  <2> QED BY <2>2, FlowTrimmed
<1>16. ASSUME NEW t \in Side, Exit(t) PROVE Flow(s, k)'
  <2>1. k \in inbound'[Other(s)] => /\ k \in inbound[Other(s)]
                                    /\ inbox'[Other(s)][k] = inbox[Other(s)][k]
    BY <1>t, <1>s, <1>16 DEF Exit
  <2>2. Other(s) \in reader' => wire'[s] = wire[s] /\ Other(s) \in reader
    BY <1>t, <1>16, SideFacts DEF Exit
  <2>3. s \in writer' => s \in writer /\ writeq'[s] = writeq[s] /\ appq'[s][k] = appq[s][k]
    BY <1>t, <1>16 DEF Exit
  <2>4. Trimmed(s, k)
    BY <1>16, <2>1, <2>2, <2>3 DEF Exit, Trimmed
  <2> QED BY <2>4, FlowTrimmed
<1>17. CASE Break
  <2>1. Trimmed(s, k)
    BY <1>17 DEF Break, Trimmed
  <2> QED BY <2>1, FlowTrimmed
<1>18. ASSUME NEW t \in Side, BeatsLate(t) \/ Watchdog(t) PROVE Flow(s, k)'
  BY <1>7, <1>18 DEF BeatsLate, Watchdog
<1>19. CASE UNCHANGED vars
  BY <1>7, <1>19 DEF vars
<1> QED
  BY <1>1, <1>2, <1>3, <1>4, <1>5, <1>8, <1>9, <1>10, <1>11, <1>12, <1>13, <1>14, <1>15,
     <1>16, <1>17, <1>18, <1>19
  DEF Next, Outgoing, Incoming, Timers, ConsumeGoodBye, InboundDrained, Kind

-----------------------------------------------------------------------------
(* The refinement.                                                            *)

\* The inductive invariant.
IInv == Carriers /\ Tasks /\ Flows

\* On every link what is under way continues what was received, without gap or
\* repetition, as long as its receiver takes part (session.rs encoders, writer, reader).
THEOREM IInvHolds == Spec => []IInv
<1>1. Init => IInv
  BY TypeInit, FlowsInit DEF IInv
<1>2. IInv /\ [Next]_vars => IInv'
  BY CarriersStep, TasksStep, FlowsStep DEF IInv
<1> QED BY <1>1, <1>2, PTL DEF Spec

\* What the messages of a side look like to OrderedChannel.
sentOn == [l \in Link |-> sent[l[1]][l[2]]]
gotOn == [l \in Link |-> got[Other(l[1])][l[2]]]

\* A session starts as links on which nothing was sent.
LEMMA ChannelsInit == Init => Channels!Init
<1> SUFFICES ASSUME Init PROVE Channels!Init
  OBVIOUS
<1>1. \A l \in Link : sent[l[1]][l[2]] = 0 /\ got[Other(l[1])][l[2]] = 0
  BY SideFacts DEF Init, Link
<1> QED BY <1>1 DEF Channels!Init

\* Only the application sends on a link, and only the inbound task delivers.
LEMMA ChannelsStep ==
  IInv /\ [Next]_vars => [Channels!Next]_<<sentOn, gotOn>>
<1> SUFFICES ASSUME IInv, [Next]_vars
             PROVE  Channels!Next \/ (sentOn' = sentOn /\ gotOn' = gotOn)
  BY DEF sentOn, gotOn
<1> USE DEF sendVars, writeVars, readVars, netVars, taskVars, watchVars
<1>t. /\ sent \in [Side -> [Data -> 0 .. MaxMsg]] /\ got \in [Side -> [Data -> 0 .. MaxMsg]]
  BY DEF IInv, Tasks
<1>1. ASSUME NEW s \in Side, NEW k \in Data, Send(s, k) PROVE Channels!Next
  <2> DEFINE l == <<s, k>>
  <2>1. l \in Link /\ l[1] = s /\ l[2] = k
    BY DEF Link
  <2>2. sent' = [sent EXCEPT ![s][k] = @ + 1] /\ got' = got
    BY <1>1 DEF Send
  <2>3. [m \in Link |-> sent'[m[1]][m[2]]]
          = [[m \in Link |-> sent[m[1]][m[2]]] EXCEPT ![l] = @ + 1]
    <3>1. \A m \in Link : /\ m[1] \in Side /\ m[2] \in Data
                          /\ m = l <=> m[1] = s /\ m[2] = k
      BY DEF Link
    <3>2. \A m \in Link : sent'[m[1]][m[2]] = IF m = l THEN sent[m[1]][m[2]] + 1
                                              ELSE sent[m[1]][m[2]]
      BY <1>t, <2>2, <3>1
    <3> HIDE DEF l
    <3> QED BY <2>1, <3>2
  <2>4. Channels!Send(l)
    BY <2>2, <2>3 DEF Channels!Send
  <2> QED BY <2>1, <2>4 DEF Channels!Next
<1>2. ASSUME NEW o \in Side, NEW k \in Data, Consume(o, k) PROVE Channels!Next
  <2> DEFINE s == Other(o)
             l == <<s, k>>
  <2>1. l \in Link /\ l[1] = s /\ l[2] = k /\ s \in Side /\ Other(s) = o
    BY SideFacts DEF Link
  <2>2. Carriers /\ Tasks /\ Flow(s, k)
    BY <2>1 DEF IInv, Flows
  <2>3. got[o][k] < sent[s][k] /\ got' = [got EXCEPT ![o][k] = @ + 1]
    BY <1>2, <2>1, <2>2, NextIsTaken
  <2>4. sent' = sent
    BY <1>2 DEF Consume
  <2>5. [m \in Link |-> got'[Other(m[1])][m[2]]]
          = [[m \in Link |-> got[Other(m[1])][m[2]]] EXCEPT ![l] = @ + 1]
    <3>1. \A m \in Link : /\ Other(m[1]) \in Side /\ m[2] \in Data
                          /\ m = l <=> Other(m[1]) = o /\ m[2] = k
      BY <2>1, SideFacts DEF Link
    <3>2. \A m \in Link : got'[Other(m[1])][m[2]] = IF m = l THEN got[Other(m[1])][m[2]] + 1
                                                     ELSE got[Other(m[1])][m[2]]
      BY <1>t, <2>3, <3>1
    <3> HIDE DEF l
    <3> QED BY <2>1, <3>2
  <2>6. Channels!Deliver(l)
    BY <2>1, <2>3, <2>4, <2>5 DEF Channels!Deliver
  <2> QED BY <2>1, <2>6 DEF Channels!Next
<1>3. ASSUME UNCHANGED <<sent, got>> PROVE sentOn' = sentOn /\ gotOn' = gotOn
  BY <1>3 DEF sentOn, gotOn
<1>4. ASSUME NEW s \in Side, NEW k \in Kind, InboundEnds(s, k) PROVE UNCHANGED <<sent, got>>
  BY <1>4 DEF InboundEnds
<1>5. ASSUME NEW s \in Side,
             \/ \E k \in Data : Encode(s, k) \/ EncodeRefused(s, k)
             \/ WriterEnds(s) \/ Write(s) \/ SayGoodBye(s) \/ Timers(s)
      PROVE  UNCHANGED <<sent, got>>
  BY <1>5 DEF Encode, EncodeRefused, WriterEnds, Write, SayGoodBye, Timers, Beat, BeatsLate,
              Watchdog
<1>6. ASSUME NEW s \in Side,
             \/ Read(s) \/ ReaderEnds(s) \/ ReaderGivesUp(s) \/ ConsumeHeartbeat(s)
             \/ Shutdown(s) \/ Exit(s) \/ Break
      PROVE  UNCHANGED <<sent, got>>
  BY <1>6 DEF Read, ReaderEnds, ReaderGivesUp, ConsumeHeartbeat, Shutdown, Exit, Break
<1>7. CASE UNCHANGED vars
  BY <1>3, <1>7 DEF vars
<1>8. CASE Break
  BY <1>3, <1>8 DEF Break
<1> QED
  BY <1>1, <1>2, <1>3, <1>4, <1>5, <1>6, <1>7, <1>8
  DEF Next, Outgoing, Incoming, ConsumeGoodBye, InboundDrained, Kind

\* Each typed channel delivers what was sent, in order, nothing twice and nothing
\* skipped, however the tasks of the two sides, the failure of the connection and
\* the end of a session or of a process interleave.
THEOREM ImplementsOrderedChannel == Spec => ChannelSpec
<1>1. Init => Channels!Init
  BY ChannelsInit
<1>2. IInv /\ [Next]_vars => [Channels!Next]_<<sentOn, gotOn>>
  BY ChannelsStep
<1> QED BY <1>1, <1>2, IInvHolds, PTL DEF Spec, ChannelSpec, Channels!Spec, sentOn, gotOn
=============================================================================
