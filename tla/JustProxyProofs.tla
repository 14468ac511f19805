--------------------------- MODULE JustProxyProofs ---------------------------
(***************************************************************************)
(* Proofs that Inv is an invariant of Spec for every set of sessions and   *)
(* every assignment of ports, and what follows from it.                    *)
(***************************************************************************)
EXTENDS JustProxy, TLAPS

(* Sequences.                                                              *)

\* Appending an element of S to a sequence over S (every queue of the model).
LEMMA AppendInSeq ==
  ASSUME NEW S, NEW q \in Seq(S), NEW e \in S
  PROVE  Append(q, e) \in Seq(S)
OBVIOUS

\* Taking the first element of a queue over S leaves a queue over S.
LEMMA PopInSeq ==
  ASSUME NEW S, NEW q \in Seq(S), q # << >>
  PROVE  Head(q) \in S /\ Tail(q) \in Seq(S)
OBVIOUS

\* The empty queue is over every set.
LEMMA EmptyInSeq ==
  ASSUME NEW S
  PROVE  << >> \in Seq(S)
OBVIOUS

\* A queue over S is one over every larger set.
LEMMA SeqGrows ==
  ASSUME NEW S, NEW T, S \subseteq T, NEW q \in Seq(S)
  PROVE  q \in Seq(T)
OBVIOUS

\* Every element of a queue over S is in S.
LEMMA AllInSeq ==
  ASSUME NEW S, NEW q \in Seq(S), NEW i \in 1..Len(q)
  PROVE  q[i] \in S
OBVIOUS

-----------------------------------------------------------------------------
(* Packets.                                                                *)

\* What the constructors of Channels build is tagged with its session's port.
LEMMA PacketTagged ==
  ASSUME NEW s \in Sessions, clients[PortOf[s]] # None, NEW types,
         NEW type \in types, type # "Heartbeat", NEW lo \in Nat, NEW hi \in Nat
  PROVE  Packet(s, type, lo, hi) \in Tagged(types)
BY PortAssumption DEF Packet, Tagged, Packets, Ports

\* The same for a packet without a body.
LEMMA SignalTagged ==
  ASSUME NEW s \in Sessions, clients[PortOf[s]] # None, NEW types,
         NEW type \in types, type # "Heartbeat"
  PROVE  Signal(s, type) \in Tagged(types)
BY PacketTagged DEF Signal

\* Heartbeats are tagged whatever their index is.
LEMMA HeartbeatTagged ==
  ASSUME NEW i \in Nat, NEW types, "Heartbeat" \in types
  PROVE  HeartbeatPacket(i) \in Tagged(types)
BY DEF HeartbeatPacket, Tagged, Packets

\* A tagged packet that is no heartbeat is about a session with its uuid.
LEMMA TaggedFacts ==
  ASSUME NEW types, NEW m \in Tagged(types)
  PROVE  /\ m \in Packets(types)
         /\ m.type # "Heartbeat" =>
              /\ m.src \in Sessions
              /\ m.uuid = PortOf[m.src]
              /\ m.uuid \in Ports
              /\ m.uuid # 0
              /\ clients[m.uuid] # None
         /\ m.type = "Heartbeat" => m.uuid = 0 /\ m.src = None
BY PortAssumption DEF Tagged, Ports

\* Tagged packets are packets.
LEMMA TaggedSubset ==
  ASSUME NEW types
  PROVE  Tagged(types) \subseteq Packets(types)
BY DEF Tagged

\* A packet tagged for some types is tagged for more types.
LEMMA TaggedMore ==
  ASSUME NEW S, NEW T, S \subseteq T
  PROVE  Tagged(S) \subseteq Tagged(T)
BY DEF Tagged, Packets

-----------------------------------------------------------------------------
(* The part of TypeOK that does not follow from QueuesTagged.              *)

Shape ==
  /\ tunnel \in {"up", "down"}
  /\ socksMail \in [Sessions -> Seq(Packets(ConnectorTypes))]
  /\ SocksTypeOK
  /\ ServerTypeOK
  /\ proxy \in {"running", "stopped", "panic_data", "panic_send"}
  /\ connections \in [Ports -> Sessions \cup {None}]
  /\ connecting \in SUBSET Sessions
  /\ readers \in SUBSET Sessions
  /\ forwarder \in BOOLEAN
  /\ target \in [Sessions -> {"none", "open", "eof", "reset"}]
  /\ emitted \in [Sessions -> Nat]
  /\ targetRx \in [Sessions -> Seq(Writes)]

\* Shape and tagged queues make TypeOK.
LEMMA ShapeIsType ==
  QueuesTagged => (Shape <=> TypeOK)
<1>1. ASSUME QueuesTagged
      PROVE  /\ wireUp \in Seq(Packets(RequestTypes))
             /\ serverMail \in Seq(Packets(RequestTypes))
             /\ wireDown \in Seq(Packets(ResponseTypes))
             /\ proxyMail \in Seq(Packets(MailTypes))
  BY <1>1, TaggedSubset, SeqGrows DEF QueuesTagged
<1>2. QED
  BY <1>1 DEF Shape, TypeOK, ChannelsTypeOK, ProxyTypeOK

\* The initial state satisfies the invariant.
LEMMA InitInv == Init => Inv
<1> SUFFICES ASSUME Init PROVE Inv
  OBVIOUS
<1> USE DEF Init, ChannelsInit, SocksInit, ServerInit, ProxyInit
<1>1. QueuesTagged
  BY EmptyInSeq DEF QueuesTagged
<1>2. DeliveredByPort
  BY EmptyInSeq DEF DeliveredByPort
<1>3. Shape
  BY EmptyInSeq DEF Shape, SocksTypeOK, ServerTypeOK
<1>4. MapsByPort /\ EveryoneKnown /\ ResponsesRoutable
  BY DEF MapsByPort, EveryoneKnown, ResponsesRoutable
<1>5. QED
  BY <1>1, <1>2, <1>3, <1>4, ShapeIsType DEF Inv

-----------------------------------------------------------------------------
(* What the handlers deliver.                                              *)

\* A packet of session s may be delivered to the sessions with its port.
LEMMA PacketOfPort ==
  ASSUME NEW s \in Sessions, NEW types, NEW type \in types
  PROVE  Signal(s, type) \in OfPort(PortOf[s], types)
BY PortAssumption DEF Signal, Packet, OfPort, Packets, SamePort, Ports

\* Delivered packets are packets.
LEMMA OfPortSubset ==
  ASSUME NEW p, NEW types
  PROVE  OfPort(p, types) \subseteq Packets(types)
BY DEF OfPort

\* A delivered packet may be passed on under another type.
LEMMA Retyped ==
  ASSUME NEW p, NEW S, NEW m \in OfPort(p, S), NEW T, NEW type \in T
  PROVE  [m EXCEPT !.type = type] \in OfPort(p, T)
BY DEF OfPort, Packets, SamePort

\* A delivered packet may be passed on as it is where its type is allowed.
LEMMA SameType ==
  ASSUME NEW p, NEW S, NEW m \in OfPort(p, S), NEW T, m.type \in T
  PROVE  m \in OfPort(p, T)
BY DEF OfPort, Packets, SamePort

\* The steps of a SocksClient preserve the invariant.
LEMMA SocksStep ==
  ASSUME Inv, NEW s \in Sessions, SocksNext(s), SocksFrame
  PROVE  Inv'
<1> DEFINE Good ==
      /\ serverMail' \in Seq(Tagged(RequestTypes))
      /\ socksMail' \in [Sessions -> Seq(Packets(ConnectorTypes))]
      /\ SocksTypeOK'
      /\ \A t \in Sessions :
           /\ socksMail'[t] \in Seq(OfPort(PortOf[t], ConnectorTypes))
           /\ appRx'[t] \in Seq(OfPort(PortOf[t], AppTypes))
           /\ sock'[t] # "none" => sock[t] # "none"
<1>a. SUFFICES Good
  <2> SUFFICES ASSUME Good PROVE Inv'
    OBVIOUS
  <2>1. UNCHANGED <<tunnel, wireUp, wireDown, serverVars, proxyVars, targetVars>>
    BY DEF SocksFrame
  <2>2. QueuesTagged'
    BY <2>1 DEF Inv, QueuesTagged, Tagged, serverVars, proxyVars
  <2>3. DeliveredByPort'
    BY <2>1 DEF Inv, DeliveredByPort, targetVars
  <2>4. Shape'
    BY <2>1, ShapeIsType DEF Inv, Shape, ServerTypeOK, serverVars, proxyVars, targetVars
  <2>5. MapsByPort' /\ EveryoneKnown' /\ ResponsesRoutable'
    BY <2>1 DEF Inv, MapsByPort, EveryoneKnown, ResponsesRoutable, serverVars, proxyVars
  <2>6. QED
    BY <2>2, <2>3, <2>4, <2>5, ShapeIsType, PTL DEF Inv
<1>1. /\ socksMail \in [Sessions -> Seq(Packets(ConnectorTypes))]
      /\ sock \in [Sessions -> {"none"} \cup Running \cup Ended]
      /\ requested \in SUBSET Sessions
      /\ sent \in [Sessions -> Nat]
      /\ appRx \in [Sessions -> Seq(Packets(AppTypes))]
      /\ serverMail \in Seq(Tagged(RequestTypes))
      /\ \A t \in Sessions :
           /\ socksMail[t] \in Seq(OfPort(PortOf[t], ConnectorTypes))
           /\ appRx[t] \in Seq(OfPort(PortOf[t], AppTypes))
           /\ sock[t] # "none" => clients[PortOf[t]] # None
  BY DEF Inv, TypeOK, ChannelsTypeOK, SocksTypeOK, QueuesTagged, DeliveredByPort,
         EveryoneKnown
<1>2. ASSUME NEW how \in Ended, End(s, how), sock[s] # "none",
             UNCHANGED <<requested, sent, appRx, serverMail>>
      PROVE  Good
  <2>1. \A t \in Sessions : socksMail'[t] \in Seq(OfPort(PortOf[t], ConnectorTypes))
    BY <1>1, <1>2, EmptyInSeq DEF End
  <2>2. socksMail' \in [Sessions -> Seq(Packets(ConnectorTypes))]
    BY <1>1, <1>2, EmptyInSeq DEF End
  <2>3. QED
    BY <1>1, <1>2, <2>1, <2>2 DEF End, Become, SocksTypeOK
<1>3. ASSUME NEW m \in OfPort(PortOf[s], AppTypes), Reply(s, m)
      PROVE  /\ appRx' \in [Sessions -> Seq(Packets(AppTypes))]
             /\ \A t \in Sessions : appRx'[t] \in Seq(OfPort(PortOf[t], AppTypes))
  <2>1. Append(appRx[s], m) \in Seq(OfPort(PortOf[s], AppTypes))
    BY <1>1, <1>3, AppendInSeq
  <2>2. Append(appRx[s], m) \in Seq(Packets(AppTypes))
    BY <2>1, OfPortSubset, SeqGrows
  <2>3. QED
    BY <1>1, <1>3, <2>1, <2>2 DEF Reply
<1>4. ASSUME socksMail[s] # << >>, Pop(s)
      PROVE  /\ socksMail' \in [Sessions -> Seq(Packets(ConnectorTypes))]
             /\ \A t \in Sessions : socksMail'[t] \in Seq(OfPort(PortOf[t], ConnectorTypes))
  <2>1. Tail(socksMail[s]) \in Seq(OfPort(PortOf[s], ConnectorTypes))
    BY <1>1, <1>4, PopInSeq
  <2>2. Tail(socksMail[s]) \in Seq(Packets(ConnectorTypes))
    BY <2>1, OfPortSubset, SeqGrows
  <2>3. QED
    BY <1>1, <1>4, <2>1, <2>2 DEF Pop
<1>5. CASE HandleNegotiation(s)
  <2>1. Signal(s, "Negotiation") \in OfPort(PortOf[s], AppTypes)
    BY PacketOfPort DEF AppTypes
  <2>2. QED
    BY <1>1, <1>3, <1>5, <2>1 DEF HandleNegotiation, Become, SocksTypeOK, Running
<1>6. CASE HandleTargetRequest(s)
  <2>1. Signal(s, "RequestAddr") \in Tagged(RequestTypes)
    BY <1>1, <1>6, SignalTagged DEF HandleTargetRequest, RequestTypes
  <2>2. serverMail' \in Seq(Tagged(RequestTypes))
    BY <1>1, <1>6, <2>1, AppendInSeq DEF HandleTargetRequest
  <2>3. QED
    BY <1>1, <1>6, <2>2 DEF HandleTargetRequest, Become, SocksTypeOK, Running
<1>7. CASE DecodePanics(s)
  BY <1>2, <1>7 DEF DecodePanics, Ended
<1>8. CASE HandleData(s)
  <2>1. PICK hi \in (sent[s] + 1)..MaxUp :
          /\ sent' = [sent EXCEPT ![s] = hi]
          /\ serverMail' = Append(serverMail, Packet(s, "Data", sent[s], hi))
    BY <1>8 DEF HandleData
  <2>2. hi \in Nat /\ sent[s] \in Nat
    BY <1>1, <2>1, BoundAssumption
  <2>3. Packet(s, "Data", sent[s], hi) \in Tagged(RequestTypes)
    BY <1>1, <1>8, <2>2, PacketTagged DEF HandleData, RequestTypes
  <2>4. serverMail' \in Seq(Tagged(RequestTypes))
    BY <1>1, <2>1, <2>3, AppendInSeq
  <2>5. QED
    BY <1>1, <1>8, <2>1, <2>2, <2>4 DEF HandleData, SocksTypeOK
<1>9. CASE AppCloses(s)
  BY <1>2, <1>9 DEF AppCloses, Ended, Running
<1>10. CASE HandleReply(s)
  <2>1. CASE s \in requested
    <3> DEFINE m == Head(socksMail[s])
               type == IF m.type = "Succeeded" THEN m.type ELSE "ConnectionRefused"
    <3>1. socksMail[s] # << >> /\ UNCHANGED <<requested, sent, serverMail>>
      BY <1>10 DEF HandleReply, Received
    <3>2. m \in OfPort(PortOf[s], ConnectorTypes)
      BY <1>1, <3>1, PopInSeq
    <3>3. type \in AppTypes
      BY DEF AppTypes
    <3>4. [m EXCEPT !.type = type] \in OfPort(PortOf[s], AppTypes)
      BY <3>2, <3>3, Retyped
    <3>5. Reply(s, [m EXCEPT !.type = type]) /\ Pop(s) /\ UNCHANGED sock
      BY <1>10, <2>1 DEF HandleReply
    <3>6. QED
      BY <1>1, <1>3, <1>4, <3>1, <3>4, <3>5 DEF SocksTypeOK
  <2>2. CASE s \notin requested
    BY <1>2, <1>10, <2>2 DEF HandleReply, Received, Ended, Running
  <2>3. QED
    BY <2>1, <2>2
<1>11. CASE HandleConnectorData(s)
  <2>1. /\ socksMail[s] # << >>
        /\ UNCHANGED <<requested, sent, serverMail, sock>>
        /\ Reply(s, Head(socksMail[s]))
        /\ Pop(s)
    BY <1>11 DEF HandleConnectorData, Received
  <2>2. Head(socksMail[s]) \in OfPort(PortOf[s], ConnectorTypes)
    BY <1>1, <2>1, PopInSeq
  <2>3. Head(socksMail[s]).type \in AppTypes
    BY <1>11 DEF HandleConnectorData, Received, AppTypes
  <2>4. Head(socksMail[s]) \in OfPort(PortOf[s], AppTypes)
    BY <2>2, <2>3, SameType
  <2>5. QED
    BY <1>1, <1>3, <1>4, <2>1, <2>4 DEF SocksTypeOK
<1>12. CASE HandleAbort(s)
  BY <1>2, <1>12 DEF HandleAbort, Received, Ended, Running
<1>13. QED
  BY <1>5, <1>6, <1>7, <1>8, <1>9, <1>10, <1>11, <1>12 DEF SocksNext

-----------------------------------------------------------------------------
\* What is tagged stays tagged while the client forgets no port.
LEMMA TaggedGrows ==
  ASSUME NEW types, \A p \in Ports : clients[p] # None => clients'[p] # None
  PROVE  Tagged(types) \subseteq Tagged(types)'
BY DEF Tagged, Ports

\* Writing an element of S to the tunnel leaves a sequence over S.
LEMMA WriteInSeq ==
  ASSUME NEW S, NEW wire \in Seq(S), NEW m \in S
  PROVE  Write(wire, m) \in Seq(S)
BY AppendInSeq DEF Write

\* A tagged response finds the session it is routed to, which has its port.
LEMMA RouteTagged ==
  ASSUME Inv, NEW m \in Tagged(ResponseTypes), m.type # "Heartbeat"
  PROVE  /\ clients[m.uuid] \in Sessions
         /\ PortOf[clients[m.uuid]] = m.uuid
         /\ ToConnectorResponse(m) \in OfPort(m.uuid, ConnectorTypes)
<1>1. /\ m \in Packets(ResponseTypes)
      /\ m.src \in Sessions
      /\ m.uuid = PortOf[m.src]
      /\ m.uuid \in Ports
      /\ clients[m.uuid] # None
  BY TaggedFacts
<1>2. clients[m.uuid] \in SamePort(m.uuid)
  BY <1>1 DEF Inv, MapsByPort
<1>3. m \in OfPort(m.uuid, ResponseTypes)
  BY <1>1 DEF OfPort, SamePort
<1>4. (IF m.type \in {"ConnectionRefused", "Timeout"} THEN "Failed" ELSE m.type)
        \in ConnectorTypes
  BY <1>1 DEF Packets, ResponseTypes, ConnectorTypes
<1>5. ToConnectorResponse(m) \in OfPort(m.uuid, ConnectorTypes)
  BY <1>3, <1>4, Retyped DEF ToConnectorResponse
<1>6. QED
  BY <1>2, <1>5 DEF SamePort

\* The steps of the client's Server preserve the invariant.
LEMMA ServerStep ==
  ASSUME Inv, ServerNext, ServerFrame
  PROVE  Inv'
<1> DEFINE SockOK(f) == f \in [Sessions -> {"none"} \cup Running \cup Ended]
           MailOK(f) ==
             /\ f \in [Sessions -> Seq(Packets(ConnectorTypes))]
             /\ \A t \in Sessions : f[t] \in Seq(OfPort(PortOf[t], ConnectorTypes))
           Good ==
      /\ server' \in {"running", "stopped", "panic_accept"}
      /\ hb_index' \in Nat
      /\ tunnel' \in {"up", "down"}
      /\ clients' \in [Ports -> Sessions \cup {None}]
      /\ \A p \in Ports : /\ clients'[p] \in SamePort(p) \cup {None}
                          /\ clients[p] # None => clients'[p] # None
      /\ SockOK(sock')
      /\ \A t \in Sessions : sock'[t] # "none" => clients'[PortOf[t]] # None
      /\ MailOK(socksMail')
      /\ serverMail' \in Seq(Tagged(RequestTypes))
      /\ wireUp' \in Seq(Tagged(RequestTypes))
      /\ wireDown' \in Seq(Tagged(ResponseTypes))
      /\ UNCHANGED <<requested, sent, appRx>>
<1>a. SUFFICES Good
  <2> SUFFICES ASSUME Good PROVE Inv'
    OBVIOUS
  <2>1. UNCHANGED <<proxyVars, targetVars>>
    BY DEF ServerFrame
  <2>2. QueuesTagged'
    <3>1. /\ Tagged(RequestTypes) \subseteq Tagged(RequestTypes)'
          /\ Tagged(ResponseTypes) \subseteq Tagged(ResponseTypes)'
          /\ Tagged(MailTypes) \subseteq Tagged(MailTypes)'
      BY TaggedGrows
    <3>2. proxyMail' \in Seq(Tagged(MailTypes))
      BY <2>1 DEF Inv, QueuesTagged, proxyVars
    <3>3. QED
      BY <3>1, <3>2, SeqGrows DEF QueuesTagged
  <2>3. DeliveredByPort'
    BY <2>1 DEF Inv, DeliveredByPort, targetVars
  <2>4. Shape'
    BY <2>1, ShapeIsType DEF Inv, Shape, SocksTypeOK, ServerTypeOK, proxyVars, targetVars
  <2>5. MapsByPort' /\ ResponsesRoutable'
    BY <2>1 DEF Inv, MapsByPort, ResponsesRoutable, proxyVars
  <2>6. EveryoneKnown'
    <3>1. /\ connecting' = connecting /\ readers' = readers
          /\ connecting \cup readers \subseteq Sessions
          /\ \A s \in connecting \cup readers : clients[PortOf[s]] # None
      BY <2>1 DEF Inv, TypeOK, ProxyTypeOK, EveryoneKnown, proxyVars
    <3>2. QED
      BY <3>1 DEF EveryoneKnown, Ports
  <2>7. QED
    BY <2>2, <2>3, <2>4, <2>5, <2>6, ShapeIsType, PTL DEF Inv
<1>1. /\ server \in {"running", "stopped", "panic_accept"}
      /\ hb_index \in Nat
      /\ tunnel \in {"up", "down"}
      /\ clients \in [Ports -> Sessions \cup {None}]
      /\ \A p \in Ports : clients[p] \in SamePort(p) \cup {None}
      /\ SockOK(sock)
      /\ \A t \in Sessions : sock[t] # "none" => clients[PortOf[t]] # None
      /\ MailOK(socksMail)
      /\ serverMail \in Seq(Tagged(RequestTypes))
      /\ wireUp \in Seq(Tagged(RequestTypes))
      /\ wireDown \in Seq(Tagged(ResponseTypes))
  BY DEF Inv, TypeOK, ChannelsTypeOK, SocksTypeOK, ServerTypeOK, ResponsesRoutable,
         MapsByPort, EveryoneKnown, QueuesTagged, DeliveredByPort
<1>2. ASSUME NEW how, ProcessDies(how)
      PROVE  /\ SockOK(sock')
             /\ \A t \in Sessions : sock'[t] # "none" => sock[t] # "none"
             /\ MailOK(socksMail')
  BY <1>1, <1>2, EmptyInSeq DEF ProcessDies, Running, Ended
<1>3. ASSUME NEW s \in Sessions, SocksConnected(s)
      PROVE  Good
  <2> USE <1>3 DEF SocksConnected, channelVars
  <2>1. SockOK(sock')
    BY <1>1 DEF Become, Running
  <2>2. PortOf[s] \in Ports /\ s \in SamePort(PortOf[s]) /\ s # None
    BY NoneAssumption DEF Ports, SamePort
  <2>3. /\ clients' \in [Ports -> Sessions \cup {None}]
        /\ \A p \in Ports : /\ clients'[p] \in SamePort(p) \cup {None}
                            /\ clients[p] # None => clients'[p] # None
        /\ clients'[PortOf[s]] # None
    BY <1>1, <2>2
  <2>4. \A t \in Sessions : sock'[t] # "none" => clients'[PortOf[t]] # None
    BY <1>1, <2>3 DEF Become, Ports
  <2>5. QED
    BY <1>1, <2>1, <2>3, <2>4
<1>4. ASSUME NEW s \in Sessions, AcceptPanics(s)
      PROVE  Good
  <2>1. server' = "panic_accept" /\ tunnel' = "down"
    BY <1>4 DEF AcceptPanics, ProcessDies
  <2>2. ProcessDies("panic_accept")
    BY <1>4 DEF AcceptPanics
  <2>3. QED
    BY <1>1, <1>2, <1>4, <2>1, <2>2 DEF AcceptPanics
<1>5. CASE IntervalTick
  <2>1. HeartbeatPacket(0) \in Tagged(RequestTypes)
    BY HeartbeatTagged DEF RequestTypes
  <2>2. serverMail' \in Seq(Tagged(RequestTypes))
    BY <1>1, <1>5, <2>1, AppendInSeq DEF IntervalTick
  <2>3. QED
    BY <1>1, <1>5, <2>2 DEF IntervalTick, serverVars, socksVars
<1>6. CASE HandleHeartbeat
  <2>1. hb_index' \in Nat
    BY <1>1, <1>6 DEF HandleHeartbeat
  <2>2. HeartbeatPacket(hb_index') \in Tagged(RequestTypes)
    BY <2>1, HeartbeatTagged DEF RequestTypes
  <2>3. wireUp' \in Seq(Tagged(RequestTypes))
    BY <1>1, <1>6, <2>2, WriteInSeq DEF HandleHeartbeat
  <2>4. serverMail' \in Seq(Tagged(RequestTypes))
    BY <1>1, <1>6, PopInSeq DEF HandleHeartbeat
  <2>5. QED
    BY <1>1, <1>6, <2>1, <2>3, <2>4 DEF HandleHeartbeat, socksVars
<1>7. CASE HandleProxyRequest
  <2>1. /\ Head(serverMail) \in Tagged(RequestTypes)
        /\ serverMail' \in Seq(Tagged(RequestTypes))
    BY <1>1, <1>7, PopInSeq DEF HandleProxyRequest
  <2>2. wireUp' \in Seq(Tagged(RequestTypes))
    BY <1>1, <1>7, <2>1, WriteInSeq DEF HandleProxyRequest
  <2>3. QED
    BY <1>1, <1>7, <2>1, <2>2 DEF HandleProxyRequest, serverVars, socksVars
<1>8. CASE HandleResponse
  <2> DEFINE m == Head(wireDown)
             c == clients[m.uuid]
  <2>1. m \in Tagged(ResponseTypes) /\ wireDown' \in Seq(Tagged(ResponseTypes))
    BY <1>1, <1>8, PopInSeq DEF HandleResponse
  <2>2. Routable(m)
    BY <2>1, TaggedFacts DEF Routable
  <2>3. Route(m) /\ UNCHANGED <<server, tunnel, sock>>
    BY <1>8, <2>2 DEF HandleResponse
  <2>4. MailOK(socksMail')
    <3>1. CASE m.uuid # 0 /\ sock[c] \in Running
      <4>1. m.type # "Heartbeat"
        BY <2>1, <3>1, TaggedFacts
      <4>2. /\ c \in Sessions
            /\ PortOf[c] = m.uuid
            /\ ToConnectorResponse(m) \in OfPort(m.uuid, ConnectorTypes)
        BY <2>1, <4>1, RouteTagged
      <4>3. Append(socksMail[c], ToConnectorResponse(m))
              \in Seq(OfPort(PortOf[c], ConnectorTypes))
        BY <1>1, <4>2, AppendInSeq
      <4>4. Append(socksMail[c], ToConnectorResponse(m)) \in Seq(Packets(ConnectorTypes))
        BY <4>3, OfPortSubset, SeqGrows
      <4>5. socksMail' = [socksMail EXCEPT ![c] = Append(socksMail[c], ToConnectorResponse(m))]
        BY <2>3, <3>1 DEF Route
      <4>6. QED
        BY <1>1, <4>2, <4>3, <4>4, <4>5
    <3>2. CASE ~(m.uuid # 0 /\ sock[c] \in Running)
      BY <1>1, <2>3, <3>2 DEF Route
    <3>3. QED
      BY <3>1, <3>2
  <2>5. QED
    BY <1>1, <1>8, <2>1, <2>3, <2>4 DEF HandleResponse
<1>9. CASE ServerStops
  BY <1>1, <1>9 DEF ServerStops, socksVars, channelVars
<1>10. QED
  BY <1>3, <1>4, <1>5, <1>6, <1>7, <1>8, <1>9 DEF ServerNext

-----------------------------------------------------------------------------
\* The steps of the ProxyClient, its futures and the targets preserve the
\* invariant.
LEMMA ProxyStep ==
  ASSUME Inv, ProxyNext, ProxyFrame
  PROVE  Inv'
<1> DEFINE Known == {t \in Sessions : clients[PortOf[t]] # None}
           WritesOf(t) == {w \in Writes : w.src \in SamePort(PortOf[t])}
           MapOK(f) == /\ f \in [Ports -> Sessions \cup {None}]
                       /\ \A p \in Ports : f[p] \in SamePort(p) \cup {None}
           RxOK(f) == /\ f \in [Sessions -> Seq(Writes)]
                      /\ \A t \in Sessions : f[t] \in Seq(WritesOf(t))
           Good ==
      /\ proxy' \in {"running", "stopped", "panic_data", "panic_send"}
      /\ tunnel' \in {"up", "down"}
      /\ forwarder' \in BOOLEAN
      /\ MapOK(connections')
      /\ connecting' \in SUBSET Known
      /\ readers' \in SUBSET Known
      /\ target' \in [Sessions -> {"none", "open", "eof", "reset"}]
      /\ emitted' \in [Sessions -> Nat]
      /\ RxOK(targetRx')
      /\ wireUp' \in Seq(Tagged(RequestTypes))
      /\ proxyMail' \in Seq(Tagged(MailTypes))
      /\ wireDown' \in Seq(Tagged(ResponseTypes))
      /\ UNCHANGED <<serverMail, socksMail>>
<1>a. SUFFICES Good
  <2> SUFFICES ASSUME Good PROVE Inv'
    OBVIOUS
  <2>1. UNCHANGED <<sock, requested, sent, appRx, server, clients, hb_index>>
    BY DEF ProxyFrame, socksVars, serverVars
  <2>2. QueuesTagged'
    BY <2>1 DEF Inv, QueuesTagged, Tagged
  <2>3. DeliveredByPort'
    BY <2>1 DEF Inv, DeliveredByPort
  <2>4. Shape'
    BY <2>1, ShapeIsType DEF Inv, Shape, SocksTypeOK, ServerTypeOK
  <2>5. MapsByPort' /\ ResponsesRoutable'
    BY <2>1 DEF Inv, MapsByPort, ResponsesRoutable
  <2>6. EveryoneKnown'
    BY <2>1 DEF Inv, EveryoneKnown
  <2>7. QED
    BY <2>2, <2>3, <2>4, <2>5, <2>6, ShapeIsType, PTL DEF Inv
<1>1. /\ proxy \in {"running", "stopped", "panic_data", "panic_send"}
      /\ tunnel \in {"up", "down"}
      /\ forwarder \in BOOLEAN
      /\ MapOK(connections)
      /\ connecting \in SUBSET Known
      /\ readers \in SUBSET Known
      /\ target \in [Sessions -> {"none", "open", "eof", "reset"}]
      /\ emitted \in [Sessions -> Nat]
      /\ RxOK(targetRx)
      /\ wireUp \in Seq(Tagged(RequestTypes))
      /\ proxyMail \in Seq(Tagged(MailTypes))
      /\ wireDown \in Seq(Tagged(ResponseTypes))
  BY DEF Inv, TypeOK, ChannelsTypeOK, ProxyTypeOK, MapsByPort, EveryoneKnown,
         QueuesTagged, DeliveredByPort
<1>2. ASSUME NEW type, Request(type)
      PROVE  /\ Head(wireUp) \in Tagged(RequestTypes)
             /\ Head(wireUp).type = type
             /\ wireUp' \in Seq(Tagged(RequestTypes))
             /\ UNCHANGED <<serverMail, socksMail>>
  BY <1>1, <1>2, PopInSeq DEF Request
<1>3. ASSUME NEW types, Mail(types)
      PROVE  /\ Head(proxyMail) \in Tagged(MailTypes)
             /\ Head(proxyMail).type \in types
             /\ proxyMail' \in Seq(Tagged(MailTypes))
             /\ UNCHANGED <<proxy, connecting, readers, forwarder, target, emitted,
                            targetRx, tunnel, wireUp, serverMail, socksMail>>
  BY <1>1, <1>3, PopInSeq DEF Mail, targetVars
<1>4. ASSUME NEW m \in Tagged(MailTypes), Notify(m)
      PROVE  proxyMail' \in Seq(Tagged(MailTypes))
  BY <1>1, <1>4, AppendInSeq DEF Notify
<1>5. ASSUME NEW p \in Ports, NEW c \in SamePort(p) \cup {None},
             connections' = [connections EXCEPT ![p] = c]
      PROVE  MapOK(connections')
  BY <1>1, <1>5 DEF SamePort
<1>6. ASSUME NEW how \in {"panic_data", "panic_send"}, ThreadDies(how)
      PROVE  /\ proxy' \in {"running", "stopped", "panic_data", "panic_send"}
             /\ tunnel' = "down"
             /\ forwarder' \in BOOLEAN
             /\ MapOK(connections')
             /\ connecting' \in SUBSET Known
             /\ readers' \in SUBSET Known
             /\ proxyMail' \in Seq(Tagged(MailTypes))
  BY <1>6, EmptyInSeq DEF ThreadDies
<1>7. CASE HandleRequestAddr
  <2>1. Request("RequestAddr")
    BY <1>7 DEF HandleRequestAddr
  <2>2. Head(wireUp).src \in Known
    BY <1>2, <2>1, TaggedFacts
  <2>3. connecting' \in SUBSET Known
    BY <1>1, <1>7, <2>2 DEF HandleRequestAddr
  <2>4. QED
    BY <1>1, <1>2, <1>7, <2>1, <2>3 DEF HandleRequestAddr, targetVars
<1>8. CASE WriteData
  <2> DEFINE m == Head(wireUp)
             c == Connection(m)
  <2>1. Request("Data")
    BY <1>8 DEF WriteData
  <2>2. PICK n \in (m.lo + 1)..m.hi :
          targetRx' = [targetRx EXCEPT ![c] = Append(targetRx[c],
                         [src |-> m.src, lo |-> m.lo, hi |-> n, end |-> m.hi])]
    BY <1>8 DEF WriteData
  <2>3. /\ m \in Packets(RequestTypes)
        /\ m.src \in Sessions
        /\ m.uuid = PortOf[m.src]
        /\ m.uuid \in Ports
    BY <1>2, <2>1, TaggedFacts
  <2>4. c \in SamePort(m.uuid)
    BY <1>1, <1>8, <2>3 DEF WriteData, Connection
  <2>5. c \in Sessions /\ PortOf[c] = PortOf[m.src]
    BY <2>3, <2>4 DEF SamePort
  <2>6. m.lo \in Nat /\ m.hi \in Nat /\ n \in Nat
    BY <2>2, <2>3 DEF Packets
  <2>7. [src |-> m.src, lo |-> m.lo, hi |-> n, end |-> m.hi] \in WritesOf(c)
    BY <2>3, <2>5, <2>6 DEF Writes, SamePort
  <2>8. Append(targetRx[c], [src |-> m.src, lo |-> m.lo, hi |-> n, end |-> m.hi])
          \in Seq(WritesOf(c))
    BY <1>1, <2>5, <2>7, AppendInSeq
  <2>9. Append(targetRx[c], [src |-> m.src, lo |-> m.lo, hi |-> n, end |-> m.hi])
          \in Seq(Writes)
    BY <2>8, SeqGrows
  <2>10. RxOK(targetRx')
    BY <1>1, <2>2, <2>5, <2>8, <2>9
  <2>11. QED
    BY <1>1, <1>2, <1>8, <2>1, <2>10 DEF WriteData, proxyVars
<1>9. CASE WriteFails
  <2>1. Request("Data")
    BY <1>9 DEF WriteFails
  <2>2. Head(wireUp).uuid \in Ports
    BY <1>2, <2>1, TaggedFacts
  <2>3. MapOK(connections')
    BY <1>5, <1>9, <2>2 DEF WriteFails
  <2>4. QED
    BY <1>1, <1>2, <1>9, <2>1, <2>3 DEF WriteFails, targetVars
<1>10. CASE DataPanics
  <2>1. Request("Data") /\ ThreadDies("panic_data")
    BY <1>10 DEF DataPanics
  <2>2. QED
    BY <1>1, <1>2, <1>6, <1>10, <2>1 DEF DataPanics, targetVars
<1>11. CASE EchoHeartbeat
  <2>1. Request("Heartbeat")
    BY <1>11 DEF EchoHeartbeat
  <2>2. Head(wireUp) \in Tagged(ResponseTypes)
    BY <1>2, <2>1 DEF Tagged, Packets, ResponseTypes
  <2>3. wireDown' \in Seq(Tagged(ResponseTypes))
    BY <1>1, <1>11, <2>2, WriteInSeq DEF EchoHeartbeat
  <2>4. QED
    BY <1>1, <1>2, <1>11, <2>1, <2>3 DEF EchoHeartbeat, proxyVars, targetVars
<1>12. CASE ProxyStops
  BY <1>1, <1>12, EmptyInSeq DEF ProxyStops, targetVars, channelVars
<1>13. CASE HandleEstablished
  <2> DEFINE m == Head(proxyMail)
  <2>1. Mail({"Established"})
    BY <1>13 DEF HandleEstablished
  <2>2. /\ m.src \in Sessions
        /\ m.uuid = PortOf[m.src]
        /\ m.uuid \in Ports
        /\ clients[PortOf[m.src]] # None
    BY <1>3, <2>1, TaggedFacts
  <2>3. m.src \in SamePort(m.uuid)
    BY <2>2 DEF SamePort
  <2>4. MapOK(connections')
    BY <1>5, <1>13, <2>2, <2>3 DEF HandleEstablished
  <2>5. Signal(m.src, "Succeeded") \in Tagged(ResponseTypes)
    BY <2>2, SignalTagged DEF ResponseTypes
  <2>6. wireDown' \in Seq(Tagged(ResponseTypes))
    BY <1>1, <1>13, <2>5, WriteInSeq DEF HandleEstablished
  <2>7. QED
    BY <1>1, <1>3, <2>1, <2>4, <2>6
<1>14. CASE HandleDead
  <2> DEFINE m == Head(proxyMail)
  <2>1. Mail({"Dead"})
    BY <1>14 DEF HandleDead
  <2>2. /\ m.src \in Sessions
        /\ m.uuid \in Ports
        /\ clients[PortOf[m.src]] # None
    BY <1>3, <2>1, TaggedFacts
  <2>3. MapOK(connections')
    BY <1>5, <1>14, <2>2 DEF HandleDead
  <2>4. Signal(m.src, "Abort") \in Tagged(ResponseTypes)
    BY <2>2, SignalTagged DEF ResponseTypes
  <2>5. wireDown' \in Seq(Tagged(ResponseTypes))
    BY <1>1, <1>14, <2>4, WriteInSeq DEF HandleDead
  <2>6. QED
    BY <1>1, <1>3, <2>1, <2>3, <2>5
<1>15. CASE HandleProxyResponse
  <2>1. Mail(ResponseTypes)
    BY <1>15 DEF HandleProxyResponse
  <2>2. Head(proxyMail) \in Tagged(ResponseTypes)
    BY <1>3, <2>1 DEF Tagged, Packets
  <2>3. wireDown' \in Seq(Tagged(ResponseTypes))
    BY <1>1, <1>15, <2>2, WriteInSeq DEF HandleProxyResponse
  <2>4. QED
    BY <1>1, <1>3, <1>15, <2>1, <2>3 DEF HandleProxyResponse
<1>16. CASE ForwarderFails
  BY <1>1, <1>16 DEF ForwarderFails, targetVars, channelVars
<1>17. CASE SendPanics
  <2>1. ThreadDies("panic_send")
    BY <1>17 DEF SendPanics
  <2>2. QED
    BY <1>1, <1>6, <1>17, <2>1 DEF SendPanics, targetVars
<1>18. ASSUME NEW c \in Sessions, ConnectSucceeds(c)
       PROVE  Good
  <2>1. c \in Known /\ connecting' \in SUBSET Known /\ readers' \in SUBSET Known
    BY <1>1, <1>18 DEF ConnectSucceeds
  <2>2. Signal(c, "Established") \in Tagged(MailTypes)
    BY <2>1, SignalTagged DEF MailTypes
  <2>3. proxyMail' \in Seq(Tagged(MailTypes))
    BY <1>4, <1>18, <2>2 DEF ConnectSucceeds
  <2>4. target' \in [Sessions -> {"none", "open", "eof", "reset"}]
    BY <1>1, <1>18 DEF ConnectSucceeds
  <2>5. QED
    BY <1>1, <1>18, <2>1, <2>3, <2>4 DEF ConnectSucceeds, channelVars
<1>19. ASSUME NEW c \in Sessions, ConnectFails(c)
       PROVE  Good
  <2>1. c \in Known /\ connecting' \in SUBSET Known
    BY <1>1, <1>19 DEF ConnectFails
  <2>2. PICK how \in {"Timeout", "ConnectionRefused"} : Notify(Signal(c, how))
    BY <1>19 DEF ConnectFails
  <2>3. Signal(c, how) \in Tagged(MailTypes)
    BY <2>1, <2>2, SignalTagged DEF MailTypes, ResponseTypes
  <2>4. proxyMail' \in Seq(Tagged(MailTypes))
    BY <1>4, <2>2, <2>3
  <2>5. QED
    BY <1>1, <1>19, <2>1, <2>4 DEF ConnectFails, targetVars, channelVars
<1>20. ASSUME NEW c \in Sessions, TargetSends(c)
       PROVE  Good
  <2>1. c \in Known
    BY <1>1, <1>20 DEF TargetSends
  <2>2. PICK hi \in (emitted[c] + 1)..MaxDown :
          /\ emitted' = [emitted EXCEPT ![c] = hi]
          /\ Notify(Packet(c, "Data", emitted[c], hi))
    BY <1>20 DEF TargetSends
  <2>3. hi \in Nat /\ emitted[c] \in Nat
    BY <1>1, <2>2, BoundAssumption
  <2>4. Packet(c, "Data", emitted[c], hi) \in Tagged(MailTypes)
    BY <2>1, <2>3, PacketTagged DEF MailTypes, ResponseTypes
  <2>5. proxyMail' \in Seq(Tagged(MailTypes))
    BY <1>4, <2>2, <2>4
  <2>6. emitted' \in [Sessions -> Nat]
    BY <1>1, <2>2, <2>3
  <2>7. QED
    BY <1>1, <1>20, <2>5, <2>6 DEF TargetSends, channelVars
<1>21. ASSUME NEW c \in Sessions, TargetCloses(c)
       PROVE  Good
  <2>1. target' \in [Sessions -> {"none", "open", "eof", "reset"}]
    BY <1>1, <1>21 DEF TargetCloses
  <2>2. QED
    BY <1>1, <1>21, <2>1 DEF TargetCloses, channelVars
<1>22. ASSUME NEW c \in Sessions, TargetResets(c)
       PROVE  Good
  <2>1. c \in Known /\ readers' \in SUBSET Known
    BY <1>1, <1>22 DEF TargetResets
  <2>2. Signal(c, "Dead") \in Tagged(MailTypes)
    BY <2>1, SignalTagged DEF MailTypes
  <2>3. proxyMail' \in Seq(Tagged(MailTypes))
    BY <1>4, <1>22, <2>2 DEF TargetResets
  <2>4. target' \in [Sessions -> {"none", "open", "eof", "reset"}]
    BY <1>1, <1>22 DEF TargetResets
  <2>5. QED
    BY <1>1, <1>22, <2>1, <2>3, <2>4 DEF TargetResets, channelVars
<1>23. QED
  BY <1>7, <1>8, <1>9, <1>10, <1>11, <1>12, <1>13, <1>14, <1>15, <1>16, <1>17,
     <1>18, <1>19, <1>20, <1>21, <1>22
  DEF ProxyNext

-----------------------------------------------------------------------------
\* Every step of the system preserves the invariant.
LEMMA NextInv == Inv /\ [Next]_vars => Inv'
<1> SUFFICES ASSUME Inv, [Next]_vars PROVE Inv'
  OBVIOUS
<1>1. CASE (\E s \in Sessions : SocksNext(s)) /\ SocksFrame
  BY <1>1, SocksStep
<1>2. CASE ServerNext /\ ServerFrame
  BY <1>2, ServerStep
<1>3. CASE ProxyNext /\ ProxyFrame
  BY <1>3, ProxyStep
<1>4. CASE BreakTunnel /\ UNCHANGED <<socksVars, serverVars, proxyVars, targetVars>>
  <2>1. /\ tunnel' = "down"
        /\ UNCHANGED <<wireUp, wireDown, serverMail, socksMail, socksVars, serverVars,
                       proxyVars, targetVars>>
    BY <1>4 DEF BreakTunnel
  <2>2. QueuesTagged'
    BY <2>1 DEF Inv, QueuesTagged, Tagged, serverVars, proxyVars
  <2>3. DeliveredByPort'
    BY <2>1 DEF Inv, DeliveredByPort, socksVars, targetVars
  <2>4. Shape'
    BY <2>1, ShapeIsType
    DEF Inv, Shape, SocksTypeOK, ServerTypeOK, socksVars, serverVars, proxyVars, targetVars
  <2>5. MapsByPort' /\ EveryoneKnown' /\ ResponsesRoutable'
    BY <2>1
    DEF Inv, MapsByPort, EveryoneKnown, ResponsesRoutable, socksVars, serverVars, proxyVars
  <2>6. QED
    BY <2>2, <2>3, <2>4, <2>5, ShapeIsType, PTL DEF Inv
<1>5. CASE UNCHANGED vars
  BY <1>5
  DEF vars, channelVars, socksVars, serverVars, proxyVars, targetVars, Inv, TypeOK,
      ChannelsTypeOK, SocksTypeOK, ServerTypeOK, ProxyTypeOK, ResponsesRoutable,
      MapsByPort, EveryoneKnown, QueuesTagged, Tagged, DeliveredByPort
<1>6. QED
  BY <1>1, <1>2, <1>3, <1>4, <1>5 DEF Next

\* Everything on its way carries the port of its session, the client knows
\* that port, and the two maps (client.rs:177, server.rs:73) keep each port's
\* own sessions: for any number of sessions, ports reused or not.
THEOREM Invariance == Spec => []Inv
BY InitInv, NextInv, PTL DEF Spec

\* Every variable keeps its type.
THEOREM TypeCorrect == Spec => []TypeOK
<1>1. Inv => TypeOK
  BY DEF Inv
<1>2. QED
  BY <1>1, Invariance, PTL

\* No response makes the routing of client.rs:91-131 panic and take the client
\* process down, however late it arrives.
THEOREM NoRoutingPanic == Spec => []ResponsesRoutable
<1>1. Inv => ResponsesRoutable
  BY DEF Inv
<1>2. QED
  BY <1>1, Invariance, PTL

\* What is delivered by port stems from that port.
LEMMA InvConfines == Inv => PortConfinement
<1> SUFFICES ASSUME Inv, NEW s \in Sessions
             PROVE  /\ \A i \in 1..Len(appRx[s]) : /\ appRx[s][i].uuid = PortOf[s]
                                                   /\ PortOf[appRx[s][i].src] = PortOf[s]
                    /\ \A i \in 1..Len(targetRx[s]) : PortOf[targetRx[s][i].src] = PortOf[s]
  BY DEF PortConfinement
<1>1. ASSUME NEW i \in 1..Len(appRx[s])
      PROVE  appRx[s][i].uuid = PortOf[s] /\ PortOf[appRx[s][i].src] = PortOf[s]
  <2>1. appRx[s] \in Seq(OfPort(PortOf[s], AppTypes))
    BY DEF Inv, DeliveredByPort
  <2>2. appRx[s][i] \in OfPort(PortOf[s], AppTypes)
    BY <1>1, <2>1, AllInSeq
  <2>3. QED
    BY <2>2 DEF OfPort, SamePort
<1>2. ASSUME NEW i \in 1..Len(targetRx[s])
      PROVE  PortOf[targetRx[s][i].src] = PortOf[s]
  <2>1. targetRx[s] \in Seq({w \in Writes : w.src \in SamePort(PortOf[s])})
    BY DEF Inv, DeliveredByPort
  <2>2. targetRx[s][i] \in {w \in Writes : w.src \in SamePort(PortOf[s])}
    BY <1>2, <2>1, AllInSeq
  <2>3. QED
    BY <2>2 DEF SamePort
<1>3. QED
  BY <1>1, <1>2

\* Sessions are confused at most with sessions of the same port, end to end
\* through socks.rs, client.rs and server.rs.
THEOREM Confinement == Spec => []PortConfinement
BY Invariance, InvConfines, PTL

=============================================================================
