---------------------------- MODULE SessionProofs ----------------------------
(***************************************************************************)
(* Proofs that SessionInv is an invariant of Spec, for every number of     *)
(* sessions, and what it says of the sessions with a port of their own.    *)
(***************************************************************************)
EXTENDS SessionOrder, JustProxyProofs

(* Queues.                                                                 *)

\* The empty queue.
LEMMA ElemsEmpty == Elems(<< >>) = {} /\ Ordered(<< >>)
BY DEF Elems, Ordered

\* What appending does to a queue.
LEMMA ElemsAppend ==
  ASSUME NEW S, NEW q \in Seq(S), NEW m \in S
  PROVE  Elems(Append(q, m)) = Elems(q) \cup {m}
<1>1. /\ Len(Append(q, m)) = Len(q) + 1
      /\ Append(q, m)[Len(q) + 1] = m
      /\ \A i \in 1..Len(q) : Append(q, m)[i] = q[i]
  OBVIOUS
<1>2. QED
  BY <1>1 DEF Elems

\* A packet that may be behind all packets of an ordered queue may be appended.
LEMMA OrderedAppend ==
  ASSUME NEW S, NEW q \in Seq(S), NEW m \in S, Ordered(q), InFront(Elems(q), {m})
  PROVE  Ordered(Append(q, m))
<1>1. /\ Len(Append(q, m)) = Len(q) + 1
      /\ Append(q, m)[Len(q) + 1] = m
      /\ \A i \in 1..Len(q) : Append(q, m)[i] = q[i]
  OBVIOUS
<1>2. \A i \in 1..Len(q) : Before(q[i], m)
  BY DEF InFront, Elems
<1>3. ASSUME NEW i \in 1..Len(Append(q, m)), NEW j \in 1..Len(Append(q, m)), i < j
      PROVE  Before(Append(q, m)[i], Append(q, m)[j])
  <2>1. CASE j \in 1..Len(q)
    BY <1>1, <1>3, <2>1 DEF Ordered
  <2>2. CASE j = Len(q) + 1
    BY <1>1, <1>2, <1>3, <2>2
  <2>3. QED
    BY <1>1, <2>1, <2>2
<1>4. QED
  BY <1>3 DEF Ordered

\* The first packet of an ordered queue is in front of the others.
LEMMA ElemsPop ==
  ASSUME NEW S, NEW q \in Seq(S), q # << >>, Ordered(q)
  PROVE  /\ Elems(q) = {Head(q)} \cup Elems(Tail(q))
         /\ Ordered(Tail(q))
         /\ InFront({Head(q)}, Elems(Tail(q)))
<1>1. /\ Len(q) \in Nat \ {0}
      /\ Len(Tail(q)) = Len(q) - 1
      /\ Head(q) = q[1]
      /\ \A i \in 1..(Len(q) - 1) : Tail(q)[i] = q[i + 1]
  OBVIOUS
<1>2. Elems(q) \subseteq {Head(q)} \cup Elems(Tail(q))
  <2> SUFFICES ASSUME NEW i \in 1..Len(q), i # 1
               PROVE  q[i] \in Elems(Tail(q))
    BY <1>1 DEF Elems
  <2>1. i - 1 \in 1..Len(Tail(q)) /\ Tail(q)[i - 1] = q[i]
    BY <1>1
  <2>2. QED
    BY <2>1 DEF Elems
<1>3. {Head(q)} \cup Elems(Tail(q)) \subseteq Elems(q)
  BY <1>1 DEF Elems
<1>4. Ordered(Tail(q))
  BY <1>1 DEF Ordered
<1>5. InFront({Head(q)}, Elems(Tail(q)))
  BY <1>1 DEF Ordered, InFront, Elems
<1>6. QED
  BY <1>2, <1>3, <1>4, <1>5

\* What is in a queue over S is in S.
LEMMA ElemsSubset ==
  ASSUME NEW S, NEW q \in Seq(S)
  PROVE  Elems(q) \subseteq S
BY AllInSeq DEF Elems

-----------------------------------------------------------------------------
(* Chains of data.                                                         *)

Packety(S) == \A m \in S : m.lo \in Nat /\ m.hi \in Nat

\* Data that begins where the chain ends continues it.
LEMMA ChainPush ==
  ASSUME NEW S, NEW from \in Nat, NEW to \in Nat, NEW m, m.lo = to,
         Chained(S, from), ReachesTo(S, from, to)
  PROVE  /\ Chained(S \cup {m}, from)
         /\ m.type = "Data" => ReachesTo(S \cup {m}, from, m.hi)
<1>1. Data(S) \subseteq Data(S \cup {m}) /\ Data(S \cup {m}) \subseteq Data(S) \cup {m}
  BY DEF Data
<1>2. m.type = "Data" => m \in Data(S \cup {m})
  BY DEF Data
<1>3. QED
  BY <1>1, <1>2 DEF Chained, ReachesTo

\* The first piece of data of a chain begins where the chain does, and what is
\* left is a chain from its end on.
LEMMA ChainPop ==
  ASSUME NEW S, NEW T, NEW from \in Nat, NEW m, m \in Data(S), Data(S) = {m} \cup Data(T),
         Packety(S), \A n \in Data(S) : n.lo < n.hi,
         \A n \in Data(T) : m.hi <= n.lo,
         Chained(S, from)
  PROVE  /\ m.lo = from
         /\ Chained(T, m.hi)
         /\ \A to \in Nat : m.hi <= to /\ ReachesTo(S, from, to) => ReachesTo(T, m.hi, to)
<1>0. /\ m \in S /\ m.lo \in Nat /\ m.hi \in Nat /\ m.lo < m.hi
      /\ \A n \in Data(S) : n.lo \in Nat /\ n.hi \in Nat /\ n.lo < n.hi
      /\ \A n \in Data(T) : n \in Data(S)
  BY DEF Data, Packety
<1>1. m.lo = from
  <2>1. ASSUME NEW n \in Data(S), n.hi = m.lo
        PROVE  FALSE
    BY <1>0, <2>1
  <2>2. QED
    BY <2>1 DEF Chained
<1>2. Chained(T, m.hi)
  <2> SUFFICES ASSUME NEW n \in Data(T)
               PROVE  n.lo = m.hi \/ \E k \in Data(T) : k.hi = n.lo
    BY DEF Chained
  <2>1. n.lo # from
    BY <1>0, <1>1
  <2>2. PICK k \in Data(S) : k.hi = n.lo
    BY <1>0, <2>1 DEF Chained
  <2>3. QED
    BY <2>2
<1>3. ASSUME NEW to \in Nat, m.hi <= to, ReachesTo(S, from, to)
      PROVE  ReachesTo(T, m.hi, to)
  BY <1>0, <1>1, <1>3 DEF ReachesTo
<1>4. QED
  BY <1>1, <1>2, <1>3

\* The front of a chain is a chain.
LEMMA ChainCut ==
  ASSUME NEW S, NEW T, NEW from \in Nat, Packety(S \cup T),
         \A n \in Data(S \cup T) : n.lo < n.hi,
         \A m \in Data(S), n \in Data(T) : m.hi <= n.lo,
         Chained(S \cup T, from)
  PROVE  Chained(S, from)
<1> SUFFICES ASSUME NEW m \in Data(S), m.lo # from
             PROVE  \E n \in Data(S) : n.hi = m.lo
  BY DEF Chained
<1>1. m \in Data(S \cup T)
  BY DEF Data
<1>2. PICK n \in Data(S \cup T) : n.hi = m.lo
  BY <1>1 DEF Chained
<1>3. /\ m.lo \in Nat /\ m.hi \in Nat /\ m.lo < m.hi
      /\ n.lo \in Nat /\ n.hi \in Nat /\ n.lo < n.hi
  BY <1>1, <1>2 DEF Data, Packety
<1>4. n \in Data(S) \/ n \in Data(T)
  BY DEF Data
<1>5. QED
  BY <1>2, <1>3, <1>4

-----------------------------------------------------------------------------
(* Two queues in line.                                                     *)

\* Packets that may stand in for each other: the handlers pass a packet on
\* under another type, and the order does not notice.
Alike(m, n) ==
  /\ m.src = n.src
  /\ m.type \in Opening <=> n.type \in Opening
  /\ m.type \in Closing <=> n.type \in Closing
  /\ m.type = "Data" <=> n.type = "Data"
  /\ m.type = "Data" => m.lo = n.lo /\ m.hi = n.hi

\* What may be in front of a packet, or behind it, may be so of one like it.
LEMMA AlikeOrder ==
  ASSUME NEW m, NEW n, Alike(m, n), NEW S
  PROVE  /\ InFront(S, {m}) => InFront(S, {n})
         /\ InFront({m}, S) => InFront({n}, S)
BY DEF Alike, InFront, Before

\* InFront and sets.
LEMMA InFrontSets ==
  ASSUME NEW S, NEW T, NEW U
  PROVE  /\ InFront(S \cup T, U) <=> InFront(S, U) /\ InFront(T, U)
         /\ InFront(U, S \cup T) <=> InFront(U, S) /\ InFront(U, T)
         /\ InFront({}, U) /\ InFront(U, {})
         /\ T \subseteq S /\ InFront(S, U) => InFront(T, U)
         /\ T \subseteq S /\ InFront(U, S) => InFront(U, T)
BY DEF InFront

\* A packet joins the end of the line.
LEMMA LinePush ==
  ASSUME NEW S, NEW a, NEW b \in Seq(S), InLine(a, b), NEW m \in S,
         InFront(Elems(a), {m}), InFront(Elems(b), {m})
  PROVE  InLine(a, Append(b, m))
<1>1. Elems(Append(b, m)) = Elems(b) \cup {m}
  BY ElemsAppend
<1>2. Ordered(Append(b, m))
  BY OrderedAppend DEF InLine
<1>3. InFront(Elems(a), Elems(b) \cup {m})
  BY InFrontSets DEF InLine
<1>4. QED
  BY <1>1, <1>2, <1>3 DEF InLine

\* The first packet of the second queue, or one like it, passes to the first.
LEMMA LineMove ==
  ASSUME NEW S, NEW T, NEW a \in Seq(S), NEW b \in Seq(T), b # << >>, InLine(a, b),
         NEW m \in S, Alike(Head(b), m)
  PROVE  InLine(Append(a, m), Tail(b)) /\ InLine(a, Tail(b))
<1>1. /\ Elems(b) = {Head(b)} \cup Elems(Tail(b))
      /\ Ordered(Tail(b))
      /\ InFront({Head(b)}, Elems(Tail(b)))
  BY ElemsPop DEF InLine
<1>2. InFront(Elems(a), {Head(b)}) /\ InFront(Elems(a), Elems(Tail(b)))
  BY <1>1, InFrontSets DEF InLine
<1>3. InFront(Elems(a), {m}) /\ InFront({m}, Elems(Tail(b)))
  BY <1>1, <1>2, AlikeOrder
<1>4. Elems(Append(a, m)) = Elems(a) \cup {m} /\ Ordered(Append(a, m))
  BY <1>3, ElemsAppend, OrderedAppend DEF InLine
<1>5. InFront(Elems(a) \cup {m}, Elems(Tail(b)))
  BY <1>2, <1>3, InFrontSets
<1>6. QED
  BY <1>1, <1>2, <1>4, <1>5 DEF InLine

\* The first packet leaves the line.
LEMMA LinePop ==
  ASSUME NEW S, NEW a \in Seq(S), NEW b, a # << >>, InLine(a, b)
  PROVE  InLine(Tail(a), b)
<1>1. Elems(a) = {Head(a)} \cup Elems(Tail(a)) /\ Ordered(Tail(a))
  BY ElemsPop DEF InLine
<1>2. InFront(Elems(Tail(a)), Elems(b))
  BY <1>1, InFrontSets DEF InLine
<1>3. QED
  BY <1>1, <1>2 DEF InLine

\* A queue that is lost leaves the other in order.
LEMMA LineEmpty ==
  ASSUME NEW a, NEW b, InLine(a, b)
  PROVE  InLine(<< >>, b) /\ InLine(a, << >>)
BY ElemsEmpty, InFrontSets DEF InLine

-----------------------------------------------------------------------------
(* What the queues hold.                                                   *)

\* What is on its way up for a session is its request or its data.
LEMMA UpFacts ==
  ASSUME Inv, NEW s \in Sessions, NEW m \in Up(s)
  PROVE  /\ m.src = s
         /\ m.type \in {"RequestAddr", "Data"}
         /\ m.uuid = PortOf[s]
         /\ m.lo \in Nat /\ m.hi \in Nat
<1>1. m \in Tagged(RequestTypes) /\ m.src = s
  BY ElemsSubset DEF Inv, QueuesTagged, Up, WrittenUp, Held
<1>2. m \in Packets(RequestTypes) /\ m.type # "Heartbeat"
  BY <1>1, TaggedFacts, NoneAssumption
<1>3. QED
  BY <1>1, <1>2, TaggedFacts DEF Packets, RequestTypes

\* Only a session's own packets are in the mailbox of a session with a port of
\* its own.
LEMMA OwnMail ==
  ASSUME Inv, NEW s \in OwnPort
  PROVE  /\ s \in Sessions
         /\ socksMail[s] \in Seq(Packets(ConnectorTypes))
         /\ \A m \in Elems(socksMail[s]) :
              /\ m.src = s
              /\ m.uuid = PortOf[s]
              /\ m.type \in ConnectorTypes
              /\ m.lo \in Nat /\ m.hi \in Nat
<1>1. s \in Sessions /\ SamePort(PortOf[s]) = {s}
  BY DEF OwnPort, UniquePort, SamePort
<1>2. socksMail[s] \in Seq(OfPort(PortOf[s], ConnectorTypes))
  BY <1>1 DEF Inv, DeliveredByPort
<1>3. Elems(socksMail[s]) \subseteq OfPort(PortOf[s], ConnectorTypes)
  BY <1>2, ElemsSubset
<1>4. socksMail[s] \in Seq(Packets(ConnectorTypes))
  BY <1>2, OfPortSubset, SeqGrows
<1>5. QED
  BY <1>1, <1>3, <1>4 DEF OfPort, Packets

\* What is on its way down for a session is about that session.
LEMMA DownFacts ==
  ASSUME Inv, NEW s \in OwnPort, NEW m \in Down(s)
  PROVE  /\ m.src = s
         /\ m.type \in Opening \cup Closing \cup {"Data"}
         /\ m.type # "RequestAddr"
         /\ m.uuid = PortOf[s]
         /\ m.lo \in Nat /\ m.hi \in Nat
<1>0. s \in Sessions /\ m.src = s
  BY DEF OwnPort, Down, WrittenDown, Held
<1>1. CASE m \in Elems(socksMail[s])
  BY <1>1, OwnMail DEF ConnectorTypes, Opening, Closing, Success, Failure
<1>2. CASE m \in Elems(wireDown) \cup Elems(proxyMail)
  <2>1. m \in Tagged(ResponseTypes) \/ m \in Tagged(MailTypes)
    BY <1>2, ElemsSubset DEF Inv, QueuesTagged
  <2>2. m \in Tagged(MailTypes)
    BY <2>1, TaggedMore DEF MailTypes
  <2>3. m \in Packets(MailTypes) /\ m.type # "Heartbeat"
    BY <1>0, <2>2, TaggedFacts, NoneAssumption
  <2>4. QED
    BY <1>0, <2>2, <2>3, TaggedFacts
    DEF Packets, MailTypes, ResponseTypes, Opening, Closing, Success, Failure
<1>3. QED
  BY <1>1, <1>2 DEF Down, WrittenDown, Held

\* A packet about no session, or about one that shares its port, may be
\* anywhere; and so may heartbeats.
LEMMA OthersAnywhere ==
  ASSUME NEW m, m.src \notin OwnPort, NEW S
  PROVE  InFront(S, {m}) /\ InFront({m}, S)
BY DEF InFront, Before

\* A new packet of session c may be behind all that is on its way up.
LEMMA BehindUp ==
  ASSUME NEW m, m.src \in OwnPort => InFront(Up(m.src), {m})
  PROVE  InFront(Elems(wireUp), {m}) /\ InFront(Elems(serverMail), {m})
BY DEF InFront, Before, Up, WrittenUp, Held

\* The same for what is on its way down.
LEMMA BehindDown ==
  ASSUME Inv, NEW m, m.src \in OwnPort => InFront(Down(m.src), {m})
  PROVE  /\ InFront(Elems(wireDown), {m}) /\ InFront(Elems(proxyMail), {m})
         /\ \A s \in OwnPort : InFront(Elems(socksMail[s]), {m})
<1>1. InFront(Elems(wireDown), {m}) /\ InFront(Elems(proxyMail), {m})
  BY DEF InFront, Before, Down, WrittenDown, Held
<1>2. ASSUME NEW s \in OwnPort
      PROVE  InFront(Elems(socksMail[s]), {m})
  BY OwnMail DEF InFront, Before, Down, WrittenDown, Held
<1>3. QED
  BY <1>1, <1>2

\* What a packet keeps when it is passed on under another type.
LEMMA RetypedFields ==
  ASSUME NEW types, NEW m \in Packets(types), NEW type
  PROVE  /\ [m EXCEPT !.type = type].type = type
         /\ [m EXCEPT !.type = type].src = m.src
         /\ [m EXCEPT !.type = type].uuid = m.uuid
         /\ [m EXCEPT !.type = type].lo = m.lo
         /\ [m EXCEPT !.type = type].hi = m.hi
BY DEF Packets

\* What the Server hands to a session (client.rs:104-126).
LEMMA ConnectorFields ==
  ASSUME NEW m \in Packets(ResponseTypes)
  PROVE  LET n == ToConnectorResponse(m) IN
         /\ n.type = IF m.type \in {"ConnectionRefused", "Timeout"} THEN "Failed" ELSE m.type
         /\ n.src = m.src
         /\ n.lo = m.lo
         /\ n.hi = m.hi
         /\ Alike(m, n)
<1> DEFINE type == IF m.type \in {"ConnectionRefused", "Timeout"} THEN "Failed" ELSE m.type
<1>1. ToConnectorResponse(m) = [m EXCEPT !.type = type]
  BY Zenon DEF ToConnectorResponse
<1> HIDE DEF type
<1>2. /\ ToConnectorResponse(m).type = type
      /\ ToConnectorResponse(m).src = m.src
      /\ ToConnectorResponse(m).lo = m.lo
      /\ ToConnectorResponse(m).hi = m.hi
  BY <1>1, RetypedFields
<1>3. Alike(m, ToConnectorResponse(m))
  BY <1>2 DEF type, Alike, Opening, Closing, Success, Failure
<1>4. QED
  BY <1>2, <1>3 DEF type

-----------------------------------------------------------------------------
(* Every step keeps the order.                                             *)

\* A new packet in serverMail.
LEMMA ServerMailPush ==
  ASSUME Inv, UpOrder, NEW m \in Tagged(RequestTypes),
         m.src \in OwnPort => InFront(Up(m.src), {m}),
         serverMail' = Append(serverMail, m), wireUp' = wireUp
  PROVE  UpOrder'
<1>1. InLine(wireUp, Append(serverMail, m))
  BY BehindUp, LinePush DEF Inv, QueuesTagged, UpOrder
<1>2. QED
  BY <1>1 DEF UpOrder

\* A new packet in proxyMail.
LEMMA ProxyMailPush ==
  ASSUME Inv, DownOrder, NEW m \in Tagged(MailTypes),
         m.src \in OwnPort => InFront(Down(m.src), {m}),
         Notify(m), UNCHANGED <<wireDown, socksMail>>
  PROVE  DownOrder'
<1>1. CASE proxyMail' = proxyMail
  BY <1>1 DEF DownOrder
<1>2. CASE proxyMail' = Append(proxyMail, m)
  <2>1. proxyMail \in Seq(Tagged(MailTypes))
    BY DEF Inv, QueuesTagged
  <2>2. InLine(wireDown, Append(proxyMail, m))
    BY <2>1, BehindDown, LinePush DEF DownOrder
  <2>3. \A s \in OwnPort : InLine(socksMail[s], Append(proxyMail, m))
    BY <2>1, BehindDown, LinePush DEF DownOrder
  <2>4. QED
    BY <1>2, <2>2, <2>3 DEF DownOrder
<1>3. QED
  BY <1>1, <1>2 DEF Notify

\* The steps of a SocksClient.
LEMMA OrderSocks ==
  ASSUME SessionInv, NEW s \in Sessions, SocksNext(s), SocksFrame
  PROVE  UpOrder' /\ DownOrder'
<1>1. UNCHANGED <<wireUp, wireDown, proxyMail>>
  BY DEF SocksFrame, proxyVars
<1>2. Inv /\ UpOrder /\ DownOrder /\ socksMail \in [Sessions -> Seq(Packets(ConnectorTypes))]
  BY DEF SessionInv, Inv, TypeOK, ChannelsTypeOK
<1>3. ASSUME NEW f, socksMail' = [socksMail EXCEPT ![s] = f],
             f = << >> \/ (socksMail[s] # << >> /\ f = Tail(socksMail[s]))
      PROVE  DownOrder'
  <2> SUFFICES ASSUME NEW t \in OwnPort
               PROVE  InLine(socksMail'[t], wireDown) /\ InLine(socksMail'[t], proxyMail)
    BY <1>1, <1>2 DEF DownOrder
  <2>1. t \in Sessions /\ InLine(socksMail[t], wireDown) /\ InLine(socksMail[t], proxyMail)
    BY <1>2 DEF DownOrder, OwnPort
  <2>2. socksMail[t] \in Seq(Packets(ConnectorTypes))
    BY <1>2, <2>1
  <2>3. /\ InLine(<< >>, wireDown) /\ InLine(<< >>, proxyMail)
        /\ socksMail[t] # << >> =>
             InLine(Tail(socksMail[t]), wireDown) /\ InLine(Tail(socksMail[t]), proxyMail)
    BY <2>1, <2>2, LinePop, LineEmpty
  <2>4. socksMail'[t] = IF t = s THEN f ELSE socksMail[t]
    BY <1>2, <1>3, <2>1
  <2>5. QED
    BY <1>3, <2>1, <2>3, <2>4
<1>4. ASSUME UNCHANGED serverMail PROVE UpOrder'
  BY <1>1, <1>2, <1>4 DEF UpOrder
<1>5. ASSUME UNCHANGED socksMail PROVE DownOrder'
  BY <1>1, <1>2, <1>5 DEF DownOrder
<1>6. ASSUME NEW type, NEW lo, NEW hi
      PROVE  Packet(s, type, lo, hi).src = s /\ Packet(s, type, lo, hi).type = type
             /\ Packet(s, type, lo, hi).lo = lo /\ Packet(s, type, lo, hi).hi = hi
  BY DEF Packet
<1>7. sock[s] # "none" => clients[PortOf[s]] # None
  BY <1>2 DEF Inv, EveryoneKnown
<1>8. s \in OwnPort => SessionOK(s)
  BY DEF SessionInv
<1>9. CASE HandleNegotiation(s)
  BY <1>4, <1>5, <1>9 DEF HandleNegotiation
<1>10. CASE HandleTargetRequest(s)
  <2>1. Signal(s, "RequestAddr") \in Tagged(RequestTypes)
    BY <1>7, <1>10, SignalTagged DEF HandleTargetRequest, RequestTypes
  <2>2. s \in OwnPort => Up(s) = {}
    BY <1>8, <1>10 DEF SessionOK, CodecState, AsksOnce, HandleTargetRequest
  <2>3. s \in OwnPort => InFront(Up(s), {Signal(s, "RequestAddr")})
    BY <2>2 DEF InFront
  <2>4. Signal(s, "RequestAddr").src = s /\ serverMail' = Append(serverMail, Signal(s, "RequestAddr"))
    BY <1>6, <1>10 DEF HandleTargetRequest, Signal
  <2>5. UpOrder'
    BY <1>1, <1>2, <2>1, <2>3, <2>4, ServerMailPush
  <2>6. QED
    BY <1>5, <1>10, <2>5 DEF HandleTargetRequest
<1>11. CASE HandleData(s)
  <2>1. PICK hi \in (sent[s] + 1)..MaxUp :
          serverMail' = Append(serverMail, Packet(s, "Data", sent[s], hi))
    BY <1>11 DEF HandleData
  <2>2. hi \in Nat /\ sent[s] \in Nat
    BY <1>2, <2>1, BoundAssumption DEF Inv, TypeOK, SocksTypeOK
  <2>3. Packet(s, "Data", sent[s], hi) \in Tagged(RequestTypes)
    BY <1>7, <1>11, <2>2, PacketTagged DEF HandleData, RequestTypes
  <2>4. ASSUME s \in OwnPort, NEW m \in Up(s)
        PROVE  Before(m, Packet(s, "Data", sent[s], hi))
    <3>1. m.type \in {"RequestAddr", "Data"}
      BY <1>2, <2>4, UpFacts
    <3>2. m.type = "Data" => m.hi <= sent[s]
      BY <1>8, <2>4 DEF SessionOK, UpPackets, Data
    <3>3. QED
      BY <1>6, <3>1, <3>2 DEF Before, Opening, Closing, Success, Failure
  <2>5. UpOrder'
    BY <1>1, <1>2, <1>6, <2>1, <2>3, <2>4, ServerMailPush DEF InFront
  <2>6. QED
    BY <1>5, <1>11, <2>5 DEF HandleData
<1>12. CASE DecodePanics(s) \/ AppCloses(s) \/ HandleAbort(s)
  BY <1>3, <1>4, <1>12 DEF DecodePanics, AppCloses, HandleAbort, Received, End
<1>13. CASE HandleReply(s)
  BY <1>3, <1>4, <1>13 DEF HandleReply, Received, End, Pop
<1>14. CASE HandleConnectorData(s)
  BY <1>3, <1>4, <1>14 DEF HandleConnectorData, Received, Pop
<1>15. QED
  BY <1>9, <1>10, <1>11, <1>12, <1>13, <1>14 DEF SocksNext

\* The steps of the client's Server.
LEMMA OrderServer ==
  ASSUME SessionInv, ServerNext, ServerFrame
  PROVE  UpOrder' /\ DownOrder'
<1>1. UNCHANGED proxyMail
  BY DEF ServerFrame, proxyVars
<1>2. /\ Inv /\ UpOrder /\ DownOrder
      /\ socksMail \in [Sessions -> Seq(Packets(ConnectorTypes))]
      /\ hb_index \in Nat
      /\ serverMail \in Seq(Tagged(RequestTypes))
      /\ wireUp \in Seq(Tagged(RequestTypes))
      /\ wireDown \in Seq(Tagged(ResponseTypes))
  BY DEF SessionInv, Inv, TypeOK, ChannelsTypeOK, ServerTypeOK, QueuesTagged
<1>3. ASSUME UNCHANGED <<wireUp, serverMail>> PROVE UpOrder'
  BY <1>2, <1>3 DEF UpOrder
<1>4. ASSUME UNCHANGED <<wireDown, socksMail>> PROVE DownOrder'
  BY <1>1, <1>2, <1>4 DEF DownOrder
<1>5. ASSUME NEW m \in Tagged(RequestTypes), serverMail # << >>, Alike(Head(serverMail), m),
             serverMail' = Tail(serverMail), wireUp' = Write(wireUp, m)
      PROVE  UpOrder'
  <2>1. InLine(Append(wireUp, m), Tail(serverMail)) /\ InLine(wireUp, Tail(serverMail))
    BY <1>2, <1>5, LineMove DEF UpOrder
  <2>2. QED
    BY <1>5, <2>1 DEF UpOrder, Write
<1>6. ASSUME NEW i \in Nat
      PROVE  /\ HeartbeatPacket(i).type = "Heartbeat" /\ HeartbeatPacket(i).src = None
             /\ HeartbeatPacket(i) \in Tagged(RequestTypes)
             /\ None \notin OwnPort
  BY HeartbeatTagged, NoneAssumption DEF HeartbeatPacket, RequestTypes, OwnPort
<1>7. CASE \E s \in Sessions : SocksConnected(s)
  BY <1>3, <1>4, <1>7 DEF SocksConnected, channelVars
<1>8. ASSUME NEW how, ProcessDies(how), InLine(wireDown', proxyMail),
             InLine(<< >>, wireDown'), InLine(<< >>, proxyMail)
      PROVE  DownOrder'
  <2>1. \A s \in OwnPort : socksMail'[s] = << >>
    BY <1>8 DEF ProcessDies, OwnPort
  <2>2. QED
    BY <1>1, <1>8, <2>1 DEF DownOrder
<1>9. CASE \E s \in Sessions : AcceptPanics(s)
  <2>1. UpOrder'
    BY <1>3, <1>9 DEF AcceptPanics
  <2>2. InLine(wireDown, proxyMail) /\ InLine(<< >>, wireDown) /\ InLine(<< >>, proxyMail)
    <3>1. InLine(wireDown, proxyMail)
      BY <1>2 DEF DownOrder
    <3>2. QED
      BY <3>1, ElemsEmpty, InFrontSets DEF InLine
  <2>3. QED
    BY <1>8, <1>9, <2>1, <2>2 DEF AcceptPanics
<1>10. CASE IntervalTick
  <2>1. serverMail' = Append(serverMail, HeartbeatPacket(0)) /\ wireUp' = wireUp
    BY <1>10 DEF IntervalTick
  <2>2. UpOrder'
    BY <1>2, <1>6, <2>1, ServerMailPush
  <2>3. QED
    BY <1>4, <1>10, <2>2 DEF IntervalTick
<1>11. CASE HandleHeartbeat
  <2> DEFINE m == HeartbeatPacket(hb_index + 1)
  <2>1. /\ serverMail # << >>
        /\ Head(serverMail).type = "Heartbeat"
        /\ serverMail' = Tail(serverMail)
        /\ wireUp' = Write(wireUp, m)
    BY <1>11 DEF HandleHeartbeat
  <2>2. m \in Tagged(RequestTypes) /\ m.type = "Heartbeat" /\ m.src = None
    BY <1>2, <1>6
  <2>3. Head(serverMail).src = None
    BY <1>2, <2>1, PopInSeq, TaggedFacts
  <2>4. Alike(Head(serverMail), m)
    BY <2>1, <2>2, <2>3 DEF Alike
  <2>5. UpOrder'
    BY <1>5, <2>1, <2>2, <2>4
  <2>6. QED
    BY <1>4, <1>11, <2>5 DEF HandleHeartbeat
<1>12. CASE HandleProxyRequest
  <2>1. Head(serverMail) \in Tagged(RequestTypes) /\ Alike(Head(serverMail), Head(serverMail))
    BY <1>2, <1>12, PopInSeq DEF HandleProxyRequest, Alike
  <2>2. UpOrder'
    BY <1>5, <1>12, <2>1 DEF HandleProxyRequest
  <2>3. QED
    BY <1>4, <1>12, <2>2 DEF HandleProxyRequest
<1>13. CASE HandleResponse
  <2> DEFINE m == Head(wireDown)
             n == ToConnectorResponse(m)
             c == clients[m.uuid]
  <2>1. wireDown # << >> /\ wireDown' = Tail(wireDown) /\ UpOrder'
    BY <1>3, <1>13 DEF HandleResponse
  <2>2. InLine(wireDown', proxyMail) /\ InLine(wireDown, proxyMail)
    BY <1>2, <2>1, LinePop DEF DownOrder
  <2>3. CASE ~Routable(m)
    <3>1. InLine(<< >>, wireDown') /\ InLine(<< >>, proxyMail)
      BY <2>2, ElemsEmpty, InFrontSets DEF InLine
    <3>2. QED
      BY <1>8, <1>13, <2>1, <2>2, <2>3, <3>1 DEF HandleResponse
  <2>4. CASE Routable(m)
    <3>1. Route(m)
      BY <1>13, <2>4 DEF HandleResponse
    <3>2. SUFFICES ASSUME NEW s \in OwnPort
                   PROVE  InLine(socksMail'[s], Tail(wireDown)) /\ InLine(socksMail'[s], proxyMail)
      BY <1>1, <2>1, <2>2 DEF DownOrder
    <3>3. /\ s \in Sessions
          /\ InLine(socksMail[s], wireDown) /\ InLine(socksMail[s], proxyMail)
      BY <1>2 DEF DownOrder, OwnPort
    <3>4. InLine(socksMail[s], Tail(wireDown))
      <4>1. Elems(wireDown) = {m} \cup Elems(Tail(wireDown)) /\ Ordered(Tail(wireDown))
        BY <1>2, <2>1, <2>2, ElemsPop DEF InLine
      <4>2. QED
        BY <3>3, <4>1, InFrontSets DEF InLine
    <3>5. CASE m.uuid # 0 /\ sock[c] \in Running /\ c = s
      <4>1. m \in Tagged(ResponseTypes) /\ m.type # "Heartbeat"
        BY <1>2, <2>1, <3>5, PopInSeq, TaggedFacts
      <4>2. n \in OfPort(m.uuid, ConnectorTypes)
        BY <1>2, <4>1, RouteTagged
      <4>3. n \in Packets(ConnectorTypes)
        BY <4>2, OfPortSubset
      <4>4. Alike(m, n)
        BY <4>1, TaggedFacts, ConnectorFields
      <4>5. socksMail'[s] = Append(socksMail[s], n)
        BY <1>2, <3>1, <3>3, <3>5 DEF Route
      <4>6. InLine(Append(socksMail[s], n), Tail(wireDown))
        BY <1>2, <2>1, <3>3, <4>3, <4>4, LineMove
      <4>7. InLine(Append(socksMail[s], n), proxyMail)
        <5>0. m \in Elems(wireDown)
          BY <1>2, <2>1, <2>2, ElemsPop DEF InLine
        <5>1. InFront({m}, Elems(proxyMail))
          BY <2>2, <5>0 DEF InLine, InFront
        <5>2. InFront({n}, Elems(proxyMail))
          BY <4>4, <5>1, AlikeOrder
        <5>3. Elems(Append(socksMail[s], n)) = Elems(socksMail[s]) \cup {n}
          BY <1>2, <3>3, <4>3, ElemsAppend
        <5>4. InFront(Elems(socksMail[s]) \cup {n}, Elems(proxyMail))
          BY <3>3, <5>2, InFrontSets DEF InLine
        <5>5. QED
          BY <3>3, <4>6, <5>3, <5>4 DEF InLine
      <4>8. QED
        BY <4>5, <4>6, <4>7
    <3>6. CASE ~(m.uuid # 0 /\ sock[c] \in Running /\ c = s)
      <4>1. socksMail'[s] = socksMail[s]
        BY <1>2, <3>1, <3>3, <3>6 DEF Route
      <4>2. QED
        BY <3>3, <3>4, <4>1
    <3>7. QED
      BY <3>5, <3>6
  <2>5. QED
    BY <2>1, <2>3, <2>4
<1>14. CASE ServerStops
  BY <1>3, <1>4, <1>14 DEF ServerStops, channelVars
<1>15. QED
  BY <1>7, <1>9, <1>10, <1>11, <1>12, <1>13, <1>14 DEF ServerNext

\* The steps of the ProxyClient, its futures and the targets.
LEMMA OrderProxy ==
  ASSUME SessionInv, ProxyNext, ProxyFrame
  PROVE  UpOrder' /\ DownOrder'
<1>1. /\ Inv /\ UpOrder /\ DownOrder
      /\ wireUp \in Seq(Tagged(RequestTypes))
      /\ proxyMail \in Seq(Tagged(MailTypes))
      /\ wireDown \in Seq(Tagged(ResponseTypes))
      /\ \A c \in OwnPort : SessionOK(c)
  BY DEF SessionInv, Inv, QueuesTagged
<1>2. ASSUME UNCHANGED <<wireUp, serverMail>> PROVE UpOrder'
  BY <1>1, <1>2 DEF UpOrder
<1>3. ASSUME UNCHANGED <<wireDown, proxyMail, socksMail>> PROVE DownOrder'
  BY <1>1, <1>3 DEF DownOrder
<1>4. ASSUME UNCHANGED <<wireDown, socksMail>>, proxyMail' = << >> PROVE DownOrder'
  BY <1>1, <1>4, LineEmpty DEF DownOrder
<1>5. ASSUME NEW type, Request(type)
      PROVE  UpOrder' /\ UNCHANGED <<serverMail, socksMail>>
  <2>1. InLine(Tail(wireUp), serverMail)
    BY <1>1, <1>5, LinePop DEF UpOrder, Request
  <2>2. QED
    BY <1>5, <2>1 DEF UpOrder, Request
<1>6. CASE HandleRequestAddr \/ WriteData \/ WriteFails
  BY <1>3, <1>5, <1>6 DEF HandleRequestAddr, WriteData, WriteFails, proxyVars
<1>7. CASE DataPanics
  BY <1>4, <1>5, <1>7 DEF DataPanics, ThreadDies
<1>8. CASE EchoHeartbeat
  <2> DEFINE m == Head(wireUp)
  <2>1. m \in Tagged(RequestTypes) /\ m.type = "Heartbeat" /\ Request("Heartbeat")
    BY <1>1, <1>8, PopInSeq DEF EchoHeartbeat, Request
  <2>2. m.src \notin OwnPort /\ m \in Tagged(ResponseTypes)
    BY <2>1, TaggedFacts, NoneAssumption DEF OwnPort, Tagged, Packets, ResponseTypes
  <2>3. Elems(Append(wireDown, m)) = Elems(wireDown) \cup {m}
    BY <1>1, <2>2, ElemsAppend
  <2>4. InLine(Append(wireDown, m), proxyMail)
    <3>1. Ordered(Append(wireDown, m))
      BY <1>1, <2>2, OrderedAppend, OthersAnywhere DEF DownOrder, InLine
    <3>2. InFront(Elems(wireDown) \cup {m}, Elems(proxyMail))
      BY <1>1, <2>2, OthersAnywhere, InFrontSets DEF DownOrder, InLine
    <3>3. QED
      BY <1>1, <2>3, <3>1, <3>2 DEF DownOrder, InLine
  <2>5. \A s \in OwnPort : InLine(socksMail[s], Append(wireDown, m))
    BY <1>1, <2>2, OthersAnywhere, LinePush DEF DownOrder
  <2>6. wireDown' = Append(wireDown, m) \/ wireDown' = wireDown
    BY <1>8 DEF EchoHeartbeat, Write
  <2>7. DownOrder'
    BY <1>1, <1>5, <1>8, <2>1, <2>4, <2>5, <2>6 DEF DownOrder, EchoHeartbeat, proxyVars
  <2>8. QED
    BY <1>5, <2>1, <2>7
<1>9. CASE ProxyStops
  BY <1>2, <1>4, <1>9 DEF ProxyStops, channelVars
<1>10. ASSUME NEW types, Mail(types), NEW m \in Tagged(ResponseTypes),
              Alike(Head(proxyMail), m), wireDown' = Write(wireDown, m)
       PROVE  UpOrder' /\ DownOrder'
  <2>1. /\ proxyMail # << >>
        /\ proxyMail' = Tail(proxyMail)
        /\ UNCHANGED <<wireUp, serverMail, socksMail>>
    BY <1>10 DEF Mail
  <2>2. InLine(Append(wireDown, m), Tail(proxyMail)) /\ InLine(wireDown, Tail(proxyMail))
    BY <1>1, <1>10, <2>1, LineMove DEF DownOrder
  <2>3. ASSUME NEW s \in OwnPort
        PROVE  InLine(socksMail[s], Append(wireDown, m)) /\ InLine(socksMail[s], Tail(proxyMail))
    <3>1. InLine(socksMail[s], wireDown) /\ InLine(socksMail[s], proxyMail)
      BY <1>1, <2>3 DEF DownOrder
    <3>2. Elems(proxyMail) = {Head(proxyMail)} \cup Elems(Tail(proxyMail))
      BY <1>1, <2>1, <3>1, ElemsPop DEF InLine
    <3>3. InFront(Elems(socksMail[s]), {Head(proxyMail)})
          /\ InFront(Elems(socksMail[s]), Elems(Tail(proxyMail)))
      BY <3>1, <3>2, InFrontSets DEF InLine
    <3>4. InFront(Elems(socksMail[s]), {m})
      BY <1>10, <3>3, AlikeOrder
    <3>5. InFront(Elems(wireDown), {m}) /\ Ordered(Tail(proxyMail))
      <4>1. Elems(Append(wireDown, m)) = Elems(wireDown) \cup {m} /\ InLine(wireDown, proxyMail)
        BY <1>1, <1>10, ElemsAppend DEF DownOrder
      <4>2. InFront(Elems(wireDown), {Head(proxyMail)})
        BY <3>2, <4>1, InFrontSets DEF InLine
      <4>3. QED
        BY <1>10, <2>2, <4>2, AlikeOrder DEF InLine
    <3>6. InLine(socksMail[s], Append(wireDown, m))
      BY <1>1, <1>10, <3>1, <3>4, <3>5, LinePush
    <3>7. QED
      BY <3>1, <3>3, <3>5, <3>6 DEF InLine
  <2>4. DownOrder'
    BY <1>1, <1>10, <2>1, <2>2, <2>3 DEF DownOrder, Write
  <2>5. QED
    BY <1>2, <2>1, <2>4
<1>11. ASSUME NEW types, Mail(types), NEW type \in ResponseTypes, type # "Heartbeat",
              Head(proxyMail).type # "Heartbeat", Head(proxyMail).type # "Data",
              type # "Data",
              type \in Opening <=> Head(proxyMail).type \in Opening,
              type \in Closing <=> Head(proxyMail).type \in Closing
       PROVE  /\ Signal(Head(proxyMail).src, type) \in Tagged(ResponseTypes)
              /\ Alike(Head(proxyMail), Signal(Head(proxyMail).src, type))
  <2> DEFINE m == Head(proxyMail)
  <2>1. m \in Tagged(MailTypes)
    BY <1>1, <1>11, PopInSeq DEF Mail
  <2>2. m.src \in Sessions /\ clients[PortOf[m.src]] # None
    BY <1>11, <2>1, TaggedFacts
  <2>3. Signal(m.src, type) \in Tagged(ResponseTypes)
    BY <1>11, <2>2, SignalTagged
  <2>4. Signal(m.src, type).src = m.src /\ Signal(m.src, type).type = type
    BY DEF Signal, Packet
  <2>5. QED
    BY <1>11, <2>3, <2>4 DEF Alike
<1>12. CASE HandleEstablished
  BY <1>10, <1>11, <1>12
  DEF HandleEstablished, Mail, ResponseTypes, Opening, Closing, Success, Failure
<1>13. CASE HandleDead
  BY <1>10, <1>11, <1>13
  DEF HandleDead, Mail, ResponseTypes, Opening, Closing, Success, Failure
<1>14. CASE HandleProxyResponse
  <2>1. Head(proxyMail) \in Tagged(MailTypes) /\ Head(proxyMail).type \in ResponseTypes
    BY <1>1, <1>14, PopInSeq DEF HandleProxyResponse, Mail
  <2>2. Head(proxyMail) \in Tagged(ResponseTypes)
    BY <2>1 DEF Tagged, Packets
  <2>3. Alike(Head(proxyMail), Head(proxyMail))
    BY DEF Alike
  <2>4. QED
    BY <1>10, <1>14, <2>2, <2>3 DEF HandleProxyResponse
<1>15. CASE ForwarderFails
  BY <1>2, <1>3, <1>15 DEF ForwarderFails, channelVars
<1>16. CASE SendPanics
  BY <1>2, <1>4, <1>16 DEF SendPanics, ThreadDies
<1>17. ASSUME NEW c \in Sessions
       PROVE  /\ c \in connecting \cup readers => clients[PortOf[c]] # None
              /\ c \in connecting /\ c \in OwnPort => Down(c) = {}
              /\ c \in readers /\ c \in OwnPort => \A m \in Down(c) : m.type \notin Closing
              /\ \A type : Signal(c, type).src = c /\ Signal(c, type).type = type
  <2>1. c \in connecting \cup readers => clients[PortOf[c]] # None
    BY <1>1 DEF Inv, EveryoneKnown
  <2>2. c \in connecting /\ c \in OwnPort => Down(c) = {}
    BY <1>1 DEF SessionOK, UntriedIsUntouched, Untried
  <2>3. c \in readers /\ c \in OwnPort => \A m \in Down(c) : m.type \notin Closing
    BY <1>1 DEF SessionOK, Connected, DownPackets
  <2>4. \A type : Signal(c, type).src = c /\ Signal(c, type).type = type
    BY DEF Signal, Packet
  <2>5. QED
    BY <2>1, <2>2, <2>3, <2>4
<1>18. ASSUME NEW c \in Sessions, ConnectSucceeds(c) \/ ConnectFails(c)
       PROVE  UpOrder' /\ DownOrder'
  <2>1. /\ c \in connecting
        /\ UNCHANGED <<wireUp, serverMail, wireDown, socksMail>>
        /\ \E type \in {"Established", "Timeout", "ConnectionRefused"} : Notify(Signal(c, type))
    BY <1>18 DEF ConnectSucceeds, ConnectFails, channelVars
  <2>2. PICK type \in {"Established", "Timeout", "ConnectionRefused"} : Notify(Signal(c, type))
    BY <2>1
  <2>3. Signal(c, type) \in Tagged(MailTypes)
    BY <1>17, <2>1, SignalTagged DEF MailTypes, ResponseTypes
  <2>4. c \in OwnPort => InFront(Down(c), {Signal(c, type)})
    BY <1>17, <2>1 DEF InFront
  <2>5. Signal(c, type).src = c
    BY <1>17
  <2>6. DownOrder'
    BY <1>1, <2>1, <2>2, <2>3, <2>4, <2>5, ProxyMailPush
  <2>7. QED
    BY <1>2, <2>1, <2>6
<1>19. ASSUME NEW c \in Sessions, TargetSends(c)
       PROVE  UpOrder' /\ DownOrder'
  <2>1. c \in readers /\ UNCHANGED <<wireUp, serverMail, wireDown, socksMail>>
    BY <1>19 DEF TargetSends, channelVars
  <2>2. PICK hi \in (emitted[c] + 1)..MaxDown : Notify(Packet(c, "Data", emitted[c], hi))
    BY <1>19 DEF TargetSends
  <2>3. hi \in Nat /\ emitted[c] \in Nat
    BY <1>1, <2>2, BoundAssumption DEF Inv, TypeOK, ProxyTypeOK
  <2> DEFINE m == Packet(c, "Data", emitted[c], hi)
  <2>4. m \in Tagged(MailTypes)
    BY <1>17, <2>1, <2>3, PacketTagged DEF MailTypes, ResponseTypes
  <2>5. m.src = c /\ m.type = "Data" /\ m.lo = emitted[c]
    BY DEF Packet
  <2>6. ASSUME c \in OwnPort, NEW n \in Down(c)
        PROVE  Before(n, m)
    <3>1. n.type \notin Closing
      BY <1>17, <2>1, <2>6
    <3>2. n.type = "Data" => n.hi <= emitted[c]
      BY <1>1, <2>6 DEF SessionOK, DownPackets
    <3>3. QED
      BY <2>5, <3>1, <3>2 DEF Before, Opening, Success, Failure
  <2>7. c \in OwnPort => InFront(Down(c), {m})
    BY <2>6 DEF InFront
  <2> HIDE DEF m
  <2>8. DownOrder'
    BY <1>1, <2>1, <2>2, <2>4, <2>5, <2>7, ProxyMailPush DEF m
  <2>9. QED
    BY <1>2, <2>1, <2>8
<1>20. ASSUME NEW c \in Sessions, TargetCloses(c)
       PROVE  UpOrder' /\ DownOrder'
  BY <1>2, <1>3, <1>20 DEF TargetCloses, channelVars
<1>21. ASSUME NEW c \in Sessions, TargetResets(c)
       PROVE  UpOrder' /\ DownOrder'
  <2> DEFINE m == Signal(c, "Dead")
  <2>1. /\ c \in readers
        /\ UNCHANGED <<wireUp, serverMail, wireDown, socksMail>>
        /\ Notify(m)
    BY <1>21 DEF TargetResets, channelVars
  <2>2. m \in Tagged(MailTypes)
    BY <1>17, <2>1, SignalTagged DEF MailTypes
  <2>3. m.src = c /\ m.type = "Dead"
    BY <1>17
  <2>4. c \in OwnPort => InFront(Down(c), {m})
    BY <1>17, <2>1, <2>3 DEF InFront, Before, Opening, Success, Failure
  <2>5. DownOrder'
    BY <1>1, <2>1, <2>2, <2>3, <2>4, ProxyMailPush
  <2>6. QED
    BY <1>2, <2>1, <2>5
<1>22. QED
  BY <1>6, <1>7, <1>8, <1>9, <1>12, <1>13, <1>14, <1>15, <1>16, <1>18, <1>19, <1>20, <1>21
  DEF ProxyNext

-----------------------------------------------------------------------------
(* What a session has in a queue.                                          *)

\* It has nothing in an empty queue.
LEMMA HeldEmpty ==
  ASSUME NEW s
  PROVE  Held(s, << >>) = {}
BY ElemsEmpty DEF Held

\* Appending a packet concerns the session of the packet only.
LEMMA HeldAppend ==
  ASSUME NEW S, NEW q \in Seq(S), NEW m \in S, NEW s
  PROVE  Held(s, Append(q, m)) = IF m.src = s THEN Held(s, q) \cup {m} ELSE Held(s, q)
<1>1. Elems(Append(q, m)) = Elems(q) \cup {m}
  BY ElemsAppend
<1>2. QED
  BY <1>1 DEF Held

\* So does removing the first one.
LEMMA HeldPop ==
  ASSUME NEW S, NEW q \in Seq(S), q # << >>, Ordered(q), NEW s
  PROVE  /\ Head(q).src = s => Held(s, q) = Held(s, Tail(q)) \cup {Head(q)}
         /\ Head(q).src # s => Held(s, q) = Held(s, Tail(q))
         /\ \A m \in Held(s, Tail(q)) : Before(Head(q), m)
<1>1. /\ Elems(q) = {Head(q)} \cup Elems(Tail(q))
      /\ InFront({Head(q)}, Elems(Tail(q)))
  BY ElemsPop
<1>2. \A m \in Held(s, Tail(q)) : Before(Head(q), m)
  BY <1>1 DEF Held, InFront
<1>3. QED
  BY <1>1, <1>2 DEF Held

\* What a session has in the second of two queues is behind what it has in the
\* first.
LEMMA HeldInLine ==
  ASSUME NEW a, NEW b, InLine(a, b), NEW s, NEW m \in Held(s, a), NEW n \in Held(s, b)
  PROVE  Before(m, n)
BY DEF InLine, InFront, Held

\* The types of what a session is made of.
LEMMA SessionFacts ==
  ASSUME SessionInv, NEW s \in OwnPort
  PROVE  /\ s \in Sessions /\ SessionOK(s) /\ Inv
         /\ PortOf[s] \in Ports
         /\ connections[PortOf[s]] \in {s, None}
         /\ s # None
         /\ sent[s] \in Nat /\ emitted[s] \in Nat
         /\ appRx[s] \in Seq(Packets(AppTypes)) /\ Got(s) \in Nat
         /\ targetRx[s] \in Seq(Writes) /\ Offered(s) \in Nat
         /\ tunnel \in {"up", "down"}
<1>1. s \in Sessions /\ SessionOK(s) /\ Inv /\ SamePort(PortOf[s]) = {s} /\ s # None
  BY NoneAssumption DEF SessionInv, OwnPort, UniquePort, SamePort
<1>2. PortOf[s] \in Ports
  BY <1>1 DEF Ports
<1>3. connections[PortOf[s]] \in {s, None}
  BY <1>1, <1>2 DEF Inv, MapsByPort
<1>4. /\ sent[s] \in Nat /\ emitted[s] \in Nat
      /\ appRx[s] \in Seq(Packets(AppTypes))
      /\ targetRx[s] \in Seq(Writes)
      /\ tunnel \in {"up", "down"}
  BY <1>1 DEF Inv, TypeOK, SocksTypeOK, ProxyTypeOK, ChannelsTypeOK
<1>5. Got(s) \in Nat
  <2>1. appRx[s] # << >> => Len(appRx[s]) \in 1..Len(appRx[s])
    BY <1>4
  <2>2. appRx[s] # << >> => appRx[s][Len(appRx[s])] \in Packets(AppTypes)
    BY <1>4, <2>1, AllInSeq
  <2>3. QED
    BY <2>2 DEF Got, Packets
<1>6. Offered(s) \in Nat
  <2>1. targetRx[s] # << >> => Len(targetRx[s]) \in 1..Len(targetRx[s])
    BY <1>4
  <2>2. targetRx[s] # << >> => targetRx[s][Len(targetRx[s])] \in Writes
    BY <1>4, <2>1, AllInSeq
  <2>3. QED
    BY <2>2 DEF Offered, Writes
<1>7. QED
  BY <1>1, <1>2, <1>3, <1>4, <1>5, <1>6

-----------------------------------------------------------------------------
(* What a broken tunnel leaves.                                            *)

\* The data in the tunnel continues what the target was offered, whether or
\* not more of it follows.
LEMMA CutUp ==
  ASSUME SessionInv, NEW s \in OwnPort, Writable(s)
  PROVE  Chained(WrittenUp(s), Offered(s))
<1>1. SessionOK(s) /\ Inv /\ s \in Sessions /\ Offered(s) \in Nat
  BY SessionFacts
<1>2. CASE tunnel = "up"
  <2>1. Chained(WrittenUp(s) \cup Held(s, serverMail), Offered(s))
    BY <1>1, <1>2 DEF SessionOK, UpChain, ComingUp, Up
  <2>2. Packety(WrittenUp(s) \cup Held(s, serverMail))
    BY <1>1, UpFacts DEF Packety, Up
  <2>3. \A n \in Data(WrittenUp(s) \cup Held(s, serverMail)) : n.lo < n.hi
    BY <1>1 DEF SessionOK, UpPackets, Up
  <2>4. \A m \in Data(WrittenUp(s)), n \in Data(Held(s, serverMail)) : m.hi <= n.lo
    <3>1. \A m \in WrittenUp(s), n \in Held(s, serverMail) : Before(m, n)
      BY HeldInLine DEF SessionInv, UpOrder, WrittenUp
    <3>2. \A m \in WrittenUp(s), n \in Held(s, serverMail) : m.src = s /\ n.src = s
      BY DEF WrittenUp, Held
    <3>3. QED
      BY <3>1, <3>2 DEF Before, Data
  <2>5. QED
    BY <1>1, <2>1, <2>2, <2>3, <2>4, ChainCut
<1>3. CASE tunnel # "up"
  BY <1>1, <1>3 DEF SessionOK, UpChain, ComingUp
<1>4. QED
  BY <1>2, <1>3

\* The data that has left the server's mailbox continues what the application
\* received, and the success is in front of it.
LEMMA CutDown ==
  ASSUME SessionInv, NEW s \in OwnPort, sock[s] \in Running
  PROVE  /\ Chained(WrittenDown(s), Got(s))
         /\ \A m \in WrittenDown(s) : m.type \in Closing \cup {"Data"} =>
              \/ Len(appRx[s]) >= 2 /\ appRx[s][2].type = "Succeeded"
              \/ \E n \in WrittenDown(s) : n.type \in Success
<1>1. SessionOK(s) /\ Inv /\ s \in Sessions /\ Got(s) \in Nat
  BY SessionFacts
<1>2. CASE tunnel = "up"
  <2>1. Chained(WrittenDown(s) \cup Held(s, proxyMail), Got(s))
    BY <1>1, <1>2 DEF SessionOK, DownChain, ComingDown, Down
  <2>2. Packety(WrittenDown(s) \cup Held(s, proxyMail))
    BY <1>1, DownFacts DEF Packety, Down
  <2>3. \A n \in Data(WrittenDown(s) \cup Held(s, proxyMail)) : n.lo < n.hi
    BY <1>1 DEF SessionOK, DownPackets, Down, Data
  <2>4. ASSUME NEW m \in WrittenDown(s), NEW n \in Held(s, proxyMail)
        PROVE  Before(m, n) /\ m.src = s /\ n.src = s
    BY HeldInLine DEF SessionInv, DownOrder, WrittenDown, Held
  <2>5. \A m \in Data(WrittenDown(s)), n \in Data(Held(s, proxyMail)) : m.hi <= n.lo
    BY <2>4 DEF Before, Data
  <2>6. Chained(WrittenDown(s), Got(s))
    BY <1>1, <2>1, <2>2, <2>3, <2>5, ChainCut
  <2>7. ASSUME NEW m \in WrittenDown(s), m.type \in Closing \cup {"Data"}
        PROVE  \/ Len(appRx[s]) >= 2 /\ appRx[s][2].type = "Succeeded"
               \/ \E n \in WrittenDown(s) : n.type \in Success
    <3>1. Announced(s)
      BY <1>1, <1>2, <2>7 DEF SessionOK, DownChain, ComingDown, Down
    <3>2. \A n \in Held(s, proxyMail) : n.type \notin Success
      BY <2>4 DEF Before, Opening
    <3>3. QED
      BY <1>2, <3>1, <3>2 DEF Announced, ComingDown, Down
  <2>8. QED
    BY <2>6, <2>7
<1>3. CASE tunnel # "up"
  BY <1>1, <1>3 DEF SessionOK, DownChain, ComingDown, Announced
<1>4. QED
  BY <1>2, <1>3

-----------------------------------------------------------------------------
(* Steps that add nothing to a session.                                    *)

\* The two ends of the session see nothing of the step.
Unseen(s) ==
  /\ s \in requested' <=> s \in requested
  /\ sent'[s] = sent[s]
  /\ appRx'[s] = appRx[s]
  /\ target'[s] = target[s]
  /\ emitted'[s] = emitted[s]
  /\ targetRx'[s] = targetRx[s]

\* Nothing is on its way, in the works or connected that was not before.
Less(s) ==
  /\ Unseen(s)
  /\ sock'[s] = sock[s] \/ sock'[s] \in {"closed", "panic_decode", "aborted"}
  /\ s \in connecting' => s \in connecting
  /\ s \in readers' => s \in readers
  /\ Up(s)' \subseteq Up(s)
  /\ Down(s)' \subseteq Down(s)
  /\ Untried(s) => connections'[PortOf[s]] \in {connections[PortOf[s]], None}

\* Then only the parts that need something to be there are in question.
LEMMA LessOK ==
  ASSUME NEW s, SessionOK(s), Less(s), Connected(s)', UpChain(s)', DownChain(s)',
         sock'[s] = "aborted" =>
           sock[s] = "aborted" \/ (/\ target[s] = "reset"
                                   /\ Len(appRx[s]) >= 2
                                   /\ appRx[s][2].type = "Succeeded")
  PROVE  SessionOK(s)'
<1> USE DEF Less, Unseen, SessionOK
<1>1. Untried(s)' => Untried(s)
  BY DEF Untried
<1>2. UntriedIsUntouched(s)'
  BY <1>1 DEF UntriedIsUntouched
<1>3. AsksOnce(s)'
  BY DEF AsksOnce
<1>4. CodecState(s)'
  BY DEF CodecState
<1>5. UpPackets(s)'
  BY DEF UpPackets, Data
<1>6. DownPackets(s)'
  BY DEF DownPackets
<1>7. Seen(s)'
  BY DEF Seen
<1>8. QED
  BY <1>2, <1>3, <1>4, <1>5, <1>6, <1>7

\* What can arrive is unchanged: so are the chains.
LEMMA SameChains ==
  ASSUME NEW s, SessionOK(s), Unseen(s), tunnel' = tunnel,
         ComingUp(s)' = ComingUp(s), Writable(s)' => Writable(s),
         sock'[s] \in Running => sock[s] \in Running /\ ComingDown(s)' = ComingDown(s)
  PROVE  UpChain(s)' /\ DownChain(s)'
<1> USE DEF Unseen, SessionOK
<1>1. Offered(s)' = Offered(s) /\ Got(s)' = Got(s)
  BY DEF Offered, Got
<1>2. UpChain(s)'
  BY <1>1 DEF UpChain, Chained, ReachesTo
<1>3. ASSUME sock'[s] \in Running
      PROVE  Announced(s)' <=> Announced(s)
  BY <1>3 DEF Announced
<1>4. DownChain(s)'
  BY <1>1, <1>3 DEF DownChain, Chained, ReachesTo
<1>5. QED
  BY <1>2, <1>4

\* A step that concerns other sessions, or none.
Elsewhere(s) ==
  /\ Unseen(s)
  /\ tunnel' = tunnel
  /\ sock'[s] = sock[s]
  /\ s \in connecting' <=> s \in connecting
  /\ s \in readers' <=> s \in readers
  /\ connections'[PortOf[s]] = connections[PortOf[s]]
  /\ Held(s, wireUp') = Held(s, wireUp)
  /\ Held(s, serverMail') = Held(s, serverMail)
  /\ Held(s, socksMail'[s]) = Held(s, socksMail[s])
  /\ Held(s, wireDown') = Held(s, wireDown)
  /\ Held(s, proxyMail') = Held(s, proxyMail)

\* It changes nothing for s.
LEMMA ElsewhereOK ==
  ASSUME NEW s, SessionOK(s), Elsewhere(s)
  PROVE  SessionOK(s)'
<1> USE DEF Elsewhere
<1>1. WrittenUp(s)' = WrittenUp(s) /\ WrittenDown(s)' = WrittenDown(s)
  BY DEF WrittenUp, WrittenDown
<1>2. Up(s)' = Up(s) /\ Down(s)' = Down(s)
  BY <1>1 DEF Up, Down
<1>3. ComingUp(s)' = ComingUp(s) /\ ComingDown(s)' = ComingDown(s)
  BY <1>1, <1>2 DEF ComingUp, ComingDown
<1>4. \A type : Mailed(s, type)' <=> Mailed(s, type)
  BY DEF Mailed
<1>5. Untried(s)' <=> Untried(s)
  BY <1>2 DEF Untried, Unseen
<1>6. Writable(s)' <=> Writable(s)
  BY <1>4, <1>5 DEF Writable
<1>7. Connected(s)'
  BY <1>4 DEF SessionOK, Connected, Unseen
<1>8. Less(s)
  BY <1>2 DEF Less
<1>9. UpChain(s)' /\ DownChain(s)'
  BY <1>3, <1>6, SameChains
<1>10. QED
  BY <1>7, <1>8, <1>9, LessOK

\* A step with which the tunnel falls, or an actor behind a fallen tunnel ends.
Fall(s) ==
  /\ Unseen(s)
  /\ tunnel' = "down"
  /\ sock'[s] = sock[s] \/ sock'[s] = "closed"
  /\ s \in connecting' => s \in connecting
  /\ s \in readers' => s \in readers
  /\ WrittenUp(s)' \subseteq WrittenUp(s)
  /\ Writable(s)' => WrittenUp(s)' = WrittenUp(s)
  /\ Held(s, serverMail') = Held(s, serverMail)
  /\ WrittenDown(s)' \subseteq WrittenDown(s)
  /\ sock'[s] \in Running => WrittenDown(s)' = WrittenDown(s)
  /\ \/ /\ Held(s, proxyMail') = Held(s, proxyMail)
        /\ connections'[PortOf[s]] = connections[PortOf[s]]
     \/ Held(s, proxyMail') = {} /\ connections'[PortOf[s]] = None

\* What is in the tunnel may still arrive, and is in order and without a gap.
LEMMA FallOK ==
  ASSUME SessionInv, NEW s \in OwnPort, Fall(s)
  PROVE  SessionOK(s)'
<1> USE DEF Fall
<1>1. SessionOK(s)
  BY SessionFacts
<1>2. Up(s)' \subseteq Up(s) /\ Down(s)' \subseteq Down(s)
  BY DEF Up, Down
<1>3. ComingUp(s)' = WrittenUp(s)' /\ ComingDown(s)' = WrittenDown(s)'
  BY DEF ComingUp, ComingDown
<1>4. \A type : Mailed(s, type)' => Mailed(s, type)
  BY DEF Mailed
<1>5. Untried(s)' => Untried(s)
  BY <1>2 DEF Untried, Unseen
<1>6. Writable(s)' => Writable(s)
  BY <1>4, <1>5 DEF Writable
<1>7. Offered(s)' = Offered(s) /\ Got(s)' = Got(s)
  BY DEF Offered, Got, Unseen
<1>8. UpChain(s)'
  <2> SUFFICES ASSUME Writable(s)'
               PROVE  Chained(WrittenUp(s)', Offered(s))
    BY <1>3, <1>7 DEF UpChain
  <2>1. QED
    BY <1>6, CutUp
<1>9. DownChain(s)'
  <2> SUFFICES ASSUME sock'[s] \in Running
               PROVE  /\ Chained(WrittenDown(s)', Got(s))
                      /\ \A m \in WrittenDown(s)' : m.type \in Closing \cup {"Data"} => Announced(s)'
    BY <1>3, <1>7 DEF DownChain
  <2>1. sock[s] \in Running /\ WrittenDown(s)' = WrittenDown(s)
    BY DEF Running
  <2>2. Announced(s)' <=> \/ Len(appRx[s]) >= 2 /\ appRx[s][2].type = "Succeeded"
                          \/ \E n \in WrittenDown(s) : n.type \in Success
    BY <1>3, <2>1 DEF Announced, Unseen
  <2>3. QED
    BY <2>1, <2>2, CutDown
<1>10. Connected(s)'
  <2>1. CASE /\ Held(s, proxyMail') = Held(s, proxyMail)
             /\ connections'[PortOf[s]] = connections[PortOf[s]]
    <3>1. \A type : Mailed(s, type)' <=> Mailed(s, type)
      BY <2>1 DEF Mailed
    <3>2. QED
      BY <1>1, <2>1, <3>1 DEF SessionOK, Connected, Unseen
  <2>2. CASE Held(s, proxyMail') = {} /\ connections'[PortOf[s]] = None
    <3>1. \A type : ~Mailed(s, type)'
      BY <2>2 DEF Mailed
    <3>2. QED
      BY <1>1, <2>2, <3>1 DEF SessionOK, Connected, Unseen
  <2>3. QED
    BY <2>1, <2>2
<1>11. Less(s)
  BY <1>2 DEF Less
<1>12. QED
  BY <1>1, <1>8, <1>9, <1>10, <1>11, LessOK

\* A step that passes packet m on towards the application as packet n.
Relabel(s, m, n) ==
  /\ Unseen(s)
  /\ tunnel' = tunnel
  /\ sock'[s] = sock[s]
  /\ s \in connecting' <=> s \in connecting
  /\ s \in readers' <=> s \in readers
  /\ ComingUp(s)' = ComingUp(s)
  /\ Up(s)' = Up(s)
  /\ \E D : Down(s) = D \cup {m} /\ Down(s)' = D \cup {n}
  /\ \E C : ComingDown(s) = C \cup {m} /\ ComingDown(s)' = C \cup {n}
  /\ n.type # "RequestAddr"
  /\ m.type \in Success <=> n.type \in Success
  /\ m.type \in Failure <=> n.type \in Failure
  /\ m.type \in Closing <=> n.type \in Closing
  /\ m.type = "Data" <=> n.type = "Data"
  /\ m.type = "Data" => n.lo = m.lo /\ n.hi = m.hi
  /\ n.type \in Opening => n.hi = 0

\* Neither what the packets say nor the chain is different then.
LEMMA RelabelOK ==
  ASSUME NEW s, SessionOK(s), NEW m, NEW n, Relabel(s, m, n),
         Writable(s)' => Writable(s), Connected(s)'
  PROVE  SessionOK(s)'
<1> USE DEF Relabel, Unseen, SessionOK
<1>1. PICK D : Down(s) = D \cup {m} /\ Down(s)' = D \cup {n}
  OBVIOUS
<1>2. PICK C : ComingDown(s) = C \cup {m} /\ ComingDown(s)' = C \cup {n}
  OBVIOUS
<1>3. ~Untried(s) /\ ~Untried(s)'
  <2>1. Untried(s)' <=> Untried(s)
    BY DEF Untried
  <2>2. QED
    BY <1>1, <2>1 DEF UntriedIsUntouched
<1>4. UntriedIsUntouched(s)' /\ AsksOnce(s)' /\ CodecState(s)' /\ UpPackets(s)' /\ Seen(s)'
  <2>1. UntriedIsUntouched(s)'
    BY <1>3 DEF UntriedIsUntouched
  <2>2. AsksOnce(s)' /\ UpPackets(s)'
    BY DEF AsksOnce, UpPackets, Data
  <2>3. CodecState(s)' /\ Seen(s)'
    BY DEF CodecState, Seen
  <2>4. QED
    BY <2>1, <2>2, <2>3
<1>5. DownPackets(s)'
  <2> SUFFICES ASSUME NEW k \in Down(s)'
               PROVE  /\ k.type \in Success => target[s] # "none"
                      /\ k.type \in Failure => target[s] = "none"
                      /\ k.type \in Closing => target[s] = "reset"
                      /\ k.type \in Opening => Len(appRx[s]) <= 1 /\ k.hi = 0
                      /\ k.type = "Data" => /\ target[s] # "none"
                                            /\ k.lo < k.hi
                                            /\ k.hi <= emitted[s]
    BY DEF DownPackets
  <2>1. CASE k \in D
    BY <1>1, <2>1 DEF DownPackets
  <2>2. CASE k = n
    BY <1>1, <2>2 DEF DownPackets, Opening
  <2>3. QED
    BY <1>1, <2>1, <2>2
<1>6. UpChain(s)'
  <2>1. Offered(s)' = Offered(s)
    BY DEF Offered
  <2>2. QED
    BY <2>1 DEF UpChain, Chained, ReachesTo
<1>7. DownChain(s)'
  <2> SUFFICES ASSUME sock[s] \in Running PROVE DownChain(s)'
    BY DEF DownChain
  <2>1. Got(s)' = Got(s)
    BY DEF Got
  <2>2. \A k \in Data(ComingDown(s)') : \E j \in Data(ComingDown(s)) : j.lo = k.lo /\ j.hi = k.hi
    BY <1>2 DEF Data
  <2>3. \A j \in Data(ComingDown(s)) : \E k \in Data(ComingDown(s)') : j.lo = k.lo /\ j.hi = k.hi
    BY <1>2 DEF Data
  <2>4. Chained(ComingDown(s)', Got(s))
    <3> SUFFICES ASSUME NEW k \in Data(ComingDown(s)'), k.lo # Got(s)
                 PROVE  \E i \in Data(ComingDown(s)') : i.hi = k.lo
      BY DEF Chained
    <3>1. PICK j \in Data(ComingDown(s)) : j.lo = k.lo
      BY <2>2
    <3>2. PICK i \in Data(ComingDown(s)) : i.hi = j.lo
      BY <3>1 DEF DownChain, Chained
    <3>3. QED
      BY <2>3, <3>1, <3>2
  <2>5. tunnel = "up" => ReachesTo(ComingDown(s)', Got(s), emitted[s])
    BY <2>3 DEF DownChain, ReachesTo
  <2>6. Announced(s) => Announced(s)'
    BY <1>2 DEF Announced
  <2>7. \A k \in ComingDown(s)' : k.type \in Closing \cup {"Data"} => Announced(s)
    BY <1>2 DEF DownChain
  <2>8. QED
    BY <2>1, <2>4, <2>5, <2>6, <2>7 DEF DownChain
<1>8. QED
  BY <1>4, <1>5, <1>6, <1>7

-----------------------------------------------------------------------------
(* The steps of a SocksClient.                                             *)

\* Another session's step changes nothing for s.
LEMMA SocksOther ==
  ASSUME SessionInv, NEW s \in OwnPort, NEW t \in Sessions, s # t, SocksNext(t), SocksFrame
  PROVE  SessionOK(s)'
<1>1. /\ s \in Sessions /\ SessionOK(s) /\ Inv
  BY SessionFacts
<1>2. /\ sock \in [Sessions -> {"none"} \cup Running \cup Ended]
      /\ sent \in [Sessions -> Nat]
      /\ appRx \in [Sessions -> Seq(Packets(AppTypes))]
      /\ socksMail \in [Sessions -> Seq(Packets(ConnectorTypes))]
      /\ serverMail \in Seq(Tagged(RequestTypes))
  BY <1>1 DEF Inv, TypeOK, SocksTypeOK, ChannelsTypeOK, QueuesTagged
<1>3. /\ UNCHANGED <<tunnel, wireUp, wireDown, connections, connecting, readers, proxyMail,
                     target, emitted, targetRx>>
  BY DEF SocksFrame, proxyVars, targetVars
<1>4. /\ sock'[s] = sock[s]
      /\ s \in requested' <=> s \in requested
      /\ sent'[s] = sent[s]
      /\ appRx'[s] = appRx[s]
      /\ socksMail'[s] = socksMail[s]
  <2>1. CASE HandleNegotiation(t)
    BY <1>1, <1>2, <2>1 DEF HandleNegotiation, Become, Reply
  <2>2. CASE HandleTargetRequest(t)
    BY <1>1, <1>2, <2>2 DEF HandleTargetRequest, Become
  <2>3. CASE HandleData(t)
    BY <1>1, <1>2, <2>3 DEF HandleData
  <2>4. CASE DecodePanics(t) \/ AppCloses(t) \/ HandleAbort(t)
    BY <1>1, <1>2, <2>4 DEF DecodePanics, AppCloses, HandleAbort, Received, End, Become
  <2>5. CASE HandleReply(t)
    BY <1>1, <1>2, <2>5 DEF HandleReply, Received, End, Become, Reply, Pop
  <2>6. CASE HandleConnectorData(t)
    BY <1>1, <1>2, <2>6 DEF HandleConnectorData, Received, Reply, Pop
  <2>7. QED
    BY <2>1, <2>2, <2>3, <2>4, <2>5, <2>6 DEF SocksNext
<1>5. \/ serverMail' = serverMail
      \/ \E type, lo, hi : serverMail' = Append(serverMail, Packet(t, type, lo, hi))
  BY DEF SocksNext, HandleNegotiation, HandleTargetRequest, HandleData, DecodePanics, AppCloses,
         HandleAbort, HandleReply, HandleConnectorData, Received, Signal
<1>6. Held(s, serverMail') = Held(s, serverMail)
  <2>1. ASSUME NEW type, NEW lo, NEW hi, serverMail' = Append(serverMail, Packet(t, type, lo, hi))
        PROVE  Held(s, serverMail') = Held(s, serverMail)
    <3> DEFINE m == Packet(t, type, lo, hi)
               S == Tagged(RequestTypes) \cup {m}
    <3>1. m.src = t
      BY DEF Packet
    <3>2. serverMail \in Seq(S) /\ m \in S
      BY <1>2, SeqGrows
    <3> HIDE DEF m, S
    <3>3. QED
      BY <2>1, <3>1, <3>2, HeldAppend DEF m
  <2>2. QED
    BY <1>5, <2>1
<1>7. Elsewhere(s)
  BY <1>3, <1>4, <1>6 DEF Elsewhere, Unseen
<1>8. QED
  BY <1>1, <1>7, ElsewhereOK

\* The step leaves the tunnel and the server's side of session s alone.
LocalTo(s) ==
  /\ UNCHANGED <<tunnel, wireUp, wireDown, connections, connecting, readers, proxyMail>>
  /\ target'[s] = target[s]
  /\ emitted'[s] = emitted[s]
  /\ targetRx'[s] = targetRx[s]

\* So what is on its way changes by the mailboxes of the client only.
LEMMA LocalFacts ==
  ASSUME NEW s, LocalTo(s)
  PROVE  /\ WrittenUp(s)' = WrittenUp(s)
         /\ Held(s, serverMail') = Held(s, serverMail) =>
              Up(s)' = Up(s) /\ ComingUp(s)' = ComingUp(s)
         /\ Held(s, socksMail'[s]) = Held(s, socksMail[s]) =>
              Down(s)' = Down(s) /\ ComingDown(s)' = ComingDown(s)
         /\ \A type : Mailed(s, type)' <=> Mailed(s, type)
         /\ Offered(s)' = Offered(s)
BY DEF LocalTo, WrittenUp, WrittenDown, Up, Down, ComingUp, ComingDown, Mailed, Offered

\* What nothing has touched yet is empty in both directions.
LEMMA UntouchedFacts ==
  ASSUME NEW s, SessionOK(s), Untried(s)
  PROVE  Down(s) = {} /\ ComingDown(s) = {} /\ emitted[s] = 0 /\ Offered(s) = 0
         /\ target[s] = "none"
BY DEF SessionOK, UntriedIsUntouched, ComingDown, Down, Offered

\* The method selection.
LEMMA NegotiationOK ==
  ASSUME SessionInv, NEW s \in OwnPort, HandleNegotiation(s), SocksFrame
  PROVE  SessionOK(s)'
<1>1. /\ s \in Sessions /\ SessionOK(s) /\ Inv /\ appRx[s] \in Seq(Packets(AppTypes))
  BY SessionFacts
<1>2. LocalTo(s) /\ UNCHANGED <<requested, sent, serverMail, socksMail>>
  BY DEF SocksFrame, HandleNegotiation, proxyVars, targetVars, LocalTo
<1>3. /\ sock[s] = "NEGOTIATION" /\ sock'[s] = "WORKING"
      /\ appRx'[s] = Append(appRx[s], Signal(s, "Negotiation"))
  BY <1>1 DEF HandleNegotiation, Become, Reply, Inv, TypeOK, SocksTypeOK
<1>4. appRx[s] = << >> /\ s \notin requested
  BY <1>1, <1>3 DEF SessionOK, CodecState
<1>5. /\ Len(appRx'[s]) = 1
      /\ appRx'[s][1].type = "Negotiation"
      /\ appRx'[s][1].hi = 0
  BY <1>3, <1>4 DEF Signal, Packet
<1>6. Untried(s) /\ Untried(s)'
  BY <1>2, <1>4 DEF Untried
<1>7. /\ Up(s)' = Up(s) /\ Down(s)' = {} /\ ComingUp(s)' = ComingUp(s) /\ ComingDown(s)' = {}
      /\ \A type : Mailed(s, type)' <=> Mailed(s, type)
      /\ Offered(s)' = Offered(s)
      /\ emitted[s] = 0 /\ target[s] = "none"
  BY <1>1, <1>2, <1>6, LocalFacts, UntouchedFacts
<1> USE <1>1, <1>2, <1>3, <1>4, <1>5, <1>6, <1>7 DEF SessionOK, LocalTo
<1>8. UntriedIsUntouched(s)'
  BY DEF UntriedIsUntouched
<1>9. AsksOnce(s)' /\ UpPackets(s)'
  BY DEF AsksOnce, UpPackets
<1>10. CodecState(s)'
  BY DEF CodecState
<1>11. DownPackets(s)' /\ Connected(s)'
  BY DEF DownPackets, Connected
<1>12. UpChain(s)'
  BY DEF UpChain, Writable, Chained, ReachesTo
<1>13. DownChain(s)'
  BY DEF DownChain, Chained, ReachesTo, Got, Data
<1>14. Seen(s)'
  BY DEF Seen
<1>15. QED
  BY <1>8, <1>9, <1>10, <1>11, <1>12, <1>13, <1>14

\* The request for the target.
LEMMA TargetRequestOK ==
  ASSUME SessionInv, NEW s \in OwnPort, HandleTargetRequest(s), SocksFrame
  PROVE  SessionOK(s)'
<1> DEFINE m == Signal(s, "RequestAddr")
<1>1. /\ s \in Sessions /\ SessionOK(s) /\ Inv /\ appRx[s] \in Seq(Packets(AppTypes))
  BY SessionFacts
<1>2. LocalTo(s) /\ UNCHANGED <<sent, appRx, socksMail>>
  BY DEF SocksFrame, HandleTargetRequest, proxyVars, targetVars, LocalTo
<1>3. /\ sock[s] = "WORKING" /\ sock'[s] = "READY"
      /\ s \in requested'
      /\ serverMail' = Append(serverMail, m)
  BY <1>1 DEF HandleTargetRequest, Become, Inv, TypeOK, SocksTypeOK
<1>4. /\ Len(appRx[s]) = 1 /\ s \notin requested
      /\ Up(s) = {} /\ sent[s] = 0 /\ s \notin connecting
  BY <1>1, <1>3 DEF SessionOK, CodecState, AsksOnce
<1>5. m.src = s /\ m.type = "RequestAddr"
  BY DEF Signal, Packet
<1>6. Held(s, serverMail') = Held(s, serverMail) \cup {m}
  <2>1. m \in Tagged(RequestTypes) /\ serverMail \in Seq(Tagged(RequestTypes))
    BY <1>1, <1>3, SignalTagged DEF Inv, EveryoneKnown, QueuesTagged, RequestTypes
  <2>2. QED
    BY <1>3, <1>5, <2>1, HeldAppend
<1> HIDE DEF m
<1>7. Up(s)' = {m} /\ Data(Up(s)') = {}
  <2>1. Up(s)' = {m}
    BY <1>2, <1>4, <1>6, LocalFacts DEF Up
  <2>2. QED
    BY <1>5, <2>1 DEF Data
<1>8. Untried(s) /\ Untried(s)'
  BY <1>4, <1>5, <1>7 DEF Untried
<1>9. /\ Down(s)' = Down(s) /\ ComingDown(s)' = ComingDown(s) /\ Down(s) = {} /\ ComingDown(s) = {}
      /\ \A type : Mailed(s, type)' <=> Mailed(s, type)
      /\ Offered(s)' = 0
      /\ emitted[s] = 0 /\ target[s] = "none"
  BY <1>1, <1>2, <1>8, LocalFacts, UntouchedFacts
<1> USE <1>1, <1>2, <1>3, <1>4, <1>5, <1>7, <1>8, <1>9 DEF SessionOK, LocalTo
<1>10. UntriedIsUntouched(s)'
  BY DEF UntriedIsUntouched
<1>11. AsksOnce(s)' /\ UpPackets(s)'
  BY DEF AsksOnce, UpPackets
<1>12. CodecState(s)'
  BY DEF CodecState
<1>13. DownPackets(s)' /\ Connected(s)'
  BY DEF DownPackets, Connected
<1>14. UpChain(s)'
  <2>1. Data(ComingUp(s)') = {}
    BY DEF ComingUp, Up, Data
  <2>2. QED
    BY <2>1 DEF UpChain, Chained, ReachesTo
<1>15. DownChain(s)'
  <2>1. Got(s)' = Got(s) /\ sock[s] \in Running
    BY DEF Got, Running
  <2>2. QED
    BY <2>1 DEF DownChain, Chained, ReachesTo
<1>16. Seen(s)'
  BY DEF Seen
<1>17. QED
  BY <1>10, <1>11, <1>12, <1>13, <1>14, <1>15, <1>16

\* Data from the application.
LEMMA DataOK ==
  ASSUME SessionInv, NEW s \in OwnPort, HandleData(s), SocksFrame
  PROVE  SessionOK(s)'
<1>1. /\ s \in Sessions /\ SessionOK(s) /\ Inv /\ sent[s] \in Nat /\ Offered(s) \in Nat
      /\ tunnel \in {"up", "down"}
  BY SessionFacts
<1>2. LocalTo(s) /\ UNCHANGED <<sock, requested, appRx, socksMail>>
  BY DEF SocksFrame, HandleData, proxyVars, targetVars, LocalTo
<1>3. PICK hi \in (sent[s] + 1)..MaxUp :
        /\ sent' = [sent EXCEPT ![s] = hi]
        /\ serverMail' = Append(serverMail, Packet(s, "Data", sent[s], hi))
  BY DEF HandleData
<1> DEFINE m == Packet(s, "Data", sent[s], hi)
<1>4. hi \in Nat /\ sent[s] < hi /\ sent'[s] = hi
  BY <1>1, <1>3, BoundAssumption DEF Inv, TypeOK, SocksTypeOK
<1>5. m.src = s /\ m.type = "Data" /\ m.lo = sent[s] /\ m.hi = hi
  BY DEF Packet
<1>6. sock[s] = "READY" /\ s \in requested
  BY <1>1 DEF SessionOK, CodecState, HandleData
<1>7. Held(s, serverMail') = Held(s, serverMail) \cup {m}
  <2>1. m \in Tagged(RequestTypes) /\ serverMail \in Seq(Tagged(RequestTypes))
    BY <1>1, <1>4, <1>6, PacketTagged DEF Inv, EveryoneKnown, QueuesTagged, RequestTypes
  <2>2. QED
    BY <1>3, <1>5, <2>1, HeldAppend
<1> HIDE DEF m
<1>8. /\ Up(s)' = Up(s) \cup {m}
      /\ ComingUp(s)' = IF tunnel = "up" THEN ComingUp(s) \cup {m} ELSE ComingUp(s)
  BY <1>2, <1>7, LocalFacts DEF Up, ComingUp, LocalTo
<1>9. /\ Down(s)' = Down(s) /\ ComingDown(s)' = ComingDown(s)
      /\ \A type : Mailed(s, type)' <=> Mailed(s, type)
      /\ Offered(s)' = Offered(s)
  BY <1>2, LocalFacts
<1>10. CodecState(s)'
  BY <1>1, <1>2 DEF SessionOK, CodecState
<1>11. Seen(s)'
  BY <1>1, <1>2 DEF SessionOK, LocalTo, Seen
<1>12. Chained(ComingUp(s), Offered(s)) /\ ReachesTo(ComingUp(s), Offered(s), sent[s]) =>
         /\ Chained(ComingUp(s) \cup {m}, Offered(s))
         /\ ReachesTo(ComingUp(s) \cup {m}, Offered(s), hi)
  BY <1>1, <1>5, ChainPush
<1> USE <1>1, <1>2, <1>4, <1>5, <1>6, <1>8, <1>9 DEF SessionOK, LocalTo
<1>13. Untried(s)' <=> Untried(s)
  BY DEF Untried
<1>14. UntriedIsUntouched(s)'
  BY <1>13 DEF UntriedIsUntouched
<1>15. AsksOnce(s)'
  BY DEF AsksOnce
<1>16. UpPackets(s)'
  <2> SUFFICES ASSUME NEW n \in Up(s)', n.type = "Data"
               PROVE  n.lo < n.hi /\ n.hi <= hi
    BY DEF UpPackets, Data
  <2>1. CASE n \in Up(s)
    BY <2>1, UpFacts DEF UpPackets, Data
  <2>2. QED
    BY <2>1
<1>17. DownPackets(s)' /\ Connected(s)'
  BY DEF DownPackets, Connected
<1>18. UpChain(s)'
  <2> SUFFICES ASSUME Writable(s)'
               PROVE  /\ Chained(ComingUp(s)', Offered(s))
                      /\ tunnel = "up" => ReachesTo(ComingUp(s)', Offered(s), hi)
    BY DEF UpChain
  <2>1. Writable(s)
    BY <1>13 DEF Writable
  <2>2. /\ Chained(ComingUp(s), Offered(s))
        /\ tunnel = "up" => ReachesTo(ComingUp(s), Offered(s), sent[s])
    BY <2>1 DEF UpChain
  <2>3. CASE tunnel = "up"
    BY <1>8, <1>12, <2>2, <2>3
  <2>4. CASE tunnel # "up"
    BY <1>8, <2>2, <2>4
  <2>5. QED
    BY <2>3, <2>4
<1>19. DownChain(s)'
  <2>1. Got(s)' = Got(s) /\ (Announced(s)' <=> Announced(s))
    BY DEF Got, Announced
  <2>2. QED
    BY <2>1 DEF DownChain, Chained, ReachesTo
<1>20. QED
  BY <1>10, <1>11, <1>14, <1>15, <1>16, <1>17, <1>18, <1>19

\* The first packet in the mailbox of a session, and what is behind it.
LEMMA FirstMail ==
  ASSUME SessionInv, NEW s \in OwnPort, socksMail[s] # << >>
  PROVE  LET m == Head(socksMail[s])
             f == Tail(socksMail[s])
             W == Held(s, f) \cup Held(s, wireDown)
         IN /\ m.src = s /\ m.type \in ConnectorTypes /\ m.lo \in Nat /\ m.hi \in Nat
            /\ m \in Down(s) /\ m \in ComingDown(s)
            /\ WrittenDown(s) = W \cup {m}
            /\ Down(s) = W \cup Held(s, proxyMail) \cup {m}
            /\ \A n \in W \cup Held(s, proxyMail) : Before(m, n) /\ n.src = s
<1> DEFINE m == Head(socksMail[s])
           f == Tail(socksMail[s])
           W == Held(s, f) \cup Held(s, wireDown)
<1>1. Inv /\ InLine(socksMail[s], wireDown) /\ InLine(socksMail[s], proxyMail)
  BY DEF SessionInv, DownOrder
<1>2. socksMail[s] \in Seq(Packets(ConnectorTypes))
  BY <1>1, OwnMail
<1>3. m \in Elems(socksMail[s])
  BY <1>1, <1>2, ElemsPop DEF InLine
<1>4. m.src = s /\ m.type \in ConnectorTypes /\ m.lo \in Nat /\ m.hi \in Nat
  BY <1>1, <1>3, OwnMail
<1>5. /\ Held(s, socksMail[s]) = Held(s, f) \cup {m}
      /\ \A n \in Held(s, f) : Before(m, n)
  BY <1>1, <1>2, <1>4, HeldPop DEF InLine
<1>6. \A n \in Held(s, wireDown) \cup Held(s, proxyMail) : Before(m, n)
  BY <1>1, <1>5, HeldInLine
<1>7. \A n \in W \cup Held(s, proxyMail) : n.src = s
  BY DEF Held
<1> HIDE DEF m, f
<1>8. WrittenDown(s) = W \cup {m}
  BY <1>5 DEF WrittenDown
<1>9. Down(s) = W \cup Held(s, proxyMail) \cup {m} /\ m \in ComingDown(s)
  BY <1>8 DEF Down, ComingDown
<1>10. QED
  BY <1>4, <1>5, <1>6, <1>7, <1>8, <1>9 DEF m, f

\* What a session that takes it out leaves.
LEMMA PoppedMail ==
  ASSUME SessionInv, NEW s \in OwnPort, socksMail[s] # << >>, LocalTo(s),
         socksMail'[s] = Tail(socksMail[s])
  PROVE  LET m == Head(socksMail[s])
         IN /\ Down(s) = Down(s)' \cup {m}
            /\ ComingDown(s) = ComingDown(s)' \cup {m}
            /\ ComingDown(s)' \subseteq Down(s)'
            /\ \A n \in Down(s)' : Before(m, n) /\ n.src = s
<1> DEFINE m == Head(socksMail[s])
           W == Held(s, Tail(socksMail[s])) \cup Held(s, wireDown)
<1>1. /\ WrittenDown(s) = W \cup {m}
      /\ Down(s) = W \cup Held(s, proxyMail) \cup {m}
      /\ \A n \in W \cup Held(s, proxyMail) : Before(m, n) /\ n.src = s
  BY FirstMail
<1>2. WrittenDown(s)' = W /\ Down(s)' = W \cup Held(s, proxyMail) /\ tunnel' = tunnel
  BY DEF LocalTo, WrittenDown, Down
<1> HIDE DEF m, W
<1>3. ComingDown(s)' = (IF tunnel = "up" THEN W \cup Held(s, proxyMail) ELSE W)
  BY <1>2 DEF ComingDown
<1>4. ComingDown(s) = (IF tunnel = "up" THEN W \cup Held(s, proxyMail) \cup {m} ELSE W \cup {m})
  BY <1>1 DEF ComingDown
<1>5. QED
  BY <1>1, <1>2, <1>3, <1>4 DEF m

\* A number between one and one.
LEMMA ExactlyOne ==
  ASSUME NEW n \in Nat, n >= 1, n <= 1
  PROVE  n = 1
OBVIOUS

\* The reply to the request.
LEMMA ReplyOK ==
  ASSUME SessionInv, NEW s \in OwnPort, HandleReply(s), SocksFrame
  PROVE  SessionOK(s)' /\ s \in requested
<1> DEFINE m == Head(socksMail[s])
           type == IF m.type = "Succeeded" THEN m.type ELSE "ConnectionRefused"
           n == [m EXCEPT !.type = type]
<1>1. /\ s \in Sessions /\ SessionOK(s) /\ Inv /\ appRx[s] \in Seq(Packets(AppTypes))
  BY SessionFacts
<1>2. /\ sock[s] \in Running
      /\ socksMail[s] # << >>
      /\ m.type \in {"Succeeded", "Failed"}
      /\ UNCHANGED <<requested, sent, serverMail>>
  BY DEF HandleReply, Received
<1>3. LocalTo(s)
  BY DEF SocksFrame, proxyVars, targetVars, LocalTo
<1>4. m \in Down(s) /\ m.src = s /\ m \in ComingDown(s)
  BY <1>2, FirstMail
<1>5. s \in requested /\ ~Untried(s)
  BY <1>1, <1>4, UntouchedFacts DEF Untried
<1>6. /\ appRx' = [appRx EXCEPT ![s] = Append(appRx[s], n)]
      /\ socksMail' = [socksMail EXCEPT ![s] = Tail(socksMail[s])]
      /\ UNCHANGED sock
  BY <1>5, Zenon DEF HandleReply, Reply, Pop
<1>7. /\ socksMail'[s] = Tail(socksMail[s])
      /\ appRx'[s] = Append(appRx[s], n)
  BY <1>1, <1>6 DEF Inv, TypeOK, SocksTypeOK, ChannelsTypeOK
<1>8. n.type = type /\ n.hi = m.hi
  <2>1. m \in Packets(ConnectorTypes)
    BY <1>1, <1>2, PopInSeq DEF Inv, TypeOK, ChannelsTypeOK
  <2>2. QED
    BY <2>1, RetypedFields
<1> HIDE DEF n
<1>9. /\ Len(appRx[s]) = 1
      /\ n.hi = 0
      /\ m.type = "Succeeded" => target[s] # "none"
      /\ m.type = "Failed" => target[s] = "none"
  <2>1. m.type \in Opening
    BY <1>2 DEF Opening, Success, Failure
  <2>2. Len(appRx[s]) >= 1 /\ Len(appRx[s]) <= 1
    BY <1>1, <1>4, <1>5, <2>1 DEF SessionOK, CodecState, DownPackets
  <2>3. Len(appRx[s]) = 1
    <3>1. Len(appRx[s]) \in Nat
      BY <1>1
    <3>2. QED
      BY <2>2, <3>1, ExactlyOne, Zenon
  <2>4. /\ m.hi = 0
        /\ m.type = "Succeeded" => target[s] # "none"
        /\ m.type = "Failed" => target[s] = "none"
    BY <1>1, <1>2, <1>4 DEF SessionOK, DownPackets, Opening, Success, Failure
  <2>5. n.hi = 0
    BY <1>8, <2>4
  <2>6. QED
    BY <2>3, <2>4, <2>5
<1> HIDE DEF m
<1>10. /\ Len(appRx'[s]) = 2 /\ appRx'[s][1] = appRx[s][1] /\ appRx'[s][2] = n
       /\ \A i \in 1..2 : i = 1 \/ i = 2
  BY <1>1, <1>7, <1>9
<1>11. Got(s) = 0 /\ Got(s)' = 0
  <2>1. appRx[s] # << >> /\ appRx'[s] # << >>
    BY <1>1, <1>9, <1>10
  <2>2. appRx[s][1].type = "Negotiation"
    BY <1>1, <1>9 DEF SessionOK, Seen
  <2>3. appRx[s][1].hi = 0
    BY <1>1, <1>9, <2>2 DEF SessionOK, CodecState
  <2>4. QED
    BY <1>9, <1>10, <2>1, <2>3 DEF Got
<1>12. /\ Down(s) = Down(s)' \cup {m}
       /\ ComingDown(s) = ComingDown(s)' \cup {m}
       /\ \A k \in Down(s)' : Before(m, k) /\ k.src = s
       /\ ComingDown(s)' \subseteq Down(s)'
  BY <1>2, <1>3, <1>7, PoppedMail DEF m
<1>13. Up(s)' = Up(s) /\ ComingUp(s)' = ComingUp(s) /\ Offered(s)' = Offered(s)
       /\ \A ty : Mailed(s, ty)' <=> Mailed(s, ty)
  BY <1>2, <1>3, LocalFacts
<1>14. \/ n.type = "Succeeded" /\ target[s] # "none"
       \/ n.type = "ConnectionRefused" /\ target[s] = "none"
  BY <1>2, <1>8, <1>9
<1>15. ~Untried(s)'
  BY <1>2, <1>3, <1>5, <1>13 DEF Untried, LocalTo
<1> USE <1>1, <1>2, <1>3, <1>6, <1>13 DEF SessionOK, LocalTo
<1>16. UntriedIsUntouched(s)' /\ AsksOnce(s)' /\ UpPackets(s)'
  BY <1>15 DEF UntriedIsUntouched, AsksOnce, UpPackets
<1>17. CodecState(s)'
  <2>1. sock[s] = "READY"
    BY <1>5 DEF CodecState, Running
  <2>2. \A i \in 1..Len(appRx'[s]) : appRx'[s][i].type # "Data" => appRx'[s][i].hi = 0
    <3>1. appRx[s][1].type # "Data" => appRx[s][1].hi = 0
      BY <1>9 DEF CodecState
    <3>2. QED
      BY <1>9, <1>10, <3>1
  <2>3. QED
    BY <1>5, <1>10, <2>1, <2>2 DEF CodecState
<1>18. DownPackets(s)'
  <2>1. \A k \in Down(s)' : k.type \notin Opening
    BY <1>4, <1>12 DEF Before
  <2>2. QED
    BY <1>12, <2>1 DEF DownPackets
<1>19. Connected(s)'
  BY DEF Connected
<1>20. UpChain(s)'
  BY <1>5, <1>15 DEF UpChain, Writable, Chained, ReachesTo
<1>21. DownChain(s)'
  <2>1. Data(ComingDown(s)') = Data(ComingDown(s))
    BY <1>12 DEF Data
  <2>2. target[s] # "none" => Announced(s)'
    BY <1>8, <1>9, <1>10 DEF Announced
  <2>3. \A k \in ComingDown(s)' : k.type \in Closing \cup {"Data"} => target[s] # "none"
    BY <1>12 DEF DownPackets
  <2>4. QED
    BY <1>11, <2>1, <2>2, <2>3 DEF DownChain, Chained, ReachesTo
<1>22. Seen(s)'
  <2>1. appRx[s][1].type = "Negotiation" /\ sock[s] # "aborted"
    BY <1>9 DEF Seen, Running
  <2>2. QED
    BY <1>10, <1>14, <2>1 DEF Seen
<1>23. QED
  BY <1>5, <1>16, <1>17, <1>18, <1>19, <1>20, <1>21, <1>22

\* When data or an abort is first in its mailbox, a session has had its answer.
LEMMA AnsweredFirst ==
  ASSUME SessionInv, NEW s \in OwnPort, sock[s] \in Running, socksMail[s] # << >>,
         Head(socksMail[s]).type \in Closing \cup {"Data"}
  PROVE  /\ Len(appRx[s]) >= 2 /\ appRx[s][2].type = "Succeeded"
         /\ ~Untried(s) /\ s \in requested /\ target[s] # "none"
<1> DEFINE m == Head(socksMail[s])
           W == Held(s, Tail(socksMail[s])) \cup Held(s, wireDown)
<1>1. SessionOK(s)
  BY SessionFacts
<1>2. /\ m.src = s /\ m \in Down(s) /\ m \in ComingDown(s)
      /\ Down(s) = W \cup Held(s, proxyMail) \cup {m}
      /\ \A n \in W \cup Held(s, proxyMail) : Before(m, n) /\ n.src = s
  BY FirstMail
<1> HIDE DEF m, W
<1>3. Announced(s)
  BY <1>1, <1>2 DEF m, SessionOK, DownChain
<1>4. \A n \in Down(s) : n.type \notin Success
  <2>1. m.type \notin Success
    BY DEF m, Success, Closing
  <2>2. \A n \in W \cup Held(s, proxyMail) : n.type \notin Success
    BY <1>2 DEF Before, Opening
  <2>3. QED
    BY <1>2, <2>1, <2>2
<1>5. ComingDown(s) \subseteq Down(s)
  BY DEF ComingDown, Down
<1>6. Len(appRx[s]) >= 2 /\ appRx[s][2].type = "Succeeded"
  BY <1>3, <1>4, <1>5 DEF Announced
<1>7. ~Untried(s)
  BY <1>1, <1>2, UntouchedFacts
<1>8. target[s] # "none"
  BY <1>1, <1>2 DEF m, SessionOK, DownPackets
<1>9. QED
  BY <1>6, <1>7, <1>8 DEF Untried

\* Data for the application.
LEMMA ConnectorDataOK ==
  ASSUME SessionInv, NEW s \in OwnPort, HandleConnectorData(s), SocksFrame
  PROVE  /\ SessionOK(s)'
         /\ Head(socksMail[s]).lo = Got(s)
         /\ Head(socksMail[s]).hi > Got(s)
         /\ Head(socksMail[s]).hi <= emitted[s]
<1> DEFINE m == Head(socksMail[s])
<1>1. /\ s \in Sessions /\ SessionOK(s) /\ Inv /\ appRx[s] \in Seq(Packets(AppTypes))
      /\ Got(s) \in Nat /\ emitted[s] \in Nat /\ tunnel \in {"up", "down"}
  BY SessionFacts
<1>2. /\ sock[s] \in Running
      /\ socksMail[s] # << >>
      /\ m.type = "Data"
      /\ UNCHANGED <<sock, requested, sent, serverMail>>
  BY DEF HandleConnectorData, Received
<1>3. LocalTo(s)
  BY DEF SocksFrame, proxyVars, targetVars, LocalTo
<1>4. m \in Down(s) /\ m.src = s /\ m \in ComingDown(s) /\ m.lo \in Nat /\ m.hi \in Nat
  BY <1>2, FirstMail
<1>5. /\ Len(appRx[s]) >= 2 /\ appRx[s][2].type = "Succeeded"
      /\ ~Untried(s) /\ s \in requested
  BY <1>2, AnsweredFirst
<1>6. /\ socksMail'[s] = Tail(socksMail[s])
      /\ appRx'[s] = Append(appRx[s], m)
  BY <1>1 DEF HandleConnectorData, Reply, Pop, Inv, TypeOK, SocksTypeOK, ChannelsTypeOK
<1> HIDE DEF m
<1>7. /\ Len(appRx'[s]) = Len(appRx[s]) + 1
      /\ appRx'[s][Len(appRx[s]) + 1] = m
      /\ \A i \in 1..Len(appRx[s]) : appRx'[s][i] = appRx[s][i]
      /\ Len(appRx[s]) \in Nat
      /\ appRx[s] # << >> /\ appRx'[s] # << >>
  BY <1>1, <1>5, <1>6
<1>8. /\ Down(s) = Down(s)' \cup {m}
      /\ ComingDown(s) = ComingDown(s)' \cup {m}
      /\ \A k \in Down(s)' : Before(m, k) /\ k.src = s
      /\ ComingDown(s)' \subseteq Down(s)'
  BY <1>2, <1>3, <1>6, PoppedMail DEF m
<1>9. Up(s)' = Up(s) /\ ComingUp(s)' = ComingUp(s) /\ Offered(s)' = Offered(s)
      /\ \A ty : Mailed(s, ty)' <=> Mailed(s, ty)
  BY <1>2, <1>3, LocalFacts
<1>10. ~Untried(s)'
  BY <1>2, <1>3, <1>5, <1>9 DEF Untried, LocalTo
<1>11. Got(s)' = m.hi /\ Got(s) = appRx[s][Len(appRx[s])].hi
  BY <1>7 DEF Got
<1>12. /\ m.lo < m.hi /\ m.hi <= emitted[s]
  BY <1>1, <1>2, <1>4 DEF SessionOK, DownPackets
<1>13. /\ m.lo = Got(s)
       /\ Chained(ComingDown(s)', m.hi)
       /\ tunnel = "up" => ReachesTo(ComingDown(s)', m.hi, emitted[s])
  <2>1. m \in Data(ComingDown(s)) /\ Data(ComingDown(s)) = {m} \cup Data(ComingDown(s)')
    BY <1>2, <1>4, <1>8 DEF Data
  <2>2. ComingDown(s) \subseteq Down(s)
    BY <1>4, <1>8
  <2>3. Packety(ComingDown(s))
    BY <1>1, <2>2, DownFacts DEF Packety
  <2>4. \A n \in Data(ComingDown(s)) : n.lo < n.hi
    BY <1>1, <2>2 DEF SessionOK, DownPackets, Data
  <2>5. \A n \in Data(ComingDown(s)') : m.hi <= n.lo
    BY <1>2, <1>4, <1>8 DEF Data, Before
  <2>6. Chained(ComingDown(s), Got(s)) /\ (tunnel = "up" => ReachesTo(ComingDown(s), Got(s), emitted[s]))
    BY <1>1, <1>2 DEF SessionOK, DownChain
  <2>7. QED
    BY <1>1, <1>12, <2>1, <2>3, <2>4, <2>5, <2>6, ChainPop
<1> USE <1>1, <1>2, <1>3, <1>9 DEF SessionOK, LocalTo
<1>14. UntriedIsUntouched(s)' /\ AsksOnce(s)' /\ UpPackets(s)'
  BY <1>10 DEF UntriedIsUntouched, AsksOnce, UpPackets
<1>15. CodecState(s)'
  <2>1. sock[s] = "READY"
    BY <1>5 DEF CodecState, Running
  <2>2. \A i \in 1..Len(appRx'[s]) : appRx'[s][i].type # "Data" => appRx'[s][i].hi = 0
    <3>1. \A i \in 1..Len(appRx[s]) : appRx[s][i].type # "Data" => appRx[s][i].hi = 0
      BY DEF CodecState
    <3>2. ASSUME NEW i \in 1..Len(appRx'[s])
          PROVE  i \in 1..Len(appRx[s]) \/ i = Len(appRx[s]) + 1
      BY <1>7
    <3>3. QED
      BY <1>2, <1>7, <3>1, <3>2
  <2>3. Len(appRx'[s]) >= 1
    BY <1>5, <1>7
  <2>4. QED
    BY <1>5, <2>1, <2>2, <2>3 DEF CodecState
<1>16. DownPackets(s)'
  <2>1. \A k \in Down(s)' : k.type \notin Opening
    BY <1>4, <1>8 DEF Before
  <2>2. QED
    BY <1>8, <2>1 DEF DownPackets
<1>17. Connected(s)'
  BY DEF Connected
<1>18. UpChain(s)'
  BY <1>5, <1>10 DEF UpChain, Writable, Chained, ReachesTo
<1>19. DownChain(s)'
  <2>1. Announced(s)'
    BY <1>5, <1>7 DEF Announced
  <2>2. QED
    BY <1>11, <1>13, <2>1 DEF DownChain
<1>20. Seen(s)'
  <2>1. ASSUME NEW i \in 1..Len(appRx'[s])
        PROVE  LET k == appRx'[s][i] IN
               /\ i = 1 => k.type = "Negotiation"
               /\ i = 2 => \/ k.type = "Succeeded" /\ target[s] # "none"
                           \/ k.type = "ConnectionRefused" /\ target[s] = "none"
               /\ i > 2 => /\ k.type = "Data"
                           /\ appRx'[s][2].type = "Succeeded"
                           /\ k.lo = appRx'[s][i - 1].hi
    <3>1. CASE i \in 1..Len(appRx[s])
      <4>1. i > 2 => i - 1 \in 1..Len(appRx[s]) /\ 2 \in 1..Len(appRx[s])
        BY <1>5, <1>7, <3>1
      <4>2. QED
        BY <1>7, <3>1, <4>1, ZenonT(60) DEF Seen
    <3>2. CASE i = Len(appRx[s]) + 1
      <4>1. i > 2 /\ i - 1 = Len(appRx[s]) /\ Len(appRx[s]) \in 1..Len(appRx[s])
            /\ 2 \in 1..Len(appRx[s])
        BY <1>5, <1>7, <3>2
      <4>2. appRx'[s][i - 1].hi = Got(s) /\ appRx'[s][2].type = "Succeeded"
        BY <1>5, <1>7, <1>11, <4>1
      <4>3. QED
        BY <1>7, <1>13, <3>2, <4>1, <4>2
    <3>3. QED
      BY <1>7, <3>1, <3>2
  <2>2. sock[s] # "aborted"
    BY DEF Running
  <2>3. QED
    BY <2>1, <2>2 DEF Seen
<1>21. QED
  BY <1>4, <1>12, <1>13, <1>14, <1>15, <1>16, <1>17, <1>18, <1>19, <1>20 DEF m

\* The actor of session s ends, by its application, by a panic of its codec, or
\* by an abort.
LEMMA EndOK ==
  ASSUME SessionInv, NEW s \in OwnPort, SocksFrame,
         NEW how \in {"closed", "panic_decode", "aborted"}, End(s, how),
         UNCHANGED <<requested, sent, appRx, serverMail>>,
         how = "aborted" => /\ target[s] = "reset"
                            /\ Len(appRx[s]) >= 2
                            /\ appRx[s][2].type = "Succeeded"
  PROVE  SessionOK(s)'
<1>1. s \in Sessions /\ SessionOK(s) /\ Inv
  BY SessionFacts
<1>2. LocalTo(s) /\ Unseen(s)
  BY DEF SocksFrame, proxyVars, targetVars, LocalTo, Unseen
<1>3. sock'[s] = how /\ socksMail'[s] = << >>
  BY <1>1 DEF End, Become, Inv, TypeOK, SocksTypeOK, ChannelsTypeOK
<1>4. Held(s, socksMail'[s]) = {}
  BY <1>3, HeldEmpty
<1>5. Down(s)' \subseteq Down(s)
  BY <1>2, <1>4 DEF LocalTo, Down, WrittenDown
<1>6. Up(s)' = Up(s) /\ ComingUp(s)' = ComingUp(s) /\ Offered(s)' = Offered(s)
      /\ \A ty : Mailed(s, ty)' <=> Mailed(s, ty)
  BY <1>2, LocalFacts
<1>7. Writable(s)' => Writable(s)
  BY <1>2, <1>6 DEF Writable, Untried, LocalTo, Unseen
<1>8. Connected(s)'
  BY <1>1, <1>2, <1>6 DEF Connected, SessionOK, LocalTo
<1>9. sock'[s] \notin Running
  BY <1>3 DEF Running
<1>10. UpChain(s)' /\ DownChain(s)'
  BY <1>1, <1>2, <1>6, <1>7, <1>9, SameChains DEF LocalTo
<1>11. Less(s)
  BY <1>2, <1>3, <1>5, <1>6 DEF Less, LocalTo
<1>12. QED
  BY <1>1, <1>3, <1>8, <1>10, <1>11, LessOK

\* Every step of a SocksClient.
LEMMA SocksOK ==
  ASSUME SessionInv, NEW s \in OwnPort, NEW t \in Sessions, SocksNext(t), SocksFrame
  PROVE  SessionOK(s)'
<1>1. CASE s # t
  BY <1>1, SocksOther
<1>2. CASE s = t
  <2>1. CASE HandleNegotiation(s)
    BY <2>1, NegotiationOK
  <2>2. CASE HandleTargetRequest(s)
    BY <2>2, TargetRequestOK
  <2>3. CASE DecodePanics(s)
    BY <2>3, EndOK DEF DecodePanics
  <2>4. CASE HandleData(s)
    BY <2>4, DataOK
  <2>5. CASE AppCloses(s)
    BY <2>5, EndOK DEF AppCloses
  <2>6. CASE HandleReply(s)
    BY <2>6, ReplyOK
  <2>7. CASE HandleConnectorData(s)
    BY <2>7, ConnectorDataOK
  <2>8. CASE HandleAbort(s)
    <3>1. /\ sock[s] \in Running /\ socksMail[s] # << >>
          /\ Head(socksMail[s]).type = "Abort"
          /\ UNCHANGED <<requested, sent, serverMail, appRx>>
          /\ End(s, "aborted")
      BY <2>8 DEF HandleAbort, Received
    <3>2. Len(appRx[s]) >= 2 /\ appRx[s][2].type = "Succeeded"
      BY <3>1, AnsweredFirst DEF Closing
    <3>3. Head(socksMail[s]) \in Down(s) /\ SessionOK(s)
      BY <3>1, FirstMail, SessionFacts
    <3>4. target[s] = "reset"
      BY <3>1, <3>3 DEF SessionOK, DownPackets, Closing
    <3>5. QED
      BY <3>1, <3>2, <3>4, EndOK
  <2>9. QED
    BY <1>2, <2>1, <2>2, <2>3, <2>4, <2>5, <2>6, <2>7, <2>8 DEF SocksNext
<1>3. QED
  BY <1>1, <1>2

-----------------------------------------------------------------------------
(* The steps of the client's Server.                                       *)

\* A session is accepted.
LEMMA ConnectedOK ==
  ASSUME SessionInv, NEW s \in OwnPort, NEW t \in Sessions, SocksConnected(t), ServerFrame
  PROVE  SessionOK(s)'
<1>1. s \in Sessions /\ SessionOK(s) /\ Inv
  BY SessionFacts
<1>2. /\ LocalTo(s) /\ Unseen(s) /\ UNCHANGED <<serverMail, socksMail>>
      /\ sock[t] = "none"
      /\ sock'[s] = IF s = t THEN "NEGOTIATION" ELSE sock[s]
  BY <1>1 DEF ServerFrame, SocksConnected, Become, proxyVars, targetVars, channelVars, LocalTo,
              Unseen, Inv, TypeOK, SocksTypeOK
<1>3. CASE s # t
  <2>1. Elsewhere(s)
    BY <1>2, <1>3 DEF Elsewhere, LocalTo
  <2>2. QED
    BY <1>1, <2>1, ElsewhereOK
<1>4. CASE s = t
  <2>1. appRx[s] = << >> /\ s \notin requested /\ sock'[s] = "NEGOTIATION"
    BY <1>1, <1>2, <1>4 DEF SessionOK, CodecState
  <2>2. Untried(s) /\ Untried(s)'
    BY <1>2, <2>1 DEF Untried, Unseen
  <2>3. /\ Up(s)' = Up(s) /\ Down(s)' = {} /\ ComingUp(s)' = ComingUp(s) /\ ComingDown(s)' = {}
        /\ \A type : Mailed(s, type)' <=> Mailed(s, type)
        /\ Offered(s)' = Offered(s)
        /\ emitted[s] = 0 /\ target[s] = "none"
    BY <1>1, <1>2, <2>2, LocalFacts, UntouchedFacts
  <2> USE <1>1, <1>2, <2>1, <2>2, <2>3 DEF SessionOK, LocalTo, Unseen
  <2>4. UntriedIsUntouched(s)' /\ AsksOnce(s)' /\ UpPackets(s)'
    BY DEF UntriedIsUntouched, AsksOnce, UpPackets
  <2>5. CodecState(s)' /\ Seen(s)'
    BY DEF CodecState, Seen
  <2>6. DownPackets(s)' /\ Connected(s)'
    BY DEF DownPackets, Connected
  <2>7. UpChain(s)'
    BY DEF UpChain, Writable, Chained, ReachesTo
  <2>8. DownChain(s)'
    BY DEF DownChain, Chained, ReachesTo, Got, Data
  <2>9. QED
    BY <2>4, <2>5, <2>6, <2>7, <2>8
<1>5. QED
  BY <1>3, <1>4

\* The client process ends.
LEMMA ProcessDiesOK ==
  ASSUME SessionInv, NEW s \in OwnPort, NEW how, ProcessDies(how), ServerFrame,
         UNCHANGED <<requested, sent, appRx, wireUp, serverMail, wireDown>>
  PROVE  SessionOK(s)'
<1>1. s \in Sessions
  BY SessionFacts
<1>2. /\ UNCHANGED <<connections, connecting, readers, proxyMail>>
      /\ Unseen(s)
      /\ tunnel' = "down"
      /\ socksMail'[s] = << >>
      /\ sock'[s] = sock[s] \/ sock'[s] = "closed"
      /\ sock'[s] \notin Running
  BY <1>1 DEF ServerFrame, proxyVars, targetVars, ProcessDies, Unseen, Running
<1>3. WrittenUp(s)' = WrittenUp(s)
  BY DEF WrittenUp
<1>4. WrittenDown(s)' \subseteq WrittenDown(s)
  BY <1>2, HeldEmpty DEF WrittenDown
<1>5. Fall(s)
  BY <1>2, <1>3, <1>4 DEF Fall
<1>6. QED
  BY <1>5, FallOK

\* A request is written to the tunnel, or lost with it.
LEMMA ProxyRequestOK ==
  ASSUME SessionInv, NEW s \in OwnPort, ServerFrame,
         HandleProxyRequest \/ HandleHeartbeat
  PROVE  SessionOK(s)'
<1>1. s \in Sessions /\ SessionOK(s) /\ Inv
  BY SessionFacts
<1>2. PICK m \in Tagged(RequestTypes) : /\ wireUp' = Write(wireUp, m)
                                        /\ m.src = Head(serverMail).src
                                        /\ m = Head(serverMail) \/ m.src = None
  <2>1. serverMail # << >> /\ serverMail \in Seq(Tagged(RequestTypes)) /\ hb_index \in Nat
    BY <1>1 DEF HandleProxyRequest, HandleHeartbeat, Inv, QueuesTagged, TypeOK, ServerTypeOK
  <2>2. Head(serverMail) \in Tagged(RequestTypes)
    BY <2>1, PopInSeq
  <2>3. CASE HandleProxyRequest
    BY <2>2, <2>3 DEF HandleProxyRequest
  <2>4. CASE HandleHeartbeat
    <3>1. Head(serverMail).src = None /\ wireUp' = Write(wireUp, HeartbeatPacket(hb_index + 1))
      BY <2>2, <2>4, TaggedFacts DEF HandleHeartbeat
    <3>2. HeartbeatPacket(hb_index + 1).src = None
      BY DEF HeartbeatPacket
    <3>3. HeartbeatPacket(hb_index + 1) \in Tagged(RequestTypes)
      BY <2>1, HeartbeatTagged DEF RequestTypes
    <3>4. QED
      BY <3>1, <3>2, <3>3
  <2>5. QED
    BY <2>3, <2>4
<1>3. /\ serverMail # << >> /\ serverMail' = Tail(serverMail)
      /\ UNCHANGED <<sock, requested, sent, appRx, tunnel, wireDown, socksMail, connections,
                     connecting, readers, proxyMail, target, emitted, targetRx>>
  BY DEF HandleProxyRequest, HandleHeartbeat, socksVars, ServerFrame, proxyVars, targetVars
<1>4. Unseen(s)
  BY <1>3 DEF Unseen
<1>5. /\ serverMail \in Seq(Tagged(RequestTypes)) /\ Ordered(serverMail)
      /\ wireUp \in Seq(Tagged(RequestTypes))
  BY DEF SessionInv, Inv, QueuesTagged, UpOrder, InLine
<1>6. /\ m.src = s => Held(s, serverMail) = Held(s, serverMail') \cup {Head(serverMail)}
      /\ m.src # s => Held(s, serverMail') = Held(s, serverMail)
  BY <1>2, <1>3, <1>5, HeldPop
<1>7. Held(s, Append(wireUp, m)) = IF m.src = s THEN Held(s, wireUp) \cup {m} ELSE Held(s, wireUp)
  BY <1>2, <1>5, HeldAppend
<1>8. Held(s, wireUp') = IF m.src = s /\ tunnel = "up" THEN Held(s, wireUp) \cup {m}
                                                      ELSE Held(s, wireUp)
  BY <1>2, <1>7 DEF Write
<1>9. CASE m.src # s
  <2>1. Elsewhere(s)
    BY <1>3, <1>4, <1>6, <1>8, <1>9 DEF Elsewhere
  <2>2. QED
    BY <1>1, <2>1, ElsewhereOK
<1>10. CASE m.src = s
  <2>1. m = Head(serverMail)
    BY <1>1, <1>2, <1>10, NoneAssumption
  <2>2. Up(s)' \subseteq Up(s) /\ ComingUp(s)' = ComingUp(s)
    BY <1>3, <1>6, <1>8, <1>10, <2>1 DEF Up, WrittenUp, ComingUp
  <2>3. Down(s)' = Down(s) /\ ComingDown(s)' = ComingDown(s)
    BY <1>3 DEF Down, WrittenDown, ComingDown
  <2>4. \A type : Mailed(s, type)' <=> Mailed(s, type)
    BY <1>3 DEF Mailed
  <2>5. Writable(s)' => Writable(s)
    BY <1>3, <2>2, <2>4 DEF Writable, Untried
  <2>6. Connected(s)'
    BY <1>1, <1>3, <2>4 DEF SessionOK, Connected
  <2>7. UpChain(s)' /\ DownChain(s)'
    BY <1>1, <1>3, <1>4, <2>2, <2>3, <2>5, SameChains
  <2>8. Less(s)
    BY <1>3, <1>4, <2>2, <2>3 DEF Less
  <2>9. QED
    BY <1>1, <1>3, <2>6, <2>7, <2>8, LessOK
<1>11. QED
  BY <1>9, <1>10

\* What comes from the tunnel never panics.
LEMMA AlwaysRoutable ==
  ASSUME Inv, wireDown # << >>
  PROVE  Routable(Head(wireDown)) /\ Head(wireDown) \in Tagged(ResponseTypes)
<1>1. Head(wireDown) \in Tagged(ResponseTypes)
  BY PopInSeq DEF Inv, QueuesTagged
<1>2. QED
  BY <1>1, TaggedFacts DEF Routable

\* A response reaches the session it is about, and no other with a port of its
\* own.
LEMMA ResponseOK ==
  ASSUME SessionInv, NEW s \in OwnPort, HandleResponse, ServerFrame
  PROVE  SessionOK(s)'
<1> DEFINE m == Head(wireDown)
           n == ToConnectorResponse(m)
<1>1. /\ s \in Sessions /\ SessionOK(s) /\ Inv /\ s # None
      /\ socksMail \in [Sessions -> Seq(Packets(ConnectorTypes))]
  BY SessionFacts DEF Inv, TypeOK, ChannelsTypeOK
<1>2. wireDown # << >> /\ wireDown' = Tail(wireDown)
  BY DEF HandleResponse
<1>3. Routable(m) /\ m \in Tagged(ResponseTypes)
  BY <1>1, <1>2, AlwaysRoutable
<1>4. Route(m)
  BY <1>3 DEF HandleResponse
<1>5. UNCHANGED <<tunnel, sock, requested, sent, appRx, wireUp, serverMail, connections,
                  connecting, readers, proxyMail, target, emitted, targetRx>>
  BY <1>3 DEF HandleResponse, ServerFrame, proxyVars, targetVars
<1>6. Unseen(s)
  BY <1>5 DEF Unseen
<1>7. wireDown \in Seq(Tagged(ResponseTypes)) /\ Ordered(wireDown)
  BY DEF SessionInv, Inv, QueuesTagged, DownOrder, InLine
<1>8. /\ m.src = s => Held(s, wireDown) = Held(s, wireDown') \cup {m}
      /\ m.src # s => Held(s, wireDown') = Held(s, wireDown)
  BY <1>2, <1>7, HeldPop
<1>9. CASE m.src # s
  <2>1. m.uuid # 0 => clients[m.uuid] # s
    <3> SUFFICES ASSUME m.uuid # 0 PROVE clients[m.uuid] # s
      OBVIOUS
    <3>1. m.type # "Heartbeat"
      BY <1>3, TaggedFacts
    <3>2. PortOf[clients[m.uuid]] = PortOf[m.src] /\ m.src \in Sessions
      BY <1>1, <1>3, <3>1, RouteTagged, TaggedFacts
    <3>3. QED
      BY <1>9, <3>2 DEF OwnPort, UniquePort
  <2>2. socksMail'[s] = socksMail[s]
    BY <1>1, <1>4, <2>1 DEF Route
  <2>3. Elsewhere(s)
    BY <1>5, <1>6, <1>8, <1>9, <2>2 DEF Elsewhere
  <2>4. QED
    BY <1>1, <2>3, ElsewhereOK
<1>10. CASE m.src = s
  <2>1. /\ m.type # "Heartbeat" /\ m.uuid # 0 /\ m \in Packets(ResponseTypes)
        /\ m.uuid = PortOf[s]
    BY <1>1, <1>3, <1>10, TaggedFacts
  <2>2. clients[m.uuid] = s
    <3>1. clients[m.uuid] \in Sessions /\ PortOf[clients[m.uuid]] = PortOf[s]
      BY <1>1, <1>3, <2>1, RouteTagged
    <3>2. QED
      BY <3>1 DEF OwnPort, UniquePort
  <2>3. Up(s)' = Up(s) /\ ComingUp(s)' = ComingUp(s)
    BY <1>5 DEF Up, WrittenUp, ComingUp
  <2>4. \A type : Mailed(s, type)' <=> Mailed(s, type)
    BY <1>5 DEF Mailed
  <2>5. Writable(s)' => Writable(s)
    BY <1>5, <2>3, <2>4 DEF Writable, Untried
  <2>6. Connected(s)'
    BY <1>1, <1>5, <2>4 DEF SessionOK, Connected
  <2>7. CASE sock[s] \in Running
    <3>1. /\ n.type = IF m.type \in {"ConnectionRefused", "Timeout"} THEN "Failed" ELSE m.type
          /\ n.src = s
          /\ n.lo = m.lo
          /\ n.hi = m.hi
      BY <1>10, <2>1, ConnectorFields
    <3>2. n \in Packets(ConnectorTypes)
      BY <1>1, <1>3, <2>1, RouteTagged, OfPortSubset
    <3> HIDE DEF n
    <3>3. socksMail'[s] = Append(socksMail[s], n)
      BY <1>1, <1>4, <2>1, <2>2, <2>7 DEF Route, n
    <3>4. Held(s, socksMail'[s]) = Held(s, socksMail[s]) \cup {n}
      BY <1>1, <3>1, <3>2, <3>3, HeldAppend
    <3> DEFINE C == Held(s, socksMail[s]) \cup Held(s, wireDown')
               D == C \cup Held(s, proxyMail)
    <3>5. WrittenDown(s) = C \cup {m} /\ WrittenDown(s)' = C \cup {n}
      BY <1>8, <1>10, <3>4 DEF WrittenDown
    <3>6. Down(s) = D \cup {m} /\ Down(s)' = D \cup {n}
      BY <1>5, <3>5 DEF Down
    <3>7. /\ ComingDown(s) = (IF tunnel = "up" THEN D ELSE C) \cup {m}
          /\ ComingDown(s)' = (IF tunnel = "up" THEN D ELSE C) \cup {n}
      BY <1>5, <3>5, <3>6 DEF ComingDown
    <3> HIDE DEF C, D
    <3>8. m.type \in Opening => m.hi = 0
      BY <1>1, <3>6 DEF SessionOK, DownPackets
    <3>9. m.type # "RequestAddr"
      BY <2>1 DEF Packets, ResponseTypes
    <3>10. Relabel(s, m, n)
      <4>1. /\ n.type # "RequestAddr"
            /\ m.type \in Success <=> n.type \in Success
            /\ m.type \in Failure <=> n.type \in Failure
            /\ m.type \in Closing <=> n.type \in Closing
            /\ m.type = "Data" <=> n.type = "Data"
            /\ n.type \in Opening => m.type \in Opening
        BY <3>1, <3>9 DEF Opening, Success, Failure, Closing
      <4>2. QED
        BY <1>5, <1>6, <2>3, <3>1, <3>6, <3>7, <3>8, <4>1 DEF Relabel
    <3>11. QED
      BY <1>1, <2>5, <2>6, <3>10, RelabelOK
  <2>8. CASE sock[s] \notin Running
    <3>1. socksMail'[s] = socksMail[s]
      BY <1>4, <2>2, <2>8 DEF Route
    <3>2. Down(s)' \subseteq Down(s)
      BY <1>5, <1>8, <1>10, <3>1 DEF Down, WrittenDown
    <3>3. UpChain(s)' /\ DownChain(s)'
      BY <1>1, <1>5, <1>6, <2>3, <2>5, <2>8, SameChains
    <3>4. Less(s)
      BY <1>5, <1>6, <2>3, <3>2 DEF Less
    <3>5. QED
      BY <1>1, <1>5, <2>6, <3>3, <3>4, LessOK
  <2>9. QED
    BY <2>7, <2>8
<1>11. QED
  BY <1>9, <1>10

\* Every step of the client's Server.
LEMMA ServerOK ==
  ASSUME SessionInv, NEW s \in OwnPort, ServerNext, ServerFrame
  PROVE  SessionOK(s)'
<1>1. s \in Sessions /\ SessionOK(s) /\ Inv
  BY SessionFacts
<1>2. CASE \E t \in Sessions : SocksConnected(t)
  BY <1>2, ConnectedOK
<1>3. CASE \E t \in Sessions : AcceptPanics(t)
  BY <1>3, ProcessDiesOK DEF AcceptPanics
<1>4. CASE IntervalTick
  <2>1. /\ serverMail' = Append(serverMail, HeartbeatPacket(0))
        /\ UNCHANGED <<sock, requested, sent, appRx, tunnel, wireUp, wireDown, socksMail,
                       connections, connecting, readers, proxyMail, target, emitted, targetRx>>
    BY <1>4 DEF IntervalTick, socksVars, ServerFrame, proxyVars, targetVars
  <2>2. HeartbeatPacket(0) \in Tagged(RequestTypes) /\ serverMail \in Seq(Tagged(RequestTypes))
    BY <1>1, HeartbeatTagged DEF Inv, QueuesTagged, RequestTypes
  <2>3. HeartbeatPacket(0).src # s
    BY <1>1, NoneAssumption DEF HeartbeatPacket
  <2>4. Held(s, serverMail') = Held(s, serverMail)
    BY <2>1, <2>2, <2>3, HeldAppend
  <2>5. Elsewhere(s)
    BY <2>1, <2>4 DEF Elsewhere, Unseen
  <2>6. QED
    BY <1>1, <2>5, ElsewhereOK
<1>5. CASE HandleHeartbeat \/ HandleProxyRequest
  BY <1>5, ProxyRequestOK
<1>6. CASE HandleResponse
  BY <1>6, ResponseOK
<1>7. CASE ServerStops
  <2>1. Elsewhere(s)
    BY <1>7 DEF ServerStops, socksVars, channelVars, ServerFrame, proxyVars, targetVars,
                Elsewhere, Unseen
  <2>2. QED
    BY <1>1, <2>1, ElsewhereOK
<1>8. QED
  BY <1>2, <1>3, <1>4, <1>5, <1>6, <1>7 DEF ServerNext

-----------------------------------------------------------------------------
(* The steps of the ProxyClient: requests.                                 *)

\* The request the actor takes from the tunnel, and what is behind it.
LEMMA RequestFacts ==
  ASSUME SessionInv, NEW s \in OwnPort, NEW type, Request(type), ProxyFrame
  PROVE  LET m == Head(wireUp) IN
         /\ m.type = type /\ m \in Tagged(RequestTypes)
         /\ m.src # s => Held(s, wireUp') = Held(s, wireUp)
         /\ m.src = s => /\ WrittenUp(s) = WrittenUp(s)' \cup {m}
                         /\ Up(s) = Up(s)' \cup {m}
                         /\ m \in ComingUp(s)
                         /\ \A n \in Up(s)' : Before(m, n) /\ n.src = s
         /\ UNCHANGED <<sock, requested, sent, appRx, clients, serverMail, socksMail>>
<1> DEFINE m == Head(wireUp)
<1>1. /\ wireUp # << >> /\ m.type = type /\ wireUp' = Tail(wireUp)
      /\ UNCHANGED <<sock, requested, sent, appRx, clients, serverMail, socksMail>>
  BY DEF Request, ProxyFrame, socksVars, serverVars
<1>2. wireUp \in Seq(Tagged(RequestTypes)) /\ Ordered(wireUp) /\ InLine(wireUp, serverMail)
  BY DEF SessionInv, Inv, QueuesTagged, UpOrder, InLine
<1>3. m \in Tagged(RequestTypes)
  BY <1>1, <1>2, PopInSeq
<1>4. /\ m.src = s => Held(s, wireUp) = Held(s, wireUp') \cup {m}
      /\ m.src # s => Held(s, wireUp') = Held(s, wireUp)
      /\ \A n \in Held(s, wireUp') : Before(m, n)
  BY <1>1, <1>2, HeldPop
<1> HIDE DEF m
<1>5. ASSUME m.src = s
      PROVE  /\ WrittenUp(s) = WrittenUp(s)' \cup {m}
             /\ Up(s) = Up(s)' \cup {m}
             /\ m \in ComingUp(s)
             /\ \A n \in Up(s)' : Before(m, n) /\ n.src = s
  <2>1. WrittenUp(s) = WrittenUp(s)' \cup {m}
    BY <1>4, <1>5 DEF WrittenUp
  <2>2. Up(s)' = WrittenUp(s)' \cup Held(s, serverMail) /\ Up(s) = Up(s)' \cup {m}
    BY <1>1, <2>1 DEF Up
  <2>3. m \in Held(s, wireUp)
    BY <1>4, <1>5
  <2>4. \A n \in Held(s, serverMail) : Before(m, n)
    BY <1>2, <2>3, HeldInLine
  <2>5. \A n \in WrittenUp(s)' : Before(m, n)
    BY <1>4 DEF WrittenUp
  <2>6. \A n \in Up(s)' : n.src = s
    BY DEF Up, WrittenUp, Held
  <2>7. m \in ComingUp(s)
    BY <2>1 DEF ComingUp, Up
  <2>8. QED
    BY <2>1, <2>2, <2>4, <2>5, <2>6, <2>7
<1>6. QED
  BY <1>1, <1>3, <1>4, <1>5 DEF m

\* The parts of a session that a request does not concern.
LEMMA DownSame ==
  ASSUME NEW s, UNCHANGED <<tunnel, socksMail, wireDown, proxyMail>>
  PROVE  /\ Down(s)' = Down(s) /\ ComingDown(s)' = ComingDown(s)
         /\ \A type : Mailed(s, type)' <=> Mailed(s, type)
BY DEF Down, ComingDown, WrittenDown, Mailed

\* A target is asked for.
LEMMA RequestAddrOK ==
  ASSUME SessionInv, NEW s \in OwnPort, HandleRequestAddr, ProxyFrame
  PROVE  SessionOK(s)'
<1> DEFINE m == Head(wireUp)
<1>1. s \in Sessions /\ SessionOK(s) /\ Inv
  BY SessionFacts
<1>2. /\ m.type = "RequestAddr"
      /\ m.src # s => Held(s, wireUp') = Held(s, wireUp)
      /\ m.src = s => /\ WrittenUp(s) = WrittenUp(s)' \cup {m}
                      /\ Up(s) = Up(s)' \cup {m}
                      /\ \A n \in Up(s)' : Before(m, n) /\ n.src = s
      /\ UNCHANGED <<sock, requested, sent, appRx, serverMail, socksMail>>
  BY RequestFacts DEF HandleRequestAddr
<1>3. /\ connecting' = connecting \cup {m.src}
      /\ UNCHANGED <<connections, readers, proxyMail, target, emitted, targetRx, tunnel, wireDown>>
  BY DEF HandleRequestAddr, targetVars
<1> HIDE DEF m
<1>4. CASE m.src # s
  <2>1. Elsewhere(s)
    BY <1>2, <1>3, <1>4 DEF Elsewhere, Unseen
  <2>2. QED
    BY <1>1, <2>1, ElsewhereOK
<1>5. CASE m.src = s
  <2>1. Untried(s) /\ Untried(s)' /\ s \in requested
    <3>1. m \in Up(s)
      BY <1>2, <1>5
    <3>2. QED
      BY <1>1, <1>2, <1>3, <1>5, <3>1 DEF Untried, SessionOK, AsksOnce
  <2>2. \A n \in Up(s)' : n.type # "RequestAddr"
    BY <1>2, <1>5 DEF Before, Opening
  <2>3. /\ Down(s)' = Down(s) /\ ComingDown(s)' = ComingDown(s)
        /\ \A type : Mailed(s, type)' <=> Mailed(s, type)
    BY <1>2, <1>3, DownSame
  <2>4. Data(ComingUp(s)') = Data(ComingUp(s)) /\ Data(Up(s)') = Data(Up(s))
    BY <1>2, <1>3, <1>5 DEF ComingUp, Data
  <2> USE <1>1, <1>2, <1>3, <2>1, <2>3 DEF SessionOK
  <2>5. UntriedIsUntouched(s)' /\ AsksOnce(s)' /\ UpPackets(s)'
    BY <2>2, <2>4 DEF UntriedIsUntouched, AsksOnce, UpPackets
  <2>6. CodecState(s)' /\ Seen(s)'
    BY DEF CodecState, Seen
  <2>7. DownPackets(s)' /\ Connected(s)'
    BY DEF DownPackets, Connected
  <2>8. Offered(s)' = Offered(s) /\ Got(s)' = Got(s) /\ (Announced(s)' <=> Announced(s))
    BY DEF Offered, Got, Announced
  <2>9. UpChain(s)'
    BY <2>4, <2>8 DEF UpChain, Writable, Chained, ReachesTo
  <2>10. DownChain(s)'
    BY <2>8 DEF DownChain, Chained, ReachesTo
  <2>11. QED
    BY <2>5, <2>6, <2>7, <2>9, <2>10
<1>6. QED
  BY <1>4, <1>5

\* What a request for a session with a port of its own finds in connections.
LEMMA OwnConnection ==
  ASSUME SessionInv, NEW s \in OwnPort, NEW m \in Tagged(RequestTypes), m.type = "Data"
  PROVE  /\ m.uuid \in Ports
         /\ m.src # s => m.uuid # PortOf[s] /\ Connection(m) # s
         /\ m.src = s => Connection(m) = connections[PortOf[s]]
<1>1. m.src \in Sessions /\ m.uuid = PortOf[m.src] /\ m.uuid \in Ports
  BY TaggedFacts
<1>2. m.src # s => PortOf[m.src] # PortOf[s]
  BY <1>1 DEF OwnPort, UniquePort
<1>3. connections[m.uuid] \in SamePort(m.uuid) \cup {None}
  BY <1>1 DEF SessionInv, Inv, MapsByPort
<1>4. m.src # s => connections[m.uuid] # s
  BY <1>1, <1>2, <1>3, SessionFacts DEF SamePort
<1>5. QED
  BY <1>1, <1>2, <1>4 DEF Connection

\* Data of a connected session continues what its target was offered.
LEMMA OfferedNext ==
  ASSUME SessionInv, NEW s \in OwnPort, Request("Data"), ProxyFrame, Head(wireUp).src = s,
         connections[PortOf[s]] # None, UNCHANGED tunnel
  PROVE  LET m == Head(wireUp) IN
         /\ m.lo = Offered(s) /\ m.lo < m.hi /\ m.hi <= sent[s]
         /\ m.lo \in Nat /\ m.hi \in Nat
         /\ Chained(ComingUp(s)', m.hi)
         /\ tunnel = "up" => ReachesTo(ComingUp(s)', m.hi, sent[s])
<1> DEFINE m == Head(wireUp)
<1>1. s \in Sessions /\ SessionOK(s) /\ Inv /\ Offered(s) \in Nat /\ sent[s] \in Nat
  BY SessionFacts
<1>2. /\ m.type = "Data" /\ m.src = s
      /\ WrittenUp(s) = WrittenUp(s)' \cup {m}
      /\ Up(s) = Up(s)' \cup {m}
      /\ m \in ComingUp(s)
      /\ \A n \in Up(s)' : Before(m, n) /\ n.src = s
  BY RequestFacts
<1> HIDE DEF m
<1>3. ComingUp(s) = ComingUp(s)' \cup {m} /\ ComingUp(s)' \subseteq Up(s)'
  BY <1>2 DEF ComingUp, Up
<1>4. m \in Data(ComingUp(s)) /\ Data(ComingUp(s)) = {m} \cup Data(ComingUp(s)')
  BY <1>2, <1>3 DEF Data
<1>5. ComingUp(s) \subseteq Up(s)
  BY <1>2, <1>3
<1>6. Packety(ComingUp(s))
  BY <1>1, <1>5, UpFacts DEF Packety
<1>7. \A n \in Data(ComingUp(s)) : n.lo < n.hi /\ n.hi <= sent[s]
  BY <1>1, <1>5 DEF SessionOK, UpPackets, Data
<1>8. \A n \in Data(ComingUp(s)') : m.hi <= n.lo
  BY <1>2, <1>3 DEF Data, Before
<1>9. /\ Chained(ComingUp(s), Offered(s))
      /\ tunnel = "up" => ReachesTo(ComingUp(s), Offered(s), sent[s])
  BY <1>1 DEF SessionOK, UpChain, Writable
<1>10. m.lo < m.hi /\ m.hi <= sent[s] /\ m.lo \in Nat /\ m.hi \in Nat
  BY <1>2, <1>4, <1>6, <1>7 DEF Packety
<1>11. /\ m.lo = Offered(s)
       /\ Chained(ComingUp(s)', m.hi)
       /\ tunnel = "up" => ReachesTo(ComingUp(s)', m.hi, sent[s])
  BY <1>1, <1>4, <1>6, <1>7, <1>8, <1>9, <1>10, ChainPop
<1>12. QED
  BY <1>10, <1>11 DEF m

\* Data is written to a target.
LEMMA WriteDataOK ==
  ASSUME SessionInv, NEW s \in OwnPort, WriteData, ProxyFrame
  PROVE  SessionOK(s)'
<1> DEFINE m == Head(wireUp)
           c == Connection(m)
<1>1. /\ s \in Sessions /\ SessionOK(s) /\ Inv /\ targetRx[s] \in Seq(Writes)
      /\ targetRx \in [Sessions -> Seq(Writes)] /\ s # None
  BY SessionFacts DEF Inv, TypeOK, ProxyTypeOK
<1>2. /\ m.type = "Data" /\ m \in Tagged(RequestTypes)
      /\ m.src # s => Held(s, wireUp') = Held(s, wireUp)
      /\ m.src = s => Up(s) = Up(s)' \cup {m}
      /\ UNCHANGED <<sock, requested, sent, appRx, serverMail, socksMail>>
  BY RequestFacts DEF WriteData
<1>3. PICK w : /\ w.lo = m.lo /\ w.end = m.hi
               /\ w \in Writes
               /\ targetRx' = [targetRx EXCEPT ![c] = Append(targetRx[c], w)]
  <2>1. PICK k \in (m.lo + 1)..m.hi :
          targetRx' = [targetRx EXCEPT ![c] = Append(targetRx[c],
                         [src |-> m.src, lo |-> m.lo, hi |-> k, end |-> m.hi])]
    BY DEF WriteData
  <2>2. m \in Packets(RequestTypes) /\ m.src \in Sessions
    BY <1>2, TaggedFacts
  <2>3. m.lo \in Nat /\ m.hi \in Nat /\ k \in Nat
    BY <2>1, <2>2 DEF Packets
  <2>4. QED
    BY <2>1, <2>2, <2>3 DEF Writes
<1>4. /\ c # None
      /\ UNCHANGED <<connections, connecting, readers, proxyMail, target, emitted, tunnel, wireDown>>
  BY DEF WriteData, proxyVars
<1>5. /\ m.src # s => c # s
      /\ m.src = s => c = connections[PortOf[s]]
  BY <1>2, OwnConnection
<1> HIDE DEF c, m
<1>6. CASE m.src # s
  <2>1. targetRx'[s] = targetRx[s]
    BY <1>1, <1>3, <1>5, <1>6
  <2>2. Elsewhere(s)
    BY <1>2, <1>4, <1>6, <2>1 DEF Elsewhere, Unseen
  <2>3. QED
    BY <1>1, <2>2, ElsewhereOK
<1>7. CASE m.src = s
  <2>1. c = s /\ connections[PortOf[s]] # None
    BY <1>4, <1>5, <1>7, SessionFacts
  <2>2. /\ m.lo = Offered(s) /\ m.lo < m.hi /\ m.hi <= sent[s]
        /\ m.lo \in Nat /\ m.hi \in Nat
        /\ Chained(ComingUp(s)', m.hi)
        /\ tunnel = "up" => ReachesTo(ComingUp(s)', m.hi, sent[s])
    BY <1>4, <1>7, <2>1, OfferedNext DEF m, WriteData
  <2>3. targetRx'[s] = Append(targetRx[s], w) /\ w \in Writes
    BY <1>1, <1>3, <2>1
  <2>4. /\ Len(targetRx'[s]) = Len(targetRx[s]) + 1
        /\ targetRx'[s][Len(targetRx[s]) + 1] = w
        /\ \A i \in 1..Len(targetRx[s]) : targetRx'[s][i] = targetRx[s][i]
        /\ Len(targetRx[s]) \in Nat
        /\ targetRx'[s] # << >>
    BY <1>1, <2>3
  <2>5. Offered(s)' = m.hi
    BY <1>3, <2>4 DEF Offered
  <2>6. ~Untried(s) /\ ~Untried(s)'
    <3>1. ~Untried(s)
      BY <1>1, <2>1 DEF SessionOK, UntriedIsUntouched
    <3>2. QED
      BY <1>2, <1>4, <1>7, <3>1 DEF Untried
  <2>7. /\ Down(s)' = Down(s) /\ ComingDown(s)' = ComingDown(s)
        /\ \A type : Mailed(s, type)' <=> Mailed(s, type)
    BY <1>2, <1>4, DownSame
  <2> USE <1>1, <1>2, <1>4, <1>7, <2>6, <2>7 DEF SessionOK
  <2>8. UntriedIsUntouched(s)' /\ AsksOnce(s)' /\ UpPackets(s)'
    BY DEF UntriedIsUntouched, AsksOnce, UpPackets, Data
  <2>9. CodecState(s)'
    BY DEF CodecState
  <2>10. DownPackets(s)' /\ Connected(s)'
    BY DEF DownPackets, Connected
  <2>11. UpChain(s)'
    BY <2>2, <2>5 DEF UpChain
  <2>12. DownChain(s)'
    <3>1. Got(s)' = Got(s) /\ (Announced(s)' <=> Announced(s))
      BY DEF Got, Announced
    <3>2. QED
      BY <3>1 DEF DownChain, Chained, ReachesTo
  <2>13. Seen(s)'
    <3>1. ASSUME NEW i \in 1..Len(targetRx'[s])
          PROVE  targetRx'[s][i].lo = (IF i = 1 THEN 0 ELSE targetRx'[s][i - 1].end)
      <4>1. CASE i \in 1..Len(targetRx[s])
        <5>1. i # 1 => i - 1 \in 1..Len(targetRx[s])
          BY <4>1
        <5>2. QED
          BY <2>4, <4>1, <5>1 DEF Seen
      <4>2. CASE i = Len(targetRx[s]) + 1
        <5>1. CASE i = 1
          <6>1. targetRx[s] = << >>
            BY <2>4, <4>2, <5>1
          <6>2. QED
            BY <1>3, <2>2, <2>4, <4>2, <5>1, <6>1 DEF Offered
        <5>2. CASE i # 1
          <6>1. targetRx[s] # << >> /\ i - 1 = Len(targetRx[s]) /\ i - 1 \in 1..Len(targetRx[s])
            BY <2>4, <4>2, <5>2
          <6>2. targetRx'[s][i - 1].end = Offered(s)
            BY <2>4, <6>1 DEF Offered
          <6>3. QED
            BY <1>3, <2>2, <2>4, <4>2, <5>2, <6>2
        <5>3. QED
          BY <5>1, <5>2
      <4>3. QED
        BY <2>4, <4>1, <4>2
    <3>2. QED
      BY <3>1 DEF Seen
  <2>14. QED
    BY <2>8, <2>9, <2>10, <2>11, <2>12, <2>13
<1>8. QED
  BY <1>6, <1>7

\* A write fails, and the connection is dropped.
LEMMA WriteFailsOK ==
  ASSUME SessionInv, NEW s \in OwnPort, WriteFails, ProxyFrame
  PROVE  SessionOK(s)'
<1> DEFINE m == Head(wireUp)
<1>1. /\ s \in Sessions /\ SessionOK(s) /\ Inv /\ PortOf[s] \in Ports
      /\ connections \in [Ports -> Sessions \cup {None}]
  BY SessionFacts DEF Inv, TypeOK, ProxyTypeOK
<1>2. /\ m.type = "Data" /\ m \in Tagged(RequestTypes)
      /\ m.src # s => Held(s, wireUp') = Held(s, wireUp)
      /\ m.src = s => Up(s) = Up(s)' \cup {m}
      /\ UNCHANGED <<sock, requested, sent, appRx, serverMail, socksMail>>
  BY RequestFacts DEF WriteFails
<1>3. /\ Connection(m) # None
      /\ connections' = [connections EXCEPT ![m.uuid] = None]
      /\ UNCHANGED <<connecting, readers, proxyMail, target, emitted, targetRx, tunnel, wireDown>>
  BY DEF WriteFails, targetVars
<1>4. /\ m.uuid \in Ports
      /\ m.src # s => m.uuid # PortOf[s]
      /\ m.src = s => Connection(m) = connections[PortOf[s]] /\ m.uuid = PortOf[s]
  BY <1>2, OwnConnection, TaggedFacts
<1> HIDE DEF m
<1>5. CASE m.src # s
  <2>1. connections'[PortOf[s]] = connections[PortOf[s]]
    BY <1>1, <1>3, <1>4, <1>5
  <2>2. Elsewhere(s)
    BY <1>2, <1>3, <1>5, <2>1 DEF Elsewhere, Unseen
  <2>3. QED
    BY <1>1, <2>2, ElsewhereOK
<1>6. CASE m.src = s
  <2>1. connections'[PortOf[s]] = None /\ connections[PortOf[s]] # None
    BY <1>1, <1>3, <1>4, <1>6
  <2>2. /\ Down(s)' = Down(s) /\ ComingDown(s)' = ComingDown(s)
        /\ \A type : Mailed(s, type)' <=> Mailed(s, type)
    BY <1>2, <1>3, DownSame
  <2>3. ~Writable(s)'
    <3>1. ~Untried(s) /\ ~Mailed(s, "Established")
      BY <1>1, <2>1 DEF SessionOK, UntriedIsUntouched, Connected
    <3>2. ~Untried(s)'
      BY <1>2, <1>3, <1>6, <3>1 DEF Untried
    <3>3. QED
      BY <2>1, <2>2, <3>1, <3>2 DEF Writable
  <2>4. Unseen(s)
    BY <1>2, <1>3 DEF Unseen
  <2>5. UpChain(s)'
    BY <2>3 DEF UpChain
  <2>6. DownChain(s)'
    <3>1. Got(s)' = Got(s) /\ (Announced(s)' <=> Announced(s))
      BY <1>2, <2>2 DEF Got, Announced
    <3>2. QED
      BY <1>1, <1>2, <1>3, <2>2, <3>1 DEF SessionOK, DownChain, Chained, ReachesTo
  <2>7. Connected(s)'
    BY <1>1, <1>3, <2>1, <2>2 DEF SessionOK, Connected
  <2>8. Less(s)
    BY <1>2, <1>3, <1>6, <2>1, <2>2, <2>4 DEF Less
  <2>9. QED
    BY <1>1, <1>2, <2>5, <2>6, <2>7, <2>8, LessOK
<1>7. QED
  BY <1>5, <1>6

\* The thread of the actor panics, or the actor stops.
LEMMA ProxyEndsOK ==
  ASSUME SessionInv, NEW s \in OwnPort, ProxyFrame,
         tunnel' = "down", connections' = [p \in Ports |-> None], connecting' = {},
         readers' \subseteq readers, proxyMail' = << >>,
         UNCHANGED <<target, emitted, targetRx, wireDown, serverMail, socksMail>>,
         WrittenUp(s)' \subseteq WrittenUp(s),
         Writable(s)' => WrittenUp(s)' = WrittenUp(s)
  PROVE  SessionOK(s)'
<1>1. PortOf[s] \in Ports
  BY SessionFacts
<1>2. UNCHANGED <<sock, requested, sent, appRx>>
  BY DEF ProxyFrame, socksVars
<1>3. Held(s, proxyMail') = {} /\ connections'[PortOf[s]] = None
  BY <1>1, HeldEmpty
<1>4. WrittenDown(s)' = WrittenDown(s)
  BY DEF WrittenDown
<1>5. Fall(s)
  BY <1>2, <1>3, <1>4 DEF Fall, Unseen
<1>6. QED
  BY <1>5, FallOK

\* Data without a connection: the panic ends the session's hope, too.
LEMMA DataPanicsOK ==
  ASSUME SessionInv, NEW s \in OwnPort, DataPanics, ProxyFrame
  PROVE  SessionOK(s)'
<1> DEFINE m == Head(wireUp)
<1>1. s \in Sessions /\ SessionOK(s) /\ PortOf[s] \in Ports
  BY SessionFacts
<1>2. /\ m.type = "Data"
      /\ m.src # s => Held(s, wireUp') = Held(s, wireUp)
      /\ m.src = s => /\ WrittenUp(s) = WrittenUp(s)' \cup {m}
                      /\ Up(s) = Up(s)' \cup {m}
                      /\ \A n \in Up(s)' : Before(m, n) /\ n.src = s
      /\ UNCHANGED <<requested, serverMail, socksMail>>
  BY RequestFacts DEF DataPanics
<1>3. /\ tunnel' = "down" /\ connections' = [p \in Ports |-> None] /\ connecting' = {}
      /\ readers' \subseteq readers /\ proxyMail' = << >>
      /\ UNCHANGED <<target, emitted, targetRx, wireDown>>
  BY DEF DataPanics, ThreadDies, targetVars
<1> HIDE DEF m
<1>4. WrittenUp(s)' \subseteq WrittenUp(s)
  BY <1>2 DEF WrittenUp
<1>5. Writable(s)' => WrittenUp(s)' = WrittenUp(s)
  <2>1. CASE m.src # s
    BY <1>2, <2>1 DEF WrittenUp
  <2>2. CASE m.src = s
    <3>1. s \in requested
      BY <1>1, <1>2, <2>2 DEF SessionOK, AsksOnce
    <3>2. \A n \in Up(s)' : n.type # "RequestAddr"
      BY <1>2, <2>2 DEF Before, Opening
    <3>3. ~Untried(s)'
      BY <1>2, <1>3, <3>1, <3>2 DEF Untried
    <3>4. \A type : ~Mailed(s, type)'
      BY <1>3, HeldEmpty DEF Mailed
    <3>5. ~Writable(s)'
      BY <1>1, <1>3, <3>3, <3>4 DEF Writable
    <3>6. QED
      BY <3>5
  <2>3. QED
    BY <2>1, <2>2
<1>6. QED
  BY <1>2, <1>3, <1>4, <1>5, ProxyEndsOK

-----------------------------------------------------------------------------
(* The steps of the ProxyClient: its mailbox.                              *)

\* The message the actor takes from its mailbox, and what is behind it.
LEMMA MailFacts ==
  ASSUME SessionInv, NEW s \in OwnPort, NEW types, Mail(types), ProxyFrame
  PROVE  LET m == Head(proxyMail) IN
         /\ m.type \in types /\ m \in Tagged(MailTypes)
         /\ m.src # s => Held(s, proxyMail') = Held(s, proxyMail)
         /\ m.src = s => /\ Held(s, proxyMail) = Held(s, proxyMail') \cup {m}
                         /\ m \in Down(s)
         /\ \A n \in Held(s, proxyMail') : Before(m, n) /\ n.src = s
         /\ UNCHANGED <<sock, requested, sent, appRx, connecting, readers, target, emitted,
                        targetRx, tunnel, wireUp, serverMail, socksMail>>
<1> DEFINE m == Head(proxyMail)
<1>1. /\ proxyMail # << >> /\ m.type \in types /\ proxyMail' = Tail(proxyMail)
      /\ UNCHANGED <<sock, requested, sent, appRx, connecting, readers, target, emitted,
                     targetRx, tunnel, wireUp, serverMail, socksMail>>
  BY DEF Mail, ProxyFrame, socksVars, targetVars
<1>2. proxyMail \in Seq(Tagged(MailTypes)) /\ Ordered(proxyMail)
  BY DEF SessionInv, Inv, QueuesTagged, DownOrder, InLine
<1>3. m \in Tagged(MailTypes)
  BY <1>1, <1>2, PopInSeq
<1>4. /\ m.src = s => Held(s, proxyMail) = Held(s, proxyMail') \cup {m}
      /\ m.src # s => Held(s, proxyMail') = Held(s, proxyMail)
      /\ \A n \in Held(s, proxyMail') : Before(m, n)
  BY <1>1, <1>2, HeldPop
<1> HIDE DEF m
<1>5. \A n \in Held(s, proxyMail') : n.src = s
  BY DEF Held
<1>6. m.src = s => m \in Down(s)
  BY <1>4 DEF Down
<1>7. QED
  BY <1>1, <1>3, <1>4, <1>5, <1>6 DEF m

\* A message that is no session's own changes nothing for s.
LEMMA MailOther ==
  ASSUME SessionInv, NEW s \in OwnPort, NEW types, Mail(types), ProxyFrame,
         Head(proxyMail).src # s, NEW n \in Tagged(ResponseTypes), n.src # s,
         wireDown' = Write(wireDown, n),
         connections'[PortOf[s]] = connections[PortOf[s]]
  PROVE  SessionOK(s)'
<1>1. SessionOK(s) /\ wireDown \in Seq(Tagged(ResponseTypes))
  BY SessionFacts DEF SessionInv, Inv, QueuesTagged
<1>2. /\ Held(s, proxyMail') = Held(s, proxyMail)
      /\ UNCHANGED <<sock, requested, sent, appRx, connecting, readers, target, emitted,
                     targetRx, tunnel, wireUp, serverMail, socksMail>>
  BY MailFacts
<1>3. Held(s, wireDown') = Held(s, wireDown)
  BY <1>1, HeldAppend DEF Write
<1>4. Elsewhere(s)
  BY <1>2, <1>3 DEF Elsewhere, Unseen
<1>5. QED
  BY <1>1, <1>4, ElsewhereOK

\* A message of session s is written to the tunnel as response n, or lost.
LEMMA MailOK ==
  ASSUME SessionInv, NEW s \in OwnPort, NEW types, Mail(types), ProxyFrame,
         Head(proxyMail).src = s, NEW n \in Tagged(ResponseTypes), n.src = s,
         wireDown' = Write(wireDown, n), Connected(s)', Writable(s)' => Writable(s),
         LET m == Head(proxyMail) IN
         /\ n.type # "RequestAddr"
         /\ m.type \in Success <=> n.type \in Success
         /\ m.type \in Failure <=> n.type \in Failure
         /\ m.type \in Closing <=> n.type \in Closing
         /\ m.type = "Data" <=> n.type = "Data"
         /\ m.type = "Data" => n.lo = m.lo /\ n.hi = m.hi
         /\ n.type \in Opening => n.hi = 0
  PROVE  SessionOK(s)'
<1> DEFINE m == Head(proxyMail)
           D == WrittenDown(s) \cup Held(s, proxyMail')
<1>1. SessionOK(s) /\ wireDown \in Seq(Tagged(ResponseTypes)) /\ tunnel \in {"up", "down"}
  BY SessionFacts DEF SessionInv, Inv, QueuesTagged
<1>2. /\ Held(s, proxyMail) = Held(s, proxyMail') \cup {m}
      /\ m \in Down(s)
      /\ UNCHANGED <<sock, requested, sent, appRx, connecting, readers, target, emitted,
                     targetRx, tunnel, wireUp, serverMail, socksMail>>
  BY MailFacts
<1>3. Unseen(s)
  BY <1>2 DEF Unseen
<1>4. Up(s)' = Up(s) /\ ComingUp(s)' = ComingUp(s)
  BY <1>2 DEF Up, WrittenUp, ComingUp
<1>5. Down(s) = D \cup {m}
  BY <1>2 DEF Down
<1>6. CASE tunnel = "up"
  <2>1. Held(s, wireDown') = Held(s, wireDown) \cup {n}
    BY <1>1, <1>6, HeldAppend DEF Write
  <2>2. WrittenDown(s)' = WrittenDown(s) \cup {n}
    BY <1>2, <2>1 DEF WrittenDown
  <2>3. Down(s)' = D \cup {n}
    BY <2>2 DEF Down
  <2>4. ComingDown(s) = D \cup {m} /\ ComingDown(s)' = D \cup {n}
    BY <1>2, <1>5, <1>6, <2>3 DEF ComingDown
  <2> HIDE DEF D
  <2>5. Relabel(s, m, n)
    BY <1>2, <1>3, <1>4, <1>5, <2>3, <2>4 DEF Relabel
  <2>6. QED
    BY <1>1, <2>5, RelabelOK
<1>7. CASE tunnel = "down"
  <2>1. wireDown' = wireDown
    BY <1>7 DEF Write
  <2>2. WrittenDown(s)' = WrittenDown(s)
    BY <1>2, <2>1 DEF WrittenDown
  <2>3. Down(s)' \subseteq Down(s)
    BY <1>2, <2>2 DEF Down
  <2>4. ComingDown(s)' = ComingDown(s)
    BY <1>2, <1>7, <2>2 DEF ComingDown
  <2>5. ~Untried(s)
    BY <1>1, <1>2, UntouchedFacts
  <2>6. UpChain(s)' /\ DownChain(s)'
    BY <1>1, <1>2, <1>3, <1>4, <2>4, SameChains
  <2>7. Less(s)
    BY <1>2, <1>3, <1>4, <2>3, <2>5 DEF Less
  <2>8. QED
    BY <1>1, <1>2, <2>6, <2>7, LessOK
<1>8. QED
  BY <1>1, <1>6, <1>7

\* What a response that stands for a message looks like.
LEMMA SignalFacts ==
  ASSUME SessionInv, NEW types, Mail(types), Head(proxyMail).type # "Heartbeat",
         NEW type \in ResponseTypes, type # "Heartbeat"
  PROVE  LET m == Head(proxyMail)
             n == Signal(m.src, type)
         IN /\ m.src \in Sessions /\ m.uuid = PortOf[m.src] /\ m.uuid \in Ports
            /\ n \in Tagged(ResponseTypes)
            /\ n.src = m.src /\ n.type = type /\ n.hi = 0
<1> DEFINE m == Head(proxyMail)
<1>1. m \in Tagged(MailTypes)
  BY PopInSeq DEF SessionInv, Inv, QueuesTagged, Mail
<1>2. m.src \in Sessions /\ m.uuid = PortOf[m.src] /\ m.uuid \in Ports /\ clients[PortOf[m.src]] # None
  BY <1>1, TaggedFacts
<1>3. Signal(m.src, type) \in Tagged(ResponseTypes)
  BY <1>2, SignalTagged
<1>4. QED
  BY <1>2, <1>3 DEF Signal, Packet

\* A connection is established.
LEMMA EstablishedOK ==
  ASSUME SessionInv, NEW s \in OwnPort, HandleEstablished, ProxyFrame
  PROVE  SessionOK(s)'
<1> DEFINE m == Head(proxyMail)
           n == Signal(m.src, "Succeeded")
<1>1. /\ s \in Sessions /\ SessionOK(s) /\ PortOf[s] \in Ports
      /\ connections \in [Ports -> Sessions \cup {None}]
  BY SessionFacts DEF Inv, TypeOK, ProxyTypeOK
<1>2. /\ Mail({"Established"})
      /\ connections' = [connections EXCEPT ![m.uuid] = m.src]
      /\ wireDown' = Write(wireDown, n)
  BY DEF HandleEstablished
<1>3. /\ m.type = "Established"
      /\ m.src = s => Held(s, proxyMail) = Held(s, proxyMail') \cup {m} /\ m \in Down(s)
      /\ \A k \in Held(s, proxyMail') : Before(m, k) /\ k.src = s
      /\ UNCHANGED <<requested, connecting, readers, target, wireUp, serverMail>>
  BY <1>2, MailFacts
<1>4. /\ m.src \in Sessions /\ m.uuid = PortOf[m.src] /\ m.uuid \in Ports
      /\ n \in Tagged(ResponseTypes)
      /\ n.src = m.src /\ n.type = "Succeeded" /\ n.hi = 0
  BY <1>2, <1>3, SignalFacts DEF ResponseTypes
<1> HIDE DEF m, n
<1>5. CASE m.src # s
  <2>1. connections'[PortOf[s]] = connections[PortOf[s]]
    BY <1>1, <1>2, <1>4, <1>5 DEF OwnPort, UniquePort
  <2>2. QED
    BY <1>2, <1>4, <1>5, <2>1, MailOther DEF m
<1>6. CASE m.src = s
  <2>1. connections'[PortOf[s]] # None
    BY <1>1, <1>2, <1>4, <1>6, NoneAssumption
  <2>2. target[s] # "none"
    BY <1>1, <1>3, <1>6 DEF SessionOK, DownPackets, Success
  <2>3. /\ Mailed(s, "Established") /\ ~Mailed(s, "Established")'
        /\ Mailed(s, "Dead")' <=> Mailed(s, "Dead")
    BY <1>3, <1>6 DEF Mailed, Before, Opening, Success
  <2>4. Connected(s)'
    BY <1>1, <1>3, <2>1, <2>2, <2>3 DEF SessionOK, Connected
  <2>5. Writable(s)
    BY <2>3 DEF Writable
  <2>6. QED
    BY <1>2, <1>3, <1>4, <1>6, <2>4, <2>5, MailOK DEF m, Opening, Success, Failure, Closing
<1>7. QED
  BY <1>5, <1>6

\* A connection was reset.
LEMMA DeadOK ==
  ASSUME SessionInv, NEW s \in OwnPort, HandleDead, ProxyFrame
  PROVE  SessionOK(s)'
<1> DEFINE m == Head(proxyMail)
           n == Signal(m.src, "Abort")
<1>1. /\ s \in Sessions /\ SessionOK(s) /\ PortOf[s] \in Ports
      /\ connections \in [Ports -> Sessions \cup {None}]
  BY SessionFacts DEF Inv, TypeOK, ProxyTypeOK
<1>2. /\ Mail({"Dead"})
      /\ connections' = [connections EXCEPT ![m.uuid] = None]
      /\ wireDown' = Write(wireDown, n)
  BY DEF HandleDead
<1>3. /\ m.type = "Dead"
      /\ m.src = s => Held(s, proxyMail) = Held(s, proxyMail') \cup {m} /\ m \in Down(s)
      /\ \A k \in Held(s, proxyMail') : Before(m, k) /\ k.src = s
      /\ UNCHANGED <<requested, connecting, readers, target, wireUp, serverMail>>
  BY <1>2, MailFacts
<1>4. /\ m.src \in Sessions /\ m.uuid = PortOf[m.src] /\ m.uuid \in Ports
      /\ n \in Tagged(ResponseTypes)
      /\ n.src = m.src /\ n.type = "Abort" /\ n.hi = 0
  BY <1>2, <1>3, SignalFacts DEF ResponseTypes
<1> HIDE DEF m, n
<1>5. CASE m.src # s
  <2>1. connections'[PortOf[s]] = connections[PortOf[s]]
    BY <1>1, <1>2, <1>4, <1>5 DEF OwnPort, UniquePort
  <2>2. QED
    BY <1>2, <1>4, <1>5, <2>1, MailOther DEF m
<1>6. CASE m.src = s
  <2>1. connections'[PortOf[s]] = None
    BY <1>1, <1>2, <1>4, <1>6
  <2>2. Held(s, proxyMail') = {}
    BY <1>3, <1>6 DEF Before, Closing
  <2>3. \A type : ~Mailed(s, type)'
    BY <2>2 DEF Mailed
  <2>4. Connected(s)'
    BY <1>1, <1>3, <2>1, <2>3 DEF SessionOK, Connected
  <2>5. Writable(s)' => Writable(s)
    BY <1>3, <2>1, <2>3 DEF Writable, Untried, Up, WrittenUp
  <2>6. QED
    BY <1>2, <1>3, <1>4, <1>6, <2>4, <2>5, MailOK DEF m, Opening, Success, Failure, Closing
<1>7. QED
  BY <1>5, <1>6

\* A response of a future is passed on as it is.
LEMMA ProxyResponseOK ==
  ASSUME SessionInv, NEW s \in OwnPort, HandleProxyResponse, ProxyFrame
  PROVE  SessionOK(s)'
<1> DEFINE m == Head(proxyMail)
<1>1. SessionOK(s)
  BY SessionFacts
<1>2. /\ Mail(ResponseTypes) /\ wireDown' = Write(wireDown, m) /\ UNCHANGED connections
  BY DEF HandleProxyResponse
<1>3. /\ m.type \in ResponseTypes /\ m \in Tagged(MailTypes)
      /\ m.src = s => Held(s, proxyMail) = Held(s, proxyMail') \cup {m} /\ m \in Down(s)
      /\ UNCHANGED <<requested, connecting, readers, target, wireUp, serverMail>>
  BY <1>2, MailFacts
<1>4. m \in Tagged(ResponseTypes) /\ m.type # "RequestAddr"
  BY <1>3 DEF Tagged, Packets, ResponseTypes
<1> HIDE DEF m
<1>5. CASE m.src # s
  BY <1>2, <1>4, <1>5, MailOther DEF m
<1>6. CASE m.src = s
  <2>1. /\ Mailed(s, "Established")' <=> Mailed(s, "Established")
        /\ Mailed(s, "Dead")' <=> Mailed(s, "Dead")
    BY <1>3, <1>6 DEF Mailed, ResponseTypes
  <2>2. Connected(s)'
    BY <1>1, <1>2, <1>3, <2>1 DEF SessionOK, Connected
  <2>3. Writable(s)' => Writable(s)
    BY <1>2, <1>3, <2>1 DEF Writable, Untried, Up, WrittenUp
  <2>4. m.type \in Opening => m.hi = 0
    BY <1>1, <1>3, <1>6 DEF SessionOK, DownPackets
  <2>5. QED
    BY <1>2, <1>4, <1>6, <2>2, <2>3, <2>4, MailOK DEF m
<1>7. QED
  BY <1>5, <1>6
-----------------------------------------------------------------------------
(* The steps of the ProxyClient that say nothing about a session, and its  *)
(* end.                                                                    *)

\* A heartbeat is echoed.
LEMMA EchoOK ==
  ASSUME SessionInv, NEW s \in OwnPort, EchoHeartbeat, ProxyFrame
  PROVE  SessionOK(s)'
<1> DEFINE m == Head(wireUp)
<1>1. SessionOK(s) /\ s # None /\ wireDown \in Seq(Tagged(ResponseTypes))
  BY SessionFacts DEF SessionInv, Inv, QueuesTagged
<1>2. /\ m.type = "Heartbeat" /\ m \in Tagged(RequestTypes)
      /\ m.src # s => Held(s, wireUp') = Held(s, wireUp)
      /\ UNCHANGED <<sock, requested, sent, appRx, serverMail, socksMail>>
  BY RequestFacts DEF EchoHeartbeat
<1>3. /\ wireDown' = Write(wireDown, m)
      /\ UNCHANGED <<tunnel, connections, connecting, readers, proxyMail, target, emitted, targetRx>>
  BY DEF EchoHeartbeat, proxyVars, targetVars
<1>4. m.src = None /\ m \in Tagged(ResponseTypes)
  BY <1>2, TaggedFacts DEF Tagged, Packets, ResponseTypes
<1> HIDE DEF m
<1>5. Held(s, wireDown') = Held(s, wireDown)
  BY <1>1, <1>3, <1>4, HeldAppend DEF Write
<1>6. Elsewhere(s)
  BY <1>1, <1>2, <1>3, <1>4, <1>5 DEF Elsewhere, Unseen
<1>7. QED
  BY <1>1, <1>6, ElsewhereOK

\* The actor stops, its thread panics, or its forwarder ends.
LEMMA StopsOK ==
  ASSUME SessionInv, NEW s \in OwnPort, ProxyStops \/ SendPanics \/ ForwarderFails, ProxyFrame
  PROVE  SessionOK(s)'
<1>1. CASE ProxyStops
  <2>1. WrittenUp(s)' = WrittenUp(s)
    BY <1>1 DEF ProxyStops, channelVars, WrittenUp
  <2>2. QED
    BY <1>1, <2>1, ProxyEndsOK DEF ProxyStops, channelVars, targetVars
<1>2. CASE SendPanics
  <2>1. WrittenUp(s)' = WrittenUp(s)
    BY <1>2 DEF SendPanics, WrittenUp
  <2>2. QED
    BY <1>2, <2>1, ProxyEndsOK DEF SendPanics, ThreadDies, targetVars
<1>3. CASE ForwarderFails
  <2>1. Elsewhere(s)
    BY <1>3 DEF ForwarderFails, ProxyFrame, socksVars, channelVars, targetVars, Elsewhere, Unseen
  <2>2. QED
    BY <2>1, SessionFacts, ElsewhereOK
<1>4. QED
  BY <1>1, <1>2, <1>3

-----------------------------------------------------------------------------
(* The steps of the futures.                                               *)

\* The step leaves the tunnel and the client's side alone.
Remote ==
  UNCHANGED <<tunnel, wireUp, wireDown, serverMail, socksMail, sock, requested, sent, appRx,
              connections, targetRx>>

\* What a future tells the actor concerns its own session only, and a future
\* that outlives the actor tells it nothing.
LEMMA NotifyFacts ==
  ASSUME SessionInv, NEW s \in OwnPort, NEW m, Notify(m), Remote
  PROVE  /\ m.src # s => Held(s, proxyMail') = Held(s, proxyMail)
         /\ m.src = s /\ proxy = "running" =>
              /\ Held(s, proxyMail') = Held(s, proxyMail) \cup {m}
              /\ Down(s)' = Down(s) \cup {m}
              /\ tunnel = "up" => ComingDown(s)' = ComingDown(s) \cup {m}
              /\ tunnel # "up" => ComingDown(s)' = ComingDown(s)
         /\ proxy # "running" =>
              /\ tunnel = "down" /\ connections[PortOf[s]] = None /\ connecting = {}
              /\ Held(s, proxyMail') = {} /\ Held(s, proxyMail) = {}
              /\ Down(s)' = Down(s) /\ ComingDown(s)' = ComingDown(s)
         /\ Up(s)' = Up(s) /\ ComingUp(s)' = ComingUp(s)
<1> DEFINE S == Tagged(MailTypes) \cup {m}
<1>1. proxyMail \in Seq(S) /\ m \in S
  BY SeqGrows DEF SessionInv, Inv, QueuesTagged
<1> HIDE DEF S
<1>2. Held(s, Append(proxyMail, m)) =
        IF m.src = s THEN Held(s, proxyMail) \cup {m} ELSE Held(s, proxyMail)
  BY <1>1, HeldAppend
<1>3. PortOf[s] \in Ports
  BY SessionFacts
<1>4. WrittenDown(s)' = WrittenDown(s)
  BY DEF Remote, WrittenDown
<1>5. m.src # s => Held(s, proxyMail') = Held(s, proxyMail)
  BY <1>2 DEF Notify
<1>6. ASSUME m.src = s, proxy = "running"
      PROVE  /\ Held(s, proxyMail') = Held(s, proxyMail) \cup {m}
             /\ Down(s)' = Down(s) \cup {m}
             /\ tunnel = "up" => ComingDown(s)' = ComingDown(s) \cup {m}
             /\ tunnel # "up" => ComingDown(s)' = ComingDown(s)
  <2>1. Held(s, proxyMail') = Held(s, proxyMail) \cup {m}
    BY <1>2, <1>6 DEF Notify
  <2>2. Down(s)' = Down(s) \cup {m}
    BY <1>4, <2>1 DEF Down
  <2>3. QED
    BY <1>4, <2>1, <2>2 DEF ComingDown, Remote
<1>7. ASSUME proxy # "running"
      PROVE  /\ tunnel = "down" /\ connections[PortOf[s]] = None /\ connecting = {}
             /\ Held(s, proxyMail') = {} /\ Held(s, proxyMail) = {}
             /\ Down(s)' = Down(s) /\ ComingDown(s)' = ComingDown(s)
  <2>1. /\ tunnel = "down" /\ connections[PortOf[s]] = None /\ connecting = {}
        /\ proxyMail = << >> /\ proxyMail' = << >>
    BY <1>3, <1>7 DEF SessionInv, ProxyGone, Notify
  <2>2. Held(s, proxyMail') = {} /\ Held(s, proxyMail) = {}
    BY <2>1, HeldEmpty
  <2>3. QED
    BY <1>4, <2>1, <2>2 DEF Down, ComingDown, Remote
<1>8. Up(s)' = Up(s) /\ ComingUp(s)' = ComingUp(s)
  BY DEF Up, WrittenUp, ComingUp, Remote
<1>9. QED
  BY <1>5, <1>6, <1>7, <1>8

\* The future of another session changes nothing for s.
LEMMA FutureOther ==
  ASSUME SessionInv, NEW s \in OwnPort, Remote,
         \/ proxyMail' = proxyMail
         \/ \E m : m.src # s /\ Notify(m),
         target'[s] = target[s], emitted'[s] = emitted[s],
         s \in connecting' <=> s \in connecting, s \in readers' <=> s \in readers
  PROVE  SessionOK(s)'
<1>1. Held(s, proxyMail') = Held(s, proxyMail)
  <2>1. ASSUME NEW m, m.src # s, Notify(m)
        PROVE  Held(s, proxyMail') = Held(s, proxyMail)
    BY <2>1, NotifyFacts
  <2>2. QED
    BY <2>1
<1>2. Elsewhere(s)
  BY <1>1 DEF Remote, Elsewhere, Unseen
<1>3. QED
  BY <1>2, SessionFacts, ElsewhereOK

\* The resolver future of s ends.
LEMMA ResolvedOK ==
  ASSUME SessionInv, NEW s \in OwnPort, Remote, s \in connecting, s \notin connecting',
         NEW m, m.src = s, m.hi = 0, Notify(m), emitted'[s] = emitted[s],
         \/ m.type = "Established" /\ target'[s] = "open"
         \/ m.type \in Failure /\ target'[s] = target[s] /\ (s \in readers' => s \in readers)
  PROVE  SessionOK(s)'
<1>1. SessionOK(s) /\ Untried(s) /\ tunnel \in {"up", "down"}
  BY SessionFacts DEF Untried
<1>2. proxy = "running"
  BY NotifyFacts
<1>3. /\ Down(s) = {} /\ ComingDown(s) = {} /\ emitted[s] = 0 /\ target[s] = "none"
      /\ s \notin readers /\ connections[PortOf[s]] = None /\ Len(appRx[s]) <= 1
      /\ targetRx[s] = << >>
  BY <1>1, UntouchedFacts DEF SessionOK, UntriedIsUntouched
<1>4. /\ Held(s, proxyMail') = {m} /\ Down(s)' = {m}
      /\ tunnel = "up" => ComingDown(s)' = {m}
      /\ tunnel # "up" => ComingDown(s)' = {}
      /\ Up(s)' = Up(s) /\ ComingUp(s)' = ComingUp(s)
  BY <1>2, <1>3, NotifyFacts DEF Down
<1>5. ~Untried(s)'
  BY <1>1, <1>4 DEF Untried, Remote, SessionOK, AsksOnce
<1>6. /\ m.type \in {"Established"} \cup Failure
      /\ m.type # "Data" /\ m.type \notin Closing /\ m.type # "Dead"
  BY DEF Failure, Closing
<1> USE <1>1, <1>3, <1>4, <1>6 DEF SessionOK, Remote
<1>7. UntriedIsUntouched(s)' /\ AsksOnce(s)' /\ UpPackets(s)'
  BY <1>5 DEF UntriedIsUntouched, AsksOnce, UpPackets
<1>8. CodecState(s)'
  BY DEF CodecState
<1>9. DownPackets(s)'
  BY DEF DownPackets, Success, Failure
<1>10. Connected(s)'
  BY DEF Connected
<1>11. UpChain(s)'
  <2>1. Offered(s)' = Offered(s)
    BY DEF Offered
  <2>2. QED
    BY <2>1 DEF UpChain, Writable
<1>12. DownChain(s)'
  <2> SUFFICES ASSUME sock[s] \in Running PROVE DownChain(s)'
    BY DEF DownChain
  <2>1. Got(s)' = Got(s)
    BY DEF Got
  <2>2. Data(ComingDown(s)) = {} /\ Data(ComingDown(s)') = {}
    BY DEF Data
  <2>3. tunnel = "up" => Got(s) = emitted[s]
    BY <2>2 DEF DownChain, ReachesTo
  <2>4. tunnel = "up" /\ target'[s] # "none" => Announced(s)'
    BY DEF Announced, Success, Failure
  <2>5. QED
    BY <2>1, <2>2, <2>3, <2>4 DEF DownChain, Chained, ReachesTo
<1>13. Seen(s)'
  BY DEF Seen
<1>14. QED
  BY <1>7, <1>8, <1>9, <1>10, <1>11, <1>12, <1>13

\* The target was connected, or could not be.
LEMMA ConnectOK ==
  ASSUME SessionInv, NEW s \in OwnPort, NEW c \in Sessions, ConnectSucceeds(c) \/ ConnectFails(c),
         ProxyFrame
  PROVE  SessionOK(s)'
<1>1. s \in Sessions /\ target \in [Sessions -> {"none", "open", "eof", "reset"}]
  BY SessionFacts DEF Inv, TypeOK, ProxyTypeOK
<1>2. Remote /\ emitted' = emitted /\ c \in connecting /\ connecting' = connecting \ {c}
  BY DEF ConnectSucceeds, ConnectFails, Remote, channelVars, targetVars, ProxyFrame, socksVars
<1>3. PICK type : /\ Notify(Signal(c, type))
                  /\ \/ /\ type = "Established"
                        /\ target' = [target EXCEPT ![c] = "open"]
                        /\ readers' = readers \cup {c}
                     \/ /\ type \in Failure
                        /\ UNCHANGED <<target, readers>>
  BY DEF ConnectSucceeds, ConnectFails, Failure, targetVars
<1> DEFINE m == Signal(c, type)
<1>4. m.src = c /\ m.type = type /\ m.hi = 0
  BY DEF Signal, Packet
<1>5. Notify(m)
  BY <1>3
<1> HIDE DEF m
<1>6. CASE c # s
  BY <1>1, <1>2, <1>3, <1>4, <1>5, <1>6, FutureOther
<1>7. CASE c = s
  BY <1>1, <1>2, <1>3, <1>4, <1>5, <1>7, ResolvedOK
<1>8. QED
  BY <1>6, <1>7
\* A connection with a reader is open, and its session is past its request.
LEMMA ReaderFacts ==
  ASSUME SessionInv, NEW s \in OwnPort, s \in readers
  PROVE  /\ SessionOK(s) /\ target[s] = "open" /\ ~Untried(s)
         /\ \A n \in Down(s) : n.type \notin Closing
         /\ \A n \in Down(s) : n.type \notin Failure
         /\ sock[s] # "aborted" /\ tunnel \in {"up", "down"}
<1>1. SessionOK(s) /\ tunnel \in {"up", "down"}
  BY SessionFacts
<1>2. target[s] = "open" /\ ~Untried(s)
  BY <1>1 DEF SessionOK, Connected, UntriedIsUntouched
<1>3. /\ \A n \in Down(s) : n.type \notin Closing
      /\ \A n \in Down(s) : n.type \notin Failure
  BY <1>1, <1>2 DEF SessionOK, DownPackets
<1>4. sock[s] # "aborted"
  BY <1>1, <1>2 DEF SessionOK, Seen
<1>5. QED
  BY <1>1, <1>2, <1>3, <1>4

\* The reader of s has read data.
LEMMA ReadOK ==
  ASSUME SessionInv, NEW s \in OwnPort, Remote, s \in readers,
         NEW hi \in Nat, emitted[s] < hi, emitted'[s] = hi,
         Notify(Packet(s, "Data", emitted[s], hi)),
         target'[s] = target[s], UNCHANGED <<connecting, readers>>
  PROVE  SessionOK(s)'
<1> DEFINE m == Packet(s, "Data", emitted[s], hi)
<1>1. /\ m.src = s /\ m.type = "Data" /\ m.lo = emitted[s] /\ m.hi = hi
  BY DEF Packet
<1>2. Notify(m)
  OBVIOUS
<1> HIDE DEF m
<1>3. /\ SessionOK(s) /\ target[s] = "open" /\ ~Untried(s) /\ tunnel \in {"up", "down"}
      /\ emitted[s] \in Nat /\ Got(s) \in Nat
  BY ReaderFacts, SessionFacts
<1>4. /\ Up(s)' = Up(s) /\ ComingUp(s)' = ComingUp(s)
      /\ \/ Down(s)' = Down(s)
         \/ Down(s)' = Down(s) \cup {m}
      /\ tunnel = "up" => ComingDown(s)' = ComingDown(s) \cup {m}
      /\ tunnel # "up" => ComingDown(s)' = ComingDown(s)
  BY <1>1, <1>2, NotifyFacts
<1>5. /\ Mailed(s, "Established")' <=> Mailed(s, "Established")
      /\ Mailed(s, "Dead")' <=> Mailed(s, "Dead")
  <2>1. Held(s, proxyMail') = Held(s, proxyMail) \/ Held(s, proxyMail') = Held(s, proxyMail) \cup {m}
    BY <1>1, <1>2, NotifyFacts
  <2>2. QED
    BY <1>1, <2>1 DEF Mailed
<1>6. ~Untried(s)'
  BY <1>3, <1>4 DEF Untried, Remote
<1> USE <1>1, <1>3, <1>4 DEF SessionOK, Remote
<1>7. UntriedIsUntouched(s)' /\ AsksOnce(s)' /\ UpPackets(s)'
  BY <1>6 DEF UntriedIsUntouched, AsksOnce, UpPackets
<1>8. CodecState(s)' /\ Seen(s)'
  BY DEF CodecState, Seen
<1>9. DownPackets(s)'
  <2> SUFFICES ASSUME NEW k \in Down(s)'
               PROVE  /\ k.type \in Success => target[s] # "none"
                      /\ k.type \in Failure => target[s] = "none"
                      /\ k.type \in Closing => target[s] = "reset"
                      /\ k.type \in Opening => Len(appRx[s]) <= 1 /\ k.hi = 0
                      /\ k.type = "Data" => /\ target[s] # "none"
                                            /\ k.lo < k.hi
                                            /\ k.hi <= hi
    BY DEF DownPackets
  <2>1. CASE k = m
    BY <2>1 DEF Success, Failure, Closing, Opening
  <2>2. CASE k \in Down(s)
    <3>1. k.type = "Data" => k.hi \in Nat
      BY <2>2, DownFacts, SessionFacts
    <3>2. QED
      BY <2>2, <3>1 DEF DownPackets
  <2>3. QED
    BY <2>1, <2>2
<1>10. Connected(s)'
  BY <1>5 DEF Connected
<1>11. UpChain(s)'
  <2>1. Offered(s)' = Offered(s) /\ (Writable(s)' => Writable(s))
    BY <1>5, <1>6 DEF Offered, Writable
  <2>2. QED
    BY <2>1 DEF UpChain
<1>12. DownChain(s)'
  <2> SUFFICES ASSUME sock[s] \in Running PROVE DownChain(s)'
    BY DEF DownChain
  <2>1. Got(s)' = Got(s)
    BY DEF Got
  <2>2. Announced(s) => Announced(s)'
    BY DEF Announced
  <2>3. CASE tunnel = "up"
    <3>1. Chained(ComingDown(s), Got(s)) /\ ReachesTo(ComingDown(s), Got(s), emitted[s]) /\ Announced(s)
      BY <2>3 DEF DownChain
    <3>2. Chained(ComingDown(s)', Got(s)) /\ ReachesTo(ComingDown(s)', Got(s), hi)
      BY <2>3, <3>1, ChainPush
    <3>3. QED
      BY <2>1, <2>2, <3>1, <3>2 DEF DownChain
  <2>4. CASE tunnel = "down"
    BY <2>1, <2>2, <2>4 DEF DownChain
  <2>5. QED
    BY <2>3, <2>4
<1>13. QED
  BY <1>7, <1>8, <1>9, <1>10, <1>11, <1>12

\* The reader of s has found the end of the stream, of which it says nothing,
\* or an error.
LEMMA ReaderEndsOK ==
  ASSUME SessionInv, NEW s \in OwnPort, Remote, s \in readers, s \notin readers',
         emitted'[s] = emitted[s], UNCHANGED connecting,
         \/ target'[s] = "eof" /\ proxyMail' = proxyMail
         \/ target'[s] = "reset" /\ Notify(Signal(s, "Dead"))
  PROVE  SessionOK(s)'
<1> DEFINE m == Signal(s, "Dead")
<1>1. m.src = s /\ m.type = "Dead"
  BY DEF Signal, Packet
<1>2. \/ target'[s] = "eof" /\ proxyMail' = proxyMail
      \/ target'[s] = "reset" /\ Notify(m)
  OBVIOUS
<1> HIDE DEF m
<1>3. /\ SessionOK(s) /\ target[s] = "open" /\ ~Untried(s) /\ sock[s] # "aborted"
      /\ \A n \in Down(s) : n.type \notin Closing
      /\ \A n \in Down(s) : n.type \notin Failure
      /\ tunnel \in {"up", "down"}
  BY ReaderFacts
<1>4. /\ Up(s)' = Up(s) /\ ComingUp(s)' = ComingUp(s)
      /\ Down(s)' = Down(s) \/ (Down(s)' = Down(s) \cup {m} /\ target'[s] = "reset")
      /\ ComingDown(s)' = ComingDown(s) \/ (ComingDown(s)' = ComingDown(s) \cup {m} /\ tunnel = "up")
  <2>1. CASE proxyMail' = proxyMail
    BY <2>1 DEF Remote, Up, ComingUp, WrittenUp, Down, ComingDown, WrittenDown
  <2>2. CASE target'[s] = "reset" /\ Notify(m)
    BY <1>1, <2>2, NotifyFacts
  <2>3. QED
    BY <1>2, <2>1, <2>2
<1>5. /\ Mailed(s, "Established")' <=> Mailed(s, "Established")
      /\ target'[s] = "reset" => \/ Mailed(s, "Dead")'
                                 \/ connections[PortOf[s]] = None /\ ~Mailed(s, "Established")'
  <2>1. CASE target'[s] = "eof" /\ proxyMail' = proxyMail
    BY <2>1 DEF Mailed
  <2>2. CASE target'[s] = "reset" /\ Notify(m)
    <3>1. CASE proxy = "running"
      <4>1. Held(s, proxyMail') = Held(s, proxyMail) \cup {m}
        BY <1>1, <2>2, <3>1, NotifyFacts
      <4>2. QED
        BY <1>1, <4>1 DEF Mailed
    <3>2. CASE proxy # "running"
      <4>1. Held(s, proxyMail') = {} /\ Held(s, proxyMail) = {} /\ connections[PortOf[s]] = None
        BY <1>1, <2>2, <3>2, NotifyFacts
      <4>2. QED
        BY <4>1 DEF Mailed
    <3>3. QED
      BY <3>1, <3>2
  <2>3. QED
    BY <1>2, <2>1, <2>2
<1>6. ~Untried(s)'
  BY <1>3, <1>4 DEF Untried, Remote
<1>7. target'[s] \in {"eof", "reset"}
  BY <1>2
<1> USE <1>1, <1>3, <1>4, <1>7 DEF SessionOK, Remote
<1>8. UntriedIsUntouched(s)' /\ AsksOnce(s)' /\ UpPackets(s)'
  BY <1>6 DEF UntriedIsUntouched, AsksOnce, UpPackets
<1>9. CodecState(s)' /\ Seen(s)'
  BY DEF CodecState, Seen
<1>10. DownPackets(s)'
  <2> SUFFICES ASSUME NEW k \in Down(s)'
               PROVE  /\ k.type \in Success => target'[s] # "none"
                      /\ k.type \in Failure => target'[s] = "none"
                      /\ k.type \in Closing => target'[s] = "reset"
                      /\ k.type \in Opening => Len(appRx[s]) <= 1 /\ k.hi = 0
                      /\ k.type = "Data" => /\ target'[s] # "none"
                                            /\ k.lo < k.hi
                                            /\ k.hi <= emitted[s]
    BY DEF DownPackets
  <2>1. CASE k = m /\ target'[s] = "reset"
    BY <2>1 DEF Success, Failure, Closing, Opening
  <2>2. CASE k \in Down(s)
    BY <2>2 DEF DownPackets
  <2>3. QED
    BY <2>1, <2>2
<1>11. Connected(s)'
  BY <1>5 DEF Connected
<1>12. UpChain(s)'
  <2>1. Offered(s)' = Offered(s) /\ (Writable(s)' => Writable(s))
    BY <1>5, <1>6 DEF Offered, Writable
  <2>2. QED
    BY <2>1 DEF UpChain
<1>13. DownChain(s)'
  <2> SUFFICES ASSUME sock[s] \in Running PROVE DownChain(s)'
    BY DEF DownChain
  <2>1. Got(s)' = Got(s)
    BY DEF Got
  <2>2. Announced(s) => Announced(s)'
    BY DEF Announced
  <2>3. Data(ComingDown(s)') = Data(ComingDown(s))
    BY DEF Data
  <2>4. tunnel = "up" => Announced(s)
    BY DEF DownChain
  <2>5. \A k \in ComingDown(s)' : k.type \in Closing \cup {"Data"} => Announced(s)
    BY <2>4 DEF DownChain
  <2>6. QED
    BY <2>1, <2>2, <2>3, <2>4, <2>5 DEF DownChain, Chained, ReachesTo
<1>14. QED
  BY <1>8, <1>9, <1>10, <1>11, <1>12, <1>13

\* What a target does.
LEMMA TargetOK ==
  ASSUME SessionInv, NEW s \in OwnPort, NEW c \in Sessions,
         TargetSends(c) \/ TargetCloses(c) \/ TargetResets(c), ProxyFrame
  PROVE  SessionOK(s)'
<1>1. /\ s \in Sessions
      /\ target \in [Sessions -> {"none", "open", "eof", "reset"}]
      /\ emitted \in [Sessions -> Nat]
  BY SessionFacts DEF Inv, TypeOK, ProxyTypeOK
<1>2. /\ Remote /\ c \in readers /\ UNCHANGED connecting
      /\ \A type, lo, hi : Packet(c, type, lo, hi).src = c
  BY DEF TargetSends, TargetCloses, TargetResets, Remote, channelVars, ProxyFrame, socksVars, Packet
<1>3. CASE TargetSends(c)
  <2>1. PICK hi \in (emitted[c] + 1)..MaxDown :
          /\ emitted' = [emitted EXCEPT ![c] = hi]
          /\ Notify(Packet(c, "Data", emitted[c], hi))
    BY <1>3 DEF TargetSends
  <2>2. hi \in Nat /\ emitted[c] < hi
    BY <1>1, <2>1, BoundAssumption
  <2>3. UNCHANGED <<target, readers>>
    BY <1>3 DEF TargetSends
  <2>4. CASE c # s
    BY <1>1, <1>2, <2>1, <2>3, <2>4, FutureOther
  <2>5. CASE c = s
    BY <1>1, <1>2, <2>1, <2>2, <2>3, <2>5, ReadOK
  <2>6. QED
    BY <2>4, <2>5
<1>4. CASE TargetCloses(c)
  <2>1. /\ readers' = readers \ {c}
        /\ target' = [target EXCEPT ![c] = "eof"]
        /\ UNCHANGED <<emitted, proxyMail>>
    BY <1>4 DEF TargetCloses
  <2>2. CASE c # s
    BY <1>1, <1>2, <2>1, <2>2, FutureOther
  <2>3. CASE c = s
    BY <1>1, <1>2, <2>1, <2>3, ReaderEndsOK
  <2>4. QED
    BY <2>2, <2>3
<1>5. CASE TargetResets(c)
  <2>1. /\ readers' = readers \ {c}
        /\ target' = [target EXCEPT ![c] = "reset"]
        /\ Notify(Signal(c, "Dead"))
        /\ UNCHANGED emitted
    BY <1>5 DEF TargetResets
  <2>2. CASE c # s
    BY <1>1, <1>2, <2>1, <2>2, FutureOther DEF Signal
  <2>3. CASE c = s
    BY <1>1, <1>2, <2>1, <2>3, ReaderEndsOK
  <2>4. QED
    BY <2>2, <2>3
<1>6. QED
  BY <1>3, <1>4, <1>5

\* Every step of the server process keeps the sessions in shape.
LEMMA ProxyOK ==
  ASSUME SessionInv, NEW s \in OwnPort, ProxyNext, ProxyFrame
  PROVE  SessionOK(s)'
BY RequestAddrOK, WriteDataOK, WriteFailsOK, DataPanicsOK, EchoOK, StopsOK, EstablishedOK, DeadOK,
   ProxyResponseOK, ConnectOK, TargetOK DEF ProxyNext
-----------------------------------------------------------------------------
(* Every step of the system.                                               *)

\* An actor that has ended never comes back, and nothing of it does.
LEMMA GoneForGood ==
  ASSUME SessionInv, [Next]_vars
  PROVE  ProxyGone'
<1>1. ProxyGone
  BY DEF SessionInv
<1>2. CASE (\E s \in Sessions : SocksNext(s)) /\ SocksFrame
  BY <1>1, <1>2 DEF SocksFrame, proxyVars, ProxyGone
<1>3. CASE ServerNext /\ ServerFrame
  <2>1. UNCHANGED <<proxy, proxyMail, connecting, connections>>
    BY <1>3 DEF ServerFrame, proxyVars
  <2>2. tunnel = "down" => tunnel' = "down"
    BY <1>3
    DEF ServerNext, SocksConnected, AcceptPanics, IntervalTick, HandleHeartbeat,
        HandleProxyRequest, HandleResponse, ServerStops, ProcessDies, channelVars
  <2>3. QED
    BY <1>1, <2>1, <2>2 DEF ProxyGone
<1>4. CASE ProxyNext /\ ProxyFrame
  <2>1. CASE proxy = "running"
    <3>1. CASE ProxyStops
      BY <3>1 DEF ProxyStops, channelVars, ProxyGone
    <3>2. CASE DataPanics \/ SendPanics
      BY <3>2 DEF DataPanics, SendPanics, ThreadDies, ProxyGone
    <3>3. CASE \/ HandleRequestAddr \/ WriteData \/ WriteFails \/ EchoHeartbeat
               \/ HandleEstablished \/ HandleDead \/ HandleProxyResponse \/ ForwarderFails
               \/ \E c \in Sessions : \/ ConnectSucceeds(c) \/ ConnectFails(c)
                                      \/ TargetSends(c) \/ TargetCloses(c) \/ TargetResets(c)
      <4>1. proxy' = proxy
        BY <3>3
        DEF HandleRequestAddr, WriteData, WriteFails, EchoHeartbeat, HandleEstablished, HandleDead,
            HandleProxyResponse, ForwarderFails, ConnectSucceeds, ConnectFails, TargetSends,
            TargetCloses, TargetResets, Mail, proxyVars
      <4>2. QED
        BY <2>1, <4>1 DEF ProxyGone
    <3>4. QED
      BY <1>4, <3>1, <3>2, <3>3 DEF ProxyNext
  <2>2. CASE proxy # "running"
    <3>1. /\ tunnel = "down" /\ proxyMail = << >> /\ connecting = {}
          /\ \A p \in Ports : connections[p] = None
      BY <1>1, <2>2 DEF ProxyGone
    <3>2. \/ ForwarderFails
          \/ \E c \in Sessions : TargetSends(c) \/ TargetCloses(c) \/ TargetResets(c)
      BY <1>4, <2>2, <3>1
      DEF ProxyNext, HandleRequestAddr, WriteData, WriteFails, EchoHeartbeat, DataPanics, Request,
          HandleEstablished, HandleDead, HandleProxyResponse, Mail, ProxyStops, SendPanics,
          ConnectSucceeds, ConnectFails
    <3>3. UNCHANGED <<proxy, connections, connecting, tunnel, proxyMail>>
      BY <2>2, <3>2 DEF ForwarderFails, TargetSends, TargetCloses, TargetResets, Notify, channelVars
    <3>4. QED
      BY <3>1, <3>3 DEF ProxyGone
  <2>3. QED
    BY <2>1, <2>2
<1>5. CASE BreakTunnel /\ UNCHANGED <<socksVars, serverVars, proxyVars, targetVars>>
  BY <1>1, <1>5 DEF BreakTunnel, proxyVars, ProxyGone
<1>6. CASE UNCHANGED vars
  BY <1>1, <1>6 DEF vars, channelVars, proxyVars, ProxyGone
<1>7. QED
  BY <1>2, <1>3, <1>4, <1>5, <1>6 DEF Next

\* The network breaks the tunnel.
LEMMA BreakOK ==
  ASSUME SessionInv, BreakTunnel, UNCHANGED <<socksVars, serverVars, proxyVars, targetVars>>
  PROVE  UpOrder' /\ DownOrder' /\ \A s \in OwnPort : SessionOK(s)'
<1>1. /\ tunnel' = "down"
      /\ UNCHANGED <<wireUp, wireDown, serverMail, socksMail, sock, requested, sent, appRx,
                     connections, connecting, readers, proxyMail, target, emitted, targetRx>>
  BY DEF BreakTunnel, socksVars, proxyVars, targetVars
<1>2. UpOrder' /\ DownOrder'
  BY <1>1 DEF SessionInv, UpOrder, DownOrder
<1>3. ASSUME NEW s \in OwnPort
      PROVE  SessionOK(s)'
  <2>1. WrittenUp(s)' = WrittenUp(s) /\ WrittenDown(s)' = WrittenDown(s)
    BY <1>1 DEF WrittenUp, WrittenDown
  <2>2. Fall(s)
    BY <1>1, <2>1 DEF Fall, Unseen
  <2>3. QED
    BY <2>2, FallOK
<1>4. QED
  BY <1>2, <1>3

\* The initial state satisfies the invariant.
LEMMA InitSession == Init => SessionInv
<1> SUFFICES ASSUME Init PROVE SessionInv
  OBVIOUS
<1> USE DEF Init, ChannelsInit, SocksInit, ServerInit, ProxyInit
<1>1. Inv
  BY InitInv
<1>2. UpOrder /\ DownOrder
  BY LineEmpty, ElemsEmpty DEF UpOrder, DownOrder, OwnPort, InLine, InFront
<1>3. ProxyGone
  BY DEF ProxyGone
<1>4. ASSUME NEW s \in OwnPort
      PROVE  SessionOK(s)
  <2>1. s \in Sessions /\ PortOf[s] \in Ports
    BY DEF OwnPort, Ports
  <2>2. /\ Up(s) = {} /\ Down(s) = {} /\ ComingUp(s) = {} /\ ComingDown(s) = {}
        /\ \A type : ~Mailed(s, type)
    BY <2>1, HeldEmpty DEF Up, WrittenUp, Down, WrittenDown, ComingUp, ComingDown, Mailed
  <2>3. /\ sock[s] = "none" /\ requested = {} /\ sent[s] = 0 /\ appRx[s] = << >>
        /\ connections[PortOf[s]] = None /\ connecting = {} /\ readers = {}
        /\ target[s] = "none" /\ emitted[s] = 0 /\ targetRx[s] = << >>
    BY <2>1
  <2> USE <2>2, <2>3
  <2>4. UntriedIsUntouched(s) /\ AsksOnce(s) /\ CodecState(s)
    BY DEF UntriedIsUntouched, AsksOnce, CodecState
  <2>5. UpPackets(s) /\ DownPackets(s) /\ Connected(s)
    BY DEF UpPackets, DownPackets, Connected, Data
  <2>6. UpChain(s)
    BY DEF UpChain, Chained, ReachesTo, Offered, Data
  <2>7. DownChain(s)
    BY DEF DownChain, Running
  <2>8. Seen(s)
    BY DEF Seen
  <2>9. QED
    BY <2>4, <2>5, <2>6, <2>7, <2>8 DEF SessionOK
<1>5. QED
  BY <1>1, <1>2, <1>3, <1>4 DEF SessionInv

\* Every step of the system preserves the invariant.
LEMMA NextSession == SessionInv /\ [Next]_vars => SessionInv'
<1> SUFFICES ASSUME SessionInv, [Next]_vars PROVE SessionInv'
  OBVIOUS
<1>1. Inv'
  BY NextInv DEF SessionInv
<1>2. ProxyGone'
  BY GoneForGood
<1>3. UpOrder' /\ DownOrder' /\ \A s \in OwnPort : SessionOK(s)'
  <2>1. CASE (\E s \in Sessions : SocksNext(s)) /\ SocksFrame
    BY <2>1, OrderSocks, SocksOK
  <2>2. CASE ServerNext /\ ServerFrame
    BY <2>2, OrderServer, ServerOK
  <2>3. CASE ProxyNext /\ ProxyFrame
    BY <2>3, OrderProxy, ProxyOK
  <2>4. CASE BreakTunnel /\ UNCHANGED <<socksVars, serverVars, proxyVars, targetVars>>
    BY <2>4, BreakOK
  <2>5. CASE UNCHANGED vars
    <3>1. UNCHANGED <<tunnel, wireUp, wireDown, serverMail, socksMail, sock, requested, sent,
                      appRx, connections, connecting, readers, proxyMail, target, emitted, targetRx>>
      BY <2>5 DEF vars, channelVars, socksVars, proxyVars, targetVars
    <3>2. UpOrder' /\ DownOrder'
      BY <3>1 DEF SessionInv, UpOrder, DownOrder
    <3>3. ASSUME NEW s \in OwnPort
          PROVE  SessionOK(s)'
      <4>1. Elsewhere(s)
        BY <3>1 DEF Elsewhere, Unseen
      <4>2. QED
        BY <4>1, SessionFacts, ElsewhereOK
    <3>4. QED
      BY <3>2, <3>3
  <2>6. QED
    BY <2>1, <2>2, <2>3, <2>4, <2>5 DEF Next
<1>4. QED
  BY <1>1, <1>2, <1>3 DEF SessionInv

\* For any number of sessions, sharing ports or not, of any length, with a
\* tunnel that may break at any moment: the packets of a session with a port of
\* its own stay in order from queue to queue (socks.rs:82-152, client.rs:77-139,
\* server.rs:46-189), and none is missing while its data can still arrive.
THEOREM SessionInvariance == Spec => []SessionInv
BY InitSession, NextSession, PTL DEF Spec

-----------------------------------------------------------------------------
(* What the two ends of a session see.                                     *)

\* What was delivered to a session with a port of its own is its own.
LEMMA DeliveredOwn ==
  ASSUME SessionInv, NEW s \in Sessions, UniquePort(s)
  PROVE  /\ s \in OwnPort /\ SessionOK(s)
         /\ Len(appRx[s]) \in Nat
         /\ \A i \in 1..Len(appRx[s]) : appRx[s][i].src = s /\ appRx[s][i] \in Packets(AppTypes)
         /\ \A i \in 1..Len(targetRx[s]) : targetRx[s][i].src = s /\ targetRx[s][i] \in Writes
<1>1. s \in OwnPort /\ SessionOK(s) /\ SamePort(PortOf[s]) = {s} /\ DeliveredByPort
  BY DEF OwnPort, SessionInv, Inv, UniquePort, SamePort
<1>2. ASSUME NEW i \in 1..Len(appRx[s])
      PROVE  appRx[s][i].src = s /\ appRx[s][i] \in Packets(AppTypes)
  <2>1. appRx[s][i] \in OfPort(PortOf[s], AppTypes)
    BY <1>1, <1>2, AllInSeq DEF DeliveredByPort
  <2>2. QED
    BY <1>1, <2>1 DEF OfPort
<1>3. ASSUME NEW i \in 1..Len(targetRx[s])
      PROVE  targetRx[s][i].src = s /\ targetRx[s][i] \in Writes
  <2>1. targetRx[s][i] \in {w \in Writes : w.src \in SamePort(PortOf[s])}
    BY <1>1, <1>3, AllInSeq DEF DeliveredByPort
  <2>2. QED
    BY <1>1, <2>1
<1>4. Len(appRx[s]) \in Nat
  BY <1>1, SessionFacts
<1>5. QED
  BY <1>1, <1>2, <1>3, <1>4

\* What an application receives (socks.rs:82-131): the method selection, one
\* reply, and after a success the bytes of its own target from the first on,
\* without loss, repetition or reordering.
THEOREM TranscriptHolds == Spec => []Transcript
<1>1. SessionInv => Transcript
  <2> SUFFICES ASSUME SessionInv, NEW s \in Sessions, UniquePort(s), NEW i \in 1..Len(appRx[s])
               PROVE  LET m == appRx[s][i] IN
                      CASE i = 1 -> m.type = "Negotiation"
                        [] i = 2 -> m.type \in {"Succeeded", "ConnectionRefused"}
                        [] i > 2 -> /\ m.type = "Data"
                                    /\ appRx[s][2].type = "Succeeded"
                                    /\ m.src = s
                                    /\ m.lo = appRx[s][i - 1].hi
    BY DEF Transcript
  <2>1. appRx[s][i].src = s /\ Seen(s) /\ Len(appRx[s]) \in Nat
    BY DeliveredOwn DEF SessionOK
  <2>2. i = 1 \/ i = 2 \/ i > 2
    BY <2>1
  <2>3. QED
    BY <2>1, <2>2 DEF Seen
<1>2. QED
  BY <1>1, SessionInvariance, PTL

\* What a target receives (server.rs:157-163): the application's data, chunk
\* after chunk from the first on.
THEOREM ChunksHold == Spec => []ChunksInOrder
<1>1. SessionInv => ChunksInOrder
  BY DeliveredOwn DEF ChunksInOrder, SessionOK, Seen
<1>2. QED
  BY <1>1, SessionInvariance, PTL

\* The reply is a success only if the target was connected, and a refusal only
\* if it never was (server.rs:98-151).
THEOREM RepliesAreTrue == Spec => []ReplyIsTrue
<1>1. SessionInv => ReplyIsTrue
  <2> SUFFICES ASSUME SessionInv, NEW s \in Sessions, UniquePort(s), NEW i \in 1..Len(appRx[s])
               PROVE  /\ appRx[s][i].type = "Succeeded" => target[s] # "none"
                      /\ appRx[s][i].type = "ConnectionRefused" => target[s] = "none"
    BY DEF ReplyIsTrue
  <2>1. Seen(s) /\ Len(appRx[s]) \in Nat
    BY DeliveredOwn DEF SessionOK
  <2>2. i = 1 \/ i = 2 \/ i > 2
    BY <2>1
  <2>3. QED
    BY <2>1, <2>2 DEF Seen
<1>2. QED
  BY <1>1, SessionInvariance, PTL

\* A session is aborted (socks.rs:111-113) only if its own target reset the
\* connection.
THEOREM AbortsAreTrue == Spec => []AbortIsTrue
<1>1. SessionInv => AbortIsTrue
  BY DeliveredOwn DEF AbortIsTrue, SessionOK, Seen
<1>2. QED
  BY <1>1, SessionInvariance, PTL

\* A connection whose target reset it is out of the map once its ConnectionDead
\* is handled (server.rs:60).
THEOREM ResetsForgotten == Spec => []ResetIsForgotten
<1>1. SessionInv => ResetIsForgotten
  <2> SUFFICES ASSUME SessionInv, NEW s \in Sessions, UniquePort(s), target[s] = "reset",
                      \A i \in 1..Len(proxyMail) : proxyMail[i].src = s => proxyMail[i].type # "Dead"
               PROVE  connections[PortOf[s]] = None
    BY DEF ResetIsForgotten
  <2>1. ~Mailed(s, "Dead")
    BY DEF Mailed, Held, Elems
  <2>2. QED
    BY <2>1, DeliveredOwn DEF SessionOK, Connected
<1>2. QED
  BY <1>1, SessionInvariance, PTL

\* No reply reaches a session with a port of its own before its request
\* (socks.rs:85, 96); so where no two sessions share a port, none does at all.
THEOREM RepliesFindRequests ==
  ASSUME \A s \in Sessions : UniquePort(s)
  PROVE  Spec => []ReplyFindsRequest
<1>1. SessionInv => ReplyFindsRequest
  BY DeliveredOwn DEF ReplyFindsRequest, SessionOK, CodecState
<1>2. QED
  BY <1>1, SessionInvariance, PTL
=============================================================================
