------------------------------ MODULE JustProxy ------------------------------
(***************************************************************************)
(* The whole proxy: the SocksClient actors and the Server actor of one     *)
(* client process, the tunnel, and the ProxyClient actor that serves it.   *)
(* The actors run on threads of their own and share nothing but the        *)
(* channels, so a step of the system is one handler of one of them.        *)
(***************************************************************************)
EXTENDS ClientServer, ProxyClient

vars == <<channelVars, socksVars, serverVars, proxyVars, targetVars>>

TypeOK == ChannelsTypeOK /\ SocksTypeOK /\ ServerTypeOK /\ ProxyTypeOK

Init == ChannelsInit /\ SocksInit /\ ServerInit /\ ProxyInit

SocksFrame  == UNCHANGED <<tunnel, wireUp, wireDown, serverVars, proxyVars, targetVars>>
ServerFrame == UNCHANGED <<proxyVars, targetVars>>
ProxyFrame  == UNCHANGED <<socksVars, serverVars>>

Next ==
  \/ (\E s \in Sessions : SocksNext(s)) /\ SocksFrame
  \/ ServerNext /\ ServerFrame
  \/ ProxyNext /\ ProxyFrame
  \/ BreakTunnel /\ UNCHANGED <<socksVars, serverVars, proxyVars, targetVars>>

Spec == Init /\ [][Next]_vars

\* The event loops poll every mailbox and stream that is ready, and the
\* resolver gives up after its timeout, so these steps are not put off for
\* ever.  Applications, targets and the network owe us nothing.
Fairness ==
  /\ \A s \in Sessions :
       /\ WF_vars(SocksFrame /\ HandleReply(s))
       /\ WF_vars(SocksFrame /\ HandleConnectorData(s))
       /\ WF_vars(SocksFrame /\ HandleAbort(s))
       /\ WF_vars(ProxyFrame /\ (ConnectSucceeds(s) \/ ConnectFails(s)))
  /\ WF_vars(ServerFrame /\ (HandleHeartbeat \/ HandleProxyRequest))
  /\ WF_vars(ServerFrame /\ HandleResponse)
  /\ WF_vars(ProxyFrame /\ (\/ HandleRequestAddr
                            \/ WriteData
                            \/ WriteFails
                            \/ DataPanics
                            \/ EchoHeartbeat))
  /\ WF_vars(ProxyFrame /\ (\/ HandleEstablished
                            \/ HandleDead
                            \/ HandleProxyResponse))

FairSpec == Spec /\ Fairness

-----------------------------------------------------------------------------
(* Properties of every configuration, reused ports included.               *)

\* client.rs:91-131 unwraps clients.get(&uuid) and panics on anything it does
\* not expect, on the main thread.  No response ever makes it do so, although
\* responses come back long after the session they belong to has ended.
ResponsesRoutable == server # "panic_route"

\* The multiplexing of all sessions on one tunnel (socks.rs:139-150,
\* client.rs:104-126, server.rs:104-120, 158) may confuse only sessions with
\* the same port: a reply or data an application receives, and data a target
\* receives, stem from a session with the port of the receiver.
PortConfinement ==
  \A s \in Sessions :
    /\ \A i \in 1..Len(appRx[s]) : appRx[s][i].uuid = PortOf[s]
                                   /\ PortOf[appRx[s][i].src] = PortOf[s]
    /\ \A i \in 1..Len(targetRx[s]) : PortOf[targetRx[s][i].src] = PortOf[s]

\* The packets of some types that carry the uuid of their session, which the
\* client knows; heartbeats have uuid 0 and no session.
Tagged(types) ==
  {m \in Packets(types) :
     IF m.type = "Heartbeat"
     THEN m.uuid = 0 /\ m.src = None
     ELSE m.src \in Sessions /\ m.uuid = PortOf[m.src] /\ clients[m.uuid] # None}

SamePort(p) == {s \in Sessions : PortOf[s] = p}

\* The packets of some types about sessions with port p.
OfPort(p, types) == {m \in Packets(types) : m.uuid = p /\ m.src \in SamePort(p)}

\* The two maps keep under a port only sessions with that port.
MapsByPort ==
  \A p \in Ports : /\ clients[p] \in SamePort(p) \cup {None}
                  /\ connections[p] \in SamePort(p) \cup {None}

\* clients has an entry for the port of every session that was accepted, and
\* the server only works for such sessions.
EveryoneKnown ==
  /\ \A s \in Sessions : sock[s] # "none" => clients[PortOf[s]] # None
  /\ \A s \in connecting \cup readers : clients[PortOf[s]] # None

\* Every packet on its way between the two processes carries the port of its
\* session, and the client knows that port.
QueuesTagged ==
  /\ serverMail \in Seq(Tagged(RequestTypes))
  /\ wireUp \in Seq(Tagged(RequestTypes))
  /\ proxyMail \in Seq(Tagged(MailTypes))
  /\ wireDown \in Seq(Tagged(ResponseTypes))

\* What has been handed to a session or a target is of its port.
DeliveredByPort ==
  \A s \in Sessions :
    /\ socksMail[s] \in Seq(OfPort(PortOf[s], ConnectorTypes))
    /\ appRx[s] \in Seq(OfPort(PortOf[s], AppTypes))
    /\ targetRx[s] \in Seq({w \in Writes : w.src \in SamePort(PortOf[s])})

\* The inductive invariant behind both properties (client.rs:104-126,
\* server.rs:56-83, 104-120, 157-163).
Inv ==
  /\ TypeOK
  /\ ResponsesRoutable
  /\ MapsByPort
  /\ EveryoneKnown
  /\ QueuesTagged
  /\ DeliveredByPort

-----------------------------------------------------------------------------
(* Properties of a session that shares its port with no other.             *)

\* What the application receives (socks.rs:82-131) is the method selection,
\* then one reply, then, only if the reply was a success, the bytes of its own
\* target from the first on, without loss, repetition or reordering.  The
\* success overtakes no data because the future that connects queues
\* ConnectionEstablished before it spawns the reader (server.rs:116-120).
Transcript ==
  \A s \in Sessions : UniquePort(s) =>
    \A i \in 1..Len(appRx[s]) :
      LET m == appRx[s][i] IN
      CASE i = 1 -> m.type = "Negotiation"
        [] i = 2 -> m.type \in {"Succeeded", "ConnectionRefused"}
        [] i > 2 -> /\ m.type = "Data"
                    /\ appRx[s][2].type = "Succeeded"
                    /\ m.src = s
                    /\ m.lo = appRx[s][i - 1].hi

\* What the target receives (server.rs:157-163) is the application's data,
\* chunk after chunk from the first on; bytes are missing only at the end of
\* a chunk, where write took less than it was offered.
ChunksInOrder ==
  \A s \in Sessions : UniquePort(s) =>
    \A i \in 1..Len(targetRx[s]) :
      /\ targetRx[s][i].src = s
      /\ targetRx[s][i].lo = (IF i = 1 THEN 0 ELSE targetRx[s][i - 1].end)

\* The reply tells the truth (server.rs:98-151): success only if the target
\* was connected, refusal only if it never was.
ReplyIsTrue ==
  \A s \in Sessions : UniquePort(s) =>
    \A i \in 1..Len(appRx[s]) :
      /\ appRx[s][i].type = "Succeeded" => target[s] # "none"
      /\ appRx[s][i].type = "ConnectionRefused" => target[s] = "none"

\* A session is aborted (socks.rs:111-113) only if its own target reset the
\* connection (server.rs:110-115).
AbortIsTrue ==
  \A s \in Sessions : UniquePort(s) => (sock[s] = "aborted" => target[s] = "reset")

\* socks.rs:85, 96 unwrap connect_request_record: no reply reaches a session
\* before it has sent its request.
ReplyFindsRequest == \A s \in Sessions : sock[s] # "panic_reply"

\* A connection whose target reset it is forgotten once its ConnectionDead is
\* handled (server.rs:60), although ConnectionEstablished and ConnectionDead
\* are queued by two futures.
ResetIsForgotten ==
  \A s \in Sessions :
    /\ UniquePort(s)
    /\ target[s] = "reset"
    /\ \A i \in 1..Len(proxyMail) : proxyMail[i].src = s => proxyMail[i].type # "Dead"
    => connections[PortOf[s]] = None

\* Every request is answered (socks.rs:134-143 to 84-106) as long as the
\* tunnel holds and the application waits.
RequestAnswered ==
  \A s \in Sessions : UniquePort(s) =>
    (sock[s] = "READY" ~> (Len(appRx[s]) >= 2 \/ sock[s] # "READY" \/ tunnel = "down"))

\* What a target sends reaches its application (server.rs:104-109, client.rs:
\* 105-108, socks.rs:107-110) as long as the tunnel holds and the application
\* stays, also when the target closes its connection right after sending, which
\* nobody is told of.
DownstreamDelivered ==
  \A s \in Sessions : UniquePort(s) => \A n \in 1..MaxDown :
    emitted[s] >= n ~>
      \/ \E i \in 1..Len(appRx[s]) : appRx[s][i].type = "Data" /\ appRx[s][i].hi >= n
      \/ sock[s] \notin Running
      \/ tunnel = "down"

\* What an application sends is offered to its target (socks.rs:144-151,
\* client.rs:81-83, server.rs:157-163) as long as the tunnel holds and the
\* server keeps the connection, also when the application leaves right after
\* sending.
UpstreamOffered ==
  \A s \in Sessions : UniquePort(s) => \A n \in 1..MaxUp :
    (sent[s] >= n /\ connections[PortOf[s]] = s) ~>
      \/ \E i \in 1..Len(targetRx[s]) : targetRx[s][i].end >= n
      \/ connections[PortOf[s]] # s
      \/ tunnel = "down"

-----------------------------------------------------------------------------
(* What a panic in the code asserts of the server, and does not hold.      *)

\* server.rs:164-166: data always finds its connection.
DataFindsConnection == proxy # "panic_data"
=============================================================================
