---------------------------- MODULE ClientServer ----------------------------
(***************************************************************************)
(* The Server actor of the client process (component/client.rs): it        *)
(* accepts SOCKS connections, multiplexes their requests on the tunnel and *)
(* routes the responses back by uuid.  It runs on the main thread, so a    *)
(* panic in it ends the whole client process.  The instants of its         *)
(* heartbeat are the subject of module Heartbeat; here a heartbeat is one  *)
(* more packet of the tunnel.                                              *)
(***************************************************************************)
EXTENDS SocksClient

VARIABLES
  server,   (* "running", "stopped", or how the process panicked           *)
  clients,  (* HashMap<u16, Addr<SocksClient>>, never shrinks              *)
  hb_index  (* index of the last heartbeat sent                            *)

serverVars == <<server, clients, hb_index>>

ServerTypeOK ==
  /\ server \in {"running", "stopped", "panic_route", "panic_accept"}
  /\ clients \in [Ports -> Sessions \cup {None}]
  /\ hb_index \in Nat

ServerInit ==
  /\ server = "running"
  /\ clients = [p \in Ports |-> None]
  /\ hb_index = 0

ProcessDies(how) ==
  /\ server' = how
  /\ tunnel' = "down"
  /\ sock' = [s \in Sessions |-> IF sock[s] \in Running THEN "closed" ELSE sock[s]]
  /\ socksMail' = [s \in Sessions |-> << >>]

-----------------------------------------------------------------------------
\* Mutant of SocksConnected: the address is not inserted.
SocksConnectedUnknown(s) ==
  /\ server = "running"
  /\ sock[s] = "none"
  /\ Become(s, "NEGOTIATION")
  /\ UNCHANGED <<server, clients, hb_index, requested, sent, appRx, channelVars>>

\* Handler<SocksConnectedMessage>: start the actor on a new thread and then
\* insert its address.  The actor may run before the insert, but what it
\* sends waits in the mailbox until this handler has returned.
SocksConnected(s) ==
  /\ server = "running"
  /\ sock[s] = "none"
  /\ Become(s, "NEGOTIATION")
  /\ clients' = [clients EXCEPT ![PortOf[s]] = s]
  /\ UNCHANGED <<server, hb_index, requested, sent, appRx, channelVars>>

\* A peer that is gone before the listener's stream is polled has no
\* peer_addr(), which is unwrapped.
AcceptPanics(s) ==
  /\ server = "running"
  /\ sock[s] = "none"
  /\ ProcessDies("panic_accept")
  /\ UNCHANGED <<clients, hb_index, requested, sent, appRx, wireUp, wireDown, serverMail>>

\* run_interval, when the last echo is fresh enough: a message to itself.
IntervalTick ==
  /\ server = "running"
  /\ hb_index < MaxBeats
  /\ \A i \in 1..Len(serverMail) : serverMail[i].type # "Heartbeat"
  /\ serverMail' = Append(serverMail, HeartbeatPacket(0))
  /\ UNCHANGED <<serverVars, socksVars, tunnel, wireUp, wireDown, socksMail>>

\* Handler<Heartbeat>
HandleHeartbeat ==
  /\ server = "running"
  /\ serverMail # << >>
  /\ Head(serverMail).type = "Heartbeat"
  /\ serverMail' = Tail(serverMail)
  /\ hb_index' = hb_index + 1
  /\ wireUp' = Write(wireUp, HeartbeatPacket(hb_index'))
  /\ UNCHANGED <<server, clients, socksVars, tunnel, wireDown, socksMail>>

\* Mutant of HandleProxyRequest: data of a session that has ended is dropped.
EndedSessionDropped ==
  /\ server = "running"
  /\ serverMail # << >>
  /\ Head(serverMail).type # "Heartbeat"
  /\ serverMail' = Tail(serverMail)
  /\ wireUp' = IF sock[Head(serverMail).src] \in Running
               THEN Write(wireUp, Head(serverMail))
               ELSE wireUp
  /\ UNCHANGED <<serverVars, socksVars, tunnel, wireDown, socksMail>>

\* Handler<ProxyRequest>
HandleProxyRequest ==
  /\ server = "running"
  /\ serverMail # << >>
  /\ Head(serverMail).type # "Heartbeat"
  /\ serverMail' = Tail(serverMail)
  /\ wireUp' = Write(wireUp, Head(serverMail))
  /\ UNCHANGED <<serverVars, socksVars, tunnel, wireDown, socksMail>>

-----------------------------------------------------------------------------
(* StreamHandler<ProxyResponse>: what arrives from the tunnel.             *)

\* uuid 0 is for heartbeats alone, any other uuid must be in clients and is
\* never a heartbeat: everything else panics.
Routable(m) ==
  IF m.uuid = 0 THEN m.type = "Heartbeat"
                ELSE m.type # "Heartbeat" /\ clients[m.uuid] # None

\* Both failures are the same to the session.
ToConnectorResponse(m) ==
  [m EXCEPT !.type = IF @ \in {"ConnectionRefused", "Timeout"} THEN "Failed" ELSE @]

\* What is sent to an actor that has ended is dropped: its address stays in
\* clients, but its mailbox is closed.
Route(m) ==
  socksMail' =
    IF m.uuid # 0 /\ sock[clients[m.uuid]] \in Running
    THEN [socksMail EXCEPT ![clients[m.uuid]] = Append(@, ToConnectorResponse(m))]
    ELSE socksMail

HandleResponse ==
  /\ server = "running"
  /\ wireDown # << >>
  /\ wireDown' = Tail(wireDown)
  /\ IF Routable(Head(wireDown))
     THEN Route(Head(wireDown)) /\ UNCHANGED <<server, tunnel, sock>>
     ELSE ProcessDies("panic_route")
  /\ UNCHANGED <<clients, hb_index, requested, sent, appRx, wireUp, serverMail>>

\* End or error of the tunnel, seen by the reader (finished) or by the
\* writer (the default WriteHandler::error): the actor stops, and with it the
\* listener.  The SocksClient actors live on.
ServerStops ==
  /\ server = "running"
  /\ tunnel = "down"
  /\ server' = "stopped"
  /\ UNCHANGED <<clients, hb_index, socksVars, channelVars>>

ServerNext ==
  \/ \E s \in Sessions : SocksConnected(s) \/ AcceptPanics(s)
  \/ IntervalTick
  \/ HandleHeartbeat
  \/ HandleProxyRequest
  \/ HandleResponse
  \/ ServerStops
=============================================================================
