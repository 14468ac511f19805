----------------------------- MODULE ProxyClient -----------------------------
(***************************************************************************)
(* The ProxyClient actor of the server process (component/server.rs), one  *)
(* per tunnel, on a thread of its own (TcpConnector::run_server), with the *)
(* futures it spawns: a resolver future per requested target, a reader     *)
(* future per established connection, and the forwarder that writes the    *)
(* responses to the tunnel.  The resolver and the targets are external and *)
(* modelled by what the code can see of them.                              *)
(*                                                                         *)
(* A connection to a target is named by the session that asked for it;     *)
(* the code itself keeps it under the uuid only.                           *)
(***************************************************************************)
EXTENDS Channels

VARIABLES
  proxy,        (* "running", "stopped", or the panic that ended its thread *)
  connections,  (* HashMap<u16, WriteHalf<TcpStream>>                      *)
  connecting,   (* resolver futures that have not finished                 *)
  readers,      (* connections whose reader future runs                    *)
  forwarder,    (* TRUE while the receiver of write_sender exists          *)
  proxyMail,    (* mailbox of the actor                                    *)
  target,       (* "none", "open", "eof", "reset": external                *)
  emitted,      (* bytes the reader has read from each target: external    *)
  targetRx      (* the writes each target received, in order: external     *)

proxyVars == <<proxy, connections, connecting, readers, forwarder, proxyMail>>
targetVars == <<target, emitted, targetRx>>

\* One write to a target: of the bytes (lo, end] it was offered, it took
\* (lo, hi].
Writes == [src : Sessions, lo : Nat, hi : Nat, end : Nat]

\* ConnectionEstablished, ConnectionDead and ProxyResponse.
MailTypes == {"Established", "Dead"} \cup ResponseTypes

ProxyTypeOK ==
  /\ proxy \in {"running", "stopped", "panic_data", "panic_send"}
  /\ connections \in [Ports -> Sessions \cup {None}]
  /\ connecting \in SUBSET Sessions
  /\ readers \in SUBSET Sessions
  /\ forwarder \in BOOLEAN
  /\ proxyMail \in Seq(Packets(MailTypes))
  /\ target \in [Sessions -> {"none", "open", "eof", "reset"}]
  /\ emitted \in [Sessions -> Nat]
  /\ targetRx \in [Sessions -> Seq(Writes)]

ProxyInit ==
  /\ proxy = "running"
  /\ connections = [p \in Ports |-> None]
  /\ connecting = {}
  /\ readers = {}
  /\ forwarder = TRUE
  /\ proxyMail = << >>
  /\ target = [s \in Sessions |-> "none"]
  /\ emitted = [s \in Sessions |-> 0]
  /\ targetRx = [s \in Sessions |-> << >>]

\* A panic ends the thread and every future on it.
ThreadDies(how) ==
  /\ proxy' = how
  /\ tunnel' = "down"
  /\ connections' = [p \in Ports |-> None]
  /\ connecting' = {}
  /\ readers' = {}
  /\ forwarder' = FALSE
  /\ proxyMail' = << >>

\* do_send from a future to the actor; it has no effect once the actor ended.
Notify(m) == proxyMail' = IF proxy = "running" THEN Append(proxyMail, m) ELSE proxyMail

-----------------------------------------------------------------------------
(* StreamHandler<ProxyRequest>: what arrives from the tunnel.              *)

Request(type) ==
  /\ proxy = "running"
  /\ wireUp # << >>
  /\ Head(wireUp).type = type
  /\ wireUp' = Tail(wireUp)
  /\ UNCHANGED <<serverMail, socksMail>>

HandleRequestAddr ==
  /\ Request("RequestAddr")
  /\ connecting' = connecting \cup {Head(wireUp).src}
  /\ UNCHANGED <<proxy, connections, readers, forwarder, proxyMail, targetVars,
                 tunnel, wireDown>>

\* Mutant of Connection: any connection will do.
AnyConnection(m) ==
  LET live == {connections[p] : p \in Ports} \ {None}
  IN IF live = {} THEN None ELSE CHOOSE c \in live : TRUE

\* connections.get_mut(&uuid)
Connection(m) == connections[m.uuid]

\* One call of write, whose count is ignored: the target takes a non-empty
\* part of the data and the rest is dropped.
WriteData ==
  /\ Request("Data")
  /\ LET m == Head(wireUp)
         c == Connection(m)
     IN /\ c # None
        /\ target[c] # "reset"
        /\ \E n \in (m.lo + 1)..m.hi :
             targetRx' = [targetRx EXCEPT ![c] = Append(@,
               [src |-> m.src, lo |-> m.lo, hi |-> n, end |-> m.hi])]
  /\ UNCHANGED <<proxyVars, target, emitted, tunnel, wireDown>>

\* write fails: the target is gone, or would block.  The connection is
\* dropped and nobody is told.
WriteFails ==
  /\ Request("Data")
  /\ Connection(Head(wireUp)) # None
  /\ connections' = [connections EXCEPT ![Head(wireUp).uuid] = None]
  /\ UNCHANGED <<proxy, connecting, readers, forwarder, proxyMail, targetVars,
                 tunnel, wireDown>>

\* Data for a uuid that is not in connections is a panic.
DataPanics ==
  /\ Request("Data")
  /\ Connection(Head(wireUp)) = None
  /\ ThreadDies("panic_data")
  /\ UNCHANGED <<targetVars, wireDown>>

EchoHeartbeat ==
  /\ Request("Heartbeat")
  /\ forwarder
  /\ wireDown' = Write(wireDown, Head(wireUp))
  /\ UNCHANGED <<proxyVars, targetVars, tunnel>>

\* End or error of the tunnel: finished stops the actor.  Its resolver
\* futures go with it, the reader futures belong to the thread and stay.
ProxyStops ==
  /\ proxy = "running"
  /\ tunnel = "down"
  /\ proxy' = "stopped"
  /\ connections' = [p \in Ports |-> None]
  /\ connecting' = {}
  /\ proxyMail' = << >>
  /\ forwarder' = FALSE
  /\ UNCHANGED <<readers, targetVars, channelVars>>

-----------------------------------------------------------------------------
(* The actor's mailbox.                                                    *)

Mail(types) ==
  /\ proxy = "running"
  /\ forwarder
  /\ proxyMail # << >>
  /\ Head(proxyMail).type \in types
  /\ proxyMail' = Tail(proxyMail)
  /\ UNCHANGED <<proxy, connecting, readers, forwarder, targetVars, tunnel, wireUp,
                 serverMail, socksMail>>

\* Mutant of HandleEstablished: the client is not told.
EstablishedUnannounced ==
  /\ Mail({"Established"})
  /\ connections' = [connections EXCEPT ![Head(proxyMail).uuid] = Head(proxyMail).src]
  /\ UNCHANGED wireDown

HandleEstablished ==
  /\ Mail({"Established"})
  /\ LET m == Head(proxyMail)
     IN /\ connections' = [connections EXCEPT ![m.uuid] = m.src]
        /\ wireDown' = Write(wireDown, Signal(m.src, "Succeeded"))

\* Mutant of HandleDead: the connection is kept.
DeadKept ==
  /\ Mail({"Dead"})
  /\ wireDown' = Write(wireDown, Signal(Head(proxyMail).src, "Abort"))
  /\ UNCHANGED connections

HandleDead ==
  /\ Mail({"Dead"})
  /\ LET m == Head(proxyMail)
     IN /\ connections' = [connections EXCEPT ![m.uuid] = None]
        /\ wireDown' = Write(wireDown, Signal(m.src, "Abort"))

HandleProxyResponse ==
  /\ Mail(ResponseTypes)
  /\ wireDown' = Write(wireDown, Head(proxyMail))
  /\ UNCHANGED connections

\* rx.forward ends when a write to the tunnel fails ...
ForwarderFails ==
  /\ forwarder
  /\ tunnel = "down"
  /\ forwarder' = FALSE
  /\ UNCHANGED <<proxy, connections, connecting, readers, proxyMail, targetVars,
                 channelVars>>

\* ... and the next handler to use write_sender unwraps the error.
SendPanics ==
  /\ proxy = "running"
  /\ ~forwarder
  /\ \/ proxyMail # << >>
     \/ wireUp # << >> /\ Head(wireUp).type = "Heartbeat"
  /\ ThreadDies("panic_send")
  /\ UNCHANGED <<targetVars, wireUp, wireDown, serverMail, socksMail>>

-----------------------------------------------------------------------------
(* The resolver future of the target of c.                                 *)

ConnectSucceeds(c) ==
  /\ c \in connecting
  /\ connecting' = connecting \ {c}
  /\ target' = [target EXCEPT ![c] = "open"]
  /\ readers' = readers \cup {c}
  /\ Notify(Signal(c, "Established"))
  /\ UNCHANGED <<proxy, connections, forwarder, emitted, targetRx, channelVars>>

\* Mutant of ConnectFails: a timeout returns without an answer.
TimeoutUnanswered(c) ==
  /\ c \in connecting
  /\ connecting' = connecting \ {c}
  /\ \/ Notify(Signal(c, "ConnectionRefused"))
     \/ UNCHANGED proxyMail
  /\ UNCHANGED <<proxy, connections, readers, forwarder, targetVars, channelVars>>

\* Mutant of ConnectFails: a failure is reported as a success.
FailureAsSuccess(c) ==
  /\ c \in connecting
  /\ connecting' = connecting \ {c}
  /\ \E how \in {"Timeout", "Succeeded"} : Notify(Signal(c, how))
  /\ UNCHANGED <<proxy, connections, readers, forwarder, targetVars, channelVars>>

ConnectFails(c) ==
  /\ c \in connecting
  /\ connecting' = connecting \ {c}
  /\ \E how \in {"Timeout", "ConnectionRefused"} : Notify(Signal(c, how))
  /\ UNCHANGED <<proxy, connections, readers, forwarder, targetVars, channelVars>>

-----------------------------------------------------------------------------
(* The reader future of connection c.                                      *)

TargetSends(c) ==
  /\ c \in readers
  /\ \E hi \in (emitted[c] + 1)..MaxDown :
       /\ emitted' = [emitted EXCEPT ![c] = hi]
       /\ Notify(Packet(c, "Data", emitted[c], hi))
  /\ UNCHANGED <<proxy, connections, connecting, readers, forwarder, target,
                 targetRx, channelVars>>

\* Mutant of TargetCloses: the end of the stream is reported like an error.
CloseAsDead(c) ==
  /\ c \in readers
  /\ readers' = readers \ {c}
  /\ target' = [target EXCEPT ![c] = "eof"]
  /\ Notify(Signal(c, "Dead"))
  /\ UNCHANGED <<proxy, connections, connecting, forwarder, emitted, targetRx,
                 channelVars>>

\* A clean end of the stream ends for_each with Ok: map_err does not run.
TargetCloses(c) ==
  /\ c \in readers
  /\ readers' = readers \ {c}
  /\ target' = [target EXCEPT ![c] = "eof"]
  /\ UNCHANGED <<proxy, connections, connecting, forwarder, proxyMail, emitted,
                 targetRx, channelVars>>

TargetResets(c) ==
  /\ c \in readers
  /\ readers' = readers \ {c}
  /\ target' = [target EXCEPT ![c] = "reset"]
  /\ Notify(Signal(c, "Dead"))
  /\ UNCHANGED <<proxy, connections, connecting, forwarder, emitted, targetRx,
                 channelVars>>

ProxyNext ==
  \/ HandleRequestAddr
  \/ WriteData
  \/ WriteFails
  \/ DataPanics
  \/ EchoHeartbeat
  \/ ProxyStops
  \/ HandleEstablished
  \/ HandleDead
  \/ HandleProxyResponse
  \/ ForwarderFails
  \/ SendPanics
  \/ \E c \in Sessions :
       \/ ConnectSucceeds(c)
       \/ ConnectFails(c)
       \/ TargetSends(c)
       \/ TargetCloses(c)
       \/ TargetResets(c)
=============================================================================
