------------------------------ MODULE Channels ------------------------------
(***************************************************************************)
(* What the actors of just-proxy share: the packets they exchange, the     *)
(* tunnel between the client process and the server process, and the       *)
(* mailboxes of the client-side actors.                                    *)
(*                                                                         *)
(* A SOCKS session is one TCP connection accepted by the client's          *)
(* listener.  The client keys everything on its peer port, the field the   *)
(* code calls uuid.  Two sessions may have the same port: one after the    *)
(* other, or at the same time from two hosts.                              *)
(***************************************************************************)
EXTENDS Naturals, Sequences

CONSTANTS
  Sessions,  (* the SOCKS connections that may be accepted                 *)
  PortOf,    (* the peer port of each session: its uuid on the wire        *)
  None,      (* the absent entry of a HashMap                              *)
  MaxUp,     (* bound: bytes an application sends in one session           *)
  MaxDown,   (* bound: bytes a target sends on one connection              *)
  MaxBeats,  (* bound: heartbeats the client sends                         *)
  MayBreak   (* TRUE when the network may break the tunnel                 *)

ASSUME PortAssumption == PortOf \in [Sessions -> Nat \ {0}]
ASSUME NoneAssumption == None \notin Sessions
ASSUME BoundAssumption == MaxUp \in Nat /\ MaxDown \in Nat /\ MaxBeats \in Nat

Ports == {PortOf[s] : s \in Sessions}

UniquePort(s) == \A t \in Sessions : PortOf[t] = PortOf[s] => t = s

(***************************************************************************)
(* Packets.  src is the session a packet is about; the code sees only      *)
(* uuid, src is what the properties speak of.  The body of a Data packet   *)
(* is the byte range (lo, hi] of the stream of src; a heartbeat carries    *)
(* its index in hi.  RequestAddr asks for the target of src.               *)
(***************************************************************************)
RequestTypes  == {"RequestAddr", "Data", "Heartbeat"}
ResponseTypes == {"Succeeded", "ConnectionRefused", "Timeout", "Abort",
                  "Data", "Heartbeat"}
ConnectorTypes == {"Succeeded", "Failed", "Abort", "Data"}

Packets(types) ==
  [uuid : Ports \cup {0}, type : types, src : Sessions \cup {None},
   lo : Nat, hi : Nat]

Packet(s, type, lo, hi) ==
  [uuid |-> PortOf[s], type |-> type, src |-> s, lo |-> lo, hi |-> hi]

Signal(s, type) == Packet(s, type, 0, 0)

HeartbeatPacket(index) ==
  [uuid |-> 0, type |-> "Heartbeat", src |-> None, lo |-> 0, hi |-> index]

VARIABLES
  tunnel,      (* "up" or "down": the TCP or QUIC stream between the two   *)
  wireUp,      (* ProxyRequests written by the client, not yet handled     *)
  wireDown,    (* ProxyResponses sent by the server, not yet handled       *)
  serverMail,  (* mailbox of the client's Server actor                     *)
  socksMail    (* mailbox of each SocksClient actor                        *)

channelVars == <<tunnel, wireUp, wireDown, serverMail, socksMail>>

ChannelsTypeOK ==
  /\ tunnel \in {"up", "down"}
  /\ wireUp \in Seq(Packets(RequestTypes))
  /\ wireDown \in Seq(Packets(ResponseTypes))
  /\ serverMail \in Seq(Packets(RequestTypes))
  /\ socksMail \in [Sessions -> Seq(Packets(ConnectorTypes))]

ChannelsInit ==
  /\ tunnel = "up"
  /\ wireUp = << >>
  /\ wireDown = << >>
  /\ serverMail = << >>
  /\ socksMail = [s \in Sessions |-> << >>]

\* A packet written to a broken tunnel is lost.  What was written before
\* the break may still be read, or be lost when its reader gives up first.
Write(wire, m) == IF tunnel = "up" THEN Append(wire, m) ELSE wire

\* The network breaks the tunnel; both ends find out by themselves.
BreakTunnel ==
  /\ MayBreak
  /\ tunnel = "up"
  /\ tunnel' = "down"
  /\ UNCHANGED <<wireUp, wireDown, serverMail, socksMail>>
=============================================================================
