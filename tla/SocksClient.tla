----------------------------- MODULE SocksClient -----------------------------
(***************************************************************************)
(* The SocksClient actors (socks.rs) with the state of their request codec *)
(* (socks/codec.rs): one actor, on a thread of its own, per SOCKS session. *)
(*                                                                         *)
(* sock[s] is "none" before the session is accepted, then the state of the *)
(* codec while the actor runs, then how the actor ended: "closed" by its   *)
(* application, "aborted" by the server, or a panic of its thread.         *)
(* Decoding a request and handling it are one step.                        *)
(*                                                                         *)
(* do_send to a Server that has stopped is dropped by actix: here the      *)
(* message stays in serverMail, which nobody reads any more.               *)
(***************************************************************************)
EXTENDS Channels

VARIABLES
  sock,       (* codec and actor state of each session                     *)
  requested,  (* the sessions whose connect_request_record and             *)
              (* target_address are Some                                   *)
  sent,       (* send_bytes: bytes each session has passed to the Server   *)
  appRx       (* what each application was sent, in order                  *)

socksVars == <<sock, requested, sent, appRx>>

\* What is written to the SOCKS connection.
AppTypes == {"Negotiation", "Succeeded", "ConnectionRefused", "Data"}

Running == {"NEGOTIATION", "WORKING", "READY"}
Ended   == {"closed", "aborted", "panic_decode", "panic_reply"}

SocksTypeOK ==
  /\ sock \in [Sessions -> {"none"} \cup Running \cup Ended]
  /\ requested \in SUBSET Sessions
  /\ sent \in [Sessions -> Nat]
  /\ appRx \in [Sessions -> Seq(Packets(AppTypes))]

SocksInit ==
  /\ sock = [s \in Sessions |-> "none"]
  /\ requested = {}
  /\ sent = [s \in Sessions |-> 0]
  /\ appRx = [s \in Sessions |-> << >>]

Become(s, state) == sock' = [sock EXCEPT ![s] = state]
Reply(s, m)      == appRx' = [appRx EXCEPT ![s] = Append(@, m)]

\* An actor that ends takes its mailbox with it.
End(s, how) == Become(s, how) /\ socksMail' = [socksMail EXCEPT ![s] = << >>]

-----------------------------------------------------------------------------
(* StreamHandler<SocksRequest>: what the application sends.                *)

HandleNegotiation(s) ==
  /\ sock[s] = "NEGOTIATION"
  /\ Become(s, "WORKING")
  /\ Reply(s, Signal(s, "Negotiation"))
  /\ UNCHANGED <<requested, sent, serverMail, socksMail>>

\* Mutant of HandleTargetRequest: the request is not recorded.
TargetRequestUnrecorded(s) ==
  /\ sock[s] = "WORKING"
  /\ Become(s, "READY")
  /\ serverMail' = Append(serverMail, Signal(s, "RequestAddr"))
  /\ UNCHANGED <<requested, sent, appRx, socksMail>>

HandleTargetRequest(s) ==
  /\ sock[s] = "WORKING"
  /\ Become(s, "READY")
  /\ requested' = requested \cup {s}
  /\ serverMail' = Append(serverMail, Signal(s, "RequestAddr"))
  /\ UNCHANGED <<sent, appRx, socksMail>>

\* decode_targetrequest panics on an unknown address type or command and on
\* a domain that is not UTF-8; the panic ends the thread of this session.
DecodePanics(s) ==
  /\ sock[s] = "WORKING"
  /\ End(s, "panic_decode")
  /\ UNCHANGED <<requested, sent, appRx, serverMail>>

\* Mutant of HandleData: the bytes stay in the buffer and are sent again.
DataNotTaken(s) ==
  /\ sock[s] = "READY"
  /\ \E hi \in (sent[s] + 1)..MaxUp :
       /\ sent' = [sent EXCEPT ![s] = hi]
       /\ serverMail' = Append(serverMail, Packet(s, "Data", 0, hi))
  /\ UNCHANGED <<sock, requested, appRx, socksMail>>

\* decode_data takes all the bytes that have arrived.  The codec is READY as
\* soon as the target request is decoded, whether or not it was answered.
HandleData(s) ==
  /\ sock[s] = "READY"
  /\ \E hi \in (sent[s] + 1)..MaxUp :
       /\ sent' = [sent EXCEPT ![s] = hi]
       /\ serverMail' = Append(serverMail, Packet(s, "Data", sent[s], hi))
  /\ UNCHANGED <<sock, requested, appRx, socksMail>>

\* The application closes or resets its connection: the default finished of
\* StreamHandler stops the actor.  Neither the Server nor the proxy is told.
AppCloses(s) ==
  /\ sock[s] \in Running
  /\ End(s, "closed")
  /\ UNCHANGED <<requested, sent, appRx, serverMail>>

-----------------------------------------------------------------------------
(* Handler<ConnectorResponse>: what the Server passes on.                  *)

Received(s, types) ==
  /\ sock[s] \in Running
  /\ socksMail[s] # << >>
  /\ Head(socksMail[s]).type \in types
  /\ UNCHANGED <<requested, sent, serverMail>>

Pop(s) == socksMail' = [socksMail EXCEPT ![s] = Tail(@)]

\* Succeeded and Failed unwrap connect_request_record, which is None until
\* the target request was handled.
HandleReply(s) ==
  /\ Received(s, {"Succeeded", "Failed"})
  /\ IF s \in requested
     THEN /\ Reply(s, [Head(socksMail[s]) EXCEPT !.type =
                         IF @ = "Succeeded" THEN @ ELSE "ConnectionRefused"])
          /\ Pop(s)
          /\ UNCHANGED sock
     ELSE End(s, "panic_reply") /\ UNCHANGED appRx

\* Mutant of HandleConnectorData: data is counted and not written.
ConnectorDataUnwritten(s) ==
  /\ Received(s, {"Data"})
  /\ Pop(s)
  /\ UNCHANGED <<sock, appRx>>

HandleConnectorData(s) ==
  /\ Received(s, {"Data"})
  /\ Reply(s, Head(socksMail[s]))
  /\ Pop(s)
  /\ UNCHANGED sock

HandleAbort(s) ==
  /\ Received(s, {"Abort"})
  /\ End(s, "aborted")
  /\ UNCHANGED appRx

SocksNext(s) ==
  \/ HandleNegotiation(s)
  \/ HandleTargetRequest(s)
  \/ DecodePanics(s)
  \/ HandleData(s)
  \/ AppCloses(s)
  \/ HandleReply(s)
  \/ HandleConnectorData(s)
  \/ HandleAbort(s)
=============================================================================
