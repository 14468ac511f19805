---------------------------- MODULE SessionOrder ----------------------------
(***************************************************************************)
(* Why a session with a port of its own sees its packets in order: the     *)
(* inductive invariant behind Transcript, ChunksInOrder, ReplyIsTrue,      *)
(* AbortIsTrue and ResetIsForgotten, and behind the refinement of Relay.   *)
(*                                                                         *)
(* The packets of a session pass through queues that hold those of all     *)
(* sessions.  Two facts about them carry the argument.  Any two packets of *)
(* a session are in the right order, within a queue and across queues, and *)
(* that stays so when packets are lost.  And as long as data can reach its *)
(* receiver at all, each piece on its way begins where another one, or     *)
(* what was received, ends: nothing is missing in between.                 *)
(***************************************************************************)
EXTENDS JustProxy

OwnPort == {s \in Sessions : UniquePort(s)}

Elems(q) == {q[i] : i \in 1..Len(q)}

Data(S) == {m \in S : m.type = "Data"}

-----------------------------------------------------------------------------
(* Order.                                                                  *)

\* Packets that open a session in a direction, and packets that end it.
Success == {"Established", "Succeeded"}
Failure == {"Timeout", "ConnectionRefused", "Failed"}
Opening == {"RequestAddr"} \cup Success \cup Failure
Closing == {"Dead", "Abort"}

\* m may be on its way in front of n.
Before(m, n) ==
  m.src = n.src /\ m.src \in OwnPort =>
    /\ m.type \notin Closing
    /\ n.type \notin Opening
    /\ m.type = "Data" /\ n.type = "Data" => m.hi <= n.lo

Ordered(q) == \A i, j \in 1..Len(q) : i < j => Before(q[i], q[j])

InFront(S, T) == \A m \in S, n \in T : Before(m, n)

\* The packets of queue a and then, behind them, those of queue b.
InLine(a, b) == Ordered(a) /\ Ordered(b) /\ InFront(Elems(a), Elems(b))

\* The queues of each direction, from the receiver backwards.
UpOrder == InLine(wireUp, serverMail)

DownOrder ==
  /\ InLine(wireDown, proxyMail)
  /\ \A s \in OwnPort : /\ InLine(socksMail[s], wireDown)
                        /\ InLine(socksMail[s], proxyMail)

-----------------------------------------------------------------------------
(* What is on its way for a session, and what of it can still arrive: what *)
(* has not been written to the tunnel when it breaks cannot.               *)

Held(s, q) == {m \in Elems(q) : m.src = s}

WrittenUp(s)   == Held(s, wireUp)
WrittenDown(s) == Held(s, socksMail[s]) \cup Held(s, wireDown)

Up(s)   == WrittenUp(s) \cup Held(s, serverMail)
Down(s) == WrittenDown(s) \cup Held(s, proxyMail)

ComingUp(s)   == IF tunnel = "up" THEN Up(s) ELSE WrittenUp(s)
ComingDown(s) == IF tunnel = "up" THEN Down(s) ELSE WrittenDown(s)

\* Up to which byte the target was offered, and the application received.
Offered(s) == IF targetRx[s] = << >> THEN 0 ELSE targetRx[s][Len(targetRx[s])].end
Got(s)     == IF appRx[s] = << >> THEN 0 ELSE appRx[s][Len(appRx[s])].hi

\* The data of S continues what ends at from, without a gap, ...
Chained(S, from) == \A m \in Data(S) : m.lo = from \/ \E n \in Data(S) : n.hi = m.lo

\* ... and ends at to.
ReachesTo(S, from, to) == to = from \/ \E n \in Data(S) : n.hi = to

-----------------------------------------------------------------------------
(* The life of a session.                                                  *)

\* The server has not tried to connect for s yet.
Untried(s) ==
  \/ s \notin requested
  \/ s \in connecting
  \/ \E m \in Up(s) : m.type = "RequestAddr"

\* Until it does, nothing exists on the server's side of the session.
UntriedIsUntouched(s) ==
  Untried(s) =>
    /\ Down(s) = {}
    /\ target[s] = "none"
    /\ s \notin readers
    /\ emitted[s] = 0
    /\ targetRx[s] = << >>
    /\ connections[PortOf[s]] = None
    /\ Len(appRx[s]) <= 1

\* It asks once.
AsksOnce(s) ==
  /\ s \notin requested => Up(s) = {} /\ sent[s] = 0 /\ s \notin connecting
  /\ s \in connecting => \A m \in Up(s) : m.type # "RequestAddr"

\* The codec is ahead of the replies.
CodecState(s) ==
  /\ sock[s] \in {"none", "NEGOTIATION"} => appRx[s] = << >> /\ s \notin requested
  /\ sock[s] = "WORKING" => Len(appRx[s]) = 1 /\ s \notin requested
  /\ sock[s] = "READY" => s \in requested
  /\ sock[s] # "panic_reply"
  /\ s \in requested => Len(appRx[s]) >= 1
  /\ \A i \in 1..Len(appRx[s]) : appRx[s][i].type # "Data" => appRx[s][i].hi = 0

UpPackets(s) ==
  \A m \in Data(Up(s)) : m.lo < m.hi /\ m.hi <= sent[s]

\* Packets from the server tell the truth about the target.
DownPackets(s) ==
  \A m \in Down(s) :
    /\ m.type \in Success => target[s] # "none"
    /\ m.type \in Failure => target[s] = "none"
    /\ m.type \in Closing => target[s] = "reset"
    /\ m.type \in Opening => Len(appRx[s]) <= 1 /\ m.hi = 0
    /\ m.type = "Data" => target[s] # "none" /\ m.lo < m.hi /\ m.hi <= emitted[s]

Mailed(s, type) == \E m \in Held(s, proxyMail) : m.type = type

\* The connection of s is in the map after its ConnectionEstablished and
\* before its ConnectionDead.
Connected(s) ==
  /\ s \in readers => target[s] = "open"
  /\ connections[PortOf[s]] # None => target[s] # "none" /\ ~Mailed(s, "Established")
  /\ target[s] = "reset" /\ ~Mailed(s, "Dead") =>
       connections[PortOf[s]] = None /\ ~Mailed(s, "Established")

\* Data of s may still be written to its target.
Writable(s) ==
  Untried(s) \/ Mailed(s, "Established") \/ connections[PortOf[s]] # None

UpChain(s) ==
  Writable(s) =>
    /\ Chained(ComingUp(s), Offered(s))
    /\ tunnel = "up" => ReachesTo(ComingUp(s), Offered(s), sent[s])

\* The application knows of the success, or will before anything else.
Announced(s) ==
  \/ Len(appRx[s]) >= 2 /\ appRx[s][2].type = "Succeeded"
  \/ \E m \in ComingDown(s) : m.type \in Success

DownChain(s) ==
  sock[s] \in Running =>
    /\ Chained(ComingDown(s), Got(s))
    /\ tunnel = "up" => ReachesTo(ComingDown(s), Got(s), emitted[s])
    /\ tunnel = "up" /\ target[s] # "none" => Announced(s)
    /\ \A m \in ComingDown(s) : m.type \in Closing \cup {"Data"} => Announced(s)

\* What the application and the target have seen so far.
Seen(s) ==
  /\ \A i \in 1..Len(appRx[s]) :
       LET m == appRx[s][i] IN
       /\ i = 1 => m.type = "Negotiation"
       /\ i = 2 => \/ m.type = "Succeeded" /\ target[s] # "none"
                   \/ m.type = "ConnectionRefused" /\ target[s] = "none"
       /\ i > 2 => /\ m.type = "Data"
                   /\ appRx[s][2].type = "Succeeded"
                   /\ m.lo = appRx[s][i - 1].hi
  /\ \A i \in 1..Len(targetRx[s]) :
       targetRx[s][i].lo = (IF i = 1 THEN 0 ELSE targetRx[s][i - 1].end)
  /\ sock[s] = "aborted" => /\ target[s] = "reset"
                            /\ Len(appRx[s]) >= 2
                            /\ appRx[s][2].type = "Succeeded"

SessionOK(s) ==
  /\ UntriedIsUntouched(s)
  /\ AsksOnce(s)
  /\ CodecState(s)
  /\ UpPackets(s)
  /\ DownPackets(s)
  /\ Connected(s)
  /\ UpChain(s)
  /\ DownChain(s)
  /\ Seen(s)

\* An actor that has ended has let go of everything, and of the tunnel.
ProxyGone ==
  proxy # "running" =>
    /\ tunnel = "down"
    /\ proxyMail = << >>
    /\ connecting = {}
    /\ \A p \in Ports : connections[p] = None

\* The inductive invariant of the sessions with a port of their own
\* (socks.rs:82-152, client.rs:77-139, server.rs:46-189).
SessionInv ==
  /\ Inv
  /\ UpOrder
  /\ DownOrder
  /\ ProxyGone
  /\ \A s \in OwnPort : SessionOK(s)
=============================================================================
