------------------------------ MODULE Heartbeat ------------------------------
(***************************************************************************)
(* The heartbeat of the client's Server actor (component/client.rs) in     *)
(* time.  Every Interval seconds run_interval looks at the age of the last *)
(* echo: if it is at most Timeout seconds the actor sends itself a         *)
(* Heartbeat message, whose handler writes a heartbeat to the tunnel; if   *)
(* it is more, it only logs "heartbeat failed, disconnecting!".  The       *)
(* server echoes every heartbeat.                                          *)
(*                                                                         *)
(* Instants are kept as ages in seconds.  An age above Timeout is as good  *)
(* as any other, so ages stop growing there.  The event loop is punctual   *)
(* to the second: what the code measures is longer by less than one, which *)
(* is why MaxDelay + Interval has to be less than Timeout.                 *)
(*                                                                         *)
(* The network returns an echo within MaxDelay seconds unless it stalls: a *)
(* stalled network loses nothing, and returns what is overdue at once when *)
(* it is healed.                                                           *)
(***************************************************************************)
EXTENDS Naturals, Sequences

CONSTANTS
  Interval,  (* HEARTBEAT_INTERVAL                                         *)
  Timeout,   (* the age of hb from which on the heartbeat has failed       *)
  MaxDelay   (* round-trip time of a network that is not stalled: external *)

ASSUME TimeAssumption ==
  /\ Interval \in Nat \ {0}
  /\ Timeout \in Nat
  /\ MaxDelay \in Nat
  /\ MaxDelay + Interval < Timeout

VARIABLES
  server,   (* "running" or "stopped": the Server actor                    *)
  hb,       (* age of the instant hb: the last echo, or the start          *)
  last,     (* age of last_hb_instant: the last heartbeat written          *)
  left,     (* seconds until run_interval fires next                       *)
  mailed,   (* Heartbeat messages in the actor's mailbox                   *)
  flight,   (* ages of the heartbeats written and not echoed back, in order *)
  echoed,   (* how many of them the server has echoed                      *)
  stalled,  (* TRUE while the network returns nothing: external            *)
  rtt,      (* the round trip shown for the last echo, and the real one    *)
  logged    (* TRUE when the last check logged "disconnecting!"            *)

vars == <<server, hb, last, left, mailed, flight, echoed, stalled, rtt, logged>>

Ages == 0..(Timeout + 1)

Older(a) == IF a > Timeout THEN a ELSE a + 1

TypeOK ==
  /\ server \in {"running", "stopped"}
  /\ hb \in Ages
  /\ last \in Ages
  /\ left \in 0..Interval
  /\ mailed \in {0, 1}
  /\ flight \in Seq(Ages)
  /\ echoed \in 0..Len(flight)
  /\ stalled \in BOOLEAN
  /\ rtt \in [shown : Ages, real : Ages]
  /\ logged \in BOOLEAN

Init ==
  /\ server = "running"
  /\ hb = 0
  /\ last = 0
  /\ left = Interval
  /\ mailed = 0
  /\ flight = << >>
  /\ echoed = 0
  /\ stalled = FALSE
  /\ rtt = [shown |-> 0, real |-> 0]
  /\ logged = FALSE

-----------------------------------------------------------------------------
(* The client.                                                             *)

Expired == hb > Timeout

\* Mutant of IntervalTick: no check while a heartbeat is out.
TickWaits ==
  /\ server = "running"
  /\ left = 0
  /\ left' = Interval
  /\ logged' = (flight = << >> /\ Expired)
  /\ mailed' = IF flight # << >> \/ Expired THEN mailed ELSE mailed + 1
  /\ UNCHANGED <<server, hb, last, flight, echoed, stalled, rtt>>

\* The closure of run_interval.
IntervalTick ==
  /\ server = "running"
  /\ left = 0
  /\ left' = Interval
  /\ logged' = Expired
  /\ mailed' = IF Expired THEN mailed ELSE mailed + 1
  /\ UNCHANGED <<server, hb, last, flight, echoed, stalled, rtt>>

\* Mutant of HandleHeartbeat: last_hb_instant is not set.
HeartbeatUnrecorded ==
  /\ server = "running"
  /\ mailed > 0
  /\ mailed' = mailed - 1
  /\ flight' = Append(flight, 0)
  /\ UNCHANGED <<server, hb, last, left, echoed, stalled, rtt, logged>>

\* Handler<Heartbeat>
HandleHeartbeat ==
  /\ server = "running"
  /\ mailed > 0
  /\ mailed' = mailed - 1
  /\ last' = 0
  /\ flight' = Append(flight, 0)
  /\ UNCHANGED <<server, hb, left, echoed, stalled, rtt, logged>>

\* Mutant of HandleEcho: hb is not set.
EchoIgnored ==
  /\ server = "running"
  /\ echoed > 0
  /\ ~stalled
  /\ rtt' = [shown |-> last, real |-> Head(flight)]
  /\ flight' = Tail(flight)
  /\ echoed' = echoed - 1
  /\ UNCHANGED <<server, hb, last, left, mailed, stalled, logged>>

\* An echo arrives: StreamHandler<ProxyResponse> with uuid 0.  The round trip
\* it shows is counted from last_hb_instant, whichever heartbeat came back.
HandleEcho ==
  /\ server = "running"
  /\ echoed > 0
  /\ ~stalled
  /\ rtt' = [shown |-> last, real |-> Head(flight)]
  /\ hb' = 0
  /\ flight' = Tail(flight)
  /\ echoed' = echoed - 1
  /\ UNCHANGED <<server, last, left, mailed, stalled, logged>>

\* finished: the tunnel has ended.
Finished ==
  /\ server = "running"
  /\ server' = "stopped"
  /\ UNCHANGED <<hb, last, left, mailed, flight, echoed, stalled, rtt, logged>>

-----------------------------------------------------------------------------
(* The server, the network and time.                                       *)

EchoHeartbeat ==
  /\ server = "running"
  /\ echoed < Len(flight)
  /\ ~stalled
  /\ echoed' = echoed + 1
  /\ UNCHANGED <<server, hb, last, left, mailed, flight, stalled, rtt, logged>>

\* Overdue heartbeats are the oldest, at the head of the queue.
Overdue(limit) == flight # << >> /\ Head(flight) >= limit

Stall ==
  /\ server = "running"
  /\ ~stalled
  /\ ~Overdue(MaxDelay + 1)
  /\ stalled' = TRUE
  /\ UNCHANGED <<server, hb, last, left, mailed, flight, echoed, rtt, logged>>

Heal ==
  /\ server = "running"
  /\ stalled
  /\ stalled' = FALSE
  /\ UNCHANGED <<server, hb, last, left, mailed, flight, echoed, rtt, logged>>

\* A second passes, once everything that is due has happened.
Second ==
  /\ server = "running"
  /\ left > 0
  /\ mailed = 0
  /\ ~stalled => ~Overdue(MaxDelay)
  /\ left' = left - 1
  /\ hb' = Older(hb)
  /\ last' = Older(last)
  /\ flight' = [i \in 1..Len(flight) |-> Older(flight[i])]
  /\ UNCHANGED <<server, mailed, echoed, stalled, rtt, logged>>

Next ==
  \/ IntervalTick
  \/ HandleHeartbeat
  \/ HandleEcho
  \/ Finished
  \/ EchoHeartbeat
  \/ Stall
  \/ Heal
  \/ Second

Spec == Init /\ [][Next]_vars

\* Time passes, the event loops run what is ready, and a network that is not
\* stalled delivers.  Nobody promises that a stalled network heals.
Fairness ==
  /\ WF_vars(IntervalTick)
  /\ WF_vars(HandleHeartbeat)
  /\ WF_vars(HandleEcho)
  /\ WF_vars(EchoHeartbeat)
  /\ WF_vars(Second)

FairSpec == Spec /\ Fairness

-----------------------------------------------------------------------------
(* Properties.                                                             *)

\* client.rs:51-54: the heartbeat expires only while a heartbeat is out that
\* should long have come back.  It never expires because the client itself
\* stopped sending, and so an echo can always revive it.
ExpiryIsReal == Expired => flight # << >> /\ Head(flight) > MaxDelay

\* client.rs:94-96: the round trip shown is never more than the real one,
\* although it is counted from a heartbeat that may be younger than the one
\* that came back.
RttNeverOverstated == rtt.shown <= rtt.real

\* client.rs:52: a network that stalls for good is noticed.
StallIsNoticed == stalled ~> (logged \/ ~stalled \/ server = "stopped")

\* client.rs:67-69, 95: after an expiry the heartbeat comes back to life when
\* the network does: the checks stop failing.
HeartbeatRevives == (logged /\ ~stalled) ~> (~logged \/ stalled \/ server = "stopped")

-----------------------------------------------------------------------------
(* The inductive invariant behind ExpiryIsReal and RttNeverOverstated:     *)
(* while a heartbeat is out, the last echo is at most one interval older   *)
(* than it; while none is, the last echo is younger than the last tick, or *)
(* the next tick is due.                                                   *)
EchoAge ==
  /\ flight # << >> => hb <= Head(flight) + Interval
  /\ flight = << >> => hb <= Interval
  /\ flight = << >> /\ mailed = 0 => hb + left <= Interval

MailFollowsTick == mailed = 1 => left = Interval

\* No heartbeat that is out is younger than the last one written.
LastIsYoungest == \A i \in 1..Len(flight) : last <= flight[i]

HeartbeatInv == TypeOK /\ EchoAge /\ MailFollowsTick /\ LastIsYoungest
=============================================================================
