--------------------------- MODULE HeartbeatProofs ---------------------------
(***************************************************************************)
(* Proof that the heartbeat expires only when a heartbeat is overdue, and  *)
(* that the round trip it shows is never too long, for every interval,     *)
(* timeout and delay with MaxDelay + Interval < Timeout.                   *)
(***************************************************************************)
EXTENDS Heartbeat, TLAPS

\* An age that grows by a second stays an age, and keeps its distances.
LEMMA OlderAge ==
  ASSUME NEW a \in Ages
  PROVE  /\ Older(a) \in Ages
         /\ \A b \in Ages : b <= a + Interval => Older(b) <= Older(a) + Interval
BY TimeAssumption DEF Ages, Older

\* A second that makes one age older and another time shorter.
LEMMA SecondPasses ==
  ASSUME NEW a \in Nat, NEW b \in Nat, a + b <= Interval,
         NEW c \in Nat, c <= a + 1, NEW d \in Nat, d = b - 1
  PROVE  c + d <= Interval /\ c <= Interval
BY TimeAssumption

\* The part of the invariant about the last echo.
EchoInv == TypeOK /\ EchoAge /\ MailFollowsTick

\* It holds initially.
LEMMA EchoInit == Init => EchoInv
<1> SUFFICES ASSUME Init PROVE EchoInv
  OBVIOUS
<1>1. 0 \in Ages /\ << >> \in Seq(Ages) /\ Len(<< >>) = 0
  BY TimeAssumption DEF Ages
<1>2. rtt \in [shown : Ages, real : Ages]
  BY <1>1 DEF Init
<1>3. /\ hb \in Ages /\ last \in Ages /\ flight \in Seq(Ages)
      /\ left \in 0..Interval
      /\ mailed \in {0, 1}
      /\ echoed \in 0..Len(flight)
  BY TimeAssumption, <1>1 DEF Init
<1>4. stalled \in BOOLEAN /\ logged \in BOOLEAN
  BY DEF Init
<1>5. TypeOK
  BY <1>2, <1>3, <1>4 DEF Init, TypeOK
<1>6. EchoAge /\ MailFollowsTick
  BY TimeAssumption DEF Init, EchoAge, MailFollowsTick
<1>7. QED
  BY <1>5, <1>6 DEF EchoInv

\* Every step preserves it.
LEMMA EchoNext == EchoInv /\ [Next]_vars => EchoInv'
<1> SUFFICES ASSUME EchoInv, [Next]_vars PROVE EchoInv'
  OBVIOUS
<1> USE TimeAssumption DEF EchoInv, TypeOK, EchoAge, MailFollowsTick
<1>1. CASE IntervalTick
  <2>1. flight = << >> => hb <= Interval /\ ~Expired
    BY <1>1 DEF IntervalTick, Expired, Ages
  <2>2. mailed = 0
    BY <1>1 DEF IntervalTick
  <2>3. QED
    BY <1>1, <2>1, <2>2 DEF IntervalTick, Expired, Ages
<1>2. CASE HandleHeartbeat
  <2>1. mailed = 1 /\ mailed' = 0
    BY <1>2 DEF HandleHeartbeat
  <2>2. /\ flight' = Append(flight, 0)
        /\ flight' \in Seq(Ages)
        /\ flight' # << >>
        /\ Len(flight') = Len(flight) + 1
        /\ flight = << >> => Head(flight') = 0
        /\ flight # << >> => Head(flight') = Head(flight)
    <3>1. 0 \in Ages /\ flight \in Seq(Ages)
      BY DEF Ages
    <3>2. QED
      BY <1>2, <3>1 DEF HandleHeartbeat
  <2>3. QED
    BY <1>2, <2>1, <2>2 DEF HandleHeartbeat, Ages
<1>3. CASE HandleEcho
  <2>1. /\ flight # << >>
        /\ flight' \in Seq(Ages)
        /\ Len(flight') = Len(flight) - 1
        /\ Head(flight) \in Ages
        /\ flight' # << >> => Head(flight') \in Ages
    BY <1>3 DEF HandleEcho
  <2>2. rtt' \in [shown : Ages, real : Ages]
    BY <1>3, <2>1 DEF HandleEcho
  <2>3. hb' \in Ages /\ echoed' \in 0..Len(flight')
    BY <1>3, <2>1 DEF HandleEcho, Ages
  <2>4. EchoAge'
    <3>1. hb' = 0 /\ left' = left /\ left <= Interval /\ left \in Nat
      BY <1>3 DEF HandleEcho
    <3>2. flight' # << >> => Head(flight') \in Nat
      BY <2>1 DEF Ages
    <3>3. QED
      BY <3>1, <3>2
  <2>5. QED
    BY <1>3, <2>1, <2>2, <2>3, <2>4 DEF HandleEcho
<1>4. CASE Finished
  BY <1>4 DEF Finished
<1>5. CASE EchoHeartbeat
  BY <1>5 DEF EchoHeartbeat
<1>6. CASE Stall
  BY <1>6 DEF Stall
<1>7. CASE Heal
  BY <1>7 DEF Heal
<1>8. CASE Second
  <2>1. /\ flight' = [i \in 1..Len(flight) |-> Older(flight[i])]
        /\ mailed = 0 /\ mailed' = 0
        /\ left' = left - 1 /\ left > 0
        /\ hb' = Older(hb) /\ last' = Older(last)
        /\ UNCHANGED <<server, mailed, echoed, stalled, rtt, logged>>
    BY <1>8 DEF Second
  <2>2. hb' \in Ages /\ last' \in Ages
    BY <2>1, OlderAge
  <2>3. /\ flight' \in Seq(Ages)
        /\ Len(flight') = Len(flight)
        /\ flight' # << >> <=> flight # << >>
        /\ flight # << >> => Head(flight) \in Ages /\ Head(flight') = Older(Head(flight))
    BY <2>1, OlderAge
  <2>4. CASE flight # << >>
    <3>1. hb' <= Head(flight') + Interval
      BY <2>1, <2>3, <2>4, OlderAge
    <3>2. QED
      BY <2>1, <2>2, <2>3, <2>4, <3>1
  <2>5. CASE flight = << >>
    <3>1. hb + left <= Interval /\ hb \in Nat /\ left \in Nat
      BY <2>1, <2>5 DEF Ages
    <3>2. hb' \in Nat /\ hb' <= hb + 1 /\ left' \in Nat /\ left' = left - 1
      BY <2>1, <3>1 DEF Older
    <3>3. EchoAge'
      <4>1. flight' = << >>
        BY <2>3, <2>5
      <4>2. hb' + left' <= Interval /\ hb' <= Interval
        BY <3>1, <3>2, SecondPasses
      <4>3. QED
        BY <4>1, <4>2
    <3>4. left' \in 0..Interval /\ echoed' \in 0..Len(flight')
      BY <2>1, <2>3
    <3>5. QED
      BY <2>1, <2>2, <2>3, <3>3, <3>4
  <2>6. QED
    BY <2>4, <2>5
<1>9. CASE UNCHANGED vars
  BY <1>9 DEF vars
<1>10. QED
  BY <1>1, <1>2, <1>3, <1>4, <1>5, <1>6, <1>7, <1>8, <1>9 DEF Next

\* A second later, the older of two ages is still the older one.
LEMMA OlderMonotone ==
  ASSUME NEW a \in Ages, NEW b \in Ages, a <= b
  PROVE  Older(a) <= Older(b)
BY TimeAssumption DEF Ages, Older

\* Heartbeats are written in order: a new one is the youngest, and all age
\* alike.
LEMMA YoungestNext ==
  ASSUME HeartbeatInv, [Next]_vars
  PROVE  LastIsYoungest'
<1>1. /\ flight \in Seq(Ages) /\ last \in Ages /\ Len(flight) \in Nat
      /\ \A i \in 1..Len(flight) : last <= flight[i] /\ flight[i] \in Ages
  BY DEF HeartbeatInv, TypeOK, LastIsYoungest
<1>2. CASE HandleHeartbeat
  <2>1. last' = 0 /\ flight' = Append(flight, 0)
    BY <1>2 DEF HandleHeartbeat
  <2>2. 0 \in Ages
    BY TimeAssumption DEF Ages
  <2>3. flight' \in Seq(Ages)
    BY <1>1, <2>1, <2>2
  <2>4. \A i \in 1..Len(flight') : flight'[i] \in Ages
    BY <2>3
  <2>5. QED
    BY <2>1, <2>4 DEF LastIsYoungest, Ages
<1>3. CASE HandleEcho
  <2>1. flight # << >> /\ last' = last /\ flight' = Tail(flight)
    BY <1>3 DEF HandleEcho, HeartbeatInv, TypeOK
  <2>2. ASSUME NEW i \in 1..Len(flight')
        PROVE  last <= flight'[i]
    <3>1. flight'[i] = flight[i + 1] /\ i + 1 \in 1..Len(flight)
      BY <1>1, <2>1, <2>2
    <3>2. QED
      BY <1>1, <3>1
  <2>3. QED
    BY <2>1, <2>2 DEF LastIsYoungest
<1>4. CASE Second
  <2>1. /\ last' = Older(last)
        /\ flight' = [i \in 1..Len(flight) |-> Older(flight[i])]
    BY <1>4 DEF Second
  <2>2. Len(flight') = Len(flight)
    BY <1>1, <2>1
  <2>3. ASSUME NEW i \in 1..Len(flight)
        PROVE  Older(last) <= flight'[i]
    BY <1>1, <2>1, <2>3, OlderMonotone
  <2>4. QED
    BY <2>1, <2>2, <2>3 DEF LastIsYoungest
<1>5. CASE IntervalTick \/ Finished \/ EchoHeartbeat \/ Stall \/ Heal \/ UNCHANGED vars
  <2>1. UNCHANGED <<last, flight>>
    BY <1>5 DEF IntervalTick, Finished, EchoHeartbeat, Stall, Heal, vars
  <2>2. QED
    BY <1>1, <2>1 DEF LastIsYoungest
<1>6. QED
  BY <1>2, <1>3, <1>4, <1>5 DEF Next

\* The initial state satisfies the invariant.
LEMMA HeartbeatInit == Init => HeartbeatInv
<1>1. Init => LastIsYoungest
  BY DEF Init, LastIsYoungest
<1>2. QED
  BY <1>1, EchoInit DEF EchoInv, HeartbeatInv

\* Every step preserves the invariant.
LEMMA HeartbeatNext == HeartbeatInv /\ [Next]_vars => HeartbeatInv'
<1> SUFFICES ASSUME HeartbeatInv, [Next]_vars PROVE HeartbeatInv'
  OBVIOUS
<1>1. EchoInv'
  BY EchoNext DEF EchoInv, HeartbeatInv
<1>2. LastIsYoungest'
  BY YoungestNext
<1>3. QED
  BY <1>1, <1>2 DEF EchoInv, HeartbeatInv

\* While a heartbeat is out, the last echo is at most one interval older than
\* it (client.rs:46-71, 93-97, 141-152), whatever the network does.
THEOREM HeartbeatInvariance == Spec => []HeartbeatInv
BY HeartbeatInit, HeartbeatNext, PTL DEF Spec

\* client.rs:51-54: no expiry without an overdue heartbeat, and none that the
\* client brings on itself by not sending.
THEOREM ExpiryTheorem == Spec => []ExpiryIsReal
<1>1. HeartbeatInv => ExpiryIsReal
  BY TimeAssumption
  DEF HeartbeatInv, TypeOK, EchoAge, ExpiryIsReal, Expired, Ages
<1>2. QED
  BY <1>1, HeartbeatInvariance, PTL

\* client.rs:94-96: the round trip shown is never longer than the real one, for
\* the last heartbeat written is the youngest of those that are out.
THEOREM RttTheorem == Spec => []RttNeverOverstated
<1>1. Init => RttNeverOverstated
  BY DEF Init, RttNeverOverstated
<1>2. HeartbeatInv /\ RttNeverOverstated /\ [Next]_vars => RttNeverOverstated'
  <2> SUFFICES ASSUME HeartbeatInv, RttNeverOverstated, [Next]_vars
               PROVE  RttNeverOverstated'
    OBVIOUS
  <2>1. CASE HandleEcho
    <3>1. flight \in Seq(Ages) /\ Len(flight) \in Nat /\ flight # << >>
      BY <2>1 DEF HandleEcho, HeartbeatInv, TypeOK
    <3>2. 1 \in 1..Len(flight) /\ Head(flight) = flight[1]
      BY <3>1
    <3>3. last <= Head(flight)
      BY <3>2 DEF HeartbeatInv, LastIsYoungest
    <3>4. rtt'.shown = last /\ rtt'.real = Head(flight)
      BY <2>1 DEF HandleEcho
    <3>5. QED
      BY <3>3, <3>4 DEF RttNeverOverstated
  <2>2. CASE ~HandleEcho
    <3>1. rtt' = rtt
      BY <2>2 DEF Next, IntervalTick, HandleHeartbeat, Finished, EchoHeartbeat, Stall, Heal, Second, vars
    <3>2. QED
      BY <3>1 DEF RttNeverOverstated
  <2>3. QED
    BY <2>1, <2>2
<1>3. QED
  BY <1>1, <1>2, HeartbeatInvariance, PTL DEF Spec
=============================================================================
