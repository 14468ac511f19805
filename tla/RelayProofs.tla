----------------------------- MODULE RelayProofs -----------------------------
(***************************************************************************)
(* Proof that the proxy implements Relay for the sessions with a port of   *)
(* their own: each step of JustProxy is a step of Relay under the mapping  *)
(* of RelayRefinement, or changes nothing that an application or a target  *)
(* sees.  SessionInv supplies what the steps need: that replies are true   *)
(* and that each piece of data continues the one before.                   *)
(***************************************************************************)
EXTENDS RelayRefinement, SessionProofs, SequenceTheorems

\* The variables of Relay, as RelayRefinement maps them.
Asked    == requested \cap OwnPort
Answers  == [s \in OwnPort |-> AnswerIn(appRx[s])]
Targets  == [s \in OwnPort |-> target[s]]
Sent     == [s \in OwnPort |-> sent[s]]
Offers   == [s \in OwnPort |-> targetRx[s]]
Emitted  == [s \in OwnPort |-> emitted[s]]
Receipts == [s \in OwnPort |-> DataIn(appRx[s])]
Endings  == [s \in OwnPort |-> EndOf(sock[s])]

\* A session that a step does not end, nor revive.
LEMMA EndKept ==
  ASSUME NEW a, NEW b, a \in {"none"} \cup Running, b \in {"none"} \cup Running
  PROVE  EndOf(a) = "no" /\ EndOf(b) = EndOf(a)
BY DEF EndOf, Running

\* What of the mapped state stays as it is.
LEMMA MappedSame ==
  /\ requested' = requested => UNCHANGED Asked
  /\ appRx' = appRx => UNCHANGED <<Answers, Receipts>>
  /\ target' = target => UNCHANGED Targets
  /\ sent' = sent => UNCHANGED Sent
  /\ targetRx' = targetRx => UNCHANGED Offers
  /\ emitted' = emitted => UNCHANGED Emitted
  /\ sock' = sock => UNCHANGED Endings
BY DEF Asked, Answers, Targets, Sent, Offers, Emitted, Receipts, Endings

\* A step that changes none of the variables Relay maps.
LEMMA InvisibleStep ==
  ASSUME UNCHANGED <<requested, appRx, target, sent, targetRx, emitted, sock>>
  PROVE  UNCHANGED R!vars
BY MappedSame DEF R!vars, Asked, Answers, Targets, Sent, Offers, Emitted, Receipts, Endings

\* Initially no session has done anything.
LEMMA RelayInit == Init => R!Init
<1> SUFFICES ASSUME Init PROVE R!Init
  OBVIOUS
<1> USE DEF Init, ChannelsInit, SocksInit, ServerInit, ProxyInit
<1>1. \A s \in OwnPort : s \in Sessions
  BY DEF OwnPort
<1>2. /\ AnswerIn(<< >>) = "none" /\ DataIn(<< >>) = << >> /\ EndOf("none") = "no"
  BY DEF AnswerIn, DataIn, EndOf
<1>3. QED
  BY <1>1, <1>2 DEF R!Init
\* The state and the mapped state of a session with a port of its own.
LEMMA MappedFacts ==
  ASSUME SessionInv
  PROVE  /\ OwnPort \subseteq Sessions
         /\ sock \in [Sessions -> {"none"} \cup Running \cup Ended]
         /\ sent \in [Sessions -> Nat]
         /\ appRx \in [Sessions -> Seq(Packets(AppTypes))]
         /\ target \in [Sessions -> {"none", "open", "eof", "reset"}]
         /\ emitted \in [Sessions -> Nat]
         /\ targetRx \in [Sessions -> Seq(Writes)]
         /\ \A s \in OwnPort : /\ SessionOK(s)
                               /\ Answers[s] = AnswerIn(appRx[s])
                               /\ Targets[s] = target[s]
                               /\ Sent[s] = sent[s]
                               /\ Offers[s] = targetRx[s]
                               /\ Emitted[s] = emitted[s]
                               /\ Receipts[s] = DataIn(appRx[s])
                               /\ Endings[s] = EndOf(sock[s])
BY DEF SessionInv, Inv, TypeOK, SocksTypeOK, ProxyTypeOK, OwnPort, Answers, Targets, Sent, Offers,
       Emitted, Receipts, Endings

-----------------------------------------------------------------------------
(* The steps of a SocksClient.                                             *)

\* What happens to one session that shares its port happens in no session of
\* Relay.
LEMMA SharedStep ==
  ASSUME SessionInv, NEW t \in Sessions, t \notin OwnPort, SocksNext(t), SocksFrame
  PROVE  UNCHANGED R!vars
<1>1. UNCHANGED <<target, emitted, targetRx>>
  BY DEF SocksFrame, targetVars
<1>2. \A s \in OwnPort : /\ s \in requested' <=> s \in requested
                         /\ sock'[s] = sock[s]
                         /\ sent'[s] = sent[s]
                         /\ appRx'[s] = appRx[s]
  BY MappedFacts
  DEF SocksNext, HandleNegotiation, HandleTargetRequest, HandleData, DecodePanics, AppCloses,
      HandleAbort, HandleReply, HandleConnectorData, Received, End, Become, Reply
<1>3. UNCHANGED <<Asked, Answers, Sent, Receipts, Endings>>
  BY <1>2 DEF Asked, Answers, Sent, Receipts, Endings
<1>4. UNCHANGED <<Targets, Offers, Emitted>>
  BY <1>1, MappedSame
<1>5. QED
  BY <1>3, <1>4 DEF R!vars, Asked, Answers, Targets, Sent, Offers, Emitted, Receipts, Endings

\* The method selection is invisible.
LEMMA NegotiationStep ==
  ASSUME SessionInv, NEW t \in OwnPort, HandleNegotiation(t), SocksFrame
  PROVE  UNCHANGED R!vars
<1>1. UNCHANGED <<requested, sent, target, emitted, targetRx>>
  BY DEF HandleNegotiation, SocksFrame, targetVars
<1>2. /\ sock[t] = "NEGOTIATION" /\ sock' = [sock EXCEPT ![t] = "WORKING"]
      /\ appRx' = [appRx EXCEPT ![t] = Append(appRx[t], Signal(t, "Negotiation"))]
  BY DEF HandleNegotiation, Become, Reply
<1>3. appRx[t] = << >>
  BY <1>2, MappedFacts DEF SessionOK, CodecState
<1>4. Len(appRx[t]) = 0 /\ Len(appRx'[t]) = 1
  BY <1>2, <1>3, MappedFacts
<1>5. /\ AnswerIn(appRx'[t]) = AnswerIn(appRx[t])
      /\ DataIn(appRx'[t]) = DataIn(appRx[t])
  BY <1>4 DEF AnswerIn, DataIn
<1>6. UNCHANGED <<Answers, Receipts>>
  BY <1>2, <1>5, MappedFacts DEF Answers, Receipts
<1>7. EndOf("NEGOTIATION") = EndOf("WORKING")
  BY EndKept DEF Running
<1>8. UNCHANGED Endings
  BY <1>2, <1>7, MappedFacts DEF Endings
<1>9. UNCHANGED <<Asked, Targets, Sent, Offers, Emitted>>
  BY <1>1, MappedSame
<1>10. QED
  BY <1>6, <1>8, <1>9 DEF R!vars, Asked, Answers, Targets, Sent, Offers, Emitted, Receipts, Endings

\* The target request is Ask.
LEMMA AskStep ==
  ASSUME SessionInv, NEW t \in OwnPort, HandleTargetRequest(t), SocksFrame
  PROVE  R!Ask(t)
<1>1. UNCHANGED <<appRx, sent, target, emitted, targetRx>>
  BY DEF HandleTargetRequest, SocksFrame, targetVars
<1>2. /\ sock[t] = "WORKING" /\ sock' = [sock EXCEPT ![t] = "READY"]
      /\ requested' = requested \cup {t}
  BY DEF HandleTargetRequest, Become
<1>3. EndOf("WORKING") = "no" /\ EndOf("READY") = "no"
  BY EndKept DEF Running
<1>4. UNCHANGED Endings /\ Endings[t] = "no"
  BY <1>2, <1>3, MappedFacts DEF Endings
<1>5. t \notin Asked /\ Asked' = Asked \cup {t}
  BY <1>2, MappedFacts DEF Asked, SessionOK, CodecState
<1>6. UNCHANGED <<Answers, Receipts, Targets, Sent, Offers, Emitted>>
  BY <1>1, MappedSame
<1>7. QED
  BY <1>4, <1>5, <1>6 DEF R!Ask, Asked, Answers, Targets, Sent, Offers, Emitted, Receipts, Endings

\* Data of the application is Send.
LEMMA SendStep ==
  ASSUME SessionInv, NEW t \in OwnPort, HandleData(t), SocksFrame
  PROVE  R!Send(t)
<1>1. UNCHANGED <<sock, requested, appRx, target, emitted, targetRx>>
  BY DEF HandleData, SocksFrame, targetVars
<1>2. sock[t] = "READY"
  BY DEF HandleData
<1>3. PICK hi \in (sent[t] + 1)..MaxUp : sent' = [sent EXCEPT ![t] = hi]
  BY DEF HandleData
<1>4. hi > sent[t] /\ sent[t] \in Nat
  BY <1>3, MappedFacts, BoundAssumption
<1>5. t \in Asked /\ Endings[t] = "no"
  <2>1. t \in requested
    BY <1>2, MappedFacts DEF SessionOK, CodecState
  <2>2. EndOf("READY") = "no"
    BY EndKept DEF Running
  <2>3. QED
    BY <1>2, <2>1, <2>2, MappedFacts DEF Asked
<1>6. Sent'[t] = hi /\ Sent' = [Sent EXCEPT ![t] = Sent'[t]] /\ Sent'[t] > Sent[t]
  BY <1>3, <1>4, MappedFacts DEF Sent
<1>7. UNCHANGED <<Asked, Answers, Receipts, Targets, Offers, Emitted, Endings>>
  BY <1>1, MappedSame
<1>8. QED
  BY <1>5, <1>6, <1>7
  DEF R!Send, Asked, Answers, Targets, Sent, Offers, Emitted, Receipts, Endings

\* The end of one session is Abort, if the proxy aborts it, or else Close.
LEMMA EndStep ==
  ASSUME SessionInv, SessionInv', NEW t \in OwnPort,
         DecodePanics(t) \/ AppCloses(t) \/ HandleAbort(t), SocksFrame
  PROVE  R!Abort(t) \/ R!Close({t})
<1>1. UNCHANGED <<requested, sent, appRx, target, emitted, targetRx>>
  BY DEF DecodePanics, AppCloses, HandleAbort, Received, SocksFrame, targetVars
<1>2. UNCHANGED <<Asked, Answers, Receipts, Targets, Sent, Offers, Emitted>>
  BY <1>1, MappedSame
<1>3. sock[t] \in Running
  BY DEF DecodePanics, AppCloses, HandleAbort, Received, Running
<1>4. Endings[t] = "no"
  BY <1>3, EndKept, MappedFacts
<1>5. CASE HandleAbort(t)
  <2>1. sock' = [sock EXCEPT ![t] = "aborted"]
    BY <1>5 DEF HandleAbort, End, Become
  <2>2. sock'[t] = "aborted"
    BY <2>1, MappedFacts
  <2>3. SessionOK(t)'
    BY DEF SessionInv
  <2>4. target'[t] = "reset" /\ Len(appRx'[t]) >= 2 /\ appRx'[t][2].type = "Succeeded"
    BY <2>2, <2>3 DEF SessionOK, Seen
  <2>5. Len(appRx[t]) \in Nat
    BY MappedFacts
  <2>6. target[t] = "reset" /\ AnswerIn(appRx[t]) = "Succeeded"
    BY <1>1, <2>4, <2>5 DEF AnswerIn
  <2>7. EndOf("aborted") = "aborted"
    BY DEF EndOf, Running
  <2>8. Endings' = [Endings EXCEPT ![t] = "aborted"]
    BY <2>1, <2>7, MappedFacts DEF Endings
  <2>9. Answers[t] = "Succeeded" /\ Targets[t] = "reset"
    BY <2>6, MappedFacts
  <2>10. R!Abort(t)
    BY <1>2, <1>4, <2>8, <2>9
    DEF R!Abort, Asked, Answers, Targets, Sent, Offers, Emitted, Receipts, Endings
  <2>11. QED
    BY <2>10
<1>6. CASE DecodePanics(t) \/ AppCloses(t)
  <2>1. PICK how \in {"panic_decode", "closed"} : sock' = [sock EXCEPT ![t] = how]
    BY <1>6 DEF DecodePanics, AppCloses, End, Become
  <2>2. EndOf(how) = "closed"
    BY DEF EndOf, Running
  <2>3. Endings' = [s \in OwnPort |-> IF s \in {t} THEN "closed" ELSE Endings[s]]
    BY <2>1, <2>2, MappedFacts DEF Endings
  <2>4. R!Close({t})
    BY <1>2, <1>4, <2>3
    DEF R!Close, Asked, Answers, Targets, Sent, Offers, Emitted, Receipts, Endings
  <2>5. QED
    BY <2>4
<1>7. QED
  BY <1>5, <1>6
\* The reply is Answer.
LEMMA AnswerStep ==
  ASSUME SessionInv, SessionInv', NEW t \in OwnPort, HandleReply(t), SocksFrame
  PROVE  R!Answer(t)
<1> DEFINE m == Head(socksMail[t])
           type == IF m.type = "Succeeded" THEN m.type ELSE "ConnectionRefused"
           n == [m EXCEPT !.type = type]
<1>1. t \in requested
  BY ReplyOK
<1>2. UNCHANGED <<sock, requested, sent, target, emitted, targetRx>>
  BY <1>1 DEF HandleReply, Received, SocksFrame, targetVars
<1>3. /\ sock[t] \in Running /\ socksMail[t] # << >> /\ m.type \in {"Succeeded", "Failed"}
      /\ appRx' = [appRx EXCEPT ![t] = Append(appRx[t], n)]
  BY <1>1 DEF HandleReply, Received, Reply
<1> HIDE DEF n, type
<1>4. m \in Down(t)
  BY <1>3, FirstMail
<1>5. Len(appRx[t]) <= 1 /\ Len(appRx[t]) >= 1 /\ Len(appRx[t]) \in Nat
  <2>1. m.type \in Opening
    BY <1>3 DEF Opening, Success, Failure
  <2>2. QED
    BY <1>1, <1>4, <2>1, MappedFacts DEF SessionOK, DownPackets, CodecState
<1> HIDE DEF m
<1>6. Len(appRx'[t]) = 2 /\ Len(appRx[t]) < 2
  BY <1>3, <1>5, MappedFacts
<1>7. Seen(t)'
  BY DEF SessionInv, SessionOK
<1>8. \/ appRx'[t][2].type = "Succeeded" /\ target[t] # "none"
      \/ appRx'[t][2].type = "ConnectionRefused" /\ target[t] = "none"
  <2>1. 2 \in 1..Len(appRx'[t])
    BY <1>6
  <2>2. QED
    BY <1>2, <1>7, <2>1 DEF Seen
<1>9. /\ AnswerIn(appRx[t]) = "none"
      /\ AnswerIn(appRx'[t]) = IF target[t] = "none" THEN "ConnectionRefused" ELSE "Succeeded"
      /\ DataIn(appRx'[t]) = DataIn(appRx[t])
  BY <1>5, <1>6, <1>8 DEF AnswerIn, DataIn
<1>10. Answers[t] = "none" /\ Targets[t] = target[t] /\ t \in Asked /\ Endings[t] = "no"
  BY <1>1, <1>3, <1>9, EndKept, MappedFacts DEF Asked
<1>11. Answers' = [Answers EXCEPT ![t] = AnswerIn(appRx'[t])]
  BY <1>3, MappedFacts DEF Answers
<1>12. UNCHANGED Receipts
  BY <1>3, <1>9, MappedFacts DEF Receipts
<1>13. Answers' = [Answers EXCEPT ![t] = IF Targets[t] = "none" THEN "ConnectionRefused" ELSE "Succeeded"]
  BY <1>9, <1>10, <1>11
<1>14. UNCHANGED <<Asked, Targets, Sent, Offers, Emitted, Endings>>
  BY <1>2, MappedSame
<1>15. QED
  BY <1>10, <1>12, <1>13, <1>14
  DEF R!Answer, Asked, Answers, Targets, Sent, Offers, Emitted, Receipts, Endings

\* The data among what an application was sent, as chunks of its target's stream.
Chunks == [src : Sessions \cup {None}, lo : Nat, hi : Nat]

Chunk(m) == [src |-> m.src, lo |-> m.lo, hi |-> m.hi]

\* They are what follows the method selection and the answer.
LEMMA DataInFacts ==
  ASSUME NEW rx \in Seq(Packets(AppTypes)), Len(rx) >= 2
  PROVE  /\ DataIn(rx) \in Seq(Chunks)
         /\ Len(DataIn(rx)) = Len(rx) - 2
         /\ \A i \in 1..(Len(rx) - 2) : DataIn(rx)[i] = Chunk(rx[i + 2])
<1>1. Len(rx) \in Nat /\ Len(rx) - 2 \in Nat
  OBVIOUS
<1>2. CASE Len(rx) < 3
  <2>1. DataIn(rx) = << >>
    BY <1>2 DEF DataIn
  <2>2. \A k \in Nat : k - 2 \in Nat /\ k < 3 => k - 2 = 0
    OBVIOUS
  <2>3. Len(rx) - 2 = 0
    BY <1>1, <1>2, <2>2, Zenon
  <2>4. << >> \in Seq(Chunks) /\ Len(<< >>) = 0 /\ 1..0 = {}
    OBVIOUS
  <2>5. QED
    BY <2>1, <2>3, <2>4, Zenon
<1>3. CASE ~(Len(rx) < 3)
  <2> DEFINE n == Len(rx) - 2
             f == [i \in 1..n |-> Chunk(rx[i + 2])]
  <2>1. DataIn(rx) = f
    BY <1>3 DEF DataIn, Chunk
  <2>2. ASSUME NEW i \in 1..n
        PROVE  f[i] = Chunk(rx[i + 2]) /\ f[i] \in Chunks
    <3>1. i + 2 \in 1..Len(rx)
      BY <1>1, <2>2
    <3>2. rx[i + 2] \in Packets(AppTypes)
      BY <3>1, AllInSeq
    <3>3. Chunk(rx[i + 2]) \in Chunks
      BY <3>2 DEF Packets, Chunk, Chunks
    <3>4. QED
      BY <2>2, <3>3
  <2>3. n \in Nat /\ DOMAIN f = 1..n /\ f \in [1..n -> Chunks]
    BY <1>1, <2>2
  <2> HIDE DEF n, f
  <2>4. f \in Seq(Chunks) /\ Len(f) = n
    BY <2>3
  <2>5. QED
    BY <2>1, <2>2, <2>4 DEF n
<1>4. QED
  BY <1>2, <1>3

\* Data after an answer is the next chunk.
LEMMA NextChunk ==
  ASSUME NEW rx \in Seq(Packets(AppTypes)), Len(rx) >= 2, rx[2].type # "Data",
         \A i \in 1..Len(rx) : rx[i].type # "Data" => rx[i].hi = 0,
         NEW m \in Packets(AppTypes)
  PROVE  /\ DataIn(Append(rx, m)) = Append(DataIn(rx), Chunk(m))
         /\ AnswerIn(Append(rx, m)) = AnswerIn(rx)
         /\ rx[Len(rx)].hi = IF DataIn(rx) = << >> THEN 0 ELSE DataIn(rx)[Len(DataIn(rx))].hi
<1> DEFINE new == Append(rx, m)
           old == DataIn(rx)
<1>1. /\ new \in Seq(Packets(AppTypes))
      /\ Len(rx) \in Nat /\ Len(new) = Len(rx) + 1 /\ new[Len(rx) + 1] = m
      /\ \A i \in 1..Len(rx) : new[i] = rx[i]
  BY AppendProperties
<1> HIDE DEF new
<1>2. /\ old \in Seq(Chunks) /\ Len(old) = Len(rx) - 2
      /\ \A i \in 1..(Len(rx) - 2) : old[i] = Chunk(rx[i + 2])
  BY DataInFacts, Zenon
<1>3. /\ DataIn(new) \in Seq(Chunks) /\ Len(DataIn(new)) = Len(rx) - 1
      /\ \A i \in 1..(Len(rx) - 1) : DataIn(new)[i] = Chunk(new[i + 2])
  <2>1. Len(new) >= 2 /\ Len(new) - 2 = Len(rx) - 1
    BY <1>1
  <2>2. QED
    BY <1>1, <2>1, DataInFacts, Zenon
<1>4. Chunk(m) \in Chunks
  BY DEF Packets, Chunk, Chunks
<1> HIDE DEF old
<1>5. /\ Append(old, Chunk(m)) \in Seq(Chunks)
      /\ Len(Append(old, Chunk(m))) = Len(rx) - 1
      /\ \A i \in 1..(Len(rx) - 2) : Append(old, Chunk(m))[i] = old[i]
      /\ Append(old, Chunk(m))[Len(rx) - 1] = Chunk(m)
  <2>1. Len(old) + 1 = Len(rx) - 1
    BY <1>1, <1>2
  <2>2. QED
    BY <1>2, <1>4, <2>1, AppendProperties
<1>6. ASSUME NEW i \in 1..(Len(rx) - 1)
      PROVE  DataIn(new)[i] = Append(old, Chunk(m))[i]
  <2>1. CASE i = Len(rx) - 1
    <3>1. i + 2 = Len(rx) + 1
      BY <1>1, <2>1
    <3>2. QED
      BY <1>1, <1>3, <1>5, <2>1, <3>1
  <2>2. CASE i # Len(rx) - 1
    <3>1. i \in 1..(Len(rx) - 2) /\ i + 2 \in 1..Len(rx)
      BY <1>1, <1>6, <2>2
    <3>2. QED
      BY <1>1, <1>2, <1>3, <1>5, <3>1
  <2>3. QED
    BY <2>1, <2>2
<1>7. DataIn(new) = Append(old, Chunk(m))
  BY <1>3, <1>5, <1>6, SeqEqual
<1>8. AnswerIn(new) = AnswerIn(rx)
  BY <1>1 DEF AnswerIn
<1>9. rx[Len(rx)].hi = IF old = << >> THEN 0 ELSE old[Len(old)].hi
  <2>1. CASE Len(rx) = 2
    <3>1. old = << >>
      BY <1>2, <2>1
    <3>2. rx[Len(rx)].hi = 0
      BY <2>1
    <3>3. QED
      BY <3>1, <3>2
  <2>2. CASE Len(rx) # 2
    <3>1. \A k \in Nat : k >= 2 /\ k # 2 => k - 2 \in 1..(k - 2) /\ (k - 2) + 2 = k
      OBVIOUS
    <3>2. Len(rx) - 2 \in 1..(Len(rx) - 2) /\ (Len(rx) - 2) + 2 = Len(rx)
      BY <1>1, <2>2, <3>1, Zenon
    <3>3. old # << >> /\ Len(old) = Len(rx) - 2
      BY <1>2, <3>2
    <3>4. old[Len(old)] = Chunk(rx[Len(rx)])
      BY <1>2, <3>2, <3>3
    <3>5. QED
      BY <3>3, <3>4 DEF Chunk
  <2>3. QED
    BY <2>1, <2>2
<1>10. QED
  BY <1>7, <1>8, <1>9 DEF new, old
\* Data for the application is Receive.
LEMMA ReceiveStep ==
  ASSUME SessionInv, SessionInv', NEW t \in OwnPort, HandleConnectorData(t), SocksFrame
  PROVE  R!Receive(t)
<1> DEFINE m == Head(socksMail[t])
           rx == appRx[t]
<1>1. UNCHANGED <<sock, requested, sent, target, emitted, targetRx>>
  BY DEF HandleConnectorData, Received, SocksFrame, targetVars
<1>2. /\ sock[t] \in Running /\ socksMail[t] # << >> /\ m.type = "Data"
      /\ appRx' = [appRx EXCEPT ![t] = Append(rx, m)]
  BY DEF HandleConnectorData, Received, Reply
<1>3. /\ m.src = t /\ m \in Packets(AppTypes)
      /\ m.lo = Got(t) /\ m.hi > Got(t) /\ m.hi <= emitted[t] /\ m.hi \in Nat
      /\ emitted[t] \in Nat /\ Got(t) \in Nat
  <2>1. m \in Packets(ConnectorTypes)
    BY <1>2, OwnMail, PopInSeq DEF SessionInv
  <2>2. m \in Packets(AppTypes) /\ m.hi \in Nat
    BY <1>2, <2>1 DEF Packets, AppTypes
  <2>3. QED
    BY <1>2, <2>2, FirstMail, ConnectorDataOK, SessionFacts
<1> HIDE DEF m
<1>4. /\ rx \in Seq(Packets(AppTypes)) /\ appRx'[t] = Append(rx, m) /\ Len(rx) \in Nat
      /\ Len(appRx'[t]) = Len(rx) + 1 /\ appRx'[t][Len(rx) + 1] = m
      /\ \A i \in 1..Len(rx) : appRx'[t][i] = rx[i]
  BY <1>2, <1>3, MappedFacts
<1>5. Len(rx) >= 2 /\ rx[2].type = "Succeeded"
  <2>1. Seen(t)'
    BY DEF SessionInv, SessionOK
  <2>2. Len(rx) + 1 \in 1..Len(appRx'[t])
    BY <1>4
  <2>3. Len(rx) + 1 # 1 /\ Len(rx) + 1 # 2
    BY <1>2, <1>4, <2>1, <2>2 DEF Seen
  <2>4. Len(rx) + 1 > 2 /\ 2 \in 1..Len(rx)
    BY <1>4, <2>3
  <2>5. appRx'[t][2].type = "Succeeded"
    BY <2>1, <2>2, <2>4 DEF Seen
  <2>6. QED
    BY <1>4, <2>4, <2>5
<1>6. /\ DataIn(appRx'[t]) = Append(DataIn(rx), Chunk(m))
      /\ AnswerIn(appRx'[t]) = AnswerIn(rx)
      /\ rx[Len(rx)].hi = IF DataIn(rx) = << >> THEN 0 ELSE DataIn(rx)[Len(DataIn(rx))].hi
      /\ AnswerIn(rx) = "Succeeded"
  <2>1. \A i \in 1..Len(rx) : rx[i].type # "Data" => rx[i].hi = 0
    BY MappedFacts DEF SessionOK, CodecState
  <2>2. AnswerIn(rx) = "Succeeded"
    BY <1>4, <1>5 DEF AnswerIn
  <2>3. QED
    BY <1>3, <1>4, <1>5, <2>1, <2>2, NextChunk
<1>7. Got(t) = rx[Len(rx)].hi
  BY <1>4, <1>5 DEF Got
<1> DEFINE upTo == IF Receipts[t] = << >> THEN 0 ELSE Receipts[t][Len(Receipts[t])].hi
<1>8. upTo = Got(t)
  BY <1>6, <1>7, MappedFacts
<1>9. Answers[t] = "Succeeded" /\ Endings[t] = "no" /\ Emitted[t] = emitted[t]
  BY <1>2, <1>6, EndKept, MappedFacts
<1>10. UNCHANGED Answers
  BY <1>2, <1>6, MappedFacts DEF Answers
<1>11. Receipts' = [Receipts EXCEPT ![t] = Append(Receipts[t], Chunk(m))]
  BY <1>2, <1>6, MappedFacts DEF Receipts
<1>12. Chunk(m) = [src |-> t, lo |-> upTo, hi |-> m.hi]
  BY <1>3, <1>8 DEF Chunk
<1>13. m.hi \in (upTo + 1)..Emitted[t]
  BY <1>3, <1>8, <1>9
<1>14. \E hi \in (upTo + 1)..Emitted[t] :
         Receipts' = [Receipts EXCEPT ![t] = Append(Receipts[t], [src |-> t, lo |-> upTo, hi |-> hi])]
  BY <1>11, <1>12, <1>13
<1>15. UNCHANGED <<Asked, Targets, Sent, Offers, Emitted, Endings>>
  BY <1>1, MappedSame
<1>16. R!ReceivedUpTo(t) = upTo
  BY DEF R!ReceivedUpTo, Receipts
<1> HIDE DEF upTo
<1>17. QED
  BY <1>9, <1>10, <1>14, <1>15, <1>16
  DEF R!Receive, Asked, Answers, Targets, Sent, Offers, Emitted, Receipts, Endings

\* Every step of a SocksClient is a step of Relay, or invisible.
LEMMA SocksRelay ==
  ASSUME SessionInv, SessionInv', NEW t \in Sessions, SocksNext(t), SocksFrame
  PROVE  R!Next \/ UNCHANGED R!vars
<1>1. CASE t \notin OwnPort
  BY <1>1, SharedStep
<1>2. CASE t \in OwnPort
  <2>1. \/ UNCHANGED R!vars
        \/ R!Ask(t) \/ R!Send(t) \/ R!Answer(t) \/ R!Receive(t) \/ R!Abort(t) \/ R!Close({t})
    BY <1>2, NegotiationStep, AskStep, SendStep, AnswerStep, ReceiveStep, EndStep DEF SocksNext
  <2>2. {t} \in SUBSET OwnPort
    BY <1>2
  <2>3. QED
    BY <1>2, <2>1, <2>2 DEF R!Next
<1>3. QED
  BY <1>1, <1>2

-----------------------------------------------------------------------------
(* The steps of the client's Server.                                       *)

\* The client process ends: Close for all sessions it served at once.
LEMMA ProcessDiesStep ==
  ASSUME SessionInv, NEW how, ProcessDies(how), ServerFrame, UNCHANGED <<requested, sent, appRx>>
  PROVE  R!Next \/ UNCHANGED R!vars
<1> DEFINE S == {s \in OwnPort : sock[s] \in Running}
<1>1. UNCHANGED <<target, emitted, targetRx>>
  BY DEF ServerFrame, targetVars
<1>2. UNCHANGED <<Asked, Answers, Receipts, Targets, Sent, Offers, Emitted>>
  BY <1>1, MappedSame
<1>3. sock' = [s \in Sessions |-> IF sock[s] \in Running THEN "closed" ELSE sock[s]]
  BY DEF ProcessDies
<1>4. EndOf("closed") = "closed"
  BY DEF EndOf, Running
<1>5. Endings' = [s \in OwnPort |-> IF s \in S THEN "closed" ELSE Endings[s]]
  BY <1>3, <1>4, MappedFacts DEF Endings
<1>6. \A s \in S : Endings[s] = "no"
  BY EndKept, MappedFacts
<1>7. CASE S = {}
  <2>1. UNCHANGED Endings
    BY <1>5, <1>7 DEF Endings
  <2>2. QED
    BY <1>2, <2>1 DEF R!vars, Asked, Answers, Targets, Sent, Offers, Emitted, Receipts, Endings
<1>8. CASE S # {}
  <2>1. S \in SUBSET OwnPort
    OBVIOUS
  <2> HIDE DEF S
  <2>2. R!Close(S)
    BY <1>2, <1>5, <1>6, <1>8
    DEF R!Close, Asked, Answers, Targets, Sent, Offers, Emitted, Receipts, Endings
  <2>3. QED
    BY <2>1, <2>2 DEF R!Next
<1>9. QED
  BY <1>7, <1>8

\* Every step of the Server is invisible, or ends the sessions.
LEMMA ServerRelay ==
  ASSUME SessionInv, ServerNext, ServerFrame
  PROVE  R!Next \/ UNCHANGED R!vars
<1>1. UNCHANGED <<target, emitted, targetRx>>
  BY DEF ServerFrame, targetVars
<1>2. ASSUME NEW s \in Sessions, SocksConnected(s)
      PROVE  UNCHANGED R!vars
  <2>1. /\ UNCHANGED <<requested, sent, appRx>>
        /\ sock[s] = "none" /\ sock' = [sock EXCEPT ![s] = "NEGOTIATION"]
    BY <1>2 DEF SocksConnected, Become
  <2>2. EndOf("NEGOTIATION") = EndOf("none")
    BY EndKept DEF Running
  <2>3. UNCHANGED Endings
    BY <2>1, <2>2, MappedFacts DEF Endings
  <2>4. UNCHANGED <<Asked, Answers, Receipts, Targets, Sent, Offers, Emitted>>
    BY <1>1, <2>1, MappedSame
  <2>5. QED
    BY <2>3, <2>4 DEF R!vars, Asked, Answers, Targets, Sent, Offers, Emitted, Receipts, Endings
<1>3. ASSUME NEW s \in Sessions, AcceptPanics(s)
      PROVE  R!Next \/ UNCHANGED R!vars
  BY <1>3, ProcessDiesStep DEF AcceptPanics
<1>4. CASE IntervalTick \/ HandleHeartbeat \/ HandleProxyRequest \/ ServerStops
  <2>1. UNCHANGED <<sock, requested, sent, appRx>>
    BY <1>4 DEF IntervalTick, HandleHeartbeat, HandleProxyRequest, ServerStops, socksVars
  <2>2. QED
    BY <1>1, <2>1, InvisibleStep
<1>5. CASE HandleResponse
  <2>1. Routable(Head(wireDown))
    BY <1>5, AlwaysRoutable DEF HandleResponse, SessionInv
  <2>2. UNCHANGED <<sock, requested, sent, appRx>>
    BY <1>5, <2>1 DEF HandleResponse
  <2>3. QED
    BY <1>1, <2>2, InvisibleStep
<1>6. QED
  BY <1>2, <1>3, <1>4, <1>5 DEF ServerNext
-----------------------------------------------------------------------------
(* The steps of the ProxyClient and its futures.                           *)

\* A write to a target is Offer.
LEMMA OfferStep ==
  ASSUME SessionInv, WriteData, ProxyFrame
  PROVE  R!Next \/ UNCHANGED R!vars
<1> DEFINE m == Head(wireUp)
           c == Connection(m)
<1>1. UNCHANGED <<sock, requested, sent, appRx, target, emitted, tunnel>>
  BY DEF WriteData, ProxyFrame, socksVars
<1>2. UNCHANGED <<Asked, Answers, Receipts, Targets, Sent, Emitted, Endings>>
  BY <1>1, MappedSame
<1>3. PICK n \in (m.lo + 1)..m.hi :
        targetRx' = [targetRx EXCEPT ![c] = Append(targetRx[c],
                       [src |-> m.src, lo |-> m.lo, hi |-> n, end |-> m.hi])]
  BY DEF WriteData
<1>4. c # None /\ target[c] # "reset" /\ Request("Data")
  BY DEF WriteData
<1>5. m \in Tagged(RequestTypes) /\ m.type = "Data"
  BY <1>4, PopInSeq DEF SessionInv, Inv, QueuesTagged, Request
<1>6. c \in OwnPort => m.src = c
  BY <1>5, OwnConnection
<1> HIDE DEF m, c
<1>7. CASE c \notin OwnPort
  <2>1. UNCHANGED Offers
    BY <1>3, <1>7, MappedFacts DEF Offers
  <2>2. QED
    BY <1>2, <2>1 DEF R!vars, Asked, Answers, Targets, Sent, Offers, Emitted, Receipts, Endings
<1>8. CASE c \in OwnPort
  <2>1. PICK s \in OwnPort : s = c
    BY <1>8
  <2> DEFINE upTo == IF Offers[s] = << >> THEN 0 ELSE Offers[s][Len(Offers[s])].end
  <2>2. connections[PortOf[s]] = s /\ m.src = s
    <3>1. m.uuid = PortOf[m.src]
      BY <1>5, TaggedFacts
    <3>2. QED
      BY <1>6, <1>8, <2>1, <3>1 DEF c, Connection
  <2>3. /\ m.lo = Offered(s) /\ m.lo < m.hi /\ m.hi <= sent[s]
        /\ m.lo \in Nat /\ m.hi \in Nat /\ sent[s] \in Nat
    BY <1>1, <1>4, <2>2, OfferedNext, SessionFacts DEF m
  <2>4. upTo = m.lo
    BY <2>3, MappedFacts DEF Offered
  <2>5. R!OfferedUpTo(s) = upTo
    BY DEF R!OfferedUpTo, Offers
  <2> HIDE DEF upTo
  <2>6. m.hi \in (upTo + 1)..Sent[s] /\ n \in (upTo + 1)..m.hi
    <3>1. Sent[s] = sent[s]
      BY MappedFacts
    <3>2. QED
      BY <1>3, <2>3, <2>4, <3>1
  <2>7. Offers' = [Offers EXCEPT ![s] = Append(Offers[s],
                     [src |-> s, lo |-> upTo, hi |-> n, end |-> m.hi])]
    BY <1>3, <2>1, <2>2, <2>4, MappedFacts DEF Offers
  <2>8. Targets[s] \in {"open", "eof"}
    <3>1. target[s] # "none"
      BY <2>1, <2>2, <1>4, MappedFacts DEF SessionOK, Connected
    <3>2. QED
      BY <1>4, <2>1, <3>1, MappedFacts
  <2>9. \E end \in (upTo + 1)..Sent[s] : \E hi \in (upTo + 1)..end :
          Offers' = [Offers EXCEPT ![s] = Append(Offers[s],
                       [src |-> s, lo |-> upTo, hi |-> hi, end |-> end])]
    BY <2>6, <2>7
  <2>10. \E end \in (R!OfferedUpTo(s) + 1)..Sent[s] : \E hi \in (R!OfferedUpTo(s) + 1)..end :
           Offers' = [Offers EXCEPT ![s] = Append(Offers[s],
                        [src |-> s, lo |-> R!OfferedUpTo(s), hi |-> hi, end |-> end])]
    BY <2>5, <2>9
  <2>11. R!Offer(s)
    BY <1>2, <2>8, <2>10, Zenon
    DEF R!Offer, Asked, Answers, Targets, Sent, Offers, Emitted, Receipts, Endings
  <2>12. QED
    BY <2>11 DEF R!Next
<1>9. QED
  BY <1>7, <1>8

\* What a target does is Connect, Emit or TargetEnds.
LEMMA TargetStep ==
  ASSUME SessionInv, NEW c \in Sessions, ProxyFrame,
         ConnectSucceeds(c) \/ TargetSends(c) \/ TargetCloses(c) \/ TargetResets(c)
  PROVE  R!Next \/ UNCHANGED R!vars
<1>1. UNCHANGED <<sock, requested, sent, appRx, targetRx>>
  BY DEF ConnectSucceeds, TargetSends, TargetCloses, TargetResets, ProxyFrame, socksVars
<1>2. UNCHANGED <<Asked, Answers, Receipts, Sent, Offers, Endings>>
  BY <1>1, MappedSame
<1>3. CASE c \notin OwnPort
  <2>1. \A s \in OwnPort : target'[s] = target[s] /\ emitted'[s] = emitted[s]
    BY <1>3, MappedFacts DEF ConnectSucceeds, TargetSends, TargetCloses, TargetResets
  <2>2. UNCHANGED <<Targets, Emitted>>
    BY <2>1 DEF Targets, Emitted
  <2>3. QED
    BY <1>2, <2>2 DEF R!vars, Asked, Answers, Targets, Sent, Offers, Emitted, Receipts, Endings
<1>4. CASE c \in OwnPort /\ ConnectSucceeds(c)
  <2>1. c \in connecting /\ target' = [target EXCEPT ![c] = "open"] /\ emitted' = emitted
    BY <1>4 DEF ConnectSucceeds
  <2>2. /\ target[c] = "none" /\ Len(appRx[c]) <= 1 /\ Len(appRx[c]) \in Nat
        /\ c \in requested
    BY <1>4, <2>1, MappedFacts DEF SessionOK, UntriedIsUntouched, Untried, AsksOnce
  <2>3. AnswerIn(appRx[c]) = "none"
    BY <2>2 DEF AnswerIn
  <2>4. c \in Asked /\ Answers[c] = "none" /\ Targets[c] = "none"
    BY <1>4, <2>2, <2>3, MappedFacts DEF Asked
  <2>5. Targets' = [Targets EXCEPT ![c] = "open"]
    BY <1>4, <2>1, MappedFacts DEF Targets
  <2>6. UNCHANGED Emitted
    BY <2>1, MappedSame
  <2>7. R!Connect(c)
    BY <1>2, <2>4, <2>5, <2>6
    DEF R!Connect, Asked, Answers, Targets, Sent, Offers, Emitted, Receipts, Endings
  <2>8. QED
    BY <1>4, <2>7 DEF R!Next
<1>5. ASSUME c \in OwnPort, c \in readers
      PROVE  Targets[c] = "open"
  BY <1>5, ReaderFacts, MappedFacts
<1>6. CASE c \in OwnPort /\ TargetSends(c)
  <2>1. PICK hi \in (emitted[c] + 1)..MaxDown : emitted' = [emitted EXCEPT ![c] = hi]
    BY <1>6 DEF TargetSends
  <2>2. hi > emitted[c] /\ emitted[c] \in Nat
    BY <1>6, <2>1, MappedFacts, BoundAssumption
  <2>3. Emitted' = [Emitted EXCEPT ![c] = Emitted'[c]] /\ Emitted'[c] > Emitted[c]
    BY <1>6, <2>1, <2>2, MappedFacts DEF Emitted
  <2>4. UNCHANGED Targets
    BY <1>6, MappedSame DEF TargetSends
  <2>5. Targets[c] = "open"
    BY <1>5, <1>6 DEF TargetSends
  <2>6. R!Emit(c)
    BY <1>2, <2>3, <2>4, <2>5
    DEF R!Emit, Asked, Answers, Targets, Sent, Offers, Emitted, Receipts, Endings
  <2>7. QED
    BY <1>6, <2>6 DEF R!Next
<1>7. CASE c \in OwnPort /\ (TargetCloses(c) \/ TargetResets(c))
  <2>1. PICK how \in {"eof", "reset"} : target' = [target EXCEPT ![c] = how]
    BY <1>7 DEF TargetCloses, TargetResets
  <2>2. Targets' = [Targets EXCEPT ![c] = how]
    BY <1>7, <2>1, MappedFacts DEF Targets
  <2>3. UNCHANGED Emitted
    BY <1>7, MappedSame DEF TargetCloses, TargetResets
  <2>4. Targets[c] = "open"
    BY <1>5, <1>7 DEF TargetCloses, TargetResets
  <2>5. R!TargetEnds(c)
    BY <1>2, <2>2, <2>3, <2>4
    DEF R!TargetEnds, Asked, Answers, Targets, Sent, Offers, Emitted, Receipts, Endings
  <2>6. QED
    BY <1>7, <2>5 DEF R!Next
<1>8. QED
  BY <1>3, <1>4, <1>6, <1>7

\* Every step of the server process is a step of Relay, or invisible.
LEMMA ProxyRelay ==
  ASSUME SessionInv, ProxyNext, ProxyFrame
  PROVE  R!Next \/ UNCHANGED R!vars
<1>1. CASE WriteData
  BY <1>1, OfferStep
<1>2. CASE \E c \in Sessions :
             ConnectSucceeds(c) \/ TargetSends(c) \/ TargetCloses(c) \/ TargetResets(c)
  BY <1>2, TargetStep
<1>3. CASE \/ HandleRequestAddr \/ WriteFails \/ DataPanics \/ EchoHeartbeat \/ ProxyStops
           \/ HandleEstablished \/ HandleDead \/ HandleProxyResponse \/ ForwarderFails \/ SendPanics
           \/ \E c \in Sessions : ConnectFails(c)
  <2>1. UNCHANGED <<target, emitted, targetRx>>
    BY <1>3
    DEF HandleRequestAddr, WriteFails, DataPanics, EchoHeartbeat, ProxyStops, HandleEstablished,
        HandleDead, HandleProxyResponse, ForwarderFails, SendPanics, ConnectFails, Mail, targetVars
  <2>2. UNCHANGED <<sock, requested, sent, appRx>>
    BY DEF ProxyFrame, socksVars
  <2>3. QED
    BY <2>1, <2>2, InvisibleStep
<1>4. QED
  BY <1>1, <1>2, <1>3 DEF ProxyNext

-----------------------------------------------------------------------------
\* Every step of the system is a step of Relay, or invisible.
LEMMA RelayNext == SessionInv /\ SessionInv' /\ [Next]_vars => [R!Next]_R!vars
<1> SUFFICES ASSUME SessionInv, SessionInv', [Next]_vars PROVE R!Next \/ UNCHANGED R!vars
  OBVIOUS
<1>1. CASE (\E s \in Sessions : SocksNext(s)) /\ SocksFrame
  BY <1>1, SocksRelay
<1>2. CASE ServerNext /\ ServerFrame
  BY <1>2, ServerRelay
<1>3. CASE ProxyNext /\ ProxyFrame
  BY <1>3, ProxyRelay
<1>4. CASE BreakTunnel /\ UNCHANGED <<socksVars, serverVars, proxyVars, targetVars>>
  BY <1>4, InvisibleStep DEF socksVars, targetVars
<1>5. CASE UNCHANGED vars
  BY <1>5, InvisibleStep DEF vars, socksVars, targetVars
<1>6. QED
  BY <1>1, <1>2, <1>3, <1>4, <1>5 DEF Next

\* The proxy implements Relay, for any number of sessions and any assignment of
\* ports: a session with a port of its own gets one true answer and two streams
\* in order, whatever the other sessions do (socks.rs:82-152, client.rs:77-139,
\* server.rs:46-189).
THEOREM RelayImplemented == Spec => ImplementsRelay
<1>1. Init => R!Init
  BY RelayInit
<1>2. SessionInv /\ SessionInv' /\ [Next]_vars => [R!Next]_R!vars
  BY RelayNext
<1>3. Spec => []SessionInv
  BY SessionInvariance
<1>4. QED
  BY <1>1, <1>2, <1>3, PTL DEF Spec, ImplementsRelay, R!Spec
=============================================================================
