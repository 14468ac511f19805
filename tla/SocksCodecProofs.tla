-------------------------- MODULE SocksCodecProofs --------------------------
(***************************************************************************)
(* For all applications: the request codec yields what was sent, panics on *)
(* malformed requests only and holds nothing back, and the replies can be  *)
(* told from the data that follows them.                                   *)
(***************************************************************************)
EXTENDS SocksCodec, TLAPS

-----------------------------------------------------------------------------
(* Numbers.                                                                *)

\* The cast of codec.rs:43: never more than the number, and the number itself
\* as long as it fits.
LEMMA CastToU8 ==
  ASSUME NEW n \in Nat
  PROVE  AsU8(n) \in U8 /\ AsU8(n) <= n /\ (n < 256 => AsU8(n) = n)
  BY SMTT(60) DEF AsU8, U8

\* The port is read from its two bytes as a signed number, with all its bits.
LEMMA PortKeepsBits ==
  ASSUME NEW p \in U16
  PROVE  AsI16(256 * (p \div 256) + (p % 256)) % 65536 = p
<1>1. p \in Nat /\ p < 65536
  BY SMTT(60) DEF U16
<1>2. 256 * (p \div 256) + (p % 256) = p
  BY <1>1
<1>3. AsI16(p) = p \/ AsI16(p) = p - 65536
  BY SMTT(60) DEF AsI16
<1>4. p % 65536 = p /\ (p - 65536) % 65536 = p
  BY <1>1, SMTT(60)
<1> QED BY <1>2, <1>3, <1>4, SMTT(60)

-----------------------------------------------------------------------------
(* The stream of an application.                                           *)

\* The lengths of the three parts.
LEMMA Lengths ==
  ASSUME NEW a \in Apps
  PROVE  /\ GreetingLen(a) \in 2..257
         /\ AddressLen(a) \in Nat \ {0}
         /\ a.kind = 1 => AddressLen(a) = 4
         /\ a.kind = 4 => AddressLen(a) = 16
         /\ a.kind = 3 => AddressLen(a) = 1 + a.domain
         /\ RequestEnd(a) = GreetingLen(a) + 6 + AddressLen(a)
         /\ RequestEnd(a) \in Nat
         /\ StreamLen(a) \in Nat
         /\ RequestEnd(a) <= StreamLen(a)
<1>1. a.methods \in U8 /\ a.domain \in U8 /\ a.data \in Nat /\ a.kind \in U8
  BY AppsAssumption
<1>2. GreetingLen(a) \in 2..257
  BY <1>1 DEF GreetingLen, U8
<1>3. /\ a.kind = 1 => AddressLen(a) = 4
      /\ a.kind = 4 => AddressLen(a) = 16
      /\ a.kind # 1 /\ a.kind # 4 => AddressLen(a) = 1 + a.domain
  <2>1. 1 # 4
    OBVIOUS
  <2> QED BY <2>1, Zenon DEF AddressLen
<1>4. AddressLen(a) \in Nat \ {0}
  <2>1. CASE a.kind = 1
    BY <1>3, <2>1
  <2>2. CASE a.kind = 4
    BY <1>3, <2>2
  <2>3. CASE a.kind # 1 /\ a.kind # 4
    BY <1>1, <1>3, <2>3 DEF U8
  <2> QED BY <2>1, <2>2, <2>3
<1>5. RequestEnd(a) = GreetingLen(a) + 6 + AddressLen(a)
  BY <1>2, <1>4 DEF RequestEnd
<1>6. RequestEnd(a) \in Nat /\ StreamLen(a) \in Nat /\ RequestEnd(a) <= StreamLen(a)
  BY <1>1, <1>2, <1>4, <1>5 DEF StreamLen
<1>7. a.kind = 3 => AddressLen(a) = 1 + a.domain
  BY <1>3
<1> QED BY <1>2, <1>3, <1>4, <1>5, <1>6, <1>7

\* The bytes decode looks at are in different places.
LEMMA StreamBytes ==
  ASSUME app \in Apps
  PROVE  LET g == GreetingLen(app)
             e == RequestEnd(app)
         IN /\ Byte(1) = app.methods
            /\ Byte(g + 1) = app.command
            /\ Byte(g + 3) = app.kind
            /\ Byte(g + 4) = app.domain
            /\ Byte(e - 2) = app.port \div 256
            /\ Byte(e - 1) = app.port % 256
<1> DEFINE g == GreetingLen(app)
<1> DEFINE e == RequestEnd(app)
<1>1. g \in Nat /\ g >= 2 /\ e \in Nat /\ e >= g + 7
  BY Lengths
<1>a. \A o : Byte(o) = CASE o = 1     -> app.methods
       [] o = g + 1 -> app.command
       [] o = g + 3 -> app.kind
       [] o = g + 4 -> app.domain
       [] o = e - 2 -> app.port \div 256
       [] o = e - 1 -> app.port % 256
       [] OTHER     -> 0
  BY DEF Byte
<1> HIDE DEF g, e
<1>2. /\ 1 # g + 1 /\ 1 # g + 3 /\ 1 # g + 4 /\ 1 # e - 2 /\ 1 # e - 1
      /\ g + 1 # g + 3 /\ g + 1 # g + 4 /\ g + 1 # e - 2 /\ g + 1 # e - 1
      /\ g + 3 # g + 4 /\ g + 3 # e - 2 /\ g + 3 # e - 1
      /\ g + 4 # e - 2 /\ g + 4 # e - 1
      /\ e - 2 # e - 1
  BY <1>1
<1>3. Byte(1) = app.methods
  BY <1>a, <1>2, Zenon
<1>4. Byte(g + 1) = app.command
  BY <1>a, <1>2, Zenon
<1>5. Byte(g + 3) = app.kind
  BY <1>a, <1>2, Zenon
<1>6. Byte(g + 4) = app.domain
  BY <1>a, <1>2, Zenon
<1>7. Byte(e - 2) = app.port \div 256
  BY <1>a, <1>2, Zenon
<1>8. Byte(e - 1) = app.port % 256
  BY <1>a, <1>2, Zenon
<1> QED BY <1>3, <1>4, <1>5, <1>6, <1>7, <1>8 DEF g, e
-----------------------------------------------------------------------------
(* What decode returns in each of its states (codec.rs:123-148).           *)

ItemResult(m, len) == [result |-> "item", item |-> m, len |-> len]

\* The greeting is waited for, or yielded as a whole; split_to never panics.
LEMMA NegotiationDecoded ==
  ASSUME SocksInv, state = "NEGOTIATION"
  PROVE  \/ /\ Decoded = Waits
            /\ Buffered < GreetingLen(app) \/ (app.eager /\ Buffered >= 258)
         \/ /\ Decoded = ItemResult([type |-> "Negotiation", from |-> 2, to |-> GreetingLen(app)],
                                    GreetingLen(app))
            /\ GreetingLen(app) <= arrived
<1>1. app \in Apps /\ arrived \in Nat /\ taken = 0 /\ Buffered = arrived
  BY Lengths DEF SocksInv, TypeOK, Buffered
<1>2. app.methods \in U8 /\ app.methods \in Nat
  BY <1>1, AppsAssumption DEF U8
<1>3. At(1) = app.methods
  BY <1>1, StreamBytes DEF At
<1>4. Decoded = DecodeMethodSelection
  BY Zenon DEF Decoded
<1>5. GreetingLen(app) = 2 + app.methods
  BY DEF GreetingLen
<1>6. CASE Buffered < 2
  BY <1>1, <1>2, <1>4, <1>5, <1>6 DEF DecodeMethodSelection
<1>7. CASE ~(Buffered < 2)
  <2> DEFINE n == Buffered - 2
  <2>1. n \in Nat
    BY <1>1, <1>7
  <2>2. AsU8(n) \in Nat /\ AsU8(n) <= n /\ (n < 256 => AsU8(n) = n)
    BY <2>1, CastToU8 DEF U8
  <2>3. CASE AsU8(n) < At(1)
    <3>1. Decoded = Waits
      BY <1>4, <2>3 DEF DecodeMethodSelection
    <3>2. n < 256 => Buffered < GreetingLen(app)
      BY <1>1, <1>2, <1>3, <1>5, <2>1, <2>2, <2>3
    <3>3. n >= 256 => app.eager /\ Buffered >= 258
      <4>1. ~app.eager => arrived <= GreetingLen(app)
        BY Zenon DEF SocksInv, Sent
      <4> QED BY <1>1, <1>2, <1>5, <2>1, <4>1, Lengths DEF U8
    <3> QED BY <2>1, <3>1, <3>2, <3>3
  <2>4. CASE ~(AsU8(n) < At(1))
    <3>1. GreetingLen(app) <= Buffered
      BY <1>1, <1>2, <1>3, <1>5, <2>1, <2>2, <2>4
    <3>2. Decoded = Yields([type |-> "Negotiation", from |-> 2, to |-> GreetingLen(app)],
                           GreetingLen(app))
      <4>1. taken + 2 = 2 /\ taken + 2 + At(1) = GreetingLen(app) /\ 2 + At(1) = GreetingLen(app)
        BY <1>1, <1>2, <1>3, <1>5
      <4>2. Decoded = Yields([type |-> "Negotiation", from |-> taken + 2, to |-> taken + 2 + At(1)],
                             2 + At(1))
        BY <1>4, <1>7, <2>4, Zenon DEF DecodeMethodSelection
      <4> QED BY <4>1, <4>2, Zenon
    <3> QED BY <1>1, <3>1, <3>2 DEF Yields, ItemResult
  <2> QED BY <2>3, <2>4
<1> QED BY <1>6, <1>7

\* The request is waited for, refused if it is malformed, or yielded as it was
\* sent.
LEMMA WorkingDecoded ==
  ASSUME SocksInv, state = "WORKING"
  PROVE  \/ Decoded = Waits /\ arrived < RequestEnd(app)
         \/ Decoded = Panics /\ ~WellFormed(app)
         \/ /\ WellFormed(app)
            /\ \E m \in Item :
                 /\ Decoded = ItemResult(m, RequestEnd(app) - GreetingLen(app))
                 /\ IsRequest(m)
                 /\ m.from <= m.to
            /\ RequestEnd(app) <= arrived
<1> DEFINE g == GreetingLen(app)
<1> DEFINE e == RequestEnd(app)
<1>1. app \in Apps /\ arrived \in Nat /\ taken = g /\ Buffered = arrived - g /\ g <= arrived
  BY Lengths DEF SocksInv, TypeOK, Buffered
<1>2. /\ app.command \in U8 /\ app.kind \in U8 /\ app.domain \in Nat
      /\ app.port \in U16 /\ app.utf8 \in BOOLEAN
  BY <1>1, AppsAssumption, SMTT(60) DEF U8
<1>p. app.port \in Nat
  <2>1. \A p \in U16 : p \in Nat
    BY DEF U16
  <2> QED BY <1>2, <2>1, Zenon
<1>3. At(1) = app.command /\ At(3) = app.kind /\ At(4) = app.domain
  BY <1>1, StreamBytes DEF At
<1>4. Decoded = DecodeTargetRequest
  BY Zenon DEF Decoded
<1>5. g \in 2..257 /\ e \in Nat /\ e >= g + 7
  BY <1>1, Lengths
<1>6. app.kind \in {1, 3, 4} => RequestLength = e - g
  <2>1. CASE app.kind = 1
    <3>1. RequestLength = 10
      BY <1>3, <2>1 DEF RequestLength
    <3> QED BY <1>1, <1>5, <2>1, <3>1, Lengths
  <2>2. CASE app.kind = 3
    <3>1. RequestLength = 7 + app.domain
      BY <1>3, <2>2 DEF RequestLength
    <3> QED BY <1>1, <1>2, <1>5, <2>2, <3>1, Lengths
  <2>3. CASE app.kind = 4
    <3>1. RequestLength = 22
      BY <1>3, <2>3 DEF RequestLength
    <3> QED BY <1>1, <1>5, <2>3, <3>1, Lengths
  <2> QED BY <2>1, <2>2, <2>3
<1>7. CASE Buffered < 5
  <2>1. Decoded = Waits
    BY <1>4, <1>7 DEF DecodeTargetRequest
  <2>2. arrived < e
    BY <1>1, <1>5, <1>7
  <2> QED BY <2>1, <2>2
<1>8. CASE ~(Buffered < 5) /\ app.kind \notin {1, 3, 4}
  <2>1. Decoded = Panics
    BY <1>3, <1>4, <1>8 DEF DecodeTargetRequest
  <2> QED BY <1>8, <2>1 DEF WellFormed
<1>9. CASE ~(Buffered < 5) /\ app.kind \in {1, 3, 4} /\ Buffered < RequestLength
  <2>1. Decoded = Waits
    BY <1>3, <1>4, <1>9 DEF DecodeTargetRequest
  <2>2. arrived < e
    BY <1>1, <1>5, <1>6, <1>9
  <2> QED BY <2>1, <2>2
<1>10. CASE ~(Buffered < 5) /\ app.kind \in {1, 3, 4} /\ ~(Buffered < RequestLength)
  <2>1. e <= arrived
    BY <1>1, <1>5, <1>6, <1>10
  <2>2. CASE ~WellFormed(app)
    <3>1. app.command \notin 1..3 \/ (app.kind = 3 /\ ~app.utf8)
      BY <1>10, <2>2 DEF WellFormed
    <3>2. Decoded = Panics
      BY <1>3, <1>4, <1>10, <3>1 DEF DecodeTargetRequest
    <3> QED BY <2>2, <3>2
  <2>3. CASE WellFormed(app)
    <3>1. app.command \in 1..3 /\ ~(app.kind = 3 /\ ~app.utf8)
      BY <2>3 DEF WellFormed
    <3>2. Decoded = Yields(TargetRequest, RequestLength)
      BY <1>3, <1>4, <1>10, <3>1 DEF DecodeTargetRequest
    <3>3. RequestLength <= Buffered
      BY <1>1, <1>5, <1>6, <1>10
    <3>4. Decoded = ItemResult(TargetRequest, e - g)
      <4>1. Decoded = ItemResult(TargetRequest, RequestLength)
        BY <3>2, <3>3, Zenon DEF Yields, ItemResult
      <4> QED BY <1>6, <1>10, <4>1
    <3> DEFINE first == IF app.kind = 3 THEN 5 ELSE 4
    <3> DEFINE last == e - g - 2
    <3>5. TargetRequest = [type |-> "TargetRequest", command |-> app.command,
                           request_type |-> app.kind, from |-> g + first, to |-> g + last,
                           port |-> Port(last)]
      <4>1. RequestLength - 2 = last
        BY <1>6, <1>10
      <4> QED BY <1>1, <1>3, <4>1 DEF TargetRequest
    <3>6. g + last = e - 2 /\ g + first <= e - 2 /\ g + first \in Nat /\ e - 2 \in Nat
      <4>1. app.kind = 3 => e - 2 = g + 5 + app.domain
        BY <1>1, <1>2, <1>5, Lengths
      <4> QED BY <1>2, <1>5, <4>1
    <3>7. Port(last) = AsI16(256 * (app.port \div 256) + (app.port % 256))
      <4>1. taken + last = e - 2 /\ taken + (last + 1) = e - 1
        BY <1>1, <1>5
      <4>2. At(last) = Byte(e - 2) /\ At(last + 1) = Byte(e - 1)
        BY <4>1 DEF At
      <4>3. At(last) = app.port \div 256 /\ At(last + 1) = app.port % 256
        BY <1>1, <4>2, StreamBytes
      <4> HIDE DEF last
      <4> QED BY <4>3 DEF Port
    <3>8. Port(last) \in Int /\ Port(last) % 65536 = app.port
      <4>1. 256 * (app.port \div 256) + (app.port % 256) \in Int
        BY <1>p
      <4>2. Port(last) \in Int
        BY <3>7, <4>1 DEF AsI16
      <4>3. Port(last) % 65536 = app.port
        BY <1>2, <3>7, PortKeepsBits
      <4> QED BY <4>2, <4>3
    <3>9. TargetRequest \in Item
      BY <1>2, <3>5, <3>6, <3>8 DEF Item
    <3>10. IsRequest(TargetRequest) /\ TargetRequest.from <= TargetRequest.to
      BY <3>5, <3>6, <3>8 DEF IsRequest
    <3> QED BY <2>1, <2>3, <3>4, <3>9, <3>10
  <2> QED BY <2>2, <2>3
<1> QED BY <1>7, <1>8, <1>9, <1>10

\* All that is in the buffer is the next piece of data.
LEMMA ReadyDecoded ==
  ASSUME SocksInv, state = "READY"
  PROVE  \/ Decoded = Waits /\ Buffered = 0
         \/ /\ Decoded = ItemResult([type |-> "Data", from |-> taken, to |-> arrived], Buffered)
            /\ Buffered \in Nat
<1>1. arrived \in Nat /\ taken \in Nat /\ taken <= arrived /\ Buffered \in Nat
  BY Lengths DEF SocksInv, TypeOK, Buffered
<1>2. Decoded = DecodeData
  BY Zenon DEF Decoded
<1> QED BY <1>1, <1>2 DEF DecodeData, Yields, ItemResult
-----------------------------------------------------------------------------
(* What is written to the application (codec.rs:152-199).                  *)

\* The elements of a concatenation.
LEMMA Concatenation ==
  ASSUME NEW S, NEW s \in Seq(S), NEW t \in Seq(S)
  PROVE  /\ s \o t \in Seq(S)
         /\ Len(s \o t) = Len(s) + Len(t)
         /\ \A i \in 1..Len(s) : (s \o t)[i] = s[i]
         /\ \A i \in 1..Len(t) : (s \o t)[Len(s) + i] = t[i]
  OBVIOUS

\* A target response with a domain: 7 bytes and the domain, whose length is the
\* fifth byte.
LEMMA DomainResponse ==
  ASSUME NEW r \in U8, NEW d \in Seq(U8), Len(d) \in U8
  PROVE  LET t == EncodeTargetResponse(r, "DOMAIN", d)
         IN t \in Seq(U8) /\ Len(t) = 7 + Len(d) /\ t[2] = r /\ t[5] = Len(d)
<1> DEFINE h == <<5, r, 0, 3>>
<1> DEFINE a == <<Len(d)>> \o d
<1> DEFINE p == <<0, 0>>
<1>1. TypeByte("DOMAIN") = 3
  BY DEF TypeByte
<1>2. EncodeTargetResponse(r, "DOMAIN", d) = h \o a \o p
  BY <1>1 DEF EncodeTargetResponse, EncodeAddress
<1>3. h \in Seq(U8) /\ Len(h) = 4 /\ h[2] = r
  BY DEF U8
<1>4. a \in Seq(U8) /\ Len(a) = 1 + Len(d) /\ a[1] = Len(d)
  <2>1. <<Len(d)>> \in Seq(U8) /\ Len(<<Len(d)>>) = 1 /\ <<Len(d)>>[1] = Len(d)
    OBVIOUS
  <2> QED BY <2>1, Concatenation
<1>5. p \in Seq(U8) /\ Len(p) = 2
  BY DEF U8
<1> HIDE DEF h, a, p
<1>6. Len(d) \in Nat
  OBVIOUS
<1>7. h \o a \in Seq(U8) /\ Len(h \o a) = 5 + Len(d) /\ (h \o a)[2] = r /\ (h \o a)[5] = Len(d)
  <2>1. 2 \in 1..Len(h) /\ 1 \in 1..Len(a) /\ Len(h) + 1 = 5 /\ Len(h) + Len(a) = 5 + Len(d)
    BY <1>3, <1>4, <1>6
  <2>2. (h \o a)[2] = h[2] /\ (h \o a)[Len(h) + 1] = a[1]
    <3>1. /\ \A i \in 1..Len(h) : (h \o a)[i] = h[i]
          /\ \A i \in 1..Len(a) : (h \o a)[Len(h) + i] = a[i]
      <4>1. h \in Seq(U8)
        BY <1>3
      <4>2. a \in Seq(U8)
        BY <1>4
      <4> QED BY <4>1, <4>2, Concatenation
    <3> QED BY <2>1, <3>1, Zenon
  <2>3. h \o a \in Seq(U8) /\ Len(h \o a) = Len(h) + Len(a)
    BY <1>3, <1>4, Concatenation
  <2> QED BY <1>3, <1>4, <2>1, <2>2, <2>3
<1> DEFINE b == h \o a
<1> HIDE DEF b
<1>8. b \in Seq(U8) /\ Len(b) = 5 + Len(d) /\ b[2] = r /\ b[5] = Len(d)
  BY <1>7 DEF b
<1>9. b \o p \in Seq(U8) /\ Len(b \o p) = 7 + Len(d) /\ (b \o p)[2] = r /\ (b \o p)[5] = Len(d)
  <2>1. 2 \in 1..Len(b) /\ 5 \in 1..Len(b) /\ Len(b) + Len(p) = 7 + Len(d)
    BY <1>5, <1>6, <1>8
  <2>2. (b \o p)[2] = b[2] /\ (b \o p)[5] = b[5]
    BY <1>5, <1>8, <2>1, Concatenation
  <2>3. b \o p \in Seq(U8) /\ Len(b \o p) = Len(b) + Len(p)
    BY <1>5, <1>8, Concatenation
  <2> QED BY <1>8, <2>1, <2>2, <2>3
<1> QED BY <1>2, <1>9 DEF b

\* The reply to a request, written right after the one to the greeting.
LEMMA ReplyWritten ==
  ASSUME NEW ok \in BOOLEAN
  PROVE  LET o == EncodeMethodSelection \o Response(ok)
         IN /\ o \in Seq(U8)
            /\ o[7] \in {0, 3}
            /\ Len(o) = 9 + o[7]
            /\ o[4] = IF ok THEN 0 ELSE 5
<1> DEFINE r == IF ok THEN 0 ELSE 5
<1> DEFINE n == IF ok THEN 3 ELSE 0
<1> DEFINE t == Response(ok)
<1> DEFINE m == EncodeMethodSelection
<1>1. t \in Seq(U8) /\ Len(t) = 7 + n /\ t[2] = r /\ t[5] = n
  <2>1. <<49, 50, 51>> \in Seq(U8) /\ Len(<<49, 50, 51>>) = 3
    BY DEF U8
  <2>2. << >> \in Seq(U8) /\ Len(<< >>) = 0
    OBVIOUS
  <2>3. 0 \in U8 /\ 5 \in U8 /\ 3 \in U8
    BY DEF U8
  <2>4. CASE ok
    <3>1. t = EncodeTargetResponse(0, "DOMAIN", <<49, 50, 51>>)
      BY <2>4 DEF Response
    <3>2. /\ t \in Seq(U8) /\ Len(t) = 7 + Len(<<49, 50, 51>>) /\ t[2] = 0
          /\ t[5] = Len(<<49, 50, 51>>)
      <4> DEFINE d == <<49, 50, 51>>
      <4>1. d \in Seq(U8) /\ Len(d) \in U8
        BY <2>1, <2>3
      <4>2. t = EncodeTargetResponse(0, "DOMAIN", d)
        BY <3>1
      <4> HIDE DEF d, t
      <4>3. t \in Seq(U8) /\ Len(t) = 7 + Len(d) /\ t[2] = 0 /\ t[5] = Len(d)
        BY <2>3, <4>1, <4>2, DomainResponse
      <4> QED BY <4>3 DEF d
    <3> HIDE DEF t
    <3> QED BY <2>1, <2>4, <3>2
  <2>5. CASE ~ok
    <3>1. t = EncodeTargetResponse(5, "DOMAIN", << >>)
      BY <2>5 DEF Response
    <3> HIDE DEF t
    <3>2. t \in Seq(U8) /\ Len(t) = 7 + Len(<< >>) /\ t[2] = 5 /\ t[5] = Len(<< >>)
      BY <2>2, <2>3, <3>1, DomainResponse
    <3> QED BY <2>2, <2>5, <3>2
  <2> QED BY <2>4, <2>5
<1>2. m \in Seq(U8) /\ Len(m) = 2
  BY DEF EncodeMethodSelection, U8
<1>3. n \in {0, 3}
  OBVIOUS
<1> HIDE DEF m, t, n, r
<1>4. 2 \in 1..Len(t) /\ 5 \in 1..Len(t) /\ Len(m) + 2 = 4 /\ Len(m) + 5 = 7
  BY <1>1, <1>2, <1>3
<1>5. (m \o t)[Len(m) + 2] = t[2] /\ (m \o t)[Len(m) + 5] = t[5]
  <2>1. \A i \in 1..Len(t) : (m \o t)[Len(m) + i] = t[i]
    <3>1. m \in Seq(U8)
      BY <1>2
    <3>2. t \in Seq(U8)
      BY <1>1
    <3> QED BY <3>1, <3>2, Concatenation
  <2> QED BY <1>4, <2>1, Zenon
<1>6. m \o t \in Seq(U8) /\ Len(m \o t) = Len(m) + Len(t)
  BY <1>1, <1>2, Concatenation
<1> QED BY <1>1, <1>2, <1>3, <1>4, <1>5, <1>6 DEF m, t, r
-----------------------------------------------------------------------------
(* The invariant.                                                          *)

\* It holds in the beginning.
LEMMA SocksInitial == Init => SocksInv
<1> SUFFICES ASSUME Init PROVE SocksInv
  OBVIOUS
<1>1. GreetingLen(app) \in 2..257 /\ RequestEnd(app) \in Nat /\ StreamLen(app) \in Nat
  BY Lengths DEF Init
<1>2. Sent \in Nat
  BY <1>1 DEF Sent
<1>3. TypeOK
  <2>1. 0 \in 0..StreamLen(app) /\ 0 \in 0..0
    BY <1>1
  <2>2. items \in Seq(Item) /\ out \in Seq(U8 \cup {TargetByte})
    BY DEF Init
  <2>3. arrived \in 0..StreamLen(app) /\ taken \in 0..arrived
    BY <2>1 DEF Init
  <2> QED BY <2>2, <2>3 DEF Init, TypeOK
<1>4. NothingHeldBack
  <2>1. state = "NEGOTIATION" /\ Buffered = 0
    BY DEF Init, Buffered
  <2> QED BY <1>1, <2>1 DEF NothingHeldBack
<1>5. items = << >> /\ Len(items) = 0
  BY DEF Init
<1>6. ItemsAsSent /\ \A i \in 1..Len(items) : items[i].from <= items[i].to /\ items[i].to <= taken
  BY <1>5 DEF ItemsAsSent
<1>7. PanicIsDeserved /\ RepliesDelimited
  BY DEF Init, PanicIsDeserved, RepliesDelimited
<1> QED
  BY <1>2, <1>3, <1>4, <1>6, <1>7 DEF Init, SocksInv

\* The application sends more only as the session goes on.
LEMMA SentGrows ==
  ASSUME SocksInv, app' = app,
         answer' = answer \/ answer = "none",
         state' = state \/ state' = StateAfter(state)
  PROVE  Sent \in Nat /\ Sent' \in Nat /\ Sent <= Sent' /\ Sent' <= StreamLen(app)
<1>1. /\ app \in Apps /\ state \in {"NEGOTIATION", "WORKING", "READY"}
      /\ answer # "none" => state = "READY"
  BY DEF SocksInv, TypeOK
<1>2. /\ GreetingLen(app) \in Nat /\ RequestEnd(app) \in Nat /\ StreamLen(app) \in Nat
      /\ GreetingLen(app) <= RequestEnd(app) /\ RequestEnd(app) <= StreamLen(app)
  BY <1>1, Lengths
<1>3. /\ GreetingLen(app)' = GreetingLen(app)
      /\ RequestEnd(app)' = RequestEnd(app)
      /\ StreamLen(app)' = StreamLen(app)
  BY Zenon DEF GreetingLen, RequestEnd, StreamLen, AddressLen
<1>4. state = "READY" => state' = "READY"
  BY DEF StateAfter
<1>5. state = "WORKING" => state' \in {"WORKING", "READY"}
  BY DEF StateAfter
<1> QED BY <1>1, <1>2, <1>3, <1>4, <1>5 DEF Sent

\* What was decoded stays right as long as nothing more is.
LEMMA ItemsStay == ASSUME ItemsAsSent, UNCHANGED <<app, items>> PROVE ItemsAsSent'
  BY DEF ItemsAsSent, IsRequest

\* The replies stay as they are as long as none is written.
LEMMA RepliesStay ==
  ASSUME RepliesDelimited, UNCHANGED <<out, answer, state>> PROVE RepliesDelimited'
  BY DEF RepliesDelimited

\* A panic stays deserved, and its absence a fact.
LEMMA PanicStays ==
  ASSUME PanicIsDeserved, UNCHANGED <<app, status, state>> PROVE PanicIsDeserved'
  BY DEF PanicIsDeserved, WellFormed

\* The buffer stays decoded as long as nothing arrives in it.
LEMMA BufferStays ==
  ASSUME NothingHeldBack, UNCHANGED <<app, readable, state, arrived, taken>>
  PROVE  NothingHeldBack'
  BY DEF NothingHeldBack, Buffered

\* Bytes are read, and nothing else happens.
LEMMA ReadChunkKeeps ==
  ASSUME SocksInv, ReadChunk
  PROVE  SocksInv'
<1>1. /\ UNCHANGED <<app, taken, state, items, answer, out, status>>
      /\ readable' = TRUE
      /\ status = "open"
  BY DEF ReadChunk
<1>2. Sent' = Sent /\ Sent' \in Nat /\ Sent' <= StreamLen(app)
  <2>1. Sent' = Sent
    BY <1>1 DEF Sent
  <2> QED BY <1>1, <2>1, SentGrows
<1>3. PICK n \in (arrived + 1)..Sent : arrived' = n
  BY DEF ReadChunk
<1>4. app \in Apps /\ StreamLen(app) \in Nat /\ arrived \in Nat /\ taken \in Nat /\ taken <= arrived
  BY Lengths DEF SocksInv, TypeOK
<1>5. arrived' \in Nat /\ arrived < arrived' /\ arrived' <= Sent'
  BY <1>2, <1>3, <1>4
<1>6. TypeOK'
  <2>1. arrived' \in 0..StreamLen(app)
    BY <1>2, <1>4, <1>5
  <2>2. taken \in 0..arrived'
    BY <1>4, <1>5
  <2>3. (arrived \in 0..StreamLen(app))' /\ (taken \in 0..arrived)'
    BY <1>1, <2>1, <2>2, Zenon
  <2> QED BY <1>1, <2>3 DEF SocksInv, TypeOK
<1>7. NothingHeldBack'
  BY <1>1 DEF NothingHeldBack
<1>8. ItemsAsSent' /\ PanicIsDeserved' /\ RepliesDelimited'
  BY <1>1, ItemsStay, PanicStays, RepliesStay DEF SocksInv
<1> QED BY <1>1, <1>5, <1>6, <1>7, <1>8, Zenon DEF SocksInv

\* The stream ends, and nothing else happens.
LEMMA CloseKeeps ==
  ASSUME SocksInv, Close
  PROVE  SocksInv'
<1>1. /\ UNCHANGED <<app, arrived, taken, readable, state, items, answer, out>>
      /\ status' \in {"finished", "error"}
  BY DEF Close
<1>2. Sent' = Sent /\ NothingHeldBack'
  BY <1>1, BufferStays DEF Sent, SocksInv
<1>3. TypeOK'
  BY <1>1 DEF SocksInv, TypeOK
<1>4. ItemsAsSent' /\ RepliesDelimited'
  BY <1>1, ItemsStay, RepliesStay DEF SocksInv
<1>5. PanicIsDeserved'
  <2>1. state = "READY" => WellFormed(app)
    BY DEF SocksInv, PanicIsDeserved
  <2>2. WellFormed(app)' = WellFormed(app)
    BY <1>1, Zenon DEF WellFormed
  <2> QED BY <1>1, <2>1, <2>2 DEF PanicIsDeserved
<1> QED BY <1>1, <1>2, <1>3, <1>4, <1>5, Zenon DEF SocksInv

\* The reply is the first that is written after the one to the greeting.
LEMMA AnswerKeeps ==
  ASSUME SocksInv, NEW ok \in BOOLEAN, Answer(ok)
  PROVE  SocksInv'
<1>1. /\ UNCHANGED <<app, arrived, taken, readable, state, items, status>>
      /\ state = "READY" /\ answer = "none"
      /\ answer' = IF ok THEN "Succeeded" ELSE "ConnectionRefused"
      /\ out' = out \o Response(ok)
  BY DEF Answer
<1>2. out = EncodeMethodSelection
  BY <1>1 DEF SocksInv
<1>3. /\ out' \in Seq(U8)
      /\ out'[7] \in {0, 3}
      /\ Len(out') = 9 + out'[7]
      /\ out'[4] = IF ok THEN 0 ELSE 5
  BY <1>1, <1>2, ReplyWritten
<1>4. arrived' <= Sent'
  <2>1. arrived \in Nat /\ arrived <= Sent
    BY Lengths DEF SocksInv, TypeOK
  <2>2. Sent \in Nat /\ Sent' \in Nat /\ Sent <= Sent'
    BY <1>1, SentGrows
  <2> QED BY <1>1, <2>1, <2>2
<1>5. out' \in Seq(U8 \cup {TargetByte})
  BY <1>3
<1>6. TypeOK'
  BY <1>1, <1>5 DEF SocksInv, TypeOK
<1>7. ItemsAsSent' /\ PanicIsDeserved' /\ NothingHeldBack'
  BY <1>1, ItemsStay, PanicStays, BufferStays DEF SocksInv
<1>8. RepliesDelimited'
  <2>1. answer' # "none" /\ (answer' = "Succeeded" <=> ok)
    BY <1>1
  <2>2. 2 + 4 + 1 + out'[7] + 2 = Len(out')
    BY <1>3
  <2>3. \A i \in 1..Len(out') : out'[i] = TargetByte <=> i > Len(out')
    <3> SUFFICES ASSUME NEW i \in 1..Len(out') PROVE out'[i] # TargetByte /\ ~(i > Len(out'))
      OBVIOUS
    <3>1. out'[i] \in U8
      BY <1>3
    <3>2. \A b \in U8 : b # TargetByte
      BY DEF U8, TargetByte
    <3>3. Len(out') \in Nat
      BY <1>3
    <3> QED BY <3>1, <3>2, <3>3
  <2>4. out'[4] = IF answer' = "Succeeded" THEN 0 ELSE 5
    BY <1>3, <2>1
  <2>5. Len(out') <= Len(out')
    BY <1>3
  <2> QED BY <2>1, <2>2, <2>3, <2>4, <2>5, Zenon DEF RepliesDelimited
<1>9. answer' # "none" /\ state' = "READY"
  BY <1>1
<1> QED BY <1>1, <1>3, <1>4, <1>6, <1>7, <1>8, <1>9, Zenon DEF SocksInv
\* The target's data follow the reply.
LEMMA TargetDataKeeps ==
  ASSUME SocksInv, TargetData
  PROVE  SocksInv'
<1>1. /\ UNCHANGED <<app, arrived, taken, readable, state, items, answer, status>>
      /\ answer = "Succeeded"
      /\ out' = Append(out, TargetByte)
  BY DEF TargetData
<1>2. /\ out \in Seq(U8 \cup {TargetByte})
      /\ out[7] \in {0, 3}
      /\ state = "READY"
      /\ RepliesDelimited
  BY <1>1 DEF SocksInv, TypeOK
<1> DEFINE e == 2 + 4 + 1 + out[7] + 2
<1>3. /\ e <= Len(out)
      /\ \A i \in 1..Len(out) : out[i] = TargetByte <=> i > e
      /\ out[4] = 0
  BY <1>1, <1>2 DEF RepliesDelimited
<1>4. e \in Nat /\ e >= 9 /\ Len(out) \in Nat
  BY <1>2
<1> HIDE DEF e
<1>5. /\ out' \in Seq(U8 \cup {TargetByte})
      /\ Len(out') = Len(out) + 1
      /\ \A i \in 1..Len(out) : out'[i] = out[i]
      /\ out'[Len(out) + 1] = TargetByte
  BY <1>1, <1>2
<1>6. out'[7] = out[7] /\ out'[4] = out[4]
  <2>1. 7 \in 1..Len(out) /\ 4 \in 1..Len(out)
    BY <1>3, <1>4
  <2> QED BY <1>5, <2>1, Zenon
<1>7. \A i \in 1..Len(out') : out'[i] = TargetByte <=> i > e
  <2> SUFFICES ASSUME NEW i \in 1..Len(out') PROVE out'[i] = TargetByte <=> i > e
    OBVIOUS
  <2>1. CASE i \in 1..Len(out)
    BY <1>3, <1>5, <2>1
  <2>2. CASE i \notin 1..Len(out)
    <3>1. i = Len(out) + 1
      BY <1>4, <1>5, <2>2
    <3>2. i > e
      BY <1>3, <1>4, <3>1
    <3> QED BY <1>5, <3>1, <3>2
  <2> QED BY <2>1, <2>2
<1>8. RepliesDelimited'
  <2>1. e <= Len(out')
    BY <1>3, <1>4, <1>5
  <2>2. 2 + 4 + 1 + out'[7] + 2 = e
    BY <1>6 DEF e
  <2>3. answer' = "Succeeded" /\ out'[4] = 0
    BY <1>1, <1>3, <1>6
  <2> QED BY <1>7, <2>1, <2>2, <2>3 DEF RepliesDelimited
<1>9. TypeOK'
  BY <1>1, <1>5 DEF SocksInv, TypeOK
<1>10. Sent' = Sent
  BY <1>1 DEF Sent
<1>11. ItemsAsSent' /\ PanicIsDeserved' /\ NothingHeldBack'
  BY <1>1, ItemsStay, PanicStays, BufferStays DEF SocksInv
<1>12. out'[7] \in {0, 3} /\ state' = "READY" /\ answer' # "none"
  BY <1>1, <1>2, <1>6
<1> QED BY <1>1, <1>8, <1>9, <1>10, <1>11, <1>12, Zenon DEF SocksInv

\* An item that is taken keeps those before it where they are.
LEMMA ItemTaken ==
  ASSUME SocksInv, NEW m \in Item, app' = app, items' = Append(items, m),
         taken' \in Nat, taken <= taken', m.from <= m.to, m.to <= taken',
         Len(items) = 0 => m = [type |-> "Negotiation", from |-> 2, to |-> GreetingLen(app)],
         Len(items) = 1 => IsRequest(m),
         Len(items) > 1 => /\ m.type = "Data"
                           /\ m.from = IF Len(items) = 2 THEN RequestEnd(app)
                                       ELSE items[Len(items)].to
  PROVE  /\ items' \in Seq(Item)
         /\ Len(items') = Len(items) + 1
         /\ items'[Len(items')] = m
         /\ ItemsAsSent'
         /\ \A i \in 1..Len(items') : items'[i].from <= items'[i].to /\ items'[i].to <= taken'
<1> DEFINE n == Len(items)
<1>1. items \in Seq(Item) /\ taken \in Nat
  BY Lengths DEF SocksInv, TypeOK
<1>2. n \in Nat
  BY <1>1
<1>3. /\ items' \in Seq(Item)
      /\ Len(items') = n + 1
      /\ items'[n + 1] = m
      /\ \A i \in 1..n : items'[i] = items[i]
  BY <1>1
<1>4. \A i \in 1..n : items[i] \in Item /\ items[i].from \in Nat /\ items[i].to \in Nat
  <2>1. \A i \in 1..n : items[i] \in Item
    BY <1>1
  <2>2. \A x \in Item : x.from \in Nat /\ x.to \in Nat
    BY DEF Item
  <2> QED BY <2>1, <2>2
<1>5. \A i \in 1..n : items[i].from <= items[i].to /\ items[i].to <= taken
  BY DEF SocksInv
<1> HIDE DEF n
<1>6. \A i \in 1..Len(items') : items'[i].from <= items'[i].to /\ items'[i].to <= taken'
  <2> SUFFICES ASSUME NEW i \in 1..(n + 1)
               PROVE  items'[i].from <= items'[i].to /\ items'[i].to <= taken'
    BY <1>3
  <2>1. CASE i \in 1..n
    <3>1. items'[i] = items[i]
      BY <1>3, <2>1
    <3>2. items[i].to \in Nat /\ items[i].from <= items[i].to /\ items[i].to <= taken
      BY <1>4, <1>5, <2>1
    <3>3. items[i].to <= taken'
      BY <1>1, <3>2
    <3> QED BY <3>1, <3>2, <3>3
  <2>2. CASE i \notin 1..n
    <3>1. i = n + 1
      BY <1>2, <2>2
    <3> QED BY <1>3, <3>1
  <2> QED BY <2>1, <2>2
<1>7. ItemsAsSent'
  <2>1. \A i \in 1..(n + 1) :
          /\ i = 1 => items'[i] = [type |-> "Negotiation", from |-> 2, to |-> GreetingLen(app)]
          /\ i = 2 => IsRequest(items'[i])
          /\ i > 2 => /\ items'[i].type = "Data"
                      /\ items'[i].from = IF i = 3 THEN RequestEnd(app) ELSE items'[i - 1].to
    <3> SUFFICES ASSUME NEW i \in 1..(n + 1)
        PROVE /\ i = 1 => items'[i] = [type |-> "Negotiation", from |-> 2, to |-> GreetingLen(app)]
              /\ i = 2 => IsRequest(items'[i])
              /\ i > 2 => /\ items'[i].type = "Data"
                          /\ items'[i].from = IF i = 3 THEN RequestEnd(app) ELSE items'[i - 1].to
      OBVIOUS
    <3>1. i > 3 => i - 1 \in 1..n
      BY <1>2
    <3>2. i > 3 => items'[i - 1] = items[i - 1]
      BY <1>3, <3>1
    <3>3. CASE i \in 1..n
      <4>1. items'[i] = items[i]
        BY <1>3, <3>3
      <4>2. /\ i = 1 => items[i] = [type |-> "Negotiation", from |-> 2, to |-> GreetingLen(app)]
            /\ i = 2 => IsRequest(items[i])
            /\ i > 2 => /\ items[i].type = "Data"
                        /\ items[i].from = IF i = 3 THEN RequestEnd(app) ELSE items[i - 1].to
        BY <3>3 DEF SocksInv, ItemsAsSent, n
      <4>3. i > 2 => \/ i = 3
                     \/ i > 3
        OBVIOUS
      <4>4. i > 3 => i # 3
        OBVIOUS
      <4> QED BY <3>2, <4>1, <4>2, <4>3, <4>4, Zenon
    <3>4. CASE i \notin 1..n
      <4>1. i = n + 1
        BY <1>2, <3>4
      <4>2. items'[i] = m
        BY <1>3, <4>1
      <4>3. i = 1 => m = [type |-> "Negotiation", from |-> 2, to |-> GreetingLen(app)]
        BY <1>2, <4>1 DEF n
      <4>4. i = 2 => IsRequest(m)
        <5>1. i = 2 => n = 1
          BY <1>2, <4>1
        <5> QED BY <5>1, Zenon DEF n
      <4>5. i > 2 => m.type = "Data" /\ m.from = IF i = 3 THEN RequestEnd(app) ELSE items[i - 1].to
        <5>1. i > 2 => n > 1 /\ (i = 3 <=> n = 2) /\ i - 1 = n
          BY <1>2, <4>1
        <5> QED BY <5>1 DEF n
      <4>6. i > 2 => \/ i = 3
                     \/ i > 3
        OBVIOUS
      <4>7. i > 3 => i # 3
        OBVIOUS
      <4> QED BY <3>2, <4>2, <4>3, <4>4, <4>5, <4>6, <4>7, Zenon
    <3> QED BY <3>3, <3>4
  <2> QED BY <1>3, <2>1 DEF ItemsAsSent, IsRequest
<1> QED BY <1>3, <1>6, <1>7 DEF n
\* decode and the handler of what it yields, by the state it is called in.
LEMMA DecodeKeeps ==
  ASSUME SocksInv, Decode
  PROVE  SocksInv'
<1> DEFINE g == GreetingLen(app)
<1> DEFINE e == RequestEnd(app)
<1>1. /\ UNCHANGED <<app, arrived, answer>>
      /\ status = "open"
      /\ readable
  BY DEF Decode
<1>2. /\ app \in Apps /\ arrived \in Nat /\ taken \in Nat /\ taken <= arrived
      /\ items \in Seq(Item)
      /\ arrived <= StreamLen(app) /\ StreamLen(app) \in Nat
      /\ g \in Nat /\ 2 <= g /\ e \in Nat /\ g < e
  <2>1. app \in Apps
    BY DEF SocksInv, TypeOK
  <2>2. StreamLen(app) \in Nat /\ g \in Nat /\ 2 <= g /\ e \in Nat /\ g < e
    BY <2>1, Lengths
  <2>3. arrived \in 0..StreamLen(app) /\ taken \in 0..arrived /\ items \in Seq(Item)
    BY DEF SocksInv, TypeOK
  <2>4. arrived \in Nat /\ arrived <= StreamLen(app)
    BY <2>2, <2>3
  <2>5. taken \in Nat /\ taken <= arrived
    BY <2>3, <2>4
  <2> QED BY <2>1, <2>2, <2>3, <2>4, <2>5
<1>3. Len(items) \in Nat
  BY <1>2
<1>4. ASSUME Decoded.result = "none",
             /\ readable' = FALSE
             /\ UNCHANGED <<taken, state, items, out, status>>,
             /\ state = "NEGOTIATION" => Buffered < g \/ (app.eager /\ Buffered >= 258)
             /\ state = "WORKING" => arrived < e
             /\ state = "READY" => Buffered = 0
      PROVE  SocksInv'
  <2>1. TypeOK'
    BY <1>1, <1>4 DEF SocksInv, TypeOK
  <2>2. Sent' = Sent
    BY <1>1, <1>4 DEF Sent
  <2>3. ItemsAsSent' /\ PanicIsDeserved' /\ RepliesDelimited'
    BY <1>1, <1>4, ItemsStay, PanicStays, RepliesStay DEF SocksInv
  <2>4. NothingHeldBack'
    BY <1>1, <1>4 DEF NothingHeldBack, Buffered
  <2> QED BY <1>1, <1>4, <2>1, <2>2, <2>3, <2>4, Zenon DEF SocksInv
<1>5. ASSUME NEW m \in Item, NEW len \in Nat,
             items' = Append(items, m),
             taken' = taken + len,
             state' = StateAfter(state),
             taken + len <= arrived,
             out' = IF m.type = "Negotiation" THEN out \o EncodeMethodSelection ELSE out,
             UNCHANGED <<readable, status>>,
             m.from <= m.to, m.to <= taken',
             state = "NEGOTIATION" => m = [type |-> "Negotiation", from |-> 2, to |-> g] /\ taken' = g,
             state = "WORKING" => IsRequest(m) /\ taken' = e /\ WellFormed(app),
             state = "READY" => m.type = "Data" /\ m.from = taken /\ m.to = taken'
      PROVE  SocksInv'
  <2>1. /\ state \in {"NEGOTIATION", "WORKING", "READY"}
        /\ state = "NEGOTIATION" => Len(items) = 0
        /\ state = "WORKING" => Len(items) = 1
        /\ state = "READY" => Len(items) > 1
    BY <1>3 DEF SocksInv, TypeOK
  <2>2. taken' \in Nat /\ taken <= taken' /\ taken' <= arrived
    BY <1>2, <1>5
  <2>3. /\ items' \in Seq(Item)
        /\ Len(items') = Len(items) + 1
        /\ items'[Len(items')] = m
        /\ ItemsAsSent'
        /\ \A i \in 1..Len(items') : items'[i].from <= items'[i].to /\ items'[i].to <= taken'
    <3>1. Len(items) = 0 => m = [type |-> "Negotiation", from |-> 2, to |-> g]
      BY <1>5, <2>1
    <3>2. Len(items) = 1 => IsRequest(m)
      <4>1. Len(items) = 1 => state = "WORKING"
        BY <2>1
      <4> QED BY <1>5, <4>1, Zenon
    <3>3. Len(items) > 1 => /\ m.type = "Data"
                            /\ m.from = IF Len(items) = 2 THEN e ELSE items[Len(items)].to
      <4>1. Len(items) > 1 => state = "READY"
        <5>1. ~(0 > 1) /\ ~(1 > 1)
          OBVIOUS
        <5> QED BY <2>1, <5>1, Zenon
      <4> QED BY <1>5, <4>1, Zenon DEF SocksInv
    <3> QED BY <1>1, <1>5, <2>2, <3>1, <3>2, <3>3, ItemTaken
  <2>4. /\ state' \in {"WORKING", "READY"}
        /\ state' = "WORKING" => state = "NEGOTIATION"
        /\ state' = "READY" => state \in {"WORKING", "READY"}
    BY <1>5, <2>1 DEF StateAfter
  <2>5. /\ answer = "none" => out' = EncodeMethodSelection
        /\ answer # "none" => out' = out
        /\ out' \in Seq(U8 \cup {TargetByte})
    <3>1. CASE state = "NEGOTIATION"
      <4>1. m.type = "Negotiation" /\ out = << >> /\ answer = "none"
        BY <1>5, <3>1 DEF SocksInv
      <4>2. EncodeMethodSelection \in Seq(U8 \cup {TargetByte})
        BY DEF EncodeMethodSelection, U8
      <4>3. out' = << >> \o EncodeMethodSelection
        BY <1>5, <4>1
      <4>4. out' = EncodeMethodSelection
        BY <4>2, <4>3
      <4> QED BY <4>1, <4>2, <4>4
    <3>2. CASE state # "NEGOTIATION"
      <4>1. m.type # "Negotiation"
        <5>1. state = "WORKING" => m.type = "TargetRequest"
          BY <1>5 DEF IsRequest
        <5> QED BY <1>5, <2>1, <3>2, <5>1
      <4>2. out' = out
        BY <1>5, <4>1
      <4>3. out \in Seq(U8 \cup {TargetByte}) /\ (answer = "none" => out = EncodeMethodSelection)
        BY <3>2 DEF SocksInv, TypeOK
      <4> QED BY <4>2, <4>3
    <3> QED BY <3>1, <3>2
  <2>6. TypeOK'
    <3>1. taken' \in 0..arrived /\ arrived \in 0..StreamLen(app)
      BY <1>2, <2>2
    <3> QED BY <1>1, <1>5, <2>3, <2>4, <2>5, <3>1 DEF SocksInv, TypeOK
  <2>7. arrived' <= Sent'
    <3>1. Sent \in Nat /\ Sent' \in Nat /\ Sent <= Sent'
      BY <1>1, <1>5, SentGrows
    <3>2. arrived <= Sent
      BY DEF SocksInv
    <3> QED BY <1>1, <1>2, <3>1, <3>2
  <2>8. state' = "WORKING" => taken' = g /\ Len(items') = 1 /\ answer' = "none"
    BY <1>1, <1>5, <2>1, <2>3, <2>4 DEF SocksInv
  <2>9. state' = "READY" =>
          /\ Len(items') >= 2
          /\ taken' = IF Len(items') = 2 THEN e ELSE items'[Len(items')].to
    <3>1. state' = "READY" => Len(items') >= 2
      BY <1>3, <2>1, <2>3, <2>4
    <3>2. CASE state = "WORKING"
      <4>1. Len(items') = 2 /\ taken' = e
        <5>1. Len(items') = 1 + 1
          BY <2>1, <2>3, <3>2, Zenon
        <5> QED BY <1>5, <3>2, <5>1
      <4> QED BY <4>1
    <3>3. CASE state = "READY"
      <4>1. Len(items') # 2
        BY <1>3, <2>1, <2>3, <3>3
      <4> QED BY <1>5, <2>3, <3>1, <3>3, <4>1
    <3> QED BY <2>4, <3>2, <3>3
  <2>10. PanicIsDeserved'
    <3>1. state' = "READY" => WellFormed(app)
      <4>1. state = "READY" => WellFormed(app)
        BY Zenon DEF SocksInv, PanicIsDeserved
      <4>2. state = "WORKING" => WellFormed(app)
        BY <1>5, Zenon
      <4> QED BY <2>4, <4>1, <4>2
    <3>2. status' = "open"
      BY <1>1, <1>5
    <3> QED BY <1>1, <3>1, <3>2 DEF PanicIsDeserved, WellFormed
  <2>11. NothingHeldBack'
    BY <1>1, <1>5 DEF NothingHeldBack
  <2>12. RepliesDelimited'
    <3>1. CASE answer = "none"
      <4>1. Len(EncodeMethodSelection) = 2
        BY DEF EncodeMethodSelection
      <4> QED BY <1>1, <2>4, <2>5, <3>1, <4>1 DEF RepliesDelimited
    <3>2. CASE answer # "none"
      <4>1. state = "READY"
        BY <2>1, <3>2 DEF SocksInv
      <4>2. state' = "READY" /\ out' = out
        BY <1>5, <2>5, <3>2, <4>1 DEF StateAfter
      <4> QED BY <1>1, <4>1, <4>2, RepliesStay DEF SocksInv
    <3> QED BY <3>1, <3>2
  <2>13. /\ state' # "NEGOTIATION"
         /\ answer' = "none" => out' = EncodeMethodSelection
         /\ answer' # "none" => out'[7] \in {0, 3}
    BY <1>1, <2>4, <2>5 DEF SocksInv
  <2>14. g' = g /\ e' = e
    BY <1>1, Zenon DEF GreetingLen, RequestEnd, AddressLen
  <2> QED
    BY <2>3, <2>6, <2>7, <2>8, <2>9, <2>10, <2>11, <2>12, <2>13, <2>14, Zenon DEF SocksInv
<1>6. ASSUME NEW m, NEW len, Decoded = ItemResult(m, len)
      PROVE  /\ Decoded.result = "item" /\ Decoded.item = m /\ Decoded.len = len
             /\ items' = Append(items, m)
             /\ taken' = taken + len
             /\ state' = StateAfter(state)
             /\ out' = IF m.type = "Negotiation" THEN out \o EncodeMethodSelection ELSE out
             /\ UNCHANGED <<readable, status>>
  <2>1. Decoded.result = "item" /\ Decoded.item = m /\ Decoded.len = len
    BY <1>6 DEF ItemResult
  <2> QED BY <2>1 DEF Decode
<1>7. ASSUME Decoded = Waits
      PROVE  Decoded.result = "none" /\ readable' = FALSE /\ UNCHANGED <<taken, state, items, out, status>>
  <2>1. Decoded.result = "none"
    BY <1>7 DEF Waits
  <2> QED BY <2>1 DEF Decode
<1>8. CASE state = "NEGOTIATION"
  <2>1. CASE Decoded = Waits /\ (Buffered < g \/ (app.eager /\ Buffered >= 258))
    BY <1>4, <1>7, <1>8, <2>1
  <2>2. CASE Decoded = ItemResult([type |-> "Negotiation", from |-> 2, to |-> g], g) /\ g <= arrived
    <3> DEFINE m == [type |-> "Negotiation", from |-> 2, to |-> g]
    <3>1. m \in Item /\ m.from = 2 /\ m.to = g /\ m.type = "Negotiation"
      BY <1>2 DEF Item
    <3>2. taken = 0
      BY <1>8 DEF SocksInv
    <3>3. taken + g <= arrived /\ g \in Nat /\ 2 <= g /\ taken + g = g
      BY <1>2, <2>2, <3>2
    <3>4. m = [type |-> "Negotiation", from |-> 2, to |-> g]
      OBVIOUS
    <3> HIDE DEF m
    <3>5. Decoded = ItemResult(m, g)
      BY <2>2 DEF m
    <3> QED BY <1>5, <1>6, <1>8, <3>1, <3>3, <3>4, <3>5
  <2> QED BY <1>8, <2>1, <2>2, NegotiationDecoded
<1>9. CASE state = "WORKING"
  <2>1. CASE Decoded = Waits /\ arrived < e
    BY <1>4, <1>7, <1>9, <2>1
  <2>2. CASE Decoded = Panics /\ ~WellFormed(app)
    <3>1. Decoded.result = "panic"
      BY <2>2 DEF Panics
    <3>2. status' = "panic" /\ UNCHANGED <<taken, readable, state, items, out>>
      BY <3>1 DEF Decode
    <3>3. TypeOK'
      BY <1>1, <3>2 DEF SocksInv, TypeOK
    <3>4. Sent' = Sent
      BY <1>1, <3>2 DEF Sent
    <3>5. ItemsAsSent' /\ NothingHeldBack' /\ RepliesDelimited'
      BY <1>1, <3>2, ItemsStay, BufferStays, RepliesStay DEF SocksInv
    <3>6. PanicIsDeserved'
      BY <1>1, <1>9, <2>2, <3>2 DEF PanicIsDeserved, WellFormed
    <3> QED BY <1>1, <3>2, <3>3, <3>4, <3>5, <3>6, Zenon DEF SocksInv
  <2>3. ASSUME NEW m \in Item, Decoded = ItemResult(m, e - g), IsRequest(m), m.from <= m.to,
               WellFormed(app), e <= arrived
        PROVE  SocksInv'
    <3>1. taken = g
      BY <1>9 DEF SocksInv
    <3>2. e - g \in Nat /\ taken + (e - g) = e /\ taken + (e - g) <= arrived
      BY <1>2, <2>3, <3>1
    <3>3. m.to = e - 2
      BY <2>3 DEF IsRequest
    <3>4. m.to <= e
      BY <1>2, <3>3
    <3>5. /\ items' = Append(items, m)
          /\ taken' = taken + (e - g)
          /\ state' = StateAfter(state)
          /\ out' = IF m.type = "Negotiation" THEN out \o EncodeMethodSelection ELSE out
          /\ UNCHANGED <<readable, status>>
      BY <1>6, <2>3, Zenon
    <3>6. taken' = e
      BY <3>2, <3>5
    <3>7. m.to <= taken'
      BY <3>4, <3>6
    <3>8. state # "NEGOTIATION" /\ state # "READY"
      BY <1>9
    <3> HIDE DEF e, g
    <3> QED BY <1>5, <2>3, <3>2, <3>5, <3>6, <3>7, <3>8, Zenon
  <2> QED BY <1>9, <2>1, <2>2, <2>3, WorkingDecoded, Zenon
<1>10. CASE state = "READY"
  <2>1. CASE Decoded = Waits /\ Buffered = 0
    BY <1>4, <1>7, <1>10, <2>1
  <2>2. CASE /\ Decoded = ItemResult([type |-> "Data", from |-> taken, to |-> arrived], Buffered)
             /\ Buffered \in Nat
    <3> DEFINE m == [type |-> "Data", from |-> taken, to |-> arrived]
    <3>1. m \in Item /\ m.from = taken /\ m.to = arrived /\ m.type = "Data"
      BY <1>2 DEF Item
    <3>2. taken + Buffered = arrived /\ taken + Buffered <= arrived
      BY <1>2 DEF Buffered
    <3> HIDE DEF m
    <3>3. Decoded = ItemResult(m, Buffered)
      BY <2>2 DEF m
    <3>4. taken' = arrived
      BY <1>6, <3>2, <3>3
    <3>5. m.from <= m.to /\ m.to <= taken'
      BY <1>2, <3>1, <3>4
    <3> QED BY <1>5, <1>6, <1>10, <2>2, <3>1, <3>2, <3>3, <3>4, <3>5
  <2> QED BY <1>10, <2>1, <2>2, ReadyDecoded
<1> QED
  <2>1. state \in {"NEGOTIATION", "WORKING", "READY"}
    BY DEF SocksInv, TypeOK
  <2> QED BY <1>8, <1>9, <1>10, <2>1

\* Each step of the session keeps the invariant.
LEMMA SocksStep == SocksInv /\ [Next]_vars => SocksInv'
<1> SUFFICES ASSUME SocksInv, [Next]_vars PROVE SocksInv'
  OBVIOUS
<1>1. CASE ReadChunk
  BY <1>1, ReadChunkKeeps
<1>2. CASE Decode
  BY <1>2, DecodeKeeps
<1>3. ASSUME NEW ok \in BOOLEAN, Answer(ok) PROVE SocksInv'
  BY <1>3, AnswerKeeps
<1>4. CASE TargetData
  BY <1>4, TargetDataKeeps
<1>5. CASE Close
  BY <1>5, CloseKeeps
<1>6. CASE UNCHANGED vars
  <2>1. UNCHANGED <<app, arrived, taken, readable, state, items, answer, out, status>>
    BY <1>6 DEF vars
  <2>2. TypeOK' /\ Sent' = Sent
    BY <2>1 DEF SocksInv, TypeOK, Sent
  <2>3. ItemsAsSent' /\ PanicIsDeserved' /\ NothingHeldBack' /\ RepliesDelimited'
    BY <2>1, ItemsStay, PanicStays, BufferStays, RepliesStay DEF SocksInv
  <2> QED BY <2>1, <2>2, <2>3, Zenon DEF SocksInv
<1> QED BY <1>1, <1>2, <1>3, <1>4, <1>5, <1>6 DEF Next

-----------------------------------------------------------------------------
(* The theorems.                                                           *)

\* The codec's state, its buffer and what it has yielded go together
\* (codec.rs:123-148), for all applications and chunkings.
THEOREM SocksInvariance == Spec => []SocksInv
  BY SocksInitial, SocksStep, PTL DEF Spec

\* decode yields the greeting, the request with all the bits of its port, and
\* the data in one piece after the other (codec.rs:28-148).
THEOREM ItemsTheorem == Spec => []ItemsAsSent
<1>1. SocksInv => ItemsAsSent
  BY DEF SocksInv
<1> QED BY <1>1, SocksInvariance, PTL

\* A decoder that panics has met a malformed request, never a good one of which
\* a part has arrived (codec.rs:74, 88, 100, 110).
THEOREM PanicTheorem == Spec => []PanicIsDeserved
<1>1. SocksInv => PanicIsDeserved
  BY DEF SocksInv
<1> QED BY <1>1, SocksInvariance, PTL

\* A complete item is held back by the wrapping length only (codec.rs:43).
THEOREM HeldBackTheorem == Spec => []NothingHeldBack
<1>1. SocksInv => NothingHeldBack
  BY DEF SocksInv
<1> QED BY <1>1, SocksInvariance, PTL

\* An application that follows the lengths in the replies (codec.rs:152-199)
\* takes all of the target's data for data, and nothing else.
THEOREM RepliesTheorem == Spec => []RepliesDelimited
<1>1. SocksInv => RepliesDelimited
  BY DEF SocksInv
<1> QED BY <1>1, SocksInvariance, PTL
=============================================================================
