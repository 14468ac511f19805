-------------------------- MODULE ProxyCodecProofs --------------------------
(***************************************************************************)
(* For all packets, tag lengths, chunkings and ends of the stream: packets *)
(* come out of the tunnel's codec as they went in, an intact stream never  *)
(* meets a decoding error, and no complete packet is held back.            *)
(***************************************************************************)
EXTENDS ProxyCodec, Integers, TLAPS

-----------------------------------------------------------------------------
(* Sequences.                                                              *)

\* The elements of a concatenation.
LEMMA Concatenation ==
  ASSUME NEW S, NEW s \in Seq(S), NEW t \in Seq(S)
  PROVE  /\ s \o t \in Seq(S)
         /\ Len(s \o t) = Len(s) + Len(t)
         /\ \A i \in 1..Len(s) : (s \o t)[i] = s[i]
         /\ \A i \in 1..Len(t) : (s \o t)[Len(s) + i] = t[i]
  OBVIOUS

\* Sequences with the same elements are equal.
LEMMA SameElements ==
  ASSUME NEW S, NEW s \in Seq(S), NEW t \in Seq(S), Len(s) = Len(t),
         \A i \in 1..Len(s) : s[i] = t[i]
  PROVE  s = t
  OBVIOUS

\* What is left of a sequence without its first n elements.
LEMMA Rest ==
  ASSUME NEW S, NEW s \in Seq(S), NEW n \in 0..Len(s)
  PROVE  /\ SubSeq(s, n + 1, Len(s)) \in Seq(S)
         /\ Len(SubSeq(s, n + 1, Len(s))) = Len(s) - n
         /\ \A k \in 1..(Len(s) - n) : SubSeq(s, n + 1, Len(s))[k] = s[n + k]
  OBVIOUS

\* Elements that are taken from a sequence are taken from any continuation of it.
LEMMA RestOfConcatenation ==
  ASSUME NEW S, NEW x \in Seq(S), NEW y \in Seq(S), NEW n \in 0..Len(x)
  PROVE  SubSeq(x, n + 1, Len(x)) \o y = SubSeq(x \o y, n + 1, Len(x \o y))
<1> DEFINE a == SubSeq(x, n + 1, Len(x))
<1> DEFINE c == x \o y
<1> DEFINE r == SubSeq(c, n + 1, Len(c))
<1>1. Len(x) \in Nat /\ Len(y) \in Nat /\ n \in Nat /\ n <= Len(x)
  OBVIOUS
<1>2. a \in Seq(S) /\ Len(a) = Len(x) - n /\ \A k \in 1..(Len(x) - n) : a[k] = x[n + k]
  BY Rest
<1>3. /\ c \in Seq(S) /\ Len(c) = Len(x) + Len(y)
      /\ \A k \in 1..Len(x) : c[k] = x[k]
      /\ \A k \in 1..Len(y) : c[Len(x) + k] = y[k]
  BY Concatenation
<1> HIDE DEF a, c
<1>4. r \in Seq(S) /\ Len(r) = Len(c) - n /\ \A k \in 1..(Len(c) - n) : r[k] = c[n + k]
  <2>1. n \in 0..Len(c) /\ c \in Seq(S)
    BY <1>1, <1>3
  <2> QED BY <2>1, Rest
<1> HIDE DEF r
<1>5. /\ a \o y \in Seq(S) /\ Len(a \o y) = Len(a) + Len(y)
      /\ \A k \in 1..Len(a) : (a \o y)[k] = a[k]
      /\ \A k \in 1..Len(y) : (a \o y)[Len(a) + k] = y[k]
  <2>1. a \in Seq(S)
    BY <1>2
  <2> QED BY <2>1, Concatenation
<1> DEFINE ay == a \o y
<1> HIDE DEF ay
<1>6. Len(ay) = Len(r) /\ Len(r) = Len(x) - n + Len(y)
  BY <1>1, <1>2, <1>3, <1>4, <1>5 DEF ay
<1>7. \A k \in 1..Len(ay) : ay[k] = r[k]
  <2> SUFFICES ASSUME NEW k \in 1..Len(ay) PROVE ay[k] = r[k]
    OBVIOUS
  <2>1. k \in Nat /\ k >= 1 /\ k <= Len(x) - n + Len(y)
    BY <1>1, <1>6
  <2>2. r[k] = c[n + k]
    <3>1. k \in 1..(Len(c) - n)
      BY <1>1, <1>3, <2>1
    <3> QED BY <1>4, <3>1
  <2>3. CASE k <= Len(x) - n
    <3>1. k \in 1..(Len(x) - n) /\ n + k \in 1..Len(x) /\ k \in 1..Len(a)
      BY <1>1, <1>2, <2>1, <2>3
    <3>2. ay[k] = x[n + k]
      BY <1>2, <1>5, <3>1, Zenon DEF ay
    <3>3. c[n + k] = x[n + k]
      BY <1>3, <3>1, Zenon
    <3> QED BY <2>2, <3>2, <3>3
  <2>4. CASE ~(k <= Len(x) - n)
    <3> DEFINE l == k - (Len(x) - n)
    <3>1. l \in 1..Len(y) /\ Len(a) + l = k /\ Len(x) + l = n + k
      BY <1>1, <1>2, <2>1, <2>4
    <3> HIDE DEF l
    <3>2. ay[Len(a) + l] = y[l] /\ c[Len(x) + l] = y[l]
      BY <1>3, <1>5, <3>1, Zenon DEF ay
    <3> QED BY <2>2, <3>1, <3>2
  <2> QED BY <2>3, <2>4
<1>8. ay \in Seq(S) /\ r \in Seq(S)
  BY <1>4, <1>5 DEF ay
<1>9. ay = r
  BY <1>6, <1>7, <1>8, SameElements
<1> QED BY <1>9 DEF ay, a, r, c

-----------------------------------------------------------------------------
(* The bytes of a packet.                                                  *)

\* The length in the header is the length of the body
\* (message.rs:55-87, 363, 431).
LEMMA BodyLength ==
  ASSUME NEW m \in Transfers
  PROVE  BodyLen(m) \in Nat /\ LengthField(m) = BodyLen(m)
<1>1. m.size \in Nat
  BY TransfersAssumption
<1>2. BodyLen(m) = 1 \/ BodyLen(m) = 4 \/ BodyLen(m) = m.size
  BY Zenon DEF BodyLen
<1>3. BodyLen(m) \in Nat /\ BodyLen(m) < LenMod
  BY <1>1, <1>2, WidthAssumption
<1>4. TransferLen(m) = BodyLen(m)
  BY Zenon DEF TransferLen, BodyLen
<1>5. \A n \in Nat : n < LenMod => n % LenMod = n
  BY WidthAssumption
<1>6. BodyLen(m) % LenMod = BodyLen(m)
  BY <1>3, <1>5
<1> QED BY <1>3, <1>4, <1>6 DEF LengthField

\* A sealed part.
LEMMA PartBytes ==
  ASSUME NEW i \in Nat, NEW part \in Parts, NEW len \in Nat
  PROVE  /\ Part(i, part, len) \in Seq(Bytes)
         /\ Len(Part(i, part, len)) = len
         /\ \A j \in 1..len : Part(i, part, len)[j] = [packet |-> i, part |-> part, at |-> j]
<1> DEFINE p == [k \in 1..len |-> [packet |-> i, part |-> part, at |-> k]]
<1>1. \A k \in 1..len : [packet |-> i, part |-> part, at |-> k] \in Bytes
  BY DEF Bytes
<1>2. p \in [1..len -> Bytes]
  BY <1>1
<1>3. p \in Seq(Bytes) /\ Len(p) = len
  BY <1>2
<1>4. \A j \in 1..len : p[j] = [packet |-> i, part |-> part, at |-> j]
  OBVIOUS
<1> QED BY <1>3, <1>4, Zenon DEF Part

\* A packet on the wire: its header, then its body.  Its first byte is like no
\* other byte of it.
LEMMA FrameBytes ==
  ASSUME NEW i \in Nat, NEW m \in Transfers
  PROVE  LET h == HeaderLen + TagLen
             b == BodyLen(m) + TagLen
             f == Encode(i, m)
         IN /\ f \in Seq(Bytes)
            /\ h \in Nat /\ b \in Nat /\ h > 1 /\ b >= 1
            /\ Len(f) = h + b
            /\ \A j \in 1..h : f[j] = SealedHeader(i)[j]
            /\ \A j \in 1..b : f[h + j] = SealedBody(i, m)[j]
            /\ f[1] = FirstByte(i)
            /\ \A j \in 1..Len(f) : f[j].packet = i
            /\ \A j \in 2..Len(f) : f[j] \in Bytes /\ (f[j].part = "body" \/ f[j].at # 1)
<1> DEFINE h == HeaderLen + TagLen
<1> DEFINE b == BodyLen(m) + TagLen
<1> DEFINE f == Encode(i, m)
<1>1. h \in Nat /\ b \in Nat /\ h > 1 /\ b >= 1
  BY LengthAssumption, BodyLength DEF HeaderLen
<1> HIDE DEF h, b
<1>2. /\ SealedHeader(i) \in Seq(Bytes)
      /\ Len(SealedHeader(i)) = h
      /\ \A j \in 1..h : SealedHeader(i)[j] = [packet |-> i, part |-> "header", at |-> j]
  <2>1. "header" \in Parts
    BY DEF Parts
  <2>2. SealedHeader(i) = Part(i, "header", h)
    BY DEF SealedHeader, h
  <2> QED BY <1>1, <2>1, <2>2, PartBytes
<1>3. /\ SealedBody(i, m) \in Seq(Bytes)
      /\ Len(SealedBody(i, m)) = b
      /\ \A j \in 1..b : SealedBody(i, m)[j] = [packet |-> i, part |-> "body", at |-> j]
  <2>1. "body" \in Parts
    BY DEF Parts
  <2>2. SealedBody(i, m) = Part(i, "body", b)
    BY DEF SealedBody, b
  <2>3. b \in Nat
    BY <1>1
  <2>4. /\ Part(i, "body", b) \in Seq(Bytes)
        /\ Len(Part(i, "body", b)) = b
        /\ \A j \in 1..b : Part(i, "body", b)[j] = [packet |-> i, part |-> "body", at |-> j]
    BY <2>1, <2>3, PartBytes
  <2> QED BY <2>2, <2>4, Zenon
<1>4. f = SealedHeader(i) \o SealedBody(i, m)
  BY DEF Encode
<1> HIDE DEF f
<1>5. /\ f \in Seq(Bytes)
      /\ Len(f) = h + b
      /\ \A j \in 1..h : f[j] = SealedHeader(i)[j]
      /\ \A j \in 1..b : f[h + j] = SealedBody(i, m)[j]
  <2>1. SealedHeader(i) \in Seq(Bytes)
    BY <1>2
  <2>2. SealedBody(i, m) \in Seq(Bytes)
    BY <1>3
  <2>3. /\ f \in Seq(Bytes)
        /\ Len(f) = Len(SealedHeader(i)) + Len(SealedBody(i, m))
        /\ \A j \in 1..Len(SealedHeader(i)) : f[j] = SealedHeader(i)[j]
        /\ \A j \in 1..Len(SealedBody(i, m)) :
             f[Len(SealedHeader(i)) + j] = SealedBody(i, m)[j]
    BY <1>4, <2>1, <2>2, Concatenation
  <2> QED BY <1>2, <1>3, <2>3, Zenon
<1>6. f[1] = FirstByte(i)
  <2>1. 1 \in 1..h
    BY <1>1
  <2> QED BY <1>2, <1>5, <2>1, Zenon DEF FirstByte
<1>7. ASSUME NEW j \in 1..Len(f) PROVE f[j].packet = i
  <2>1. CASE j \in 1..h
    BY <1>2, <1>5, <2>1
  <2>2. CASE j \notin 1..h
    <3>1. j - h \in 1..b /\ h + (j - h) = j
      BY <1>1, <1>5, <1>7, <2>2
    <3>2. f[h + (j - h)] = [packet |-> i, part |-> "body", at |-> j - h]
      BY <1>3, <1>5, <3>1, Zenon
    <3> QED BY <3>1, <3>2
  <2> QED BY <2>1, <2>2
<1>8. ASSUME NEW j \in 2..Len(f)
      PROVE  f[j] \in Bytes /\ (f[j].part = "body" \/ f[j].at # 1)
  <2>1. CASE j \in 1..h
    <3>1. f[j] = [packet |-> i, part |-> "header", at |-> j]
      BY <1>2, <1>5, <2>1
    <3>2. j # 1 /\ j \in Nat \ {0}
      BY <1>8, <2>1
    <3> QED BY <3>1, <3>2 DEF Bytes, Parts
  <2>2. CASE j \notin 1..h
    <3>1. j - h \in 1..b /\ h + (j - h) = j
      BY <1>1, <1>5, <1>8, <2>2
    <3>2. f[h + (j - h)] = [packet |-> i, part |-> "body", at |-> j - h]
      BY <1>3, <1>5, <3>1, Zenon
    <3>3. j - h \in Nat \ {0}
      BY <1>1, <3>1
    <3> QED BY <3>1, <3>2, <3>3 DEF Bytes, Parts
  <2> QED BY <2>1, <2>2
<1> QED BY <1>1, <1>5, <1>6, <1>7, <1>8, Zenon DEF h, b, f
-----------------------------------------------------------------------------
(* Rows of packets.                                                        *)

\* A row from which the packet at its head was taken is a row.
LEMMA FramingDrop ==
  ASSUME NEW s \in Seq(Bytes), NEW packets \in Seq(Transfers), NEW first \in Nat \ {0},
         NEW ended \in BOOLEAN, Framing(s, packets, first, ended), s # << >>,
         NEW len \in Nat \ {0}, len = Len(Encode(first, packets[first])), len <= Len(s)
  PROVE  Framing(SubSeq(s, len + 1, Len(s)), packets, first + 1, ended)
<1> DEFINE r == SubSeq(s, len + 1, Len(s))
<1>1. Len(s) \in Nat /\ Len(packets) \in Nat
  OBVIOUS
<1>2. r \in Seq(Bytes) /\ Len(r) = Len(s) - len /\ \A k \in 1..Len(r) : r[k] = s[len + k]
  <2>1. len \in 0..Len(s)
    BY <1>1
  <2> QED BY <2>1, Rest, ZenonT(60)
<1> HIDE DEF r
<1>3. first <= Len(packets) /\ s[1] = FirstByte(first)
  BY DEF Framing
<1>4. FrameAt(s, packets, first, 1) /\ (ended \/ EndsWell(s, packets, first, 1))
  <2>1. first \in 1..Len(packets) /\ 1 \in 1..Len(s)
    BY <1>1, <1>3
  <2> QED BY <1>3, <2>1 DEF Framing
<1>5. len < Len(s) => first < Len(packets) /\ s[1 + len] = FirstByte(first + 1)
  <2>1. 1 + len <= Len(s) => first < Len(packets) /\ s[1 + len] = FirstByte(first + 1)
    BY <1>4 DEF FrameAt
  <2> QED BY <1>1, <2>1
<1>6. r = << >> /\ ~ended => first + 1 = Len(packets) + 1
  <2> SUFFICES ASSUME r = << >>, ~ended PROVE first = Len(packets)
    OBVIOUS
  <2>1. Len(s) = len
    <3>1. Len(r) = 0
      OBVIOUS
    <3> QED BY <1>1, <1>2, <3>1
  <2>2. EndsWell(s, packets, first, 1)
    BY <1>4
  <2>3. 1 + len <= Len(s) \/ (1 + len = Len(s) + 1 /\ first = Len(packets))
    BY <2>2 DEF EndsWell
  <2> QED BY <1>1, <2>1, <2>3
<1>7. r # << >> => first + 1 <= Len(packets) /\ r[1] = FirstByte(first + 1)
  <2> SUFFICES ASSUME r # << >> PROVE first + 1 <= Len(packets) /\ r[1] = FirstByte(first + 1)
    OBVIOUS
  <2>1. Len(r) \in Nat /\ Len(r) # 0
    BY <1>2
  <2>2. len < Len(s) /\ 1 \in 1..Len(r) /\ len + 1 = 1 + len
    BY <1>1, <1>2, <2>1
  <2>3. r[1] = s[1 + len]
    BY <1>2, <2>2
  <2> QED BY <1>1, <1>5, <2>2, <2>3
<1>8. ASSUME NEW i \in 1..Len(packets), NEW k \in 1..Len(r), r[k] = FirstByte(i)
      PROVE  FrameAt(r, packets, i, k) /\ (ended \/ EndsWell(r, packets, i, k))
  <2> DEFINE f == Encode(i, packets[i])
  <2>1. len + k \in 1..Len(s) /\ s[len + k] = FirstByte(i)
    <3>1. s[len + k] = FirstByte(i)
      BY <1>2, <1>8
    <3>2. len + k \in 1..Len(s)
      BY <1>1, <1>2
    <3> QED BY <3>1, <3>2
  <2>2. FrameAt(s, packets, i, len + k) /\ (ended \/ EndsWell(s, packets, i, len + k))
    BY <2>1 DEF Framing
  <2>3. f \in Seq(Bytes)
    <3>1. packets[i] \in Transfers /\ i \in Nat
      OBVIOUS
    <3> QED BY <3>1, FrameBytes
  <2>4. Len(f) \in Nat
    BY <2>3
  <2>5. /\ \A j \in 1..Len(f) : len + k + j - 1 <= Len(s) => s[len + k + j - 1] = f[j]
        /\ len + k + Len(f) <= Len(s)
             => i < Len(packets) /\ s[len + k + Len(f)] = FirstByte(i + 1)
    BY <2>2 DEF FrameAt
  <2>6. \/ ended
        \/ len + k + Len(f) <= Len(s)
        \/ len + k + Len(f) = Len(s) + 1 /\ i = Len(packets)
    BY <2>2 DEF EndsWell
  <2> HIDE DEF f
  <2>7. \A j \in 1..Len(f) : k + j - 1 <= Len(r) => r[k + j - 1] = f[j]
    <3> SUFFICES ASSUME NEW j \in 1..Len(f), k + j - 1 <= Len(r) PROVE r[k + j - 1] = f[j]
      OBVIOUS
    <3>1. k + j - 1 \in 1..Len(r) /\ len + (k + j - 1) = len + k + j - 1
      BY <1>1, <1>2, <2>4
    <3>2. r[k + j - 1] = s[len + k + j - 1]
      BY <1>2, <3>1
    <3>3. len + k + j - 1 <= Len(s)
      BY <1>1, <1>2, <2>4
    <3> QED BY <2>5, <3>2, <3>3
  <2>8. k + Len(f) <= Len(r) => i < Len(packets) /\ r[k + Len(f)] = FirstByte(i + 1)
    <3> SUFFICES ASSUME k + Len(f) <= Len(r)
                 PROVE  i < Len(packets) /\ r[k + Len(f)] = FirstByte(i + 1)
      OBVIOUS
    <3>1. k + Len(f) \in 1..Len(r) /\ len + (k + Len(f)) = len + k + Len(f)
      BY <1>1, <1>2, <2>4
    <3>2. r[k + Len(f)] = s[len + k + Len(f)]
      BY <1>2, <3>1
    <3>3. len + k + Len(f) <= Len(s)
      BY <1>1, <1>2, <2>4
    <3> QED BY <2>5, <3>2, <3>3
  <2>9. ended \/ k + Len(f) <= Len(r) \/ (k + Len(f) = Len(r) + 1 /\ i = Len(packets))
    BY <1>1, <1>2, <2>4, <2>6
  <2> QED BY <2>7, <2>8, <2>9 DEF FrameAt, EndsWell, f
<1>9. \A k \in 1..Len(r) : r[k].packet \in 1..Len(packets)
  <2> SUFFICES ASSUME NEW k \in 1..Len(r) PROVE r[k].packet \in 1..Len(packets)
    OBVIOUS
  <2>1. len + k \in 1..Len(s) /\ r[k] = s[len + k]
    BY <1>1, <1>2
  <2> QED BY <2>1 DEF Framing
<1> QED BY <1>6, <1>7, <1>8, <1>9, Zenon DEF Framing, r

\* What is left of a row when the stream is cut.
LEMMA FramingCut ==
  ASSUME NEW s \in Seq(Bytes), NEW packets \in Seq(Transfers), NEW first \in Nat \ {0},
         NEW ended \in BOOLEAN, Framing(s, packets, first, ended), NEW n \in 0..Len(s)
  PROVE  Framing(SubSeq(s, 1, n), packets, first, TRUE)
<1> DEFINE r == SubSeq(s, 1, n)
<1>1. Len(s) \in Nat /\ Len(packets) \in Nat /\ n \in Nat /\ n <= Len(s)
  OBVIOUS
<1>2. r \in Seq(Bytes) /\ Len(r) = n /\ \A k \in 1..n : r[k] = s[k]
  OBVIOUS
<1> HIDE DEF r
<1>3. r # << >> => first <= Len(packets) /\ r[1] = FirstByte(first)
  <2> SUFFICES ASSUME r # << >> PROVE first <= Len(packets) /\ r[1] = FirstByte(first)
    OBVIOUS
  <2>1. n # 0
    BY <1>2
  <2>2. 1 \in 1..n /\ Len(s) # 0
    BY <1>1, <2>1
  <2>3. s # << >>
    BY <2>2
  <2> QED BY <1>2, <2>2, <2>3 DEF Framing
<1>4. ASSUME NEW i \in 1..Len(packets), NEW k \in 1..Len(r), r[k] = FirstByte(i)
      PROVE  FrameAt(r, packets, i, k)
  <2> DEFINE f == Encode(i, packets[i])
  <2>1. k \in 1..Len(s) /\ s[k] = FirstByte(i)
    BY <1>1, <1>2, <1>4
  <2>2. FrameAt(s, packets, i, k)
    BY <2>1 DEF Framing
  <2>3. f \in Seq(Bytes)
    <3>1. packets[i] \in Transfers /\ i \in Nat
      OBVIOUS
    <3> QED BY <3>1, FrameBytes
  <2>4. Len(f) \in Nat
    BY <2>3
  <2>5. /\ \A j \in 1..Len(f) : k + j - 1 <= Len(s) => s[k + j - 1] = f[j]
        /\ k + Len(f) <= Len(s) => i < Len(packets) /\ s[k + Len(f)] = FirstByte(i + 1)
    BY <2>2 DEF FrameAt
  <2> HIDE DEF f
  <2>6. \A j \in 1..Len(f) : k + j - 1 <= Len(r) => r[k + j - 1] = f[j]
    <3> SUFFICES ASSUME NEW j \in 1..Len(f), k + j - 1 <= Len(r) PROVE r[k + j - 1] = f[j]
      OBVIOUS
    <3>1. k + j - 1 \in 1..n /\ k + j - 1 <= Len(s)
      BY <1>1, <1>2, <2>4
    <3> QED BY <1>2, <2>5, <3>1
  <2>7. k + Len(f) <= Len(r) => i < Len(packets) /\ r[k + Len(f)] = FirstByte(i + 1)
    <3> SUFFICES ASSUME k + Len(f) <= Len(r)
                 PROVE  i < Len(packets) /\ r[k + Len(f)] = FirstByte(i + 1)
      OBVIOUS
    <3>1. k + Len(f) \in 1..n /\ k + Len(f) <= Len(s)
      BY <1>1, <1>2, <2>4
    <3> QED BY <1>2, <2>5, <3>1
  <2> QED BY <2>6, <2>7 DEF FrameAt, f
<1>5. \A k \in 1..Len(r) : r[k].packet \in 1..Len(packets)
  <2> SUFFICES ASSUME NEW k \in 1..Len(r) PROVE r[k].packet \in 1..Len(packets)
    OBVIOUS
  <2>1. k \in 1..Len(s) /\ r[k] = s[k]
    BY <1>1, <1>2
  <2> QED BY <2>1 DEF Framing
<1> QED BY <1>3, <1>4, <1>5, Zenon DEF Framing, r
\* A packet is written at the end of a row that was not cut.
LEMMA FramingAppend ==
  ASSUME NEW s \in Seq(Bytes), NEW packets \in Seq(Transfers), NEW first \in Nat \ {0},
         Framing(s, packets, first, FALSE), NEW m \in Transfers
  PROVE  Framing(s \o Encode(Len(packets) + 1, m), Append(packets, m), first, FALSE)
<1> DEFINE n == Len(packets) + 1
<1> DEFINE new == Encode(n, m)
<1> DEFINE r == s \o new
<1> DEFINE q == Append(packets, m)
<1>1. Len(s) \in Nat /\ Len(packets) \in Nat /\ n \in Nat /\ n \in Nat \ {0}
  OBVIOUS
<1>2. /\ q \in Seq(Transfers)
      /\ Len(q) = n
      /\ q[n] = m
      /\ \A i \in 1..Len(packets) : q[i] = packets[i]
  OBVIOUS
<1>3. /\ new \in Seq(Bytes)
      /\ new[1] = FirstByte(n)
      /\ \A j \in 2..Len(new) : new[j] \in Bytes /\ (new[j].part = "body" \/ new[j].at # 1)
      /\ \A j \in 1..Len(new) : new[j].packet = n
      /\ Len(new) > 1
  <2>1. n \in Nat
    BY <1>1
  <2> HIDE DEF n
  <2> QED BY <2>1, FrameBytes
<1>4. Len(new) \in Nat
  BY <1>3
<1> HIDE DEF new, q
<1>5. /\ r \in Seq(Bytes)
      /\ Len(r) = Len(s) + Len(new)
      /\ \A k \in 1..Len(s) : r[k] = s[k]
      /\ \A k \in 1..Len(new) : r[Len(s) + k] = new[k]
  <2>1. new \in Seq(Bytes)
    BY <1>3
  <2> QED BY <2>1, Concatenation
<1> HIDE DEF r
<1>6. r[Len(s) + 1] = FirstByte(n)
  <2>1. 1 \in 1..Len(new)
    BY <1>3, <1>4
  <2> QED BY <1>3, <1>5, <2>1
<1>7. Len(r) > Len(s) + 1 /\ Len(r) \in Nat
  BY <1>1, <1>3, <1>4, <1>5
<1> HIDE DEF n
<1>8. r # << >>
  BY <1>1, <1>7
<1>9. first <= Len(q) /\ r[1] = FirstByte(first)
  <2>1. CASE s = << >>
    <3>1. first = n /\ Len(s) = 0
      BY <2>1 DEF Framing, n
    <3>2. Len(s) + 1 = 1
      BY <3>1
    <3> QED BY <1>1, <1>2, <1>6, <3>1, <3>2
  <2>2. CASE s # << >>
    <3>1. first <= Len(packets) /\ s[1] = FirstByte(first)
      BY <2>2 DEF Framing
    <3>2. Len(s) # 0
      BY <2>2
    <3>3. 1 \in 1..Len(s)
      BY <1>1, <3>2
    <3>4. r[1] = s[1]
      BY <1>5, <3>3
    <3>5. first <= n
      BY <1>1, <3>1 DEF n
    <3> QED BY <1>2, <3>1, <3>4, <3>5
  <2> QED BY <2>1, <2>2
<1>10. ASSUME NEW i \in 1..Len(q), NEW k \in 1..Len(r), r[k] = FirstByte(i)
       PROVE  FrameAt(r, q, i, k) /\ EndsWell(r, q, i, k)
  <2>1. CASE k \in 1..Len(s) /\ i \in 1..Len(packets)
    <3> DEFINE f == Encode(i, packets[i])
    <3>1. s[k] = FirstByte(i)
      BY <1>5, <1>10, <2>1
    <3>2. FrameAt(s, packets, i, k) /\ EndsWell(s, packets, i, k)
      BY <2>1, <3>1 DEF Framing
    <3>3. f = Encode(i, q[i])
      BY <1>2, <2>1
    <3>4. f \in Seq(Bytes)
      <4>1. packets[i] \in Transfers /\ i \in Nat
        BY <2>1
      <4> QED BY <4>1, FrameBytes
    <3>5. Len(f) \in Nat
      BY <3>4
    <3>6. /\ \A j \in 1..Len(f) : k + j - 1 <= Len(s) => s[k + j - 1] = f[j]
          /\ k + Len(f) <= Len(s) => i < Len(packets) /\ s[k + Len(f)] = FirstByte(i + 1)
      BY <3>2 DEF FrameAt
    <3>7. k + Len(f) <= Len(s) \/ (k + Len(f) = Len(s) + 1 /\ i = Len(packets))
      BY <3>2 DEF EndsWell
    <3> HIDE DEF f
    <3>8. k \in Nat /\ k >= 1
      BY <2>1
    <3>9. \A j \in 1..Len(f) : k + j - 1 <= Len(r) => r[k + j - 1] = f[j]
      <4> SUFFICES ASSUME NEW j \in 1..Len(f) PROVE r[k + j - 1] = f[j]
        OBVIOUS
      <4>1. k + Len(f) <= Len(s) + 1
        BY <1>1, <3>5, <3>7, <3>8
      <4>2. k + j - 1 \in 1..Len(s) /\ k + j - 1 <= Len(s)
        BY <1>1, <3>5, <3>8, <4>1
      <4> QED BY <1>5, <3>6, <4>2
    <3>10. k + Len(f) <= Len(r)
      BY <1>1, <1>7, <3>5, <3>7, <3>8
    <3>11. i < Len(q) /\ r[k + Len(f)] = FirstByte(i + 1)
      <4>1. i < Len(q)
        BY <1>1, <1>2, <2>1 DEF n
      <4>2. CASE k + Len(f) <= Len(s)
        <5>1. k + Len(f) \in 1..Len(s)
          BY <1>1, <3>5, <3>8, <4>2
        <5> QED BY <1>5, <3>6, <4>1, <4>2, <5>1
      <4>3. CASE k + Len(f) = Len(s) + 1 /\ i = Len(packets)
        <5>1. i + 1 = n
          BY <4>3 DEF n
        <5> QED BY <1>6, <4>1, <4>3, <5>1
      <4> QED BY <3>7, <4>2, <4>3
    <3> QED BY <3>3, <3>9, <3>10, <3>11 DEF FrameAt, EndsWell
  <2>2. CASE k \in 1..Len(s) /\ i \notin 1..Len(packets)
    <3>1. s[k] = FirstByte(i)
      BY <1>5, <1>10, <2>2
    <3>2. s[k].packet = i
      BY <3>1 DEF FirstByte
    <3>3. s[k].packet \in 1..Len(packets)
      BY <2>2 DEF Framing
    <3> QED BY <2>2, <3>2, <3>3
  <2>3. CASE k \notin 1..Len(s)
    <3> DEFINE j == k - Len(s)
    <3>1. j \in 1..Len(new) /\ Len(s) + j = k /\ j \in Nat
      BY <1>1, <1>4, <1>5, <2>3
    <3>2. new[j] = FirstByte(i)
      BY <1>5, <1>10, <3>1
    <3>3. new[j].part = "header" /\ new[j].at = 1
      BY <3>2 DEF FirstByte
    <3>4. j = 1
      <4>1. j \notin 2..Len(new)
        BY <1>3, <3>3
      <4> QED BY <1>4, <3>1, <4>1
    <3>5. k = Len(s) + 1
      BY <3>1, <3>4
    <3>6. i = n
      <4>1. FirstByte(i) = FirstByte(n)
        BY <1>6, <1>10, <3>5
      <4>2. FirstByte(i).packet = i /\ FirstByte(n).packet = n
        BY DEF FirstByte
      <4> QED BY <4>1, <4>2
    <3>7. Encode(i, q[i]) = new
      BY <1>2, <3>6 DEF new
    <3>8. \A l \in 1..Len(new) : k + l - 1 <= Len(r) => r[k + l - 1] = new[l]
      <4> SUFFICES ASSUME NEW l \in 1..Len(new) PROVE r[k + l - 1] = new[l]
        OBVIOUS
      <4>1. k + l - 1 = Len(s) + l
        BY <1>1, <1>4, <3>5
      <4> QED BY <1>5, <4>1
    <3>9. k + Len(new) = Len(r) + 1 /\ ~(k + Len(new) <= Len(r))
      BY <1>1, <1>4, <1>5, <3>5
    <3>10. FrameAt(r, q, i, k)
      BY <3>7, <3>8, <3>9 DEF FrameAt
    <3>11. EndsWell(r, q, i, k)
      BY <1>2, <3>6, <3>7, <3>9 DEF EndsWell
    <3> QED BY <3>10, <3>11
  <2> QED BY <2>1, <2>2, <2>3
<1>11. \A k \in 1..Len(r) : r[k].packet \in 1..Len(q)
  <2> SUFFICES ASSUME NEW k \in 1..Len(r) PROVE r[k].packet \in 1..Len(q)
    OBVIOUS
  <2>1. CASE k \in 1..Len(s)
    <3>1. r[k] = s[k] /\ s[k].packet \in 1..Len(packets)
      BY <1>5, <2>1 DEF Framing
    <3>2. \A x \in 1..Len(packets) : x \in 1..n
      BY <1>1 DEF n
    <3> QED BY <1>2, <3>1, <3>2
  <2>2. CASE k \notin 1..Len(s)
    <3> DEFINE j == k - Len(s)
    <3>1. j \in 1..Len(new) /\ Len(s) + j = k
      BY <1>1, <1>4, <1>5, <2>2
    <3>2. r[k] = new[j]
      BY <1>5, <3>1
    <3>3. new[j].packet = n
      BY <1>3, <3>1
    <3>4. n \in 1..n
      BY <1>1
    <3> QED BY <1>2, <3>2, <3>3, <3>4
  <2> QED BY <2>1, <2>2
<1> QED BY <1>8, <1>9, <1>10, <1>11, Zenon DEF Framing, r, q, new, n
-----------------------------------------------------------------------------
(* decode (message.rs:146-221, 250-325).                                   *)

\* The types, and the packet at the head of the buffer.
LEMMA HeadOfBuffer ==
  ASSUME CodecInv
  PROVE  /\ buffer \in Seq(Bytes) /\ wire \in Seq(Bytes) /\ Stream \in Seq(Bytes)
         /\ sent \in Seq(Transfers) /\ decoded \in Seq(Transfers)
         /\ Len(buffer) \in Nat /\ Len(wire) \in Nat /\ Len(Stream) = Len(buffer) + Len(wire)
         /\ Len(sent) \in Nat /\ Len(decoded) \in Nat /\ Len(decoded) <= Len(sent)
         /\ \A k \in 1..Len(buffer) : Stream[k] = buffer[k]
         /\ buffer # << >> =>
              /\ Len(decoded) + 1 \in 1..Len(sent)
              /\ FrameAt(Stream, sent, Len(decoded) + 1, 1)
              /\ cut \/ EndsWell(Stream, sent, Len(decoded) + 1, 1)
<1>1. /\ buffer \in Seq(Bytes) /\ wire \in Seq(Bytes)
      /\ sent \in Seq(Transfers) /\ decoded \in Seq(Transfers)
  BY DEF CodecInv, TypeOK
<1>2. /\ Stream \in Seq(Bytes)
      /\ Len(Stream) = Len(buffer) + Len(wire)
      /\ \A k \in 1..Len(buffer) : Stream[k] = buffer[k]
  <2>1. buffer \in Seq(Bytes)
    BY <1>1
  <2>2. wire \in Seq(Bytes)
    BY <1>1
  <2> QED BY <2>1, <2>2, Concatenation DEF Stream
<1>3. Len(buffer) \in Nat /\ Len(wire) \in Nat /\ Len(sent) \in Nat /\ Len(decoded) \in Nat
  BY <1>1
<1>4. Len(decoded) <= Len(sent)
  BY DEF CodecInv, PacketsInOrder
<1>5. ASSUME buffer # << >>
      PROVE  /\ Len(decoded) + 1 \in 1..Len(sent)
             /\ FrameAt(Stream, sent, Len(decoded) + 1, 1)
             /\ cut \/ EndsWell(Stream, sent, Len(decoded) + 1, 1)
  <2>1. Len(buffer) # 0
    BY <1>1, <1>5
  <2>2. Len(Stream) \in Nat /\ Len(Stream) # 0
    BY <1>2, <1>3, <2>1
  <2>3. Stream # << >>
    BY <2>2
  <2>4. Framing(Stream, sent, Len(decoded) + 1, cut)
    BY DEF CodecInv
  <2>5. Len(decoded) + 1 <= Len(sent) /\ Stream[1] = FirstByte(Len(decoded) + 1)
    BY <2>3, <2>4 DEF Framing
  <2>6. 1 \in 1..Len(Stream) /\ Len(decoded) + 1 \in 1..Len(sent)
    BY <1>3, <2>2, <2>5
  <2> QED BY <2>4, <2>5, <2>6, Zenon DEF Framing
<1> QED BY <1>1, <1>2, <1>3, <1>4, <1>5

\* The header and the body that decode cuts out of the buffer are those of the
\* next packet.
LEMMA CutOut ==
  ASSUME CodecInv, NEW d \in Nat, d = Len(decoded) + 1, buffer # << >>
  PROVE  LET h == HeaderLen + TagLen
             b == BodyLen(sent[d]) + TagLen
         IN /\ d \in 1..Len(sent)
            /\ h \in Nat /\ b \in Nat /\ h > 1 /\ b >= 1
            /\ Len(Encode(d, sent[d])) = h + b
            /\ Len(buffer) >= h => SubSeq(buffer, 1, h) = SealedHeader(d)
            /\ Len(buffer) >= h + b => SubSeq(buffer, h + 1, h + b) = SealedBody(d, sent[d])
            /\ SealedHeader(d)[1].packet = d
            /\ SealedBody(d, sent[d])[1].packet = d
<1> DEFINE m == sent[d]
<1> DEFINE h == HeaderLen + TagLen
<1> DEFINE b == BodyLen(m) + TagLen
<1> DEFINE f == Encode(d, m)
<1>1. d \in 1..Len(sent) /\ m \in Transfers /\ d \in Nat /\ Len(buffer) \in Nat
  BY HeadOfBuffer
<1>2. /\ h \in Nat /\ b \in Nat /\ h > 1 /\ b >= 1
      /\ Len(f) = h + b
      /\ \A j \in 1..h : f[j] = SealedHeader(d)[j]
      /\ \A j \in 1..b : f[h + j] = SealedBody(d, m)[j]
  <2>1. m \in Transfers /\ d \in Nat
    BY <1>1
  <2> HIDE DEF m
  <2> QED BY <2>1, FrameBytes
<1>3. \A j \in 1..Len(f) : 1 + j - 1 <= Len(Stream) => Stream[1 + j - 1] = f[j]
  BY HeadOfBuffer DEF FrameAt
<1>4. /\ Len(SealedHeader(d)) = h /\ SealedHeader(d) \in Seq(Bytes)
      /\ \A j \in 1..h : SealedHeader(d)[j] = [packet |-> d, part |-> "header", at |-> j]
  <2>1. "header" \in Parts /\ h \in Nat /\ d \in Nat
    BY <1>1, <1>2 DEF Parts
  <2>2. SealedHeader(d) = Part(d, "header", h)
    BY DEF SealedHeader
  <2> HIDE DEF h
  <2> QED BY <2>1, <2>2, PartBytes
<1>5. /\ Len(SealedBody(d, m)) = b /\ SealedBody(d, m) \in Seq(Bytes)
      /\ \A j \in 1..b : SealedBody(d, m)[j] = [packet |-> d, part |-> "body", at |-> j]
  <2>1. "body" \in Parts
    BY DEF Parts
  <2>2. b \in Nat /\ d \in Nat
    BY <1>1, <1>2
  <2>3. SealedBody(d, m) = Part(d, "body", b)
    BY DEF SealedBody
  <2> HIDE DEF b, m
  <2>4. /\ Part(d, "body", b) \in Seq(Bytes)
        /\ Len(Part(d, "body", b)) = b
        /\ \A j \in 1..b : Part(d, "body", b)[j] = [packet |-> d, part |-> "body", at |-> j]
    BY <2>1, <2>2, PartBytes
  <2> QED BY <2>3, <2>4, Zenon
<1>6. Len(Stream) \in Nat /\ Len(buffer) <= Len(Stream) /\ buffer \in Seq(Bytes)
  BY HeadOfBuffer
<1> HIDE DEF h, b, f, m
<1>7. \A j \in 1..(h + b) : j <= Len(buffer) => buffer[j] = f[j]
  <2> SUFFICES ASSUME NEW j \in 1..(h + b), j <= Len(buffer) PROVE buffer[j] = f[j]
    OBVIOUS
  <2>1. j \in Nat /\ 1 + j - 1 = j
    BY <1>2
  <2>2. j <= Len(Stream)
    BY <1>1, <1>6, <2>1
  <2>3. j \in 1..Len(buffer)
    BY <1>1, <2>1
  <2>4. Stream[j] = f[j]
    BY <1>2, <1>3, <2>1, <2>2, Zenon
  <2>5. Stream[j] = buffer[j]
    BY <2>3, HeadOfBuffer
  <2> QED BY <2>4, <2>5
<1>8. ASSUME Len(buffer) >= h
      PROVE  SubSeq(buffer, 1, h) = SealedHeader(d)
  <2>1. /\ SubSeq(buffer, 1, h) \in Seq(Bytes)
        /\ Len(SubSeq(buffer, 1, h)) = h
        /\ \A j \in 1..h : SubSeq(buffer, 1, h)[j] = buffer[j]
    BY <1>1, <1>2, <1>6, <1>8
  <2>2. \A j \in 1..h : buffer[j] = SealedHeader(d)[j]
    <3> SUFFICES ASSUME NEW j \in 1..h PROVE buffer[j] = SealedHeader(d)[j]
      OBVIOUS
    <3>1. j \in 1..(h + b) /\ j <= Len(buffer)
      BY <1>1, <1>2, <1>8
    <3> QED BY <1>2, <1>7, <3>1
  <2> QED BY <1>4, <2>1, <2>2
<1>9. ASSUME Len(buffer) >= h + b
      PROVE  SubSeq(buffer, h + 1, h + b) = SealedBody(d, m)
  <2>1. /\ SubSeq(buffer, h + 1, h + b) \in Seq(Bytes)
        /\ Len(SubSeq(buffer, h + 1, h + b)) = b
        /\ \A j \in 1..b : SubSeq(buffer, h + 1, h + b)[j] = buffer[h + j]
    BY <1>1, <1>2, <1>6, <1>9
  <2>2. \A j \in 1..b : buffer[h + j] = SealedBody(d, m)[j]
    <3> SUFFICES ASSUME NEW j \in 1..b PROVE buffer[h + j] = SealedBody(d, m)[j]
      OBVIOUS
    <3>1. h + j \in 1..(h + b) /\ h + j <= Len(buffer)
      BY <1>1, <1>2, <1>9
    <3> QED BY <1>2, <1>7, <3>1
  <2>3. SealedBody(d, m) \in Seq(Bytes)
    BY <1>5
  <2>4. SubSeq(buffer, h + 1, h + b) \in Seq(Bytes)
    BY <2>1
  <2>5. /\ Len(SubSeq(buffer, h + 1, h + b)) = Len(SealedBody(d, m))
        /\ \A j \in 1..Len(SubSeq(buffer, h + 1, h + b)) :
             SubSeq(buffer, h + 1, h + b)[j] = SealedBody(d, m)[j]
    BY <1>5, <2>1, <2>2, ZenonT(60)
  <2> QED BY <2>3, <2>4, <2>5, SameElements, Zenon
<1>10. SealedHeader(d)[1].packet = d /\ SealedBody(d, m)[1].packet = d
  <2>1. 1 \in 1..h /\ 1 \in 1..b
    BY <1>2
  <2>2. /\ SealedHeader(d)[1] = [packet |-> d, part |-> "header", at |-> 1]
        /\ SealedBody(d, m)[1] = [packet |-> d, part |-> "body", at |-> 1]
    BY <1>4, <1>5, <2>1, Zenon
  <2> QED BY <2>2
<1> QED BY <1>1, <1>2, <1>8, <1>9, <1>10 DEF h, b, f, m
\* decode waits for the next packet or yields it; it never fails.
LEMMA DecodeResult ==
  ASSUME CodecInv, NEW d \in Nat, d = Len(decoded) + 1
  PROVE  \/ /\ Decode(buffer) = Waits(buffer)
            /\ buffer # << >> =>
                 d \in 1..Len(sent) /\ Len(buffer) < Len(Encode(d, sent[d]))
         \/ /\ buffer # << >>
            /\ d \in 1..Len(sent)
            /\ Len(Encode(d, sent[d])) <= Len(buffer)
            /\ Decode(buffer) = Yields(sent[d], SplitTo(buffer, Len(Encode(d, sent[d]))))
<1> DEFINE h == HeaderLen + TagLen
<1>1. Len(buffer) \in Nat /\ h \in Nat /\ h > 1
  BY HeadOfBuffer, LengthAssumption DEF HeaderLen
<1>2. CASE buffer = << >>
  <2>1. Len(buffer) = 0
    BY <1>2
  <2>2. ~Complete(buffer, h)
    BY <1>1, <2>1 DEF Complete
  <2>3. Decode(buffer) = Waits(buffer)
    BY <2>2, Zenon DEF Decode
  <2> QED BY <1>2, <2>3
<1>3. CASE buffer # << >>
  <2> DEFINE b == BodyLen(sent[d]) + TagLen
  <2> DEFINE parse1 == SubSeq(buffer, 1, h)
  <2> DEFINE header == sent[parse1[1].packet]
  <2> DEFINE length == h + LengthField(header) + TagLen
  <2> DEFINE parse2 == SubSeq(buffer, h + 1, length)
  <2>0. Decode(buffer) =
          IF ~Complete(buffer, h) THEN Waits(buffer)
          ELSE IF ~OpensHeader(parse1) THEN Fails(buffer)
          ELSE IF ~Complete(buffer, length) THEN Waits(buffer)
          ELSE IF ~OpensBody(parse2, parse1) THEN Fails(buffer)
          ELSE Yields(sent[parse2[1].packet], SplitTo(buffer, length))
    BY Zenon DEF Decode
  <2>1. /\ d \in 1..Len(sent)
        /\ b \in Nat /\ b >= 1
        /\ Len(Encode(d, sent[d])) = h + b
        /\ Len(buffer) >= h => SubSeq(buffer, 1, h) = SealedHeader(d)
        /\ Len(buffer) >= h + b => SubSeq(buffer, h + 1, h + b) = SealedBody(d, sent[d])
        /\ SealedHeader(d)[1].packet = d
        /\ SealedBody(d, sent[d])[1].packet = d
    BY <1>3, CutOut, Zenon
  <2>2. CASE ~(Len(buffer) >= h)
    <3>1. Decode(buffer) = Waits(buffer)
      <4>1. ~Complete(buffer, h)
        BY <2>2 DEF Complete
      <4> QED BY <2>0, <4>1, Zenon
    <3>2. Len(buffer) < h + b
      BY <1>1, <2>1, <2>2
    <3> QED BY <2>1, <3>1, <3>2, Zenon
  <2>3. CASE Len(buffer) >= h
    <3>1. parse1 = SealedHeader(d)
      BY <2>1, <2>3, Zenon
    <3>2. parse1[1].packet = d
      BY <2>1, <3>1, Zenon
    <3>3. header = sent[d]
      BY <3>2, Zenon
    <3>4. length = h + b
      <4>1. sent[d] \in Transfers
        BY <2>1, HeadOfBuffer
      <4>2. LengthField(sent[d]) = BodyLen(sent[d]) /\ BodyLen(sent[d]) \in Nat
        BY <4>1, BodyLength
      <4>3. LengthField(header) = BodyLen(sent[d])
        BY <3>3, <4>2, Zenon
      <4> HIDE DEF header, h
      <4> QED BY <1>1, <4>2, <4>3, LengthAssumption
    <3>5. Complete(buffer, h) /\ OpensHeader(parse1)
      <4>1. Complete(buffer, h)
        BY <2>3 DEF Complete
      <4>2. OpensHeader(parse1)
        BY <2>1, <3>1, Zenon DEF OpensHeader
      <4> QED BY <4>1, <4>2
    <3> HIDE DEF header, length, parse1, h, b
    <3>6. CASE ~(Len(buffer) >= h + b)
      <4>1. ~Complete(buffer, length)
        BY <3>4, <3>6 DEF Complete
      <4>2. Decode(buffer) = Waits(buffer)
        BY <2>0, <3>5, <4>1, Zenon
      <4>3. Len(buffer) < h + b
        BY <1>1, <2>1, <3>6
      <4> QED BY <2>1, <4>2, <4>3, Zenon
    <3>7. CASE Len(buffer) >= h + b
      <4>1. Complete(buffer, length)
        BY <3>4, <3>7 DEF Complete
      <4>2. parse2 = SealedBody(d, sent[d])
        BY <2>1, <3>4, <3>7, Zenon
      <4>3. OpensBody(parse2, parse1)
        BY <2>1, <3>1, <4>2, Zenon DEF OpensBody
      <4>4. sent[parse2[1].packet] = sent[d]
        BY <2>1, <4>2, Zenon
      <4> HIDE DEF parse2
      <4>5. Decode(buffer) = Yields(sent[d], SplitTo(buffer, length))
        BY <2>0, <3>5, <4>1, <4>3, <4>4, Zenon
      <4>6. length = Len(Encode(d, sent[d]))
        BY <2>1, <3>4, Zenon
      <4>7. Len(Encode(d, sent[d])) <= Len(buffer)
        BY <1>1, <2>1, <3>7
      <4> QED BY <1>3, <2>1, <4>5, <4>6, <4>7, Zenon
    <3> QED BY <3>6, <3>7
  <2> QED BY <2>2, <2>3
<1> QED BY <1>2, <1>3
-----------------------------------------------------------------------------
(* The invariant.                                                          *)

\* It holds in the beginning.
LEMMA CodecInitial == Init => CodecInv
<1> SUFFICES ASSUME Init PROVE CodecInv
  OBVIOUS
<1>1. TypeOK
  <2>1. /\ sent \in Seq(Transfers) /\ decoded \in Seq(Transfers)
        /\ wire \in Seq(Bytes) /\ buffer \in Seq(Bytes)
    BY DEF Init
  <2>2. cut \in BOOLEAN /\ readable \in BOOLEAN /\ status \in {"open", "finished", "error"}
    BY Zenon DEF Init
  <2> QED BY <2>1, <2>2 DEF TypeOK
<1>2. Stream = << >> /\ Len(Stream) = 0 /\ Len(sent) = 0 /\ Len(decoded) = 0
  BY DEF Init, Stream
<1>3. Framing(Stream, sent, Len(decoded) + 1, cut)
  BY <1>2 DEF Framing
<1>4. PacketsInOrder
  BY DEF Init, PacketsInOrder
<1>5. ErrorsOnlyWhenCut /\ NothingHeldBack
  BY DEF Init, ErrorsOnlyWhenCut, NothingHeldBack
<1> QED BY <1>1, <1>3, <1>4, <1>5 DEF CodecInv

\* A packet is written after the others.
LEMMA SendPacketKeeps ==
  ASSUME CodecInv, NEW m \in Transfers, SendPacket(m)
  PROVE  CodecInv'
<1> DEFINE n == Len(sent) + 1
<1> DEFINE f == Encode(n, m)
<1>1. /\ UNCHANGED <<cut, buffer, readable, decoded, status>>
      /\ ~cut
      /\ sent' = Append(sent, m)
      /\ wire' = wire \o Encode(Len(sent'), m)
  BY DEF SendPacket
<1>2. /\ sent \in Seq(Transfers) /\ decoded \in Seq(Transfers)
      /\ buffer \in Seq(Bytes) /\ wire \in Seq(Bytes)
      /\ Len(sent) \in Nat /\ Len(decoded) \in Nat /\ Len(decoded) <= Len(sent)
  BY HeadOfBuffer
<1>3. /\ sent' \in Seq(Transfers)
      /\ Len(sent') = n
      /\ \A i \in 1..Len(sent) : sent'[i] = sent[i]
  BY <1>1, <1>2
<1>4. n \in Nat
  BY <1>2
<1>5. wire' = wire \o f
  BY <1>1, <1>3
<1> HIDE DEF n
<1>6. f \in Seq(Bytes) /\ Len(f) > 1
  BY <1>4, FrameBytes
<1> HIDE DEF f
<1>7. wire' \in Seq(Bytes) /\ wire' # << >>
  BY <1>2, <1>5, <1>6
<1>8. Stream' = Stream \o f
  <2>1. Stream' = buffer \o (wire \o f)
    BY <1>1, <1>5 DEF Stream
  <2>2. \A x \in Seq(Bytes), y \in Seq(Bytes), z \in Seq(Bytes) : x \o (y \o z) = (x \o y) \o z
    OBVIOUS
  <2>3. buffer \o (wire \o f) = (buffer \o wire) \o f
    BY <1>2, <1>6, <2>2, ZenonT(60)
  <2> QED BY <2>1, <2>3 DEF Stream
<1>9. Framing(Stream', sent', Len(decoded') + 1, cut')
  <2>1. Framing(Stream, sent, Len(decoded) + 1, FALSE)
    BY <1>1, Zenon DEF CodecInv, Framing
  <2>2. Stream \in Seq(Bytes) /\ Len(decoded) + 1 \in Nat \ {0}
    BY <1>2, HeadOfBuffer
  <2>3. Framing(Stream \o Encode(Len(sent) + 1, m), Append(sent, m), Len(decoded) + 1, FALSE)
    BY <1>2, <2>1, <2>2, FramingAppend, Zenon
  <2>4. Framing(Stream', sent', Len(decoded') + 1, FALSE)
    BY <1>1, <1>8, <2>3, Zenon DEF f, n
  <2> QED BY <1>1, <2>4, Zenon DEF Framing
<1>10. TypeOK'
  BY <1>1, <1>3, <1>7 DEF CodecInv, TypeOK
<1>11. PacketsInOrder'
  <2>1. decoded = SubSeq(sent, 1, Len(decoded))
    BY DEF CodecInv, PacketsInOrder
  <2>2. SubSeq(Append(sent, m), 1, Len(decoded)) = SubSeq(sent, 1, Len(decoded))
    BY <1>2
  <2>3. Len(decoded') <= Len(sent')
    BY <1>1, <1>2, <1>3 DEF n
  <2> QED BY <1>1, <2>1, <2>2, <2>3, Zenon DEF PacketsInOrder
<1>12. ErrorsOnlyWhenCut'
  BY <1>1 DEF CodecInv, ErrorsOnlyWhenCut
<1>13. NothingHeldBack'
  <2> SUFFICES ASSUME ~readable, buffer # << >>
               PROVE  /\ Len(decoded) + 1 <= Len(sent')
                      /\ Len(buffer) < Len(Encode(Len(decoded) + 1, sent'[Len(decoded) + 1]))
    BY <1>1, <1>7 DEF NothingHeldBack
  <2> DEFINE i == Len(decoded) + 1
  <2>1. i <= Len(sent) /\ Len(buffer) < Len(Encode(i, sent[i]))
    BY DEF CodecInv, NothingHeldBack
  <2>2. i \in 1..Len(sent) /\ i <= Len(sent')
    BY <1>2, <1>3, <2>1 DEF n
  <2>3. sent'[i] = sent[i]
    BY <1>3, <2>2
  <2> HIDE DEF i
  <2> QED BY <2>1, <2>2, <2>3, Zenon DEF i
<1> QED BY <1>9, <1>10, <1>11, <1>12, <1>13 DEF CodecInv

\* Bytes go from the wire to the buffer.
LEMMA ReadChunkKeeps ==
  ASSUME CodecInv, ReadChunk
  PROVE  CodecInv'
<1>1. PICK n \in 1..Len(wire) :
        /\ buffer' = buffer \o SubSeq(wire, 1, n)
        /\ wire' = SubSeq(wire, n + 1, Len(wire))
  BY DEF ReadChunk
<1>2. readable' = TRUE /\ UNCHANGED <<sent, cut, decoded, status>>
  BY DEF ReadChunk
<1>3. buffer \in Seq(Bytes) /\ wire \in Seq(Bytes) /\ Len(wire) \in Nat /\ Len(buffer) \in Nat
  BY HeadOfBuffer
<1>4. buffer' \in Seq(Bytes) /\ wire' \in Seq(Bytes)
  BY <1>1, <1>3
<1>5. Stream' = Stream
  <2>1. SubSeq(wire, 1, n) \in Seq(Bytes) /\ SubSeq(wire, n + 1, Len(wire)) \in Seq(Bytes)
    BY <1>3
  <2>2. SubSeq(wire, 1, n) \o SubSeq(wire, n + 1, Len(wire)) = wire
    BY <1>3
  <2>3. \A x \in Seq(Bytes), y \in Seq(Bytes), z \in Seq(Bytes) : x \o (y \o z) = (x \o y) \o z
    BY SMTT(60)
  <2>4. (buffer \o SubSeq(wire, 1, n)) \o SubSeq(wire, n + 1, Len(wire)) = buffer \o wire
    <3> DEFINE y == SubSeq(wire, 1, n)
    <3> DEFINE z == SubSeq(wire, n + 1, Len(wire))
    <3>1. y \in Seq(Bytes) /\ z \in Seq(Bytes) /\ y \o z = wire
      BY <2>1, <2>2
    <3> HIDE DEF y, z
    <3>2. buffer \o (y \o z) = (buffer \o y) \o z
      BY <1>3, <2>3, <3>1, ZenonT(60)
    <3> QED BY <3>1, <3>2 DEF y, z
  <2> QED BY <1>1, <2>4, Zenon DEF Stream
<1>6. Framing(Stream', sent', Len(decoded') + 1, cut')
  BY <1>2, <1>5, Zenon DEF CodecInv
<1>7. TypeOK'
  BY <1>2, <1>4 DEF CodecInv, TypeOK
<1>8. PacketsInOrder' /\ ErrorsOnlyWhenCut' /\ NothingHeldBack'
  BY <1>2 DEF CodecInv, PacketsInOrder, ErrorsOnlyWhenCut, NothingHeldBack
<1> QED BY <1>6, <1>7, <1>8 DEF CodecInv

\* Some of the wire is lost.
LEMMA CutStreamKeeps ==
  ASSUME CodecInv, CutStream
  PROVE  CodecInv'
<1>1. PICK n \in 0..Len(wire) : wire' = SubSeq(wire, 1, n)
  BY DEF CutStream
<1>2. cut' = TRUE /\ UNCHANGED <<sent, buffer, readable, decoded, status>>
  BY DEF CutStream
<1>3. /\ buffer \in Seq(Bytes) /\ wire \in Seq(Bytes) /\ Len(wire) \in Nat /\ Len(buffer) \in Nat
      /\ Stream \in Seq(Bytes) /\ Len(Stream) = Len(buffer) + Len(wire)
      /\ sent \in Seq(Transfers) /\ Len(decoded) \in Nat
  BY HeadOfBuffer
<1>4. wire' \in Seq(Bytes)
  BY <1>1, <1>3
<1>5. Stream' = SubSeq(Stream, 1, Len(buffer) + n)
  <2>1. buffer \o SubSeq(wire, 1, n) = SubSeq(buffer \o wire, 1, Len(buffer) + n)
    BY <1>3
  <2> QED BY <1>1, <1>2, <2>1, Zenon DEF Stream
<1>6. Framing(Stream', sent', Len(decoded') + 1, cut')
  <2>1. Framing(Stream, sent, Len(decoded) + 1, cut) /\ cut \in BOOLEAN
    BY DEF CodecInv, TypeOK
  <2>2. Len(buffer) + n \in 0..Len(Stream) /\ Len(decoded) + 1 \in Nat \ {0}
    BY <1>3
  <2>3. Framing(SubSeq(Stream, 1, Len(buffer) + n), sent, Len(decoded) + 1, TRUE)
    BY <1>3, <2>1, <2>2, FramingCut, Zenon
  <2> QED BY <1>2, <1>5, <2>3, Zenon
<1>7. TypeOK'
  BY <1>2, <1>4 DEF CodecInv, TypeOK
<1>8. PacketsInOrder' /\ ErrorsOnlyWhenCut' /\ NothingHeldBack'
  BY <1>2 DEF CodecInv, PacketsInOrder, ErrorsOnlyWhenCut, NothingHeldBack
<1> QED BY <1>6, <1>7, <1>8 DEF CodecInv

\* The stream is closed, and nothing else happens.
LEMMA EndOfStreamKeeps ==
  ASSUME CodecInv, EndOfStream
  PROVE  CodecInv'
<1>1. /\ UNCHANGED <<sent, wire, cut, buffer, readable, decoded>>
      /\ cut /\ status' \in {"finished", "error"}
  BY DEF EndOfStream
<1>2. Stream' = Stream
  BY <1>1 DEF Stream
<1>3. Framing(Stream', sent', Len(decoded') + 1, cut')
  BY <1>1, <1>2, Zenon DEF CodecInv
<1>4. TypeOK'
  BY <1>1 DEF CodecInv, TypeOK
<1>5. PacketsInOrder' /\ ErrorsOnlyWhenCut' /\ NothingHeldBack'
  BY <1>1 DEF CodecInv, PacketsInOrder, ErrorsOnlyWhenCut, NothingHeldBack
<1> QED BY <1>3, <1>4, <1>5 DEF CodecInv
\* A packet goes from the buffer to the session, or nothing does.
LEMMA DecodePacketKeeps ==
  ASSUME CodecInv, DecodePacket
  PROVE  CodecInv'
<1> DEFINE d == Len(decoded) + 1
<1> DEFINE len == Len(Encode(d, sent[d]))
<1>1. /\ UNCHANGED <<sent, wire, cut>>
      /\ status = "open"
      /\ readable
      /\ buffer' = Decode(buffer).rest
      /\ readable' = (Decode(buffer).result = "packet")
      /\ status' = IF Decode(buffer).result = "error" THEN "error" ELSE status
      /\ decoded' = IF Decode(buffer).result = "packet"
                    THEN Append(decoded, Decode(buffer).packet) ELSE decoded
  BY DEF DecodePacket
<1>2. /\ buffer \in Seq(Bytes) /\ wire \in Seq(Bytes) /\ Stream \in Seq(Bytes)
      /\ sent \in Seq(Transfers) /\ decoded \in Seq(Transfers)
      /\ Len(buffer) \in Nat /\ Len(wire) \in Nat /\ Len(Stream) = Len(buffer) + Len(wire)
      /\ Len(sent) \in Nat /\ Len(decoded) \in Nat /\ Len(decoded) <= Len(sent)
  BY HeadOfBuffer
<1>3. d \in Nat /\ d \in Nat \ {0}
  BY <1>2
<1>4. decoded = SubSeq(sent, 1, Len(decoded))
  BY DEF CodecInv, PacketsInOrder
<1>5. CASE /\ Decode(buffer) = Waits(buffer)
           /\ buffer # << >> => d \in 1..Len(sent) /\ Len(buffer) < len
  <2>1. Decode(buffer).result = "none" /\ Decode(buffer).rest = buffer
    BY <1>5 DEF Waits
  <2>2. buffer' = buffer /\ status' = status /\ decoded' = decoded
    BY <1>1, <2>1
  <2>3. readable' = FALSE
    <3>1. (Decode(buffer).result = "packet") = FALSE
      BY <2>1
    <3> QED BY <1>1, <3>1, Zenon
  <2>4. TypeOK'
    BY <1>1, <2>2, <2>3 DEF CodecInv, TypeOK
  <2>5. Stream' = Stream
    BY <1>1, <2>2 DEF Stream
  <2>6. Framing(Stream', sent', Len(decoded') + 1, cut')
    BY <1>1, <2>2, <2>5, ZenonT(60) DEF CodecInv
  <2>7. PacketsInOrder' /\ ErrorsOnlyWhenCut'
    BY <1>1, <2>2 DEF CodecInv, PacketsInOrder, ErrorsOnlyWhenCut
  <2>8. ASSUME wire = << >>, ~cut PROVE decoded = sent
    <3>1. Len(Stream) = Len(buffer)
      <4>1. Len(wire) = 0
        BY <2>8
      <4> QED BY <1>2, <4>1
    <3>2. buffer = << >>
      <4> SUFFICES ASSUME buffer # << >> PROVE FALSE
        OBVIOUS
      <4>1. EndsWell(Stream, sent, d, 1)
        BY <2>8, HeadOfBuffer
      <4>2. 1 + len <= Len(Stream) \/ 1 + len = Len(Stream) + 1
        BY <4>1 DEF EndsWell
      <4>3. Len(buffer) < len
        BY <1>5
      <4>4. len \in Nat
        <5>1. sent[d] \in Transfers
          BY <1>2, <1>5
        <5>2. Encode(d, sent[d]) \in Seq(Bytes)
          BY <1>3, <5>1, FrameBytes
        <5> QED BY <5>2
      <4> HIDE DEF len
      <4> QED BY <1>2, <3>1, <4>2, <4>3, <4>4
    <3>3. Stream = << >>
      BY <1>2, <3>1, <3>2
    <3>4. d = Len(sent) + 1
      BY <2>8, <3>3 DEF CodecInv, Framing
    <3>5. Len(decoded) = Len(sent)
      BY <1>2, <3>4
    <3>6. SubSeq(sent, 1, Len(sent)) = sent
      BY <1>2
    <3> QED BY <1>4, <3>5, <3>6, Zenon
  <2>9. NothingHeldBack'
    <3>1. buffer # << >> => d <= Len(sent) /\ Len(buffer) < len
      BY <1>2, <1>5
    <3> QED BY <1>1, <2>2, <2>8, <3>1 DEF NothingHeldBack
  <2> QED BY <2>4, <2>6, <2>7, <2>9 DEF CodecInv
<1>6. CASE /\ buffer # << >>
           /\ d \in 1..Len(sent)
           /\ len <= Len(buffer)
           /\ Decode(buffer) = Yields(sent[d], SplitTo(buffer, len))
  <2>1. /\ Decode(buffer).result = "packet"
        /\ Decode(buffer).packet = sent[d]
        /\ Decode(buffer).rest = SubSeq(buffer, len + 1, Len(buffer))
    BY <1>6 DEF Yields, SplitTo
  <2>2. /\ buffer' = SubSeq(buffer, len + 1, Len(buffer))
        /\ status' = status
        /\ decoded' = Append(decoded, sent[d])
    BY <1>1, <2>1
  <2>3. readable' = TRUE
    <3>1. (Decode(buffer).result = "packet") = TRUE
      BY <2>1
    <3> QED BY <1>1, <3>1, Zenon
  <2>4. sent[d] \in Transfers
    BY <1>2, <1>6
  <2>5. len \in Nat \ {0}
    BY <1>3, <2>4, FrameBytes
  <2>6. buffer' \in Seq(Bytes)
    BY <1>2, <1>6, <2>2, <2>5
  <2>7. decoded' \in Seq(Transfers) /\ Len(decoded') = d
    BY <1>2, <2>2, <2>4
  <2>8. TypeOK'
    BY <1>1, <2>2, <2>3, <2>6, <2>7 DEF CodecInv, TypeOK
  <2>9. Stream' = SubSeq(Stream, len + 1, Len(Stream))
    <3>1. len \in 0..Len(buffer)
      BY <1>2, <1>6, <2>5
    <3> HIDE DEF len
    <3>2. SubSeq(buffer, len + 1, Len(buffer)) \o wire
            = SubSeq(buffer \o wire, len + 1, Len(buffer \o wire))
      BY <1>2, <3>1, RestOfConcatenation
    <3> QED BY <1>1, <2>2, <3>2, Zenon DEF Stream
  <2>10. Framing(Stream', sent', Len(decoded') + 1, cut')
    <3>1. Framing(Stream, sent, d, cut) /\ cut \in BOOLEAN
      BY DEF CodecInv, TypeOK
    <3>2. Stream # << >>
      <4>1. Len(buffer) # 0
        BY <1>2, <1>6
      <4>2. Len(Stream) # 0
        BY <1>2, <4>1
      <4> QED BY <4>2
    <3>3. len <= Len(Stream)
      BY <1>2, <1>6, <2>5
    <3>4. Framing(SubSeq(Stream, len + 1, Len(Stream)), sent, d + 1, cut)
      BY <1>2, <1>3, <2>5, <3>1, <3>2, <3>3, FramingDrop, Zenon
    <3> QED BY <1>1, <2>7, <2>9, <3>4, Zenon
  <2>11. PacketsInOrder'
    <3>1. d <= Len(sent)
      BY <1>6, <1>2
    <3>2. SubSeq(sent, 1, d) = Append(SubSeq(sent, 1, Len(decoded)), sent[d])
      <4>1. \A k \in Nat : k + 1 <= Len(sent) =>
              SubSeq(sent, 1, k + 1) = Append(SubSeq(sent, 1, k), sent[k + 1])
        BY <1>2
      <4> QED BY <1>2, <3>1, <4>1, Zenon
    <3>3. decoded' = SubSeq(sent, 1, d)
      BY <1>4, <2>2, <3>2, Zenon
    <3> QED BY <1>1, <2>7, <3>1, <3>3, Zenon DEF PacketsInOrder
  <2>12. ErrorsOnlyWhenCut' /\ NothingHeldBack'
    BY <1>1, <2>2, <2>3 DEF CodecInv, ErrorsOnlyWhenCut, NothingHeldBack
  <2> QED BY <2>8, <2>10, <2>11, <2>12 DEF CodecInv
<1> QED BY <1>3, <1>5, <1>6, DecodeResult, Zenon

\* Each step of the stream keeps the invariant.
LEMMA CodecStep == CodecInv /\ [Next]_vars => CodecInv'
<1> SUFFICES ASSUME CodecInv, [Next]_vars PROVE CodecInv'
  OBVIOUS
<1>1. ASSUME NEW m \in Transfers, SendPacket(m) PROVE CodecInv'
  BY <1>1, SendPacketKeeps
<1>2. CASE DecodePacket
  BY <1>2, DecodePacketKeeps
<1>3. CASE ReadChunk
  BY <1>3, ReadChunkKeeps
<1>4. CASE CutStream
  BY <1>4, CutStreamKeeps
<1>5. CASE EndOfStream
  BY <1>5, EndOfStreamKeeps
<1>6. CASE UNCHANGED vars
  <2>1. UNCHANGED <<sent, wire, cut, buffer, readable, decoded, status>>
    BY <1>6 DEF vars
  <2>2. Stream' = Stream
    BY <2>1 DEF Stream
  <2>3. Framing(Stream', sent', Len(decoded') + 1, cut')
    BY <2>1, <2>2, Zenon DEF CodecInv
  <2>4. TypeOK'
    BY <2>1 DEF CodecInv, TypeOK
  <2>5. PacketsInOrder' /\ ErrorsOnlyWhenCut' /\ NothingHeldBack'
    BY <2>1 DEF CodecInv, PacketsInOrder, ErrorsOnlyWhenCut, NothingHeldBack
  <2> QED BY <2>3, <2>4, <2>5 DEF CodecInv
<1> QED BY <1>1, <1>2, <1>3, <1>4, <1>5, <1>6 DEF Next

-----------------------------------------------------------------------------
(* The theorems.                                                           *)

\* What is between encode and decode is a row of packets, and decode stands at
\* the beginning of one (message.rs:146-221, 250-325, 354, 422).
THEOREM CodecInvariance == Spec => []CodecInv
  BY CodecInitial, CodecStep, PTL DEF Spec

\* However the stream is cut into chunks, decode yields the packets as encode
\* was given them (message.rs:146-221, 250-325).
THEOREM OrderTheorem == Spec => []PacketsInOrder
<1>1. CodecInv => PacketsInOrder
  BY DEF CodecInv
<1> QED BY <1>1, CodecInvariance, PTL

\* decode never fails on a stream that was not cut (message.rs:159, 186, 263,
\* 290).
THEOREM ErrorTheorem == Spec => []ErrorsOnlyWhenCut
<1>1. CodecInv => ErrorsOnlyWhenCut
  BY DEF CodecInv
<1> QED BY <1>1, CodecInvariance, PTL

\* A decoder that waits has less than a packet, and nothing at all once all that
\* was sent was read (message.rs:148, 173, 252, 277).
THEOREM HeldBackTheorem == Spec => []NothingHeldBack
<1>1. CodecInv => NothingHeldBack
  BY DEF CodecInv
<1> QED BY <1>1, CodecInvariance, PTL
=============================================================================
