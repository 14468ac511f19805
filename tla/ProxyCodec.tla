------------------------------ MODULE ProxyCodec ------------------------------
(***************************************************************************)
(* The framing of the tunnel (message.rs).  ProxyRequestCodec and          *)
(* ProxyResponseCodec are the same code, one for each direction: a packet  *)
(* is a sealed header of 11 bytes and a sealed body, each followed by its  *)
(* tag, and the header is the associated data of the body.                 *)
(*                                                                         *)
(* A byte on the wire is known by the packet it comes from, the part of    *)
(* the packet and its place there; what sealing does to its value is left  *)
(* to ring.  The stream delivers the bytes in order, in chunks of any      *)
(* size, and may end in the middle of a packet.                            *)
(***************************************************************************)
EXTENDS Naturals, Sequences

CONSTANTS
  Transfers,  (* the [uuid, type, size] of the packets that may be sent;    *)
              (* size is that of the data or address they carry            *)
  TagLen,     (* tag_len of the AEAD algorithm                             *)
  LenMod,     (* 2^32, the number of values of the length in a header      *)
  MaxPackets  (* bound: packets sent                                       *)

Types == {"Data", "RequestAddr", "Response", "Heartbeat"}

ASSUME TransfersAssumption ==
  \A m \in Transfers : m.uuid \in Nat /\ m.type \in Types /\ m.size \in Nat
ASSUME LengthAssumption == TagLen \in Nat \ {0} /\ MaxPackets \in Nat
\* What one read of a socket or one SOCKS request yields fits the length.
ASSUME WidthAssumption ==
  LenMod \in Nat /\ LenMod > 4 /\ \A m \in Transfers : m.size < LenMod

VARIABLES
  sent,      (* the packets encoded so far                                 *)
  wire,      (* bytes written and not yet read                             *)
  cut,       (* TRUE once the stream has ended                             *)
  buffer,    (* the read buffer of FramedRead                              *)
  readable,  (* is_readable of FramedRead: the buffer is worth decoding    *)
  decoded,   (* the packets decoded so far                                 *)
  status     (* "open", "finished" or "error": how the stream was closed   *)

vars == <<sent, wire, cut, buffer, readable, decoded, status>>

HeaderLen == 6 + 4 + 1

Parts == {"header", "body"}
Bytes == [packet : Nat, part : Parts, at : Nat \ {0}]

TypeOK ==
  /\ sent \in Seq(Transfers)
  /\ wire \in Seq(Bytes)
  /\ cut \in BOOLEAN
  /\ buffer \in Seq(Bytes)
  /\ readable \in BOOLEAN
  /\ decoded \in Seq(Transfers)
  /\ status \in {"open", "finished", "error"}

Init ==
  /\ sent = << >>
  /\ wire = << >>
  /\ cut = FALSE
  /\ buffer = << >>
  /\ readable = FALSE
  /\ decoded = << >>
  /\ status = "open"

-----------------------------------------------------------------------------
(* Encoding.                                                               *)

\* Mutant of TransferLen: a heartbeat counted as eight bytes.
WideHeartbeat(m) ==
  CASE m.type = "Response" -> 1
    [] m.type = "Heartbeat" -> 8
    [] OTHER -> m.size

\* Mutant of TransferLen: an address counted in characters, not in bytes.
CharsNotBytes(m) ==
  CASE m.type = "Response" -> 1
    [] m.type = "Heartbeat" -> 4
    [] m.type = "RequestAddr" -> m.size - 1
    [] OTHER -> m.size

\* transfer_len, computed by ProxyRequest::new and ProxyResponse::new.
TransferLen(m) ==
  CASE m.type = "Response" -> 1
    [] m.type = "Heartbeat" -> 4
    [] OTHER -> m.size

\* The length as the header has it: "as u32" in encode, read_u32 in decode.
LengthField(m) == TransferLen(m) % LenMod

\* The bytes encode puts into the body.
BodyLen(m) ==
  CASE m.type = "Response" -> 1
    [] m.type = "Heartbeat" -> 4
    [] OTHER -> m.size

Part(i, part, len) == [k \in 1..len |-> [packet |-> i, part |-> part, at |-> k]]

SealedHeader(i)  == Part(i, "header", HeaderLen + TagLen)
SealedBody(i, m) == Part(i, "body", BodyLen(m) + TagLen)

Encode(i, m) == SealedHeader(i) \o SealedBody(i, m)

SendPacket(m) ==
  /\ status = "open"
  /\ ~cut
  /\ Len(sent) < MaxPackets
  /\ sent' = Append(sent, m)
  /\ wire' = wire \o Encode(Len(sent'), m)
  /\ UNCHANGED <<cut, buffer, readable, decoded, status>>

-----------------------------------------------------------------------------
(* Decoding.                                                               *)

\* open_in_place of ring accepts exactly what was sealed, with the same
\* associated data.
OpensHeader(bytes) == \E i \in 1..Len(sent) : bytes = SealedHeader(i)

OpensBody(bytes, aad) ==
  \E i \in 1..Len(sent) : bytes = SealedBody(i, sent[i]) /\ aad = SealedHeader(i)

Waits(src)        == [result |-> "none", rest |-> src]
Fails(src)        == [result |-> "error", rest |-> src]
Yields(packet, r) == [result |-> "packet", packet |-> packet, rest |-> r]

Complete(src, length) == Len(src) >= length

\* Mutant of SplitTo: the packet is looked at and not taken.
LeftInPlace(src, length) == src

\* Mutant of SplitTo: the tag of the body is not taken.
TagLeftBehind(src, length) == SubSeq(src, length - TagLen + 1, Len(src))

\* What split_to leaves in the buffer.
SplitTo(src, length) == SubSeq(src, length + 1, Len(src))

\* decode: the header is opened in a copy, so that a packet whose body has not
\* arrived leaves the buffer as it was.
Decode(src) ==
  LET parse1 == SubSeq(src, 1, HeaderLen + TagLen)
      header == sent[parse1[1].packet]
      length == HeaderLen + TagLen + LengthField(header) + TagLen
      parse2 == SubSeq(src, HeaderLen + TagLen + 1, length)
  IN IF ~Complete(src, HeaderLen + TagLen) THEN Waits(src)
     ELSE IF ~OpensHeader(parse1)          THEN Fails(src)
     ELSE IF ~Complete(src, length)        THEN Waits(src)
     ELSE IF ~OpensBody(parse2, parse1)    THEN Fails(src)
     ELSE Yields(sent[parse2[1].packet], SplitTo(src, length))

\* FramedRead: decode as long as there are packets, read when there is none.
DecodePacket ==
  /\ status = "open"
  /\ readable
  /\ LET r == Decode(buffer)
     IN /\ buffer' = r.rest
        /\ readable' = (r.result = "packet")
        /\ status' = IF r.result = "error" THEN "error" ELSE status
        /\ decoded' = IF r.result = "packet" THEN Append(decoded, r.packet) ELSE decoded
  /\ UNCHANGED <<sent, wire, cut>>

ReadChunk ==
  /\ status = "open"
  /\ ~readable
  /\ \E n \in 1..Len(wire) :
       /\ buffer' = buffer \o SubSeq(wire, 1, n)
       /\ wire' = SubSeq(wire, n + 1, Len(wire))
  /\ readable' = TRUE
  /\ UNCHANGED <<sent, cut, decoded, status>>

\* The peer or the network ends the stream; some of what was written is lost.
CutStream ==
  /\ status = "open"
  /\ ~cut
  /\ cut' = TRUE
  /\ \E n \in 0..Len(wire) : wire' = SubSeq(wire, 1, n)
  /\ UNCHANGED <<sent, buffer, readable, decoded, status>>

\* decode_eof: bytes that make no packet are an error at the end of the stream.
EndOfStream ==
  /\ status = "open"
  /\ cut
  /\ ~readable
  /\ wire = << >>
  /\ status' = IF buffer = << >> THEN "finished" ELSE "error"
  /\ UNCHANGED <<sent, wire, cut, buffer, readable, decoded>>

Next ==
  \/ \E m \in Transfers : SendPacket(m)
  \/ DecodePacket
  \/ ReadChunk
  \/ CutStream
  \/ EndOfStream

Spec == Init /\ [][Next]_vars

-----------------------------------------------------------------------------
(* Properties.                                                             *)

\* However the stream is cut into chunks, the packets come out of decode
\* (message.rs:146-221, 250-325) as they went into encode: none lost, none
\* twice, none out of order.
PacketsInOrder == Len(decoded) <= Len(sent) /\ decoded = SubSeq(sent, 1, Len(decoded))

\* "dec error" (message.rs:159, 186, 263, 290) is never the fate of an intact
\* stream: the checks of the two lengths keep every partial packet waiting.
ErrorsOnlyWhenCut == status = "error" => cut

\* When decode has asked for more bytes (message.rs:148, 173, 252, 277), what
\* is left in the buffer is less than the next packet, also at the end of a
\* stream that was cut; an intact stream that was read completely leaves
\* nothing behind.
NothingHeldBack ==
  ~readable =>
    /\ buffer # << >> =>
         LET i == Len(decoded) + 1
         IN i <= Len(sent) /\ Len(buffer) < Len(Encode(i, sent[i]))
    /\ wire = << >> /\ ~cut => decoded = sent

-----------------------------------------------------------------------------
(* Why these hold: what is between encode and decode, the buffer and the   *)
(* wire together, is a row of packets.                                     *)

Stream == buffer \o wire

FirstByte(i) == [packet |-> i, part |-> "header", at |-> 1]

\* Packet i lies at place k of s, or as much of it as fits into s; what
\* follows it, if anything, is the beginning of the next.
FrameAt(s, packets, i, k) ==
  LET frame == Encode(i, packets[i])
  IN /\ \A j \in 1..Len(frame) : k + j - 1 <= Len(s) => s[k + j - 1] = frame[j]
     /\ k + Len(frame) <= Len(s) => i < Len(packets) /\ s[k + Len(frame)] = FirstByte(i + 1)

\* Packet i is complete, and it is the last if nothing follows.
EndsWell(s, packets, i, k) ==
  LET end == k + Len(Encode(i, packets[i]))
  IN end <= Len(s) \/ (end = Len(s) + 1 /\ i = Len(packets))

\* s is made of the packets from first on, all of them unless it was cut.
Framing(s, packets, first, ended) ==
  /\ s = << >> /\ ~ended => first = Len(packets) + 1
  /\ s # << >> => first <= Len(packets) /\ s[1] = FirstByte(first)
  /\ \A k \in 1..Len(s) : s[k].packet \in 1..Len(packets)
  /\ \A i \in 1..Len(packets), k \in 1..Len(s) :
       s[k] = FirstByte(i) => /\ FrameAt(s, packets, i, k)
                              /\ ended \/ EndsWell(s, packets, i, k)

\* decode (message.rs:146-221, 250-325) always stands at the beginning of the
\* packet after the one it yielded last.
CodecInv ==
  /\ TypeOK
  /\ Framing(Stream, sent, Len(decoded) + 1, cut)
  /\ PacketsInOrder
  /\ ErrorsOnlyWhenCut
  /\ NothingHeldBack
=============================================================================
