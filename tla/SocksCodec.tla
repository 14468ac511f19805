----------------------------- MODULE SocksCodec -----------------------------
(***************************************************************************)
(* The bytes between an application and its SOCKS session: the request     *)
(* codec (socks/codec.rs, socks/message.rs) on a stream that arrives in    *)
(* chunks of any size, and the response codec on what is written back.     *)
(*                                                                         *)
(* What an application says is a record of Apps: how many methods it       *)
(* offers, its command, address type, length and encoding of the domain,   *)
(* port, bytes of data, and whether it is eager, that is, sends everything *)
(* without waiting for replies.  Its stream is a function of the record,   *)
(* so that a byte is known by its place, from 0 on; what an item was       *)
(* decoded from is a range [from, to) of places.                           *)
(***************************************************************************)
EXTENDS Integers, Sequences

CONSTANTS
  Apps,       (* what applications may say                                 *)
  MaxChunks   (* bound: chunks of target data written to the application   *)

U8  == 0..255
U16 == 0..65535

ASSUME AppsAssumption ==
  \A a \in Apps :
    /\ a.methods \in U8 /\ a.command \in U8 /\ a.kind \in U8 /\ a.domain \in U8
    /\ a.utf8 \in BOOLEAN /\ a.eager \in BOOLEAN /\ a.port \in U16 /\ a.data \in Nat
ASSUME MaxChunksAssumption == MaxChunks \in Nat

VARIABLES
  app,       (* what the application of this session says                  *)
  arrived,   (* bytes of it that were read from the socket                 *)
  taken,     (* bytes that were split off; the buffer is [taken, arrived)  *)
  readable,  (* is_readable of FramedRead: the buffer is worth decoding    *)
  state,     (* Socks5RequestCodec::state                                  *)
  items,     (* what was decoded, in order                                 *)
  answer,    (* "none", "Succeeded" or "ConnectionRefused"                 *)
  out,       (* the bytes written to the application                       *)
  status     (* "open", "panic" in decode, or how the stream was closed    *)

vars == <<app, arrived, taken, readable, state, items, answer, out, status>>

-----------------------------------------------------------------------------
(* The stream of an application.                                           *)

GreetingLen(a) == 2 + a.methods

AddressLen(a) == CASE a.kind = 1 -> 4
                   [] a.kind = 4 -> 16
                   [] OTHER -> 1 + a.domain

RequestEnd(a) == GreetingLen(a) + 4 + AddressLen(a) + 2
StreamLen(a)  == RequestEnd(a) + a.data

\* The values decode looks at; the other bytes may be anything.
Byte(o) ==
  LET g == GreetingLen(app)
      e == RequestEnd(app)
  IN CASE o = 1     -> app.methods
       [] o = g + 1 -> app.command
       [] o = g + 3 -> app.kind
       [] o = g + 4 -> app.domain
       [] o = e - 2 -> app.port \div 256
       [] o = e - 1 -> app.port % 256
       [] OTHER     -> 0

WellFormed(a) == a.kind \in {1, 3, 4} /\ a.command \in 1..3 /\ (a.kind = 3 => a.utf8)

-----------------------------------------------------------------------------
(* Socks5RequestCodec.                                                     *)

Buffered == arrived - taken
At(i)    == Byte(taken + i)

AsU8(n)  == n % 256
AsI16(n) == IF n < 32768 THEN n ELSE n - 65536

Waits  == [result |-> "none"]
Panics == [result |-> "panic"]

\* Mutant of Yields: a byte of what follows is taken as well.
YieldsOneMore(m, len) == IF len <= Buffered
                         THEN [result |-> "item", item |-> m, len |-> len + 1]
                         ELSE Panics

\* split_to panics beyond the end of the buffer.
Yields(m, len) == IF len <= Buffered
                  THEN [result |-> "item", item |-> m, len |-> len]
                  ELSE Panics

\* Mutant of DecodeMethodSelection: the methods are not waited for.
SelectionUnmeasured ==
  IF Buffered < 2 THEN Waits
  ELSE Yields([type |-> "Negotiation", from |-> taken + 2, to |-> taken + 2 + At(1)],
              2 + At(1))

\* Mutant of DecodeMethodSelection: a byte too many is waited for.
SelectionPatient ==
  IF Buffered < 2 \/ AsU8(Buffered - 2) <= At(1) THEN Waits
  ELSE Yields([type |-> "Negotiation", from |-> taken + 2, to |-> taken + 2 + At(1)],
              2 + At(1))

\* The length of what follows the first two bytes is compared as a u8.
DecodeMethodSelection ==
  IF Buffered < 2 \/ AsU8(Buffered - 2) < At(1) THEN Waits
  ELSE Yields([type |-> "Negotiation", from |-> taken + 2, to |-> taken + 2 + At(1)],
              2 + At(1))

\* Mutant of RequestLength: the byte that holds the domain's length forgotten.
DomainUncounted == CASE At(3) = 1 -> 10
                     [] At(3) = 3 -> 6 + At(4)
                     [] At(3) = 4 -> 22

RequestLength == CASE At(3) = 1 -> 10
                   [] At(3) = 3 -> 7 + At(4)
                   [] At(3) = 4 -> 22

Port(o) == AsI16(256 * At(o) + At(o + 1))

TargetRequest ==
  LET first == IF At(3) = 3 THEN 5 ELSE 4
      last  == RequestLength - 2
  IN [type |-> "TargetRequest", command |-> At(1), request_type |-> At(3),
      from |-> taken + first, to |-> taken + last, port |-> Port(last)]

\* An unknown address type panics as soon as it is seen, an unknown command or
\* a domain that is not UTF-8 once the request is complete.
DecodeTargetRequest ==
  IF Buffered < 5 THEN Waits
  ELSE IF At(3) \notin {1, 3, 4} THEN Panics
  ELSE IF Buffered < RequestLength THEN Waits
  ELSE IF At(1) \notin 1..3 \/ (At(3) = 3 /\ ~app.utf8) THEN Panics
  ELSE Yields(TargetRequest, RequestLength)

\* Mutant of DecodeData: a byte stays in the buffer.
DataBut1 ==
  IF Buffered < 2 THEN Waits
  ELSE Yields([type |-> "Data", from |-> taken, to |-> arrived - 1], Buffered - 1)

DecodeData ==
  IF Buffered = 0 THEN Waits
  ELSE Yields([type |-> "Data", from |-> taken, to |-> arrived], Buffered)

\* to_addressstring: the address and the port, signed as it was read.
AddressString(m) == [host |-> <<m.from, m.to>>, port |-> m.port]

-----------------------------------------------------------------------------
(* Socks5ResponseCodec.  A byte of the target is 256, which no other is.   *)

TargetByte == 256

EncodeMethodSelection == <<5, 0>>

TypeByte(type) == CASE type = "IpV4" -> 0 [] type = "IpV6" -> 4 [] type = "DOMAIN" -> 3

\* Mutant of EncodeAddress: the domain without its length.
AddressUncounted(type, address) == address

EncodeAddress(type, address) ==
  IF type = "DOMAIN" THEN <<Len(address)>> \o address ELSE address

EncodeTargetResponse(response, type, address) ==
  <<5, response, 0, TypeByte(type)>> \o EncodeAddress(type, address) \o <<0, 0>>

\* The replies of SocksClient: the domain "123" with a success, "" with a failure.
Response(ok) == IF ok THEN EncodeTargetResponse(0, "DOMAIN", <<49, 50, 51>>)
                      ELSE EncodeTargetResponse(5, "DOMAIN", << >>)

-----------------------------------------------------------------------------
(* The session.                                                            *)

Init ==
  /\ app \in Apps
  /\ arrived = 0
  /\ taken = 0
  /\ readable = FALSE
  /\ state = "NEGOTIATION"
  /\ items = << >>
  /\ answer = "none"
  /\ out = << >>
  /\ status = "open"

\* What the application has sent so far.
Sent == IF app.eager \/ answer = "Succeeded" THEN StreamLen(app)
        ELSE IF state = "NEGOTIATION" THEN GreetingLen(app)
        ELSE RequestEnd(app)

\* FramedRead reads when there is nothing left to decode.
ReadChunk ==
  /\ status = "open"
  /\ ~readable
  /\ \E n \in (arrived + 1)..Sent : arrived' = n
  /\ readable' = TRUE
  /\ UNCHANGED <<app, taken, state, items, answer, out, status>>

Decoded == CASE state = "NEGOTIATION" -> DecodeMethodSelection
             [] state = "WORKING"     -> DecodeTargetRequest
             [] state = "READY"       -> DecodeData

StateAfter(s) == IF s = "NEGOTIATION" THEN "WORKING" ELSE "READY"

\* decode and the handler of what it yields: a greeting is replied to at once.
Decode ==
  /\ status = "open"
  /\ readable
  /\ LET r == Decoded
     IN \/ /\ r.result = "item"
           /\ items' = Append(items, r.item)
           /\ taken' = taken + r.len
           /\ state' = StateAfter(state)
           /\ out' = IF r.item.type = "Negotiation" THEN out \o EncodeMethodSelection ELSE out
           /\ UNCHANGED <<readable, status>>
        \/ /\ r.result = "none"
           /\ readable' = FALSE
           /\ UNCHANGED <<taken, state, items, out, status>>
        \/ /\ r.result = "panic"
           /\ status' = "panic"
           /\ UNCHANGED <<taken, readable, state, items, out>>
  /\ UNCHANGED <<app, arrived, answer>>

\* ConnectorResponse Succeeded and Failed, which follow a target request.
Answer(ok) ==
  /\ status = "open"
  /\ state = "READY"
  /\ answer = "none"
  /\ answer' = IF ok THEN "Succeeded" ELSE "ConnectionRefused"
  /\ out' = out \o Response(ok)
  /\ UNCHANGED <<app, arrived, taken, readable, state, items, status>>

\* ConnectorResponse Data: a byte stands for the chunk.
TargetData ==
  /\ status = "open"
  /\ answer = "Succeeded"
  /\ Len(SelectSeq(out, LAMBDA b : b = TargetByte)) < MaxChunks
  /\ out' = Append(out, TargetByte)
  /\ UNCHANGED <<app, arrived, taken, readable, state, items, answer, status>>

\* The application or the network ends the stream, anywhere; decode_eof makes
\* an error of bytes that are left.
Close ==
  /\ status = "open"
  /\ ~readable
  /\ status' = IF Buffered = 0 THEN "finished" ELSE "error"
  /\ UNCHANGED <<app, arrived, taken, readable, state, items, answer, out>>

Next ==
  \/ ReadChunk
  \/ Decode
  \/ \E ok \in BOOLEAN : Answer(ok)
  \/ TargetData
  \/ Close

\* Bytes that were sent arrive, and the event loop decodes them.
Spec == Init /\ [][Next]_vars /\ WF_vars(ReadChunk) /\ WF_vars(Decode)

-----------------------------------------------------------------------------
(* Properties.                                                             *)

Item ==
  [type : {"Negotiation", "Data"}, from : Nat, to : Nat]
    \cup [type : {"TargetRequest"}, command : U8, request_type : U8,
          from : Nat, to : Nat, port : Int]

TypeOK ==
  /\ app \in Apps
  /\ arrived \in 0..StreamLen(app)
  /\ taken \in 0..arrived
  /\ readable \in BOOLEAN
  /\ state \in {"NEGOTIATION", "WORKING", "READY"}
  /\ items \in Seq(Item)
  /\ answer \in {"none", "Succeeded", "ConnectionRefused"}
  /\ out \in Seq(U8 \cup {TargetByte})
  /\ status \in {"open", "panic", "finished", "error"}

\* m is the target request of this application, all the bits of its port there.
IsRequest(m) ==
  /\ m.type = "TargetRequest"
  /\ m.command = app.command
  /\ m.request_type = app.kind
  /\ m.from = GreetingLen(app) + IF app.kind = 3 THEN 5 ELSE 4
  /\ m.to = RequestEnd(app) - 2
  /\ m.port % 65536 = app.port

\* However the stream is cut into chunks, decode (codec.rs:123-148) yields the
\* greeting, the request and then the data as they were sent: the request has
\* the address between its two ends and all the bits of the port, and each
\* piece of data continues the one before.
ItemsAsSent ==
  \A i \in 1..Len(items) :
    /\ i = 1 => items[i] = [type |-> "Negotiation", from |-> 2, to |-> GreetingLen(app)]
    /\ i = 2 => IsRequest(items[i])
    /\ i > 2 => /\ items[i].type = "Data"
                /\ items[i].from = IF i = 3 THEN RequestEnd(app) ELSE items[i - 1].to

\* decode panics (codec.rs:74, 88, 100, 110, and split_to beyond the buffer) on
\* a malformed target request only, whatever has arrived of a good one; and a
\* malformed one never becomes a request (SocksClient!DecodePanics).
PanicIsDeserved ==
  /\ status = "panic" => state = "WORKING" /\ ~WellFormed(app)
  /\ state = "READY" => WellFormed(app)

\* When decode has asked for more bytes (codec.rs:31, 40, 45, 63, 77) the next
\* item has not arrived completely.  The exception is the length that wraps
\* (codec.rs:43): a greeting that is followed by so much that 258 bytes or more
\* are in the buffer, which takes an eager application.
NothingHeldBack ==
  ~readable =>
    /\ state = "NEGOTIATION" => Buffered < GreetingLen(app) \/ (app.eager /\ Buffered >= 258)
    /\ state = "WORKING" => arrived < RequestEnd(app)
    /\ state = "READY" => Buffered = 0

\* What an application that reads by the lengths in the replies takes for data
\* (codec.rs:152-199) is the target's data, all of it and nothing else, and the
\* reply it reads is the one that was given (socks.rs:84-106).
RepliesDelimited ==
  IF answer = "none"
  THEN Len(out) = IF state = "NEGOTIATION" THEN 0 ELSE 2
  ELSE LET replyEnd == 2 + 4 + 1 + out[7] + 2
       IN /\ replyEnd <= Len(out)
          /\ \A i \in 1..Len(out) : out[i] = TargetByte <=> i > replyEnd
          /\ out[4] = IF answer = "Succeeded" THEN 0 ELSE 5

\* Why these hold: nothing arrives before it is sent, what was taken ends where
\* the item taken last ends, and there is an answer after a request only
\* (codec.rs:123-148, socks.rs:84-106).
SocksInv ==
  /\ TypeOK
  /\ arrived <= Sent
  /\ state = "NEGOTIATION" => taken = 0 /\ items = << >> /\ answer = "none"
  /\ state = "WORKING" => taken = GreetingLen(app) /\ Len(items) = 1 /\ answer = "none"
  /\ state = "READY" =>
       /\ Len(items) >= 2
       /\ taken = IF Len(items) = 2 THEN RequestEnd(app) ELSE items[Len(items)].to
  /\ \A i \in 1..Len(items) : items[i].from <= items[i].to /\ items[i].to <= taken
  /\ answer = "none" => out = IF state = "NEGOTIATION" THEN << >> ELSE EncodeMethodSelection
  /\ answer # "none" => out[7] \in {0, 3}
  /\ ItemsAsSent
  /\ PanicIsDeserved
  /\ NothingHeldBack
  /\ RepliesDelimited

\* Every good request is decoded in the end, unless the stream ends first, if
\* the application waits for the reply to its greeting or sends less than what
\* makes the u8 of codec.rs:43 wrap.
RequestDecoded ==
  (WellFormed(app) /\ (app.eager => StreamLen(app) < 258))
    ~> (state = "READY" \/ status # "open")

\* The address passed to the server (message.rs:91-104) names the port the
\* application asked for.
AddressNamesTarget ==
  \A i \in 1..Len(items) :
    items[i].type = "TargetRequest" => AddressString(items[i]).port = app.port
=============================================================================
