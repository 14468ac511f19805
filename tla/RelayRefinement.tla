--------------------------- MODULE RelayRefinement ---------------------------
(***************************************************************************)
(* The proxy implements Relay for the sessions that share their port with  *)
(* no other: the mapping from the actors, queues and packets of JustProxy  *)
(* to what the two ends of a session see.                                  *)
(***************************************************************************)
EXTENDS SessionOrder

\* An application is sent the method selection, the answer, and then data.
AnswerIn(rx) == IF Len(rx) < 2 THEN "none" ELSE rx[2].type

DataIn(rx) == IF Len(rx) < 3 THEN << >>
              ELSE [i \in 1..(Len(rx) - 2) |->
                      [src |-> rx[i + 2].src, lo |-> rx[i + 2].lo, hi |-> rx[i + 2].hi]]

EndOf(state) ==
  CASE state \in {"none"} \cup Running -> "no"
    [] state = "aborted" -> "aborted"
    [] OTHER -> "closed"

R == INSTANCE Relay WITH
       Sessions <- OwnPort,
       asked    <- requested \cap OwnPort,
       answer   <- [s \in OwnPort |-> AnswerIn(appRx[s])],
       target   <- [s \in OwnPort |-> target[s]],
       sent     <- [s \in OwnPort |-> sent[s]],
       offered  <- [s \in OwnPort |-> targetRx[s]],
       emitted  <- [s \in OwnPort |-> emitted[s]],
       received <- [s \in OwnPort |-> DataIn(appRx[s])],
       ended    <- [s \in OwnPort |-> EndOf(sock[s])]

\* Whatever the actors, futures and queues do (socks.rs:82-152, client.rs:77-139,
\* server.rs:46-189), a session with a port of its own sees one true answer and
\* then two streams in order: every step of the proxy is a step of Relay, or
\* invisible to the session.
ImplementsRelay == R!Spec
=============================================================================
