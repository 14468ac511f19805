-------------------------------- MODULE Relay --------------------------------
(***************************************************************************)
(* What the proxy promises a session, as its application and its target    *)
(* see it: one true answer, then two streams of bytes.  No actor, queue or *)
(* tunnel appears here.  What one end was given is a sequence of chunks of *)
(* the other end's stream, each of which continues the one before: loss,   *)
(* repetition and reordering are no steps of this specification.           *)
(*                                                                         *)
(* Two things are allowed because the proxy does them: a target may take   *)
(* less of a chunk than it is offered, and the rest is dropped; and a      *)
(* session may end at any time.                                            *)
(***************************************************************************)
EXTENDS Naturals, Sequences

CONSTANT Sessions

VARIABLES
  asked,     (* the sessions that have asked for their target              *)
  answer,    (* what it was told: "none", "Succeeded", "ConnectionRefused" *)
  target,    (* its target: "none", "open", "eof", "reset"                 *)
  sent,      (* bytes the application sent                                 *)
  offered,   (* the chunks (lo, end] of them the target was offered, and   *)
             (* the part (lo, hi] of each that it took                     *)
  emitted,   (* bytes the target sent                                      *)
  received,  (* the chunks (lo, hi] of them the application received       *)
  ended      (* "no", "closed", or "aborted" by the proxy                  *)

vars == <<asked, answer, target, sent, offered, emitted, received, ended>>

OfferedUpTo(s)  == IF offered[s] = << >> THEN 0 ELSE offered[s][Len(offered[s])].end
ReceivedUpTo(s) == IF received[s] = << >> THEN 0 ELSE received[s][Len(received[s])].hi

Init ==
  /\ asked = {}
  /\ answer = [s \in Sessions |-> "none"]
  /\ target = [s \in Sessions |-> "none"]
  /\ sent = [s \in Sessions |-> 0]
  /\ offered = [s \in Sessions |-> << >>]
  /\ emitted = [s \in Sessions |-> 0]
  /\ received = [s \in Sessions |-> << >>]
  /\ ended = [s \in Sessions |-> "no"]

Ask(s) ==
  /\ ended[s] = "no"
  /\ s \notin asked
  /\ asked' = asked \cup {s}
  /\ UNCHANGED <<answer, target, sent, offered, emitted, received, ended>>

\* The target is reached for a session that has asked and has no answer yet,
\* though it may be gone by now.
Connect(s) ==
  /\ s \in asked
  /\ answer[s] = "none"
  /\ target[s] = "none"
  /\ target' = [target EXCEPT ![s] = "open"]
  /\ UNCHANGED <<asked, answer, sent, offered, emitted, received, ended>>

\* One answer, which is a success exactly if the target was reached.
Answer(s) ==
  /\ ended[s] = "no"
  /\ s \in asked
  /\ answer[s] = "none"
  /\ answer' = [answer EXCEPT ![s] =
                  IF target[s] = "none" THEN "ConnectionRefused" ELSE "Succeeded"]
  /\ UNCHANGED <<asked, target, sent, offered, emitted, received, ended>>

\* The application may send before it has an answer.
Send(s) ==
  /\ ended[s] = "no"
  /\ s \in asked
  /\ sent'[s] > sent[s]
  /\ sent' = [sent EXCEPT ![s] = sent'[s]]
  /\ UNCHANGED <<asked, answer, target, offered, emitted, received, ended>>

Offer(s) ==
  /\ target[s] \in {"open", "eof"}
  /\ \E end \in (OfferedUpTo(s) + 1)..sent[s] : \E hi \in (OfferedUpTo(s) + 1)..end :
       offered' = [offered EXCEPT ![s] =
         Append(@, [src |-> s, lo |-> OfferedUpTo(s), hi |-> hi, end |-> end])]
  /\ UNCHANGED <<asked, answer, target, sent, emitted, received, ended>>

Emit(s) ==
  /\ target[s] = "open"
  /\ emitted'[s] > emitted[s]
  /\ emitted' = [emitted EXCEPT ![s] = emitted'[s]]
  /\ UNCHANGED <<asked, answer, target, sent, offered, received, ended>>

\* Data reaches the application only after a success.
Receive(s) ==
  /\ ended[s] = "no"
  /\ answer[s] = "Succeeded"
  /\ \E hi \in (ReceivedUpTo(s) + 1)..emitted[s] :
       received' = [received EXCEPT ![s] =
         Append(@, [src |-> s, lo |-> ReceivedUpTo(s), hi |-> hi])]
  /\ UNCHANGED <<asked, answer, target, sent, offered, emitted, ended>>

TargetEnds(s) ==
  /\ target[s] = "open"
  /\ \E how \in {"eof", "reset"} : target' = [target EXCEPT ![s] = how]
  /\ UNCHANGED <<asked, answer, sent, offered, emitted, received, ended>>

\* The proxy aborts a session only after a success and a reset of its target.
Abort(s) ==
  /\ ended[s] = "no"
  /\ answer[s] = "Succeeded"
  /\ target[s] = "reset"
  /\ ended' = [ended EXCEPT ![s] = "aborted"]
  /\ UNCHANGED <<asked, answer, target, sent, offered, emitted, received>>

\* Applications leave, one by one, or all at once when the client ends.
Close(S) ==
  /\ S # {}
  /\ \A s \in S : ended[s] = "no"
  /\ ended' = [s \in Sessions |-> IF s \in S THEN "closed" ELSE ended[s]]
  /\ UNCHANGED <<asked, answer, target, sent, offered, emitted, received>>

Next ==
  \/ \E s \in Sessions :
       \/ Ask(s)
       \/ Connect(s)
       \/ Answer(s)
       \/ Send(s)
       \/ Offer(s)
       \/ Emit(s)
       \/ Receive(s)
       \/ TargetEnds(s)
       \/ Abort(s)
  \/ \E S \in SUBSET Sessions : Close(S)

Spec == Init /\ [][Next]_vars
=============================================================================
