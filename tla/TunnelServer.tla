---------------------------- MODULE TunnelServer ----------------------------
(***************************************************************************)
(* The server process: its start, which for QUIC reads or makes a          *)
(* certificate on disk, and the tunnels it accepts (connector/tcp.rs,      *)
(* connector/quic.rs).  What a tunnel does is ProxyClient's; here it is    *)
(* served, and it ends or panics.                                          *)
(*                                                                         *)
(* With TCP the actor of a tunnel runs on a thread of its own; with QUIC   *)
(* all actors, the streams' agents included, run on the main thread.  A    *)
(* panic ends its thread, and the process if that is the main one.         *)
(*                                                                         *)
(* A file is Absent, Torn (created and not completely written) or the      *)
(* number of the pair it belongs to.  The process may crash anywhere and   *)
(* is started again; only the files survive.                               *)
(***************************************************************************)
EXTENDS Integers

CONSTANTS
  Tunnels,   (* the tunnels of clients                                     *)
  MaxPairs   (* bound: certificates made                                   *)

ASSUME MaxPairsAssumption == MaxPairs \in Nat

VARIABLES
  protocol,   (* "tcp" or "quic"                                           *)
  phase,      (* where the main thread is                                  *)
  cert, key,  (* cert.der and key.der on disk                              *)
  made,       (* pairs made so far                                         *)
  pair,       (* the certificate and the key in memory                     *)
  accepting,  (* the loop over incoming goes on                            *)
  driver,     (* the driver of the QUIC endpoint goes on                   *)
  tunnel,     (* state of each tunnel                                      *)
  thread,     (* where the actor of each tunnel runs: a tunnel stands for  *)
              (* its own thread                                            *)
  culprits    (* the tunnels whose own actor has panicked                  *)

disk == <<cert, key, made>>
work == <<accepting, driver, tunnel, thread, culprits>>
vars == <<protocol, phase, disk, pair, work>>

Absent == 0
Torn   == -1
Main   == "main"

ASSUME MainAssumption == Main \notin Tunnels

Starting == {"start", "readKey", "createCert", "writeCert", "createKey", "writeKey", "load"}
Down     == {"down", "panic_key", "panic_der", "panic_main"}
Live     == {"offered", "accepted", "served"}

Files == {Absent, Torn} \cup 1..made

TypeOK ==
  /\ protocol \in {"tcp", "quic"}
  /\ phase \in Starting \cup {"running"} \cup Down
  /\ cert \in Files /\ key \in Files
  /\ pair \in [cert : Files, key : Files]
  /\ made \in 0..MaxPairs
  /\ accepting \in BOOLEAN /\ driver \in BOOLEAN
  /\ tunnel \in [Tunnels -> {"none", "ended", "panicked"} \cup Live]
  /\ thread \in [Tunnels -> Tunnels \cup {Main}]
  /\ culprits \subseteq Tunnels

NoPair == [cert |-> Absent, key |-> Absent]

Init ==
  /\ protocol \in {"tcp", "quic"}
  /\ phase = "start"
  /\ cert = Absent /\ key = Absent /\ made = 0
  /\ pair = NoPair
  /\ accepting = FALSE
  /\ driver = FALSE
  /\ tunnel = [t \in Tunnels |-> "none"]
  /\ thread = [t \in Tunnels |-> Main]
  /\ culprits = {}

-----------------------------------------------------------------------------
(* The start.                                                              *)

Go(to) == phase' = to /\ UNCHANGED <<protocol, work>>

\* run_server binds and starts the loop over incoming.
Listen ==
  /\ phase' = "running"
  /\ accepting' = TRUE
  /\ driver' = (protocol = "quic")
  /\ UNCHANGED <<protocol, tunnel, thread, culprits>>

StartTcp ==
  /\ phase = "start"
  /\ protocol = "tcp"
  /\ Listen
  /\ UNCHANGED <<disk, pair>>

ReadCert ==
  /\ phase = "start"
  /\ protocol = "quic"
  /\ cert # Absent
  /\ pair' = [cert |-> cert, key |-> Absent]
  /\ Go("readKey")
  /\ UNCHANGED disk

\* Mutant of ReadKey: a key that is missing is made, for a certificate that is not.
ReadOrMakeKey ==
  /\ phase = "readKey"
  /\ IF key = Absent
     THEN /\ made < MaxPairs
          /\ made' = made + 1
          /\ key' = made'
          /\ pair' = [pair EXCEPT !.key = made']
          /\ Go("load")
          /\ UNCHANGED cert
     ELSE /\ pair' = [pair EXCEPT !.key = key]
          /\ Go("load")
          /\ UNCHANGED disk

\* fs::read of the key is unwrapped.
ReadKey ==
  /\ phase = "readKey"
  /\ pair' = [pair EXCEPT !.key = key]
  /\ Go(IF key = Absent THEN "panic_key" ELSE "load")
  /\ UNCHANGED disk

\* Only a certificate that is not found makes a new pair.
Generate ==
  /\ phase = "start"
  /\ protocol = "quic"
  /\ cert = Absent
  /\ made < MaxPairs
  /\ made' = made + 1
  /\ pair' = [cert |-> made', key |-> made']
  /\ Go("createCert")
  /\ UNCHANGED <<cert, key>>

\* Mutant of WriteFiles: the key is written before the certificate.
KeyWrittenFirst ==
  \/ /\ phase = "createCert"
     /\ key' = Torn
     /\ Go("writeCert")
     /\ UNCHANGED <<cert, made, pair>>
  \/ /\ phase = "writeCert"
     /\ key' = pair.key
     /\ Go("createKey")
     /\ UNCHANGED <<cert, made, pair>>
  \/ /\ phase = "createKey"
     /\ cert' = Torn
     /\ Go("writeKey")
     /\ UNCHANGED <<key, made, pair>>
  \/ /\ phase = "writeKey"
     /\ cert' = pair.cert
     /\ Go("load")
     /\ UNCHANGED <<key, made, pair>>

\* fs::write creates a file and then writes it: first the certificate, then the key.
WriteFiles ==
  \/ /\ phase = "createCert"
     /\ cert' = Torn
     /\ Go("writeCert")
     /\ UNCHANGED <<key, made, pair>>
  \/ /\ phase = "writeCert"
     /\ cert' = pair.cert
     /\ Go("createKey")
     /\ UNCHANGED <<key, made, pair>>
  \/ /\ phase = "createKey"
     /\ key' = Torn
     /\ Go("writeKey")
     /\ UNCHANGED <<cert, made, pair>>
  \/ /\ phase = "writeKey"
     /\ key' = pair.key
     /\ Go("load")
     /\ UNCHANGED <<cert, made, pair>>

\* from_der of both is unwrapped.
StartQuic ==
  /\ phase = "load"
  /\ IF Torn \in {pair.cert, pair.key} THEN Go("panic_der") ELSE Listen
  /\ UNCHANGED <<disk, pair>>

\* All that was in memory is gone.
Lose(how) ==
  /\ phase' = how
  /\ pair' = NoPair
  /\ accepting' = FALSE
  /\ driver' = FALSE
  /\ thread' = [t \in Tunnels |-> Main]
  /\ UNCHANGED <<protocol, disk>>

Crash ==
  /\ phase \notin Down
  /\ Lose("down")
  /\ tunnel' = [t \in Tunnels |-> "none"]
  /\ culprits' = {}

Restart ==
  /\ phase \in Down
  /\ Lose("start")
  /\ tunnel' = [t \in Tunnels |-> "none"]
  /\ culprits' = {}

-----------------------------------------------------------------------------
(* The tunnels.                                                            *)

Step(t, from, to) ==
  /\ phase = "running"
  /\ tunnel[t] \in from
  /\ tunnel' = [tunnel EXCEPT ![t] = to]
  /\ UNCHANGED <<protocol, phase, disk, pair, accepting, driver, culprits>>

\* A client connects: to the backlog of the listener, or with a handshake.
Offer(t) ==
  /\ accepting
  /\ protocol = "quic" => driver
  /\ Step(t, {"none"}, "offered")
  /\ UNCHANGED thread

\* Mutant of AcceptTcp: the actor is created on the thread of the listener.
AcceptOnMain(t) ==
  /\ protocol = "tcp" /\ accepting
  /\ Step(t, {"offered"}, "served")
  /\ thread' = [thread EXCEPT ![t] = Main]

\* Arbiter::start: the actor of a tunnel has a thread of its own.
AcceptTcp(t) ==
  /\ protocol = "tcp" /\ accepting
  /\ Step(t, {"offered"}, "served")
  /\ thread' = [thread EXCEPT ![t] = t]

\* for_each ends at the first error of accept, and drops the listener with the
\* tunnels in its backlog.
AcceptError ==
  /\ phase = "running"
  /\ protocol = "tcp" /\ accepting
  /\ accepting' = FALSE
  /\ tunnel' = [t \in Tunnels |-> IF tunnel[t] = "offered" THEN "ended" ELSE tunnel[t]]
  /\ UNCHANGED <<protocol, phase, disk, pair, driver, thread, culprits>>

\* Mutant of AcceptQuic: the loop takes one connection only.
AcceptFirstOnly(t) ==
  /\ protocol = "quic" /\ driver
  /\ \A u \in Tunnels : tunnel[u] \in {"none", "offered"}
  /\ Step(t, {"offered"}, "accepted")
  /\ UNCHANGED thread

\* A QuicServerStreamAgent waits for the streams of its connection.
AcceptQuic(t) ==
  /\ protocol = "quic" /\ driver
  /\ Step(t, {"offered"}, "accepted")
  /\ UNCHANGED thread

\* NewQuicStream: the ProxyClient of a stream runs where its agent does.
NewStream(t) ==
  /\ driver
  /\ Step(t, {"accepted"}, "served")
  /\ thread' = [thread EXCEPT ![t] = Main]

\* The agent of a connection that is lost stops, as does the actor of its stream.
ConnectionLost(t) ==
  /\ driver
  /\ Step(t, {"accepted", "served"}, "ended")
  /\ UNCHANGED thread

\* The stream of a tunnel ends, and its actor stops.
TunnelEnds(t) ==
  /\ protocol = "quic" => driver
  /\ Step(t, {"served"}, "ended")
  /\ UNCHANGED thread

\* The error of the driver is printed; nothing moves any more, and nothing ends.
DriverFails ==
  /\ phase = "running"
  /\ driver
  /\ driver' = FALSE
  /\ UNCHANGED <<protocol, phase, disk, pair, accepting, tunnel, thread, culprits>>

\* ProxyClient panics on data without a connection and on a failed send.
ProxyPanics(t) ==
  LET lost == {u \in Tunnels : tunnel[u] = "served" /\ thread[u] = thread[t]}
  IN /\ phase = "running"
     /\ tunnel[t] = "served"
     /\ culprits' = culprits \cup {t}
     /\ IF thread[t] = Main
        THEN /\ Lose("panic_main")
             /\ tunnel' = [u \in Tunnels |-> IF tunnel[u] \in Live THEN "panicked" ELSE tunnel[u]]
        ELSE /\ tunnel' = [u \in Tunnels |-> IF u \in lost THEN "panicked" ELSE tunnel[u]]
             /\ UNCHANGED <<protocol, phase, disk, pair, accepting, driver, thread>>

Next ==
  \/ StartTcp
  \/ ReadCert
  \/ ReadKey
  \/ Generate
  \/ WriteFiles
  \/ StartQuic
  \/ Crash
  \/ Restart
  \/ AcceptError
  \/ DriverFails
  \/ \E t \in Tunnels :
       \/ Offer(t)
       \/ AcceptTcp(t)
       \/ AcceptQuic(t)
       \/ NewStream(t)
       \/ ConnectionLost(t)
       \/ TunnelEnds(t)
       \/ ProxyPanics(t)

\* The event loop accepts what is offered, and a client that has connected with
\* QUIC opens its stream or is lost.
Fairness ==
  \A t \in Tunnels :
    /\ WF_vars(AcceptTcp(t))
    /\ WF_vars(AcceptQuic(t))
    /\ WF_vars(NewStream(t) \/ ConnectionLost(t))

Spec == Init /\ [][Next]_vars /\ Fairness

-----------------------------------------------------------------------------
(* Properties.                                                             *)

\* Whatever crash a start was cut short by (quic.rs:101-112), a server that runs
\* has a certificate and the key that belongs to it.
ServesMatchingPair ==
  (phase = "running" /\ protocol = "quic") => pair.cert = pair.key /\ pair.cert > 0

\* A tunnel of a TCP server is not brought down by the panic of another, which
\* is what the thread of its own is for (tcp.rs:45).
PanicIsConfined ==
  protocol = "tcp" =>
    /\ phase # "panic_main"
    /\ \A t \in Tunnels : tunnel[t] = "panicked" => t \in culprits

\* A key on disk is that of the certificate on disk, or not written completely:
\* nothing but a certificate that is absent makes a pair, and then there is no
\* key either (quic.rs:101-112).  The steps of a start have read or written
\* what they stand for.
DiskInv ==
  /\ key # Absent => cert > 0 /\ key \in {Torn, cert}
  /\ phase = "readKey" => pair.cert = cert /\ cert # Absent
  /\ phase = "load" => pair = [cert |-> cert, key |-> key] /\ key # Absent
  /\ phase \in {"createCert", "writeCert"} => key = Absent
  /\ phase \in {"createKey", "writeKey"} => cert = pair.cert
  /\ phase \in {"createCert", "writeCert", "createKey", "writeKey"} =>
       pair.cert = pair.key /\ pair.cert > 0

\* The tunnels that a TCP server serves are each on their own thread (tcp.rs:45).
ThreadInv ==
  protocol = "tcp" => /\ ~driver
                      /\ \A t \in Tunnels : tunnel[t] = "served" => thread[t] = t

\* The inductive invariant of the server process, for both protocols.
ServerInv == TypeOK /\ DiskInv /\ ThreadInv /\ ServesMatchingPair /\ PanicIsConfined

\* Every tunnel that is offered is served, or is lost, unless the process ends,
\* the loop over incoming has ended at an error (tcp.rs:35) or the driver has
\* (quic.rs:200).
OfferedIsServed ==
  \A t \in Tunnels :
    tunnel[t] = "offered" ~>
      \/ tunnel[t] \in {"served", "ended"}
      \/ phase # "running"
      \/ ~accepting
      \/ protocol = "quic" /\ ~driver
=============================================================================
