------------------------------ MODULE Lifecycle ------------------------------
(***************************************************************************)
(* A process from main on: the retry loop (main.rs), the actix System of   *)
(* run_client (lib.rs), the future that connects to the proxy              *)
(* (connector/tcp.rs, connector/quic.rs), and the Server actor as far as   *)
(* it owns the listener (component/client.rs).  Of a server process there  *)
(* is only its start; TunnelServer has the rest.                           *)
(*                                                                         *)
(* The System runs until someone calls stop; that its futures and actors   *)
(* have ended does not end it.  What a future or an actor owns is dropped  *)
(* with it: here the SOCKS listener and the UDP socket of QUIC, both of    *)
(* which the next turn of the loop binds again at the same port.           *)
(***************************************************************************)
EXTENDS Options

CONSTANTS
  Files,      (* what the configuration file may contain                   *)
  Protocols   (* values of --protocol                                      *)

VARIABLES
  opt,       (* the options that matter here                               *)
  file,      (* the configuration file, which may be edited at any time    *)
  read,      (* the file as to_client_config last read it                  *)
  phase,     (* where main is                                              *)
  stopping,  (* System::stop was called                                    *)
  connect,   (* the future of connect                                      *)
  server,    (* the Server actor                                           *)
  used,      (* the configuration in force                                 *)
  listener,  (* who owns the SOCKS listener                                *)
  udp        (* UDP port 12311 is bound                                    *)

vars == <<opt, file, read, phase, stopping, connect, server, used, listener, udp>>

system == <<stopping, connect, server, used, listener, udp>>

\* A panic on the main thread, in the file, a bind, the arguments or the accept
\* stream, ends the process.
Panicked == {"panic_config", "panic_bind", "panic_args", "panic_accept"}

\* named: the hosts that are given by a name and not by an IP address.
Opts == [server : BOOLEAN, retry : BOOLEAN, protocol : Protocols,
         named : SUBSET {"socks_host", "proxy_host"}]

TypeOK ==
  /\ opt \in Opts
  /\ file \in Files /\ read \in Files
  /\ phase \in {"start", "running", "serving", "sleeping", "exited"} \cup Panicked
  /\ stopping \in BOOLEAN
  /\ connect \in {"none", "connecting", "opening", "driving", "ended"}
  /\ server \in {"none", "running", "stopped"}
  /\ used \in {Effective(HardCoded)}
              \cup {Effective(ConfigOf(f)) : f \in {g \in Files : Loads(g)}}
  /\ listener \in {"none", "future", "server"}
  /\ udp \in BOOLEAN

Init ==
  /\ opt \in Opts
  /\ file \in Files
  /\ read = file
  /\ phase = "start"
  /\ stopping = FALSE
  /\ connect = "none"
  /\ server = "none"
  /\ used = Effective(HardCoded)
  /\ listener = "none"
  /\ udp = FALSE

\* All that the System owns is gone.
Dropped ==
  /\ stopping' = FALSE
  /\ connect' = "none"
  /\ server' = "none"
  /\ listener' = "none"
  /\ udp' = FALSE
  /\ UNCHANGED used

-----------------------------------------------------------------------------
(* main and run_client.                                                    *)

\* What the unwraps of run_client meet first, if anything.
StartPanics ==
  IF ~Loads(file) THEN "panic_config"
  ELSE IF "socks_host" \in opt.named THEN "panic_args"
  ELSE IF listener # "none" THEN "panic_bind"
  ELSE IF opt.protocol \notin {"tcp", "quic"} THEN "panic_args"
  ELSE IF opt.protocol = "quic" /\ udp THEN "panic_bind"
  ELSE IF "proxy_host" \in opt.named THEN "panic_args"
  ELSE "none"

RunClient ==
  /\ phase = "start"
  /\ ~opt.server
  /\ read' = file
  /\ IF StartPanics = "none"
     THEN /\ phase' = "running"
          /\ connect' = "connecting"
          /\ listener' = "future"
          /\ udp' = (opt.protocol = "quic")
          /\ UNCHANGED <<stopping, server, used>>
     ELSE phase' = StartPanics /\ Dropped
  /\ UNCHANGED <<opt, file>>

\* run_server: quinn takes names for addresses, TcpListener does not.
RunServer ==
  /\ phase = "start"
  /\ opt.server
  /\ read' = file
  /\ phase' = IF ~Loads(file) THEN "panic_config"
              ELSE IF opt.protocol \notin {"tcp", "quic"} THEN "panic_args"
              ELSE IF opt.protocol = "tcp" /\ "proxy_host" \in opt.named THEN "panic_args"
              ELSE "serving"
  /\ used' = Effective(HardCoded)
  /\ UNCHANGED <<opt, file, stopping, connect, server, listener, udp>>

\* Mutant of SystemStops: the connecting future outlives its System.
StopsButKeeps ==
  /\ phase = "running"
  /\ stopping
  /\ phase' = IF opt.retry THEN "sleeping" ELSE "exited"
  /\ stopping' = FALSE
  /\ UNCHANGED <<opt, file, read, connect, server, used, listener, udp>>

\* Mutant of SystemStops: main returns after the first turn.
StopsForGood ==
  /\ phase = "running"
  /\ stopping
  /\ phase' = "exited"
  /\ Dropped
  /\ UNCHANGED <<opt, file, read>>

\* System::run returns, and the loop of main goes round or ends.
SystemStops ==
  /\ phase = "running"
  /\ stopping
  /\ phase' = IF opt.retry THEN "sleeping" ELSE "exited"
  /\ Dropped
  /\ UNCHANGED <<opt, file, read>>

SleepEnds ==
  /\ phase = "sleeping"
  /\ phase' = "start"
  /\ UNCHANGED <<opt, file, read, system>>

EditConfig ==
  /\ phase \notin {"exited"} \cup Panicked
  /\ file' \in Files \ {file}
  /\ UNCHANGED <<opt, read, phase, system>>

-----------------------------------------------------------------------------
(* The future of connect.  The listener is in its callback.                *)

Running(states) == phase = "running" /\ connect \in states

\* Mutant of FutureFails: the callback, and with it the listener, is kept.
FutureFailsKeeping ==
  /\ connect' = "ended"
  /\ udp' = (udp /\ server = "running")
  /\ UNCHANGED <<server, used, listener>>

\* The future is dropped with what it owns; the streams of a Server keep the
\* socket of their endpoint.
FutureFails ==
  /\ connect' = "ended"
  /\ listener' = IF listener = "future" THEN "none" ELSE listener
  /\ udp' = (udp /\ server = "running")
  /\ UNCHANGED <<server, used>>

ConnectFails ==
  /\ Running({"connecting"})
  /\ FutureFails
  /\ stopping' = TRUE
  /\ UNCHANGED <<opt, file, read, phase>>

\* connect_callback: the Server takes over the stream and the listener.
CreateServer(state) ==
  /\ connect' = state
  /\ server' = "running"
  /\ used' = Effective(HardCoded)
  /\ listener' = "server"

TcpConnected ==
  /\ Running({"connecting"})
  /\ opt.protocol = "tcp"
  /\ CreateServer("ended")
  /\ UNCHANGED <<opt, file, read, phase, stopping, udp>>

QuicConnected ==
  /\ Running({"connecting"})
  /\ opt.protocol = "quic"
  /\ connect' = "opening"
  /\ UNCHANGED <<opt, file, read, phase, stopping, server, used, listener, udp>>

\* The future goes on as the driver of the endpoint.
StreamOpened ==
  /\ Running({"opening"})
  /\ CreateServer("driving")
  /\ UNCHANGED <<opt, file, read, phase, stopping, udp>>

\* The connection is lost before its stream is open: nobody calls stop.
OpenFails ==
  /\ Running({"opening"})
  /\ FutureFails
  /\ UNCHANGED <<opt, file, read, phase, stopping>>

DriverFails ==
  /\ Running({"connecting", "opening", "driving"})
  /\ opt.protocol = "quic"
  /\ FutureFails
  /\ stopping' = TRUE
  /\ UNCHANGED <<opt, file, read, phase>>

-----------------------------------------------------------------------------
(* The Server actor.                                                       *)

\* finished: the actor stops, and with it its streams.  The socket of QUIC is
\* the driver's as long as there is one.
TunnelEnds ==
  /\ phase = "running"
  /\ server = "running"
  /\ server' = "stopped"
  /\ listener' = "none"
  /\ udp' = (udp /\ connect = "driving")
  /\ UNCHANGED <<opt, file, read, phase, stopping, connect, used>>

\* The stream of incoming connections ends at the first error of accept: the
\* listener in it is closed, and the Server runs on without one.
AcceptFails ==
  /\ phase = "running"
  /\ listener = "server"
  /\ listener' = "none"
  /\ UNCHANGED <<opt, file, read, phase, stopping, connect, server, used, udp>>

\* peer_addr of a connection that is gone already is unwrapped.
AcceptPanics ==
  /\ phase = "running"
  /\ listener = "server"
  /\ phase' = "panic_accept"
  /\ Dropped
  /\ UNCHANGED <<opt, file, read>>

Next ==
  \/ RunClient
  \/ RunServer
  \/ SystemStops
  \/ SleepEnds
  \/ EditConfig
  \/ ConnectFails
  \/ TcpConnected
  \/ QuicConnected
  \/ StreamOpened
  \/ OpenFails
  \/ DriverFails
  \/ TunnelEnds
  \/ AcceptFails
  \/ AcceptPanics

\* main runs and sleeps for a finite time, and an attempt to connect or to open
\* a stream succeeds or fails in the end.
Fairness ==
  /\ WF_vars(RunClient \/ RunServer)
  /\ WF_vars(SystemStops)
  /\ WF_vars(SleepEnds)
  /\ WF_vars(ConnectFails \/ TcpConnected \/ QuicConnected)
  /\ WF_vars(StreamOpened \/ OpenFails)

Spec == Init /\ [][Next]_vars /\ Fairness

-----------------------------------------------------------------------------
(* Properties.                                                             *)

\* No turn of the retry loop (main.rs:58-61) finds the listener's port or the
\* fixed UDP port (quic.rs:53) still bound by the turn before: the unwrap of a
\* bind would end the process it is meant to keep alive.
BindsFindPortsFree == phase # "panic_bind"

\* Why it holds: outside System::run nothing is left over, and inside it the
\* listener is with the one future or actor that is alive, and the UDP port with
\* those of a QUIC connection (lib.rs:74-99, quic.rs:53, client.rs:187).  A Server
\* may be without its listener, but no listener without its Server.
Ownership ==
  IF phase = "running"
  THEN /\ listener = "future" <=> connect \in {"connecting", "opening"}
       /\ listener = "server" => server = "running"
       /\ server = "running" => connect \in {"driving", "ended"}
       /\ udp <=> /\ opt.protocol = "quic"
                 /\ \/ connect \in {"connecting", "opening", "driving"}
                    \/ server = "running"
  ELSE connect = "none" /\ server = "none" /\ listener = "none" /\ ~udp /\ ~stopping

\* The inductive invariant of the client process (main.rs:53-68, lib.rs:74-99).
LifecycleInv == TypeOK /\ Ownership /\ BindsFindPortsFree

\* The SOCKS port listens before there is a tunnel (lib.rs:77), and applications
\* that connect meanwhile wait in its backlog.  However the attempt ends, also
\* where nobody stops the System (quic.rs:71), the listener is passed on to a
\* Server, which accepts them, or closed, which lets them go.
ListenerIsPassedOn == listener = "future" ~> listener # "future"

Serving == server = "running" \/ phase = "serving"

\* A file written by --dump-config (bin opt.rs:81-111) can be read again, and
\* what is started with it has exactly what it says.
DumpedConfigWorks ==
  read = DumpConfig =>
    /\ phase # "panic_config"
    /\ Serving => used = Effective(ConfigOf(read))

\* With --retry, a System that is stopped (tcp.rs:26, quic.rs:67, 80) is started
\* again and connects again, unless the file was broken in the meantime or the
\* Server, which runs until the System returns, panics.  Without it main ends.
FailureIsRetried ==
  stopping ~> \/ Running({"connecting"}) /\ opt.retry
              \/ phase = "exited" /\ ~opt.retry
              \/ phase \in {"panic_config", "panic_accept"}

\* With --retry, a client that has neither a tunnel nor an attempt to connect,
\* because it has lost the one or the other, connects again.
LossIsRetried ==
  (phase = "running" /\ opt.retry /\ connect \notin {"connecting", "opening"} /\ server # "running")
    ~> (Running({"connecting"}) \/ phase \in Panicked)
=============================================================================
