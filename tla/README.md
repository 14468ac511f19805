# A TLA+ model of just-proxy

just-proxy is a SOCKS5 proxy in two processes. Applications connect to the
client process, which multiplexes all their sessions on one encrypted stream,
the *tunnel* (TCP or QUIC), to the server process, which connects to the targets.
Both processes are built from actix actors: each handles one message at a time,
actors on different threads run concurrently, and they share nothing but
mailboxes and streams.

Line numbers refer to files below `src/just-proxy-lib/src/`; `main.rs` and its
`opt.rs` are those of `src/just-proxy-bin/src/`.

## The system

| part | state | operations | talks to |
|---|---|---|---|
| `socks.rs` SocksClient, one actor and thread per session, with `socks/codec.rs` | state of the codec, `connect_request_record`, byte counts | method selection, target request, data; replies, data and abort from the Server | application (socket), Server (mailbox) |
| `component/client.rs` Server, on the main thread | `clients`: port -> actor, heartbeat instants and index | accept, heartbeat tick, write a request, route a response, stop | SocksClients (mailboxes), tunnel |
| `message.rs` packets and codecs | read buffer | encode, decode | tunnel |
| `component/server.rs` ProxyClient, one actor and thread per tunnel, with its futures; started by `connector/tcp.rs` | `connections`: port -> write half, resolver and reader futures, the receiver of `write_sender` | connect, write, echo, established, dead, respond, stop | tunnel, targets |
| `connector/tcp.rs`, `connector/quic.rs`, server side | the loop over incoming connections, the certificate and its key on disk | accept, open a stream, make or load a certificate | tunnels, ProxyClients, files |
| `lib.rs`, `main.rs`, client side of the connectors | the actix System, the retry loop, the SOCKS listener, the future that connects | start, connect, stop, sleep, retry | Server actor, configuration file |
| `opt.rs` (both) | none | a JSON file to a configuration, a configuration to what is in force | |
| `crypto.rs`, `ext.rs` | none | wrappers nobody uses | |

What makes it hard: every session is known by its peer's port only, which is
used again and never cleaned up; replies, data and failures of one session are
queued by several futures; the two ends find out about a broken tunnel
separately; most unexpected cases are a `panic!` or an `unwrap`, which end a
thread or the whole client; and the stream is cut into chunks anywhere.
`PROJECT.json` lists these hazards one by one.

What makes each part correct:

* a session: one reply, true, before any data; the target's bytes in order;
* the Server: every response can be routed, and only to its port; a heartbeat
  that fails only when the network does, and is noticed when it does;
* the proxy: data to the right connection, every request answered, a lost
  connection forgotten;
* the codecs: packets and SOCKS messages come out as they went in, whatever the
  chunks, and an application can tell the reply from the data behind it;
* the client process: a failed attempt is retried, and nothing of it is in the way;
* the server process: tunnels do not disturb each other, and a crash leaves a state
  from which a start works.

## The modules

| module | models | uses |
|---|---|---|
| `Channels` | packets, the tunnel, mailboxes | |
| `SocksClient` | the session actors and the state of their codec | `Channels` |
| `ClientServer` | the Server actor | `SocksClient` |
| `ProxyClient` | the ProxyClient actor, its futures, the targets | `Channels` |
| `JustProxy` | the composition, fairness, properties, inductive invariant | all above |
| `SessionOrder` | the inductive invariant of single sessions | `JustProxy` |
| `Relay` | what a session is promised: the abstract specification | |
| `RelayRefinement` | the mapping from `JustProxy` to `Relay` | `SessionOrder`, `Relay` |
| `MCJustProxy` | instances for TLC | `RelayRefinement` |
| `JustProxyProofs` | theorems about routing and ports | `JustProxy` |
| `SessionProofs` | theorems about single sessions | `SessionOrder`, `JustProxyProofs` |
| `RelayProofs` | the proof of the refinement | `RelayRefinement`, `SessionProofs` |
| `Heartbeat` | the heartbeat in time | |
| `HeartbeatProofs` | theorems about `Heartbeat` | `Heartbeat` |
| `ProxyCodec`, `MCProxyCodec` | the framing of the tunnel | |
| `ProxyCodecProofs` | theorems about `ProxyCodec` | `ProxyCodec` |
| `SocksCodec`, `MCSocksCodec` | the byte layouts of SOCKS in both directions, the address sent to the server | |
| `SocksCodecProofs` | theorems about `SocksCodec` | `SocksCodec` |
| `Options` | the conversions of the configuration | |
| `Lifecycle`, `MCLifecycle` | a process from `main` on: start, connect, tunnel, retry | `Options` |
| `LifecycleProofs` | theorems about `Lifecycle` | `Lifecycle` |
| `TunnelServer` | the server process with all its tunnels, over crashes and restarts | |
| `TunnelServerProofs` | theorems about `TunnelServer` | `TunnelServer` |

**State and actions.** One action is one handler of one actor, one completion of
a future, or one event of the environment. `sock[s]` is the codec state while the
actor of session `s` runs and says afterwards how it ended. `clients` and
`connections` are the two hash maps; `None` is an absent entry. `serverMail`,
`socksMail` and `proxyMail` are mailboxes, `wireUp` and `wireDown` the packets in
the tunnel. The channel behind `write_sender` is part of `wireDown`: the
forwarder does nothing but move its packets on. Panics are states of their own
(`panic_route`, `panic_accept`, `panic_data`, `panic_send`, `panic_reply`,
`panic_decode`) and take down what the thread or process takes down.

**Data.** A packet is a record with the port the code sees (`uuid`) and the session
it is really about (`src`), which only the properties look at. The body of a Data
packet is a byte range `(lo, hi]` of its stream, so that loss, repetition and
reordering are visible without contents. An address is the session that asks for it.

In `SocksCodec` a stream is a function from positions to the bytes the decoder
looks at; lengths and ports have the widths of the code (`u8`, `i16`). A JSON file is
a function from field names to values with their type and range, so that each
`unwrap` of the conversions has a file that meets it. In `TunnelServer` a
certificate is the number of the pair it was made in; a file is absent, torn (created
and not completely written) or such a number.

**Levels.** `JustProxy` begins when a tunnel is up and ends with it. `Lifecycle`
is the client process around it: it sees the tunnel only as an event that may
come, and owns what `JustProxy` takes for granted. `TunnelServer` is the same for
the server, with the panic of a ProxyClient, which `JustProxy` explains, as an event.

**Environment.** Applications send, wait and leave as they like; targets connect,
time out, refuse, send, close and reset; a write to a target may take any
non-empty part, or fail (also because it would block, which the code takes for a
loss); the tunnel breaks at any time when `MayBreak`, and then each end may or
may not read what was still under way.

**Mutants.** A definition introduced by "Mutant of X" is X with a plausible mistake.
It is used by no specification; it shows that a property would notice the mistake.

## What is checked

| run | instance | states | shows |
|---|---|---|---|
| `one` | 1 session, 3 bytes up, 2 down, tunnel may break | 0.2 M | the inductive invariant of a session; the order and truth of what it sees, lost connections forgotten; the refinement of `Relay` |
| `distinct` | 2 sessions, 2 ports, 1 byte each way | 0.8 M | the inductive invariant; sessions do not receive each other's replies and data, and each sees what `Relay` promises |
| `live` | 1 session, 1 byte each way, 1 heartbeat, tunnel may break | 36 k | every request is answered; what one end sends is passed on to the other; no routing panic |
| `heartbeat` | 5 s interval, 15 s timeout, 9 s delay | 32 k | no false alarm, no unnoticed stall, revival |
| `codec` | 2 packets of 4 types, real header and tag lengths, the longest packet as long as its length field allows, any chunks | 0.2 M | the stream is a row of packets wherever it is cut; packets come out as they went in |
| `socks` | requests of all address types at the limits of their fields, malformed ones, any chunks | 11 k | messages are decoded as sent, panics only on malformed ones, replies end where their lengths say |
| `lifecycle` | all options, 7 files | 3.4 k | failed attempts are retried and let go of the listener, ports are free, a dumped configuration loads |
| `tunnels` | 3 tunnels, TCP or QUIC, 2 certificates made | 0.9 k | certificate and key match after any crash, panics stay in their tunnel, tunnels are served |
| `data`, `reuse`, `port`, `loss` | | | findings, below |

Bounds. `MaxUp = 3` lets a stream be split into one, two or three chunks, each of
which a target may take in part; two chunks are needed to confuse their order,
three to lose one between two others. `MaxDown = 2` does the same downwards. Two
sessions are the smallest number that can be confused with each other, and the
theorems below lift routing to any number. One heartbeat in `live` shares the
queues with everything else; in `one` it would multiply the states and touch no
packet of a session. In `Heartbeat` ages stop at `Timeout + 1`, since the
code only asks whether they exceed `Timeout`; so no bound on time is needed, and
the liveness properties speak of infinite behaviours. Two packets are enough for
a chunk to hold the end of one and the beginning of the next.

In `ProxyCodec` the length in a header is taken modulo `LenMod`, as `as u32` does
(`message.rs:363`, `431`); it is 2^32 in the code, too large for TLC, and 10 in the run,
one more than the longest packet. `WidthAssumption` says that no packet is longer, which
one read of a socket or one SOCKS request cannot produce.

In `SocksCodec` the stream of the application is cut anywhere and any number of times;
`MaxChunks` bounds only the chunks of the target's data that are written back, of
which two show where the first begins and that they continue. Streams
just below and above 258 bytes are among the instances because lengths are
counted in a `u8`. `Lifecycle` needs no bound. In `TunnelServer`, `MaxPairs = 2` lets a second
pair be made after the first was lost, so that a key of one could meet a
certificate of the other; three tunnels are a culprit, a victim and one that comes
later.

The runs do not check for deadlock: a proxy whose applications have all gone, whose
tunnel has ended or whose bound is reached stops, and may.

Fairness. In `JustProxy` weak fairness is assumed for the event loops (every
mailbox and every readable stream is polled in the end) and for the resolver,
which answers or times out after a second. Nothing is assumed of applications,
targets, the network or time. In `Heartbeat` time passes, the loops run, and a
network that is *not* stalled delivers; that a stalled one heals is not assumed.
In `SocksCodec` what was sent arrives and the decoder is called again for it. In
`Lifecycle` the main thread runs, a sleep ends, and an attempt to connect or to open
a stream succeeds or fails in the end, as the operating system and QUIC's own
timeouts see to. In `TunnelServer` the same holds of the loop over incoming
connections and of a stream that is being opened.

## The refinement

`Relay` says what an application and its target may see and nothing about how: a
session asks once, gets at most one answer, which is a success exactly when the
target was reached, and then each side receives chunks that continue each other. It
has no step that loses, repeats or reorders. Two things are allowed because the code
does them: the target takes only a part of an offered chunk, and the rest is
dropped (`component/server.rs:159`); and a session ends at any time. An abort is
allowed only after a success and a reset of the target.

`RelayRefinement` maps what was written to the application (`appRx`) to answer and
received chunks, `targetRx` to the offered ones, `requested` to what was asked, and
the state of the session's actor to its end. All queues, maps, futures and both
tunnel ends are hidden; each of their steps must be a step of `Relay` or a stutter.
The mapping covers the sessions whose port is no other's. For sessions that share
a port `Relay` does not hold: run `reuse` and `PortConfinement` say what is left.
TLC checks the refinement in `one` and `distinct`; `RelayProofs` proves it.

## Findings

* `data`: data that arrives at the server before its connection is in the map,
  after the request was refused, or after the connection was lost, meets
  `panic!()` (`component/server.rs:165`) and ends the tunnel of all sessions. The
  SOCKS codec passes data on as soon as the request is decoded.
* `reuse`: with a reused port, a reply to the old session reaches the new one
  before it has asked and panics it (`socks.rs:85`).
* `port`: the port of a request is read as an `i16` (`socks/codec.rs:94`) and printed
  into the address: from 32768 on the server is asked for a negative port.
* `loss`: `--retry` repeats `run_client`, which does not return when the tunnel is
  lost, because only the Server actor stops (`component/client.rs:137`), nor when
  the stream of a QUIC connection cannot be opened (`connector/quic.rs:71`).

Each of these runs ends with a counterexample. Five more things the models contain,
as states they reach, with no property that excludes them:

* after a failed write the forwarder is gone, and the next response panics on
  `unwrap` (`component/server.rs:51`; `SendPanics`, `panic_send`);
* "heartbeat failed, disconnecting!" (`component/client.rs:54`) is followed by no
  disconnection; the call is a comment (`Heartbeat`, `logged`);
* an error of accept ends the stream of incoming connections (`component/client.rs:187`,
  and `connector/tcp.rs:35` on the server): the process goes on and accepts nothing more
  (`AcceptFails` in `Lifecycle`, which leaves a Server without its listener);
* the configuration file is read, and must load, but the values in force are literals
  (`lib.rs:49-72`, `112-135`; `used` in `Lifecycle`);
* the certificate is written before the key (`connector/quic.rs:109-110`); after a crash
  in between every start panics at line 101 until the file is removed by hand
  (`panic_key` in `TunnelServer`). That the server never runs with a pair that does
  not match is a theorem.

## What is proved

`JustProxyProofs` proves, for every set of sessions, every assignment of non-zero
ports and all bounds (`PortAssumption`, `NoneAssumption`, `BoundAssumption`):

* `Invariance`: `Spec => []Inv`;
* `TypeCorrect`, `NoRoutingPanic`, `Confinement`: type correctness, no panic in
  the client's routing, and confinement of replies and data to their port.

Neither of the last two is inductive. That a response can be routed depends on what
was put into the tunnel long before: that its uuid is in `clients`. `Inv` therefore
says of every queue that its packets carry the port of their session and that the
client knows that port (`QueuesTagged`), of every session and every future of the
server that its port is known (`EveryoneKnown`), and of the two maps that they keep
only sessions of the right port (`MapsByPort`); it is preserved because `clients`
never loses an entry. Confinement adds what has been delivered (`DeliveredByPort`).
The proof has a lemma per component (`SocksStep`, `ServerStep`, `ProxyStep`), and in
each a step per action. TLC checks the same `Inv` in `distinct`; for sessions that share
a port, at once or one after the other, it is the theorem that counts.

`SessionProofs` proves, from the same assumptions, what an application and a target
see of a session whose port is no other's, among any number of sessions that
may share theirs:

* `SessionInvariance`: `Spec => []SessionInv`;
* `TranscriptHolds`, `ChunksHold`: the selection, one reply, and then data in
  order, without gap; the target is offered chunks that continue each other;
* `RepliesAreTrue`, `AbortsAreTrue`: replies and aborts say what happened to the target;
* `ResetsForgotten`: a lost connection leaves the server's map;
* `RepliesFindRequests`: no reply panics a session. This one speaks of all sessions and
  assumes that no two share a port; `reuse` shows that it fails otherwise.

Each of these is about the end of a path of up to three queues that mix the packets
of all sessions, so none is inductive. `SessionInv` (module `SessionOrder`) adds to
`Inv`:

* *order* (`UpOrder`, `DownOrder`): of any two packets of a session, within a queue and
  across queues, the one in front closes nothing, the one behind opens nothing, and
  data comes before later data. It is stated of pairs, so it survives the loss of any
  packets, which is what happens when the tunnel breaks;
* *chains* (`UpChain`, `DownChain`): as long as data can still reach its receiver, each
  piece begins where another one, or what was received, ends. Order alone would
  allow gaps. The condition matters: what was not yet written when the tunnel broke is
  lost, and data for a connection that is gone panics, so in both cases the chain may break
  where nobody will see it;
* *truth* (`DownPackets`, `Connected`): what a packet on its way says of the target, and
  that the map holds a connection exactly between its two messages;
* *life* (`UntriedIsUntouched`, `AsksOnce`, `CodecState`): before the server tries to
  connect, nothing of the session exists on its side.

The proof has a lemma per action and per part of the invariant; the lemmas on pushing,
popping and moving packets in front of it are about all queues.

`RelayProofs` proves `RelayImplemented`, `Spec => ImplementsRelay`: the initial states map to
those of `Relay`, and each action is one step of it or changes nothing it sees.
`SessionInv` gives each step its guard, for example that data handed to the application
begins where the last one ended. `Relay` has no fairness, so this is the whole refinement.

`HeartbeatProofs` proves `ExpiryIsReal` for all times with
`MaxDelay + Interval < Timeout`. Ages are whole seconds, and the code compares a
`Duration` that is longer by less than a second; hence the strict inequality. The invariant `EchoAge` relates the age of the last
echo to the oldest heartbeat that is out, or to the next tick when none is; without
the second half nothing is known when the next heartbeat is sent. It also proves
`RttNeverOverstated`: the code measures from the last heartbeat it sent, which is no older
than any that is out (`LastIsYoungest`).

`SocksCodecProofs` proves that requests are decoded as sent (`ItemsTheorem`), that only
malformed ones panic (`PanicTheorem`), that nothing complete is held back
(`HeldBackTheorem`, with the wrapped length as its stated exception), and that replies end
where they say (`RepliesTheorem`). `AppsAssumption` gives the fields of a request the widths
they have on the wire and nothing more, so malformed requests are included.
`SocksInv` adds where the decoder stands: at the end of the item it took last. Type
correctness is part of it.

`ProxyCodecProofs` proves that packets come out as they went in (`OrderTheorem`), that the
decoder fails only on a stream that ended inside a packet (`ErrorTheorem`), and that
nothing complete is held back (`HeldBackTheorem`), for all packets, tag lengths and chunks
(`TransfersAssumption`, `LengthAssumption`, `WidthAssumption`), with `ring` as an authenticated box. `CodecInv`
says that buffer and wire together are a row of packets. Concatenation of all of
them would need induction over their number; `Framing` says the same byte by byte
instead: wherever a packet begins, its bytes follow, and behind them the next begins.

`LifecycleProofs` proves, for all files and values of `--protocol`, that no turn of the
retry loop finds its ports bound (`PortsTheorem`). That is not inductive: whether a
bind succeeds was decided by what the turn before let go of. `LifecycleInv`
(`LifecycleInvariance`) adds `Ownership`: outside `System::run` nothing is left, and
inside it the listener is with the one future or actor that is alive and the UDP port
with a QUIC connection or its driver. The converse does not hold, since a Server may
lose its listener. Type correctness is part of the invariant.
`DumpTheorem` says that a dumped configuration can be read again and is what is then in force: `DumpReadsBack` computes that reading what was written gives
back the literals, and `ConfigInv` that nothing else is ever in force. Nothing is assumed.

`TunnelServerProofs` proves, for every set of tunnels and any number of pairs and
crashes (`MainAssumption`: the main thread is none of the tunnels';
`MaxPairsAssumption`), that a QUIC server that runs has the key of its certificate
(`PairTheorem`) and that a TCP tunnel panics only by itself
(`ConfinementOfPanics`). The first is about memory and depends on the disk many
starts earlier, so `ServerInv` adds what the files may contain between any two
writes and what each step of a start has in its hands (`DiskInv`); the second
needs the thread each tunnel is on (`ThreadInv`).

Only model-checked: liveness (`RequestAnswered`, `DownstreamDelivered`,
`UpstreamOffered`, `StallIsNoticed`, `HeartbeatRevives`, `RequestDecoded`,
`ListenerIsPassedOn`, `FailureIsRetried`, `OfferedIsServed`), which needs fairness and ENABLED, out of the
prover's reach. Every safety property of the passing runs is a theorem. No model uses
recursion over data, so no proof needs induction but the one over steps.

## Not modelled

* Key derivation, sealing and TLS: the work of `ring`, `rustls` and `quinn`, taken as
  authenticated boxes; a packet that does not open is an error of the decoder.
* `ext.rs` (`OnlyFirstStream`), `crypto.rs` (`CryptoStream`) and the function `listen`:
  nothing calls them.
* Cases that the values in force rule out: methods with a key of another length
  (the method is a literal), the reply with an IPv4 address whose type byte is 0
  (`socks/codec.rs:191`; the session actor replies with literal domains only).
* Daemonizing, the log, parsing of the command line; errors of the certificate files
  other than a missing one, which panic at once.
* Name resolution, which is the resolver's work, and how it takes an IPv6 address
  printed without brackets.
* The bound of memory: mailboxes and `write_sender` are unbounded in the code, so
  there is no limit to check.

## Plan

1. The safety half of the liveness arguments as theorems: that whoever waits in
   `JustProxy` for a reply has a packet or a future on its way for it, which leaves to fairness
   only that queues are emptied.
2. What remains of a session that shares its port, beyond `PortConfinement`: which of
   `SessionInv` still holds for the latest session of a port.
