------------------------- MODULE TunnelServerProofs -------------------------
(***************************************************************************)
(* For any number of tunnels, crashes and certificates: what a QUIC server *)
(* runs with belongs together, and TCP tunnels do not bring each other     *)
(* down.                                                                   *)
(***************************************************************************)
EXTENDS TunnelServer, TLAPS

\* A server that was never started has no files and no tunnels.
LEMMA ServerInitial == Init => ServerInv
<1> SUFFICES ASSUME Init PROVE ServerInv
  OBVIOUS
<1>1. TypeOK
  <2>1. made \in 0..MaxPairs /\ phase \in Starting
    BY MaxPairsAssumption DEF Init, Starting
  <2>2. cert \in Files /\ key \in Files /\ pair \in [cert : Files, key : Files]
    BY DEF Init, NoPair, Files
  <2> QED BY <2>1, <2>2 DEF Init, TypeOK
<1>2. DiskInv /\ ServesMatchingPair
  BY DEF Init, DiskInv, ServesMatchingPair
<1>3. ThreadInv /\ PanicIsConfined
  BY DEF Init, ThreadInv, PanicIsConfined
<1> QED BY <1>1, <1>2, <1>3 DEF ServerInv

\* The steps of a start: what each reads and writes keeps key and certificate
\* together, wherever the last start was cut short (quic.rs:101-120).
LEMMA StartStep ==
  ASSUME ServerInv, StartTcp \/ ReadCert \/ ReadKey \/ Generate \/ WriteFiles \/ StartQuic
  PROVE  ServerInv'
<1> USE MaxPairsAssumption DEF ServerInv, TypeOK, Files, DiskInv, ThreadInv, ServesMatchingPair,
          PanicIsConfined, Absent, Torn, Starting, Down, disk, work
<1>1. CASE StartTcp
  BY <1>1 DEF StartTcp, Listen
<1>2. CASE ReadCert
  BY <1>2 DEF ReadCert, Go
<1>3. CASE ReadKey
  BY <1>3 DEF ReadKey, Go
<1>4. CASE Generate
  BY <1>4 DEF Generate, Go
<1>5. CASE WriteFiles
  BY <1>5 DEF WriteFiles, Go
<1>6. CASE StartQuic
  <2>1. CASE Torn \in {pair.cert, pair.key}
    BY <1>6, <2>1 DEF StartQuic, Go
  <2>2. CASE Torn \notin {pair.cert, pair.key}
    <3>1. pair.cert = pair.key /\ pair.cert > 0
      BY <1>6, <2>2 DEF StartQuic
    <3> QED BY <1>6, <2>2, <3>1 DEF StartQuic, Listen
  <2> QED BY <2>1, <2>2
<1> QED BY <1>1, <1>2, <1>3, <1>4, <1>5, <1>6

\* A crash or a restart leaves only the files.
LEMMA LossStep ==
  ASSUME ServerInv, Crash \/ Restart
  PROVE  ServerInv'
<1> USE DEF ServerInv, TypeOK, Files, DiskInv, ThreadInv, ServesMatchingPair, PanicIsConfined,
          Absent, Torn, Starting, Down, disk, Lose, NoPair
<1>1. CASE Crash
  BY <1>1 DEF Crash
<1>2. CASE Restart
  BY <1>2 DEF Restart
<1> QED BY <1>1, <1>2

\* The tunnels: only AcceptTcp serves a TCP tunnel, and gives it a thread
\* (tcp.rs:35-64, quic.rs:138-205).
LEMMA TunnelStep ==
  ASSUME ServerInv, NEW t \in Tunnels,
         \/ Offer(t) \/ AcceptTcp(t) \/ AcceptQuic(t) \/ NewStream(t)
         \/ ConnectionLost(t) \/ TunnelEnds(t)
  PROVE  ServerInv'
<1> USE DEF ServerInv, TypeOK, Files, DiskInv, ThreadInv, ServesMatchingPair, PanicIsConfined,
          Live, disk, Step
<1>1. CASE Offer(t)
  BY <1>1 DEF Offer
<1>2. CASE AcceptTcp(t)
  BY <1>2 DEF AcceptTcp
<1>3. CASE AcceptQuic(t)
  BY <1>3 DEF AcceptQuic
<1>4. CASE NewStream(t)
  BY <1>4 DEF NewStream
<1>5. CASE ConnectionLost(t)
  BY <1>5 DEF ConnectionLost
<1>6. CASE TunnelEnds(t)
  BY <1>6 DEF TunnelEnds
<1> QED BY <1>1, <1>2, <1>3, <1>4, <1>5, <1>6

\* What ends more than a tunnel at once: an error of accept (tcp.rs:35), of the
\* driver (quic.rs:200), and a panic.
LEMMA FailureStep ==
  ASSUME ServerInv, AcceptError \/ DriverFails \/ (\E t \in Tunnels : ProxyPanics(t))
  PROVE  ServerInv'
<1> USE DEF ServerInv, TypeOK, Files, DiskInv, ThreadInv, ServesMatchingPair, PanicIsConfined,
          Live, disk
<1>1. CASE AcceptError
  BY <1>1 DEF AcceptError
<1>2. CASE DriverFails
  BY <1>2 DEF DriverFails
<1>3. ASSUME NEW t \in Tunnels, ProxyPanics(t) PROVE ServerInv'
  <2>1. CASE thread[t] = Main
    <3>1. protocol = "quic"
      BY <1>3, <2>1, MainAssumption DEF ProxyPanics
    <3>2. TypeOK'
      <4>1. tunnel' \in [Tunnels -> {"none", "ended", "panicked"} \cup Live]
        BY <1>3, <2>1 DEF ProxyPanics
      <4>2. pair' \in [cert : Files, key : Files]'
        BY <1>3, <2>1 DEF ProxyPanics, Lose, NoPair
      <4>3. culprits' \subseteq Tunnels
        BY <1>3, <2>1 DEF ProxyPanics
      <4>4. thread' \in [Tunnels -> Tunnels \cup {Main}]
        BY <1>3, <2>1 DEF ProxyPanics, Lose
      <4>5. /\ protocol' = protocol /\ phase' = "panic_main"
            /\ cert' = cert /\ key' = key /\ made' = made
            /\ accepting' = FALSE /\ driver' = FALSE
        BY <1>3, <2>1 DEF ProxyPanics, Lose
      <4> QED BY <4>1, <4>2, <4>3, <4>4, <4>5 DEF Down
    <3> QED BY <1>3, <2>1, <3>1, <3>2 DEF ProxyPanics, Lose
  <2>2. CASE thread[t] # Main
    BY <1>3, <2>2 DEF ProxyPanics
  <2> QED BY <2>1, <2>2
<1> QED BY <1>1, <1>2, <1>3

\* Every step of the server, a crash included, keeps the invariant.
LEMMA ServerStep == ServerInv /\ [Next]_vars => ServerInv'
<1> SUFFICES ASSUME ServerInv, [Next]_vars PROVE ServerInv'
  OBVIOUS
<1>1. CASE UNCHANGED vars
  BY <1>1 DEF vars, disk, work, ServerInv, TypeOK, Files, DiskInv, ThreadInv, ServesMatchingPair,
              PanicIsConfined
<1>2. CASE Next
  BY <1>2, StartStep, LossStep, TunnelStep, FailureStep DEF Next
<1> QED BY <1>1, <1>2

\* The inductive invariant of the server process (tcp.rs:31-67, quic.rs:91-205).
THEOREM ServerInvariance == Spec => []ServerInv
  BY ServerInitial, ServerStep, PTL DEF Spec

\* A QUIC server that runs has the key of its certificate (quic.rs:118-120).
THEOREM PairTheorem == Spec => []ServesMatchingPair
<1>1. ServerInv => ServesMatchingPair
  BY DEF ServerInv
<1> QED BY <1>1, ServerInvariance, PTL

\* A TCP tunnel panics only by itself (tcp.rs:45).
THEOREM ConfinementOfPanics == Spec => []PanicIsConfined
<1>1. ServerInv => PanicIsConfined
  BY DEF ServerInv
<1> QED BY <1>1, ServerInvariance, PTL
=============================================================================
