--------------------------- MODULE LifecycleProofs ---------------------------
(***************************************************************************)
(* For every set of configuration files and protocols: what a turn of the  *)
(* retry loop binds belongs to a future or an actor that is alive, so the  *)
(* next turn finds its ports free.                                         *)
(***************************************************************************)
EXTENDS Lifecycle, TLAPS

\* The value of the match in run_client and run_server, whatever was met first.
LEMMA StartOutcomes ==
  /\ StartPanics \in {"none"} \cup Panicked
  /\ StartPanics = "panic_config" => ~Loads(file)
<1>1. StartPanics \in {"none"} \cup Panicked
  BY DEF StartPanics, Panicked
<1>2. StartPanics = "panic_config" => ~Loads(file)
  <2> SUFFICES ASSUME Loads(file) PROVE StartPanics # "panic_config"
    OBVIOUS
  <2>1. StartPanics \in {"panic_bind", "panic_args", "none"}
    BY DEF StartPanics
  <2> QED BY <2>1
<1> QED BY <1>1, <1>2

\* Every variable keeps its type (main.rs, lib.rs:74-99).
LEMMA TypesStep == TypeOK /\ [Next]_vars => TypeOK'
<1> SUFFICES ASSUME TypeOK, [Next]_vars PROVE TypeOK'
  OBVIOUS
<1> DEFINE Used == {Effective(HardCoded)}
                     \cup {Effective(ConfigOf(f)) : f \in {g \in Files : Loads(g)}}
<1>0. used \in Used /\ Effective(HardCoded) \in Used
  BY DEF TypeOK
<1>a. used' \in Used => used' \in {Effective(HardCoded)}
                     \cup {Effective(ConfigOf(f)) : f \in {g \in Files : Loads(g)}}
  OBVIOUS
<1> HIDE DEF Used
<1>1. CASE RunClient
  <2>1. CASE StartPanics = "none"
    BY <1>0, <1>a, <1>1, <2>1 DEF RunClient, TypeOK
  <2>2. CASE StartPanics # "none"
    BY <1>0, <1>a, <1>1, <2>2, StartOutcomes DEF RunClient, Dropped, TypeOK
  <2> QED BY <2>1, <2>2
<1>2. CASE RunServer
  <2>1. phase' \in {"panic_config", "panic_args", "serving"}
    BY <1>2, Zenon DEF RunServer
  <2> QED BY <1>0, <1>a, <1>2, <2>1 DEF RunServer, TypeOK, Panicked
<1>3. CASE SystemStops
  BY <1>0, <1>a, <1>3 DEF SystemStops, Dropped, TypeOK
<1>4. CASE SleepEnds
  BY <1>0, <1>a, <1>4 DEF SleepEnds, system, TypeOK
<1>5. CASE EditConfig
  BY <1>0, <1>a, <1>5 DEF EditConfig, system, TypeOK
<1>6. CASE ConnectFails
  BY <1>0, <1>a, <1>6 DEF ConnectFails, FutureFails, Running, TypeOK
<1>7. CASE TcpConnected
  BY <1>0, <1>a, <1>7 DEF TcpConnected, CreateServer, Running, TypeOK
<1>8. CASE QuicConnected
  BY <1>0, <1>a, <1>8 DEF QuicConnected, Running, TypeOK
<1>9. CASE StreamOpened
  BY <1>0, <1>a, <1>9 DEF StreamOpened, CreateServer, Running, TypeOK
<1>10. CASE OpenFails
  BY <1>0, <1>a, <1>10 DEF OpenFails, FutureFails, Running, TypeOK
<1>11. CASE DriverFails
  BY <1>0, <1>a, <1>11 DEF DriverFails, FutureFails, Running, TypeOK
<1>12. CASE TunnelEnds
  BY <1>0, <1>a, <1>12 DEF TunnelEnds, TypeOK
<1>13. CASE AcceptFails
  BY <1>0, <1>a, <1>13 DEF AcceptFails, TypeOK
<1>14. CASE AcceptPanics
  BY <1>0, <1>a, <1>14 DEF AcceptPanics, Dropped, TypeOK, Panicked
<1>15. CASE UNCHANGED vars
  BY <1>15 DEF vars, TypeOK
<1> QED
  BY <1>1, <1>2, <1>3, <1>4, <1>5, <1>6, <1>7, <1>8, <1>9, <1>10, <1>11, <1>12, <1>13,
     <1>14, <1>15 DEF Next

\* main starts with nothing bound (main.rs:58-61).
LEMMA LifecycleInitial == Init => LifecycleInv
  BY DEF Init, LifecycleInv, TypeOK, Ownership, BindsFindPortsFree, Panicked

\* Each step of the process keeps the listener with its owner, or drops both.
LEMMA OwnershipStep == LifecycleInv /\ [Next]_vars => (Ownership /\ BindsFindPortsFree)'
<1> SUFFICES ASSUME LifecycleInv, [Next]_vars PROVE (Ownership /\ BindsFindPortsFree)'
  OBVIOUS
<1> USE DEF LifecycleInv, Ownership, BindsFindPortsFree
<1>1. CASE RunClient
  <2>1. StartPanics \in {"none", "panic_config", "panic_args"}
    BY <1>1 DEF RunClient, StartPanics
  <2>2. CASE StartPanics = "none"
    BY <1>1, <2>2 DEF RunClient
  <2>3. CASE StartPanics # "none"
    BY <1>1, <2>1, <2>3 DEF RunClient, Dropped
  <2> QED BY <2>2, <2>3
<1>2. CASE RunServer
  BY <1>2 DEF RunServer
<1>3. CASE SystemStops
  BY <1>3 DEF SystemStops, Dropped
<1>4. CASE SleepEnds
  BY <1>4 DEF SleepEnds, system
<1>5. CASE EditConfig
  BY <1>5 DEF EditConfig, system
<1>6. CASE ConnectFails
  BY <1>6 DEF ConnectFails, FutureFails, Running
<1>7. CASE TcpConnected
  BY <1>7 DEF TcpConnected, CreateServer, Running
<1>8. CASE QuicConnected
  BY <1>8 DEF QuicConnected, Running
<1>9. CASE StreamOpened
  BY <1>9 DEF StreamOpened, CreateServer, Running
<1>10. CASE OpenFails
  BY <1>10 DEF OpenFails, FutureFails, Running
<1>11. CASE DriverFails
  BY <1>11 DEF DriverFails, FutureFails, Running
<1>12. CASE TunnelEnds
  BY <1>12 DEF TunnelEnds
<1>13. CASE AcceptFails
  BY <1>13 DEF AcceptFails
<1>14. CASE AcceptPanics
  BY <1>14 DEF AcceptPanics, Dropped
<1>15. CASE UNCHANGED vars
  BY <1>15 DEF vars
<1> QED
  BY <1>1, <1>2, <1>3, <1>4, <1>5, <1>6, <1>7, <1>8, <1>9, <1>10, <1>11, <1>12, <1>13,
     <1>14, <1>15 DEF Next

\* In every state of the process all that is bound is held by the future or actor
\* that is alive, and nothing outlives System::run (main.rs:53-68, lib.rs:74-99).
THEOREM LifecycleInvariance == Spec => []LifecycleInv
<1>1. LifecycleInv /\ [Next]_vars => LifecycleInv'
  BY TypesStep, OwnershipStep DEF LifecycleInv
<1> QED BY <1>1, LifecycleInitial, PTL DEF Spec

\* No bind of the retry loop meets a port that the turn before still holds
\* (lib.rs:77, quic.rs:53).
THEOREM PortsTheorem == Spec => []BindsFindPortsFree
<1>1. LifecycleInv => BindsFindPortsFree
  BY DEF LifecycleInv
<1> QED BY <1>1, LifecycleInvariance, PTL

-----------------------------------------------------------------------------
(* The configuration that is dumped and read again.                        *)

\* What dump_config writes (bin opt.rs:81-111) can be read and converted, and
\* reads as the literals it was made of: merge loses no field of either struct.
LEMMA DumpReadsBack == Loads(DumpConfig) /\ ConfigOf(DumpConfig) = HardCoded
<1> DEFINE o == Merge(QuicDefault, CryptoDefault)
<1>1. DumpConfig.json = TRUE /\ DumpConfig.object = o
  BY DEF DumpConfig, File
<1>2. DOMAIN QuicDefault = QuicFields /\ DOMAIN CryptoDefault = CryptoFields
  BY DEF QuicDefault, CryptoDefault, CryptoFields
<1>3. QuicFields \cap CryptoFields = {}
  BY DEF QuicFields, CryptoFields, U16Fields
<1>4. DOMAIN o = QuicFields \cup CryptoFields
  BY <1>2 DEF Merge
<1>5. \A f \in QuicFields : o[f] = Null
  <2> SUFFICES ASSUME NEW f \in QuicFields PROVE o[f] = Null
    OBVIOUS
  <2>1. f \notin CryptoFields
    BY <1>3
  <2>2. QuicDefault[f] = Null
    BY DEF QuicDefault
  <2> QED BY <1>2, <2>1, <2>2 DEF Merge
<1>6. \A f \in CryptoFields : o[f] = CryptoDefault[f]
  BY <1>2 DEF Merge
<1> HIDE DEF o
<1>7. ReadsAsQuic(o)
  BY <1>5 DEF ReadsAsQuic
<1>8. \A f \in CryptoFields :
        CryptoDefault[f].type = IF f = "digest_iteration" THEN "number" ELSE "string"
  BY DEF CryptoFields, CryptoDefault, Str, Num
<1>9. ReadsAsCrypto(o)
  BY <1>4, <1>6, <1>8 DEF ReadsAsCrypto
<1>10. CryptoOf(o) = CryptoDefault
  <2>1. CryptoDefault = [f \in CryptoFields |-> CryptoDefault[f]]
    BY DEF CryptoDefault, CryptoFields
  <2> QED BY <1>6, <2>1 DEF CryptoOf
<1>11. Converts(CryptoDefault)
  BY DEF Converts, CryptoDefault, CryptoMethods, DigestMethods, Str, Num
<1>12. QuicOf(o) = QuicDefault
  BY <1>4, <1>5 DEF QuicOf, QuicDefault
<1>13. Loads(DumpConfig)
  BY <1>1, <1>7, <1>9, <1>10, <1>11 DEF Loads
<1>14. ConfigOf(DumpConfig) = HardCoded
  BY <1>1, <1>10, <1>12 DEF ConfigOf, HardCoded
<1> QED BY <1>13, <1>14

\* The configuration in force is the literals', and main has ended on the file
\* only when the file, as it was read, does not load (lib.rs:62-72, 101-117).
ConfigInv == used = Effective(HardCoded) /\ (phase = "panic_config" => ~Loads(read))

\* A client or server started with a dumped file runs, and with what it says.
THEOREM DumpTheorem == Spec => []DumpedConfigWorks
<1>1. Init => ConfigInv
  BY DEF Init, ConfigInv
<1>2. ConfigInv /\ [Next]_vars => ConfigInv'
  <2> SUFFICES ASSUME ConfigInv, [Next]_vars PROVE ConfigInv'
    OBVIOUS
  <2>1. CASE RunClient
    <3>1. read' = file
      BY <2>1 DEF RunClient
    <3>2. used' = used
      BY <2>1 DEF RunClient, Dropped
    <3>3. phase' = "panic_config" => ~Loads(file)
      BY <2>1, StartOutcomes DEF RunClient
    <3> QED BY <3>1, <3>2, <3>3 DEF ConfigInv
  <2>2. CASE RunServer
    <3>1. phase' = "panic_config" => ~Loads(file)
      BY <2>2, Zenon DEF RunServer
    <3>2. read' = file /\ used' = Effective(HardCoded)
      BY <2>2 DEF RunServer
    <3> QED BY <3>1, <3>2 DEF ConfigInv
  <2>3. CASE SystemStops
    BY <2>3 DEF SystemStops, Dropped, ConfigInv
  <2>4. CASE SleepEnds
    BY <2>4 DEF SleepEnds, system, ConfigInv
  <2>5. CASE EditConfig
    BY <2>5 DEF EditConfig, system, ConfigInv
  <2>6. CASE ConnectFails
    BY <2>6 DEF ConnectFails, FutureFails, ConfigInv
  <2>7. CASE TcpConnected
    BY <2>7 DEF TcpConnected, CreateServer, ConfigInv
  <2>8. CASE QuicConnected
    BY <2>8 DEF QuicConnected, ConfigInv
  <2>9. CASE StreamOpened
    BY <2>9 DEF StreamOpened, CreateServer, ConfigInv
  <2>10. CASE OpenFails
    BY <2>10 DEF OpenFails, FutureFails, ConfigInv
  <2>11. CASE DriverFails
    BY <2>11 DEF DriverFails, FutureFails, ConfigInv
  <2>12. CASE TunnelEnds
    BY <2>12 DEF TunnelEnds, ConfigInv
  <2>13. CASE AcceptFails
    BY <2>13 DEF AcceptFails, ConfigInv
  <2>14. CASE AcceptPanics
    BY <2>14 DEF AcceptPanics, Dropped, ConfigInv
  <2>15. CASE UNCHANGED vars
    BY <2>15 DEF vars, ConfigInv
  <2> QED
    BY <2>1, <2>2, <2>3, <2>4, <2>5, <2>6, <2>7, <2>8, <2>9, <2>10, <2>11, <2>12, <2>13,
       <2>14, <2>15 DEF Next
<1>3. ConfigInv => DumpedConfigWorks
  BY DumpReadsBack DEF ConfigInv, DumpedConfigWorks
<1> QED BY <1>1, <1>2, <1>3, PTL DEF Spec
=============================================================================
