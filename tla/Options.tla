------------------------------- MODULE Options -------------------------------
(***************************************************************************)
(* Configuration: the file, what the binary makes of it (just-proxy-bin    *)
(* opt.rs) and what the library converts it to (just-proxy-lib opt.rs).    *)
(*                                                                         *)
(* A JSON object is a function from names to tagged values.  A file is     *)
(* an object, or anything that cannot be read as JSON: a file that is      *)
(* missing, cut short or, as the example of README.md, has comments.       *)
(***************************************************************************)
EXTENDS Naturals

Null   == [type |-> "null"]
Num(n) == [type |-> "number", v |-> n]
Str(s) == [type |-> "string", v |-> s]

File(object) == [json |-> TRUE, object |-> object]
NoJson       == [json |-> FALSE, object |-> [name \in {} |-> Null]]

-----------------------------------------------------------------------------
(* QuicConfig and CryptoConfig.                                            *)

U16Fields == {"time_threshold", "loss_reduction_factor"}

QuicFields ==
  {"stream_window_bidi", "idle_timeout", "stream_receive_window", "receive_window",
   "max_tlps", "packet_threshold", "delayed_ack_timeout", "initial_rtt",
   "max_datagram_size", "initial_window", "minimum_window",
   "presistent_cognestion_threshold", "local_cid_len"} \cup U16Fields

CryptoFields == {"key", "salt", "crypto_method", "digest_method", "digest_iteration"}

CryptoMethods == {"aes-256-gcm", "aes-128-gcm", "chacha20_poly1305"}
DigestMethods == {"sha1", "sha256", "sha384", "sha512", "sha512_256"}

\* The literals of run_client and run_server, and those of dump_config.
QuicDefault == [f \in QuicFields |-> Null]
CryptoDefault == [key |-> Str("12312"), salt |-> Str("2121"),
                  crypto_method |-> Str("aes-256-gcm"), digest_method |-> Str("sha256"),
                  digest_iteration |-> Num(1)]

HardCoded == [quic |-> QuicDefault, crypto |-> CryptoDefault]

-----------------------------------------------------------------------------
(* Reading a file.                                                         *)

\* serde_json: an optional field may be missing or null, and a number must fit
\* its type (the numbers here fit every type but u16).
ReadsAsQuic(o) ==
  \A f \in QuicFields \cap DOMAIN o :
    o[f] = Null \/ (o[f].type = "number" /\ (f \in U16Fields => o[f].v < 65536))

\* serde_json: a field that is not optional must be there; others are ignored.
ReadsAsCrypto(o) ==
  /\ CryptoFields \subseteq DOMAIN o
  /\ \A f \in CryptoFields : o[f].type = IF f = "digest_iteration" THEN "number" ELSE "string"

\* convert returns Err for an unknown method and panics on zero iterations.
Converts(crypto) ==
  /\ crypto.crypto_method.v \in CryptoMethods
  /\ crypto.digest_method.v \in DigestMethods
  /\ crypto.digest_iteration.v # 0

QuicOf(o)   == [f \in QuicFields |-> IF f \in DOMAIN o THEN o[f] ELSE Null]
CryptoOf(o) == [f \in CryptoFields |-> o[f]]

\* to_client_config and to_server_config: anything else ends in an unwrap.
Loads(file) ==
  /\ file.json
  /\ ReadsAsQuic(file.object)
  /\ ReadsAsCrypto(file.object)
  /\ Converts(CryptoOf(file.object))

ConfigOf(file) == [quic |-> QuicOf(file.object), crypto |-> CryptoOf(file.object)]

\* to_quinn_config: what is not set stays as quinn has it.
QuinnDefault == Str("as quinn has it")

ToQuinnConfig(quic) == [f \in QuicFields |-> IF quic[f] = Null THEN QuinnDefault ELSE quic[f]]

\* The configuration as it is in force.
Effective(config) == [quic |-> ToQuinnConfig(config.quic), crypto |-> config.crypto]

-----------------------------------------------------------------------------
(* Writing a file.                                                         *)

\* Mutant of Merge: only the names that are there already are merged.
MergeKnown(a, b) == [k \in DOMAIN a |-> IF k \in DOMAIN b THEN b[k] ELSE a[k]]

\* merge of two objects whose values are no objects.
Merge(a, b) ==
  [k \in DOMAIN a \cup DOMAIN b |-> IF k \in DOMAIN b THEN b[k] ELSE a[k]]

DumpConfig == File(Merge(QuicDefault, CryptoDefault))
=============================================================================
