----------------------------- MODULE MCLifecycle -----------------------------
(***************************************************************************)
(* An instance of Lifecycle for TLC: files that load and files that fail   *)
(* at each of the steps that read them.                                    *)
(***************************************************************************)
EXTENDS Lifecycle

Object == DumpConfig.object

SomeFiles ==
  {NoJson,
   DumpConfig,
   File([Object EXCEPT !["key"] = Str("secret"), !["idle_timeout"] = Num(30)]),
   File([f \in DOMAIN Object \ {"salt"} |-> Object[f]]),
   File([Object EXCEPT !["time_threshold"] = Num(65536)]),
   File([Object EXCEPT !["crypto_method"] = Str("rot13")]),
   File([Object EXCEPT !["digest_iteration"] = Num(0)])}
=============================================================================
