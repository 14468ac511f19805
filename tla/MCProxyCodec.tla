---------------------------- MODULE MCProxyCodec ----------------------------
(* An instance of ProxyCodec for TLC: one packet of every type, one of     *)
(* them as long as its length field can say.                               *)
EXTENDS ProxyCodec

OneOfEach ==
  {[uuid |-> 0, type |-> "Heartbeat", size |-> 0],
   [uuid |-> 1, type |-> "Response", size |-> 0],
   [uuid |-> 1, type |-> "RequestAddr", size |-> 9],
   [uuid |-> 2, type |-> "Data", size |-> 2]}
=============================================================================
