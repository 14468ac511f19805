----------------------------- MODULE MCJustProxy -----------------------------
(* Instances of JustProxy for TLC: one or two sessions, with ports of their *)
(* own or sharing one.                                                      *)
EXTENDS RelayRefinement

CONSTANTS s1, s2

OneSession  == {s1}
TwoSessions == {s1, s2}

OnePort       == [s \in OneSession |-> 1]
DistinctPorts == [s \in TwoSessions |-> IF s = s1 THEN 1 ELSE 2]
SharedPort    == [s \in TwoSessions |-> 1]
=============================================================================
