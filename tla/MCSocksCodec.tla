---------------------------- MODULE MCSocksCodec ----------------------------
(***************************************************************************)
(* Instances of SocksCodec for TLC: applications at the boundaries of each *)
(* field, patient and eager.                                               *)
(***************************************************************************)
EXTENDS SocksCodec

App(methods, command, kind, domain, port, eager) ==
  [methods |-> methods, command |-> command, kind |-> kind, domain |-> domain,
   utf8 |-> TRUE, port |-> port, data |-> 3, eager |-> eager]

\* Addresses of every type, with the shortest and the longest domain.
Good ==
  {App(m, 1, k, 0, p, e) : m \in {0, 2}, k \in {1, 4}, p \in {80, 40000}, e \in BOOLEAN}
    \cup {App(1, c, 3, d, 443, e) : c \in 1..3, d \in {0, 9}, e \in BOOLEAN}

\* Streams about as long as an u8 can count, and longer.
Long ==
  {App(255, 1, 1, 0, 80, e) : e \in BOOLEAN}
    \cup {App(1, 1, 3, d, 80, TRUE) : d \in {244, 245, 255}}

Malformed ==
  {App(1, 1, 2, 4, 80, e) : e \in BOOLEAN}
    \cup {App(1, 0, 1, 0, 80, e) : e \in BOOLEAN}
    \cup {[App(1, 1, 3, 4, 80, e) EXCEPT !.utf8 = FALSE] : e \in BOOLEAN}

SomeOfEach == Good \cup Long \cup Malformed

Connects == {App(1, 1, 3, 9, p, FALSE) : p \in {80, 32767, 32768, 65535}}
=============================================================================
