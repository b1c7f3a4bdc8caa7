--------------------------- MODULE MCPublishing ---------------------------
(* Small instances of Publishing. *)
EXTENDS Publishing, TLC

CONSTANTS s1, s2, c1, c2

OneUser == [s \in Session |-> "operator"]

Minimal == {<<0, 0>>}

Varied == {<<0, 0>>, <<6, 2>>}

Symmetry == Permutations(Session) \cup Permutations(Conn)
=============================================================================
