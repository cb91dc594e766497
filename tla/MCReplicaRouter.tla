--------------------------- MODULE MCReplicaRouter ---------------------------
(* Two GPU processes, as in the code, and small sets of attempts and threads. *)
EXTENDS ReplicaRouter, TLC

CONSTANTS a1, a2, a3, c1, c2, c3

MCAttempts == {a1, a2, a3}

Symmetric == Permutations(MCAttempts) \cup Permutations(Callers)
=============================================================================
