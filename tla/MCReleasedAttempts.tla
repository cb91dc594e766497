------------------------- MODULE MCReleasedAttempts -------------------------
(* Two problems of two families, three releases and two callers for TLC.     *)
EXTENDS ReleasedAttempts, TLC

CONSTANTS p1, p2, f1, f2

MCFamilyOf == (p1 :> f1) @@ (p2 :> f2)
MCTie == (p1 :> 0) @@ (p2 :> 1)
MCPolarity == [p \in Problems |-> [n \in 1..MaxAttempts |-> "prove"]]
MCReleases == 1..3

Symmetric == Permutations(Callers)
=============================================================================
