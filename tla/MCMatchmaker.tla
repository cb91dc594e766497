---------------------------- MODULE MCMatchmaker ----------------------------
(* A small curriculum for TLC.                                             *)
EXTENDS Matchmaker, TLC

CONSTANTS p1, p2, p3, f1, f2

\* Two families: p1 is the target of f1 with the variant p2, p3 that of f2.
MCFamilyOf == (p1 :> f1) @@ (p2 :> f1) @@ (p3 :> f2)
MCTargets == {p1, p3}
MCTie == (p1 :> 2) @@ (p2 :> 1) @@ (p3 :> 0)
MCPolarity ==
    [p \in Problems |-> [n \in 1..MaxAttempts |->
        IF p # p2 \/ n % 2 = 0 THEN "prove" ELSE "disprove"]]

Symmetric == Permutations(Callers)
=============================================================================
