---------------------------- MODULE MCGpuRuntime ----------------------------
(* Instances of the session runtime for TLC.                               *)
EXTENDS GpuRuntime

CONSTANTS s1, s2, s4, tA, tB, n1, x1, r1

TheoremA == [role |-> "theorem", theorem |-> tA, base |-> None]
TheoremBFrom(x) == [role |-> "theorem", theorem |-> tB, base |-> x]
Learner == [role |-> "learner", theorem |-> None, base |-> None]
ActorOf(r) == [role |-> "actor", theorem |-> tB, base |-> r]

AllIdentities == {TheoremA, TheoremBFrom(x1), Learner, ActorOf(r1)}

LearnerOfR1 == [r \in {r1} |-> s1]

\* The second event binds the theorem it was made for.
TwoEvents == {[id |-> "e1", body |-> "p", theorem |-> None],
              [id |-> "e2", body |-> "p", theorem |-> tA]}
=============================================================================
