------------------------------ MODULE MCLearner ------------------------------
(* Small instances of the learner run. *)
EXTENDS Learner, TLC

CONSTANTS p, q, a, b

MCProcesses == {p, q}
MCDatasets == {a, b}
MCSeed == <<a>>

\* No step and no property tells the processes apart.
Symmetric == Permutations(MCProcesses)
=============================================================================
