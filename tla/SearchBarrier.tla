---- MODULE SearchBarrier ----
(* What training inside a search promises: the search and the updates of its
   model alternate.  An update is applied only while the search stands at a
   barrier or is over, and a search that leaves the barrier knows exactly how
   many updates the model has had. *)
EXTENDS Naturals

VARIABLES phase,     \* "search", "barrier" or "over"
          known,     \* updates the search counts
          applied    \* updates the model has had

vars == <<phase, known, applied>>

Init == phase = "search" /\ known = 0 /\ applied = 0

Arrive == phase = "search" /\ phase' = "barrier" /\ UNCHANGED <<known, applied>>

Update == /\ phase # "search"
          /\ applied' = applied + 1
          /\ UNCHANGED <<phase, known>>

Resume == /\ phase = "barrier"
          /\ phase' = "search"
          /\ known' = applied
          /\ UNCHANGED applied

Stop == phase # "over" /\ phase' = "over" /\ known' \in {known, applied} /\ UNCHANGED applied

Next == Arrive \/ Update \/ Resume \/ Stop

Spec == Init /\ [][Next]_vars
====
