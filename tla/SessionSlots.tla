---------------------------- MODULE SessionSlots ----------------------------
(***************************************************************************)
(* What whoever sends attempts to GPU processes promises: each attempt has *)
(* one session in its life, and a slot no second one while it has a first. *)
(***************************************************************************)
CONSTANTS Attempts, Slots

VARIABLES
    holders,   \* the attempts that may have a session, for each slot
    used       \* attempts that ever had one

Init == holders = [s \in Slots |-> {}] /\ used = {}

Grant(a, s) ==
    /\ a \notin used
    /\ holders[s] = {}
    /\ holders' = [holders EXCEPT ![s] = {a}]
    /\ used' = used \cup {a}

Return(a, s) ==
    /\ a \in holders[s]
    /\ holders' = [holders EXCEPT ![s] = @ \ {a}]
    /\ UNCHANGED used

Next == \E a \in Attempts, s \in Slots : Grant(a, s) \/ Return(a, s)

Spec == Init /\ [][Next]_<<holders, used>>
=============================================================================
