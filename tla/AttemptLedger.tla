--------------------------- MODULE AttemptLedger ---------------------------
(***************************************************************************)
(* What is promised of the numbered attempts of a run, whoever grants them *)
(* and whoever carries them out.  The ledger survives; a process loses     *)
(* what it has in hand when it dies, and can lose it earlier.              *)
(***************************************************************************)
EXTENDS Naturals

CONSTANT MaxAttempts

Attempts == 1..MaxAttempts

VARIABLES
    ledger,   \* what is on record of each attempt
    owned     \* pending attempts that a live process has in hand

Init == ledger = [a \in Attempts |-> "free"] /\ owned = {}

Are(state) == {a \in Attempts : ledger[a] = state}

\* The next number is granted while nothing is unknown and everything pending
\* is in hand; the one who asked may not learn of it.
Grant(a) ==
    /\ Are("free") = a..MaxAttempts
    /\ Are("unknown") = {}
    /\ Are("pending") \subseteq owned
    /\ ledger' = [ledger EXCEPT ![a] = "pending"]
    /\ owned' \in {owned, owned \cup {a}}

\* A pending attempt gets its one result, from whoever knows it.
Settle(a, result) ==
    /\ ledger[a] = "pending"
    /\ ledger' = [ledger EXCEPT ![a] = result]
    /\ owned' = owned \ {a}

Lose == owned' \subseteq owned /\ UNCHANGED ledger

Next ==
    \/ \E a \in Attempts : Grant(a) \/ \E r \in {"accepted", "exhausted", "unknown"} : Settle(a, r)
    \/ Lose

Spec == Init /\ [][Next]_<<ledger, owned>>
=============================================================================
