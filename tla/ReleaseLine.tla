----------------------------- MODULE ReleaseLine -----------------------------
(***************************************************************************)
(* What a learner run promises whoever dispatches work under its releases: *)
(* a line of training steps that only grows, one step at a time, and       *)
(* releases that follow it in order.  Once release heads are required, no  *)
(* step is trained on top of an unreleased one.                            *)
(***************************************************************************)
EXTENDS Integers, Sequences

CONSTANT Updates   \* what a step may train on

VARIABLES
    line,      \* the committed steps, in order
    released,  \* how many of them are released
    strict     \* every step is released before the next

Init ==
    /\ line = <<>>
    /\ released = 0
    /\ strict = FALSE

Require ==
    /\ line = <<>>
    /\ strict' = TRUE
    /\ UNCHANGED <<line, released>>

Commit ==
    /\ strict => released = Len(line)
    /\ Len(line') = Len(line) + 1
    /\ \A i \in DOMAIN line : line'[i] = line[i]
    /\ line'[Len(line')] \in Updates
    /\ UNCHANGED <<released, strict>>

Release ==
    /\ strict
    /\ released < Len(line)
    /\ released' = released + 1
    /\ UNCHANGED <<line, strict>>

Next == Require \/ Commit \/ Release

Spec == Init /\ [][Next]_<<line, released, strict>>
=============================================================================
