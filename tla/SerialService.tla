--------------------------- MODULE SerialService ---------------------------
(***************************************************************************)
(* What the GPU actor promises its callers: requests run one at a time, in *)
(* the order they were accepted in, each once, and none is accepted after  *)
(* the service closed.  The session runtime relies on this when it takes   *)
(* an operation to be one step.                                            *)
(***************************************************************************)
EXTENDS Integers, Sequences

CONSTANTS Requests, None

VARIABLES
    log,      \* requests in the order of acceptance
    served,   \* how many of them have run
    running,  \* the request that runs now, or None
    open      \* requests are still accepted

Init ==
    /\ log = <<>>
    /\ served = 0
    /\ running = None
    /\ open = TRUE

Accept(r) ==
    /\ open
    /\ \A i \in DOMAIN log : log[i] # r
    /\ log' = Append(log, r)
    /\ UNCHANGED <<served, running, open>>

Begin ==
    /\ running = None
    /\ served < Len(log)
    /\ running' = log[served + 1]
    /\ UNCHANGED <<log, served, open>>

End ==
    /\ running # None
    /\ running' = None
    /\ served' = served + 1
    /\ UNCHANGED <<log, open>>

Close ==
    /\ open
    /\ open' = FALSE
    /\ UNCHANGED <<log, served, running>>

Next == (\E r \in Requests : Accept(r)) \/ Begin \/ End \/ Close

Spec == Init /\ [][Next]_<<log, served, running, open>>
=============================================================================
