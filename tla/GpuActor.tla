------------------------------ MODULE GpuActor ------------------------------
(***************************************************************************)
(* The single-worker actor of gpu_runtime/actor.py.  Threads submit work   *)
(* and wait, one worker thread takes it from a FIFO queue, and close puts  *)
(* a sentinel behind everything that was accepted.  What runs under the    *)
(* metrics lock is one step; everything else interleaves.                  *)
(*                                                                         *)
(* A request stands for one call of submit by some thread; wall-clock      *)
(* times are left out of the metrics.                                      *)
(***************************************************************************)
EXTENDS Integers, Sequences, FiniteSets

CONSTANTS
    Requests,   \* calls of submit
    Closers,    \* calls of close
    Sentinel    \* the sentinel on the queue, and no current item

ASSUME ActorAssumption == IsFiniteSet(Requests) /\ Sentinel \notin Requests

VARIABLES
    queue,      \* the FIFO queue
    closed,     \* _closed
    worker,     \* the worker thread: waiting, taken, running, ended, counted, stopped
    item,       \* the item the worker holds, or Sentinel
    call,       \* each call of submit: idle, waiting, refused, returned, raised
    closing,    \* each call of close: idle, joining, returned
    done,       \* items whose event is set
    error,      \* items whose function raised
    metrics,    \* the counters behind the lock
    accepted    \* history: requests in the order they were queued in

actorVars == <<queue, closed, worker, item, call, closing, done, error, metrics, accepted>>
threads == <<worker, item, done, error>>

Counters == {"submitted", "queued", "started", "active", "completed", "failed"}

-----------------------------------------------------------------------------
(* Callers.                                                                *)

\* Fault for the checks: the queue is last in, first out.
SubmitInFront(r) ==
    /\ call[r] = "idle"
    /\ ~closed
    /\ call' = [call EXCEPT ![r] = "waiting"]
    /\ queue' = <<r>> \o queue
    /\ accepted' = Append(accepted, r)
    /\ metrics' = [metrics EXCEPT !["submitted"] = @ + 1, !["queued"] = @ + 1]
    /\ UNCHANGED <<closed, threads, closing>>

\* submit: _closed is read and the item queued under one lock.
Submit(r) ==
    /\ call[r] = "idle"
    /\ ~closed
    /\ call' = [call EXCEPT ![r] = "waiting"]
    /\ queue' = Append(queue, r)
    /\ accepted' = Append(accepted, r)
    /\ metrics' = [metrics EXCEPT !["submitted"] = @ + 1, !["queued"] = @ + 1]
    /\ UNCHANGED <<closed, threads, closing>>

Refuse(r) ==
    /\ call[r] = "idle"
    /\ closed
    /\ call' = [call EXCEPT ![r] = "refused"]
    /\ UNCHANGED <<queue, closed, threads, closing, metrics, accepted>>

\* The caller wakes up with the result, or with the very error of its function.
Return(r) ==
    /\ call[r] = "waiting"
    /\ r \in done
    /\ call' = [call EXCEPT ![r] = IF r \in error THEN "raised" ELSE "returned"]
    /\ UNCHANGED <<queue, closed, threads, closing, metrics, accepted>>

\* close: the first caller puts the sentinel, every caller joins the worker.
Close(c) ==
    /\ closing[c] = "idle"
    /\ closing' = [closing EXCEPT ![c] = "joining"]
    /\ closed' = TRUE
    /\ queue' = IF closed THEN queue ELSE Append(queue, Sentinel)
    /\ UNCHANGED <<threads, call, metrics, accepted>>

Joined(c) ==
    /\ closing[c] = "joining"
    /\ worker = "stopped"
    /\ closing' = [closing EXCEPT ![c] = "returned"]
    /\ UNCHANGED <<queue, closed, threads, call, metrics, accepted>>

-----------------------------------------------------------------------------
(* The worker.                                                             *)

Take ==
    /\ worker = "waiting"
    /\ queue # <<>>
    /\ queue' = Tail(queue)
    /\ item' = Head(queue)
    /\ worker' = IF Head(queue) = Sentinel THEN "stopped" ELSE "taken"
    /\ UNCHANGED <<closed, call, closing, done, error, metrics, accepted>>

Start ==
    /\ worker = "taken"
    /\ worker' = "running"
    /\ metrics' = [metrics EXCEPT !["queued"] = @ - 1, !["started"] = @ + 1,
                                  !["active"] = @ + 1]
    /\ UNCHANGED <<queue, closed, item, call, closing, done, error, accepted>>

\* The function returns or raises; either is kept for the caller.
Run ==
    /\ worker = "running"
    /\ worker' = "ended"
    /\ error' \in {error, error \cup {item}}
    /\ UNCHANGED <<queue, closed, item, call, closing, done, metrics, accepted>>

Count ==
    /\ worker = "ended"
    /\ worker' = "counted"
    /\ metrics' = [metrics EXCEPT !["active"] = @ - 1, !["completed"] = @ + 1,
                                  !["failed"] = @ + IF item \in error THEN 1 ELSE 0]
    /\ UNCHANGED <<queue, closed, item, call, closing, done, error, accepted>>

\* Fault for the checks: a caller whose function raised is not woken.
SignalReturned ==
    /\ worker = "counted"
    /\ worker' = "waiting"
    /\ done' = IF item \in error THEN done ELSE done \cup {item}
    /\ item' = Sentinel
    /\ UNCHANGED <<queue, closed, call, closing, error, metrics, accepted>>

Signal ==
    /\ worker = "counted"
    /\ worker' = "waiting"
    /\ done' = done \cup {item}
    /\ item' = Sentinel
    /\ UNCHANGED <<queue, closed, call, closing, error, metrics, accepted>>

Worker == Take \/ Start \/ Run \/ Count \/ Signal

-----------------------------------------------------------------------------
ActorInit ==
    /\ queue = <<>>
    /\ closed = FALSE
    /\ worker = "waiting"
    /\ item = Sentinel
    /\ call = [r \in Requests |-> "idle"]
    /\ closing = [c \in Closers |-> "idle"]
    /\ done = {}
    /\ error = {}
    /\ metrics = [k \in Counters |-> 0]
    /\ accepted = <<>>

ActorNext ==
    \/ \E r \in Requests : Submit(r) \/ Refuse(r) \/ Return(r)
    \/ \E c \in Closers : Close(c) \/ Joined(c)
    \/ Worker

ActorSpec == ActorInit /\ [][ActorNext]_actorVars

\* The scheduler runs every thread that can go on, and the functions given to
\* submit return; nobody is obliged to call submit or close.
Fairness ==
    /\ WF_actorVars(Worker)
    /\ \A r \in Requests : WF_actorVars(Return(r))
    /\ \A c \in Closers : WF_actorVars(Joined(c))

FairActorSpec == ActorSpec /\ Fairness

-----------------------------------------------------------------------------
(* Properties.                                                             *)

\* Every variable has its type.
ActorTypeOK ==
    /\ queue \in Seq(Requests \cup {Sentinel})
    /\ closed \in BOOLEAN
    /\ worker \in {"waiting", "taken", "running", "ended", "counted", "stopped"}
    /\ item \in Requests \cup {Sentinel}
    /\ call \in [Requests -> {"idle", "waiting", "refused", "returned", "raised"}]
    /\ closing \in [Closers -> {"idle", "joining", "returned"}]
    /\ done \subseteq Requests
    /\ error \subseteq Requests
    /\ metrics \in [Counters -> Nat]
    /\ accepted \in Seq(Requests)

\* What metrics() reads between two steps adds up: accepted work is queued or
\* started, started work is active or completed, and one item is active at most.
MetricsAddUp ==
    /\ metrics["submitted"] = metrics["queued"] + metrics["started"]
    /\ metrics["started"] = metrics["active"] + metrics["completed"]
    /\ metrics["active"] <= 1
    /\ metrics["failed"] <= metrics["completed"]

\* The comment of submit: no accepted request lands behind the sentinel.  Once
\* the worker has stopped, every accepted request has its answer.
StoppedIsDrained ==
    worker = "stopped" =>
        \A r \in Requests : call[r] = "waiting" => r \in done

\* Every accepted request is answered, and every call of close returns, however
\* the two race and whatever the functions do.
EveryCallReturns ==
    /\ \A r \in Requests : call[r] = "waiting" ~> call[r] \in {"returned", "raised"}
    /\ \A c \in Closers : closing[c] = "joining" ~> closing[c] = "returned"

Service == INSTANCE SerialService WITH
    log <- accepted,
    served <- metrics["started"] - (IF worker = "running" THEN 1 ELSE 0),
    running <- IF worker = "running" THEN item ELSE Sentinel,
    open <- ~closed,
    None <- Sentinel

\* The actor implements the serial service: work runs one item at a time in the
\* order of acceptance, and nothing is accepted after close.
ServesSerially == Service!Spec
=============================================================================
