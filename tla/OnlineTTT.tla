----------------------------- MODULE OnlineTTT ------------------------------
(***************************************************************************)
(* Training inside one search: run_online and OnlineCoordinator of         *)
(* cpu_runtime/online_ttt.py, the Lean process it starts, the observer     *)
(* stream and acknowledgement files between the two, and the session on    *)
(* the GPU that both of them call.                                         *)
(*                                                                         *)
(* The search tree is seen through what the coordinator reads of it: which *)
(* nodes were backed up, how often, and at a checkpoint which of them pass *)
(* the checks of _target.  Prompts, tactics and values are left out.       *)
(***************************************************************************)
EXTENDS Integers, Sequences, FiniteSets

CONSTANTS
    Nodes,             \* OR nodes of the tree, by index
    MaxSteps,          \* iterations of the search
    MaxUpdates,        \* max_updates
    MinInterval,       \* min_checkpoint_interval
    SnapshotInterval,  \* training_snapshot_interval; 0 stands for None
    Refresh,           \* selection_value_refresh
    None

Steps == 0..MaxSteps - 1

ASSUME OnlineAssumption ==
    /\ Nodes \subseteq Nat
    /\ MaxSteps \in Nat \ {0}
    /\ MaxUpdates \in Nat /\ MinInterval \in Nat \ {0} /\ SnapshotInterval \in Nat
    /\ Refresh \in BOOLEAN
    /\ None \notin Nat
    /\ None \notin [status: {"continue", "error"}, version: Nat]
    /\ None \notin [step: Nat, version: Nat, acknowledged: BOOLEAN]

VARIABLES
    phase,      \* Lean: "search", "wait", "refresh", or over: "solved", "unsolved"
    step,       \* Lean: the iteration
    known,      \* Lean: policyVersion, put on every record
    fresh,      \* Lean: selectionVersion, of the values the search selects by
    stream,     \* observer.jsonl: the complete records
    torn,       \* observer.jsonl ends in an incomplete record
    acks,       \* checkpoint-*.ack.json
    requests,   \* learn-*.request.json, in the order they were written
    witnessed,  \* versions with a training-snapshot receipt
    applied,    \* GPU: updates the session has had
    wire,       \* the learn call: "idle", "sent", "answered" or "refused"
    pc,         \* coordinator: where run_online is
    cursor,     \* coordinator: records accepted
    version,    \* coordinator: policy version, which is also the receipts it has
    lastStep, lastUpdate,
    backedUp,   \* coordinator: backed_up_nodes
    consumed,   \* coordinator: consumed_stats, the visits a node was trained with
    pending,    \* coordinator: pending_refresh
    error,      \* coordinator: what ended the run, if anything did
    after       \* updates in snapshot-after.json, once taken

lean == <<phase, step, known, fresh>>
observer == <<stream, torn>>
gpu == <<applied, wire>>
accepted == <<cursor, lastStep, backedUp>>
trained == <<version, lastUpdate, consumed>>
vars == <<lean, observer, acks, requests, witnessed, gpu, pc, accepted, trained,
          pending, error, after>>

Searching == {"search", "refresh"}
Over == {"solved", "unsolved"}

Init ==
    /\ phase = "search" /\ step = 0 /\ known = 0 /\ fresh = 0
    /\ stream = <<>> /\ torn = FALSE
    /\ acks = [s \in Steps |-> None] /\ requests = <<>> /\ witnessed = {}
    /\ applied = 0 /\ wire = "idle"
    /\ pc = "poll" /\ cursor = 0 /\ lastStep = -1 /\ backedUp = {}
    /\ version = 0 /\ lastUpdate = None /\ consumed = [n \in Nodes |-> 0]
    /\ pending = None /\ error = "none" /\ after = None

-----------------------------------------------------------------------------
(* The search.                                                             *)

Record(kind, stamp, about) == [kind |-> kind, step |-> step, version |-> stamp, about |-> about]

Backups(n) == {i \in DOMAIN stream : stream[i].kind = "backup" /\ stream[i].about = n}
Visits == [n \in Nodes |-> Cardinality(Backups(n))]

\* An iteration asks the model about at most one node and then backs up a path
\* from its end to the root; a child has a larger index than its parent.  A node
\* without a chosen child is evaluated and not backed up.
Observe(kind, n) ==
    /\ phase = "search"
    /\ \A i \in DOMAIN stream : stream[i].step = step =>
          kind = "backup" /\ (stream[i].kind = "backup" => n < stream[i].about)
    /\ stream' = Append(stream, Record(kind, known, n))
    /\ UNCHANGED <<lean, torn, acks, requests, witnessed, gpu, pc, accepted, trained,
                   pending, error, after>>

\* The end of an iteration: the record is written and the search waits.
Checkpoint(solved, trainable) ==
    /\ phase = "search"
    /\ stream' = Append(stream, Record("checkpoint", known,
          [solved |-> solved, trainable |-> trainable, visits |-> Visits]))
    /\ phase' = "wait"
    /\ UNCHANGED <<step, known, fresh, torn, acks, requests, witnessed, gpu, pc, accepted,
                   trained, pending, error, after>>

Continue == IF step + 1 \in Steps THEN phase' = "search" /\ step' = step + 1
                                  ELSE phase' = "unsolved" /\ UNCHANGED step

\* A solved root is replayed against the kernel before it counts.
Leave(solved, v) ==
    IF solved THEN phase' \in Over /\ UNCHANGED step
    ELSE IF ~Refresh \/ v = fresh THEN Continue
    ELSE UNCHANGED step /\ phase' = IF v = fresh + 1 THEN "refresh" ELSE "unsolved"

TakeAck ==
    /\ phase = "wait" /\ acks[step] # None
    /\ LET ack == acks[step] IN
          IF ack.status = "error" \/ ack.version < known
          THEN phase' = "unsolved" /\ UNCHANGED <<step, known, stream>>
          ELSE /\ known' = ack.version
               /\ stream' = Append(stream, Record("checkpoint_ack", ack.version, 0))
               /\ Leave(stream[Len(stream)].about.solved, ack.version)
    /\ UNCHANGED <<fresh, torn, acks, requests, witnessed, gpu, pc, accepted, trained,
                   pending, error, after>>

\* Fault for the checks: the barrier has no time limit.
BarrierWaits == phase = "wait" /\ acks[step] # None /\ UNCHANGED vars

BarrierTimeout ==
    /\ phase = "wait" /\ acks[step] = None
    /\ phase' = "unsolved"
    /\ UNCHANGED <<step, known, fresh, observer, acks, requests, witnessed, gpu, pc,
                   accepted, trained, pending, error, after>>

RefreshValues ==
    /\ phase = "refresh"
    /\ stream' = Append(stream, Record("selection_value_refresh", known, known))
    /\ fresh' = known
    /\ Continue
    /\ UNCHANGED <<known, torn, acks, requests, witnessed, gpu, pc, accepted, trained,
                   pending, error, after>>

\* Lean fails or is killed; only while it writes can a record stay incomplete.
Ends ==
    /\ phase' = "unsolved"
    /\ torn' \in IF phase = "wait" THEN {torn} ELSE BOOLEAN

LeanFails ==
    /\ phase \notin Over
    /\ Ends
    /\ UNCHANGED <<step, known, fresh, stream, acks, requests, witnessed, gpu, pc, accepted,
                   trained, pending, error, after>>

-----------------------------------------------------------------------------
(* The session on the GPU.                                                 *)

GpuLearns ==
    /\ wire = "sent"
    /\ \/ /\ requests[Len(requests)].version = applied
          /\ applied' = applied + 1 /\ wire' = "answered"
       \/ wire' = "refused" /\ UNCHANGED applied
    /\ UNCHANGED <<lean, observer, acks, requests, witnessed, pc, accepted, trained,
                   pending, error, after>>

-----------------------------------------------------------------------------
(* The coordinator.                                                        *)

Fail(why) == error' = why /\ pc' = "stop"
Acknowledge(status) == acks' = [acks EXCEPT ![lastStep'] = [status |-> status, version |-> version]]

\* The handler of accept: the error is acknowledged, if that can be written.
Refuses(why) == (UNCHANGED acks \/ Acknowledge("error")) /\ Fail(why)

Unread == stream[cursor + 1]

\* Fault for the checks: after an update only the refreshed values may come.
ValidRefreshOnly(r) ==
    /\ r.version = version
    /\ pending # None => r.kind = "selection_value_refresh"
    /\ r.kind = "checkpoint" => r.step = lastStep + 1

\* The checks of _validate, accept and _accept_selection_refresh.
Valid(r) ==
    /\ r.version = version
    /\ pending # None => r.kind \in {"checkpoint_ack", "selection_value_refresh"}
    /\ r.kind = "checkpoint_ack" /\ pending # None =>
          r.step = pending.step /\ ~pending.acknowledged
    /\ r.kind = "selection_value_refresh" =>
          /\ pending # None
          /\ pending.acknowledged /\ pending.step = r.step /\ pending.version = r.about
    /\ r.kind = "checkpoint" => r.step = lastStep + 1

\* Any record but a checkpoint to act on; a bad one ends the run.
Accept ==
    /\ pc = "poll" /\ cursor < Len(stream)
    /\ Valid(Unread) => Unread.kind # "checkpoint"
    /\ cursor' = cursor + 1
    /\ IF ~Valid(Unread) THEN Fail("protocol") /\ UNCHANGED <<backedUp, pending>>
       ELSE /\ backedUp' = IF Unread.kind = "backup" THEN backedUp \cup {Unread.about} ELSE backedUp
            /\ pending' = CASE Unread.kind = "checkpoint_ack" /\ pending # None ->
                                 [pending EXCEPT !.acknowledged = TRUE]
                            [] Unread.kind = "selection_value_refresh" -> None
                            [] OTHER -> pending
            /\ UNCHANGED <<pc, error>>
    /\ UNCHANGED <<lean, observer, acks, requests, witnessed, gpu, lastStep, trained, after>>

\* Nodes _target may choose at checkpoint r; it takes the last of them.
Targets(r) == IF r.about.solved THEN {}
              ELSE {n \in backedUp \cap r.about.trainable : r.about.visits[n] # consumed[n]}
Target(r) == CHOOSE n \in Targets(r) : \A m \in Targets(r) : m <= n

IntervalReady(s) ==
    s + 1 >= MinInterval /\ (lastUpdate # None => s - lastUpdate >= MinInterval)

MayUpdate(r) == Targets(r) # {} /\ version < MaxUpdates /\ IntervalReady(r.step)

\* Fault for the checks: nodes of checkpoints without an update are kept for later.
PassKeeping(r) ==
    /\ ~MayUpdate(r)
    /\ Acknowledge("continue")
    /\ UNCHANGED <<backedUp, requests, wire, pc, error>>

\* The checkpoint asks for no update.
Pass(r) ==
    /\ ~MayUpdate(r)
    /\ Acknowledge("continue")
    /\ backedUp' = {}
    /\ UNCHANGED <<requests, wire, pc, error>>

\* Fault for the checks: Lean is let go while the update is made.
SendReleasing(r) ==
    /\ MayUpdate(r)
    /\ Acknowledge("continue")
    /\ requests' = Append(requests, [step |-> r.step, node |-> Target(r), version |-> version,
                                     visits |-> r.about.visits[Target(r)]])
    /\ wire' = "sent" /\ pc' = "learn"
    /\ UNCHANGED <<backedUp, error>>

\* The request is saved, then sent; nothing else saves or sends one.
Send(r) ==
    /\ MayUpdate(r)
    /\ requests' = Append(requests, [step |-> r.step, node |-> Target(r), version |-> version,
                                     visits |-> r.about.visits[Target(r)]])
    /\ wire' = "sent" /\ pc' = "learn"
    /\ UNCHANGED <<acks, backedUp, error>>

\* The tree, the body or a write is refused before anything is sent.
Reject ==
    /\ Refuses("checkpoint")
    /\ UNCHANGED <<requests, wire, backedUp>>

AcceptCheckpoint ==
    /\ pc = "poll" /\ cursor < Len(stream) /\ Valid(Unread) /\ Unread.kind = "checkpoint"
    /\ cursor' = cursor + 1 /\ lastStep' = Unread.step
    /\ Pass(Unread) \/ Send(Unread) \/ Reject
    /\ UNCHANGED <<lean, observer, witnessed, applied, trained, pending, after>>

SnapshotDue(v) == SnapshotInterval # 0 /\ v % SnapshotInterval = 0

LearnReturns ==
    /\ pc = "learn" /\ wire = "answered"
    /\ version' = version + 1
    /\ lastUpdate' = lastStep
    /\ consumed' = [consumed EXCEPT ![requests[Len(requests)].node] = requests[Len(requests)].visits]
    /\ pc' = IF SnapshotDue(version') THEN "witness" ELSE "publish"
    /\ UNCHANGED <<lean, observer, acks, requests, witnessed, gpu, accepted, pending, error, after>>

\* Fault for the checks: an unanswered learn call is passed over and the search goes on.
LearnSkipped ==
    /\ pc = "learn"
    /\ UNCHANGED accepted
    /\ Acknowledge("continue")
    /\ pc' = "poll"
    /\ UNCHANGED <<lean, observer, requests, witnessed, gpu, trained, pending, error, after>>

\* The call is refused, is not answered in time, or its receipt is not accepted:
\* in the last two cases the update may have been applied, or be yet to come.
LearnFails ==
    /\ pc = "learn"
    /\ UNCHANGED accepted
    /\ Refuses("learn")
    /\ UNCHANGED <<lean, observer, requests, witnessed, gpu, trained, pending, after>>

Witness ==
    /\ pc = "witness"
    /\ UNCHANGED accepted
    /\ \/ witnessed' = witnessed \cup {version} /\ pc' = "publish" /\ UNCHANGED <<acks, error>>
       \/ Refuses("snapshot") /\ UNCHANGED witnessed
    /\ UNCHANGED <<lean, observer, requests, gpu, trained, pending, after>>

Publish ==
    /\ pc = "publish"
    /\ UNCHANGED <<cursor, lastStep>>
    /\ \/ /\ Acknowledge("continue")
          /\ pending' = IF Refresh
                        THEN [step |-> lastStep, version |-> version, acknowledged |-> FALSE]
                        ELSE None
          /\ backedUp' = {}
          /\ pc' = "poll" /\ UNCHANGED error
       \/ Fail("publication") /\ UNCHANGED <<acks, pending, backedUp>>
    /\ UNCHANGED <<lean, observer, requests, witnessed, gpu, trained, after>>

\* Fault for the checks: nobody asks whether the values were refreshed.
ExitUnfinished ==
    /\ pc = "poll" /\ phase \in Over /\ cursor = Len(stream)
    /\ pc' = "report"
    /\ error' = IF torn THEN "incomplete" ELSE "none"
    /\ UNCHANGED <<lean, observer, acks, requests, witnessed, gpu, accepted, trained, pending, after>>

\* The process is over and every record of it accepted.
Exit ==
    /\ pc = "poll" /\ phase \in Over /\ cursor = Len(stream)
    /\ pc' = "report"
    /\ error' = IF torn \/ pending # None THEN "incomplete" ELSE "none"
    /\ UNCHANGED <<lean, observer, acks, requests, witnessed, gpu, accepted, trained, pending, after>>

StopLean ==
    /\ pc = "stop" /\ pc' = "report"
    /\ IF phase \in Over THEN UNCHANGED <<phase, torn>> ELSE Ends
    /\ UNCHANGED <<step, known, fresh, stream, acks, requests, witnessed, gpu, accepted,
                   trained, pending, error, after>>

\* snapshot-after.json and online-result.json.
Report ==
    /\ pc = "report" /\ pc' = "done"
    /\ after' = IF error = "none" THEN applied ELSE None
    /\ UNCHANGED <<lean, observer, acks, requests, witnessed, gpu, accepted, trained, pending, error>>

\* The coordinator's process dies; Lean has a session of its own and lives on.
Die ==
    /\ pc \notin {"done", "dead"} /\ pc' = "dead"
    /\ UNCHANGED <<lean, observer, acks, requests, witnessed, gpu, accepted, trained, pending,
                   error, after>>

LeanNext ==
    \/ \E n \in Nodes : Observe("generation", n) \/ Observe("backup", n)
    \/ \E solved \in BOOLEAN, trainable \in SUBSET {n \in Nodes : Visits[n] > 0} :
          Checkpoint(solved, trainable)
    \/ TakeAck \/ BarrierTimeout \/ RefreshValues

CoordinatorNext ==
    \/ Accept \/ AcceptCheckpoint \/ LearnReturns \/ LearnFails
    \/ Witness \/ Publish \/ Exit \/ StopLean \/ Report

Next == LeanNext \/ LeanFails \/ GpuLearns \/ CoordinatorNext \/ Die

Spec == Init /\ [][Next]_vars

\* A search takes its next step, the HTTP client gives up in time, and the GPU
\* actor serves what it was sent.  Nobody is obliged to fail or to die.
FairSpec == Spec /\ WF_vars(LeanNext) /\ WF_vars(CoordinatorNext) /\ WF_vars(GpuLearns)

-----------------------------------------------------------------------------
(* What the protocol is for.                                               *)

\* The search and the updates of its model alternate: no update reaches the GPU
\* while Lean asks for generations or values, not even one whose answer the
\* coordinator gave up on, and a search that goes on after a checkpoint counts
\* exactly the updates its model has had.
Barrier == INSTANCE SearchBarrier WITH
    phase <- IF phase \in Searching THEN "search" ELSE IF phase = "wait" THEN "barrier" ELSE "over"
UpdatesAtBarriers == Barrier!Spec

\* Once a request was saved whose outcome the coordinator does not know, Lean
\* never searches again: nothing is resubmitted and nothing built on a guess.
UnknownUpdateEndsSearch == Len(requests) > version => phase \notin Searching

\* An update is made from the tree of its own checkpoint: its node was backed up
\* in the iteration that ended there, and the visits trained on are all the
\* backups up to then.
TargetsAreFresh ==
    \A q \in {requests[i] : i \in DOMAIN requests} :
        LET seen == {i \in DOMAIN stream : /\ stream[i].kind = "backup"
                                           /\ stream[i].about = q.node /\ stream[i].step <= q.step}
        IN  q.visits = Cardinality(seen) /\ \E i \in seen : stream[i].step = q.step

\* The snapshot after the run is only taken with nothing left open: it holds
\* exactly the updates the coordinator has receipts for, none comes later, and
\* the values of the search were refreshed after each of them.
SealedIsComplete ==
    after # None =>
        /\ after = version /\ applied = version
        /\ Refresh => \A v \in 1..version : \E i \in DOMAIN stream :
              stream[i].kind = "selection_value_refresh" /\ stream[i].about = v

\* The coordinator's checks of the stream never fire against the Lean process it
\* started, whatever fails or times out: the two count versions and steps alike.
NoFalseAlarm == error # "protocol"

\* The run comes to its end on both sides, also when the coordinator dies and
\* leaves Lean behind at a barrier.
SearchEnds == <>(phase \in Over /\ pc \in {"done", "dead"})
=============================================================================
