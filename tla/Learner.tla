------------------------------- MODULE Learner -------------------------------
(***************************************************************************)
(* One learner run: the coordinator of gpu_runtime/learner.py, the         *)
(* publication records of gpu_runtime/release_head.py and the content-     *)
(* addressed store of gpu_runtime/learner_release_store.py.                *)
(*                                                                         *)
(* Every training step is announced in the control log, trained,           *)
(* checkpointed and committed.  Every write may fail or be cut short, a    *)
(* process may die between any two, and several processes may try to own   *)
(* the run.  A file that is cut short can never be read again, so every    *)
(* reader refuses from then on.                                            *)
(*                                                                         *)
(* Content pins are the content.  A checkpoint is the events it was        *)
(* trained on and the sampler after them; a release is the checkpoint its  *)
(* weights were extracted from.  A dataset is one row.  The private        *)
(* journals of a coordinator never decide anything and are left out.       *)
(***************************************************************************)
EXTENDS Integers, Sequences, FiniteSets

CONSTANTS
    Processes,   \* processes that may own the run, each with its GPU runtime
    Datasets,    \* dataset pins
    Seed,        \* the catalog the run starts with
    BatchSize,   \* sampler batch_size
    MaxSteps,    \* bound: training steps
    None

ASSUME RunAssumption ==
    /\ Seed \in Seq(Datasets) \ {<<>>}
    /\ BatchSize \in Nat \ {0}
    /\ MaxSteps \in Nat

VARIABLES
    created,      \* disk: the control directory exists
    torn,         \* disk: a control or publication record is cut short
    intents,      \* disk: intent-N of the control log
    commits,      \* disk: commit-N, the checkpoint of each committed step
    checkpoints,  \* disk: the store
    releases,     \* disk: the store
    enabled,      \* disk: release heads are required (mode.json)
    records,      \* disk: publication intents and confirmations
    staged,       \* disk: publication records written and not linked
    lease,        \* the process that holds the writer lease, or None
    live,         \* processes with a coordinator that is not closed
    blocked,      \* processes whose coordinator is blocked
    memory,       \* what each coordinator remembers
    resident,     \* processes whose GPU runtime has the learner's session
    session,      \* the events that session was trained on
    phase,        \* what each coordinator is about to do next
    job,          \* the event it trains on
    trained       \* history: events some backend was asked to train on

disk == <<created, torn, intents, commits, checkpoints, releases, enabled, records, staged>>
training == <<intents, commits, checkpoints>>
publication == <<releases, records, staged>>
owner == <<lease, live, blocked, memory, resident, session>>
vars == <<created, torn, intents, commits, checkpoints, releases, enabled, records, staged,
          lease, live, blocked, memory, resident, session, phase, job, trained>>

-----------------------------------------------------------------------------
(* Reading the control log and the publication records.                    *)

Count == Len(commits)

NoCheckpoint == [events |-> <<>>, cursor |-> 0, catalog |-> Seed]

\* The last committed checkpoint; before the first step, what a run starts from.
Last == IF commits = <<>> THEN NoCheckpoint ELSE commits[Count]
Parent(n) == IF n = 1 THEN NoCheckpoint ELSE commits[n - 1]

\* read_training_commits: every intent has its commit, and they form a chain.
Resolved == Len(intents) = Count
Chained == \A n \in DOMAIN commits : intents[n].event.step = n /\ intents[n].parent = Parent(n)
Readable == created /\ ~torn /\ Resolved /\ Chained

Announced(n) == [step |-> n, checkpoint |-> commits[n], release |-> None]
Confirmed(n, r) == [step |-> n, checkpoint |-> commits[n], release |-> r]
IntentOf(n) == {r \in records : r.step = n /\ r.release = None}
DoneOf(n) == {r \in records : r.step = n /\ r.release # None}

\* publication_state: one confirmation for each commit but the last, whose
\* publication may be missing, and no other record; a record that was staged
\* and not linked is tolerated only where the caller permits it.
Gapless ==
    /\ \A n \in DOMAIN commits :
          \/ /\ IntentOf(n) = {Announced(n)}
             /\ \E d \in DoneOf(n) : d.checkpoint = commits[n]
          \/ n = Count /\ DoneOf(n) = {} /\ IntentOf(n) \subseteq {Announced(n)}
    /\ \A r \in records : r.step \in DOMAIN commits
HeadReadable(permitted) == enabled => staged \subseteq records \cup permitted /\ Gapless

Pending == enabled /\ Count > 0 /\ DoneOf(Count) = {}
PendingIntent == Pending /\ IntentOf(Count) # {}

PublishedHead ==
    LET n == IF Pending THEN Count - 1 ELSE Count
    IN  IF ~enabled \/ n = 0 THEN None ELSE CHOOSE d \in DoneOf(n) : TRUE

\* _durable_head: every mutation intent on disk is resolved, and c is the head.
HeadIs(c) == Readable /\ HeadReadable({}) /\ ~PendingIntent /\ c = Last

\* Fault for the checks: training goes on above an unpublished commit.
CheckLiveLax(p, unpublished) ==
    /\ p \in live \ blocked
    /\ p \in resident /\ Len(session[p]) = memory[p].step
    /\ HeadIs(memory[p].parent)
    /\ enabled => PublishedHead = memory[p].cache

\* _check_live.
CheckLive(p, unpublished) ==
    /\ p \in live \ blocked
    /\ p \in resident /\ Len(session[p]) = memory[p].step
    /\ HeadIs(memory[p].parent)
    /\ enabled => PublishedHead = memory[p].cache /\ (Pending => unpublished)

Idle(p) == phase[p] = "idle"

-----------------------------------------------------------------------------
(* The sampler.                                                            *)

\* The rows of the catalog in turn, from the cursor on.
BatchOf(catalog, cursor) ==
    [i \in 1..BatchSize |-> catalog[((cursor + i - 1) % Len(catalog)) + 1]]

InCatalog(d, catalog) == \E i \in DOMAIN catalog : catalog[i] = d

\* _prepare_next: the catalog may be extended by datasets it does not have yet.
EventFor(p, appended) ==
    LET catalog == memory[p].catalog \o appended
    IN  [step |-> memory[p].step + 1, catalog |-> catalog,
         batch |-> BatchOf(catalog, memory[p].cursor)]

Appendable(p) ==
    {<<>>} \cup {<<d>> : d \in {x \in Datasets : ~InCatalog(x, memory[p].catalog)}}

\* The snapshot of the session with the receipts of the step.
CheckpointBy(p) ==
    [events |-> session[p], cursor |-> memory[p].cursor + BatchSize,
     catalog |-> job[p].catalog]

\* _validate_checkpoint, against the parent checkpoint.
Extends(c, parent, event) ==
    /\ c.events = Append(parent.events, event)
    /\ c.cursor = parent.cursor + BatchSize
    /\ event.step = Len(parent.events) + 1
    /\ Len(event.batch) = BatchSize
    /\ SubSeq(event.catalog, 1, Len(parent.catalog)) = parent.catalog

-----------------------------------------------------------------------------
(* Writes, and what is left of a write that fails or is interrupted.       *)

\* Fault for the checks: records are not synced, the last one may be lost.
KeptUnsynced(log) == IF Len(log) > Count THEN SubSeq(log, 1, Count) ELSE log

\* _write syncs the file and its directory: no record is lost with the process.
Kept(log) == log

WriteIntent(p) ==
    /\ Len(intents) = job[p].step - 1
    /\ intents' = Append(intents, [event |-> job[p], parent |-> memory[p].parent])
    /\ UNCHANGED <<created, torn, commits, checkpoints, enabled, publication>>

WriteCheckpoint(p) ==
    /\ Extends(CheckpointBy(p), memory[p].parent, job[p])
    /\ checkpoints' = checkpoints \cup {CheckpointBy(p)}
    /\ UNCHANGED <<created, torn, intents, commits, enabled, publication>>

WriteCommit(p) ==
    /\ Count = job[p].step - 1
    /\ commits' = Append(commits, CheckpointBy(p))
    /\ UNCHANGED <<created, torn, intents, checkpoints, enabled, publication>>

WriteRecord(r) ==
    /\ \A q \in records : q.step = r.step => (q.release = None) # (r.release = None)
    /\ records' = records \cup {r}
    /\ UNCHANGED <<created, torn, training, releases, enabled, staged>>

WriteRelease(c) ==
    /\ c \in checkpoints
    /\ releases' = releases \cup {c}
    /\ UNCHANGED <<created, torn, training, enabled, records, staged>>

WriteIsCut == torn' = TRUE /\ UNCHANGED <<created, training, enabled, publication>>

RecordIsStaged(r) ==
    /\ staged' = staged \cup {r}
    /\ UNCHANGED <<created, torn, training, releases, enabled, records>>

RecordIsWritten(r) == WriteRecord(r) \/ RecordIsStaged(r) \/ WriteIsCut

\* What is on disk when p stops in its phase; log is what is left of the intents.
Interrupted(p, log) ==
    \/ /\ intents' = log
       /\ UNCHANGED <<created, torn, commits, checkpoints, enabled, publication>>
    \/ phase[p] = "announce" /\ (WriteIntent(p) \/ WriteIsCut)
    \/ phase[p] = "save" /\ WriteCheckpoint(p)
    \/ phase[p] = "commit" /\ (WriteCommit(p) \/ WriteIsCut)
    \/ phase[p] = "intend" /\ RecordIsWritten(Announced(Count))
    \/ phase[p] = "release" /\ WriteRelease(commits[Count])
    \/ phase[p] = "confirm" /\ RecordIsWritten(Confirmed(Count, commits[Count]))

\* A step that was asked of the backend counts as trained, whatever became of it.
TrainedBy(p) == IF phase[p] = "learn" THEN Append(trained, job[p]) ELSE trained

-----------------------------------------------------------------------------
(* Creating a run, and requiring release heads before its first step.      *)

Fresh == [parent |-> NoCheckpoint, step |-> 0, cursor |-> 0, catalog |-> Seed, cache |-> None]

Create(p) ==
    /\ ~created /\ lease = None /\ p \notin resident
    /\ created' = TRUE
    /\ lease' = p
    /\ live' = live \cup {p}
    /\ memory' = [memory EXCEPT ![p] = Fresh]
    /\ resident' = resident \cup {p}
    /\ session' = [session EXCEPT ![p] = <<>>]
    /\ UNCHANGED <<torn, training, enabled, publication, blocked, phase, job, trained>>

\* The control directory stays, with its identity or without.
CreateFails(p) ==
    /\ ~created /\ lease = None
    /\ created' = TRUE
    /\ torn' \in BOOLEAN
    /\ UNCHANGED <<training, enabled, publication, owner, phase, job, trained>>

MayEnable(p) ==
    /\ Idle(p)
    /\ CheckLive(p, FALSE)
    /\ memory[p].parent = NoCheckpoint /\ memory[p].step = 0

Enable(p) ==
    /\ MayEnable(p)
    /\ ~enabled
    /\ enabled' = TRUE
    /\ UNCHANGED <<created, torn, training, publication, owner, phase, job, trained>>

\* A second attempt fails as well.
EnableFails(p) ==
    /\ MayEnable(p)
    /\ blocked' = blocked \cup {p}
    /\ \/ UNCHANGED <<enabled, torn>>
       \/ ~enabled /\ enabled' = TRUE /\ UNCHANGED torn
       \/ ~enabled /\ torn' = TRUE /\ UNCHANGED enabled
    /\ UNCHANGED <<created, training, publication, lease, live, memory, resident, session,
                   phase, job, trained>>

-----------------------------------------------------------------------------
(* train_next.                                                             *)

Turns(p, next) == phase' = [phase EXCEPT ![p] = next]
Unmoved == UNCHANGED <<owner, job, trained>>

TrainBegin(p) ==
    /\ Idle(p)
    /\ CheckLive(p, FALSE)
    /\ memory[p].step < MaxSteps
    /\ \E appended \in Appendable(p) : job' = [job EXCEPT ![p] = EventFor(p, appended)]
    /\ Turns(p, "announce")
    /\ UNCHANGED <<disk, owner, trained>>

TrainAnnounce(p) == phase[p] = "announce" /\ WriteIntent(p) /\ Turns(p, "learn") /\ Unmoved

TrainLearn(p) ==
    /\ phase[p] = "learn"
    /\ session' = [session EXCEPT ![p] = Append(@, job[p])]
    /\ trained' = TrainedBy(p)
    /\ Turns(p, "save")
    /\ UNCHANGED <<disk, lease, live, blocked, memory, resident, job>>

TrainSave(p) == phase[p] = "save" /\ WriteCheckpoint(p) /\ Turns(p, "commit") /\ Unmoved

\* Memory follows the commit; an error in between leaves it behind and blocks.
TrainCommit(p) ==
    /\ phase[p] = "commit"
    /\ WriteCommit(p)
    /\ memory' = [memory EXCEPT ![p] =
                     [parent |-> CheckpointBy(p), step |-> job[p].step,
                      cursor |-> CheckpointBy(p).cursor, catalog |-> job[p].catalog,
                      cache |-> memory[p].cache]]
    /\ job' = [job EXCEPT ![p] = None]
    /\ Turns(p, "idle")
    /\ UNCHANGED <<lease, live, blocked, resident, session, trained>>

-----------------------------------------------------------------------------
(* publish, with release heads required; and publish_checkpoint.           *)

PublishBegin(p) ==
    /\ Idle(p)
    /\ CheckLive(p, TRUE)
    /\ Pending
    /\ Turns(p, "intend")
    /\ UNCHANGED disk
    /\ Unmoved

\* Nothing to publish: the coordinator blocks.
PublishRefused(p) ==
    /\ Idle(p)
    /\ CheckLive(p, TRUE)
    /\ enabled /\ ~Pending
    /\ blocked' = blocked \cup {p}
    /\ UNCHANGED <<disk, lease, live, memory, resident, session, phase, job, trained>>

PublishIntend(p) ==
    phase[p] = "intend" /\ WriteRecord(Announced(Count)) /\ Turns(p, "release") /\ Unmoved

PublishRelease(p) ==
    phase[p] = "release" /\ WriteRelease(commits[Count]) /\ Turns(p, "confirm") /\ Unmoved

PublishConfirm(p) ==
    /\ phase[p] = "confirm"
    /\ WriteRecord(Confirmed(Count, commits[Count]))
    /\ memory' = [memory EXCEPT ![p].cache = Confirmed(Count, commits[Count])]
    /\ Turns(p, "idle")
    /\ UNCHANGED <<lease, live, blocked, resident, session, job, trained>>

\* Any stored checkpoint, committed or not, by whoever can read the store; also
\* the coordinator's publish where release heads are not required.
PublishCheckpoint(c) == WriteRelease(c) /\ UNCHANGED <<owner, phase, job, trained>>

PublishPlainFails(p) ==
    /\ Idle(p)
    /\ CheckLive(p, TRUE)
    /\ ~enabled
    /\ blocked' = blocked \cup {p}
    /\ UNCHANGED <<disk, lease, live, memory, resident, session, phase, job, trained>>

-----------------------------------------------------------------------------
(* Failure, close, death and restore.                                      *)

\* Fault for the checks: an error does not block the coordinator.
BlockedNever(p) == blocked

BlockedBy(p) == blocked \cup {p}

Fails(p) ==
    /\ ~Idle(p)
    /\ Interrupted(p, intents)
    /\ trained' = TrainedBy(p)
    /\ blocked' = BlockedBy(p)
    /\ job' = [job EXCEPT ![p] = None]
    /\ Turns(p, "idle")
    /\ UNCHANGED <<lease, live, memory, resident, session>>

Close(p) ==
    /\ Idle(p)
    /\ p \in live
    /\ lease' = None
    /\ live' = live \ {p}
    /\ blocked' = blocked \ {p}
    /\ memory' = [memory EXCEPT ![p] = Fresh]
    /\ UNCHANGED <<disk, resident, session, phase, job, trained>>

\* "Caller explicitly manages GPU state."
DropSession(p) ==
    /\ p \in resident \ live
    /\ resident' = resident \ {p}
    /\ session' = [session EXCEPT ![p] = <<>>]
    /\ UNCHANGED <<disk, lease, live, blocked, memory, phase, job, trained>>

\* The operating system drops the lease with the process.
Crash(p) ==
    /\ p \in live \cup resident
    /\ Interrupted(p, Kept(intents))
    /\ trained' = TrainedBy(p)
    /\ lease' = IF lease = p THEN None ELSE lease
    /\ live' = live \ {p}
    /\ blocked' = blocked \ {p}
    /\ memory' = [memory EXCEPT ![p] = Fresh]
    /\ resident' = resident \ {p}
    /\ session' = [session EXCEPT ![p] = <<>>]
    /\ job' = [job EXCEPT ![p] = None]
    /\ Turns(p, "idle")

Resumed(c) ==
    [parent |-> c, step |-> Len(c.events), cursor |-> c.cursor, catalog |-> c.catalog,
     cache |-> PublishedHead]

\* What restore asks of the disk.
Restorable(c) ==
    /\ c \in checkpoints
    /\ HeadIs(c)
    /\ PublishedHead # None => PublishedHead.release \in releases /\ PublishedHead.release = PublishedHead.checkpoint

\* A restore that fails deletes the session again and changes nothing.
Restore(p, c) ==
    /\ lease = None /\ p \notin resident
    /\ Restorable(c)
    /\ lease' = p
    /\ live' = live \cup {p}
    /\ memory' = [memory EXCEPT ![p] = Resumed(c)]
    /\ resident' = resident \cup {p}
    /\ session' = [session EXCEPT ![p] = c.events]
    /\ UNCHANGED <<disk, blocked, phase, job, trained>>

-----------------------------------------------------------------------------
(* reconcile_published: offline, under the lease.                          *)

\* The pending intent, and a release of the very checkpoint it names.
Confirmable(r, i) ==
    /\ PendingIntent
    /\ i \in IntentOf(Count)
    /\ i.checkpoint = r /\ i.step = Len(r.events)

Reconcile(r) ==
    /\ lease = None
    /\ r \in releases
    /\ Readable
    /\ \E i \in records :
          /\ Confirmable(r, i)
          /\ HeadReadable({[i EXCEPT !.release = r]})
          /\ RecordIsWritten([i EXCEPT !.release = r])
    /\ UNCHANGED <<owner, phase, job, trained>>

-----------------------------------------------------------------------------
Init ==
    /\ created = FALSE /\ torn = FALSE
    /\ intents = <<>> /\ commits = <<>>
    /\ checkpoints = {} /\ releases = {}
    /\ enabled = FALSE /\ records = {} /\ staged = {}
    /\ lease = None /\ live = {} /\ blocked = {}
    /\ memory = [p \in Processes |-> Fresh]
    /\ resident = {}
    /\ session = [p \in Processes |-> <<>>]
    /\ phase = [p \in Processes |-> "idle"]
    /\ job = [p \in Processes |-> None]
    /\ trained = <<>>

Train(p) == TrainBegin(p) \/ TrainAnnounce(p) \/ TrainLearn(p) \/ TrainSave(p) \/ TrainCommit(p)

Publish(p) ==
    \/ PublishBegin(p) \/ PublishRefused(p)
    \/ PublishIntend(p) \/ PublishRelease(p) \/ PublishConfirm(p)
    \/ PublishPlainFails(p)

Next ==
    \/ \E p \in Processes :
          \/ Create(p) \/ CreateFails(p) \/ Enable(p) \/ EnableFails(p)
          \/ Train(p) \/ Publish(p)
          \/ Fails(p) \/ Close(p) \/ DropSession(p) \/ Crash(p)
          \/ \E c \in checkpoints : Restore(p, c)
    \/ \E c \in checkpoints : PublishCheckpoint(c)
    \/ \E r \in releases : Reconcile(r)

Spec == Init /\ [][Next]_vars

-----------------------------------------------------------------------------
(* Properties.                                                             *)

Catalog == Seq(Datasets) \ {<<>>}
Event == [step: 1..MaxSteps, catalog: Catalog, batch: Seq(Datasets)]
Checkpoint == [events: Seq(Event), cursor: Nat, catalog: Catalog]
Record == [step: 1..MaxSteps, checkpoint: Checkpoint, release: Checkpoint \cup {None}]
Memory ==
    [parent: Checkpoint, step: 0..MaxSteps, cursor: Nat, catalog: Catalog,
     cache: Record \cup {None}]

\* None is no process and nothing that is ever stored.
ASSUME NoneAssumption == None \notin Processes /\ None \notin Checkpoint \cup Event

Phases == {"idle", "announce", "learn", "save", "commit", "intend", "release", "confirm"}

DiskTyped ==
    /\ created \in BOOLEAN /\ torn \in BOOLEAN /\ enabled \in BOOLEAN
    /\ intents \in Seq([event: Event, parent: Checkpoint])
    /\ commits \in Seq(Checkpoint)
    /\ checkpoints \subseteq Checkpoint /\ releases \subseteq checkpoints
    /\ records \subseteq Record /\ staged \subseteq Record

OwnerTyped ==
    /\ lease \in Processes \cup {None}
    /\ live \subseteq Processes /\ blocked \subseteq live /\ resident \subseteq Processes
    /\ memory \in [Processes -> Memory]
    /\ session \in [Processes -> Seq(Event)]
    /\ phase \in [Processes -> Phases]
    /\ job \in [Processes -> Event \cup {None}]

\* Every variable has its type.
TypeOK == DiskTyped /\ OwnerTyped /\ trained \in Seq(Event)

\* "It never retries an uncertain training operation": no step of the run is
\* trained twice, by one process or by two, over failures, deaths and restores.
NeverTrainedTwice ==
    \A i, j \in DOMAIN trained : trained[i].step = trained[j].step => i = j

\* Between two operations a coordinator that is not blocked agrees with the disk:
\* its own checks of head, step and published release never refuse.
HealthyAgreesWithDisk ==
    \A p \in live \ blocked :
        Idle(p) =>
            /\ HeadIs(memory[p].parent)
            /\ p \in resident /\ session[p] = Last.events
            /\ memory[p].step = Count
            /\ memory[p].cursor = Last.cursor /\ memory[p].catalog = Last.catalog
            /\ memory[p].cache = PublishedHead

\* A run that no one owns and where nothing was left unresolved can be resumed
\* from its head: the checks of restore refuse for no other reason.
ResolvedCanResume ==
    (/\ created /\ ~torn /\ lease = None
     /\ Resolved /\ Count > 0
     /\ ~PendingIntent /\ staged \subseteq records)
    => Restorable(Last)

\* The checks of the control log fail closed, and never on what the code itself has
\* left behind: a coordinator that is not blocked goes on, and a run whose
\* operations were all resolved is resumed, whatever failed before.
ChecksNeverRefuse == HealthyAgreesWithDisk /\ ResolvedCanResume

Line == INSTANCE ReleaseLine WITH
    Updates <- Event,
    line <- Last.events,
    released <- Cardinality({d \in records : d.release # None}),
    strict <- enabled

\* The run implements the line of releases.
KeepsTheLine == Line!Spec
=============================================================================
