# A TLA+ model of the online prover runtime

This directory specifies the runtime under
`src/v1-result/20260828-real7b-pell-success/code`: the programs that search for
Lean proofs with a policy model, train that model on what the search finds, and
do both over process deaths, failed writes and lost answers. The specifications
follow the code; each definition that stands for code is listed in `PROJECT.json`
under `map` with the file and the lines it stands for. Paths below are relative to
that `code` directory; the Lean search it patches is
`src/new-v1-gather-source-code-cpu/reap-upstream` (`reap/` below).

Contents: the system and its components, the modules, what each run shows, what is
proved, what is observed, what is left out, and the plan.

---------------------------------------------------------------------------

## 1. The system

A GPU process keeps sessions: an adapter on the device, a policy version and the
receipts of the events it learned. CPU processes search for proofs against those
sessions, verify what they find and decide what to try next. What must survive is
written to append-only directories: a record is staged, linked under its final
name, and never changed.

```
   Matchmaker  <------  CollectorBatch  ------>  verifier (external)
  (what to try)          (who runs it)
                              |  search, retire
        released_attempts     v
   Learner  <--- reads --  replica router  --->  GPU server -> GpuActor -> GpuRuntime -> backend
 (releases weights)                                               ^
   verified collector (fixed model) ------------------------------+
   online batch, course driver --> online coordinator ------------+
                                   (learns while Lean searches)
```

| Component | State it keeps | Operations | What makes it correct |
|---|---|---|---|
| **Durable scheduler** `cpu_runtime/matchmaker.py` | numbered event files; in memory the attempts, results, history, settled families, budget | `open`, `plan_next`, `reserve`, `record_result`, `close` | an attempt is handed out once over all processes; budget and slots are kept; a log that was written can be opened again; nobody starves |
| **GPU session runtime** `gpu_runtime/runtime.py`, `session_store.py`, `real_backend.py`, `snapshot_store.py`, `experience_store.py` | resident, quarantined and retired sessions; versions and receipts; adapters; snapshots, experiences and retirement records on disk | create, sample/score, learn, snapshot, restore, delete, retire, publish experience | parameters are what the receipts tell of; capacity is kept over half-failed operations; retirement loses nothing and its records are true whenever they are read |
| **GPU actor** `gpu_runtime/actor.py` | FIFO queue, closed flag, one worker, counters | `submit`, `close`, `metrics` | one item at a time in order; accepted work is answered; close returns |
| **Learner** `gpu_runtime/learner.py`, `release_head.py`, `learner_release_store.py` | control log of intents and commits, checkpoints, releases, publication records, writer lease | create, enable, train, publish, restore, reconcile, close | no step trained twice; commits are one history; releases follow them in order |
| **Collector batch** `cpu_runtime/collector_batch.py` | two kinds of worker slots, a hand-over queue, records for each attempt | `run_collector_batch` | no callback twice; slots bound GPU sessions; what is settled can be audited; the run ends |
| **Release provider** `cpu_runtime/released_attempts.py` | none of its own; the selection beside each attempt | reserve an attempt under the learner's lock | the attempt is reserved under the release that is latest, and searched with the source prepared for it |
| **Replica router** `cpu_runtime/replica_collector.py` | which attempt holds which replica; routes and retirements on disk | search, retire, restore | one attempt for each replica; a replica is free only after its retirement is on disk |
| **Verified collector** `cpu_runtime/verified_collector.py`, `Reap/VerifiedCollector.lean` | one fixed-policy session, its observer's stream, acknowledgements, tree and result | run, accept a record, classify | each iteration is accepted before the next one begins; what is reported is what happened |
| **Online coordinator** `cpu_runtime/online_ttt.py`, `Reap/Training/Observer.lean` | policy version, pending refresh, nodes and visits trained on; stream and acknowledgements | accept a record of the search, update, refresh, run | an event is submitted at most once; search and updates alternate; both sides count alike |
| **Online batch** `cpu_runtime/online_batch.py` | intents, terminal file, retirement records, a thread pool | run, recover, retire | a session is run once; a restart continues where it was; places bound sessions |
| **Course experiment** `experiments/proof-curriculum/runner/` | an operation directory for each phase of each lesson, import markers, published experiences | preflight, run, export and import of verifications, import of replays | one thing at a time, each call once; a lesson inherits only what was proved and trained |
| **Tree search** `reap/Tactic/TreeSearch.lean` with `patches/0002`, `patches/0004` | an AND/OR tree with flags, visits, values and selection values; the path of an iteration | select, visit, expand, back up, refresh, replay | flags agree with the tree at every checkpoint; only open work is searched; selection is led by one version of the model; a solved tree can be replayed |
| Others | see `components` in `PROJECT.json` | | |

How they interact: the collector batch calls the scheduler in its main thread only,
and the search, retire and verify callbacks in worker threads; the HTTP server
(`gpu_runtime/server.py`, stateless) turns requests into calls of `GpuActor.submit`,
so all operations of the session runtime but one are serial - the exception is
`retirement_receipt`, which reads the disk at once; the learner reaches its session
through that same actor; the release provider takes the learner's lock in the process
of the scheduler. A search callback is one session of the verified collector, a thread
of the online batch one session of the online coordinator; both start a Lean process
and speak with it through an append-only stream and acknowledgement files. Inside that
process runs the tree search: its checkpoints are the records of the stream, and the
version it reads after a checkpoint is the one acknowledged. The course
driver calls the online coordinator, the verifier and the session runtime one after the
other, each between an intent and a completion.

What is hard:

* **failure between two writes.** Every component has places where a write raised and
  its record is there all the same. The code answers with refusal: the scheduler and
  the learner's coordinator stop, the collector settles as unknown, the session is
  quarantined. The question is always whether what refuses is enough and whether what
  is left can be explained later;
* **deaths.** Scheduler, collector, router and learner are started again on what is on disk, and so are the online batch and the course;
* **races.** Two callers plan at the same head; submit races close; a worker sets the
  stop event while the main thread dispatches; two processes restore one learner run;
  retirement records are read in the middle of a retirement; the learner publishes while
  a source is prepared outside its lock;
* **answers that never came.** An update may have been applied although the caller saw
  a failure. Nothing in this system may try it again;
* **two processes, one protocol.** Lean and its coordinator count iterations and policy
  versions each for itself and see each other through files only; either may raise, time
  out or be killed between any two of them;
* **flags that travel.** In the search a proof found at a leaf is known at the root only
  after every node between was backed up, and nodes are merged, split and visited again
  meanwhile;
* **limits.** Slots, replicas, pending validations, budgets, the fairness window.

The hazards are listed with their lines in `PROJECT.json`, each with the properties
that cover it.

---------------------------------------------------------------------------

## 2. The modules

| Module | Role |
|---|---|
| `AttemptLedger` | abstract: numbered attempts, granted in order beside nothing unknown and nothing lost, each with one result |
| `Matchmaker` | the scheduler, its log, and the process that dies and replays it; implements `AttemptLedger` |
| `GpuRuntime` | the session runtime, its backend and its disk |
| `GpuActor` | the actor and the threads that call it; refines `SerialService` |
| `SerialService` | abstract: requests are served one at a time, in order, none after close |
| `Learner` | one learner run, its coordinator(s) and its disk; refines `ReleaseLine` |
| `ReleaseLine` | abstract: a line of steps that only grows, released in order |
| `CollectorBatch` | the batch executor with its threads, and the scheduler behind four calls; keeps to `AttemptLedger` |
| `SessionSlots` | abstract: one session for an attempt, no more sessions than slots |
| `ReplicaRouter` | the router with its threads and its disk; refines `SessionSlots` |
| `ReleasedAttempts` | the provider and the dispatch around the scheduler, composed with `Matchmaker` (which it extends) and with a learner that keeps `ReleaseLine` |
| `SearchBarrier` | abstract: search and updates of its model alternate |
| `OnlineTTT` | training inside one search: Lean, coordinator, GPU session; refines `SearchBarrier` |
| `OnlineBatch` | sessions of online training in parallel, their records and retirements, deaths and restarts |
| `CollectorSession` | one search with a fixed release: Lean, its collector, and what is made of the end |
| `TreeSearch` | the search for one proof: the AND/OR tree, its iterations, the refresh of selection values, the replay |
| `CourseDriver` | the teacher course: lessons, operations, exchange with the verifier, publication |
| `MCMatchmaker`, `MCGpuRuntime`, `MCGpuActor`, `MCLearner`, `MCCollectorBatch`, `MCReplicaRouter`, `MCReleasedAttempts`, `MCOnlineTTT`, `MCOnlineBatch`, `MCTreeSearch` | small instances for TLC; `CollectorSession` and `CourseDriver` are run as they are |
| `MatchmakerProofs` | theorems and proofs about `Matchmaker` and `ReleasedAttempts` |
| `GpuProofs` | about `GpuRuntime` and `GpuActor` |
| `LearnerProofs` | about `Learner` |
| `CollectorBatchProofs` | about `CollectorBatch` |
| `CollectorProofs` | about `ReplicaRouter` and `CollectorSession` |
| `OnlineProofs` | about `OnlineTTT` and `OnlineBatch` |
| `CourseDriverProofs` | about `CourseDriver` |
| `TreeSearchProofs` | about `TreeSearch` |

Two components whose proofs share a module share no names, so that the proof module can
extend both: the actor has `ActorInit`, `ActorNext`, `ActorSpec` and `Sentinel`, the online
batch `BatchInit`, `BatchNext`, `BatchSpec` and `NoJob`, the collector session
`SessionInit`, `SessionNext`, `SessionSpec` and `Absent`, where their partners have `Init`,
`Next`, `Spec` and `None`.

Definitions with the comment *Fault for the checks* are wrong variants of the
definition that follows: with one of them in its place TLC finds the property broken
that `PROJECT.json` names under `mutants`. They are used nowhere else.

### Matchmaker

The durable state is `events` (the files, in order) and `staging` (whether a staged
file lies beside them). `phase` is the life of the writer: *down*, *opening* (it
replays one event file in each step, validating it against the memory built so far),
*live*, *poisoned* (a publication failed, every further call raises). The memory
variables bear the names of the code's attributes. `PlanNext` and `Reserve` are two
steps because a caller does other things in between; `ReserveStale` is the proposal
that no longer fits. Publication has three outcomes: the event is linked and applied
(`Published`), nothing is linked (`PublishFails`), or it is linked and the call
raises all the same (`PublishFails` again); the last is what makes `open` interesting.
Planning is one pure operator, `Plan(release)`, used by the live call and by the
replay as in the code.

Abstracted: the hash that chains events (the number of events stands for the head);
evidence of a result (the outcome only); the seeded polarity and tie-breaking hash
(constants); the curriculum's own validation (assumptions on the constants).

Two ways of saying what the scheduler promises stand beside the model. `MemoryIsLog` tells
each part of the memory from the log as a whole - the attempts are the intents in their
order, a problem's history its known results in theirs, the reserved budget the sum of the
intents' budgets, a verdict an accepted result - where the code applies one event after the
other. `KeepsLedger` is the refinement of `AttemptLedger`: `OnRecord` is what the whole log
says of each attempt (also of an event whose publication raised), `InHand` the attempts
without a result that this process handed out. A process that reserves while a recovered
attempt has no result, an outcome is unknown, or the log is ahead of its memory takes a
step the ledger has not.

### GpuRuntime

An operation is one step because the actor serialises them. Retirement is four steps
(`Retire`/`RetireReusing`, `RetirePrepare`, `RetireRelease`, `RetireConfirm`) because
`retirement_receipt` reads between them, and because it may fail between them. The
backend's own table (`entries`) and what is allocated on the device (`adapters`) are
kept apart: creation may fail after allocating, cleanup may fail after the entry is
gone. The parameters of a session are what they were initialised from, the events
learned in order, the random draws consumed, and whether an update was torn; its
logical state holds version, receipts and the pending event as the code does. The
SnapshotStore, ExperienceStore and retirement records are sets on disk. The process
is not restarted: a new one uses a new run root (docstring of `retire_session`).

Abstracted: tensors, prompts, metrics; the numeric revision that ties a reuse witness
to a session (everything that changes the revision drops the witness in the same
call); the base-model release a session may start from is given.

### GpuActor

`Submit`, `Refuse`, `Return` are a calling thread; `Close`, `Joined` a closing one;
`Take`, `Start`, `Run`, `Count`, `Signal` the worker. Each is what happens under one
acquisition of the lock or between two. The abstract service sees a request begin when
it is counted as started and end when the function has returned.

### Learner

The disk variables are the control log (`intents`, `commits`), the stores
(`checkpoints`, `releases`), and the publication records (`records`, and `staged` for
those written and not yet linked). Any write may be cut short (`torn`): the code's
readers refuse such a directory, so nothing continues, which is exactly what the
properties have to survive. `lease` is the writer lease; a process that dies loses it
and its GPU session. Training is five steps (`TrainBegin`, `TrainAnnounce`,
`TrainLearn`, `TrainSave`, `TrainCommit`), publication four; each may raise (`Fails`),
after which the coordinator is blocked.

Abstracted: a content pin is the content, so a checkpoint is the list of events it was
trained on; a dataset is one row; `previous_head` is left out because file numbers
order the records; the private journals of a coordinator never decide anything; a
session is reached only through its coordinator.

### CollectorBatch

The main thread is a loop over `validations`, `searches`, `dispatch` (variable `at`),
with `settle` and `record` for the two writes of a settlement and `prepare`,
`reserve`, `create` for those of a dispatch. The thread of an attempt goes through
`search`, `retire`, `verify`, or to `diagnose` when anything raises; its step is the
return of a callback together with the records written until the next call. The
scheduler is seen through status, plan, reserve and record_result, with the failures
of `Matchmaker`: an event may be linked although the call raised. `Start` audits the
directory as the code does; `Crash` may happen anywhere and leaves the GPU sessions.

Abstracted: one batch directory for each scheduler; the content of the diagnostic
files, of the dispatch-failure files and of the metrics; the release provider (the
plain `provide_release` path is modelled, `ReleasedAttempts` has the other). `Faulty` bounds which attempts meet
failing callbacks and writes.

### ReplicaRouter

`pool`, `folders`, `records` and `orphans` are the pool's directory; `router`,
`blocked`, `routes`, `active`, `retiring` are the object's attributes. What the lock
covers is one step (`Admit`, `RetireBegins`, `Release`, `Fail`); the release validation
before the lock, the search callback and the request to the GPU process lie between
steps, so anything may happen there: another thread takes the last replica, an
attempt fails, the router is closed. `sessions` is the GPU side. A callback that
raises leaves a session or not; a request without a confirmed answer was carried out
or not; a write that raises may have linked the record, left a staged file or done
nothing. The records of an attempt say nothing against opening the pool again exactly
when they are the four of a retired attempt.

Abstracted: pins, the content of intents and answers, which release an attempt uses
(a call with an invalid intent or release changes nothing). A router that is closed
and one opened after it in the same process are treated as two lives: the old threads
cannot write any more, and a pool with work under way does not open.

### ReleasedAttempts

The module extends `Matchmaker` and leaves its variables to its actions: `Reopen`,
`Settle`, `ReserveSelected` and `Die` contain the scheduler's steps, the others leave it
unchanged, so every behaviour of the composition is one of the scheduler
(theorem `Composes`). What is added is the learner as `ReleaseLine` promises it
(`trained`, `released`, whether release heads are required, whether an intent is
unresolved), its lock, and where each caller is in a dispatch: propose under the lock,
prepare the source outside it (`Select` is the end of that and the second acquisition),
reserve, write the selection, hand the attempt to a search. A caller may give up
anywhere; the process may die anywhere, also inside a training step.

### OnlineTTT and SearchBarrier

Lean (`phase`, `step`, `known`, `fresh`) appends records to `stream`; the coordinator
(`pc`, `cursor`, `version`, `backedUp`, `consumed`, `pending`) reads them behind it and
writes `acks`; the learn call is on the `wire` and may be applied after the coordinator
gave up on it. `Accept` is one record of the stream with the checks of `_validate`;
`AcceptCheckpoint` chooses among passing, refusing, and sending an update for the
deepest trainable node; `LearnReturns`, `LearnFails`, `Witness`, `Publish` are the rest
of that handler, one step up to each place where something outside may happen.
The tree is seen through which nodes were backed up and how often.

### OnlineBatch

`Start` reads the disk as `run_batch` does: complete sessions without a line in the
terminal file, sessions without a retirement, and entries not attempted. `AppendLine`,
`WriteRetirement` and `CallRetire` are the steps of recording and of retirement and may
each fail; `Submit`, `Wait`, `Settle` are the loop, `Escape` is where an exception leaves
it, `Begin` and `End` are a thread of the pool; `entries` is the code's `pending`.
`BatchDies` may happen anywhere, `Deaths` times. What a session leaves behind is one of
complete, unfinished, nothing.

### CollectorSession

Lean's process goes through contract, handshake, search, wait, export, conclude, close;
its collector through create, start, poll, classify, propose, stop, report. The stream
holds records with their kind, iteration and whether the root is solved. `Accept` writes
the acknowledgement before the record counts, and may raise in between, as
`atomic_new_json` may. `Raises` is an exception in Lean, `Killed` and `StopLean` its
death, which may cut short whatever it was writing; `Die` is the end of the collector,
whose Lean process lives on in a session of its own. `Classified` is
`classify_terminal`.

Abstracted: selections and backups, which only advance the sequence; identities,
versions and distances, which the collector itself hands to Lean; the planning of the
success path is one step that may raise (`Propose`).

### TreeSearch

`nodes` is the code's array: goals, kind, whether the node is the proof of one focused
goal, the solved flag, visits, evaluations, and the children with the tactic of each edge.
The recursion of `reapMCTSStep` is `path`: `Select` is one level of the descent, `Visit`
the end of it with the question to the model, `Try` one proposed tactic that ran (new
child, merged child, or a state already on the path), `EndVisit` the flag set when the
tactics are through, `Backup` one return of the recursion. At `AtBarrier` the checkpoint
is observed; then the search is solved, goes on (`Continue`), or, when the version read is
one more, refreshes the selection values: `StartRefresh`, `RefreshNode` from the last
node to the first, `Adopt` for the whole array at once. `Raise` may come anywhere.
`Replay` is `replaySolvedNode` with the final check of the proof.

Abstracted: scores are left open, so any child may be the best and any OR node may be due
another sample; what is kept of them is that a solved child of an AND node scores least. A
value is the set of model versions whose answers went into it (`used` for the sums,
`sel` for the selection value). What a tactic does to a goal is a constant table
(`Results`), which goals contain metavariables (`Coupled`) and which tactics the kernel
rejects (`Unsound`) are sets. Premises, priors, prompts, progress and rendering are left
out, and so is what a rejected tactic leaves in the log.

### CourseDriver

The disk has an operation for each phase of a lesson (`ops`), the results of searches,
and the files of the exchange; `state()` is the pure part (`Proved`, `Trained`, `Ready`,
`Terminal`, `Source`, `Consistent`, `Accepted`), evaluated at the start of each command.
`run` holds the command that has the lock: which phase it is in, and whether it is
before the intent, inside the remote call, or between. `Perform` writes the intent, one
action for each phase is the call with its outcomes, `Dies` the end of the process
inside it. A search is one step with any result (`OnlineTTT` is what happens in it); of
the GPU process the sessions, candidates and experiences of the course are kept.
`inspect` and `status` only read and are left out; checks of hashes and pins pass.

---------------------------------------------------------------------------

## 3. The runs

| Run | Instance | Shows |
|---|---|---|
| `Matchmaker` | 2 callers, 3 problems in 2 families (one a variant of a target), 5 attempts, 6 steps of budget, 2 slots, fairness window 1; any publication may fail and the process may die anywhere | budget, slots and single durable dispatch, replay accepts every log and the memory is what the log says as a whole, families settle once, refinement of `AttemptLedger` (lost work freezes dispatch), an overdue problem is overtaken at most once by each other |
| `GpuSession` | 2 sessions of 2 theorems, learner and actor identities, 1 foreign allocation, 1 slot; repeated event ids, 2 updates, 1 draw, 1 snapshot name, 1 experience | capacity, truthful retirement records, parameters are what the receipts say and a published experience has those of its completed source, retirement saves the last state |
| `GpuActor` | 3 submits, 2 closes, fair | refinement of `SerialService`; accepted work is answered and close returns |
| `Learner` | 2 processes, 3 steps, a catalog that may grow by 1 dataset, batch of 2 | no step trained twice, coordinators agree with the disk, resolved runs resume, refinement of `ReleaseLine` |
| `CollectorBatch` | 3 attempts, 2 search slots, 2 pending validations, failures of 1 attempt, fair | slots bound sessions, callbacks called once, at most one late dispatch, settled attempts auditable, refinement of `AttemptLedger` over what the scheduler has on record and what is in a stage, every run returns |
| `ReplicaRouter` | 3 attempts, 3 threads, 2 replicas; any callback, write or answer may fail, the process may die | one session for a replica, single submission over all lives, unknown outcomes stop dispatch, a quiet router can be opened again, refinement of `SessionSlots` |
| `ReleasedAttempts` | 2 callers, 2 problems, 3 attempts, 2 releases | attempts are reserved under the latest release and searched with their own source |
| `OnlineTTT` | 2 iterations, 2 nodes, 2 updates, refresh, a snapshot at the second update; either side may fail, time out or die; fair | unknown updates end the search, targets are fresh, a sealed run is complete, no false alarm, refinement of `SearchBarrier`, both sides end |
| `OnlineBatch` | 3 sessions, 2 places, retirement, 2 deaths, fair | sessions run and are retired once and only when recorded, places bound sessions, a clean run is complete, every start returns |
| `CollectorSession` | 3 iterations, 2 candidates each; either side may fail or be killed anywhere | iterations are accepted in step, a known outcome is the outcome |
| `TreeSearch` | 4 iterations, 4 goals, 3 tactics of which one leaves a hole, 2 tactics per answer, 8 nodes before the search stops, 2 updates of the model | what a checkpoint says of the tree is true and a solved root can be replayed, only open work is searched, selection is led by the current model |
| `CourseDriver` | 3 lessons, 1 update each, all eight modes, fair | one thing at a time, what is published is proved and complete, no state of its own making is refused, the course ends |

**Why the bounds are enough.** The scheduler's decisions depend on availability, on
priority classes and on the window: three problems of which two share a family
produce every class, five attempts let a family settle while another of its attempts
is in flight and a problem become overdue, and six steps of budget with costs of one to
three make the budget bite. The session runtime has no interaction of more than two
sessions apart from counting slots: two sessions and a foreign allocation compete for
one slot, two sessions exchange an experience; two updates give version 0, 1, 2, so that
a repeated id and a rollback over an update occur; a conflicting body under a
repeated id is left to the theorem `ParametersAccounted`, which holds for any events; one snapshot
name suffices for the model checker because names do not interact, and the theorems
hold for any number of names and slots. For the actor, three requests are one more than
a queue needs to show reordering. Three steps of a learner are the first at which a gap
*below* the last step can exist. In the collector, three attempts are one more than
there are search slots; likewise three threads send three attempts to two replicas, and
three sessions share two places of the online batch, where the second death can hit the
recovery from the first. Two callers of the provider are enough for one to publish
behind the other's back together with the learner, two releases for the choice to be
wrong. Two iterations of an online search have a node that was backed up only in the
first, and a second update that follows a refresh; three of a fixed one have a first, a
middle and a last. Of three lessons the second has both a predecessor and a successor,
and the third may inherit past a second that published nothing. The table of the tree
search has every case the code distinguishes: a goal that splits, one that does not
because of a shared metavariable, a way back to a state on the path, two tactics with the
same result, a second split inside the first and a hole closed under it; four iterations
are enough to solve both goals of a split and to enter the split again in between, and
two updates to refresh values that were refreshed before.

`MaxUpdates`, `MaxDraws`, `MaxSteps`, `MaxAttempts`, `Deaths`, `Faulty`, `Width` and
`MaxVersion` are bounds (`MaxSteps` of the tree search is a parameter of the code);
`max_attempts` is also a parameter of the scheduler. Symmetry is used for callers,
sessions, processes and the attempts of the router, in runs that check no liveness:
nothing tells them apart.

**Deadlock.** It is not checked where the system may really stop: every schedule
spends its attempts and its budget; a runtime whose slots are all quarantined accepts
no session and nobody has to call; a closed actor has nothing to do; a learner run
that is torn stays so; a batch that ended uncertain never starts again, nor does a
pool with an unknown outcome; a tree search ends.

**Fairness.** A `FairSpec` is stated where liveness is checked; nobody is ever obliged
to fail, to die or to call.
* `GpuActor`: weak fairness of the worker and of the return of each waiting call, that
  is, threads run and the functions given to `submit` return.
* `CollectorBatch`: weak fairness of the main thread and of each worker thread, which
  contains that callbacks return or raise - the docstring of `run_collector_batch`
  requires that of its adapters ("Adapters must impose their own safe I/O deadlines"). A
  weakly fair main thread suffices because its loop is a cycle of steps each of which
  stays enabled until taken.
* `OnlineTTT`: weak fairness of Lean's steps (they contain the timeout of the barrier),
  of the coordinator (its polling loop and an HTTP client with a timeout) and of the GPU
  session, which serves what it was sent.
* `OnlineBatch`: weak fairness of the main thread and the pool together; that a search
  ends is `SearchEnds` of `OnlineTTT`. Starting the batch again is not fair.
* `CourseDriver`: a command that runs goes on (weak); the operator gives a command that
  is possible again and again (strong, since a command that raises at its gate is given
  again after the others); the exports and the verifier's checks are carried out (weak).

`OverdueNotStarved` of the scheduler is a safety property: overtaking is counted in a
history variable, so no fairness is needed.

---------------------------------------------------------------------------

## 4. What is proved

All proofs are for every value of the constants that satisfies the modules'
assumptions: any curriculum, capacity, number of threads.

**Scheduler** (`MatchmakerProofs`, from `CurriculumAssumption`, `ConfigAssumption`,
`NoneAssumption`: `None` is no outcome, polarity or verdict). `MemoryStep` says a step leaves the memory alone, resets it, or
applies one event that was valid in it; the invariants are proved over these three
cases instead of over all actions, so replay is covered by the same argument as live
operation.
* `TypeCorrect`, `BudgetNeverExceeded`: an intent is valid only if its budget fits.
* `InflightSafe`: inductive as it stands, with the problems in flight finite. With
  `BudgetNeverExceeded` and `DispatchedOnce` it gives `AdmissionSafe`.
* `PendingAlwaysAccounted`: every attempt without a result belongs to this process or
  to `recovered`; `LostWorkNeverOvertaken` follows, since a blocked scheduler reserves
  nothing.
* `DispatchedOnce`: needs `LogApplied` - the memory has taken a prefix of the log, all
  of it while live, and every number in that prefix is one the sequence has passed - so
  the number of a new intent was never sent.
* `LogIsTold` is the invariant about the *content* of the log. `LogTold`: the memory is
  what the events taken so far say (`IntentsTold`, `AttemptsTold`, `ResultsTold`,
  `OpenFamilies`, `DispatchesTold`), at every point of a replay as well. `LogShape`: the
  intents have different numbers and each result has its intent (`Numbering`), after a
  settling result its family is left alone (`SettledAlone`), and a problem passed while
  overdue has been overtaken by one problem more than it was passed (`PassedCounted`).
  A published event was valid in a memory that had taken the whole log; that carries
  `LogShape` over each publication. `FamilySettled` and `NotStarved` follow, the second
  by counting overtakers among the other problems.
* `ReplayAccepts`: with the log goes one course of memories, from the empty one, each event
  valid where it is applied (`Course`); a serving or replaying process is on it
  (`MemoryReplays`). Memory records are compared through an instance of the rules at a
  given memory (`At(m)`); `recovered` is the only attribute replay does not restore, and a
  process that serves with something recovered publishes only results. Hence a log this
  code wrote is never refused (`ReopenAccepts`).
* `ReplayRestores`: the memory is what its log says. `Recorded` says it of the events taken
  so far and is kept by each event (`IntentRecorded`, `ResultRecorded`: a new index is
  behind all others, so a list grows at its end and a sum by one term), and `Behind` says
  how far the memory may lag: not at all while live, by one event after a failed
  publication. With `ReplayAccepts` this is `ReplayRebuilds`.
* `LedgerKept`: the scheduler implements `AttemptLedger`. `RecordOfMemory` reads an
  attempt's record off the memory when nothing is left to replay; then a linked intent is
  `Grant` (`IntentGrants`: its number is the next, and a valid plan means nothing is
  unknown or recovered) and a linked result is `Settle` (`ResultSettles`). Everything else,
  replay included, leaves the record alone and can only lose what is in hand.
  `OutcomesAreFinal` is what a reader of the log may rely on, from the ledger alone: an
  outcome never changes, and an unknown one ends the granting of attempts.

**Session runtime** (`GpuProofs`, from `SessionAssumption`, `IdentityAssumption`,
`BoundAssumption`).
* `CapacityKept` by `SlotInv`: a slot is held for every logical session, for every
  adapter of ours and for the session being retired. `DeviceWithinCapacity` alone is
  not inductive: an adapter whose cleanup failed has no logical session any more.
* `ReceiptsAreTheParameters`: inductive itself; creation, update, rollback and restore
  leave one session consistent, quarantined or gone. `ParametersAccounted` adds the
  published experiences: each has the parameters of a completed session at that moment.
* `ReceiptsAreTruthful` by `RetirementInv`, which follows a retirement through its
  stages; with `CapacityKept` it gives `SlotsSafe`.
* `RetiredStaysRetired`: an action property, straight from the steps.
* `ReleaseLosesNothing` by `SavedInv`: every reuse witness stands for a snapshot of
  the live session, and so does the receipt until the session is released; with
  `NoWitnessInv` for sessions that are not served.

**Actor** (`GpuProofs`, from `ActorAssumption`). `Inv` = `Typed` (with the item the worker must hold),
`Counted` (the counters as functions of the worker's place), `Ordered` (the queue is
the untaken part of the acceptance log, then the sentinel) and `Tracked` (who waits is
in the unanswered part). `ActorTypeCorrect`, `CountersAddUp`, `NothingLeftBehind` follow,
and `Serial`: every step of the actor is a step of `SerialService` or leaves it alone.
This justifies that `GpuRuntime` takes an operation as one step.

**Learner** (`LearnerProofs`, from `RunAssumption` and `NoneAssumption`; any number of
processes, datasets and steps). `IInv` has what the disk looks like after any failures and
deaths: `LogShape` (at most one intent without its commit, the commits a chain of stored
checkpoints), `RecordShape` (a confirmation only of what was announced and released, no gap
below the last commit), `Blank` (nothing before the run is created), `TrainedOnce` (no step
above the log was trained); and what a process knows: `Leased` (one coordinator, and only
one that is not blocked is inside an operation) and `Healthy` (a coordinator that is not
blocked remembers what is on disk, `Remembers`, and its place says how far the log, the
session and the records are, `Progress`). `NeverTrainedTwice` is not inductive: a step may
be trained because no intent is on disk, and `Progress` says that the log ends there.
`ChecksHold` reads each check of the code off `Remembers` and `Progress`: a coordinator
that may go on is never refused. `ImplementsTheLine`: a commit extends the line of
`ReleaseLine`, the confirmation releases the next head, all else stutters.

**Collector batch** (`CollectorBatchProofs`, from `BatchAssumption`; any number of attempts
and slots). `ExecInv` = `OnePlace` (an attempt is in one stage, once), `InOrder` (attempts
are reserved in order), `Staging` (where its thread may be, and what it may have returned),
`AskedOnce` (what was asked of a callback and may still be asked), `Evident` (which records
each stage implies, and that from the retirement on the session is off the GPU), `Closed`
(a result being settled has its records), `HeldKnown` (sessions are in their slots unless
dispatch has stopped for good), `LateOnce` (only one reservation is made after the stop).
`ExecEffects` is `EffectsBounded` from `AskedOnce`, `HeldKnown` and `LateOnce`; `ExecAudit`
is `SettledIsAuditable` from `Evident`: `ExecInv` is needed because an audit reads only
records, and nothing but the stages says that they were written in order.
`BatchLedgerKept` is the refinement of `AttemptLedger`, the specification the scheduler
itself implements: what the executor has in hand are the attempts of its stages and the one
it is creating or settling. `LedgerInHand` is what has to be known besides `ExecInv`: what
is in hand is pending, everything pending is in hand unless new dispatch has been stopped
for good, and between a proposal and its reservation both that and the absence of unknown
outcomes hold even if a thread sets the stop event (the one late dispatch is a legal
grant). So each place where an exception lets go of an attempt must set `stop`; there is
one lemma for each action.

**Router** (`CollectorProofs`, from `RouterAssumption`; any number of replicas,
threads and attempts). One inductive invariant, `IInv`, carries all theorems: `TypeOK`;
`CallersInv`, what the place of a thread implies for its attempt, and `AloneInv`, an
attempt is in the hands of one thread; `DiskInv`, nothing is known of an attempt
without a directory, so a new directory means a new attempt; `OnceInv`, a retirement
that was sent has its intent on disk and a record is never written over another;
`SessionInv`, a session whose retirement is not on disk is where the router thinks it
is; `HealthyInv`, a router that is not blocked has written exactly what it did. From it
follow `TypeCorrect`, `NeverSubmittedTwice`, `QuietRouterReopens`,
`UnknownNeverOvertaken` (the two together are `DispatchedOnce`) and `SlotsKept`, the refinement of `SessionSlots`: admission
grants the first free replica, retirements and failed searches return it or stutter.
`TypeOK` is proved and is no property of the run. `LeastExists` (a set of naturals has
a least member) comes from the well-foundedness of the naturals.

**Collector session** (`CollectorProofs`, from `CollectorSessionAssumption`; any number of
iterations and candidates). `CollectorInv` = `Streamed` (the stream is a run of the search:
which record may follow which, and a checkpoint for each iteration reached), `Searches`
(where Lean is after its last record), `Reading` (the coordinator's five variables are what
the last accepted record says), `Barred` (what is acknowledged was checked, and Lean goes on
only with what is), `Left` (which files Lean leaves) and `Collecting` (where the collector
is and what it knows there). `SearchAudited` follows from `Streamed` and `Barred`;
`KnownTruthful` from `Left` and `Collecting`, because an outcome is classified only
behind the last record, when Lean is over.

**Release provider** (`MatchmakerProofs`; also from `ReleasesAssumption`,
`LockAssumption`). `Composes`: each action of the composition contains a step of
`Matchmaker` or leaves its variables unchanged, so the scheduler's theorems hold of it.
`ReservedUnderTheLatest` by `Reserving`: a caller that compared the plans holds the lock,
and its plan names the latest release, since nothing is published without the lock.
`SearchedSafe` by `Faithful`: a caller in its dispatch has the intent of its attempt in
the log and the source recorded for it, no other caller has that attempt, and nobody has
searched it; `Searched` keeps what was on disk when it was.

**Online coordinator** (`OnlineProofs`, from `OnlineAssumption`). All five safety
properties of the run follow from `IInv`. `StepsAgree`: Lean is at most one iteration
past the last accepted checkpoint, an unread checkpoint is the last record, and no
acknowledgement is ahead of the coordinator. `UpdatesAgree`: requests, receipts and the
updates on the GPU differ by at most the call on the wire (`Counted`), and whenever they
differ the search stands at a barrier without an acknowledgement to go on, or is over
(`SearchHeld`); this gives `UnknownEndsSearch` and, with `AckCounts`, the refinement
`Alternates`. `VersionsAgree` says what the next record is in each state of the
coordinator (`Awaited`: the acknowledgement, then the refreshed values, possibly with
more of the search behind them), so every record is valid (`StreamIsValid`).
`ClosedInOrder` keeps which versions were refreshed and what a closed run knows
(`Sealed`). `TreesAgree` ties the visits of a checkpoint and of a request to the backups
in the stream (`TargetsFresh`); records added later cannot change them, because they are
of a later iteration or no backups. That `Target` is one of `Targets` is a lemma on
bounded sets of naturals.

**Online batch** (`OnlineProofs`, from `BatchAssumption`; any sessions, places and deaths).
`BatchInv` = `Lasting` (what disk and GPU say of a session in every life), `Placed` and
`Apart` (a session is in one place of the process), `JobStands` (a record under way has its
session complete, then its line, then the intent of its retirement), `ResidentKnown` (who
holds the GPU, as long as nothing failed), `Covered` (who has no line yet) and
`LinesOnce`. `BatchEffects` and `BatchRuns` follow, the second because a batch that
has not failed keeps every session without a line in one of its places (`Covered`).

**Course** (`CourseDriverProofs`, from `CourseAssumption`). `Base` (types, at most one open
operation, a call sent only inside one) gives the first half of `OneThingSafe`. The rest
and `PublishedSafe` need `Course`: the phases and the lessons come in order (`InOrder`);
a session begins with the search of its lesson and ends with its retirement
(`SessionHeld`); what was true when the intent of a phase was written stays true
(`Gates`); experiences are those of the publish operations (`Releases`); and the source of
a lesson is never changed by what happens after it began (`SourceKept`), because all
earlier lessons are over by then. `Behind` adds the order in which the records of different
phases may stand on disk, and behind which lessons; `ReconcilableSafe` follows: no
command refuses a directory that the course itself has written.

**Tree search** (`TreeSearchProofs`, from `TacticAssumption`, `SearchAssumption`; any
goals, tactics and order of selection). `IInv` is one inductive invariant. `Shape`: a
child is behind its parent and has one parent, an AND node has children, and an edge leads
to what its tactic makes of the goals. `Sound`: a flag that is set is
supported - no goals, a solved child of an OR node, all of an AND node. The converse cannot
hold all the time, since a proof found below reaches a node only when it is backed up:
`FlagsComplete` says it of every node but those on the path that are still to be backed up
(`Due`), and at the barrier that leaves none (`AgreedFlags`). `Walking` ties the path to the
tree: each place is a child of the one before and was open when it was chosen
(`SearchesOpenWork`, theorem `OpenWork`); an AND node entered has an open child exactly
because its own flag was complete. `Values` follows the versions: everything visited
since the last refresh is of this version, everything before has a selection value that is
(`CurrentSelection`), and while a refresh runs the nodes above `cursor` have theirs.

`TruthfulCheckpoint` needs what these do not say, the second invariant `Books`. `Focus`: a
node is the proof of a focused goal if its parent is, and only a split makes it one.
`Certified`: around each leaf whose proof is not focused there is a set of nodes, closed
towards the root (`Sealed`), without a tactic that the kernel rejects, so the
walk to a proved root meets none. `Counted`: the visits of a node are its evaluations and
those of its edges (`Tally`, by partial sums); `EdgesTally`: the visits of an edge are
those of its child, up to the one on the path that is still to be backed up (`Owed`);
`RootTally`: those of the root are the iterations. The definitions of the checkpoint are
recursive functions over the tree (`Provable`, `EdgeVisits`, `Walk`). Nothing is proved by
induction on them: since a child is behind its parent in the array, a node at which a flag
differs from `Provable` and behind which none does would be the greatest such node
(`GreatestExists`), and there both unfold to the same formula; likewise the least
length at which a sum goes wrong, the least place at which the walk does (`LeastExists`,
from the well-foundedness of the naturals).

The parts of each invariant were checked by TLC on the run's instance before they were
proved: 52920 states for `BatchInv`, 219054 for `ExecInv` and `LedgerInHand`, 34557 for `CollectorInv`,
114416 for `Behind`, 2570697 for `Books`, and those of the other runs.

**Only model-checked:** liveness (`ENABLED` and fairness are beyond the prover). Every
safety property, action property and refinement of the runs is a theorem; left are
`EveryCallReturns`, `RunEnds`, `SearchEnds`, `BatchReturns` and `CourseEnds`. `TypeOK` of
`CollectorBatch` and of `ReplicaRouter` is stated for proofs and is no property of a run.

---------------------------------------------------------------------------

## 5. What the modelling showed

No property above had to be weakened to hold. Behaviours a maintainer may want to know:

* when `backend.create` fails before it allocated anything, the cleanup's `delete`
  raises as well, and the identity is quarantined although the device is untouched;
  such a slot has no logical session, so no call ever frees it (`CreateFails`);
* `delete_session` that fails half-way keeps the slot (`DeleteFails`), as it must;
* a call of `publish` with nothing pending, and a second `enable`, block the learner's
  coordinator: the error path does not tell a refused call from a failed write;
* `Create` of a learner that fails after its directory exists leaves a run that can
  neither be resumed nor created; so does a collector batch that dies before
  `batch.json`;
* "unknowns block new dispatch" lets one attempt through: the one whose source was
  already prepared when the worker found the outcome unknown (`OneLateDispatch`);
* in the router, a failed search and the failure's record are two acquisitions of the
  lock (`SearchFails`, `Fail`): an attempt may be admitted in between, so what
  `DispatchesOnce` can say of unknowns starts with the record on disk;
* a retirement intent that cannot be written leaves its attempt active for the rest of
  the router's life without an unknown record (`RetireBegins`); the pool is then kept
  closed by the record that is missing;
* a lesson of the course that was proved and trained, without an update from the proof
  (`success` mode off) and whose last update no later generation used, can be neither
  published (acceptance refuses it) nor retired (its gate wants the publication): the
  course stands still there although nothing is unknown (`Unpublishable`, the exception
  in `CourseEnds`);
* an import of a verification that stops between its two writes is refused by every
  later command (`HalfImported`), by hand only it goes on;
* in the course, waiting for an import, for the replay and for acceptance are places
  where `run` returns or raises each time it is called: progress needs an operator who
  gives the commands again;
* an update whose answer was lost may be applied after the coordinator has reported; Lean
  never searches again then (`UnknownUpdateEndsSearch`), and no snapshot is taken;
* a collector that dies leaves Lean behind, which waits at its barrier until its own
  timeout; a collector that fails stops it first;
* below a split a tactic's proof is not checked by the kernel (`evalTacticStrNoFinalCheck`),
  and the search stops at the first solved root: one hole under a split ends the whole
  search with a rejected replay, whatever budget is left. Without a split a solved root has
  been checked already (`CheckpointIsTruthful`);
* a solved root returns before the refresh: a version read at that barrier is never used;
* a linked event whose publication raised is recovered by the next process as an
  attempt without a result: it must be reconciled by hand, never sent again.

---------------------------------------------------------------------------

## 6. What is not modelled, and the plan

Not modelled, and why: tensor arithmetic and objectives (the backends are any code that
may fail); the HTTP server (stateless: its threads are the callers of `GpuActor`), the
clients and JSON validation; the independent verifier (one sequential check of files; its
answers are inputs of `CollectorBatch` and `CourseDriver`); the mixed and continual
learners (the growing catalog is in `Learner`, the rest repeats its control flow with
other batches) and the dataset stores (content checks); the segmented controller (an
earlier, sequential form of the online coordinator); the file conversions of the problem
preparation; the scores, priors and float values of the tree search; the older generations and copies of the same code elsewhere in the
repository, scripts, documents. Their entries in `components` say why.

Left of the plan: `OnlineTTT` over `TreeSearch`: the nodes and visits of a checkpoint taken from the tree
itself instead of being chosen freely; each is now a module of its own, and what a
checkpoint says is true of the tree in `TreeSearch` only.

---------------------------------------------------------------------------

## 7. Running

`tlc -config GpuSession.cfg MCGpuRuntime` and the like; module and configuration of each
run are in `PROJECT.json`. `tlapm GpuProofs.tla` checks a proof module. The
longest run is `ReleasedAttempts` (2.7 million states, a minute and a half on two workers).
