----------------------------- MODULE GpuRuntime -----------------------------
(***************************************************************************)
(* The session runtime of gpu_runtime/runtime.py: logical sessions (policy *)
(* version, event receipts) beside the adapters a backend keeps for them,  *)
(* snapshots and retirement records on disk, and a bounded number of       *)
(* resident sessions.  The actor runs one operation at a time, so an       *)
(* operation is one step.  Retirement is several steps, because its        *)
(* records are read from disk without queueing behind the actor.           *)
(*                                                                         *)
(* The backend is reached through the protocol of gpu_runtime/backend.py;  *)
(* any call of it may fail, and where real_backend.py can fail half-way it *)
(* may fail half-way.  Parameters are abstracted to what they were         *)
(* initialized from, the events learned in order, and the random draws     *)
(* consumed.  The revision of a reuse witness is not kept: whatever        *)
(* changes the revision of a session drops its witness in the same call.   *)
(***************************************************************************)
EXTENDS Integers, Sequences, FiniteSets

CONSTANTS
    Sessions,       \* session_id
    Theorems,       \* theorem_id
    Names,          \* snapshot names
    Events,         \* learn events: [id, body, theorem]
    Identities,     \* what sessions are created as: [role, theorem, base]
    ModelReleases,  \* model_release_sha256 of releases in the learner store
    LearnerOf,      \* the learner session a model release came from
    ExperienceIds,  \* experience_id
    Preallocated,   \* backend sessions this runtime did not create
    MaxResident,    \* max_resident_sessions
    None,
    MaxUpdates,     \* bound: events learned by one session
    MaxDraws        \* bound: random draws of one session

Roles == {"theorem", "learner", "actor"}
Bases == ModelReleases \cup ExperienceIds \cup {None}
Identity == [role: Roles, theorem: Theorems \cup {None}, base: Bases]

ASSUME SessionAssumption ==
    /\ IsFiniteSet(Sessions)
    /\ Preallocated \subseteq Sessions
    /\ MaxResident \in Nat \ {0}

ASSUME IdentityAssumption ==
    /\ Identities \subseteq Identity
    /\ ModelReleases \cap ExperienceIds = {}
    /\ None \notin Theorems \cup ModelReleases \cup ExperienceIds
    /\ LearnerOf \in [ModelReleases -> Sessions]
    /\ \A e \in Events : e.theorem \in Theorems \cup {None}

ASSUME BoundAssumption == MaxUpdates \in Nat /\ MaxDraws \in Nat

VARIABLES
    resident,    \* _resident_session_ids
    unusable,    \* _unusable_sessions: quarantined
    retired,     \* _retired_session_ids
    known,       \* sessions with a logical state in the SessionStore
    logical,     \* that state
    entries,     \* the backend's own session table
    adapters,    \* adapters allocated on the device, with an entry or without
    weights,     \* the parameters of the session
    witnesses,   \* _snapshot_witnesses
    snapshots,   \* disk: the SnapshotStore
    experiences, \* disk: the ExperienceStore
    prepared,    \* disk: prepared.json of each retirement
    released,    \* disk: released.json of each retirement
    stage,       \* the retirement under way: idle, prepare, release, confirm
    job          \* its receipt

memory == <<resident, unusable, retired>>
store == <<known, logical>>
device == <<entries, adapters, weights>>
disk == <<snapshots, experiences>>
retirement == <<retired, prepared, released, stage, job>>
vars == <<resident, unusable, retired, known, logical, entries, adapters, weights,
          witnesses, snapshots, experiences, prepared, released, stage, job>>

-----------------------------------------------------------------------------
(* State and tests shared by the operations.                               *)

Blank == [base |-> None, learned |-> <<>>, draws |-> 0, torn |-> FALSE]
Initialized(base) == [Blank EXCEPT !.base = base]

NewState(id) ==
    [id |-> id, version |-> 0, consumed |-> <<>>, pending |-> {}, completed |-> FALSE]
NoState == NewState([role |-> "theorem", theorem |-> None, base |-> None])

Allocated == resident \cup unusable

HasRoom(s) == s \in Allocated \/ Cardinality(Allocated) < MaxResident

\* sessions.locked and _ensure_usable.
Usable(s) == s \in known /\ s \notin unusable

Idle == stage = "idle"

\* Fault for the checks: a call that looks pure keeps the witness.
InvalidatedByName(s) == witnesses' \in {witnesses, {w \in witnesses : w.session # s}}

\* _invalidate_snapshot_reuse, before every backend call.
Invalidated(s) == witnesses' = {w \in witnesses : w.session # s}

SnapshotsOf(s, name) == {sn \in snapshots : sn.session = s /\ sn.name = name}

\* The checks of create_session on role, theorem and the source of weights.
Admissible(s, id) ==
    \/ id.role = "theorem" /\ id.base = None
    \/ /\ id.role = "theorem" /\ id.theorem # None
       /\ \E x \in experiences :
             x.id = id.base /\ x.session # s /\ x.theorem # id.theorem
    \/ id.role = "learner" /\ id.theorem = None /\ id.base = None
    \/ /\ \/ id.role = "learner" /\ id.theorem = None
          \/ id.role = "actor" /\ id.theorem # None
       /\ id.base \in ModelReleases
       /\ LearnerOf[id.base] # s

-----------------------------------------------------------------------------
(* create_session and delete_session.                                      *)

MayCreate(s, id) ==
    /\ Idle
    /\ s \notin retired \cup unusable \cup resident
    /\ HasRoom(s)
    /\ Admissible(s, id)

CreateSession(s, id) ==
    /\ MayCreate(s, id)
    /\ s \notin entries
    /\ Invalidated(s)
    /\ resident' = resident \cup {s}
    /\ known' = known \cup {s}
    /\ logical' = [logical EXCEPT ![s] = NewState(id)]
    /\ entries' = entries \cup {s}
    /\ adapters' = adapters \cup {s}
    /\ weights' = [weights EXCEPT ![s] = Initialized(id.base)]
    /\ UNCHANGED <<unusable, disk, retirement>>

\* The backend already has the session: not ours to delete, kept for inspection.
CreateFindsAllocation(s, id) ==
    /\ MayCreate(s, id)
    /\ s \in entries
    /\ Invalidated(s)
    /\ resident' = resident \cup {s}
    /\ unusable' = unusable \cup {s}
    /\ UNCHANGED <<store, device, disk, retirement>>

\* Fault for the checks: cleanup gives the slot back whatever it left behind.
CreateFailsUnreserved(s, id) ==
    /\ MayCreate(s, id)
    /\ s \notin entries
    /\ Invalidated(s)
    /\ adapters' \in {adapters, adapters \cup {s}}
    /\ UNCHANGED <<resident, unusable, store, entries, weights, disk, retirement>>

\* Creation or initialization raises.  Cleanup deletes the session; where that
\* raises too, what is left on the device keeps its slot.
CreateFails(s, id) ==
    /\ MayCreate(s, id)
    /\ s \notin entries
    /\ Invalidated(s)
    /\ \/ UNCHANGED <<resident, unusable, entries, adapters>>
       \/ /\ resident' = resident \cup {s}
          /\ unusable' = unusable \cup {s}
          /\ \E E, A \in SUBSET {s} :
                /\ E \subseteq A
                /\ entries' = entries \cup E
                /\ adapters' = adapters \cup A
    /\ UNCHANGED <<store, weights, disk, retirement>>

\* delete_session, which a quarantined session accepts as well.
DeleteSession(s) ==
    /\ Idle
    /\ s \in known \cap entries
    /\ Invalidated(s)
    /\ entries' = entries \ {s}
    /\ adapters' = adapters \ {s}
    /\ weights' = [weights EXCEPT ![s] = Blank]
    /\ known' = known \ {s}
    /\ logical' = [logical EXCEPT ![s] = NoState]
    /\ unusable' = unusable \ {s}
    /\ resident' = resident \ {s}
    /\ UNCHANGED <<disk, retirement>>

\* The backend raises, before or after it dropped its entry: nothing else changes.
DeleteFails(s) ==
    /\ Idle
    /\ s \in known
    /\ Invalidated(s)
    /\ entries' \in {entries, entries \ {s}}
    /\ UNCHANGED <<memory, store, adapters, weights, disk, prepared, released, stage, job>>

-----------------------------------------------------------------------------
(* policy, value, learn.                                                   *)

Drawn(w) == [w EXCEPT !.draws = @ + 1]

\* policy: sampling consumes the session's private random stream.
Policy(s) ==
    /\ Idle
    /\ Usable(s)
    /\ s \in entries
    /\ weights[s].draws < MaxDraws
    /\ Invalidated(s)
    /\ weights' = [weights EXCEPT ![s] = Drawn(@)]
    /\ UNCHANGED <<resident, unusable, store, entries, adapters, disk, retirement>>

\* value and inspect_backend; also policy, learn, snapshot, restore or retirement
\* where they are refused or fail without effect after the witness is dropped.
Touch(s) ==
    /\ Idle
    /\ Usable(s)
    /\ Invalidated(s)
    /\ UNCHANGED <<resident, unusable, store, device, disk, retirement>>

Receipts(s) == {logical[s].consumed[i].id : i \in DOMAIN logical[s].consumed}

\* learn goes on to the backend: an event with a receipt is replayed from it,
\* one for another version is refused.
MayLearn(s, e, version) ==
    /\ Idle
    /\ Usable(s)
    /\ ~logical[s].completed
    /\ logical[s].id.role # "actor"
    /\ e.theorem # None => logical[s].id.role = "theorem" /\ e.theorem = logical[s].id.theorem
    /\ e.id \notin Receipts(s)
    /\ logical[s].version = version

\* The update itself, and the version and receipt that record it.
Trained(w, e) == [w EXCEPT !.learned = Append(@, e)]
Recorded(st, e) == [st EXCEPT !.version = @ + 1, !.consumed = Append(@, e)]
LeftPending(st, e) == [st EXCEPT !.pending = {e}]

Learn(s, e, version) ==
    /\ MayLearn(s, e, version)
    /\ s \in entries
    /\ version < MaxUpdates
    /\ Invalidated(s)
    /\ weights' = [weights EXCEPT ![s] = Trained(@, e)]
    /\ logical' = [logical EXCEPT ![s] = Recorded(@, e)]
    /\ UNCHANGED <<resident, unusable, known, entries, adapters, disk, retirement>>

\* What a failed import or update may leave of the parameters of s.
Torn(w) == [w EXCEPT !.torn = TRUE]

\* The update raises or its result is not finite JSON, and _rollback cannot put
\* the parameters back: the session is quarantined with the event still pending.
\* Where the rollback succeeds the call is a Touch.
LearnFails(s, e, version) ==
    /\ MayLearn(s, e, version)
    /\ s \in entries
    /\ version < MaxUpdates
    /\ Invalidated(s)
    /\ \E w \in {weights[s], Trained(weights[s], e), Torn(weights[s])} :
          weights' = [weights EXCEPT ![s] = w]
    /\ logical' = [logical EXCEPT ![s] = LeftPending(@, e)]
    /\ unusable' = unusable \cup {s}
    /\ UNCHANGED <<resident, known, entries, adapters, disk, retirement>>

-----------------------------------------------------------------------------
(* snapshot, publish_experience, restore.                                  *)

SnapshotOf(s, name, state, contract) ==
    [session |-> s, name |-> name, logical |-> state, weights |-> weights[s],
     contract |-> contract]

Witness(s, name, state) == [session |-> s, name |-> name, logical |-> state]

\* A candidate for an experience is a theorem session with completed updates.
Candidate(s) ==
    /\ logical[s].id.role = "theorem"
    /\ logical[s].id.theorem # None
    /\ logical[s].version >= 1
    /\ logical[s].pending = {}

\* snapshot.  The digest of the manifest may fail to be read back once the
\* snapshot is published: then there is no witness.
Snapshot(s, name, forExperience) ==
    LET state == [logical[s] EXCEPT !.completed = @ \/ forExperience]
        others == {w \in witnesses : w.session # s}
    IN  /\ Idle
        /\ Usable(s)
        /\ s \in entries
        /\ forExperience => Candidate(s)
        /\ SnapshotsOf(s, name) = {}
        /\ snapshots' = snapshots \cup {SnapshotOf(s, name, state, forExperience)}
        /\ logical' = [logical EXCEPT ![s] = state]
        /\ witnesses' \in {others, others \cup {Witness(s, name, state)}}
        /\ UNCHANGED <<resident, unusable, known, device, experiences, retirement>>

Publishable(sn) ==
    /\ sn.logical.completed
    /\ sn.logical.id.theorem # None
    /\ sn.logical.version >= 1
    /\ sn.logical.pending = {}
    /\ sn.contract

\* The release of an experience carries parameters only, no optimizer or stream.
ReleaseOf(x, sn) ==
    [id |-> x, session |-> sn.session, name |-> sn.name,
     theorem |-> sn.logical.id.theorem, version |-> sn.logical.version,
     base |-> sn.weights.base, learned |-> sn.weights.learned]

\* publish_experience with an acceptance that binds the source; it reads the
\* snapshot only, so the session may be retired or gone by then.
PublishExperience(x, sn) ==
    /\ Idle
    /\ sn \in snapshots
    /\ Publishable(sn)
    /\ \A y \in experiences : y.id # x
    /\ Invalidated(sn.session)
    /\ experiences' = experiences \cup {ReleaseOf(x, sn)}
    /\ UNCHANGED <<resident, unusable, store, device, snapshots, retirement>>

MayRestore(sn) ==
    /\ Idle
    /\ sn \in snapshots
    /\ Usable(sn.session)
    /\ sn.session \in entries
    /\ ~logical[sn.session].completed
    /\ logical[sn.session].id = sn.logical.id

\* Fault for the checks: only the parameters are put back.
RestoredParameters(sn) == logical

Restored(sn) == [logical EXCEPT ![sn.session] = sn.logical]

\* restore.  The snapshot was loaded before the call was queued, which makes no
\* difference: snapshots are immutable and never removed.
Restore(sn) ==
    /\ MayRestore(sn)
    /\ Invalidated(sn.session)
    /\ weights' = [weights EXCEPT ![sn.session] = sn.weights]
    /\ logical' = Restored(sn)
    /\ UNCHANGED <<resident, unusable, known, entries, adapters, disk, retirement>>

RestoreFails(sn) ==
    /\ MayRestore(sn)
    /\ Invalidated(sn.session)
    /\ \E w \in {weights[sn.session], sn.weights, Torn(weights[sn.session])} :
          weights' = [weights EXCEPT ![sn.session] = w]
    /\ unusable' = unusable \cup {sn.session}
    /\ UNCHANGED <<resident, store, entries, adapters, disk, retirement>>

-----------------------------------------------------------------------------
(* retire_session, in the steps between which its records can be read.     *)

Receipt(s, name, mode) ==
    [session |-> s, name |-> name, version |-> logical[s].version, mode |-> mode]

MayRetire(s, version) ==
    /\ Idle
    /\ s \notin retired
    /\ Usable(s)
    /\ logical[s].version = version
    /\ logical[s].pending = {}

Started(s, name, mode) ==
    /\ Invalidated(s)
    /\ retired' = retired \cup {s}
    /\ stage' = "prepare"
    /\ job' = Receipt(s, name, mode)
    /\ UNCHANGED <<resident, unusable, store, device, experiences, prepared, released>>

\* With a new snapshot.
Retire(s, name, version) ==
    /\ MayRetire(s, version)
    /\ s \in entries
    /\ SnapshotsOf(s, name) = {}
    /\ snapshots' = snapshots \cup {SnapshotOf(s, name, logical[s], FALSE)}
    /\ Started(s, name, "created")

\* The directories cannot be synced: the snapshot stays, the session lives on.
RetireUnsynced(s, name, version) ==
    /\ MayRetire(s, version)
    /\ s \in entries
    /\ SnapshotsOf(s, name) = {}
    /\ Invalidated(s)
    /\ snapshots' = snapshots \cup {SnapshotOf(s, name, logical[s], FALSE)}
    /\ UNCHANGED <<resident, unusable, store, device, experiences, retirement>>

\* The witness of the last snapshot still stands, and file, witness and live
\* session agree on the logical state.
Reusable(s, name) ==
    \E w \in witnesses, sn \in SnapshotsOf(s, name) :
        /\ w.session = s /\ w.name = name
        /\ sn.logical = w.logical
        /\ sn.logical = logical[s]

\* With the snapshot taken last.
RetireReusing(s, name, version) ==
    /\ MayRetire(s, version)
    /\ Reusable(s, name)
    /\ UNCHANGED snapshots
    /\ Started(s, name, "reuse_verified")

RetirePrepare ==
    /\ stage = "prepare"
    /\ prepared' = prepared \cup {job}
    /\ stage' = "release"
    /\ UNCHANGED <<memory, store, device, witnesses, disk, released, job>>

RetireRelease ==
    LET s == job.session IN
    /\ stage = "release"
    /\ s \in entries
    /\ entries' = entries \ {s}
    /\ adapters' = adapters \ {s}
    /\ weights' = [weights EXCEPT ![s] = Blank]
    /\ known' = known \ {s}
    /\ logical' = [logical EXCEPT ![s] = NoState]
    /\ resident' = resident \ {s}
    /\ stage' = "confirm"
    /\ UNCHANGED <<unusable, retired, witnesses, disk, prepared, released, job>>

RetireConfirm ==
    /\ stage = "confirm"
    /\ released' = released \cup {job}
    /\ stage' = "idle"
    /\ job' = None
    /\ UNCHANGED <<memory, store, device, witnesses, disk, prepared>>

\* Any of the three raises: a record may be on disk although its write raised,
\* the backend may have dropped its entry or not.  The session is quarantined.
RetireFails ==
    LET s == job.session IN
    /\ ~Idle
    /\ prepared' \in {prepared, prepared \cup (IF stage = "prepare" THEN {job} ELSE {})}
    /\ entries' \in {entries, entries \ (IF stage = "release" THEN {s} ELSE {})}
    /\ released' \in {released, released \cup (IF stage = "confirm" THEN {job} ELSE {})}
    /\ unusable' = unusable \cup {s}
    /\ stage' = "idle"
    /\ job' = None
    /\ UNCHANGED <<resident, retired, store, adapters, weights, witnesses, disk>>

-----------------------------------------------------------------------------
Init ==
    /\ resident = {} /\ unusable = {} /\ retired = {}
    /\ known = {}
    /\ logical = [s \in Sessions |-> NoState]
    /\ entries = Preallocated
    /\ adapters = Preallocated
    /\ weights = [s \in Sessions |-> Blank]
    /\ witnesses = {}
    /\ snapshots = {} /\ experiences = {}
    /\ prepared = {} /\ released = {}
    /\ stage = "idle"
    /\ job = None

SessionStep(s) ==
    \/ \E id \in Identities :
          CreateSession(s, id) \/ CreateFindsAllocation(s, id) \/ CreateFails(s, id)
    \/ DeleteSession(s) \/ DeleteFails(s)
    \/ Policy(s) \/ Touch(s)
    \/ \E e \in Events, v \in 0..MaxUpdates : Learn(s, e, v) \/ LearnFails(s, e, v)
    \/ \E name \in Names :
          \/ \E forExperience \in BOOLEAN : Snapshot(s, name, forExperience)
          \/ \E v \in 0..MaxUpdates :
                Retire(s, name, v) \/ RetireUnsynced(s, name, v) \/ RetireReusing(s, name, v)

SnapshotStep ==
    \E sn \in snapshots :
        \/ Restore(sn) \/ RestoreFails(sn)
        \/ \E x \in ExperienceIds : PublishExperience(x, sn)

Next ==
    \/ \E s \in Sessions : SessionStep(s)
    \/ SnapshotStep
    \/ RetirePrepare \/ RetireRelease \/ RetireConfirm \/ RetireFails

Spec == Init /\ [][Next]_vars

-----------------------------------------------------------------------------
(* Types.                                                                  *)

State ==
    [id: Identity, version: 0..MaxUpdates, consumed: Seq(Events),
     pending: SUBSET Events, completed: BOOLEAN]
Parameters ==
    [base: Bases, learned: Seq(Events), draws: 0..MaxDraws, torn: BOOLEAN]
RetirementReceipt ==
    [session: Sessions, name: Names, version: 0..MaxUpdates,
     mode: {"created", "reuse_verified"}]
WitnessRecord == [session: Sessions, name: Names, logical: State]
SnapshotRecord ==
    [session: Sessions, name: Names, logical: State, weights: Parameters,
     contract: BOOLEAN]
ExperienceRecord ==
    [id: ExperienceIds, session: Sessions, name: Names, theorem: Theorems,
     version: 0..MaxUpdates, base: Bases, learned: Seq(Events)]

MemoryTyped ==
    /\ resident \subseteq Sessions /\ unusable \subseteq Sessions
    /\ retired \subseteq Sessions /\ known \subseteq Sessions
    /\ entries \subseteq Sessions /\ adapters \subseteq Sessions

SessionsTyped == logical \in [Sessions -> State] /\ weights \in [Sessions -> Parameters]

DiskTyped ==
    /\ witnesses \subseteq WitnessRecord
    /\ snapshots \subseteq SnapshotRecord
    /\ experiences \subseteq ExperienceRecord

RetirementTyped ==
    /\ prepared \subseteq RetirementReceipt
    /\ released \subseteq RetirementReceipt
    /\ \/ stage = "idle" /\ job = None
       \/ stage \in {"prepare", "release", "confirm"} /\ job \in RetirementReceipt

\* Every variable has its type.
TypeOK == MemoryTyped /\ SessionsTyped /\ DiskTyped /\ RetirementTyped

-----------------------------------------------------------------------------
(* What makes the runtime correct.                                         *)

\* The adapters this runtime has put on the device never exceed its capacity,
\* whatever creation, cleanup, deletion or retirement failed half-way.
DeviceWithinCapacity == Cardinality(adapters \ Preallocated) <= MaxResident

\* A session that is served has exactly the parameters its receipts tell of:
\* each event once, in order, from the base it was created from, with the
\* policy version counting them.  Otherwise it is quarantined.
Consistent(state, w) ==
    /\ w.base = state.id.base
    /\ w.learned = state.consumed
    /\ state.version = Len(state.consumed)
    /\ \A i, j \in DOMAIN state.consumed :
          state.consumed[i].id = state.consumed[j].id => i = j
    /\ state.pending = {}
    /\ ~w.torn

WeightsMatchReceipts ==
    /\ \A s \in known \ unusable : s \in entries => Consistent(logical[s], weights[s])
    /\ \A sn \in snapshots : Consistent(sn.logical, sn.weights)

\* What retirement_receipt reads at any moment is the truth: every record has its
\* final snapshot on disk, a session is retired once, and a released record
\* confirms the prepared one of a session with neither state nor adapter.
ReleasedIsTruthful ==
    /\ \A q \in prepared : SnapshotsOf(q.session, q.name) # {}
    /\ \A r \in released :
          /\ r.session \notin known \cup entries \cup adapters
          /\ r.session \in retired
          /\ {q \in prepared : q.session = r.session} = {r}

\* Slots are given away only as the disk and the device allow it: what was ever
\* said to be released is, and what holds memory keeps its slot.
SlotsAreTruthful == DeviceWithinCapacity /\ ReleasedIsTruthful

\* A release of the adapter loses nothing: when retirement drops the session,
\* the snapshot its prepared record names is the session's last state, down to
\* the random stream, also when an earlier snapshot was reused.
ReleaseSavesLastState ==
    [][\A s \in known \ known' :
          stage = "release" =>
              /\ job.session = s /\ job \in prepared
              /\ \E sn \in SnapshotsOf(s, job.name) :
                    sn.logical = logical[s] /\ sn.weights = weights[s]]_vars

\* An identity whose retirement was attempted is never given a new session or
\* a new adapter by this runtime.
RetiredNeverReturns ==
    [][\A s \in retired :
          /\ s \notin known => s \notin known'
          /\ s \notin adapters => s \notin adapters']_vars

\* A published experience carries the parameters of a completed snapshot of its
\* source theorem, at the version it names.
ExperienceIsSource ==
    \A x \in experiences :
        \E sn \in SnapshotsOf(x.session, x.name) :
            /\ sn.logical.completed
            /\ sn.logical.id.theorem = x.theorem
            /\ x.version = Len(x.learned) /\ x.learned = sn.logical.consumed

\* Parameters are what their receipts say wherever they are kept: in a session
\* that is served, in a snapshot, and in an experience made from one.
ParametersAreAccounted == WeightsMatchReceipts /\ ExperienceIsSource
=============================================================================
