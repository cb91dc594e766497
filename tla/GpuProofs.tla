----------------------------- MODULE GpuProofs -----------------------------
(***************************************************************************)
(* Theorems about GpuRuntime for every set of sessions and every capacity, *)
(* and about GpuActor, which calls it, for any set of calls.               *)
(***************************************************************************)
EXTENDS GpuRuntime, GpuActor, FiniteSetTheorems, TLAPS

-----------------------------------------------------------------------------
(* The values the operations build are well formed.                        *)

LEMMA BlankType == Blank \in Parameters
  BY BoundAssumption DEF Blank, Parameters, Bases

LEMMA InitializedType ==
  ASSUME NEW id \in Identity PROVE Initialized(id.base) \in Parameters
  BY BlankType, BoundAssumption DEF Initialized, Blank, Parameters, Identity

LEMMA NewStateType ==
  ASSUME NEW id \in Identity PROVE NewState(id) \in State
  BY BoundAssumption DEF NewState, State

LEMMA NoStateType == NoState \in State
  <1>1. [role |-> "theorem", theorem |-> None, base |-> None] \in Identity
    BY DEF Identity, Roles, Bases
  <1> QED
    BY <1>1, NewStateType DEF NoState

LEMMA TrainedType ==
  ASSUME NEW w \in Parameters, NEW e \in Events PROVE Trained(w, e) \in Parameters
  BY DEF Trained, Parameters

LEMMA TornType == ASSUME NEW w \in Parameters PROVE Torn(w) \in Parameters
  BY DEF Torn, Parameters

LEMMA RecordedType ==
  ASSUME NEW st \in State, NEW e \in Events, st.version < MaxUpdates
  PROVE  Recorded(st, e) \in State
  <1>1. st.version + 1 \in 0..MaxUpdates
    BY BoundAssumption DEF State
  <1>2. Append(st.consumed, e) \in Seq(Events)
    BY DEF State
  <1> QED
    BY <1>1, <1>2 DEF State, Recorded

LEMMA DrawnType ==
  ASSUME NEW w \in Parameters, w.draws < MaxDraws
  PROVE  Drawn(w) \in Parameters
  BY BoundAssumption DEF Parameters, Drawn

LEMMA FieldTypes ==
  ASSUME TypeOK, NEW sn \in snapshots
  PROVE  /\ sn.session \in Sessions /\ sn.name \in Names
         /\ sn.logical \in State /\ sn.weights \in Parameters
  BY DEF TypeOK, DiskTyped, SnapshotRecord

-----------------------------------------------------------------------------
(* Type correctness.                                                       *)

LEMMA InitTyped == Init => TypeOK
  BY BlankType, NoStateType, SessionAssumption
  DEF Init, TypeOK, MemoryTyped, SessionsTyped, DiskTyped, RetirementTyped

\* An operation on one session keeps the types.
LEMMA SessionStepTyped ==
  ASSUME TypeOK, NEW s \in Sessions, SessionStep(s) PROVE TypeOK'
  <1> USE DEF TypeOK, disk, device, store, memory, retirement
  <1>1. ASSUME NEW id \in Identities, CreateSession(s, id) PROVE TypeOK'
    <2>1. id \in Identity
      BY IdentityAssumption
    <2>2. SessionsTyped'
      BY <1>1, <2>1, NewStateType, InitializedType DEF CreateSession, SessionsTyped
    <2> QED
      BY <1>1, <2>2 DEF CreateSession, Invalidated, MemoryTyped, DiskTyped, RetirementTyped
  <1>2. ASSUME NEW id \in Identities, CreateFindsAllocation(s, id) PROVE TypeOK'
    BY <1>2 DEF CreateFindsAllocation, Invalidated, MemoryTyped, SessionsTyped, DiskTyped,
                RetirementTyped
  <1>3. ASSUME NEW id \in Identities, CreateFails(s, id) PROVE TypeOK'
    <2>1. MemoryTyped'
      BY <1>3 DEF CreateFails, MemoryTyped
    <2> QED
      BY <1>3, <2>1 DEF CreateFails, Invalidated, SessionsTyped, DiskTyped, RetirementTyped
  <1>4. CASE DeleteSession(s)
    <2>1. SessionsTyped'
      BY <1>4, BlankType, NoStateType DEF DeleteSession, SessionsTyped
    <2> QED
      BY <1>4, <2>1 DEF DeleteSession, Invalidated, MemoryTyped, DiskTyped, RetirementTyped
  <1>5. CASE DeleteFails(s)
    BY <1>5 DEF DeleteFails, Invalidated, MemoryTyped, SessionsTyped, DiskTyped,
                RetirementTyped
  <1>6. CASE Policy(s)
    <2>1. weights' \in [Sessions -> Parameters]
      BY <1>6, DrawnType DEF Policy, SessionsTyped
    <2> QED
      BY <1>6, <2>1 DEF Policy, Invalidated, MemoryTyped, SessionsTyped, DiskTyped,
                        RetirementTyped
  <1>7. CASE Touch(s)
    BY <1>7 DEF Touch, Invalidated, MemoryTyped, SessionsTyped, DiskTyped, RetirementTyped
  <1>8. ASSUME NEW e \in Events, NEW v \in 0..MaxUpdates, Learn(s, e, v) PROVE TypeOK'
    <2>1. logical[s] \in State /\ weights[s] \in Parameters
      BY DEF SessionsTyped
    <2>2. logical[s].version < MaxUpdates
      BY <1>8 DEF Learn, MayLearn
    <2>3. weights' \in [Sessions -> Parameters]
      BY <1>8, <2>1, TrainedType DEF Learn, SessionsTyped
    <2>4. logical' \in [Sessions -> State]
      BY <1>8, <2>1, <2>2, RecordedType DEF Learn, SessionsTyped
    <2> QED
      BY <1>8, <2>3, <2>4 DEF Learn, Invalidated, MemoryTyped, SessionsTyped, DiskTyped,
                              RetirementTyped
  <1>9. ASSUME NEW e \in Events, NEW v \in 0..MaxUpdates, LearnFails(s, e, v) PROVE TypeOK'
    <2>1. logical[s] \in State /\ weights[s] \in Parameters
      BY DEF SessionsTyped
    <2>2. weights' \in [Sessions -> Parameters]
      BY <1>9, <2>1, TrainedType, TornType DEF LearnFails, SessionsTyped
    <2>3. LeftPending(logical[s], e) \in State
      BY <2>1 DEF State, LeftPending
    <2>4. logical' \in [Sessions -> State]
      BY <1>9, <2>3 DEF LearnFails, SessionsTyped
    <2> QED
      BY <1>9, <2>2, <2>4 DEF LearnFails, Invalidated, MemoryTyped, SessionsTyped, DiskTyped,
                              RetirementTyped
  <1>10. ASSUME NEW name \in Names, NEW f \in BOOLEAN, Snapshot(s, name, f) PROVE TypeOK'
    <2> DEFINE st == [logical[s] EXCEPT !.completed = @ \/ f]
    <2>1. logical[s] \in State /\ weights[s] \in Parameters
      BY DEF SessionsTyped
    <2>2. st \in State
      BY <2>1 DEF State
    <2>3. SnapshotOf(s, name, st, f) \in SnapshotRecord
      BY <2>1, <2>2 DEF SnapshotOf, SnapshotRecord
    <2>4. Witness(s, name, st) \in WitnessRecord
      BY <2>2 DEF Witness, WitnessRecord
    <2> HIDE DEF st
    <2>5. /\ snapshots' = snapshots \cup {SnapshotOf(s, name, st, f)}
          /\ logical' = [logical EXCEPT ![s] = st]
          /\ witnesses' \subseteq witnesses \cup {Witness(s, name, st)}
          /\ UNCHANGED <<resident, unusable, known, entries, adapters, weights, experiences,
                         retired, prepared, released, stage, job>>
      BY <1>10 DEF Snapshot, st
    <2>6. SessionsTyped'
      BY <2>2, <2>5 DEF SessionsTyped
    <2>7. DiskTyped'
      BY <2>3, <2>4, <2>5 DEF DiskTyped
    <2> QED
      BY <2>5, <2>6, <2>7 DEF MemoryTyped, RetirementTyped
  <1>11. ASSUME NEW name \in Names, NEW v \in 0..MaxUpdates,
                Retire(s, name, v) \/ RetireUnsynced(s, name, v) \/ RetireReusing(s, name, v)
         PROVE  TypeOK'
    <2>1. logical[s] \in State /\ weights[s] \in Parameters
      BY DEF SessionsTyped
    <2>2. SnapshotOf(s, name, logical[s], FALSE) \in SnapshotRecord
      BY <2>1 DEF SnapshotOf, SnapshotRecord
    <2>3. \A mode \in {"created", "reuse_verified"} :
             Receipt(s, name, mode) \in RetirementReceipt
      BY <2>1 DEF Receipt, RetirementReceipt, State
    <2>4. DiskTyped'
      BY <1>11, <2>2 DEF Retire, RetireUnsynced, RetireReusing, Started, Invalidated, DiskTyped
    <2>5. RetirementTyped'
      BY <1>11, <2>3 DEF Retire, RetireUnsynced, RetireReusing, Started, RetirementTyped
    <2> QED
      BY <1>11, <2>4, <2>5 DEF Retire, RetireUnsynced, RetireReusing, Started, MemoryTyped,
                               SessionsTyped
  <1> QED
    BY <1>1, <1>2, <1>3, <1>4, <1>5, <1>6, <1>7, <1>8, <1>9, <1>10, <1>11 DEF SessionStep

\* An operation on a snapshot keeps the types.
LEMMA SnapshotStepTyped == ASSUME TypeOK, SnapshotStep PROVE TypeOK'
  <1> USE DEF TypeOK, disk, device, store, memory, retirement
  <1>1. ASSUME NEW sn \in snapshots, Restore(sn) PROVE TypeOK'
    <2>1. weights' \in [Sessions -> Parameters] /\ logical' \in [Sessions -> State]
      BY <1>1, FieldTypes DEF Restore, Restored, SessionsTyped
    <2> QED
      BY <1>1, <2>1 DEF Restore, Invalidated, MemoryTyped, SessionsTyped, DiskTyped,
                        RetirementTyped
  <1>2. ASSUME NEW sn \in snapshots, RestoreFails(sn) PROVE TypeOK'
    <2>1. weights[sn.session] \in Parameters
      BY FieldTypes DEF SessionsTyped
    <2>2. weights' \in [Sessions -> Parameters]
      BY <1>2, <2>1, FieldTypes, TornType DEF RestoreFails, SessionsTyped
    <2> QED
      BY <1>2, <2>2, FieldTypes DEF RestoreFails, Invalidated, MemoryTyped, SessionsTyped,
                                    DiskTyped, RetirementTyped
  <1>3. ASSUME NEW sn \in snapshots, NEW x \in ExperienceIds, PublishExperience(x, sn)
        PROVE  TypeOK'
    <2>1. sn.logical.id \in Identity /\ sn.logical.id.theorem # None
      BY <1>3, FieldTypes DEF PublishExperience, Publishable, State
    <2>2. sn.logical.id.theorem \in Theorems
      BY <2>1 DEF Identity
    <2>3. ReleaseOf(x, sn) \in ExperienceRecord
      BY <2>2, FieldTypes DEF ReleaseOf, ExperienceRecord, State, Parameters
    <2> QED
      BY <1>3, <2>3 DEF PublishExperience, Invalidated, MemoryTyped, SessionsTyped, DiskTyped,
                        RetirementTyped
  <1> QED
    BY <1>1, <1>2, <1>3 DEF SnapshotStep

\* A step of a retirement under way keeps the types.
LEMMA RetirementStepTyped ==
  ASSUME TypeOK, RetirePrepare \/ RetireRelease \/ RetireConfirm \/ RetireFails PROVE TypeOK'
  <1> USE DEF TypeOK, disk, device, store, memory
  <1>1. CASE RetirePrepare
    BY <1>1 DEF RetirePrepare, MemoryTyped, SessionsTyped, DiskTyped, RetirementTyped
  <1>2. CASE RetireRelease
    <2>1. job.session \in Sessions
      BY <1>2 DEF RetireRelease, RetirementTyped, RetirementReceipt
    <2>2. SessionsTyped'
      BY <1>2, <2>1, BlankType, NoStateType DEF RetireRelease, SessionsTyped
    <2> QED
      BY <1>2, <2>2 DEF RetireRelease, MemoryTyped, DiskTyped, RetirementTyped
  <1>3. CASE RetireConfirm
    BY <1>3 DEF RetireConfirm, MemoryTyped, SessionsTyped, DiskTyped, RetirementTyped
  <1>4. CASE RetireFails
    <2>1. job.session \in Sessions /\ job \in RetirementReceipt
      BY <1>4 DEF RetireFails, Idle, RetirementTyped, RetirementReceipt
    <2> QED
      BY <1>4, <2>1 DEF RetireFails, MemoryTyped, SessionsTyped, DiskTyped, RetirementTyped
  <1> QED
    BY <1>1, <1>2, <1>3, <1>4

LEMMA NextTyped == ASSUME TypeOK, [Next]_vars PROVE TypeOK'
  <1>1. CASE UNCHANGED vars
    BY <1>1 DEF vars, TypeOK, MemoryTyped, SessionsTyped, DiskTyped, RetirementTyped
  <1> QED
    BY <1>1, SessionStepTyped, SnapshotStepTyped, RetirementStepTyped DEF Next

\* Every reachable state of the runtime is well typed.
THEOREM TypeCorrect == Spec => []TypeOK
  BY InitTyped, NextTyped, PTL DEF Spec

-----------------------------------------------------------------------------
(* Capacity.                                                               *)

JobSession == IF Idle THEN {} ELSE {job.session}

\* What makes the capacity inductive: a slot is held for every logical session,
\* for every adapter of ours and for the session being retired.
SlotInv ==
    /\ known \subseteq resident
    /\ adapters \ Preallocated \subseteq Allocated
    /\ Cardinality(Allocated \cup JobSession) <= MaxResident

\* A set of sessions that shrinks stays within the capacity.
LEMMA Shrinks ==
  ASSUME NEW S \in SUBSET Sessions, NEW T \in SUBSET S, Cardinality(S) <= MaxResident
  PROVE  Cardinality(T) <= MaxResident
  <1>1. IsFiniteSet(S) /\ Cardinality(T) <= Cardinality(S)
    BY SessionAssumption, FS_Subset
  <1>2. Cardinality(S) \in Nat /\ Cardinality(T) \in Nat
    BY <1>1, FS_CardinalityType, FS_Subset
  <1> QED
    BY <1>1, <1>2, SessionAssumption

\* A session that has room brings the slots up to the capacity at most.
LEMMA OneMore ==
  ASSUME NEW S \in SUBSET Sessions, NEW s \in Sessions,
         s \in S \/ Cardinality(S) < MaxResident, Cardinality(S) <= MaxResident
  PROVE  Cardinality(S \cup {s}) <= MaxResident
  <1>1. IsFiniteSet(S)
    BY SessionAssumption, FS_Subset
  <1>2. Cardinality(S) \in Nat
    BY <1>1, FS_CardinalityType
  <1>3. CASE s \in S
    <2>1. S \cup {s} = S
      BY <1>3
    <2> QED
      BY <2>1
  <1>4. CASE s \notin S
    <2>1. Cardinality(S \cup {s}) = Cardinality(S) + 1
      BY <1>1, <1>4, FS_AddElement
    <2> QED
      BY <1>2, <1>4, <2>1, SessionAssumption
  <1> QED
    BY <1>3, <1>4

LEMMA InitSlots == Init => SlotInv
  <1> SUFFICES ASSUME Init PROVE SlotInv
    OBVIOUS
  <1>1. Allocated \cup JobSession = {}
    BY DEF Init, Allocated, JobSession, Idle
  <1> QED
    BY <1>1, FS_EmptySet, SessionAssumption DEF Init, SlotInv

\* Steps that reserve no slot, give slots back, or move them to quarantine.
LEMMA SlotsShrink ==
  ASSUME TypeOK, SlotInv,
         (Allocated \cup JobSession)' \subseteq Allocated \cup JobSession,
         known' \subseteq resident', (adapters \ Preallocated)' \subseteq Allocated'
  PROVE  SlotInv'
  <1>1. Allocated \cup JobSession \subseteq Sessions
    BY DEF TypeOK, MemoryTyped, RetirementTyped, RetirementReceipt, Allocated, JobSession, Idle
  <1>2. Cardinality((Allocated \cup JobSession)') <= MaxResident
    BY <1>1, Shrinks DEF SlotInv
  <1> QED
    BY <1>2 DEF SlotInv

LEMMA CreateKeepsSlots ==
  ASSUME TypeOK, SlotInv, NEW s \in Sessions, NEW id \in Identities,
         \/ CreateSession(s, id) \/ CreateFindsAllocation(s, id) \/ CreateFails(s, id)
  PROVE  SlotInv'
  <1> USE DEF disk, device, store, memory, retirement
  <1>1. Idle /\ Idle' /\ HasRoom(s)
    BY DEF CreateSession, CreateFindsAllocation, CreateFails, MayCreate, Idle
  <1>2. Allocated \subseteq Sessions /\ Cardinality(Allocated) <= MaxResident
    <2>1. Allocated \cup JobSession = Allocated
      BY <1>1 DEF JobSession
    <2> QED
      BY <2>1 DEF SlotInv, TypeOK, MemoryTyped, Allocated
  <1>3. Cardinality(Allocated \cup {s}) <= MaxResident
    BY <1>1, <1>2, OneMore DEF HasRoom
  <1>4. Allocated' = Allocated \cup {s} \/ UNCHANGED <<resident, unusable, adapters>>
    BY DEF CreateSession, CreateFindsAllocation, CreateFails, Allocated
  <1>5. (Allocated \cup JobSession)' = Allocated'
    BY <1>1 DEF JobSession
  <1>6. Cardinality((Allocated \cup JobSession)') <= MaxResident
    <2>1. CASE Allocated' = Allocated \cup {s}
      BY <1>3, <1>5, <2>1
    <2>2. CASE UNCHANGED <<resident, unusable, adapters>>
      <3>1. Allocated' = Allocated
        BY <2>2 DEF Allocated
      <3> QED
        BY <1>2, <1>5, <3>1
    <2> QED
      BY <1>4, <2>1, <2>2
  <1>7. known' \subseteq resident' /\ adapters' \ Preallocated \subseteq Allocated'
    BY DEF SlotInv, CreateSession, CreateFindsAllocation, CreateFails, Allocated
  <1> QED
    BY <1>6, <1>7 DEF SlotInv

LEMMA SessionKeepsSlots ==
  ASSUME TypeOK, SlotInv, NEW s \in Sessions, SessionStep(s) PROVE SlotInv'
  <1> USE DEF disk, device, store, memory, retirement
  <1>1. CASE DeleteSession(s)
    <2>1. UNCHANGED <<stage, job>> /\ resident' \subseteq resident /\ unusable' \subseteq unusable
      BY <1>1 DEF DeleteSession
    <2>2. known' \subseteq resident' /\ adapters' \ Preallocated \subseteq Allocated'
      BY <1>1 DEF DeleteSession, SlotInv, Allocated
    <2>3. (Allocated \cup JobSession)' \subseteq Allocated \cup JobSession
      BY <2>1 DEF Allocated, JobSession, Idle
    <2> QED
      BY <2>2, <2>3, SlotsShrink
  <1>2. CASE UNCHANGED <<resident, unusable, known, adapters, stage, job>>
    BY <1>2 DEF SlotInv, Allocated, JobSession, Idle
  <1>3. ASSUME NEW e \in Events, NEW v \in 0..MaxUpdates, LearnFails(s, e, v) PROVE SlotInv'
    <2>1. UNCHANGED <<resident, known, adapters, stage, job>> /\ unusable' = unusable \cup {s}
      BY <1>3 DEF LearnFails
    <2>2. s \in resident
      BY <1>3 DEF LearnFails, MayLearn, Usable, SlotInv
    <2> QED
      BY <2>1, <2>2, SlotsShrink DEF SlotInv, Allocated, JobSession, Idle
  <1>4. ASSUME NEW name \in Names, NEW v \in 0..MaxUpdates,
               Retire(s, name, v) \/ RetireReusing(s, name, v)
        PROVE  SlotInv'
    <2>0. PICK mode \in {"created", "reuse_verified"} : Started(s, name, mode)
      BY <1>4 DEF Retire, RetireReusing
    <2>1. /\ UNCHANGED <<resident, unusable, known, adapters>>
          /\ stage' = "prepare" /\ job'.session = s
      BY <2>0 DEF Started, Receipt
    <2>2. s \in resident
      BY <1>4 DEF Retire, RetireReusing, MayRetire, Usable, SlotInv
    <2>3. JobSession' = {s}
      BY <2>1 DEF JobSession, Idle
    <2> QED
      BY <2>1, <2>2, <2>3, SlotsShrink DEF SlotInv, Allocated
  <1>5. ASSUME NEW name \in Names, NEW v \in 0..MaxUpdates, RetireUnsynced(s, name, v)
        PROVE  SlotInv'
    BY <1>2, <1>5 DEF RetireUnsynced
  <1>6. ASSUME NEW name \in Names, NEW f \in BOOLEAN, Snapshot(s, name, f) PROVE SlotInv'
    BY <1>2, <1>6 DEF Snapshot
  <1>7. ASSUME NEW e \in Events, NEW v \in 0..MaxUpdates, Learn(s, e, v) PROVE SlotInv'
    BY <1>2, <1>7 DEF Learn
  <1>8. CASE Policy(s) \/ Touch(s) \/ DeleteFails(s)
    BY <1>2, <1>8 DEF Policy, Touch, DeleteFails
  <1> QED
    BY <1>1, <1>3, <1>4, <1>5, <1>6, <1>7, <1>8, CreateKeepsSlots DEF SessionStep

LEMMA OtherStepsKeepSlots ==
  ASSUME TypeOK, SlotInv,
         SnapshotStep \/ RetirePrepare \/ RetireRelease \/ RetireConfirm \/ RetireFails
  PROVE  SlotInv'
  <1> USE DEF disk, device, store, memory, retirement
  <1>1. CASE SnapshotStep
    <2>1. PICK sn \in snapshots :
             Restore(sn) \/ RestoreFails(sn) \/ \E x \in ExperienceIds : PublishExperience(x, sn)
      BY <1>1 DEF SnapshotStep
    <2>2. /\ UNCHANGED <<resident, known, adapters, stage, job>>
          /\ \/ unusable' = unusable
             \/ unusable' = unusable \cup {sn.session} /\ sn.session \in known
      BY <2>1 DEF Restore, RestoreFails, PublishExperience, MayRestore, Usable
    <2> QED
      BY <2>2, SlotsShrink DEF SlotInv, Allocated, JobSession, Idle
  <1>2. CASE RetirePrepare \/ RetireRelease \/ RetireConfirm
    <2>1. (Allocated \cup JobSession)' \subseteq Allocated \cup JobSession
      BY <1>2 DEF RetirePrepare, RetireRelease, RetireConfirm, Allocated, JobSession, Idle
    <2>2. known' \subseteq resident' /\ adapters' \ Preallocated \subseteq Allocated'
      BY <1>2 DEF RetirePrepare, RetireRelease, RetireConfirm, SlotInv, Allocated
    <2> QED
      BY <2>1, <2>2, SlotsShrink
  <1>3. CASE RetireFails
    <2>1. (Allocated \cup JobSession)' \subseteq Allocated \cup JobSession
      BY <1>3 DEF RetireFails, Allocated, JobSession, Idle
    <2>2. known' \subseteq resident' /\ adapters' \ Preallocated \subseteq Allocated'
      BY <1>3 DEF RetireFails, SlotInv, Allocated
    <2> QED
      BY <2>1, <2>2, SlotsShrink
  <1> QED
    BY <1>1, <1>2, <1>3

LEMMA NextKeepsSlots == ASSUME TypeOK, SlotInv, [Next]_vars PROVE SlotInv'
  <1>1. CASE UNCHANGED vars
    BY <1>1 DEF vars, SlotInv, Allocated, JobSession, Idle
  <1> QED
    BY <1>1, SessionKeepsSlots, OtherStepsKeepSlots DEF Next

LEMMA SlotsGiveCapacity == ASSUME TypeOK, SlotInv PROVE DeviceWithinCapacity
  <1>1. Allocated \cup JobSession \subseteq Sessions
    BY DEF TypeOK, MemoryTyped, RetirementTyped, RetirementReceipt, Allocated, JobSession, Idle
  <1>2. adapters \ Preallocated \subseteq Allocated \cup JobSession
    BY DEF SlotInv
  <1> QED
    BY <1>1, <1>2, Shrinks DEF SlotInv, DeviceWithinCapacity

\* The adapters put on the device stay within max_resident_sessions, whichever
\* creation, cleanup, deletion or retirement failed half-way.
THEOREM CapacityKept == Spec => []DeviceWithinCapacity
  <1>1. Spec => []SlotInv
    BY InitTyped, NextTyped, InitSlots, NextKeepsSlots, PTL DEF Spec
  <1> QED
    BY <1>1, TypeCorrect, SlotsGiveCapacity, PTL

-----------------------------------------------------------------------------
(* Parameters and receipts.                                                *)

\* Fresh parameters agree with a fresh state.
LEMMA FreshConsistent ==
  ASSUME NEW id \in Identity PROVE Consistent(NewState(id), Initialized(id.base))
  BY DEF Consistent, NewState, Initialized, Blank

\* An update of parameters and its record keep them in agreement.
LEMMA UpdateConsistent ==
  ASSUME NEW st \in State, NEW w \in Parameters, NEW e \in Events, Consistent(st, w),
         \A i \in DOMAIN st.consumed : st.consumed[i].id # e.id
  PROVE  Consistent(Recorded(st, e), Trained(w, e))
  <1> DEFINE new == Append(st.consumed, e)
  <1>1. /\ st.consumed \in Seq(Events) /\ st.version \in Nat
        /\ w.learned = st.consumed /\ w.base = st.id.base /\ ~w.torn
        /\ st.pending = {} /\ st.version = Len(st.consumed)
    BY BoundAssumption DEF Consistent, State
  <1>2. /\ Recorded(st, e).consumed = new /\ Recorded(st, e).version = st.version + 1
        /\ Recorded(st, e).id = st.id /\ Recorded(st, e).pending = {}
    BY <1>1 DEF Recorded, State
  <1>3. Trained(w, e).learned = new /\ Trained(w, e).base = w.base /\ ~Trained(w, e).torn
    BY <1>1 DEF Trained, Parameters
  <1>4. Len(new) = st.version + 1
    BY <1>1
  <1>5. ASSUME NEW i \in DOMAIN new, NEW j \in DOMAIN new, new[i].id = new[j].id PROVE i = j
    <2>1. /\ \A k \in DOMAIN new : k \in DOMAIN st.consumed \/ k = Len(st.consumed) + 1
          /\ \A k \in DOMAIN st.consumed : new[k] = st.consumed[k]
          /\ new[Len(st.consumed) + 1] = e
      BY <1>1
    <2>2. \A k, l \in DOMAIN st.consumed : st.consumed[k].id = st.consumed[l].id => k = l
      BY DEF Consistent
    <2> QED
      BY <1>5, <2>1, <2>2
  <1> HIDE DEF new
  <1> QED
    BY <1>1, <1>2, <1>3, <1>4, <1>5 DEF Consistent

\* Agreement does not depend on completion or on the random stream.
LEMMA CompletionConsistent ==
  ASSUME NEW st \in State, NEW w, NEW b, Consistent(st, w)
  PROVE  Consistent([st EXCEPT !.completed = b], w)
  BY DEF Consistent, State

LEMMA DrawConsistent ==
  ASSUME NEW st, NEW w \in Parameters, Consistent(st, w) PROVE Consistent(st, Drawn(w))
  BY DEF Consistent, Parameters, Drawn

LEMMA InitConsistent == Init => WeightsMatchReceipts
  BY DEF Init, WeightsMatchReceipts

\* A step that changes parameters and state of one session at most, and leaves
\* that one consistent, quarantined or without state.
LEMMA OneSessionConsistent ==
  ASSUME WeightsMatchReceipts, NEW s, UNCHANGED snapshots,
         \A q \in Sessions \ {s} : weights'[q] = weights[q] /\ logical'[q] = logical[q],
         known' \subseteq Sessions,
         known' \subseteq known \cup {s},
         unusable \subseteq unusable' \cup {s},
         entries' \subseteq entries \cup {s},
         s \in known' \ unusable' => Consistent(logical'[s], weights'[s])
  PROVE  WeightsMatchReceipts'
  <1>1. ASSUME NEW q \in known' \ unusable', q \in entries'
        PROVE  Consistent(logical'[q], weights'[q])
    <2>1. CASE q = s
      BY <2>1
    <2>2. CASE q # s
      <3>1. q \in known \ unusable /\ q \in entries
        BY <1>1, <2>2
      <3>2. weights'[q] = weights[q] /\ logical'[q] = logical[q]
        BY <2>2
      <3> QED
        BY <3>1, <3>2 DEF WeightsMatchReceipts
    <2> QED
      BY <2>1, <2>2
  <1> QED
    BY <1>1 DEF WeightsMatchReceipts, Consistent

LEMMA SessionKeepsConsistent ==
  ASSUME TypeOK, TypeOK', WeightsMatchReceipts, NEW s \in Sessions, SessionStep(s)
  PROVE  WeightsMatchReceipts'
  <1> USE DEF disk, device, store, memory, retirement
  <1>a. known \subseteq Sessions /\ known' \subseteq Sessions
    BY DEF TypeOK, MemoryTyped
  <1>b. /\ logical \in [Sessions -> State] /\ weights \in [Sessions -> Parameters]
        /\ logical[s] \in State /\ weights[s] \in Parameters
    BY DEF TypeOK, SessionsTyped
  <1>1. ASSUME NEW id \in Identities, CreateSession(s, id) PROVE WeightsMatchReceipts'
    <2>1. logical'[s] = NewState(id) /\ weights'[s] = Initialized(id.base)
      BY <1>1, <1>b DEF CreateSession
    <2>2. Consistent(logical'[s], weights'[s])
      BY <2>1, FreshConsistent, IdentityAssumption
    <2> QED
      BY <1>1, <1>a, <1>b, <2>2, OneSessionConsistent DEF CreateSession
  <1>2. ASSUME NEW id \in Identities, CreateFindsAllocation(s, id) PROVE WeightsMatchReceipts'
    BY <1>2 DEF CreateFindsAllocation, WeightsMatchReceipts
  <1>3. ASSUME NEW id \in Identities, CreateFails(s, id) PROVE WeightsMatchReceipts'
    <2>1. /\ UNCHANGED <<known, logical, weights, snapshots>>
          /\ \/ UNCHANGED <<unusable, entries>>
             \/ unusable' = unusable \cup {s} /\ entries' \subseteq entries \cup {s}
      BY <1>3 DEF CreateFails
    <2> QED
      BY <2>1 DEF WeightsMatchReceipts
  <1>4. CASE DeleteSession(s)
    BY <1>4, <1>a, <1>b, OneSessionConsistent DEF DeleteSession
  <1>5. CASE DeleteFails(s)
    BY <1>5 DEF DeleteFails, WeightsMatchReceipts
  <1>6. CASE Policy(s)
    <2>1. weights'[s] = Drawn(weights[s]) /\ Consistent(logical[s], weights[s])
      BY <1>6, <1>b DEF Policy, Usable, WeightsMatchReceipts
    <2>2. Consistent(logical'[s], weights'[s])
      BY <1>6, <1>b, <2>1, DrawConsistent DEF Policy
    <2> QED
      BY <1>6, <1>a, <1>b, <2>2, OneSessionConsistent DEF Policy
  <1>7. CASE Touch(s)
    BY <1>7 DEF Touch, WeightsMatchReceipts
  <1>8. ASSUME NEW e \in Events, NEW v \in 0..MaxUpdates, Learn(s, e, v)
        PROVE  WeightsMatchReceipts'
    <2>1. weights'[s] = Trained(weights[s], e) /\ logical'[s] = Recorded(logical[s], e)
      BY <1>8, <1>b DEF Learn
    <2>2. Consistent(logical[s], weights[s])
      BY <1>8 DEF Learn, MayLearn, Usable, WeightsMatchReceipts
    <2>3. \A i \in DOMAIN logical[s].consumed : logical[s].consumed[i].id # e.id
      BY <1>8 DEF Learn, MayLearn, Receipts
    <2>4. Consistent(logical'[s], weights'[s])
      BY <1>b, <2>1, <2>2, <2>3, UpdateConsistent
    <2> QED
      BY <1>8, <1>a, <1>b, <2>4, OneSessionConsistent DEF Learn
  <1>9. ASSUME NEW e \in Events, NEW v \in 0..MaxUpdates, LearnFails(s, e, v)
        PROVE  WeightsMatchReceipts'
    <2>1. /\ UNCHANGED <<known, entries, snapshots>> /\ unusable' = unusable \cup {s}
          /\ \A q \in Sessions \ {s} : weights'[q] = weights[q] /\ logical'[q] = logical[q]
      BY <1>9, <1>b DEF LearnFails
    <2> QED
      BY <1>a, <2>1, OneSessionConsistent
  <1>10. ASSUME NEW name \in Names, NEW f \in BOOLEAN, Snapshot(s, name, f)
         PROVE  WeightsMatchReceipts'
    <2> DEFINE st == [logical[s] EXCEPT !.completed = @ \/ f]
    <2>1. Consistent(st, weights[s])
      <3>1. Consistent(logical[s], weights[s])
        BY <1>10 DEF Snapshot, Usable, WeightsMatchReceipts
      <3> QED
        BY <1>b, <3>1, CompletionConsistent
    <2> HIDE DEF st
    <2>2. /\ snapshots' = snapshots \cup {SnapshotOf(s, name, st, f)}
          /\ logical' = [logical EXCEPT ![s] = st]
          /\ UNCHANGED <<known, unusable, entries, weights>>
      BY <1>10 DEF Snapshot, st
    <2>3. \A sn \in snapshots' : Consistent(sn.logical, sn.weights)
      BY <2>1, <2>2 DEF SnapshotOf, WeightsMatchReceipts
    <2>4. \A q \in known' \ unusable' : q \in entries' => Consistent(logical'[q], weights'[q])
      BY <1>a, <1>b, <2>1, <2>2 DEF WeightsMatchReceipts
    <2> QED
      BY <2>3, <2>4 DEF WeightsMatchReceipts, Consistent
  <1>11. ASSUME NEW name \in Names, NEW v \in 0..MaxUpdates,
                Retire(s, name, v) \/ RetireUnsynced(s, name, v) \/ RetireReusing(s, name, v)
         PROVE  WeightsMatchReceipts'
    <2>1. UNCHANGED <<known, unusable, entries, logical, weights>>
      BY <1>11 DEF Retire, RetireUnsynced, RetireReusing, Started
    <2>2. \/ UNCHANGED snapshots
          \/ /\ snapshots' = snapshots \cup {SnapshotOf(s, name, logical[s], FALSE)}
             /\ Usable(s) /\ s \in entries
      BY <1>11 DEF Retire, RetireUnsynced, RetireReusing, MayRetire
    <2>3. \A sn \in snapshots' : Consistent(sn.logical, sn.weights)
      BY <2>2 DEF SnapshotOf, WeightsMatchReceipts, Usable
    <2> QED
      BY <2>1, <2>3 DEF WeightsMatchReceipts, Consistent
  <1> QED
    BY <1>1, <1>2, <1>3, <1>4, <1>5, <1>6, <1>7, <1>8, <1>9, <1>10, <1>11 DEF SessionStep

LEMMA OthersKeepConsistent ==
  ASSUME TypeOK, TypeOK', WeightsMatchReceipts,
         SnapshotStep \/ RetirePrepare \/ RetireRelease \/ RetireConfirm \/ RetireFails
  PROVE  WeightsMatchReceipts'
  <1> USE DEF disk, device, store, memory, retirement
  <1>a. known \subseteq Sessions /\ known' \subseteq Sessions
    BY DEF TypeOK, MemoryTyped
  <1>b. logical \in [Sessions -> State] /\ weights \in [Sessions -> Parameters]
    BY DEF TypeOK, SessionsTyped
  <1>1. ASSUME NEW sn \in snapshots, Restore(sn) PROVE WeightsMatchReceipts'
    <2>1. logical'[sn.session] = sn.logical /\ weights'[sn.session] = sn.weights
      BY <1>1, <1>b, FieldTypes DEF Restore, Restored
    <2>2. Consistent(logical'[sn.session], weights'[sn.session])
      BY <2>1 DEF WeightsMatchReceipts
    <2> QED
      BY <1>1, <1>a, <1>b, <2>2, OneSessionConsistent DEF Restore, Restored
  <1>2. ASSUME NEW sn \in snapshots, RestoreFails(sn) PROVE WeightsMatchReceipts'
    <2>1. /\ UNCHANGED <<known, logical, entries, snapshots>>
          /\ unusable' = unusable \cup {sn.session}
          /\ \A q \in Sessions \ {sn.session} : weights'[q] = weights[q]
      BY <1>2, <1>b DEF RestoreFails
    <2> QED
      BY <1>a, <2>1, OneSessionConsistent
  <1>3. ASSUME NEW sn \in snapshots, NEW x \in ExperienceIds, PublishExperience(x, sn)
        PROVE  WeightsMatchReceipts'
    BY <1>3 DEF PublishExperience, WeightsMatchReceipts
  <1>4. CASE RetirePrepare \/ RetireConfirm
    BY <1>4 DEF RetirePrepare, RetireConfirm, WeightsMatchReceipts
  <1>5. CASE RetireRelease
    BY <1>5, <1>a, <1>b, OneSessionConsistent DEF RetireRelease
  <1>6. CASE RetireFails
    BY <1>6 DEF RetireFails, WeightsMatchReceipts
  <1> QED
    BY <1>1, <1>2, <1>3, <1>4, <1>5, <1>6 DEF SnapshotStep

LEMMA NextConsistent ==
  ASSUME TypeOK, TypeOK', WeightsMatchReceipts, [Next]_vars PROVE WeightsMatchReceipts'
  <1>1. CASE UNCHANGED vars
    BY <1>1 DEF vars, WeightsMatchReceipts
  <1> QED
    BY <1>1, SessionKeepsConsistent, OthersKeepConsistent DEF Next

\* A session that is served has exactly the parameters its receipts tell of, and
\* so has every snapshot; a failed update or restore never leaves anything else.
THEOREM ReceiptsAreTheParameters == Spec => []WeightsMatchReceipts
  BY TypeCorrect, InitConsistent, NextConsistent, PTL DEF Spec

\* No experience exists at the start.
LEMMA InitExperience == Init => ExperienceIsSource
  BY DEF Init, ExperienceIsSource

\* Snapshots are never removed, and only publication makes an experience.
LEMMA DiskOnlyGrows ==
  ASSUME Next
  PROVE  /\ snapshots \subseteq snapshots'
         /\ \/ experiences' = experiences
            \/ \E sn \in snapshots, x \in ExperienceIds : PublishExperience(x, sn)
  <1> USE DEF disk, device, store, memory, retirement
  <1>1. ASSUME NEW s \in Sessions, SessionStep(s)
        PROVE  snapshots \subseteq snapshots' /\ experiences' = experiences
    BY <1>1 DEF SessionStep, CreateSession, CreateFindsAllocation, CreateFails, DeleteSession,
                DeleteFails, Policy, Touch, Learn, LearnFails, Snapshot, Retire,
                RetireUnsynced, RetireReusing, Started
  <1>2. ASSUME NEW sn \in snapshots, Restore(sn) \/ RestoreFails(sn)
        PROVE  snapshots \subseteq snapshots' /\ experiences' = experiences
    BY <1>2 DEF Restore, RestoreFails
  <1>3. ASSUME NEW sn \in snapshots, NEW x \in ExperienceIds, PublishExperience(x, sn)
        PROVE  snapshots \subseteq snapshots'
    BY <1>3 DEF PublishExperience
  <1>4. CASE RetirePrepare \/ RetireRelease \/ RetireConfirm \/ RetireFails
    BY <1>4 DEF RetirePrepare, RetireRelease, RetireConfirm, RetireFails
  <1> QED
    BY <1>1, <1>2, <1>3, <1>4 DEF Next, SnapshotStep

\* A publication reads a snapshot whose parameters its receipts account for.
LEMMA NextKeepsExperience ==
  ASSUME WeightsMatchReceipts, ExperienceIsSource, [Next]_vars PROVE ExperienceIsSource'
  <1>1. CASE UNCHANGED vars
    BY <1>1 DEF vars, ExperienceIsSource, SnapshotsOf
  <1>2. CASE Next
    <2>1. snapshots \subseteq snapshots'
      BY <1>2, DiskOnlyGrows
    <2>2. CASE experiences' = experiences
      BY <2>1, <2>2 DEF ExperienceIsSource, SnapshotsOf
    <2>3. ASSUME NEW sn \in snapshots, NEW x \in ExperienceIds, PublishExperience(x, sn)
          PROVE  ExperienceIsSource'
      <3>1. Consistent(sn.logical, sn.weights) /\ sn.logical.completed
        BY <2>3 DEF WeightsMatchReceipts, PublishExperience, Publishable
      <3>2. experiences' = experiences \cup {ReleaseOf(x, sn)}
        BY <2>3 DEF PublishExperience
      <3>3. \A y \in experiences' \ experiences : y = ReleaseOf(x, sn)
        BY <3>2
      <3> QED
        BY <2>1, <3>1, <3>3 DEF ExperienceIsSource, SnapshotsOf, ReleaseOf, Consistent
    <2> QED
      BY <1>2, <2>2, <2>3, DiskOnlyGrows
  <1> QED
    BY <1>1, <1>2

\* Parameters are accounted for by receipts in a session that is served, in every
\* snapshot, and in every experience published from one.
THEOREM ParametersAccounted == Spec => []ParametersAreAccounted
  <1>1. Init => ExperienceIsSource
    BY InitExperience
  <1>2. WeightsMatchReceipts /\ ExperienceIsSource /\ [Next]_vars => ExperienceIsSource'
    BY NextKeepsExperience
  <1>3. WeightsMatchReceipts /\ ExperienceIsSource => ParametersAreAccounted
    BY DEF ParametersAreAccounted
  <1> QED
    BY <1>1, <1>2, <1>3, ReceiptsAreTheParameters, PTL DEF Spec

-----------------------------------------------------------------------------
(* Retirement.                                                             *)

Gone(s) == s \notin known \cup entries \cup adapters

\* What makes the records truthful at every step of a retirement.
RetirementInv ==
    /\ \A q \in prepared : q.session \in retired /\ SnapshotsOf(q.session, q.name) # {}
    /\ \A q, r \in prepared : q.session = r.session => q = r
    /\ \A r \in released : r \in prepared /\ Gone(r.session)
    /\ ~Idle => job.session \in retired /\ SnapshotsOf(job.session, job.name) # {}
    /\ stage = "prepare" => \A q \in prepared : q.session # job.session
    /\ stage \in {"release", "confirm"} => job \in prepared
    /\ stage = "confirm" => Gone(job.session)

LEMMA InitRetirement == Init => RetirementInv
  BY DEF Init, RetirementInv, Idle

\* Steps outside a retirement add snapshots only and bring no retired session back.
LEMMA OutsideRetirement ==
  ASSUME RetirementInv, UNCHANGED <<prepared, released, stage, job, retired>>,
         snapshots \subseteq snapshots',
         \A s \in retired : Gone(s) => Gone(s)'
  PROVE  RetirementInv'
  BY DEF RetirementInv, SnapshotsOf, Idle

LEMMA SessionKeepsRetirement ==
  ASSUME TypeOK, RetirementInv, NEW s \in Sessions, SessionStep(s) PROVE RetirementInv'
  <1> USE DEF disk, device, store, memory, retirement
  <1>1. ASSUME NEW id \in Identities,
               CreateSession(s, id) \/ CreateFindsAllocation(s, id) \/ CreateFails(s, id)
        PROVE  RetirementInv'
    <2>1. /\ s \notin retired /\ UNCHANGED <<prepared, released, stage, job, retired, snapshots>>
          /\ known' \subseteq known \cup {s} /\ entries' \subseteq entries \cup {s}
          /\ adapters' \subseteq adapters \cup {s}
      BY <1>1 DEF CreateSession, CreateFindsAllocation, CreateFails, MayCreate
    <2> QED
      BY <2>1, OutsideRetirement DEF Gone
  <1>2. CASE DeleteSession(s) \/ DeleteFails(s)
    <2>1. /\ UNCHANGED <<prepared, released, stage, job, retired, snapshots>>
          /\ known' \subseteq known /\ entries' \subseteq entries /\ adapters' \subseteq adapters
      BY <1>2 DEF DeleteSession, DeleteFails
    <2> QED
      BY <2>1, OutsideRetirement DEF Gone
  <1>3. CASE UNCHANGED <<prepared, released, stage, job, retired, known, entries, adapters>>
             /\ snapshots \subseteq snapshots'
    BY <1>3, OutsideRetirement DEF Gone
  <1>4. ASSUME NEW name \in Names, NEW v \in 0..MaxUpdates,
               Retire(s, name, v) \/ RetireReusing(s, name, v)
        PROVE  RetirementInv'
    <2>1. PICK mode \in {"created", "reuse_verified"} : Started(s, name, mode)
      BY <1>4 DEF Retire, RetireReusing
    <2>2. /\ UNCHANGED <<known, entries, adapters, prepared, released>>
          /\ retired' = retired \cup {s} /\ stage' = "prepare"
          /\ job'.session = s /\ job'.name = name
      BY <2>1 DEF Started, Receipt
    <2>3. s \notin retired /\ snapshots \subseteq snapshots'
      BY <1>4 DEF Retire, RetireReusing, MayRetire
    <2>4. SnapshotsOf(s, name)' # {}
      <3>1. CASE Retire(s, name, v)
        <4>1. SnapshotOf(s, name, logical[s], FALSE) \in snapshots'
          BY <3>1 DEF Retire
        <4> QED
          BY <4>1 DEF SnapshotsOf, SnapshotOf
      <3>2. CASE RetireReusing(s, name, v)
        BY <3>2 DEF RetireReusing, Reusable, SnapshotsOf
      <3> QED
        BY <1>4, <3>1, <3>2
    <2>5. \A q \in prepared : q.session # s
      BY <2>3 DEF RetirementInv
    <2> QED
      BY <2>2, <2>3, <2>4, <2>5 DEF RetirementInv, SnapshotsOf, Idle, Gone
  <1>5. ASSUME NEW name \in Names, NEW v \in 0..MaxUpdates, RetireUnsynced(s, name, v)
        PROVE  RetirementInv'
    BY <1>3, <1>5 DEF RetireUnsynced
  <1>6. ASSUME NEW name \in Names, NEW f \in BOOLEAN, Snapshot(s, name, f) PROVE RetirementInv'
    BY <1>3, <1>6 DEF Snapshot
  <1>7. ASSUME NEW e \in Events, NEW v \in 0..MaxUpdates, Learn(s, e, v) \/ LearnFails(s, e, v)
        PROVE  RetirementInv'
    BY <1>3, <1>7 DEF Learn, LearnFails
  <1>8. CASE Policy(s) \/ Touch(s)
    BY <1>3, <1>8 DEF Policy, Touch
  <1> QED
    BY <1>1, <1>2, <1>4, <1>5, <1>6, <1>7, <1>8 DEF SessionStep

LEMMA OthersKeepRetirement ==
  ASSUME TypeOK, RetirementInv,
         SnapshotStep \/ RetirePrepare \/ RetireRelease \/ RetireConfirm \/ RetireFails
  PROVE  RetirementInv'
  <1> USE DEF disk, device, store, memory, retirement
  <1>1. CASE SnapshotStep
    <2>1. /\ UNCHANGED <<prepared, released, stage, job, retired, snapshots>>
          /\ UNCHANGED <<known, entries, adapters>>
      BY <1>1 DEF SnapshotStep, Restore, RestoreFails, PublishExperience
    <2> QED
      BY <2>1, OutsideRetirement DEF Gone
  <1>2. CASE RetirePrepare
    BY <1>2 DEF RetirePrepare, RetirementInv, SnapshotsOf, Idle, Gone
  <1>3. CASE RetireRelease
    BY <1>3 DEF RetireRelease, RetirementInv, SnapshotsOf, Idle, Gone
  <1>4. CASE RetireConfirm
    BY <1>4 DEF RetireConfirm, RetirementInv, SnapshotsOf, Idle, Gone
  <1>5. CASE RetireFails
    BY <1>5 DEF RetireFails, RetirementInv, SnapshotsOf, Idle, Gone
  <1> QED
    BY <1>1, <1>2, <1>3, <1>4, <1>5

LEMMA NextRetirement == ASSUME TypeOK, RetirementInv, [Next]_vars PROVE RetirementInv'
  <1>1. CASE UNCHANGED vars
    BY <1>1 DEF vars, RetirementInv, SnapshotsOf, Idle, Gone
  <1> QED
    BY <1>1, SessionKeepsRetirement, OthersKeepRetirement DEF Next

LEMMA RetirementGivesTruth == RetirementInv => ReleasedIsTruthful
  BY DEF RetirementInv, ReleasedIsTruthful, Gone

\* Whoever reads the retirement records between any two steps is told the truth.
THEOREM ReceiptsAreTruthful == Spec => []ReleasedIsTruthful
  <1>1. Spec => []RetirementInv
    BY TypeCorrect, InitRetirement, NextRetirement, PTL DEF Spec
  <1> QED
    BY <1>1, RetirementGivesTruth, PTL

\* The slots are given away as the records and the device allow it.
THEOREM SlotsSafe == Spec => []SlotsAreTruthful
  BY CapacityKept, ReceiptsAreTruthful, PTL DEF SlotsAreTruthful

\* A step brings back no session whose retirement was attempted.
LEMMA StepBringsNothingBack ==
  ASSUME TypeOK, [Next]_vars, NEW s \in retired
  PROVE  /\ s \notin known => s \notin known'
         /\ s \notin adapters => s \notin adapters'
  <1> USE DEF disk, device, store, memory, retirement
  <1>1. CASE UNCHANGED vars
    BY <1>1 DEF vars
  <1>2. ASSUME NEW q \in Sessions, NEW id \in Identities,
               CreateSession(q, id) \/ CreateFindsAllocation(q, id) \/ CreateFails(q, id)
        PROVE  /\ s \notin known => s \notin known'
               /\ s \notin adapters => s \notin adapters'
    BY <1>2 DEF CreateSession, CreateFindsAllocation, CreateFails, MayCreate
  <1>3. CASE known' \subseteq known /\ adapters' \subseteq adapters
    BY <1>3
  <1>4. ASSUME NEW q \in Sessions, SessionStep(q)
        PROVE  /\ s \notin known => s \notin known'
               /\ s \notin adapters => s \notin adapters'
    <2>1. CASE DeleteSession(q) \/ DeleteFails(q) \/ Policy(q) \/ Touch(q)
      BY <1>3, <2>1 DEF DeleteSession, DeleteFails, Policy, Touch
    <2>2. CASE \E e \in Events, v \in 0..MaxUpdates : Learn(q, e, v) \/ LearnFails(q, e, v)
      BY <1>3, <2>2 DEF Learn, LearnFails
    <2>3. CASE \E name \in Names, f \in BOOLEAN : Snapshot(q, name, f)
      BY <1>3, <2>3 DEF Snapshot
    <2>4. CASE \E name \in Names, v \in 0..MaxUpdates :
                  Retire(q, name, v) \/ RetireUnsynced(q, name, v) \/ RetireReusing(q, name, v)
      BY <1>3, <2>4 DEF Retire, RetireUnsynced, RetireReusing, Started
    <2> QED
      BY <1>2, <1>4, <2>1, <2>2, <2>3, <2>4 DEF SessionStep
  <1>5. CASE SnapshotStep
    BY <1>3, <1>5 DEF SnapshotStep, Restore, RestoreFails, PublishExperience
  <1>6. CASE RetirePrepare \/ RetireRelease \/ RetireConfirm \/ RetireFails
    BY <1>3, <1>6 DEF RetirePrepare, RetireRelease, RetireConfirm, RetireFails
  <1> QED
    BY <1>1, <1>4, <1>5, <1>6 DEF Next

\* An identity whose retirement was attempted never gets a session or an adapter.
THEOREM RetiredStaysRetired == Spec => RetiredNeverReturns
  <1>1. TypeOK /\ [Next]_vars =>
          [\A s \in retired :
              /\ s \notin known => s \notin known'
              /\ s \notin adapters => s \notin adapters']_vars
    BY StepBringsNothingBack
  <1> QED
    BY <1>1, TypeCorrect, PTL DEF Spec, RetiredNeverReturns

-----------------------------------------------------------------------------
(* What retirement saves.                                                  *)

Saved(s, name) ==
    \E sn \in SnapshotsOf(s, name) : sn.logical = logical[s] /\ sn.weights = weights[s]

\* A witness stands for a snapshot of the live session, and so does the receipt
\* of a retirement until the session is released.
SavedInv ==
    /\ \A w \in witnesses : Saved(w.session, w.name)
    /\ stage \in {"prepare", "release"} => Saved(job.session, job.name)

LEMMA InitSaved == Init => SavedInv
  BY DEF Init, SavedInv

\* A call on one session drops its witness, so it may do what it likes to it.
LEMMA CallKeepsSaved ==
  ASSUME TypeOK, SavedInv, NEW s, Idle, Idle', snapshots \subseteq snapshots',
         \A w \in witnesses' : w \in witnesses /\ w.session # s,
         \A q \in Sessions \ {s} : weights'[q] = weights[q] /\ logical'[q] = logical[q]
  PROVE  SavedInv'
  <1>1. ASSUME NEW w \in witnesses' PROVE Saved(w.session, w.name)'
    <2>1. Saved(w.session, w.name) /\ w.session \in Sessions \ {s}
      BY <1>1 DEF SavedInv, TypeOK, DiskTyped, WitnessRecord
    <2> QED
      BY <2>1 DEF Saved, SnapshotsOf
  <1> QED
    BY <1>1 DEF SavedInv, Idle

LEMMA SessionKeepsSaved ==
  ASSUME TypeOK, SavedInv, NEW s \in Sessions, SessionStep(s) PROVE SavedInv'
  <1> USE DEF disk, device, store, memory, retirement
  <1>b. logical \in [Sessions -> State] /\ weights \in [Sessions -> Parameters]
    BY DEF TypeOK, SessionsTyped
  <1>1. CASE \E id \in Identities :
                CreateSession(s, id) \/ CreateFindsAllocation(s, id) \/ CreateFails(s, id)
    BY <1>1, <1>b, CallKeepsSaved
    DEF CreateSession, CreateFindsAllocation, CreateFails, MayCreate, Invalidated, Idle
  <1>2. CASE DeleteSession(s) \/ DeleteFails(s)
    BY <1>2, <1>b, CallKeepsSaved DEF DeleteSession, DeleteFails, Invalidated, Idle
  <1>3. CASE Policy(s) \/ Touch(s)
    BY <1>3, <1>b, CallKeepsSaved DEF Policy, Touch, Invalidated, Idle
  <1>4. CASE \E e \in Events, v \in 0..MaxUpdates : Learn(s, e, v) \/ LearnFails(s, e, v)
    BY <1>4, <1>b, CallKeepsSaved DEF Learn, LearnFails, MayLearn, Invalidated, Idle
  <1>5. ASSUME NEW name \in Names, NEW v \in 0..MaxUpdates, RetireUnsynced(s, name, v)
        PROVE  SavedInv'
    BY <1>5, <1>b, CallKeepsSaved DEF RetireUnsynced, MayRetire, Invalidated, Idle
  <1>6. ASSUME NEW name \in Names, NEW f \in BOOLEAN, Snapshot(s, name, f) PROVE SavedInv'
    <2> DEFINE st == [logical[s] EXCEPT !.completed = @ \/ f]
    <2> HIDE DEF st
    <2>1. /\ snapshots' = snapshots \cup {SnapshotOf(s, name, st, f)}
          /\ logical' = [logical EXCEPT ![s] = st]
          /\ UNCHANGED <<weights, stage, job>> /\ stage = "idle"
          /\ \A w \in witnesses' :
                \/ w \in witnesses /\ w.session # s
                \/ w = Witness(s, name, st)
      BY <1>6 DEF Snapshot, st, Idle
    <2>2. logical'[s] = st
      BY <1>b, <2>1
    <2>3. Saved(s, name)'
      <3>1. SnapshotOf(s, name, st, f) \in SnapshotsOf(s, name)'
        BY <2>1 DEF SnapshotsOf, SnapshotOf
      <3> QED
        BY <2>1, <2>2, <3>1 DEF Saved, SnapshotOf
    <2>4. ASSUME NEW w \in witnesses, w.session # s PROVE Saved(w.session, w.name)'
      <3>1. Saved(w.session, w.name) /\ w.session \in Sessions
        BY DEF SavedInv, TypeOK, DiskTyped, WitnessRecord
      <3> QED
        BY <1>b, <2>1, <2>4, <3>1 DEF Saved, SnapshotsOf
    <2> QED
      BY <2>1, <2>3, <2>4 DEF SavedInv, Witness
  <1>7. ASSUME NEW name \in Names, NEW v \in 0..MaxUpdates,
               Retire(s, name, v) \/ RetireReusing(s, name, v)
        PROVE  SavedInv'
    <2>1. PICK mode \in {"created", "reuse_verified"} : Started(s, name, mode)
      BY <1>7 DEF Retire, RetireReusing
    <2>2. /\ UNCHANGED <<logical, weights>> /\ stage' = "prepare"
          /\ job'.session = s /\ job'.name = name
          /\ \A w \in witnesses' : w \in witnesses
      BY <2>1 DEF Started, Receipt, Invalidated
    <2>3. snapshots \subseteq snapshots'
      BY <1>7 DEF Retire, RetireReusing
    <2>4. Saved(s, name)'
      <3>1. CASE Retire(s, name, v)
        <4>1. SnapshotOf(s, name, logical[s], FALSE) \in SnapshotsOf(s, name)'
          BY <3>1 DEF Retire, SnapshotsOf, SnapshotOf
        <4> QED
          BY <2>2, <4>1 DEF Saved, SnapshotOf
      <3>2. CASE RetireReusing(s, name, v)
        <4>1. Saved(s, name)
          BY <3>2 DEF RetireReusing, Reusable, SavedInv
        <4> QED
          BY <2>2, <2>3, <4>1 DEF Saved, SnapshotsOf
      <3> QED
        BY <1>7, <3>1, <3>2
    <2> QED
      BY <2>2, <2>3, <2>4 DEF SavedInv, Saved, SnapshotsOf
  <1> QED
    BY <1>1, <1>2, <1>3, <1>4, <1>5, <1>6, <1>7 DEF SessionStep

LEMMA OthersKeepSaved ==
  ASSUME TypeOK, SavedInv,
         SnapshotStep \/ RetirePrepare \/ RetireRelease \/ RetireConfirm \/ RetireFails,
         \A w \in witnesses : ~Idle => w.session # job.session
  PROVE  SavedInv'
  <1> USE DEF disk, device, store, memory, retirement
  <1>b. logical \in [Sessions -> State] /\ weights \in [Sessions -> Parameters]
    BY DEF TypeOK, SessionsTyped
  <1>1. CASE SnapshotStep
    <2>1. PICK sn \in snapshots :
             Restore(sn) \/ RestoreFails(sn) \/ \E x \in ExperienceIds : PublishExperience(x, sn)
      BY <1>1 DEF SnapshotStep
    <2> QED
      BY <1>b, <2>1, CallKeepsSaved
      DEF Restore, Restored, RestoreFails, PublishExperience, MayRestore, Invalidated, Idle
  <1>2. CASE RetireRelease
    <2>1. ASSUME NEW w \in witnesses PROVE Saved(w.session, w.name)'
      <3>1. Saved(w.session, w.name) /\ w.session \in Sessions /\ w.session # job.session
        BY <1>2 DEF SavedInv, TypeOK, DiskTyped, WitnessRecord, RetireRelease, Idle
      <3> QED
        BY <1>2, <1>b, <3>1 DEF RetireRelease, Saved, SnapshotsOf
    <2> QED
      BY <1>2, <2>1 DEF RetireRelease, SavedInv
  <1>3. CASE RetirePrepare \/ RetireConfirm \/ RetireFails
    BY <1>3 DEF RetirePrepare, RetireConfirm, RetireFails, SavedInv, Saved, SnapshotsOf
  <1> QED
    BY <1>1, <1>2, <1>3

\* A session under retirement has no witness.
NoWitnessInv == ~Idle => \A w \in witnesses : w.session # job.session

LEMMA NextNoWitness == ASSUME TypeOK, NoWitnessInv, [Next]_vars PROVE NoWitnessInv'
  <1> USE DEF disk, device, store, memory, retirement
  <1>1. CASE UNCHANGED vars
    BY <1>1 DEF vars, NoWitnessInv, Idle
  <1>2. CASE Idle'
    BY <1>2 DEF NoWitnessInv
  <1>3. ASSUME NEW s \in Sessions, SessionStep(s) PROVE NoWitnessInv'
    <2>1. CASE Idle /\ UNCHANGED stage
      BY <1>2, <2>1 DEF Idle
    <2>2. CASE \E name \in Names, v \in 0..MaxUpdates :
                  Retire(s, name, v) \/ RetireReusing(s, name, v)
      <3>1. PICK name \in Names, mode \in {"created", "reuse_verified"} : Started(s, name, mode)
        BY <2>2 DEF Retire, RetireReusing
      <3>2. job'.session = s
        BY <3>1 DEF Started, Receipt
      <3> QED
        BY <3>1, <3>2 DEF Started, Invalidated, NoWitnessInv
    <2>3. CASE \E id \in Identities :
                  CreateSession(s, id) \/ CreateFindsAllocation(s, id) \/ CreateFails(s, id)
      BY <2>1, <2>3 DEF CreateSession, CreateFindsAllocation, CreateFails, MayCreate
    <2>4. CASE DeleteSession(s) \/ DeleteFails(s) \/ Policy(s) \/ Touch(s)
      BY <2>1, <2>4 DEF DeleteSession, DeleteFails, Policy, Touch
    <2>5. CASE \E e \in Events, v \in 0..MaxUpdates : Learn(s, e, v) \/ LearnFails(s, e, v)
      BY <2>1, <2>5 DEF Learn, LearnFails, MayLearn
    <2>6. CASE \E name \in Names, f \in BOOLEAN : Snapshot(s, name, f)
      BY <2>1, <2>6 DEF Snapshot
    <2>7. CASE \E name \in Names, v \in 0..MaxUpdates : RetireUnsynced(s, name, v)
      BY <2>1, <2>7 DEF RetireUnsynced, MayRetire
    <2> QED
      BY <1>3, <2>2, <2>3, <2>4, <2>5, <2>6, <2>7 DEF SessionStep
  <1>4. CASE SnapshotStep
    BY <1>2, <1>4 DEF SnapshotStep, Restore, RestoreFails, PublishExperience, MayRestore, Idle
  <1>5. CASE RetirePrepare \/ RetireRelease \/ RetireConfirm \/ RetireFails
    BY <1>5 DEF RetirePrepare, RetireRelease, RetireConfirm, RetireFails, NoWitnessInv, Idle
  <1> QED
    BY <1>1, <1>3, <1>4, <1>5 DEF Next

LEMMA NextSaved == ASSUME TypeOK, NoWitnessInv, SavedInv, [Next]_vars PROVE SavedInv'
  <1>1. CASE UNCHANGED vars
    BY <1>1 DEF vars, SavedInv, Saved, SnapshotsOf
  <1> QED
    BY <1>1, SessionKeepsSaved, OthersKeepSaved DEF Next, NoWitnessInv

\* The step that drops a session under retirement finds its last state saved.
LEMMA ReleaseStepSaves ==
  ASSUME TypeOK, SavedInv, RetirementInv, [Next]_vars, NEW s \in known \ known', stage = "release"
  PROVE  /\ job.session = s /\ job \in prepared
         /\ \E sn \in SnapshotsOf(s, job.name) :
               sn.logical = logical[s] /\ sn.weights = weights[s]
  <1> USE DEF disk, device, store, memory, retirement
  <1>1. CASE RetireRelease
    BY <1>1 DEF RetireRelease, SavedInv, Saved, RetirementInv
  <1>2. CASE UNCHANGED known
    BY <1>2
  <1>3. CASE Idle
    BY <1>3 DEF Idle
  <1>4. ASSUME NEW q \in Sessions, SessionStep(q) PROVE Idle \/ UNCHANGED known
    BY <1>4
    DEF SessionStep, CreateSession, CreateFindsAllocation, CreateFails, MayCreate, DeleteSession,
        DeleteFails, Policy, Touch, Learn, LearnFails, MayLearn, Snapshot, Retire,
        RetireUnsynced, RetireReusing, MayRetire
  <1>5. CASE SnapshotStep
    BY <1>2, <1>5 DEF SnapshotStep, Restore, RestoreFails, PublishExperience
  <1>6. CASE RetirePrepare \/ RetireConfirm \/ RetireFails \/ UNCHANGED vars
    BY <1>2, <1>6 DEF RetirePrepare, RetireConfirm, RetireFails, vars
  <1> QED
    BY <1>1, <1>2, <1>3, <1>4, <1>5, <1>6 DEF Next

\* Releasing an adapter loses nothing: the snapshot named by the prepared record is
\* the last state of the session, whether it was taken for it or reused.
THEOREM ReleaseLosesNothing == Spec => ReleaseSavesLastState
  <1>1. Spec => []NoWitnessInv
    <2>1. Init => NoWitnessInv
      BY DEF Init, NoWitnessInv
    <2> QED
      BY <2>1, TypeCorrect, NextNoWitness, PTL DEF Spec
  <1>2. Spec => []SavedInv
    BY <1>1, TypeCorrect, InitSaved, NextSaved, PTL DEF Spec
  <1>3. Spec => []RetirementInv
    BY TypeCorrect, InitRetirement, NextRetirement, PTL DEF Spec
  <1>4. TypeOK /\ SavedInv /\ RetirementInv /\ [Next]_vars =>
          [\A s \in known \ known' :
              stage = "release" =>
                  /\ job.session = s /\ job \in prepared
                  /\ \E sn \in SnapshotsOf(s, job.name) :
                        sn.logical = logical[s] /\ sn.weights = weights[s]]_vars
    BY ReleaseStepSaves
  <1> QED
    BY <1>2, <1>3, <1>4, TypeCorrect, PTL DEF Spec, ReleaseSavesLastState
-----------------------------------------------------------------------------
(* The actor implements the serial service: its types.                     *)

Busy == {"taken", "running", "ended", "counted"}

\* Types, and what the state of the worker says of the counters.
Typed ==
    /\ queue \in Seq(Requests \cup {Sentinel})
    /\ closed \in BOOLEAN
    /\ worker \in Busy \cup {"waiting", "stopped"}
    /\ item \in Requests \cup {Sentinel}
    /\ worker \in Busy => item \in Requests
    /\ call \in [Requests -> {"idle", "waiting", "refused", "returned", "raised"}]
    /\ closing \in [Closers -> {"idle", "joining", "returned"}]
    /\ done \subseteq Requests
    /\ error \subseteq Requests
    /\ accepted \in Seq(Requests)

\* How many requests the worker has taken from the queue.
Taken == metrics["started"] + (IF worker = "taken" THEN 1 ELSE 0)

\* The counters follow the queue and the worker.
Counted ==
    /\ metrics \in [Counters -> Nat]
    /\ metrics["submitted"] = metrics["queued"] + metrics["started"]
    /\ metrics["active"] = IF worker \in {"running", "ended"} THEN 1 ELSE 0
    /\ metrics["started"] = metrics["active"] + metrics["completed"]
    /\ metrics["failed"] <= metrics["completed"]
    /\ metrics["submitted"] = Len(accepted)

\* The queue holds what was accepted and not taken yet, in order, and behind it
\* the sentinel once the actor is closed and until the worker has taken it.
SentinelQueued == closed /\ worker # "stopped"
Ordered ==
    /\ worker = "stopped" => closed /\ queue = <<>>
    /\ Taken + Len(queue) = Len(accepted) + (IF SentinelQueued THEN 1 ELSE 0)
    /\ \A i \in 1..Len(queue) :
          queue[i] = IF Taken + i <= Len(accepted) THEN accepted[Taken + i] ELSE Sentinel
    /\ worker \in Busy => Taken \in 1..Len(accepted) /\ item = accepted[Taken]

\* Whoever waits is in the part of the log that is not yet answered.
Tracked ==
    /\ \A r \in Requests :
          call[r] \in {"waiting", "returned", "raised"} <=>
              \E i \in DOMAIN accepted : accepted[i] = r
    /\ \A i \in DOMAIN accepted :
          i < Taken \/ (i = Taken /\ worker \notin Busy) => accepted[i] \in done

Inv == Typed /\ Counted /\ Ordered /\ Tracked

LEMMA InitInv == ActorInit => Inv
  <1> SUFFICES ASSUME ActorInit PROVE Inv
    OBVIOUS
  <1>1. Typed
    <2>1. queue \in Seq(Requests \cup {Sentinel}) /\ accepted \in Seq(Requests)
      BY DEF ActorInit
    <2>2. call \in [Requests -> {"idle", "waiting", "refused", "returned", "raised"}]
      BY DEF ActorInit
    <2>3. closing \in [Closers -> {"idle", "joining", "returned"}]
      BY DEF ActorInit
    <2> QED
      BY <2>1, <2>2, <2>3 DEF ActorInit, Typed, Busy
  <1>2. Counted
    <2>1. metrics \in [Counters -> Nat] /\ \A k \in Counters : metrics[k] = 0
      BY DEF ActorInit
    <2>2. worker = "waiting" /\ Len(accepted) = 0
      BY DEF ActorInit
    <2> QED
      <3>1. /\ metrics["submitted"] = 0 /\ metrics["queued"] = 0 /\ metrics["started"] = 0
            /\ metrics["active"] = 0 /\ metrics["completed"] = 0 /\ metrics["failed"] = 0
        BY <2>1 DEF Counters
      <3> QED
        BY <2>1, <2>2, <3>1 DEF Counted
  <1>3. Ordered
    BY DEF ActorInit, Ordered, Taken, SentinelQueued, Counters, Busy
  <1>4. Tracked
    BY DEF ActorInit, Tracked, Taken, Busy, Counters
  <1> QED
    BY <1>1, <1>2, <1>3, <1>4 DEF Inv

LEMMA SubmitInv == ASSUME Inv, NEW r \in Requests, Submit(r) PROVE Inv'
  <1> USE DEF Inv, threads
  <1>0. /\ metrics \in [Counters -> Nat] /\ Counters = {"submitted", "queued", "started", "active", "completed", "failed"}
    BY DEF Counted, Counters
  <1>1. /\ metrics'["submitted"] = metrics["submitted"] + 1
        /\ metrics'["queued"] = metrics["queued"] + 1
        /\ metrics' \in [Counters -> Nat]
        /\ \A k \in {"started", "active", "completed", "failed"} : metrics'[k] = metrics[k]
    BY <1>0 DEF Submit
  <1>2. Typed'
    BY DEF Submit, Typed
  <1>3. Counted'
    <2>1. worker' = worker /\ Len(accepted') = Len(accepted) + 1 /\ Len(accepted) \in Nat
      BY DEF Submit, Typed
    <2> QED
      BY <1>0, <1>1, <2>1 DEF Counted
  <1>4. Taken' = Taken /\ Taken \in Nat
    BY <1>0, <1>1 DEF Taken, Submit
  <1>5. Len(accepted') = Len(accepted) + 1 /\ Len(queue') = Len(queue) + 1
    BY DEF Submit, Typed
  <1>6. Ordered'
    <2>1. ~SentinelQueued /\ ~SentinelQueued' /\ worker # "stopped" /\ worker' # "stopped"
      BY DEF Submit, SentinelQueued, Ordered
    <2>2. Taken + Len(queue) = Len(accepted)
      BY <1>4, <2>1 DEF Ordered, Typed
    <2>3. ASSUME NEW i \in 1..Len(queue')
          PROVE  queue'[i] = IF Taken' + i <= Len(accepted') THEN accepted'[Taken' + i] ELSE Sentinel
      <3>1. CASE i \in 1..Len(queue)
        <4>1. queue[i] = accepted[Taken + i] /\ Taken + i \in 1..Len(accepted)
          BY <1>4, <2>2, <3>1 DEF Ordered, Typed
        <4>2. queue'[i] = queue[i] /\ accepted'[Taken + i] = accepted[Taken + i]
          BY <3>1, <4>1 DEF Submit, Typed
        <4> QED
          BY <1>4, <1>5, <4>1, <4>2 DEF Typed
      <3>2. CASE i = Len(queue) + 1
        <4>1. queue'[i] = r /\ accepted'[Len(accepted) + 1] = r
          BY <3>2 DEF Submit, Typed
        <4>2. Taken' + i = Len(accepted) + 1
          BY <1>4, <2>2, <3>2 DEF Typed
        <4> QED
          BY <1>5, <4>1, <4>2 DEF Typed
      <3> QED
        BY <1>5, <3>1, <3>2 DEF Typed
    <2>4. worker' \in Busy => Taken' \in 1..Len(accepted') /\ item' = accepted'[Taken']
      <3>1. \A i \in 1..Len(accepted) : accepted'[i] = accepted[i]
        BY DEF Submit, Typed
      <3> QED
        BY <1>4, <1>5, <3>1 DEF Submit, Ordered, Typed
    <2>5. Taken' + Len(queue') = Len(accepted') + (IF SentinelQueued' THEN 1 ELSE 0)
      <3>1. Len(queue) \in Nat /\ Len(accepted) \in Nat
        BY DEF Typed
      <3> QED
        BY <1>4, <1>5, <2>1, <2>2, <3>1
    <2> QED
      BY <2>1, <2>3, <2>4, <2>5 DEF Ordered
  <1>7. Tracked'
    <2>1. /\ \A i \in DOMAIN accepted : accepted'[i] = accepted[i]
          /\ accepted'[Len(accepted) + 1] = r
          /\ DOMAIN accepted' = DOMAIN accepted \cup {Len(accepted) + 1}
          /\ DOMAIN accepted = 1..Len(accepted)
      BY DEF Submit, Typed
    <2>2. Taken <= Len(accepted)
      <3>1. Taken + Len(queue) = Len(accepted)
        BY <1>4 DEF Ordered, SentinelQueued, Submit, Typed
      <3> QED
        BY <1>4, <3>1 DEF Typed
    <2>4. \A q \in Requests :
             call'[q] \in {"waiting", "returned", "raised"} <=>
                 \E i \in DOMAIN accepted' : accepted'[i] = q
      <3> SUFFICES ASSUME NEW q \in Requests
                   PROVE  call'[q] \in {"waiting", "returned", "raised"} <=>
                              \E i \in DOMAIN accepted' : accepted'[i] = q
        OBVIOUS
      <3>1. CASE q = r
        BY <2>1, <3>1 DEF Submit, Typed
      <3>2. CASE q # r
        <4>1. call'[q] = call[q]
          BY <3>2 DEF Submit, Typed
        <4> QED
          BY <2>1, <3>2, <4>1 DEF Tracked
      <3> QED
        BY <3>1, <3>2
    <2>6. ASSUME NEW i \in DOMAIN accepted', i < Taken' \/ (i = Taken' /\ worker' \notin Busy)
          PROVE  accepted'[i] \in done'
      <3>1. i \in DOMAIN accepted
        BY <1>4, <2>1, <2>2, <2>6 DEF Typed
      <3> QED
        BY <1>4, <2>1, <2>6, <3>1 DEF Tracked, Submit
    <2> QED
      BY <2>4, <2>6 DEF Tracked
  <1> QED
    BY <1>2, <1>3, <1>6, <1>7

\* A step that touches neither the queue nor what the worker counts.
LEMMA CallerInv ==
  ASSUME Inv, UNCHANGED <<queue, closed, threads, metrics, accepted>>,
         closing' \in [Closers -> {"idle", "joining", "returned"}],
         call' \in [Requests -> {"idle", "waiting", "refused", "returned", "raised"}],
         \A q \in Requests : call'[q] \in {"waiting", "returned", "raised"}
                                <=> call[q] \in {"waiting", "returned", "raised"}
  PROVE  Inv'
  <1> USE DEF Inv, threads
  <1>1. Typed'
    BY DEF Typed
  <1>2. Counted'
    BY DEF Counted
  <1>3. Taken' = Taken
    BY DEF Taken
  <1>4. Ordered'
    BY <1>3 DEF Ordered, SentinelQueued
  <1>5. Tracked'
    BY <1>3 DEF Tracked
  <1> QED
    BY <1>1, <1>2, <1>4, <1>5

LEMMA CallersInv ==
  ASSUME Inv, \/ \E r \in Requests : Refuse(r) \/ Return(r)
              \/ \E c \in Closers : Joined(c)
  PROVE  Inv'
  <1>1. ASSUME NEW r \in Requests, Refuse(r) PROVE Inv'
    <2>1. call' \in [Requests -> {"idle", "waiting", "refused", "returned", "raised"}]
      BY <1>1 DEF Refuse, Inv, Typed
    <2>2. \A q \in Requests : call'[q] \in {"waiting", "returned", "raised"}
                                 <=> call[q] \in {"waiting", "returned", "raised"}
      BY <1>1 DEF Refuse, Inv, Typed
    <2> QED
      BY <1>1, <2>1, <2>2, CallerInv DEF Refuse, Inv, Typed
  <1>2. ASSUME NEW r \in Requests, Return(r) PROVE Inv'
    <2>1. call' \in [Requests -> {"idle", "waiting", "refused", "returned", "raised"}]
      BY <1>2 DEF Return, Inv, Typed
    <2>2. \A q \in Requests : call'[q] \in {"waiting", "returned", "raised"}
                                 <=> call[q] \in {"waiting", "returned", "raised"}
      BY <1>2 DEF Return, Inv, Typed
    <2> QED
      BY <1>2, <2>1, <2>2, CallerInv DEF Return, Inv, Typed
  <1>3. ASSUME NEW c \in Closers, Joined(c) PROVE Inv'
    <2>1. closing' \in [Closers -> {"idle", "joining", "returned"}]
      BY <1>3 DEF Joined, Inv, Typed
    <2> QED
      BY <1>3, <2>1, CallerInv DEF Joined, Inv, Typed
  <1> QED
    BY <1>1, <1>2, <1>3

LEMMA CloseInv == ASSUME Inv, NEW c \in Closers, Close(c) PROVE Inv'
  <1> USE DEF Inv, threads
  <1>1. Typed'
    <2>1. closing' \in [Closers -> {"idle", "joining", "returned"}]
      BY DEF Close, Typed
    <2>2. queue' \in Seq(Requests \cup {Sentinel}) /\ closed' \in BOOLEAN
      BY DEF Close, Typed
    <2> QED
      BY <2>1, <2>2 DEF Close, Typed
  <1>2. Counted'
    BY DEF Close, Counted
  <1>3. Taken' = Taken /\ Taken \in Nat
    BY DEF Taken, Close, Counted, Counters
  <1>4. Tracked'
    BY <1>3 DEF Close, Tracked
  <1>5. CASE closed
    BY <1>1, <1>2, <1>3, <1>4, <1>5 DEF Close, Ordered, SentinelQueued
  <1>6. CASE ~closed
    <2>1. worker # "stopped" /\ worker' = worker /\ ~SentinelQueued /\ SentinelQueued'
      BY <1>6 DEF Close, Ordered, SentinelQueued
    <2>2. Taken + Len(queue) = Len(accepted) /\ Len(queue) \in Nat /\ accepted' = accepted
      BY <1>3, <2>1 DEF Ordered, Typed, Close
    <2>3. Len(queue') = Len(queue) + 1 /\ queue'[Len(queue) + 1] = Sentinel
      BY <1>6 DEF Close, Typed
    <2>4. ASSUME NEW i \in 1..Len(queue')
          PROVE  queue'[i] = IF Taken' + i <= Len(accepted') THEN accepted'[Taken' + i] ELSE Sentinel
      <3>1. CASE i \in 1..Len(queue)
        <4>1. queue'[i] = queue[i]
          BY <1>6, <3>1 DEF Close, Typed
        <4> QED
          BY <1>3, <2>2, <3>1, <4>1 DEF Ordered
      <3>2. CASE i = Len(queue) + 1
        BY <1>3, <2>2, <2>3, <3>2
      <3> QED
        BY <2>2, <2>3, <3>1, <3>2
    <2>5. Taken' + Len(queue') = Len(accepted') + (IF SentinelQueued' THEN 1 ELSE 0)
      BY <1>3, <2>1, <2>2, <2>3
    <2>6. worker' \in Busy => Taken' \in 1..Len(accepted') /\ item' = accepted'[Taken']
      BY <1>3 DEF Close, Ordered
    <2>7. Ordered'
      BY <2>1, <2>4, <2>5, <2>6 DEF Ordered
    <2> QED
      BY <1>1, <1>2, <1>4, <2>7
  <1> QED
    BY <1>5, <1>6

LEMMA TakeInv == ASSUME Inv, Take PROVE Inv'
  <1> USE DEF Inv
  <1>0. metrics' = metrics /\ metrics["started"] \in Nat /\ worker = "waiting"
    BY DEF Take, Counted, Counters
  <1>1. /\ Taken = metrics["started"] /\ Taken \in Nat
        /\ Len(queue) \in Nat \ {0} /\ Len(accepted) \in Nat /\ accepted' = accepted
    BY <1>0 DEF Taken, Take, Typed
  <1>2. /\ Len(queue') = Len(queue) - 1
        /\ \A i \in 1..Len(queue') : queue'[i] = queue[i + 1]
        /\ queue' \in Seq(Requests \cup {Sentinel})
        /\ Head(queue) = queue[1] /\ queue[1] \in Requests \cup {Sentinel}
    BY <1>1 DEF Take, Typed
  <1>3. queue[1] = IF Taken + 1 <= Len(accepted) THEN accepted[Taken + 1] ELSE Sentinel
    BY <1>1 DEF Ordered
  <1>4. Counted'
    BY <1>0, <1>1 DEF Take, Counted
  <1>5. CASE queue[1] = Sentinel
    <2>1. Taken + 1 > Len(accepted)
      <3> SUFFICES ASSUME Taken + 1 <= Len(accepted) PROVE FALSE
        BY <1>1
      <3>1. accepted[Taken + 1] \in Requests
        BY <1>1 DEF Typed
      <3> QED
        BY <1>3, <1>5, <3>1, ActorAssumption
    <2>2. closed /\ Taken = Len(accepted) /\ Len(queue) = 1
      <3>1. Taken + Len(queue) = Len(accepted) + (IF closed THEN 1 ELSE 0)
        BY <1>0 DEF Ordered, SentinelQueued
      <3>2. closed
        <4> SUFFICES ASSUME ~closed PROVE FALSE
          OBVIOUS
        <4> QED
          BY <1>1, <2>1, <3>1
      <3>3. Taken + Len(queue) = Len(accepted) + 1
        BY <3>1, <3>2
      <3>4. Taken = Len(accepted) /\ Len(queue) = 1
        <4> DEFINE t == Taken  a == Len(accepted)  n == Len(queue)
        <4>1. t \in Nat /\ a \in Nat /\ n \in Nat \ {0} /\ t + 1 > a /\ t + n = a + 1
          BY <1>1, <2>1, <3>3
        <4> HIDE DEF t, a, n
        <4>2. t = a /\ n = 1
          BY <4>1
        <4> QED
          BY <4>2 DEF t, a, n
      <3> QED
        BY <3>2, <3>4
    <2>3. worker' = "stopped" /\ closed' /\ Taken' = Taken /\ queue' = <<>> /\ item' = Sentinel
      <3>1. worker' = "stopped" /\ item' = Sentinel /\ closed'
        BY <1>2, <1>5, <2>2 DEF Take
      <3>2. queue' = <<>>
        BY <1>2, <2>2
      <3> QED
        BY <1>0, <1>1, <3>1, <3>2 DEF Taken
    <2>4. Typed'
      BY <1>2, <2>3 DEF Take, Typed, Busy
    <2>5. Ordered'
      BY <1>1, <1>2, <2>2, <2>3 DEF Ordered, SentinelQueued, Busy
    <2>6. Tracked'
      BY <1>0, <1>1, <2>3 DEF Take, Tracked, Busy
    <2> QED
      BY <1>4, <2>4, <2>5, <2>6
  <1>6. CASE queue[1] # Sentinel
    <2>1. Taken + 1 <= Len(accepted) /\ queue[1] = accepted[Taken + 1]
      BY <1>3, <1>6
    <2>2. worker' = "taken" /\ item' = queue[1] /\ closed' = closed
      BY <1>2, <1>6 DEF Take
    <2>3. Taken' = Taken + 1
      BY <1>0, <1>1, <2>2 DEF Taken
    <2>4. Typed'
      BY <1>2, <1>6, <2>2 DEF Take, Typed, Busy
    <2>5. Ordered'
      <3>1. Taken' + Len(queue') = Len(accepted') + (IF SentinelQueued' THEN 1 ELSE 0)
        BY <1>0, <1>1, <1>2, <2>2, <2>3 DEF Ordered, SentinelQueued
      <3>2. ASSUME NEW i \in 1..Len(queue')
            PROVE  queue'[i] = IF Taken' + i <= Len(accepted') THEN accepted'[Taken' + i] ELSE Sentinel
        <4>1. i + 1 \in 1..Len(queue) /\ Taken' + i = Taken + (i + 1)
          <5>1. i \in Int /\ 1 <= i /\ i <= Len(queue) - 1
            BY <1>1, <1>2
          <5> QED
            BY <1>1, <2>3, <5>1
        <4>2. queue[i + 1] = IF Taken + (i + 1) <= Len(accepted)
                             THEN accepted[Taken + (i + 1)] ELSE Sentinel
          BY <4>1 DEF Ordered
        <4> QED
          BY <1>1, <1>2, <4>1, <4>2
      <3>3. worker' \in Busy => Taken' \in 1..Len(accepted') /\ item' = accepted'[Taken']
        BY <1>1, <2>1, <2>2, <2>3
      <3> QED
        BY <2>2, <3>1, <3>2, <3>3 DEF Ordered
    <2>6. Tracked'
      BY <1>0, <1>1, <2>2, <2>3 DEF Take, Tracked, Typed, Busy
    <2> QED
      BY <1>4, <2>4, <2>5, <2>6
  <1> QED
    BY <1>5, <1>6

\* A step of the busy worker that leaves the queue and the log alone.
LEMMA WorkerInv ==
  ASSUME Inv, Counted', worker \in Busy, worker' \in Busy, Taken' = Taken,
         UNCHANGED <<queue, closed, item, call, closing, done, accepted>>,
         error' \subseteq Requests
  PROVE  Inv'
  <1> USE DEF Inv
  <1>1. Typed'
    BY DEF Typed, Busy
  <1>2. Ordered'
    <2>1. worker # "stopped" /\ worker' # "stopped"
      BY DEF Busy
    <2> QED
      BY <2>1 DEF Ordered, SentinelQueued
  <1>3. Tracked'
    BY DEF Tracked
  <1> QED
    BY <1>1, <1>2, <1>3

\* The counters by name.
LEMMA CountersAreNaturals ==
  ASSUME Counted
  PROVE  /\ metrics["submitted"] \in Nat /\ metrics["queued"] \in Nat
         /\ metrics["started"] \in Nat /\ metrics["active"] \in Nat
         /\ metrics["completed"] \in Nat /\ metrics["failed"] \in Nat
  BY DEF Counted, Counters

LEMMA StartInv == ASSUME Inv, Start PROVE Inv'
  <1> USE DEF Inv
  <1>1. worker = "taken" /\ worker' = "running" /\ worker \in Busy /\ worker' \in Busy
    BY DEF Start, Busy
  <1>2. Taken = metrics["started"] + 1 /\ Taken <= Len(accepted) /\ Len(accepted) \in Nat
    BY <1>1 DEF Taken, Ordered, Typed
  <1>3. metrics["queued"] >= 1
    BY <1>2, CountersAreNaturals DEF Counted
  <1>4. /\ metrics' \in [Counters -> Nat]
        /\ metrics'["queued"] = metrics["queued"] - 1
        /\ metrics'["started"] = metrics["started"] + 1
        /\ metrics'["active"] = metrics["active"] + 1
        /\ metrics'["submitted"] = metrics["submitted"]
        /\ metrics'["completed"] = metrics["completed"]
        /\ metrics'["failed"] = metrics["failed"]
    <2>1. metrics["queued"] - 1 \in Nat
      BY <1>3, CountersAreNaturals
    <2> QED
      BY <2>1, CountersAreNaturals DEF Start, Counted, Counters
  <1>5. Counted'
    <2>1. accepted' = accepted /\ metrics["active"] = 0
      BY <1>1 DEF Start, Counted
    <2>2. metrics'["submitted"] = metrics'["queued"] + metrics'["started"]
      <3>1. metrics["submitted"] = metrics["queued"] + metrics["started"]
        BY DEF Counted
      <3>2. metrics["queued"] \in Nat /\ metrics["started"] \in Nat
        BY CountersAreNaturals
      <3> QED
        BY <1>4, <3>1, <3>2
    <2>3. metrics'["started"] = metrics'["active"] + metrics'["completed"]
      BY <1>4, CountersAreNaturals DEF Counted
    <2>4. metrics'["active"] = 1
      BY <1>4, <2>1
    <2>5. metrics'["failed"] <= metrics'["completed"] /\ metrics'["submitted"] = Len(accepted')
      BY <1>4, <2>1 DEF Counted
    <2> QED
      BY <1>1, <1>4, <2>2, <2>3, <2>4, <2>5 DEF Counted
  <1>6. Taken' = Taken
    <2>1. Taken' = metrics'["started"]
      <3>1. metrics'["started"] \in Nat
        BY <1>4, CountersAreNaturals
      <3> QED
        BY <1>1, <3>1 DEF Taken
    <2> QED
      BY <1>2, <1>4, <2>1
  <1> QED
    BY <1>1, <1>5, <1>6, WorkerInv DEF Start, Typed

LEMMA RunInv == ASSUME Inv, Run PROVE Inv'
  <1> USE DEF Inv
  <1>1. worker = "running" /\ worker' = "ended" /\ worker \in Busy /\ worker' \in Busy
    BY DEF Run, Busy
  <1>2. Counted'
    BY <1>1 DEF Run, Counted
  <1>3. Taken' = Taken
    BY <1>1 DEF Run, Taken
  <1>4. error' \subseteq Requests
    BY <1>1 DEF Run, Typed
  <1> QED
    BY <1>1, <1>2, <1>3, <1>4, WorkerInv DEF Run

LEMMA CountInv == ASSUME Inv, Count PROVE Inv'
  <1> USE DEF Inv
  <1>1. worker = "ended" /\ worker' = "counted" /\ worker \in Busy /\ worker' \in Busy
    BY DEF Count, Busy
  <1>2. metrics["active"] = 1
    BY <1>1 DEF Counted
  <1>3. PICK f \in {0, 1} :
          metrics' = [metrics EXCEPT !["active"] = @ - 1, !["completed"] = @ + 1,
                                     !["failed"] = @ + f]
    BY DEF Count
  <1>4. /\ metrics' \in [Counters -> Nat]
        /\ metrics'["active"] = 0
        /\ metrics'["completed"] = metrics["completed"] + 1
        /\ metrics'["failed"] = metrics["failed"] + f
        /\ \A k \in {"submitted", "queued", "started"} : metrics'[k] = metrics[k]
    BY <1>2, <1>3, CountersAreNaturals DEF Counted, Counters
  <1>5. Counted'
    <2>1. accepted' = accepted
      BY DEF Count
    <2> QED
      BY <1>1, <1>2, <1>4, <2>1, CountersAreNaturals DEF Counted
  <1>6. Taken' = Taken
    BY <1>1, <1>4 DEF Taken
  <1> QED
    BY <1>1, <1>5, <1>6, WorkerInv DEF Count, Typed

LEMMA SignalInv == ASSUME Inv, Signal PROVE Inv'
  <1> USE DEF Inv
  <1>1. /\ worker = "counted" /\ worker' = "waiting" /\ worker \in Busy /\ worker' \notin Busy
        /\ metrics' = metrics /\ accepted' = accepted /\ queue' = queue /\ closed' = closed
        /\ done' = done \cup {item}
    BY DEF Signal, Busy
  <1>2. Taken' = Taken /\ Taken \in Nat
    BY <1>1, CountersAreNaturals DEF Taken
  <1>3. Typed'
    BY <1>1 DEF Signal, Typed
  <1>4. Counted'
    BY <1>1 DEF Counted
  <1>5. Ordered'
    BY <1>1, <1>2 DEF Ordered, SentinelQueued
  <1>6. Tracked'
    <2>1. ASSUME NEW i \in DOMAIN accepted, i <= Taken PROVE accepted[i] \in done'
      <3>1. CASE i = Taken
        BY <1>1, <3>1 DEF Ordered
      <3>2. CASE i # Taken
        <4>1. i \in Int
          BY DEF Typed
        <4>2. i < Taken
          BY <1>2, <2>1, <3>2, <4>1
        <4> QED
          BY <1>1, <4>2 DEF Tracked
      <3> QED
        BY <3>1, <3>2
    <2>2. ASSUME NEW i \in DOMAIN accepted, i < Taken \/ i = Taken PROVE i <= Taken
      BY <1>2, <2>2 DEF Typed
    <2> QED
      BY <1>1, <1>2, <2>1, <2>2 DEF Signal, Tracked
  <1> QED
    BY <1>3, <1>4, <1>5, <1>6

LEMMA StepInv == Inv /\ [ActorNext]_actorVars => Inv'
  <1> SUFFICES ASSUME Inv, [ActorNext]_actorVars PROVE Inv'
    OBVIOUS
  <1>1. CASE \E r \in Requests : Submit(r)
    BY <1>1, SubmitInv
  <1>2. CASE (\E r \in Requests : Refuse(r) \/ Return(r)) \/ (\E c \in Closers : Joined(c))
    BY <1>2, CallersInv
  <1>3. CASE \E c \in Closers : Close(c)
    BY <1>3, CloseInv
  <1>4. CASE Worker
    BY <1>4, TakeInv, StartInv, RunInv, CountInv, SignalInv DEF Worker
  <1>5. CASE UNCHANGED actorVars
    <2>1. call' = call /\ closing' = closing
      BY <1>5 DEF actorVars
    <2>2. /\ closing' \in [Closers -> {"idle", "joining", "returned"}]
          /\ call' \in [Requests -> {"idle", "waiting", "refused", "returned", "raised"}]
      BY <2>1 DEF Inv, Typed
    <2>3. UNCHANGED <<queue, closed, threads, metrics, accepted>>
      BY <1>5 DEF actorVars, threads
    <2> QED
      BY <2>1, <2>2, <2>3, CallerInv
  <1> QED
    BY <1>1, <1>2, <1>3, <1>4, <1>5 DEF ActorNext

THEOREM Invariance == ActorSpec => []Inv
  BY InitInv, StepInv, PTL DEF ActorSpec

-----------------------------------------------------------------------------
(* What follows from the invariant.                                        *)

\* Every variable keeps its type.
THEOREM ActorTypeCorrect == ActorSpec => []ActorTypeOK
  <1>1. Inv => ActorTypeOK
    BY DEF Inv, Typed, Counted, ActorTypeOK, Busy
  <1> QED
    BY <1>1, Invariance, PTL

\* The counters that metrics() reads add up at every moment.
THEOREM CountersAddUp == ActorSpec => []MetricsAddUp
  <1>1. Inv => MetricsAddUp
    BY CountersAreNaturals DEF Inv, Counted, MetricsAddUp
  <1> QED
    BY <1>1, Invariance, PTL

\* When the worker has stopped, every accepted request has its answer: no
\* request was queued behind the sentinel of close.
THEOREM NothingLeftBehind == ActorSpec => []StoppedIsDrained
  <1>1. Inv => StoppedIsDrained
    <2> SUFFICES ASSUME Inv, worker = "stopped", NEW r \in Requests, call[r] = "waiting"
                 PROVE  r \in done
      BY DEF StoppedIsDrained
    <2>1. Taken = Len(accepted)
      <3>1. Len(queue) = 0 /\ ~SentinelQueued
        BY DEF Inv, Ordered, SentinelQueued
      <3>2. Taken \in Nat /\ Len(accepted) \in Nat
        BY CountersAreNaturals DEF Inv, Typed, Taken
      <3> QED
        BY <3>1, <3>2 DEF Inv, Ordered
    <2>2. PICK i \in DOMAIN accepted : accepted[i] = r
      BY DEF Inv, Tracked
    <2>3. i < Taken \/ i = Taken
      BY <2>1 DEF Inv, Typed
    <2> QED
      BY <2>2, <2>3 DEF Inv, Tracked, Busy
  <1> QED
    BY <1>1, Invariance, PTL

-----------------------------------------------------------------------------
(* The actor implements the serial service.                                *)

LEMMA Initially == ActorInit => Service!Init
  BY DEF ActorInit, Service!Init, Counters

LEMMA Simulation ==
  ASSUME Inv, [ActorNext]_actorVars
  PROVE  [Service!Next]_<<accepted,
                          metrics["started"] - (IF worker = "running" THEN 1 ELSE 0),
                          IF worker = "running" THEN item ELSE Sentinel,
                          ~closed>>
  <1> DEFINE served == metrics["started"] - (IF worker = "running" THEN 1 ELSE 0)
             running == IF worker = "running" THEN item ELSE Sentinel
  <1>1. ASSUME NEW r \in Requests, Submit(r) PROVE Service!Accept(r)
    <2>1. \A i \in DOMAIN accepted : accepted[i] # r
      BY <1>1 DEF Submit, Inv, Tracked
    <2>2. served' = served /\ running' = running
      BY <1>1 DEF Submit, threads, Inv, Counted, Counters
    <2> QED
      BY <1>1, <2>1, <2>2 DEF Submit, Service!Accept
  <1>2. ASSUME NEW c \in Closers, Close(c)
        PROVE  Service!Close \/ UNCHANGED <<accepted, served, running, closed>>
    BY <1>2 DEF Close, threads, Service!Close
  <1>3. ASSUME (\E r \in Requests : Refuse(r) \/ Return(r)) \/ (\E c \in Closers : Joined(c))
        PROVE  UNCHANGED <<accepted, served, running, closed>>
    BY <1>3 DEF Refuse, Return, Joined, threads
  <1>4. ASSUME Take PROVE UNCHANGED <<accepted, served, running, closed>>
    BY <1>4 DEF Take
  <1>5. ASSUME Start PROVE Service!Begin
    <2>1. /\ worker = "taken" /\ Taken = metrics["started"] + 1
          /\ Taken \in 1..Len(accepted) /\ item = accepted[Taken] /\ metrics["started"] \in Nat
      BY <1>5, CountersAreNaturals DEF Start, Inv, Ordered, Busy, Taken
    <2>2. metrics'["started"] = metrics["started"] + 1
      BY <1>5 DEF Start, Inv, Counted, Counters
    <2>3. served = metrics["started"] /\ running = Sentinel
      BY <2>1
    <2>4. served' = metrics["started"] /\ running' = accepted[Taken]
      BY <1>5, <2>1, <2>2 DEF Start
    <2>5. metrics["started"] < Len(accepted)
      <3>1. Len(accepted) \in Nat
        BY DEF Inv, Typed
      <3> QED
        BY <2>1, <3>1
    <2> QED
      BY <1>5, <2>1, <2>3, <2>4, <2>5 DEF Start, Service!Begin
  <1>6. ASSUME Run PROVE Service!End
    <2>1. item \in Requests /\ item # Sentinel /\ metrics["started"] \in Nat
      BY <1>6, ActorAssumption, CountersAreNaturals DEF Run, Inv, Typed, Busy
    <2>2. served = metrics["started"] - 1 /\ running = item
      BY <1>6 DEF Run
    <2>3. served' = metrics["started"] /\ running' = Sentinel
      BY <1>6, <2>1 DEF Run
    <2> QED
      BY <1>6, <2>1, <2>2, <2>3 DEF Run, Service!End
  <1>7. ASSUME Count PROVE UNCHANGED <<accepted, served, running, closed>>
    BY <1>7 DEF Count, Inv, Counted, Counters
  <1>8. ASSUME Signal PROVE UNCHANGED <<accepted, served, running, closed>>
    BY <1>8 DEF Signal
  <1> QED
    BY <1>1, <1>2, <1>3, <1>4, <1>5, <1>6, <1>7, <1>8
    DEF ActorNext, Worker, actorVars, Service!Next

\* The actor implements the serial service, for every set of callers: work runs
\* one item at a time, in the order of acceptance, and never after close.
THEOREM Serial == ActorSpec => ServesSerially
  <1>1. ActorInit => Service!Init
    BY Initially
  <1>2. Inv /\ [ActorNext]_actorVars => [Service!Next]_<<accepted,
            metrics["started"] - (IF worker = "running" THEN 1 ELSE 0),
            IF worker = "running" THEN item ELSE Sentinel, ~closed>>
    BY Simulation
  <1> QED
    BY <1>1, <1>2, Invariance, PTL DEF ActorSpec, ServesSerially, Service!Spec
=============================================================================
