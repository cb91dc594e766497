---------------------------- MODULE LearnerProofs ----------------------------
(* Theorems about Learner, for any number of processes, datasets and steps: *)
(* what is on disk after failures, deaths and restores, what a coordinator  *)
(* that goes on knows of it, and that the run implements ReleaseLine.       *)
EXTENDS Learner, FiniteSetTheorems, TLAPS

-----------------------------------------------------------------------------
(* The inductive invariant.                                                *)

\* The control log: at most one intent without its commit, and the commits are
\* a chain of stored checkpoints, each one event longer than its parent.
LogShape ==
    /\ Len(intents) \in Count..(Count + 1) /\ Len(intents) <= MaxSteps
    /\ Chained
    /\ \A n \in 1..Count : commits[n] \in checkpoints /\ Len(commits[n].events) = n

\* The records: announcements and confirmations of commits, a confirmation only
\* of what was announced and released, and no gap below the last commit.
RecordShape ==
    /\ enabled \/ records \cup staged = {}
    /\ \A r \in records \cup staged :
          /\ r.step \in 1..Count
          /\ r \in {Announced(r.step), Confirmed(r.step, commits[r.step])}
    /\ \A r \in records : r.release # None => r.release \in releases /\ Announced(r.step) \in records
    /\ enabled => \A n \in 1..(Count - 1) : Confirmed(n, commits[n]) \in records

\* Nothing is on disk before the run is created.
Blank == created \/ (~torn /\ ~enabled /\ lease = None /\ intents = <<>> /\ commits = <<>>)

\* The writer lease: one coordinator at most, and only one that is not blocked
\* is in the middle of an operation.
Leased ==
    /\ live = IF lease = None THEN {} ELSE {lease}
    /\ \A p \in Processes : Idle(p) \/ p \in live \ blocked

\* No step above the log was trained, and none twice.
TrainedOnce == NeverTrainedTwice /\ \A i \in DOMAIN trained : trained[i].step <= Len(intents)

\* What a coordinator that is not blocked remembers is what is on disk.
Remembers(p) ==
    /\ created /\ ~torn /\ staged \subseteq records
    /\ p \in resident
    /\ memory[p].parent = Last /\ memory[p].step = Count
    /\ memory[p].cursor = Last.cursor /\ memory[p].catalog = Last.catalog
    /\ memory[p].cache = PublishedHead

\* The event a coordinator trains on is the next one of the run.
NextEvent(p) ==
    /\ job[p] \in Event /\ job[p].step = Count + 1
    /\ Len(job[p].batch) = BatchSize
    /\ SubSeq(job[p].catalog, 1, Len(Last.catalog)) = Last.catalog
    /\ ~Pending

\* How far its operation is, in each phase.
Progress(p) ==
    /\ phase[p] \in {"announce", "learn", "save", "commit"} => NextEvent(p)
    /\ Len(intents) = IF phase[p] \in {"learn", "save", "commit"} THEN Count + 1 ELSE Count
    /\ session[p] =
          IF phase[p] \in {"save", "commit"} THEN Append(Last.events, job[p]) ELSE Last.events
    /\ phase[p] \in {"learn", "save", "commit"} =>
          intents[Count + 1] = [event |-> job[p], parent |-> Last]
    /\ phase[p] = "learn" => \A i \in DOMAIN trained : trained[i].step <= Count
    /\ phase[p] = "commit" => CheckpointBy(p) \in checkpoints
    /\ phase[p] \in {"intend", "release", "confirm"} => Pending
    /\ phase[p] \in {"idle", "intend"} => ~PendingIntent
    /\ phase[p] \in {"release", "confirm"} => Announced(Count) \in records
    /\ phase[p] = "confirm" => commits[Count] \in releases

Healthy == \A p \in live \ blocked : Remembers(p) /\ Progress(p)

\* The inductive invariant.
IInv == TypeOK /\ LogShape /\ RecordShape /\ Blank /\ Leased /\ TrainedOnce /\ Healthy

DiskInv == DiskTyped /\ LogShape /\ RecordShape

-----------------------------------------------------------------------------
(* Facts about what is read from the disk.                                 *)

\* What a run starts from is a checkpoint.
LEMMA NoCheckpointType == NoCheckpoint \in Checkpoint
  BY RunAssumption DEF NoCheckpoint, Checkpoint, Catalog

\* The last checkpoint, and how far it is.
LEMMA LastType ==
  ASSUME DiskTyped, LogShape
  PROVE  /\ Count \in 0..MaxSteps /\ \A n \in 1..Count : commits[n] \in Checkpoint
         /\ Last \in Checkpoint /\ Len(Last.events) = Count
  <1>1. Count \in Nat /\ \A n \in 1..Count : commits[n] \in Checkpoint
    BY DEF DiskTyped, Count
  <1>2. Count <= MaxSteps
    BY <1>1, RunAssumption DEF LogShape, DiskTyped
  <1>3. CASE commits = <<>>
    BY <1>1, <1>2, <1>3, NoCheckpointType, RunAssumption DEF Last, NoCheckpoint, Count
  <1>4. CASE commits # <<>>
    <2>1. Count \in 1..Count
      BY <1>1, <1>4 DEF DiskTyped, Count
    <2> QED
      BY <1>1, <1>2, <1>4, <2>1 DEF Last, LogShape
  <1> QED
    BY <1>3, <1>4

\* An announcement is no confirmation; each names its step.
LEMMA RecordKinds ==
  ASSUME DiskTyped, LogShape, NEW n \in 1..Count
  PROVE  /\ Announced(n).release = None /\ Announced(n).step = n
         /\ Announced(n).checkpoint = commits[n]
         /\ Confirmed(n, commits[n]).release # None /\ Confirmed(n, commits[n]).step = n
         /\ Confirmed(n, commits[n]).checkpoint = commits[n]
         /\ Confirmed(n, commits[n]).release = commits[n]
         /\ Announced(n) \in Record /\ Confirmed(n, commits[n]) \in Record
         /\ Announced(n) # Confirmed(n, commits[n])
  <1>1. commits[n] \in Checkpoint /\ commits[n] # None /\ n \in 1..MaxSteps
    BY LastType, NoneAssumption, RunAssumption
  <1> QED
    BY <1>1 DEF Announced, Confirmed, Record

\* What the records of one commit are.
LEMMA RecordsOf ==
  ASSUME DiskInv, NEW n \in 1..Count
  PROVE  /\ IntentOf(n) \subseteq {Announced(n)}
         /\ Announced(n) \in records => IntentOf(n) = {Announced(n)}
         /\ DoneOf(n) \subseteq {Confirmed(n, commits[n])}
         /\ Confirmed(n, commits[n]) \in records =>
               DoneOf(n) = {Confirmed(n, commits[n])} /\ IntentOf(n) = {Announced(n)}
  <1>1. IntentOf(n) \subseteq {Announced(n)}
    BY RecordKinds DEF DiskInv, RecordShape, IntentOf
  <1>2. DoneOf(n) \subseteq {Confirmed(n, commits[n])}
    BY RecordKinds DEF DiskInv, RecordShape, DoneOf
  <1>3. Announced(n) \in records => Announced(n) \in IntentOf(n)
    BY RecordKinds DEF DiskInv, IntentOf
  <1>4. Confirmed(n, commits[n]) \in records => Confirmed(n, commits[n]) \in DoneOf(n)
    BY RecordKinds DEF DiskInv, DoneOf
  <1>5. Confirmed(n, commits[n]) \in records => Announced(n) \in records
    BY RecordKinds DEF DiskInv, RecordShape
  <1> QED
    BY <1>1, <1>2, <1>3, <1>4, <1>5

\* How many commits are published.
Published == IF ~enabled THEN 0 ELSE IF Pending THEN Count - 1 ELSE Count

\* The commits up to there have their confirmation, in order and without a gap.
LEMMA PublishedDone ==
  ASSUME DiskInv
  PROVE  /\ Published \in 0..Count
         /\ \A n \in 1..Published : Confirmed(n, commits[n]) \in records
         /\ enabled => Gapless
         /\ PublishedHead =
               IF Published = 0 THEN None ELSE Confirmed(Published, commits[Published])
  <1>0. Count \in Nat
    BY LastType DEF DiskInv
  <1>1. Published \in 0..Count
    BY <1>0 DEF Published, Pending
  <1>2. ASSUME NEW n \in 1..Published PROVE Confirmed(n, commits[n]) \in records
    <2>1. enabled /\ n \in 1..Count
      BY <1>0, <1>1, <1>2 DEF Published
    <2>2. CASE n < Count
      BY <2>1, <2>2, <1>0 DEF DiskInv, RecordShape
    <2>3. CASE n = Count
      <3>1. ~Pending
        BY <1>0, <1>2, <2>1, <2>3 DEF Published
      <3>2. DoneOf(n) # {}
        BY <3>1, <2>1, <2>3, <1>0 DEF Pending
      <3> QED
        BY <3>2, <2>1, RecordsOf DEF DoneOf
    <2> QED
      BY <2>1, <2>2, <2>3, <1>0
  <1>3. ASSUME enabled PROVE Gapless
    <2>1. ASSUME NEW n \in DOMAIN commits
          PROVE  \/ /\ IntentOf(n) = {Announced(n)}
                    /\ \E d \in DoneOf(n) : d.checkpoint = commits[n]
                 \/ n = Count /\ DoneOf(n) = {} /\ IntentOf(n) \subseteq {Announced(n)}
      <3>0. n \in 1..Count
        BY <2>1 DEF DiskInv, DiskTyped, Count
      <3>1. CASE Confirmed(n, commits[n]) \in records
        BY <3>0, <3>1, RecordsOf, RecordKinds DEF DiskInv
      <3>2. CASE Confirmed(n, commits[n]) \notin records
        <4>1. n = Count
          BY <3>0, <3>2, <1>0, <1>3 DEF DiskInv, RecordShape
        <4>2. DoneOf(n) = {}
          BY <3>0, <3>2, RecordsOf DEF DoneOf
        <4> QED
          BY <3>0, <4>1, <4>2, RecordsOf
      <3> QED
        BY <3>1, <3>2
    <2>2. \A r \in records : r.step \in DOMAIN commits
      BY DEF DiskInv, RecordShape, DiskTyped, Count
    <2> QED
      BY <2>1, <2>2 DEF Gapless
  <1>4. PublishedHead =
           IF Published = 0 THEN None ELSE Confirmed(Published, commits[Published])
    <2>1. CASE Published = 0
      BY <2>1, <1>0 DEF PublishedHead, Published
    <2>2. CASE Published # 0
      <3>1. enabled /\ Published \in 1..Count /\ Published \in 1..Published
        BY <2>2, <1>0, <1>1 DEF Published
      <3>2. DoneOf(Published) = {Confirmed(Published, commits[Published])}
        BY <3>1, <1>2, RecordsOf
      <3>3. PublishedHead = CHOOSE d \in DoneOf(Published) : TRUE
        BY <3>1, <2>2 DEF PublishedHead, Published
      <3> QED
        BY <3>2, <3>3, <2>2
    <2> QED
      BY <2>1, <2>2
  <1> QED
    BY <1>1, <1>2, <1>3, <1>4

\* Where the published head stands.
HeadFacts ==
    /\ Published \in 0..Count
    /\ PublishedHead =
          IF Published = 0 THEN None ELSE Confirmed(Published, commits[Published])

LEMMA HeadStands == DiskInv => HeadFacts
  BY PublishedDone DEF HeadFacts

\* The same after a step.
LEMMA HeadStandsNext == DiskInv' => HeadFacts'
  BY HeadStands, PTL

\* What is read of the commits and their confirmations follows them.
LEMMA SameDone ==
  ASSUME UNCHANGED <<commits, enabled>>, \A n : UNCHANGED DoneOf(n)
  PROVE  UNCHANGED <<Count, Last, Pending, PublishedHead>>
  <1>1. UNCHANGED <<Count, Last>>
    BY DEF Count, Last
  <1>2. UNCHANGED Pending
    BY <1>1 DEF Pending
  <1> DEFINE n == IF Pending THEN Count - 1 ELSE Count
             D == DoneOf(n)
  <1>3. D' = D /\ n' = n
    BY <1>1, <1>2
  <1>4. (CHOOSE d \in D : TRUE)' = (CHOOSE d \in D : TRUE)
    <2> HIDE DEF D
    <2> QED
      BY <1>3
  <1>5. PublishedHead = IF ~enabled \/ n = 0 THEN None ELSE (CHOOSE d \in D : TRUE)
    BY Zenon DEF PublishedHead
  <1>6. PublishedHead' =
           IF ~enabled' \/ n' = 0 THEN None ELSE (CHOOSE d \in D : TRUE)'
    BY Zenon DEF PublishedHead
  <1> HIDE DEF D, n
  <1> QED
    BY <1>1, <1>2, <1>3, <1>4, <1>5, <1>6

\* What is read of commits and records follows them.
LEMMA SameHead ==
  ASSUME UNCHANGED <<commits, records, enabled>>
  PROVE  /\ UNCHANGED <<Count, Last, Pending, PendingIntent, PublishedHead>>
         /\ \A n : UNCHANGED <<Announced(n), IntentOf(n), DoneOf(n)>>
  <1>1. \A n : UNCHANGED <<Announced(n), IntentOf(n), DoneOf(n)>>
    BY DEF Announced, IntentOf, DoneOf
  <1>2. UNCHANGED <<Count, Last, Pending, PublishedHead>>
    BY <1>1, SameDone
  <1>3. UNCHANGED PendingIntent
    BY <1>1, <1>2 DEF PendingIntent
  <1> QED
    BY <1>1, <1>2, <1>3

\* No record names a commit that is not there yet.
LEMMA NoRecordAhead ==
  ASSUME DiskInv
  PROVE  {r \in records : r.step = Count + 1} = {}
  BY LastType DEF DiskInv, RecordShape

-----------------------------------------------------------------------------
(* What each write leaves of the invariant.                                *)

\* The parts that only depend on the log.
LEMMA IntentWritten ==
  ASSUME DiskInv, NEW p \in Processes, Remembers(p), NextEvent(p), Len(intents) = Count,
         WriteIntent(p)
  PROVE  /\ DiskInv' /\ UNCHANGED <<commits, records, enabled>>
         /\ Len(intents') = Count + 1
         /\ intents'[Count + 1] = [event |-> job[p], parent |-> Last]
  <1> DEFINE i == [event |-> job[p], parent |-> Last]
  <1>1. i \in [event: Event, parent: Checkpoint] /\ job[p].step \in 1..MaxSteps
    BY LastType DEF DiskInv, NextEvent, Event
  <1>2. intents' = Append(intents, i)
    BY DEF WriteIntent, Remembers
  <1> HIDE DEF i
  <1>3. /\ intents' \in Seq([event: Event, parent: Checkpoint])
        /\ Len(intents') = Count + 1 /\ intents'[Count + 1] = i
        /\ \A n \in 1..Count : intents'[n] = intents[n]
    BY <1>1, <1>2, LastType DEF DiskInv, DiskTyped
  <1>4. UNCHANGED <<created, torn, commits, checkpoints, enabled, releases, records, staged>>
    BY DEF WriteIntent, publication
  <1>5. DiskTyped'
    BY <1>3, <1>4 DEF DiskInv, DiskTyped
  <1>6. LogShape'
    <2>1. Chained'
      <3>1. \A n \in DOMAIN commits : n \in 1..Count
        BY DEF DiskInv, DiskTyped, Count
      <3> QED
        BY <1>3, <1>4, <3>1 DEF DiskInv, LogShape, Chained, Parent
    <2>2. Len(intents') <= MaxSteps
      BY <1>1, <1>3 DEF NextEvent
    <2> QED
      BY <1>3, <1>4, <2>1, <2>2, LastType DEF DiskInv, LogShape, Count
  <1>7. RecordShape'
    BY <1>4 DEF DiskInv, RecordShape, Announced, Confirmed, Count
  <1> QED
    BY <1>3, <1>4, <1>5, <1>6, <1>7 DEF DiskInv, i

\* A checkpoint that passes validation is typed.
LEMMA CheckpointByType ==
  ASSUME DiskInv, OwnerTyped, NEW p \in Processes, job[p] \in Event
  PROVE  CheckpointBy(p) \in Checkpoint
  <1>1. session[p] \in Seq(Event) /\ memory[p].cursor + BatchSize \in Nat /\ job[p].catalog \in Catalog
    <2>1. session[p] \in Seq(Event) /\ memory[p] \in Memory
      BY DEF OwnerTyped
    <2>2. memory[p].cursor \in Nat /\ job[p].catalog \in Catalog
      BY <2>1 DEF Memory, Event
    <2> QED
      BY <2>1, <2>2, RunAssumption
  <1> QED
    BY <1>1 DEF CheckpointBy, Checkpoint

\* Storing a checkpoint or a release.
LEMMA Stored ==
  ASSUME DiskInv, NEW c \in Checkpoint,
         UNCHANGED <<created, torn, intents, commits, enabled, records, staged>>,
         \/ checkpoints' = checkpoints \cup {c} /\ UNCHANGED releases
         \/ c \in checkpoints /\ releases' = releases \cup {c} /\ UNCHANGED checkpoints
  PROVE  DiskInv'
  <1>1. DiskTyped'
    BY DEF DiskInv, DiskTyped
  <1>2. LogShape'
    BY DEF DiskInv, LogShape, Chained, Parent, Count
  <1>3. RecordShape'
    BY DEF DiskInv, RecordShape, Announced, Confirmed, Count
  <1> QED
    BY <1>1, <1>2, <1>3 DEF DiskInv

\* A commit on top of a published one.
LEMMA CommitWritten ==
  ASSUME DiskInv, OwnerTyped, NEW p \in Processes, Remembers(p), Progress(p),
         phase[p] = "commit", WriteCommit(p)
  PROVE  /\ DiskInv'
         /\ commits' = Append(commits, CheckpointBy(p)) /\ Count' = Count + 1
         /\ CheckpointBy(p) \in Checkpoint /\ Last' = CheckpointBy(p)
         /\ Last'.events = Append(Last.events, job[p])
         /\ UNCHANGED <<created, torn, intents, checkpoints, enabled, releases, records, staged>>
  <1>1. /\ NextEvent(p) /\ Len(intents) = Count + 1
        /\ session[p] = Append(Last.events, job[p])
        /\ intents[Count + 1] = [event |-> job[p], parent |-> Last]
        /\ CheckpointBy(p) \in checkpoints
    BY DEF Progress
  <1>2. /\ commits' = Append(commits, CheckpointBy(p))
        /\ UNCHANGED <<created, torn, intents, checkpoints, enabled, releases, records, staged>>
    BY DEF WriteCommit, publication
  <1>3. /\ CheckpointBy(p) \in Checkpoint /\ CheckpointBy(p).events = Append(Last.events, job[p])
        /\ CheckpointBy(p) = CheckpointBy(p)
    BY <1>1, CheckpointByType DEF NextEvent, CheckpointBy
  <1>4. Len(CheckpointBy(p).events) = Count + 1
    BY <1>1, <1>3, LastType DEF NextEvent, DiskInv, Checkpoint
  <1> DEFINE c == CheckpointBy(p)
  <1> HIDE DEF c
  <1>5. /\ commits' \in Seq(Checkpoint) /\ Len(commits') = Count + 1
        /\ commits'[Count + 1] = c
        /\ \A n \in 1..Count : commits'[n] = commits[n]
    BY <1>2, <1>3, LastType DEF DiskInv, DiskTyped, Count, c
  <1>6. Count' = Count + 1 /\ Last' = c
    <2>1. Count' = Count + 1
      BY <1>5 DEF Count
    <2>2. commits' # <<>>
      BY <1>5, LastType DEF DiskInv
    <2> QED
      BY <1>5, <2>1, <2>2 DEF Last
  <1>7. DiskTyped'
    BY <1>2, <1>5 DEF DiskInv, DiskTyped
  <1>8. LogShape'
    <2>1. /\ Len(intents') \in Count'..(Count' + 1) /\ Len(intents') <= MaxSteps
      BY <1>1, <1>2, <1>6, LastType DEF DiskInv, LogShape
    <2>2. ASSUME NEW n \in 1..(Count + 1)
          PROVE  intents[n].event.step = n /\ intents[n].parent = Parent(n)'
      <3>1. CASE n = Count + 1
        <4>1. intents[n].event.step = n /\ intents[n].parent = Last
          BY <1>1, <3>1 DEF NextEvent
        <4>2. CASE Count = 0
          BY <4>1, <4>2, <3>1, <1>5 DEF Last, Parent, Count, DiskInv, DiskTyped
        <4>3. CASE Count # 0
          <5>1. Count \in 1..Count /\ commits # <<>> /\ n # 1 /\ n - 1 = Count
            BY <4>3, <3>1, LastType DEF DiskInv, Count
          <5> QED
            BY <4>1, <5>1, <1>5 DEF Last, Parent
        <4> QED
          BY <4>2, <4>3
      <3>2. CASE n \in 1..Count
        <4>1. intents[n].event.step = n /\ intents[n].parent = Parent(n)
          BY <3>2 DEF DiskInv, LogShape, Chained, DiskTyped, Count
        <4>2. n # 1 => n - 1 \in 1..Count
          BY <3>2, LastType DEF DiskInv
        <4> QED
          BY <4>1, <4>2, <1>5 DEF Parent
      <3> QED
        BY <3>1, <3>2, LastType DEF DiskInv
    <2>3. Chained'
      BY <2>2, <1>2, <1>5, LastType DEF Chained, DiskInv
    <2>4. ASSUME NEW n \in 1..(Count + 1)
          PROVE  commits'[n] \in checkpoints' /\ Len(commits'[n].events) = n
      BY <1>1, <1>2, <1>4, <1>5, <2>4, LastType DEF DiskInv, LogShape, c
    <2> QED
      BY <2>1, <2>3, <2>4, <1>6 DEF LogShape
  <1>9. RecordShape'
    <2>1. enabled \/ records \cup staged = {}
      BY DEF DiskInv, RecordShape
    <2>2. ASSUME NEW r \in records \cup staged
          PROVE  /\ r.step \in 1..Count'
                 /\ r \in {Announced(r.step)', Confirmed(r.step, commits[r.step])'}
      <3>1. r.step \in 1..Count /\ r \in {Announced(r.step), Confirmed(r.step, commits[r.step])}
        BY <2>2 DEF DiskInv, RecordShape
      <3> QED
        BY <3>1, <1>5, <1>6, LastType DEF DiskInv, Announced, Confirmed
    <2>3. ASSUME NEW r \in records, r.release # None
          PROVE  r.release \in releases /\ Announced(r.step)' \in records
      <3>1. r.release \in releases /\ Announced(r.step) \in records /\ r.step \in 1..Count
        BY <2>3 DEF DiskInv, RecordShape
      <3> QED
        BY <3>1, <1>5 DEF Announced
    <2>4. ASSUME enabled, NEW n \in 1..Count PROVE Confirmed(n, commits[n])' \in records
      <3>1. Published = Count
        BY <2>4, <1>1 DEF NextEvent, Published
      <3>2. Confirmed(n, commits[n]) \in records
        BY <3>1, PublishedDone
      <3> QED
        BY <3>2, <1>5 DEF Confirmed
    <2>5. Count' - 1 = Count
      BY <1>6, LastType DEF DiskInv
    <2>6. enabled => \A n \in 1..(Count' - 1) : Confirmed(n, commits[n])' \in records
      BY <2>4, <2>5
    <2>7. \A r \in records \cup staged :
             /\ r.step \in 1..Count'
             /\ r \in {Announced(r.step)', Confirmed(r.step, commits[r.step])'}
      BY <2>2
    <2> QED
      BY <1>2, <2>1, <2>7, <2>3, <2>6 DEF RecordShape
  <1> QED
    BY <1>2, <1>3, <1>6, <1>7, <1>8, <1>9 DEF DiskInv, c

\* A record is written: an announcement of the last commit, or its confirmation
\* when it was announced and released.
Writable(r) ==
    /\ enabled /\ Count > 0
    /\ \/ r = Announced(Count)
       \/ /\ r = Confirmed(Count, commits[Count])
          /\ Announced(Count) \in records /\ commits[Count] \in releases

\* What such a record is.
LEMMA WritableType ==
  ASSUME DiskInv, NEW r, Writable(r)
  PROVE  /\ r \in Record /\ r.step = Count /\ r.step \in 1..Count
         /\ r \in {Announced(r.step), Confirmed(r.step, commits[r.step])}
         /\ r.release # None => r.release \in releases /\ Announced(r.step) \in records
  <1>1. Count \in 1..Count
    BY LastType DEF DiskInv, Writable
  <1> QED
    BY <1>1, RecordKinds DEF DiskInv, Writable

\* Only the records change, and keep their shape.
LEMMA RecordWritten ==
  ASSUME DiskInv, NEW r, Writable(r), WriteRecord(r)
  PROVE  /\ DiskInv' /\ records' = records \cup {r}
         /\ UNCHANGED <<created, torn, intents, commits, checkpoints, releases, enabled, staged>>
  <1>1. /\ records' = records \cup {r}
        /\ UNCHANGED <<created, torn, intents, commits, checkpoints, releases, enabled, staged>>
    BY DEF WriteRecord, training
  <1>2. DiskTyped'
    BY <1>1, WritableType DEF DiskInv, DiskTyped
  <1>3. LogShape'
    BY <1>1 DEF DiskInv, LogShape, Chained, Parent, Count
  <1>4. RecordShape'
    <2>1. \A n : UNCHANGED <<Announced(n), Confirmed(n, commits[n]), Count>>
      BY <1>1 DEF Announced, Confirmed, Count
    <2>2. enabled
      BY DEF Writable
    <2>3. ASSUME NEW q \in records' \cup staged'
          PROVE  /\ q.step \in 1..Count
                 /\ q \in {Announced(q.step), Confirmed(q.step, commits[q.step])}
      BY <1>1, <2>3, WritableType DEF DiskInv, RecordShape
    <2>4. ASSUME NEW q \in records', q.release # None
          PROVE  q.release \in releases /\ Announced(q.step) \in records'
      BY <1>1, <2>4, WritableType DEF DiskInv, RecordShape
    <2>5. \A n \in 1..(Count - 1) : Confirmed(n, commits[n]) \in records'
      BY <1>1, <2>2 DEF DiskInv, RecordShape
    <2> HIDE DEF Announced, Confirmed
    <2> QED
      BY <1>1, <2>1, <2>2, <2>3, <2>4, <2>5 DEF RecordShape
  <1> QED
    BY <1>1, <1>2, <1>3, <1>4 DEF DiskInv

\* A record that is only staged.
LEMMA RecordStaged ==
  ASSUME DiskInv, NEW r, Writable(r), RecordIsStaged(r)
  PROVE  /\ DiskInv'
         /\ UNCHANGED <<created, torn, intents, commits, checkpoints, releases, enabled, records>>
  <1>1. /\ staged' = staged \cup {r}
        /\ UNCHANGED <<created, torn, intents, commits, checkpoints, releases, enabled, records>>
    BY DEF RecordIsStaged, training
  <1>2. DiskTyped'
    BY <1>1, WritableType DEF DiskInv, DiskTyped
  <1>3. LogShape'
    BY <1>1 DEF DiskInv, LogShape, Chained, Parent, Count
  <1>4. RecordShape'
    <2>1. \A n : UNCHANGED <<Announced(n), Confirmed(n, commits[n]), Count>>
      BY <1>1 DEF Announced, Confirmed, Count
    <2>2. enabled
      BY DEF Writable
    <2>3. ASSUME NEW q \in records' \cup staged'
          PROVE  /\ q.step \in 1..Count
                 /\ q \in {Announced(q.step), Confirmed(q.step, commits[q.step])}
      BY <1>1, <2>3, WritableType DEF DiskInv, RecordShape
    <2> QED
      BY <1>1, <2>1, <2>2, <2>3 DEF DiskInv, RecordShape
  <1> QED
    BY <1>1, <1>2, <1>3, <1>4 DEF DiskInv

\* A write that is cut short leaves a record that cannot be read.
LEMMA WriteCut ==
  ASSUME DiskInv, WriteIsCut
  PROVE  /\ DiskInv'
         /\ UNCHANGED <<created, intents, commits, checkpoints, releases, enabled, records, staged>>
  <1>1. /\ torn' \in BOOLEAN
        /\ UNCHANGED <<created, intents, commits, checkpoints, releases, enabled, records, staged>>
    BY DEF WriteIsCut, training, publication
  <1>2. DiskTyped'
    BY <1>1 DEF DiskInv, DiskTyped
  <1>3. LogShape'
    BY <1>1 DEF DiskInv, LogShape, Chained, Parent, Count
  <1>4. RecordShape'
    BY <1>1 DEF DiskInv, RecordShape, Announced, Confirmed, Count
  <1> QED
    BY <1>1, <1>2, <1>3, <1>4 DEF DiskInv

-----------------------------------------------------------------------------
(* Who acts, and what a process that stops leaves behind.                  *)

\* The coordinator that is not blocked is alone and knows the disk.
LEMMA Acting ==
  ASSUME IInv, NEW p \in Processes, p \in live \ blocked
  PROVE  /\ Remembers(p) /\ Progress(p) /\ created /\ ~torn
         /\ lease = p /\ live = {p} /\ p # None
         /\ DiskInv /\ OwnerTyped
         /\ memory[p] \in Memory /\ session[p] \in Seq(Event)
  BY NoneAssumption DEF IInv, Leased, Healthy, Remembers, DiskInv, TypeOK, OwnerTyped

\* Whoever is in the middle of an operation is that coordinator.
LEMMA Busy ==
  ASSUME IInv, NEW p \in Processes, ~Idle(p)
  PROVE  p \in live \ blocked
  BY DEF IInv, Leased

\* The records that are written in the phases of a publication.
LEMMA PhaseWrites ==
  ASSUME IInv, NEW p \in Processes
  PROVE  /\ phase[p] = "intend" => Writable(Announced(Count))
         /\ phase[p] = "release" => commits[Count] \in checkpoints /\ commits[Count] \in Checkpoint
         /\ phase[p] = "confirm" => Writable(Confirmed(Count, commits[Count]))
  <1>1. ASSUME phase[p] \in {"intend", "release", "confirm"}
        PROVE  Progress(p) /\ Pending /\ Count \in 1..Count /\ DiskInv
    <2>1. Progress(p) /\ DiskInv
      BY <1>1, Acting, Busy DEF Idle
    <2>2. Pending
      BY <1>1, <2>1 DEF Progress
    <2> QED
      BY <2>1, <2>2, LastType DEF Pending, DiskInv
  <1>2. phase[p] = "intend" => Writable(Announced(Count))
    BY <1>1 DEF Writable, Pending
  <1>3. phase[p] = "release" => commits[Count] \in checkpoints /\ commits[Count] \in Checkpoint
    BY <1>1, LastType DEF DiskInv, LogShape
  <1>4. phase[p] = "confirm" => Writable(Confirmed(Count, commits[Count]))
    BY <1>1 DEF Writable, Pending, Progress
  <1> QED
    BY <1>2, <1>3, <1>4

\* What is on disk when a process stops, wherever it stops.
LEMMA Interruption ==
  ASSUME IInv, NEW p \in Processes, Interrupted(p, intents)
  PROVE  /\ DiskInv' /\ UNCHANGED <<created, enabled>> /\ Len(intents') >= Len(intents)
         /\ Idle(p) => UNCHANGED <<torn, intents, commits, checkpoints, releases, records, staged>>
  <1>0. DiskInv /\ Len(intents) \in Nat
    BY DEF IInv, TypeOK, DiskInv, DiskTyped
  <1>1. CASE /\ intents' = intents
             /\ UNCHANGED <<created, torn, commits, checkpoints, enabled, publication>>
    <2>1. UNCHANGED <<created, torn, intents, commits, checkpoints, enabled, releases, records, staged>>
      BY <1>1 DEF publication
    <2>2. DiskInv'
      BY <1>0, <2>1 DEF DiskInv, DiskTyped, LogShape, Chained, Parent, RecordShape, Count,
         Announced, Confirmed
    <2> QED
      BY <1>0, <2>1, <2>2
  <1>2. CASE phase[p] = "announce" /\ WriteIntent(p)
    <2>1. p \in live \ blocked
      BY <1>2, Busy DEF Idle
    <2>2. Remembers(p) /\ NextEvent(p) /\ Len(intents) = Count
      BY <1>2, <2>1, Acting DEF Progress
    <2>3. DiskInv' /\ Len(intents') >= Len(intents)
      <3>1. DiskInv' /\ Len(intents') = Count + 1
        BY <1>0, <1>2, <2>2, IntentWritten
      <3> QED
        BY <3>1, <1>0, <2>2
    <2> QED
      BY <1>2, <2>3 DEF WriteIntent, Idle
  <1>3. CASE phase[p] = "save" /\ WriteCheckpoint(p)
    <2>1. p \in live \ blocked
      BY <1>3, Busy DEF Idle
    <2>2. NextEvent(p) /\ OwnerTyped
      BY <1>3, <2>1, Acting DEF Progress
    <2>3. CheckpointBy(p) \in Checkpoint
      BY <1>0, <2>2, CheckpointByType DEF NextEvent
    <2>4. /\ checkpoints' = checkpoints \cup {CheckpointBy(p)}
          /\ UNCHANGED <<created, torn, intents, commits, enabled, releases, records, staged>>
      BY <1>3 DEF WriteCheckpoint, publication
    <2>5. DiskInv'
      BY <1>0, <2>3, <2>4, Stored
    <2> QED
      BY <1>0, <1>3, <2>4, <2>5 DEF Idle
  <1>4. CASE phase[p] = "commit" /\ WriteCommit(p)
    <2>1. p \in live \ blocked
      BY <1>4, Busy DEF Idle
    <2>2. Remembers(p) /\ Progress(p) /\ OwnerTyped
      BY <2>1, Acting
    <2>3. DiskInv' /\ UNCHANGED <<created, enabled, intents>>
      BY <1>0, <1>4, <2>2, CommitWritten
    <2> QED
      BY <1>0, <1>4, <2>3 DEF Idle
  <1>5. ASSUME NEW r, Writable(r), RecordIsWritten(r)
        PROVE  DiskInv' /\ UNCHANGED <<created, enabled, intents>>
    BY <1>0, <1>5, RecordWritten, RecordStaged, WriteCut DEF RecordIsWritten
  <1>6. CASE \/ phase[p] = "intend" /\ RecordIsWritten(Announced(Count))
             \/ phase[p] = "confirm" /\ RecordIsWritten(Confirmed(Count, commits[Count]))
    <2>1. DiskInv' /\ UNCHANGED <<created, enabled, intents>>
      BY <1>5, <1>6, PhaseWrites
    <2> QED
      BY <1>0, <1>6, <2>1 DEF Idle
  <1>7. CASE phase[p] = "release" /\ WriteRelease(commits[Count])
    <2>1. commits[Count] \in Checkpoint
      BY <1>7, PhaseWrites
    <2>2. /\ commits[Count] \in checkpoints /\ releases' = releases \cup {commits[Count]}
          /\ UNCHANGED <<created, torn, intents, commits, checkpoints, enabled, records, staged>>
      BY <1>7 DEF WriteRelease, training
    <2>3. DiskInv'
      BY <1>0, <2>1, <2>2, Stored
    <2> QED
      BY <1>0, <1>7, <2>2, <2>3 DEF Idle
  <1>8. CASE WriteIsCut /\ ~Idle(p)
    BY <1>0, <1>8, WriteCut
  <1> QED
    BY <1>1, <1>2, <1>3, <1>4, <1>6, <1>7, <1>8 DEF Interrupted, Idle

\* The history of training: what the interrupted process was asked is counted.
LEMMA TrainedKept ==
  ASSUME IInv, NEW p \in Processes, trained' \in {trained, TrainedBy(p)},
         Len(intents') >= Len(intents), Len(intents') \in Nat
  PROVE  trained' \in Seq(Event) /\ TrainedOnce'
  <1>0. /\ trained \in Seq(Event) /\ Len(intents) \in Nat
        /\ \A i \in DOMAIN trained : trained[i].step \in Nat
    <2>1. trained \in Seq(Event) /\ Len(intents) \in Nat
      BY DEF IInv, TypeOK, DiskTyped
    <2>2. \A e \in Event : e.step \in Nat
      BY RunAssumption DEF Event
    <2>3. \A i \in DOMAIN trained : trained[i] \in Event
      BY <2>1
    <2> QED
      BY <2>1, <2>2, <2>3
  <1>1. CASE trained' = trained
    BY <1>0, <1>1 DEF IInv, TrainedOnce, NeverTrainedTwice
  <1>2. CASE phase[p] = "learn" /\ trained' = Append(trained, job[p])
    <2>1. p \in live \ blocked
      BY <1>2, Busy DEF Idle
    <2>2. /\ job[p] \in Event /\ job[p].step = Count + 1 /\ Len(intents) = Count + 1
          /\ \A i \in DOMAIN trained : trained[i].step <= Count
          /\ Count \in Nat
      <3>1. Progress(p) /\ Count \in Nat
        BY <2>1, Acting, LastType DEF DiskInv
      <3>2. NextEvent(p)
        BY <1>2, <3>1 DEF Progress
      <3>3. Len(intents) = Count + 1 /\ \A i \in DOMAIN trained : trained[i].step <= Count
        BY <1>2, <3>1 DEF Progress
      <3> QED
        BY <3>1, <3>2, <3>3 DEF NextEvent
    <2>3. /\ trained' \in Seq(Event) /\ DOMAIN trained' = 1..(Len(trained) + 1)
          /\ \A i \in 1..Len(trained) : trained'[i] = trained[i]
          /\ trained'[Len(trained) + 1] = job[p]
      BY <1>0, <1>2, <2>2
    <2>4. \A i \in DOMAIN trained' : trained'[i].step <= Len(intents')
      BY <1>0, <2>2, <2>3
    <2>5. ASSUME NEW i \in DOMAIN trained', NEW j \in DOMAIN trained',
                 trained'[i].step = trained'[j].step
          PROVE  i = j
      <3>1. Len(trained) \in Nat /\ DOMAIN trained = 1..Len(trained)
        BY <1>0
      <3>2. ASSUME NEW k \in 1..Len(trained) PROVE trained'[k].step <= Count
        BY <2>2, <2>3, <3>1
      <3>3. trained'[Len(trained) + 1].step = Count + 1
        BY <2>2, <2>3
      <3>4. CASE i \in 1..Len(trained) /\ j \in 1..Len(trained)
        BY <3>1, <3>4, <2>3, <2>5 DEF IInv, TrainedOnce, NeverTrainedTwice
      <3>5. CASE i = Len(trained) + 1 \/ j = Len(trained) + 1
        BY <1>0, <2>2, <2>3, <2>5, <3>1, <3>2, <3>3, <3>5
      <3> QED
        BY <2>3, <3>1, <3>4, <3>5
    <2> QED
      BY <2>3, <2>4, <2>5 DEF TrainedOnce, NeverTrainedTwice
  <1> QED
    BY <1>1, <1>2 DEF TrainedBy

\* The parts of the invariant after a step.
LEMMA Assembled ==
  ASSUME DiskInv', OwnerTyped', trained' \in Seq(Event), Blank', Leased', TrainedOnce', Healthy'
  PROVE  IInv'
  BY DEF IInv, TypeOK, DiskInv

\* Where every coordinator is blocked or gone nothing is asked of its memory.
LEMMA NobodyHealthy ==
  ASSUME live' \ blocked' = {}
  PROVE  Healthy'
  BY DEF Healthy

\* Only one coordinator has to agree with the disk.
LEMMA OneHealthy ==
  ASSUME NEW p \in Processes, Leased', live' \subseteq {p}, Remembers(p)', Progress(p)'
  PROVE  Healthy'
  BY DEF Healthy

\* What a coordinator remembers stays right while neither changes.
LEMMA RemembersKept ==
  ASSUME NEW p \in Processes, Remembers(p),
         UNCHANGED <<created, torn, staged, commits, records, enabled, memory, resident>>
  PROVE  Remembers(p)'
  BY SameHead DEF Remembers

\* The history after a step that trains nothing.
LEMMA HistoryKept ==
  ASSUME IInv, UNCHANGED <<trained, intents>>
  PROVE  trained' \in Seq(Event) /\ TrainedOnce'
  BY DEF IInv, TypeOK, TrainedOnce, NeverTrainedTwice

\* The disk after a step that does not write.
LEMMA DiskKept ==
  ASSUME DiskInv, UNCHANGED disk
  PROVE  /\ DiskInv'
         /\ UNCHANGED <<created, torn, intents, commits, checkpoints, releases, enabled, records, staged>>
  BY DEF disk, DiskInv, DiskTyped, LogShape, Chained, Parent, RecordShape, Count, Announced,
     Confirmed

-----------------------------------------------------------------------------
(* Training.                                                               *)

\* What an operation changes of its coordinator.
LEMMA OwnStep ==
  ASSUME IInv, NEW p \in Processes, p \in live \ blocked, NEW next \in Phases, Turns(p, next),
         UNCHANGED <<created, lease, live, blocked, resident>>,
         memory' \in [Processes -> Memory], session' \in [Processes -> Seq(Event)],
         job' \in [Processes -> Event \cup {None}]
  PROVE  /\ OwnerTyped' /\ Blank' /\ Leased'
         /\ live' = {p} /\ p \in live' \ blocked' /\ phase'[p] = next
  <1>1. phase' \in [Processes -> Phases] /\ phase'[p] = next
    BY DEF IInv, TypeOK, OwnerTyped, Turns
  <1>2. OwnerTyped'
    BY <1>1 DEF IInv, TypeOK, OwnerTyped
  <1>3. created /\ live = {p}
    BY Acting
  <1>4. Blank'
    BY <1>3 DEF Blank
  <1>5. Leased'
    <2>1. live' = IF lease' = None THEN {} ELSE {lease'}
      BY DEF IInv, Leased
    <2>2. ASSUME NEW q \in Processes PROVE Idle(q)' \/ q \in live' \ blocked'
      <3>1. CASE q = p
        BY <3>1
      <3>2. CASE q # p
        <4>1. phase'[q] = phase[q]
          BY <3>2 DEF Turns, IInv, TypeOK, OwnerTyped
        <4> QED
          BY <4>1 DEF IInv, Leased, Idle
      <3> QED
        BY <3>1, <3>2
    <2> QED
      BY <2>1, <2>2 DEF Leased
  <1> QED
    BY <1>1, <1>2, <1>3, <1>4, <1>5

\* The rows of a batch are rows of the catalog.
LEMMA BatchType ==
  ASSUME NEW catalog \in Catalog, NEW cursor \in Nat
  PROVE  BatchOf(catalog, cursor) \in Seq(Datasets) /\ Len(BatchOf(catalog, cursor)) = BatchSize
  <1>1. Len(catalog) \in Nat \ {0} /\ \A i \in 1..Len(catalog) : catalog[i] \in Datasets
    BY DEF Catalog
  <1>2. ASSUME NEW i \in 1..BatchSize
        PROVE  catalog[((cursor + i - 1) % Len(catalog)) + 1] \in Datasets
    <2>1. cursor + i - 1 \in Nat
      BY RunAssumption
    <2>2. (cursor + i - 1) % Len(catalog) \in 0..(Len(catalog) - 1)
      BY <1>1, <2>1
    <2> QED
      BY <1>1, <2>2
  <1> QED
    BY <1>2, RunAssumption DEF BatchOf

\* The event a coordinator prepares is the next one.
LEMMA EventType ==
  ASSUME NEW p \in Processes, memory[p] \in Memory, memory[p].step < MaxSteps,
         NEW appended \in Appendable(p)
  PROVE  /\ EventFor(p, appended) \in Event
         /\ EventFor(p, appended).step = memory[p].step + 1
         /\ Len(EventFor(p, appended).batch) = BatchSize
         /\ SubSeq(EventFor(p, appended).catalog, 1, Len(memory[p].catalog)) = memory[p].catalog
  <1> DEFINE old == memory[p].catalog
             catalog == old \o appended
  <1>1. /\ old \in Catalog /\ memory[p].cursor \in Nat
        /\ memory[p].step + 1 \in 1..MaxSteps
    BY RunAssumption DEF Memory
  <1>2. appended \in Seq(Datasets)
    <2>1. appended = <<>> \/ \E d \in Datasets : appended = <<d>>
      BY DEF Appendable
    <2>2. ASSUME NEW d \in Datasets PROVE <<d>> \in Seq(Datasets)
      OBVIOUS
    <2>3. <<>> \in Seq(Datasets)
      OBVIOUS
    <2> QED
      BY <2>1, <2>2, <2>3
  <1>3. catalog \in Catalog
    BY <1>1, <1>2 DEF Catalog
  <1>4. SubSeq(catalog, 1, Len(old)) = old
    BY <1>1, <1>2 DEF Catalog
  <1>5. EventFor(p, appended) =
           [step |-> memory[p].step + 1, catalog |-> catalog,
            batch |-> BatchOf(catalog, memory[p].cursor)]
    BY DEF EventFor
  <1> HIDE DEF catalog
  <1>6. BatchOf(catalog, memory[p].cursor) \in Seq(Datasets)
        /\ Len(BatchOf(catalog, memory[p].cursor)) = BatchSize
    BY <1>1, <1>3, BatchType
  <1> QED
    BY <1>1, <1>3, <1>4, <1>5, <1>6 DEF Event

\* train_next begins.
LEMMA TrainBeginKeeps == ASSUME IInv, NEW p \in Processes, TrainBegin(p) PROVE IInv'
  <1>1. /\ Idle(p) /\ CheckLive(p, FALSE) /\ memory[p].step < MaxSteps
        /\ Turns(p, "announce")
        /\ UNCHANGED <<disk, owner, trained>>
    BY DEF TrainBegin
  <1>2. PICK appended \in Appendable(p) : job' = [job EXCEPT ![p] = EventFor(p, appended)]
    BY DEF TrainBegin
  <1>3. p \in live \ blocked
    BY <1>1 DEF CheckLive
  <1>4. /\ Remembers(p) /\ Progress(p) /\ DiskInv /\ OwnerTyped /\ memory[p] \in Memory
        /\ Count \in Nat
    BY <1>3, Acting, LastType DEF DiskInv
  <1>5. UNCHANGED <<lease, live, blocked, memory, resident, session>>
    BY <1>1 DEF owner
  <1>6. /\ DiskInv'
        /\ UNCHANGED <<created, torn, intents, commits, checkpoints, releases, enabled, records, staged>>
    BY <1>1, <1>4, DiskKept
  <1> DEFINE e == EventFor(p, appended)
  <1>7. /\ e \in Event /\ e.step = Count + 1 /\ Len(e.batch) = BatchSize
        /\ SubSeq(e.catalog, 1, Len(Last.catalog)) = Last.catalog
    BY <1>1, <1>4, EventType DEF Remembers
  <1> HIDE DEF e
  <1>8. job'[p] = e /\ job' \in [Processes -> Event \cup {None}]
    BY <1>2, <1>4, <1>7 DEF OwnerTyped, e
  <1>9. /\ OwnerTyped' /\ Blank' /\ Leased' /\ live' = {p} /\ phase'[p] = "announce"
    BY <1>1, <1>3, <1>4, <1>5, <1>6, <1>8, OwnStep DEF OwnerTyped, Phases
  <1>10. UNCHANGED <<Count, Last, Pending, PendingIntent, PublishedHead>>
    BY <1>6, SameHead
  <1>11. Remembers(p)'
    BY <1>4, <1>5, <1>6, RemembersKept
  <1>12. Progress(p)'
    <2>1. ~Pending /\ Len(intents) = Count /\ session[p] = Last.events
      <3>1. HeadIs(memory[p].parent) /\ (enabled => ~Pending)
        BY <1>1 DEF CheckLive
      <3> QED
        BY <1>1, <1>4, <3>1 DEF Progress, Idle, Pending
    <2>2. NextEvent(p)'
      BY <1>7, <1>8, <1>10, <2>1 DEF NextEvent
    <2> QED
      BY <2>1, <2>2, <1>5, <1>6, <1>9, <1>10 DEF Progress
  <1>13. Healthy'
    BY <1>9, <1>11, <1>12, OneHealthy
  <1> QED
    BY <1>1, <1>6, <1>9, <1>13, HistoryKept, Assembled

\* The step is announced.
LEMMA TrainAnnounceKeeps == ASSUME IInv, NEW p \in Processes, TrainAnnounce(p) PROVE IInv'
  <1>1. /\ phase[p] = "announce" /\ WriteIntent(p) /\ Turns(p, "learn")
        /\ UNCHANGED <<lease, live, blocked, memory, resident, session, job, trained>>
    BY DEF TrainAnnounce, Unmoved, owner
  <1>2. p \in live \ blocked
    BY <1>1, Busy DEF Idle
  <1>3. Remembers(p) /\ Progress(p) /\ DiskInv /\ OwnerTyped /\ Count \in Nat
    BY <1>2, Acting, LastType DEF DiskInv
  <1>4. NextEvent(p) /\ Len(intents) = Count /\ session[p] = Last.events
    BY <1>1, <1>3 DEF Progress
  <1>5. /\ DiskInv' /\ UNCHANGED <<commits, records, enabled>>
        /\ Len(intents') = Count + 1
        /\ intents'[Count + 1] = [event |-> job[p], parent |-> Last]
    BY <1>1, <1>3, <1>4, IntentWritten
  <1>6. UNCHANGED <<created, torn, checkpoints, releases, staged>>
    BY <1>1 DEF WriteIntent, publication
  <1>7. OwnerTyped' /\ Blank' /\ Leased' /\ live' = {p} /\ phase'[p] = "learn"
    BY <1>1, <1>2, <1>3, <1>6, OwnStep DEF OwnerTyped, Phases
  <1>8. UNCHANGED <<Count, Last, Pending, PendingIntent, PublishedHead>>
    BY <1>5, SameHead
  <1>9. Remembers(p)'
    BY <1>1, <1>3, <1>5, <1>6, RemembersKept
  <1>10. \A i \in DOMAIN trained : trained[i].step <= Count
    BY <1>4 DEF IInv, TrainedOnce
  <1>11. Progress(p)'
    <2>1. NextEvent(p)'
      BY <1>1, <1>4, <1>8 DEF NextEvent
    <2> QED
      BY <1>1, <1>4, <1>5, <1>7, <1>8, <1>10, <2>1 DEF Progress
  <1>12. Healthy'
    BY <1>7, <1>9, <1>11, OneHealthy
  <1>13. trained' \in Seq(Event) /\ TrainedOnce'
    BY <1>1, <1>3, <1>4, <1>5, TrainedKept
  <1> QED
    BY <1>5, <1>7, <1>12, <1>13, Assembled

\* The backend trains.
LEMMA TrainLearnKeeps == ASSUME IInv, NEW p \in Processes, TrainLearn(p) PROVE IInv'
  <1>1. /\ phase[p] = "learn" /\ session' = [session EXCEPT ![p] = Append(@, job[p])]
        /\ trained' = TrainedBy(p) /\ Turns(p, "save")
        /\ UNCHANGED <<disk, lease, live, blocked, memory, resident, job>>
    BY DEF TrainLearn
  <1>2. p \in live \ blocked
    BY <1>1, Busy DEF Idle
  <1>3. Remembers(p) /\ Progress(p) /\ DiskInv /\ OwnerTyped /\ session[p] \in Seq(Event)
    BY <1>2, Acting
  <1>4. /\ NextEvent(p) /\ Len(intents) = Count + 1 /\ session[p] = Last.events
        /\ intents[Count + 1] = [event |-> job[p], parent |-> Last]
    BY <1>1, <1>3 DEF Progress
  <1>5. /\ DiskInv'
        /\ UNCHANGED <<created, torn, intents, commits, checkpoints, releases, enabled, records, staged>>
    BY <1>1, <1>3, DiskKept
  <1>6. session'[p] = Append(Last.events, job[p]) /\ session' \in [Processes -> Seq(Event)]
    <2>1. Append(session[p], job[p]) \in Seq(Event)
      BY <1>3, <1>4 DEF NextEvent
    <2> QED
      BY <2>1, <1>1, <1>3, <1>4 DEF OwnerTyped
  <1>7. OwnerTyped' /\ Blank' /\ Leased' /\ live' = {p} /\ phase'[p] = "save"
    BY <1>1, <1>2, <1>3, <1>5, <1>6, OwnStep DEF OwnerTyped, Phases
  <1>8. UNCHANGED <<Count, Last, Pending, PendingIntent, PublishedHead>>
    BY <1>5, SameHead
  <1>9. Remembers(p)'
    BY <1>1, <1>3, <1>5, RemembersKept
  <1>10. Progress(p)'
    <2>1. NextEvent(p)'
      BY <1>1, <1>4, <1>8 DEF NextEvent
    <2> QED
      BY <1>1, <1>4, <1>5, <1>6, <1>7, <1>8, <2>1 DEF Progress
  <1>11. Healthy'
    BY <1>7, <1>9, <1>10, OneHealthy
  <1>12. trained' \in Seq(Event) /\ TrainedOnce'
    <2>1. Len(intents') \in Nat /\ Len(intents') >= Len(intents)
      BY <1>5 DEF DiskInv, DiskTyped
    <2> QED
      BY <1>1, <2>1, TrainedKept
  <1> QED
    BY <1>5, <1>7, <1>11, <1>12, Assembled

\* The checkpoint is stored.
LEMMA TrainSaveKeeps == ASSUME IInv, NEW p \in Processes, TrainSave(p) PROVE IInv'
  <1>1. /\ phase[p] = "save" /\ WriteCheckpoint(p) /\ Turns(p, "commit")
        /\ UNCHANGED <<lease, live, blocked, memory, resident, session, job, trained>>
    BY DEF TrainSave, Unmoved, owner
  <1>2. p \in live \ blocked
    BY <1>1, Busy DEF Idle
  <1>3. Remembers(p) /\ Progress(p) /\ DiskInv /\ OwnerTyped
    BY <1>2, Acting
  <1>4. /\ NextEvent(p) /\ Len(intents) = Count + 1
        /\ session[p] = Append(Last.events, job[p])
        /\ intents[Count + 1] = [event |-> job[p], parent |-> Last]
    BY <1>1, <1>3 DEF Progress
  <1>5. /\ checkpoints' = checkpoints \cup {CheckpointBy(p)}
        /\ UNCHANGED <<created, torn, intents, commits, enabled, releases, records, staged>>
    BY <1>1 DEF WriteCheckpoint, publication
  <1>6. DiskInv'
    BY <1>3, <1>4, <1>5, CheckpointByType, Stored DEF NextEvent
  <1>7. OwnerTyped' /\ Blank' /\ Leased' /\ live' = {p} /\ phase'[p] = "commit"
    BY <1>1, <1>2, <1>3, <1>5, OwnStep DEF OwnerTyped, Phases
  <1>8. UNCHANGED <<Count, Last, Pending, PendingIntent, PublishedHead>>
    BY <1>5, SameHead
  <1>9. Remembers(p)'
    BY <1>1, <1>3, <1>5, RemembersKept
  <1>10. Progress(p)'
    <2>1. NextEvent(p)'
      BY <1>1, <1>4, <1>8 DEF NextEvent
    <2>2. CheckpointBy(p)' \in checkpoints'
      BY <1>1, <1>5 DEF CheckpointBy
    <2> QED
      BY <1>1, <1>4, <1>5, <1>7, <1>8, <2>1, <2>2 DEF Progress
  <1>11. Healthy'
    BY <1>7, <1>9, <1>10, OneHealthy
  <1> QED
    BY <1>1, <1>5, <1>6, <1>7, <1>11, HistoryKept, Assembled

\* The step is committed, and the memory follows.
LEMMA TrainCommitKeeps == ASSUME IInv, NEW p \in Processes, TrainCommit(p) PROVE IInv'
  <1> DEFINE m == [parent |-> CheckpointBy(p), step |-> job[p].step,
                   cursor |-> CheckpointBy(p).cursor, catalog |-> job[p].catalog,
                   cache |-> memory[p].cache]
  <1>1. /\ phase[p] = "commit" /\ WriteCommit(p) /\ Turns(p, "idle")
        /\ memory' = [memory EXCEPT ![p] = m]
        /\ job' = [job EXCEPT ![p] = None]
        /\ UNCHANGED <<lease, live, blocked, resident, session, trained>>
    BY DEF TrainCommit
  <1>2. p \in live \ blocked
    BY <1>1, Busy DEF Idle
  <1>3. /\ Remembers(p) /\ Progress(p) /\ DiskInv /\ OwnerTyped /\ memory[p] \in Memory
        /\ Count \in Nat
    BY <1>2, Acting, LastType DEF DiskInv
  <1>4. /\ NextEvent(p) /\ Len(intents) = Count + 1
        /\ session[p] = Append(Last.events, job[p])
    BY <1>1, <1>3 DEF Progress
  <1>5. /\ DiskInv' /\ Count' = Count + 1
        /\ commits' = Append(commits, CheckpointBy(p))
        /\ CheckpointBy(p) \in Checkpoint /\ Last' = CheckpointBy(p)
        /\ UNCHANGED <<created, torn, intents, checkpoints, enabled, releases, records, staged>>
    BY <1>1, <1>3, CommitWritten
  <1>6. CheckpointBy(p).events = session[p] /\ CheckpointBy(p).catalog = job[p].catalog
    BY DEF CheckpointBy
  <1>7. /\ m \in Memory /\ m.parent = Last' /\ m.step = Count' /\ m.cursor = Last'.cursor
        /\ m.catalog = Last'.catalog /\ m.cache = memory[p].cache
    <2>1. job[p] \in Event /\ job[p].step = Count + 1
      BY <1>4 DEF NextEvent
    <2>2. job[p].step \in 0..MaxSteps /\ job[p].catalog \in Catalog
      BY <2>1, <1>3 DEF Event
    <2>3. CheckpointBy(p).cursor \in Nat /\ memory[p].cache \in Record \cup {None}
      BY <1>3, <1>5 DEF Checkpoint, Memory
    <2> QED
      BY <2>1, <2>2, <2>3, <1>5, <1>6 DEF Memory
  <1> HIDE DEF m
  <1>8. /\ OwnerTyped' /\ Blank' /\ Leased' /\ live' = {p} /\ phase'[p] = "idle"
        /\ memory'[p] = m
    BY <1>1, <1>2, <1>3, <1>5, <1>7, OwnStep DEF OwnerTyped, Phases
  <1>9. {r \in records' : r.step = Count'} = {}
    BY <1>3, <1>5, NoRecordAhead
  <1>10. DoneOf(Count)' = {} /\ ~PendingIntent'
    BY <1>9 DEF DoneOf, IntentOf, PendingIntent
  <1>11. PublishedHead' = PublishedHead
    <2>1. Published' = Published
      <3>1. Published = IF enabled THEN Count ELSE 0
        BY <1>4 DEF NextEvent, Published
      <3>2. enabled' => Pending'
        BY <1>3, <1>5, <1>10 DEF Pending
      <3> QED
        BY <3>1, <3>2, <1>3, <1>5 DEF Published
    <2>2. Published \in 0..Count
      BY <1>3, HeadStands DEF HeadFacts
    <2>3. \A n \in 1..Count : commits'[n] = commits[n]
      BY <1>3, <1>5 DEF DiskInv, DiskTyped, Count
    <2>4. Published # 0 =>
             Confirmed(Published, commits[Published])' = Confirmed(Published, commits[Published])
      BY <2>1, <2>2, <2>3, <1>3 DEF Confirmed
    <2> QED
      BY <2>1, <2>4, <1>3, <1>5, HeadStands, HeadStandsNext DEF HeadFacts
  <1>12. Remembers(p)'
    BY <1>1, <1>3, <1>5, <1>7, <1>8, <1>11 DEF Remembers
  <1>13. Progress(p)'
    BY <1>1, <1>4, <1>5, <1>6, <1>8, <1>10 DEF Progress
  <1>14. Healthy'
    BY <1>8, <1>12, <1>13, OneHealthy
  <1> QED
    BY <1>1, <1>5, <1>8, <1>14, HistoryKept, Assembled

-----------------------------------------------------------------------------
(* Publishing.                                                             *)

\* publish begins.
LEMMA PublishBeginKeeps == ASSUME IInv, NEW p \in Processes, PublishBegin(p) PROVE IInv'
  <1>1. /\ Idle(p) /\ CheckLive(p, TRUE) /\ Pending /\ Turns(p, "intend")
        /\ UNCHANGED disk
        /\ UNCHANGED <<lease, live, blocked, memory, resident, session, job, trained>>
    BY DEF PublishBegin, Unmoved, owner
  <1>2. p \in live \ blocked
    BY <1>1 DEF CheckLive
  <1>3. Remembers(p) /\ Progress(p) /\ DiskInv /\ OwnerTyped
    BY <1>2, Acting
  <1>4. /\ DiskInv'
        /\ UNCHANGED <<created, torn, intents, commits, checkpoints, releases, enabled, records, staged>>
    BY <1>1, <1>3, DiskKept
  <1>5. OwnerTyped' /\ Blank' /\ Leased' /\ live' = {p} /\ phase'[p] = "intend"
    BY <1>1, <1>2, <1>3, <1>4, OwnStep DEF OwnerTyped, Phases
  <1>6. UNCHANGED <<Count, Last, Pending, PendingIntent, PublishedHead>>
    BY <1>4, SameHead
  <1>7. Remembers(p)'
    BY <1>1, <1>3, <1>4, RemembersKept
  <1>8. Progress(p)'
    <2>1. ~PendingIntent /\ Len(intents) = Count /\ session[p] = Last.events
      BY <1>1, <1>3 DEF Progress, Idle
    <2> QED
      BY <2>1, <1>1, <1>4, <1>5, <1>6 DEF Progress
  <1>9. Healthy'
    BY <1>5, <1>7, <1>8, OneHealthy
  <1> QED
    BY <1>1, <1>4, <1>5, <1>9, HistoryKept, Assembled

\* The intent is recorded.
LEMMA PublishIntendKeeps == ASSUME IInv, NEW p \in Processes, PublishIntend(p) PROVE IInv'
  <1>1. /\ phase[p] = "intend" /\ WriteRecord(Announced(Count)) /\ Turns(p, "release")
        /\ UNCHANGED <<lease, live, blocked, memory, resident, session, job, trained>>
    BY DEF PublishIntend, Unmoved, owner
  <1>2. p \in live \ blocked
    BY <1>1, Busy DEF Idle
  <1>3. Remembers(p) /\ Progress(p) /\ DiskInv /\ OwnerTyped
    BY <1>2, Acting
  <1>4. /\ DiskInv' /\ records' = records \cup {Announced(Count)}
        /\ UNCHANGED <<created, torn, intents, commits, checkpoints, releases, enabled, staged>>
    BY <1>1, <1>3, PhaseWrites, RecordWritten
  <1>5. OwnerTyped' /\ Blank' /\ Leased' /\ live' = {p} /\ phase'[p] = "release"
    BY <1>1, <1>2, <1>3, <1>4, OwnStep DEF OwnerTyped, Phases
  <1>6. UNCHANGED <<Count, Last, Pending, PublishedHead>>
    <2>1. \A n : UNCHANGED DoneOf(n)
      BY <1>4 DEF DoneOf, Announced
    <2> QED
      BY <2>1, <1>4, SameDone
  <1>7. Remembers(p)'
    BY <1>1, <1>3, <1>4, <1>6 DEF Remembers
  <1>8. Progress(p)'
    <2>1. Pending /\ Len(intents) = Count /\ session[p] = Last.events
      BY <1>1, <1>3 DEF Progress
    <2>2. Announced(Count)' \in records'
      BY <1>4 DEF Announced, Count
    <2> QED
      BY <2>1, <2>2, <1>1, <1>4, <1>5, <1>6 DEF Progress
  <1>9. Healthy'
    BY <1>5, <1>7, <1>8, OneHealthy
  <1> QED
    BY <1>1, <1>4, <1>5, <1>9, HistoryKept, Assembled

\* The release is extracted.
LEMMA PublishReleaseKeeps == ASSUME IInv, NEW p \in Processes, PublishRelease(p) PROVE IInv'
  <1>1. /\ phase[p] = "release" /\ WriteRelease(commits[Count]) /\ Turns(p, "confirm")
        /\ UNCHANGED <<lease, live, blocked, memory, resident, session, job, trained>>
    BY DEF PublishRelease, Unmoved, owner
  <1>2. p \in live \ blocked
    BY <1>1, Busy DEF Idle
  <1>3. Remembers(p) /\ Progress(p) /\ DiskInv /\ OwnerTyped
    BY <1>2, Acting
  <1>4. /\ commits[Count] \in checkpoints /\ releases' = releases \cup {commits[Count]}
        /\ UNCHANGED <<created, torn, intents, commits, checkpoints, enabled, records, staged>>
    BY <1>1 DEF WriteRelease, training
  <1>5. DiskInv'
    BY <1>1, <1>3, <1>4, PhaseWrites, Stored
  <1>6. OwnerTyped' /\ Blank' /\ Leased' /\ live' = {p} /\ phase'[p] = "confirm"
    BY <1>1, <1>2, <1>3, <1>4, OwnStep DEF OwnerTyped, Phases
  <1>7. /\ UNCHANGED <<Count, Last, Pending, PendingIntent, PublishedHead>>
        /\ UNCHANGED Announced(Count)
    BY <1>4, SameHead DEF Announced
  <1>8. Remembers(p)'
    BY <1>1, <1>3, <1>4, RemembersKept
  <1>9. Progress(p)'
    <2>1. /\ Pending /\ Len(intents) = Count /\ session[p] = Last.events
          /\ Announced(Count) \in records
      BY <1>1, <1>3 DEF Progress
    <2>2. commits'[Count'] \in releases'
      BY <1>4, <1>7
    <2> QED
      BY <2>1, <2>2, <1>1, <1>4, <1>6, <1>7 DEF Progress
  <1>10. Healthy'
    BY <1>6, <1>8, <1>9, OneHealthy
  <1> QED
    BY <1>1, <1>4, <1>5, <1>6, <1>10, HistoryKept, Assembled

\* A new confirmation of the last commit makes it the published head.
LEMMA ConfirmedHead ==
  ASSUME DiskInv, Pending, Writable(Confirmed(Count, commits[Count])),
         WriteRecord(Confirmed(Count, commits[Count]))
  PROVE  /\ ~Pending' /\ Published' = Count /\ PublishedHead' = Confirmed(Count, commits[Count])
  <1>1. Count \in 1..Count /\ enabled
    BY LastType DEF Writable, DiskInv
  <1>2. /\ DiskInv' /\ records' = records \cup {Confirmed(Count, commits[Count])}
        /\ UNCHANGED <<commits, enabled>>
    BY RecordWritten
  <1>3. Count' = Count /\ Count # 0
    BY <1>1, <1>2 DEF Count
  <1>4. Confirmed(Count, commits[Count]) \in DoneOf(Count)'
    BY <1>1, <1>2, <1>3, RecordKinds DEF DoneOf, DiskInv
  <1>5. ~Pending'
    BY <1>3, <1>4 DEF Pending
  <1>6. Published' = Count
    BY <1>1, <1>2, <1>3, <1>5 DEF Published
  <1>7. PublishedHead' = Confirmed(Published', commits'[Published'])
    BY <1>2, <1>3, <1>6, HeadStandsNext DEF HeadFacts, Confirmed
  <1> QED
    BY <1>2, <1>5, <1>6, <1>7

\* The release is confirmed.
LEMMA PublishConfirmKeeps == ASSUME IInv, NEW p \in Processes, PublishConfirm(p) PROVE IInv'
  <1> DEFINE d == Confirmed(Count, commits[Count])
  <1>1. /\ phase[p] = "confirm" /\ WriteRecord(d) /\ Turns(p, "idle")
        /\ memory' = [memory EXCEPT ![p].cache = d]
        /\ UNCHANGED <<lease, live, blocked, resident, session, job, trained>>
    BY DEF PublishConfirm
  <1>2. p \in live \ blocked
    BY <1>1, Busy DEF Idle
  <1>3. Remembers(p) /\ Progress(p) /\ DiskInv /\ OwnerTyped /\ memory[p] \in Memory
    BY <1>2, Acting
  <1>4. Pending /\ Len(intents) = Count /\ session[p] = Last.events /\ Writable(d)
    BY <1>1, <1>3, PhaseWrites DEF Progress
  <1>5. /\ DiskInv' /\ records' = records \cup {d}
        /\ UNCHANGED <<created, torn, intents, commits, checkpoints, releases, enabled, staged>>
    BY <1>1, <1>3, <1>4, RecordWritten
  <1>6. ~Pending' /\ PublishedHead' = d
    BY <1>1, <1>3, <1>4, ConfirmedHead
  <1>7. UNCHANGED <<Count, Last>>
    BY <1>5 DEF Count, Last
  <1>8. d \in Record
    BY <1>3, <1>4, WritableType
  <1> HIDE DEF d
  <1>9. /\ memory' \in [Processes -> Memory]
        /\ memory'[p].cache = d
        /\ memory'[p].parent = memory[p].parent /\ memory'[p].step = memory[p].step
        /\ memory'[p].cursor = memory[p].cursor /\ memory'[p].catalog = memory[p].catalog
    <2>1. memory'[p] = [memory[p] EXCEPT !.cache = d]
      BY <1>1, <1>3 DEF OwnerTyped
    <2>2. [memory[p] EXCEPT !.cache = d] \in Memory
      BY <1>3, <1>8 DEF Memory
    <2>3. memory' = [memory EXCEPT ![p] = memory'[p]]
      BY <1>1, <1>3 DEF OwnerTyped
    <2> QED
      BY <2>1, <2>2, <2>3, <1>3 DEF OwnerTyped, Memory
  <1>10. OwnerTyped' /\ Blank' /\ Leased' /\ live' = {p} /\ phase'[p] = "idle"
    BY <1>1, <1>2, <1>3, <1>5, <1>9, OwnStep DEF OwnerTyped, Phases
  <1>11. Remembers(p)'
    BY <1>1, <1>3, <1>5, <1>6, <1>7, <1>9 DEF Remembers
  <1>12. Progress(p)'
    <2>1. ~PendingIntent'
      BY <1>6 DEF PendingIntent
    <2> QED
      BY <2>1, <1>1, <1>4, <1>5, <1>7, <1>10 DEF Progress
  <1>13. Healthy'
    BY <1>10, <1>11, <1>12, OneHealthy
  <1> QED
    BY <1>1, <1>5, <1>10, <1>13, HistoryKept, Assembled

-----------------------------------------------------------------------------
(* Creating, failing, closing, dying and restoring.                        *)

\* A run no one owns has no coordinator.
LEMMA Unowned ==
  ASSUME IInv, lease = None
  PROVE  live = {} /\ blocked = {} /\ \A p \in Processes : Idle(p)
  BY DEF IInv, Leased, TypeOK, OwnerTyped

\* What the coordinators that go on do not see changes nothing for them.
LEMMA OthersHealthy ==
  ASSUME Healthy, live \subseteq Processes,
         UNCHANGED <<created, torn, intents, commits, enabled, records, staged, trained, live, blocked>>,
         checkpoints \subseteq checkpoints', releases \subseteq releases',
         \A q \in live :
            /\ UNCHANGED <<memory[q], session[q], phase[q], job[q]>>
            /\ q \in resident => q \in resident'
  PROVE  Healthy'
  <1>1. /\ UNCHANGED <<Count, Last, Pending, PendingIntent, PublishedHead>>
        /\ \A n : UNCHANGED Announced(n)
    BY SameHead
  <1>2. ASSUME NEW q \in live \ blocked PROVE Remembers(q)' /\ Progress(q)'
    <2>1. /\ Remembers(q) /\ Progress(q)
          /\ UNCHANGED <<memory[q], session[q], phase[q], job[q]>>
          /\ q \in resident => q \in resident'
      BY <1>2 DEF Healthy
    <2>2. Remembers(q)'
      BY <1>1, <2>1 DEF Remembers
    <2>3. NextEvent(q) => NextEvent(q)'
      BY <1>1, <2>1 DEF NextEvent
    <2>4. phase[q] = "commit" => CheckpointBy(q)' = CheckpointBy(q)
      BY <2>1 DEF CheckpointBy
    <2>5. /\ phase'[q] \in {"announce", "learn", "save", "commit"} => NextEvent(q)'
          /\ Len(intents') = IF phase'[q] \in {"learn", "save", "commit"} THEN Count' + 1 ELSE Count'
          /\ session'[q] =
                IF phase'[q] \in {"save", "commit"} THEN Append(Last'.events, job'[q])
                ELSE Last'.events
          /\ phase'[q] \in {"learn", "save", "commit"} =>
                intents'[Count' + 1] = [event |-> job'[q], parent |-> Last']
          /\ phase'[q] = "learn" => \A i \in DOMAIN trained' : trained'[i].step <= Count'
      BY <1>1, <2>1, <2>3 DEF Progress
    <2>6. /\ phase'[q] = "commit" => CheckpointBy(q)' \in checkpoints'
          /\ phase'[q] \in {"intend", "release", "confirm"} => Pending'
          /\ phase'[q] \in {"idle", "intend"} => ~PendingIntent'
          /\ phase'[q] \in {"release", "confirm"} => Announced(Count)' \in records'
          /\ phase'[q] = "confirm" => commits'[Count'] \in releases'
      <3>1. Announced(Count)' = Announced(Count)
        BY <1>1 DEF Announced
      <3> QED
        BY <1>1, <2>1, <2>4, <3>1 DEF Progress
    <2> QED
      BY <2>2, <2>5, <2>6 DEF Progress
  <1> QED
    BY <1>2 DEF Healthy

\* A run is created, where nothing was.
LEMMA CreateKeeps == ASSUME IInv, NEW p \in Processes, Create(p) PROVE IInv'
  <1>1. /\ ~created /\ lease = None /\ created' = TRUE /\ lease' = p /\ live' = live \cup {p}
        /\ memory' = [memory EXCEPT ![p] = Fresh] /\ resident' = resident \cup {p}
        /\ session' = [session EXCEPT ![p] = <<>>]
        /\ UNCHANGED <<torn, intents, commits, checkpoints, enabled, releases, records, staged>>
        /\ UNCHANGED <<blocked, phase, job, trained>>
    BY DEF Create, training, publication
  <1>2. DiskInv /\ OwnerTyped
    BY DEF IInv, TypeOK, DiskInv
  <1>3. ~torn /\ ~enabled /\ intents = <<>> /\ commits = <<>> /\ records \cup staged = {}
    BY <1>1, <1>2 DEF IInv, Blank, DiskInv, RecordShape
  <1>4. live = {} /\ blocked = {} /\ \A q \in Processes : phase[q] = "idle"
    BY <1>1, Unowned DEF Idle
  <1>5. DiskInv'
    BY <1>1, <1>2 DEF DiskInv, DiskTyped, LogShape, Chained, Parent, RecordShape, Count,
       Announced, Confirmed
  <1>6. Fresh \in Memory
    BY NoCheckpointType, RunAssumption DEF Fresh, Memory, Catalog
  <1>7. OwnerTyped' /\ memory'[p] = Fresh /\ session'[p] = <<>> /\ phase'[p] = "idle"
    BY <1>1, <1>2, <1>4, <1>6 DEF OwnerTyped
  <1>8. Blank' /\ Leased' /\ live' = {p}
    BY <1>1, <1>4, NoneAssumption DEF Blank, Leased, Idle
  <1>9. Count' = 0 /\ Last' = NoCheckpoint /\ PublishedHead' = None /\ ~PendingIntent'
    BY <1>1, <1>3 DEF Count, Last, PublishedHead, PendingIntent, Pending
  <1>10. Remembers(p)'
    BY <1>1, <1>3, <1>7, <1>9 DEF Remembers, Fresh, NoCheckpoint
  <1>11. Progress(p)'
    BY <1>1, <1>3, <1>7, <1>9 DEF Progress, NoCheckpoint
  <1>12. Healthy'
    BY <1>8, <1>10, <1>11, OneHealthy
  <1> QED
    BY <1>1, <1>5, <1>7, <1>8, <1>12, HistoryKept, Assembled

\* A run is created in part.
LEMMA CreateFailsKeeps == ASSUME IInv, NEW p \in Processes, CreateFails(p) PROVE IInv'
  <1>1. /\ lease = None /\ created' = TRUE /\ torn' \in BOOLEAN
        /\ UNCHANGED <<intents, commits, checkpoints, enabled, releases, records, staged>>
        /\ UNCHANGED <<lease, live, blocked, memory, resident, session, phase, job, trained>>
    BY DEF CreateFails, training, publication, owner
  <1>2. DiskInv'
    BY <1>1 DEF IInv, TypeOK, DiskInv, DiskTyped, LogShape, Chained, Parent, RecordShape, Count,
       Announced, Confirmed
  <1>3. OwnerTyped' /\ Blank' /\ Leased'
    BY <1>1 DEF IInv, TypeOK, OwnerTyped, Blank, Leased, Idle
  <1>4. Healthy'
    BY <1>1, Unowned, NobodyHealthy
  <1> QED
    BY <1>1, <1>2, <1>3, <1>4, HistoryKept, Assembled

\* Release heads are required, of a run that has not trained.
LEMMA RequiredDisk ==
  ASSUME IInv, NEW p \in Processes, MayEnable(p), enabled' = TRUE, torn' \in BOOLEAN,
         UNCHANGED <<created, intents, commits, checkpoints, releases, records, staged>>
  PROVE  DiskInv' /\ commits = <<>>
  <1>1. /\ CheckLive(p, FALSE) /\ memory[p].step = 0
    BY DEF MayEnable
  <1>2. Remembers(p) /\ DiskInv
    BY <1>1, Acting DEF CheckLive
  <1>3. commits = <<>>
    BY <1>1, <1>2 DEF Remembers, Count, DiskInv, DiskTyped
  <1>4. DiskTyped' /\ LogShape'
    BY <1>2 DEF DiskInv, DiskTyped, LogShape, Chained, Parent, Count
  <1>5. RecordShape'
    BY <1>2, <1>3 DEF DiskInv, RecordShape, Count, Announced, Confirmed
  <1> QED
    BY <1>3, <1>4, <1>5 DEF DiskInv

\* The heads are required.
LEMMA EnableKeeps == ASSUME IInv, NEW p \in Processes, Enable(p) PROVE IInv'
  <1>1. /\ MayEnable(p) /\ Idle(p) /\ ~enabled /\ enabled' = TRUE /\ p \in live \ blocked
        /\ UNCHANGED <<created, torn, intents, commits, checkpoints, releases, records, staged>>
        /\ UNCHANGED <<lease, live, blocked, memory, resident, session, phase, job, trained>>
    BY DEF Enable, MayEnable, CheckLive, training, publication, owner
  <1>2. Remembers(p) /\ Progress(p) /\ live = {p} /\ torn \in BOOLEAN
    BY <1>1, Acting DEF IInv, TypeOK, DiskTyped
  <1>3. DiskInv' /\ commits = <<>>
    BY <1>1, <1>2, RequiredDisk
  <1>4. OwnerTyped' /\ Blank' /\ Leased'
    BY <1>1, <1>2 DEF IInv, TypeOK, OwnerTyped, Blank, Leased, Idle, Remembers
  <1>5. /\ Count' = 0 /\ Count = 0 /\ Last' = NoCheckpoint /\ Last = NoCheckpoint
        /\ PublishedHead = None /\ PublishedHead' = None /\ ~PendingIntent'
    BY <1>1, <1>3 DEF Count, Last, PublishedHead, PendingIntent, Pending
  <1>6. Remembers(p)'
    BY <1>1, <1>2, <1>5 DEF Remembers
  <1>7. Progress(p)'
    BY <1>1, <1>2, <1>5 DEF Progress, Idle
  <1>8. Healthy'
    BY <1>1, <1>2, <1>4, <1>6, <1>7, OneHealthy
  <1> QED
    BY <1>1, <1>3, <1>4, <1>8, HistoryKept, Assembled

\* The coordinator blocks, whatever became of the record.
LEMMA EnableFailsKeeps == ASSUME IInv, NEW p \in Processes, EnableFails(p) PROVE IInv'
  <1>1. /\ MayEnable(p) /\ Idle(p) /\ p \in live \ blocked /\ blocked' = blocked \cup {p}
        /\ \/ UNCHANGED <<enabled, torn>>
           \/ ~enabled /\ enabled' = TRUE /\ UNCHANGED torn
           \/ ~enabled /\ torn' = TRUE /\ UNCHANGED enabled
        /\ UNCHANGED <<created, intents, commits, checkpoints, releases, records, staged>>
        /\ UNCHANGED <<lease, live, memory, resident, session, phase, job, trained>>
    BY DEF EnableFails, MayEnable, CheckLive, training, publication
  <1>2. created /\ live = {p} /\ DiskInv /\ torn \in BOOLEAN
    BY <1>1, Acting DEF DiskInv, DiskTyped
  <1>3. DiskInv'
    <2>1. CASE enabled' = TRUE
      BY <1>1, <1>2, <2>1, RequiredDisk
    <2>2. CASE UNCHANGED enabled
      BY <1>1, <1>2, <2>2 DEF DiskInv, DiskTyped, LogShape, Chained, Parent, RecordShape, Count,
         Announced, Confirmed
    <2> QED
      BY <1>1, <2>1, <2>2
  <1>4. OwnerTyped' /\ Blank' /\ Leased'
    BY <1>1, <1>2 DEF IInv, TypeOK, OwnerTyped, Blank, Leased, Idle
  <1>5. Healthy'
    BY <1>1, <1>2, NobodyHealthy
  <1> QED
    BY <1>1, <1>3, <1>4, <1>5, HistoryKept, Assembled

\* A publication that is refused blocks.
LEMMA PublishRefusedKeeps ==
  ASSUME IInv, NEW p \in Processes, PublishRefused(p) \/ PublishPlainFails(p) PROVE IInv'
  <1>1. /\ Idle(p) /\ p \in live \ blocked /\ blocked' = blocked \cup {p}
        /\ UNCHANGED disk
        /\ UNCHANGED <<lease, live, memory, resident, session, phase, job, trained>>
    BY DEF PublishRefused, PublishPlainFails, CheckLive
  <1>2. live = {p} /\ DiskInv
    BY <1>1, Acting
  <1>3. /\ DiskInv'
        /\ UNCHANGED <<created, torn, intents, commits, checkpoints, releases, enabled, records, staged>>
    BY <1>1, <1>2, DiskKept
  <1>4. OwnerTyped' /\ Blank' /\ Leased'
    BY <1>1, <1>2, <1>3 DEF IInv, TypeOK, OwnerTyped, Blank, Leased, Idle
  <1>5. Healthy'
    BY <1>1, <1>2, NobodyHealthy
  <1> QED
    BY <1>1, <1>3, <1>4, <1>5, HistoryKept, Assembled

\* An operation that fails blocks its coordinator, wherever it fails.
LEMMA FailsKeeps == ASSUME IInv, NEW p \in Processes, Fails(p) PROVE IInv'
  <1>1. /\ ~Idle(p) /\ Interrupted(p, intents) /\ trained' = TrainedBy(p)
        /\ blocked' = blocked \cup {p} /\ job' = [job EXCEPT ![p] = None]
        /\ Turns(p, "idle") /\ UNCHANGED <<lease, live, memory, resident, session>>
    BY DEF Fails, BlockedBy
  <1>2. p \in live \ blocked /\ live = {p} /\ created
    BY <1>1, Busy, Acting
  <1>3. DiskInv' /\ created' = created /\ Len(intents') >= Len(intents)
    BY <1>1, Interruption
  <1>4. phase' = [phase EXCEPT ![p] = "idle"] /\ \A q \in Processes : q # p => Idle(q)
    BY <1>1, <1>2, Busy DEF Turns
  <1>5. OwnerTyped' /\ Blank' /\ Leased'
    <2>1. OwnerTyped'
      BY <1>1, <1>2, <1>4 DEF IInv, TypeOK, OwnerTyped, Phases
    <2>2. \A q \in Processes : Idle(q)'
      BY <1>4 DEF IInv, TypeOK, OwnerTyped, Idle
    <2> QED
      BY <1>1, <1>2, <1>3, <2>1, <2>2 DEF IInv, Blank, Leased
  <1>6. Healthy'
    BY <1>1, <1>2, NobodyHealthy
  <1>7. trained' \in Seq(Event) /\ TrainedOnce'
    <2>1. Len(intents') \in Nat
      BY <1>3 DEF DiskInv, DiskTyped
    <2> QED
      BY <1>1, <1>3, <2>1, TrainedKept
  <1> QED
    BY <1>3, <1>5, <1>6, <1>7, Assembled

\* A coordinator is closed.
LEMMA CloseKeeps == ASSUME IInv, NEW p \in Processes, Close(p) PROVE IInv'
  <1>1. /\ Idle(p) /\ p \in live /\ lease' = None /\ live' = live \ {p}
        /\ blocked' = blocked \ {p} /\ memory' = [memory EXCEPT ![p] = Fresh]
        /\ UNCHANGED disk /\ UNCHANGED <<resident, session, phase, job, trained>>
    BY DEF Close
  <1>2. live = {p} /\ lease = p
    BY <1>1 DEF IInv, Leased
  <1>3. /\ DiskInv'
        /\ UNCHANGED <<created, torn, intents, commits, checkpoints, releases, enabled, records, staged>>
    BY <1>1, DiskKept DEF IInv, TypeOK, DiskInv
  <1>4. Fresh \in Memory
    BY NoCheckpointType, RunAssumption DEF Fresh, Memory, Catalog
  <1>5. \A q \in Processes : Idle(q)'
    BY <1>1, <1>2 DEF IInv, Leased, Idle
  <1>6. OwnerTyped'
    BY <1>1, <1>2, <1>4 DEF IInv, TypeOK, OwnerTyped
  <1>7. Blank' /\ Leased'
    <2>1. created
      BY <1>1, <1>2, NoneAssumption DEF IInv, Blank, TypeOK, OwnerTyped
    <2> QED
      BY <1>1, <1>2, <1>3, <1>5, <2>1 DEF Blank, Leased
  <1>8. Healthy'
    BY <1>1, <1>2, NobodyHealthy
  <1> QED
    BY <1>1, <1>3, <1>6, <1>7, <1>8, HistoryKept, Assembled

\* A session no coordinator holds is dropped.
LEMMA DropSessionKeeps == ASSUME IInv, NEW p \in Processes, DropSession(p) PROVE IInv'
  <1>1. /\ p \in resident \ live /\ resident' = resident \ {p}
        /\ session' = [session EXCEPT ![p] = <<>>]
        /\ UNCHANGED disk /\ UNCHANGED <<lease, live, blocked, memory, phase, job, trained>>
    BY DEF DropSession
  <1>2. /\ DiskInv'
        /\ UNCHANGED <<created, torn, intents, commits, checkpoints, releases, enabled, records, staged>>
    BY <1>1, DiskKept DEF IInv, TypeOK, DiskInv
  <1>3. OwnerTyped'
    BY <1>1 DEF IInv, TypeOK, OwnerTyped
  <1>4. Blank' /\ Leased'
    BY <1>1, <1>2 DEF IInv, Blank, Leased, Idle
  <1>5. Healthy'
    <2>1. \A q \in live : session'[q] = session[q]
      BY <1>1 DEF IInv, TypeOK, OwnerTyped
    <2> QED
      BY <1>1, <1>2, <2>1, OthersHealthy DEF IInv, TypeOK, OwnerTyped
  <1> QED
    BY <1>1, <1>2, <1>3, <1>4, <1>5, HistoryKept, Assembled

\* A process dies, wherever it is.
LEMMA CrashKeeps == ASSUME IInv, NEW p \in Processes, Crash(p) PROVE IInv'
  <1>1. /\ Interrupted(p, intents) /\ trained' = TrainedBy(p)
        /\ lease' = (IF lease = p THEN None ELSE lease)
        /\ live' = live \ {p} /\ blocked' = blocked \ {p}
        /\ memory' = [memory EXCEPT ![p] = Fresh]
        /\ resident' = resident \ {p} /\ session' = [session EXCEPT ![p] = <<>>]
        /\ job' = [job EXCEPT ![p] = None] /\ Turns(p, "idle")
    BY DEF Crash, Kept
  <1>2. /\ DiskInv' /\ UNCHANGED <<created, enabled>> /\ Len(intents') >= Len(intents)
        /\ Idle(p) => UNCHANGED <<torn, intents, commits, checkpoints, releases, records, staged>>
    BY <1>1, Interruption
  <1>3. Fresh \in Memory
    BY NoCheckpointType, RunAssumption DEF Fresh, Memory, Catalog
  <1>4. phase' = [phase EXCEPT ![p] = "idle"] /\ phase \in [Processes -> Phases]
    BY <1>1 DEF Turns, IInv, TypeOK, OwnerTyped
  <1>5. OwnerTyped'
    BY <1>1, <1>3, <1>4 DEF IInv, TypeOK, OwnerTyped, Phases
  <1>6. Leased'
    <2>1. live' = IF lease' = None THEN {} ELSE {lease'}
      BY <1>1, NoneAssumption DEF IInv, Leased
    <2>2. ASSUME NEW q \in Processes PROVE Idle(q)' \/ q \in live' \ blocked'
      BY <1>1, <1>4 DEF IInv, Leased, Idle
    <2> QED
      BY <2>1, <2>2 DEF Leased
  <1>7. Blank'
    <2>1. CASE created
      BY <1>2, <2>1 DEF Blank
    <2>2. CASE ~created
      <3>1. lease = None
        BY <2>2 DEF IInv, Blank
      <3>2. Idle(p)
        BY <3>1, Unowned
      <3> QED
        BY <1>1, <1>2, <2>2, <3>1, <3>2 DEF IInv, Blank
    <2> QED
      BY <2>1, <2>2
  <1>8. Healthy'
    <2>1. CASE p \in live
      <3>1. live = {p}
        BY <2>1 DEF IInv, Leased
      <3> QED
        BY <1>1, <3>1, NobodyHealthy
    <2>2. CASE p \notin live
      <3>1. Idle(p) /\ live' = live /\ blocked' = blocked
        BY <1>1, <2>2, Busy DEF IInv, TypeOK, OwnerTyped
      <3>2. trained' = trained
        BY <1>1, <3>1 DEF TrainedBy, Idle
      <3>3. ASSUME NEW q \in live
            PROVE  /\ UNCHANGED <<memory[q], session[q], phase[q], job[q]>>
                   /\ q \in resident => q \in resident'
        BY <1>1, <1>4, <2>2 DEF IInv, TypeOK, OwnerTyped
      <3>4. Healthy /\ live \subseteq Processes
        BY DEF IInv, TypeOK, OwnerTyped
      <3> QED
        BY <1>2, <3>1, <3>2, <3>3, <3>4, OthersHealthy
    <2> QED
      BY <2>1, <2>2
  <1>9. trained' \in Seq(Event) /\ TrainedOnce'
    <2>1. Len(intents') \in Nat
      BY <1>2 DEF DiskInv, DiskTyped
    <2> QED
      BY <1>1, <1>2, <2>1, TrainedKept
  <1> QED
    BY <1>2, <1>5, <1>6, <1>7, <1>8, <1>9, Assembled

\* A run is resumed from its head.
LEMMA RestoreKeeps ==
  ASSUME IInv, NEW p \in Processes, NEW c \in checkpoints, Restore(p, c) PROVE IInv'
  <1>1. /\ lease = None /\ Restorable(c) /\ lease' = p /\ live' = live \cup {p}
        /\ memory' = [memory EXCEPT ![p] = Resumed(c)] /\ resident' = resident \cup {p}
        /\ session' = [session EXCEPT ![p] = c.events]
        /\ UNCHANGED disk /\ UNCHANGED <<blocked, phase, job, trained>>
    BY DEF Restore
  <1>2. DiskInv /\ OwnerTyped
    BY DEF IInv, TypeOK, DiskInv
  <1>3. live = {} /\ blocked = {} /\ \A q \in Processes : phase[q] = "idle"
    BY <1>1, Unowned DEF Idle
  <1>4. /\ DiskInv'
        /\ UNCHANGED <<created, torn, intents, commits, checkpoints, releases, enabled, records, staged>>
    BY <1>1, <1>2, DiskKept
  <1>5. /\ created /\ ~torn /\ Len(intents) = Count /\ c = Last /\ ~PendingIntent
        /\ enabled => staged \subseteq records
    BY <1>1 DEF Restorable, HeadIs, Readable, Resolved, HeadReadable
  <1>6. /\ Count \in 0..MaxSteps /\ c \in Checkpoint /\ Len(c.events) = Count
        /\ c.events \in Seq(Event) /\ c.cursor \in Nat /\ c.catalog \in Catalog
    BY <1>2, <1>5, LastType DEF DiskInv, Checkpoint
  <1>7. staged \subseteq records
    BY <1>2, <1>5 DEF DiskInv, RecordShape
  <1>8. PublishedHead \in Record \cup {None}
    BY <1>2, HeadStands, RecordKinds DEF HeadFacts, DiskInv
  <1>9. /\ Resumed(c) \in Memory /\ Resumed(c).parent = Last /\ Resumed(c).step = Count
        /\ Resumed(c).cursor = Last.cursor /\ Resumed(c).catalog = Last.catalog
        /\ Resumed(c).cache = PublishedHead
    BY <1>5, <1>6, <1>8 DEF Resumed, Memory
  <1>10. OwnerTyped' /\ memory'[p] = Resumed(c) /\ session'[p] = c.events /\ phase'[p] = "idle"
    BY <1>1, <1>2, <1>3, <1>6, <1>9 DEF OwnerTyped
  <1>11. Blank' /\ Leased' /\ live' = {p}
    BY <1>1, <1>3, <1>4, <1>5, NoneAssumption DEF Blank, Leased, Idle
  <1>12. UNCHANGED <<Count, Last, Pending, PendingIntent, PublishedHead>>
    BY <1>4, SameHead
  <1>13. Remembers(p)'
    BY <1>1, <1>4, <1>5, <1>7, <1>9, <1>10, <1>12 DEF Remembers
  <1>14. Progress(p)'
    BY <1>4, <1>5, <1>10, <1>12 DEF Progress
  <1>15. Healthy'
    BY <1>11, <1>13, <1>14, OneHealthy
  <1> QED
    BY <1>1, <1>4, <1>10, <1>11, <1>15, HistoryKept, Assembled

\* A stored checkpoint is released by whoever can read the store.
LEMMA PublishCheckpointKeeps ==
  ASSUME IInv, NEW c \in checkpoints, PublishCheckpoint(c) PROVE IInv'
  <1>1. /\ releases' = releases \cup {c}
        /\ UNCHANGED <<created, torn, intents, commits, checkpoints, enabled, records, staged>>
        /\ UNCHANGED <<lease, live, blocked, memory, resident, session, phase, job, trained>>
    BY DEF PublishCheckpoint, WriteRelease, training, owner
  <1>2. DiskInv /\ c \in Checkpoint
    BY DEF IInv, TypeOK, DiskInv, DiskTyped
  <1>3. DiskInv'
    BY <1>1, <1>2, Stored
  <1>4. OwnerTyped' /\ Blank' /\ Leased'
    BY <1>1 DEF IInv, TypeOK, OwnerTyped, Blank, Leased, Idle
  <1>5. Healthy'
    BY <1>1, OthersHealthy DEF IInv, TypeOK, OwnerTyped
  <1> QED
    BY <1>1, <1>3, <1>4, <1>5, HistoryKept, Assembled

\* What reconciliation writes is the confirmation of the last commit.
LEMMA ReconcileWrites ==
  ASSUME IInv, NEW r \in releases, NEW i \in records, Confirmable(r, i)
  PROVE  /\ Pending /\ [i EXCEPT !.release = r] = Confirmed(Count, commits[Count])
         /\ Writable(Confirmed(Count, commits[Count]))
  <1>1. DiskInv /\ PendingIntent /\ i \in IntentOf(Count) /\ i.checkpoint = r
    BY DEF Confirmable, IInv, TypeOK, DiskInv
  <1>2. Pending /\ enabled /\ Count \in 1..Count
    BY <1>1, LastType DEF PendingIntent, Pending, DiskInv
  <1>3. i = Announced(Count) /\ Announced(Count) \in records
    BY <1>1, <1>2, RecordsOf
  <1>4. r = commits[Count]
    BY <1>1, <1>3 DEF Announced
  <1>5. [i EXCEPT !.release = r] = Confirmed(Count, commits[Count])
    BY <1>3, <1>4 DEF Announced, Confirmed
  <1> QED
    BY <1>2, <1>3, <1>4, <1>5 DEF Writable

\* A publication is settled offline.
LEMMA ReconcileKeeps == ASSUME IInv, NEW r \in releases, Reconcile(r) PROVE IInv'
  <1>1. PICK i \in records : Confirmable(r, i) /\ RecordIsWritten([i EXCEPT !.release = r])
    BY DEF Reconcile
  <1>2. /\ lease = None /\ Readable
        /\ UNCHANGED <<lease, live, blocked, memory, resident, session, phase, job, trained>>
    BY DEF Reconcile, owner
  <1> DEFINE d == Confirmed(Count, commits[Count])
  <1>3. Writable(d) /\ RecordIsWritten(d)
    BY <1>1, ReconcileWrites
  <1>4. DiskInv' /\ UNCHANGED <<created, intents>>
    BY <1>3, RecordWritten, RecordStaged, WriteCut DEF RecordIsWritten, IInv, TypeOK, DiskInv
  <1>5. OwnerTyped' /\ Blank' /\ Leased'
    BY <1>2, <1>4 DEF IInv, TypeOK, OwnerTyped, Blank, Leased, Idle, Readable
  <1>6. Healthy'
    BY <1>2, Unowned, NobodyHealthy
  <1> QED
    BY <1>2, <1>4, <1>5, <1>6, HistoryKept, Assembled

-----------------------------------------------------------------------------
(* The theorems.                                                           *)

\* The invariant holds at the start.
LEMMA InitInv == Init => IInv
  <1> SUFFICES ASSUME Init PROVE IInv
    OBVIOUS
  <1>1. DiskTyped
    <2>1. created \in BOOLEAN /\ torn \in BOOLEAN /\ enabled \in BOOLEAN
      BY DEF Init
    <2>2. intents \in Seq([event: Event, parent: Checkpoint]) /\ commits \in Seq(Checkpoint)
      BY DEF Init
    <2>3. checkpoints \subseteq Checkpoint /\ releases \subseteq checkpoints
          /\ records \subseteq Record /\ staged \subseteq Record
      BY DEF Init
    <2> QED
      BY <2>1, <2>2, <2>3 DEF DiskTyped
  <1>2. LogShape
    BY <1>1, RunAssumption DEF Init, LogShape, Chained, Count
  <1>3. RecordShape /\ Blank /\ Leased
    BY DEF Init, RecordShape, Blank, Leased, Idle, Count
  <1>4. OwnerTyped
    <2>1. Fresh \in Memory
      BY NoCheckpointType, RunAssumption DEF Fresh, Memory, Catalog
    <2> QED
      BY <2>1 DEF Init, OwnerTyped, Phases
  <1>5. trained \in Seq(Event) /\ TrainedOnce
    BY DEF Init, TrainedOnce, NeverTrainedTwice
  <1>6. Healthy
    BY DEF Init, Healthy
  <1> QED
    BY <1>1, <1>2, <1>3, <1>4, <1>5, <1>6 DEF IInv, TypeOK

\* A step that changes nothing.
LEMMA StutterKeeps == ASSUME IInv, UNCHANGED vars PROVE IInv'
  <1>1. /\ UNCHANGED <<created, torn, intents, commits, checkpoints, releases, enabled, records, staged>>
        /\ UNCHANGED <<lease, live, blocked, memory, resident, session, phase, job, trained>>
    BY DEF vars
  <1>2. DiskInv'
    BY <1>1, DiskKept DEF disk, IInv, TypeOK, DiskInv
  <1>3. OwnerTyped' /\ Blank' /\ Leased'
    BY <1>1 DEF IInv, TypeOK, OwnerTyped, Blank, Leased, Idle
  <1>4. Healthy'
    BY <1>1, OthersHealthy DEF IInv, TypeOK, OwnerTyped
  <1> QED
    BY <1>1, <1>2, <1>3, <1>4, HistoryKept, Assembled

\* Every step keeps the invariant.
LEMMA NextInv == IInv /\ [Next]_vars => IInv'
  <1> SUFFICES ASSUME IInv, [Next]_vars PROVE IInv'
    OBVIOUS
  <1>1. ASSUME NEW p \in Processes, Train(p) PROVE IInv'
    BY <1>1, TrainBeginKeeps, TrainAnnounceKeeps, TrainLearnKeeps, TrainSaveKeeps,
       TrainCommitKeeps
       DEF Train
  <1>2. ASSUME NEW p \in Processes, Publish(p) PROVE IInv'
    BY <1>2, PublishBeginKeeps, PublishRefusedKeeps, PublishIntendKeeps, PublishReleaseKeeps,
       PublishConfirmKeeps DEF Publish
  <1>3. ASSUME NEW p \in Processes, Create(p) \/ CreateFails(p) \/ Enable(p) \/ EnableFails(p)
        PROVE  IInv'
    BY <1>3, CreateKeeps, CreateFailsKeeps, EnableKeeps, EnableFailsKeeps
  <1>4. ASSUME NEW p \in Processes, Fails(p) \/ Close(p) \/ DropSession(p) \/ Crash(p)
        PROVE  IInv'
    BY <1>4, FailsKeeps, CloseKeeps, DropSessionKeeps, CrashKeeps
  <1>5. ASSUME NEW p \in Processes, NEW c \in checkpoints, Restore(p, c) PROVE IInv'
    BY <1>5, RestoreKeeps
  <1>6. ASSUME NEW c \in checkpoints, PublishCheckpoint(c) PROVE IInv'
    BY <1>6, PublishCheckpointKeeps
  <1>7. ASSUME NEW r \in releases, Reconcile(r) PROVE IInv'
    BY <1>7, ReconcileKeeps
  <1>8. CASE UNCHANGED vars
    BY <1>8, StutterKeeps
  <1> QED
    BY <1>1, <1>2, <1>3, <1>4, <1>5, <1>6, <1>7, <1>8 DEF Next

\* The inductive invariant holds of every run of the learner.
THEOREM Invariance == Spec => []IInv
  BY InitInv, NextInv, PTL DEF Spec

\* Every variable has its type, whatever failed or died before.
THEOREM TypeCorrect == Spec => []TypeOK
  <1>1. IInv => TypeOK
    BY DEF IInv
  <1> QED
    BY <1>1, Invariance, PTL

\* No step of a run is trained twice, by one process or by two, over failures,
\* deaths, takeovers and restores.
THEOREM TrainedAtMostOnce == Spec => []NeverTrainedTwice
  <1>1. IInv => NeverTrainedTwice
    BY DEF IInv, TrainedOnce
  <1> QED
    BY <1>1, Invariance, PTL

\* What a coordinator checks before it goes on holds between its operations.
LEMMA HealthyAgrees == IInv => HealthyAgreesWithDisk
  <1> SUFFICES ASSUME IInv, NEW p \in live \ blocked, Idle(p)
               PROVE  /\ HeadIs(memory[p].parent)
                      /\ p \in resident /\ session[p] = Last.events
                      /\ memory[p].step = Count
                      /\ memory[p].cursor = Last.cursor /\ memory[p].catalog = Last.catalog
                      /\ memory[p].cache = PublishedHead
    BY DEF HealthyAgreesWithDisk
  <1>1. p \in Processes
    BY DEF IInv, TypeOK, OwnerTyped
  <1>2. Remembers(p) /\ Progress(p) /\ DiskInv
    BY <1>1, Acting
  <1>3. Resolved /\ session[p] = Last.events /\ ~PendingIntent
    BY <1>2 DEF Progress, Idle, Resolved
  <1>4. Readable
    BY <1>2, <1>3 DEF Readable, Remembers, DiskInv, LogShape
  <1>5. HeadReadable({})
    BY <1>2, PublishedDone DEF HeadReadable, Remembers
  <1> QED
    BY <1>2, <1>3, <1>4, <1>5 DEF HeadIs, Remembers

\* What restore asks of the disk holds of every run whose operations are settled.
LEMMA SettledResumes == IInv => ResolvedCanResume
  <1> SUFFICES ASSUME IInv, created, ~torn, Resolved, Count > 0, ~PendingIntent,
                      staged \subseteq records
               PROVE  Restorable(Last)
    BY DEF ResolvedCanResume
  <1>1. DiskInv /\ Count \in 1..Count
    BY LastType DEF IInv, TypeOK, DiskInv
  <1>2. commits # <<>> /\ Last \in checkpoints
    BY <1>1 DEF DiskInv, LogShape, Last, Count
  <1>3. HeadIs(Last)
    BY <1>1, PublishedDone DEF HeadIs, Readable, HeadReadable, DiskInv, LogShape
  <1>4. PublishedHead # None =>
           PublishedHead.release \in releases /\ PublishedHead.release = PublishedHead.checkpoint
    <2>1. CASE Published = 0
      BY <2>1, <1>1, PublishedDone
    <2>2. CASE Published # 0
      <3>1. Published \in 1..Published /\ Published \in 1..Count
        BY <2>2, <1>1, PublishedDone
      <3>2. /\ PublishedHead = Confirmed(Published, commits[Published])
            /\ PublishedHead \in records
        BY <2>2, <3>1, <1>1, PublishedDone
      <3>3. PublishedHead.release # None /\ PublishedHead.release = PublishedHead.checkpoint
        BY <3>1, <3>2, <1>1, RecordKinds DEF DiskInv
      <3> QED
        BY <3>2, <3>3, <1>1 DEF DiskInv, RecordShape
    <2> QED
      BY <2>1, <2>2
  <1> QED
    BY <1>2, <1>3, <1>4 DEF Restorable

\* The checks of the log, the records and the memory refuse nothing that the code
\* itself has left behind.
THEOREM ChecksHold == Spec => []ChecksNeverRefuse
  <1>1. IInv => ChecksNeverRefuse
    BY HealthyAgrees, SettledResumes DEF ChecksNeverRefuse
  <1> QED
    BY <1>1, Invariance, PTL

-----------------------------------------------------------------------------
(* The run implements the line of releases.                                *)

Confirmations == {d \in records : d.release # None}

\* As many confirmations as published commits.
Counted == Cardinality(Confirmations) = Published

LEMMA ReleasedCount == DiskInv => Counted
  <1> SUFFICES ASSUME DiskInv PROVE Cardinality(Confirmations) = Published
    BY DEF Counted
  <1>0. Count \in Nat /\ Published \in 0..Count
    BY LastType, PublishedDone DEF DiskInv
  <1> DEFINE f == [n \in 1..Published |-> Confirmed(n, commits[n])]
  <1>1. ASSUME NEW d \in Confirmations
        PROVE  d.step \in 1..Published /\ d = Confirmed(d.step, commits[d.step])
    <2>1. d \in records /\ d.release # None /\ d.step \in 1..Count
      BY <1>1 DEF Confirmations, DiskInv, RecordShape
    <2>2. d = Confirmed(d.step, commits[d.step])
      BY <2>1, RecordKinds DEF DiskInv, RecordShape
    <2>3. enabled
      BY <2>1 DEF DiskInv, RecordShape
    <2>4. d.step = Count => ~Pending
      BY <2>1 DEF Pending, DoneOf
    <2>5. d.step \in 1..Published
      BY <1>0, <2>1, <2>3, <2>4 DEF Published
    <2> QED
      BY <2>2, <2>5
  <1>2. ASSUME NEW n \in 1..Published PROVE f[n] \in Confirmations /\ f[n].step = n
    <2>1. n \in 1..Count /\ Confirmed(n, commits[n]) \in records
      BY <1>0, PublishedDone
    <2> QED
      BY <2>1, RecordKinds DEF Confirmations, DiskInv
  <1>3. f \in Bijection(1..Published, Confirmations)
    <2>1. f \in [1..Published -> Confirmations]
      BY <1>2
    <2>2. \A a, b \in 1..Published : f[a] = f[b] => a = b
      BY <1>2
    <2>3. \A d \in Confirmations : \E n \in 1..Published : f[n] = d
      BY <1>1
    <2> HIDE DEF f
    <2> QED
      BY <2>1, <2>2, <2>3 DEF Bijection, Injection, Surjection, IsInjective
  <1>4. IsFiniteSet(1..Published) /\ Cardinality(1..Published) = Published
    BY <1>0, FS_Interval
  <1>5. ExistsBijection(1..Published, Confirmations)
    BY <1>3 DEF ExistsBijection
  <1> QED
    BY <1>4, <1>5, FS_Bijection

\* The same after a step.
LEMMA ReleasedCountNext == DiskInv' => Counted'
  BY ReleasedCount, PTL

\* A commit is the next step of the line, on top of a released one where release
\* heads are required.
LEMMA CommitOnTheLine ==
  ASSUME IInv, NEW p \in Processes, phase[p] = "commit", WriteCommit(p)
  PROVE  Line!Commit
  <1>1. p \in live \ blocked
    BY Busy DEF Idle
  <1>2. Remembers(p) /\ Progress(p) /\ DiskInv /\ OwnerTyped
    BY <1>1, Acting
  <1>3. NextEvent(p)
    BY <1>2 DEF Progress
  <1>4. /\ Last'.events = Append(Last.events, job[p])
        /\ UNCHANGED <<enabled, records>>
    BY <1>2, CommitWritten
  <1>5. /\ Last.events \in Seq(Event) /\ Len(Last.events) = Count /\ job[p] \in Event
    BY <1>2, <1>3, LastType DEF DiskInv, Checkpoint, NextEvent
  <1>6. enabled => Cardinality(Confirmations) = Len(Last.events)
    BY <1>2, <1>3, <1>5, ReleasedCount DEF Counted, Published, NextEvent
  <1>7. UNCHANGED <<Cardinality(Confirmations), enabled>>
    BY <1>4 DEF Confirmations
  <1>8. /\ Len(Last'.events) = Len(Last.events) + 1
        /\ \A i \in DOMAIN Last.events : Last'.events[i] = Last.events[i]
        /\ Last'.events[Len(Last'.events)] \in Event
    BY <1>4, <1>5
  <1> QED
    BY <1>6, <1>7, <1>8 DEF Line!Commit, Confirmations

\* A confirmation releases the next step of the line.
LEMMA ConfirmationOnTheLine ==
  ASSUME DiskInv, Pending, Writable(Confirmed(Count, commits[Count])),
         WriteRecord(Confirmed(Count, commits[Count]))
  PROVE  Line!Release
  <1>1. /\ DiskInv' /\ UNCHANGED <<commits, enabled>>
    BY RecordWritten
  <1>2. Published' = Count /\ Published = Count - 1 /\ Count \in Nat
    BY ConfirmedHead, LastType DEF Published, Pending, DiskInv
  <1>3. Cardinality(Confirmations) = Count - 1 /\ Cardinality(Confirmations)' = Count
    BY <1>1, <1>2, ReleasedCount, ReleasedCountNext DEF Counted
  <1>4. Last' = Last /\ Len(Last.events) = Count /\ enabled
    BY <1>1, LastType DEF Last, Count, Pending, DiskInv
  <1> QED
    BY <1>1, <1>2, <1>3, <1>4 DEF Line!Release, Confirmations

\* A record is written or staged, or its write is cut short: the line is released
\* one step further when it is the confirmation, and stays as it is otherwise.
LEMMA RecordOnTheLine ==
  ASSUME DiskInv, Pending, NEW r \in {Announced(Count), Confirmed(Count, commits[Count])},
         Writable(r), RecordIsWritten(r)
  PROVE  Line!Release \/ UNCHANGED <<Last.events, Cardinality(Confirmations), enabled>>
  <1>1. CASE WriteRecord(r) /\ r = Confirmed(Count, commits[Count])
    BY <1>1, ConfirmationOnTheLine
  <1>2. CASE WriteRecord(r) /\ r = Announced(Count)
    <2>1. records' = records \cup {r} /\ UNCHANGED <<commits, enabled>> /\ r.release = None
      BY <1>2, RecordWritten DEF Announced
    <2>2. Confirmations' = Confirmations
      BY <2>1 DEF Confirmations
    <2> QED
      BY <2>1, <2>2 DEF Last, Count
  <1>3. CASE RecordIsStaged(r) \/ WriteIsCut
    <2>1. UNCHANGED <<records, commits, enabled>>
      BY <1>3 DEF RecordIsStaged, WriteIsCut, training, publication
    <2> QED
      BY <2>1 DEF Last, Count, Confirmations
  <1> QED
    BY <1>1, <1>2, <1>3 DEF RecordIsWritten

\* Where neither commits nor records nor the requirement change, the line stays.
LEMMA SameLine ==
  ASSUME UNCHANGED <<commits, records, enabled>>
  PROVE  UNCHANGED <<Last.events, Cardinality(Confirmations), enabled>>
  BY DEF Last, Count, Confirmations

\* Whatever is left of an operation that stops is a step of the line or none.
LEMMA InterruptionOnTheLine ==
  ASSUME IInv, NEW p \in Processes, Interrupted(p, intents)
  PROVE  \/ Line!Commit \/ Line!Release
         \/ UNCHANGED <<Last.events, Cardinality(Confirmations), enabled>>
  <1>1. CASE phase[p] = "commit" /\ WriteCommit(p)
    BY <1>1, CommitOnTheLine
  <1>2. CASE \/ phase[p] = "intend" /\ RecordIsWritten(Announced(Count))
             \/ phase[p] = "confirm" /\ RecordIsWritten(Confirmed(Count, commits[Count]))
    <2>1. p \in live \ blocked
      BY <1>2, Busy DEF Idle
    <2>2. DiskInv /\ Pending
      BY <1>2, <2>1, Acting DEF Progress
    <2> QED
      BY <1>2, <2>2, PhaseWrites, RecordOnTheLine
  <1>3. CASE UNCHANGED <<commits, records, enabled>>
    BY <1>3, SameLine
  <1> QED
    BY <1>1, <1>2, <1>3
    DEF Interrupted, WriteIntent, WriteIsCut, WriteCheckpoint, WriteRelease, training, publication

\* Every step of the run is a step of the line or leaves it alone.
LEMMA StepOnTheLine ==
  ASSUME IInv, [Next]_vars
  PROVE  Line!Next \/ UNCHANGED <<Last.events, Cardinality(Confirmations), enabled>>
  <1>0. DiskInv
    BY DEF IInv, TypeOK, DiskInv
  <1>1. ASSUME NEW p \in Processes, Enable(p) \/ EnableFails(p)
        PROVE  Line!Require \/ UNCHANGED <<Last.events, Cardinality(Confirmations), enabled>>
    <2>1. /\ MayEnable(p) /\ UNCHANGED <<commits, records>>
          /\ enabled' = TRUE \/ UNCHANGED enabled
      BY <1>1 DEF Enable, EnableFails, training, publication
    <2>2. CASE UNCHANGED enabled
      BY <2>1, <2>2, SameLine
    <2>3. CASE enabled' = TRUE
      <3>1. memory[p].parent = NoCheckpoint /\ p \in live \ blocked
        BY <2>1 DEF MayEnable, CheckLive
      <3>2. Last = NoCheckpoint
        BY <3>1, Acting DEF Remembers
      <3>3. UNCHANGED <<Last.events, Cardinality(Confirmations)>>
        BY <2>1 DEF Last, Count, Confirmations
      <3> QED
        BY <2>3, <3>2, <3>3 DEF Line!Require, Confirmations, NoCheckpoint
    <2> QED
      BY <2>1, <2>2, <2>3
  <1>2. ASSUME NEW p \in Processes, Train(p)
        PROVE  Line!Commit \/ UNCHANGED <<Last.events, Cardinality(Confirmations), enabled>>
    <2>1. CASE TrainCommit(p)
      BY <2>1, CommitOnTheLine DEF TrainCommit
    <2>2. CASE TrainBegin(p) \/ TrainAnnounce(p) \/ TrainLearn(p) \/ TrainSave(p)
      BY <2>2, SameLine DEF TrainBegin, TrainAnnounce, TrainLearn, TrainSave, WriteIntent,
         WriteCheckpoint, disk, publication
    <2> QED
      BY <1>2, <2>1, <2>2 DEF Train
  <1>3. ASSUME NEW p \in Processes, Publish(p)
        PROVE  Line!Release \/ UNCHANGED <<Last.events, Cardinality(Confirmations), enabled>>
    <2>1. CASE PublishIntend(p) \/ PublishConfirm(p)
      <3>1. \/ phase[p] = "intend" /\ RecordIsWritten(Announced(Count))
            \/ phase[p] = "confirm" /\ RecordIsWritten(Confirmed(Count, commits[Count]))
        BY <2>1 DEF PublishIntend, PublishConfirm, RecordIsWritten
      <3>2. Pending
        BY <3>1, Busy, Acting DEF Idle, Progress
      <3> QED
        BY <1>0, <3>1, <3>2, PhaseWrites, RecordOnTheLine
    <2>2. CASE PublishBegin(p) \/ PublishRefused(p) \/ PublishRelease(p) \/ PublishPlainFails(p)
      BY <2>2, SameLine DEF PublishBegin, PublishRefused, PublishRelease, PublishPlainFails,
         WriteRelease, disk, training
    <2> QED
      BY <1>3, <2>1, <2>2 DEF Publish
  <1>4. ASSUME NEW p \in Processes, Fails(p) \/ Crash(p)
        PROVE  \/ Line!Commit \/ Line!Release
               \/ UNCHANGED <<Last.events, Cardinality(Confirmations), enabled>>
    BY <1>4, InterruptionOnTheLine DEF Fails, Crash, Kept
  <1>5. ASSUME NEW r \in releases, Reconcile(r)
        PROVE  Line!Release \/ UNCHANGED <<Last.events, Cardinality(Confirmations), enabled>>
    <2>1. PICK i \in records : Confirmable(r, i) /\ RecordIsWritten([i EXCEPT !.release = r])
      BY <1>5 DEF Reconcile
    <2> QED
      BY <1>0, <2>1, ReconcileWrites, RecordOnTheLine
  <1>6. ASSUME NEW p \in Processes,
               \/ Create(p) \/ CreateFails(p) \/ Close(p) \/ DropSession(p)
               \/ \E c \in checkpoints : Restore(p, c)
        PROVE  UNCHANGED <<Last.events, Cardinality(Confirmations), enabled>>
    BY <1>6, SameLine DEF Create, CreateFails, Close, DropSession, Restore, disk, training,
       publication
  <1>7. CASE (\E c \in checkpoints : PublishCheckpoint(c)) \/ UNCHANGED vars
    BY <1>7, SameLine DEF PublishCheckpoint, WriteRelease, training, vars
  <1> QED
    BY <1>1, <1>2, <1>3, <1>4, <1>5, <1>6, <1>7 DEF Next, Line!Next

\* The run implements ReleaseLine: commits grow the line one step at a time,
\* confirmations release it in order, and once release heads are required no step
\* is trained on top of an unreleased one.
THEOREM ImplementsTheLine == Spec => KeepsTheLine
  <1>1. Init => Line!Init
    <2> SUFFICES ASSUME Init PROVE Line!Init
      OBVIOUS
    <2>1. {d \in records : d.release # None} = {}
      BY DEF Init
    <2> QED
      BY <2>1, FS_EmptySet DEF Init, Line!Init, Last, NoCheckpoint
  <1>2. IInv /\ [Next]_vars => [Line!Next]_<<Last.events,
                                            Cardinality({d \in records : d.release # None}), enabled>>
    BY StepOnTheLine DEF Confirmations
  <1> QED
    BY <1>1, <1>2, Invariance, PTL DEF Spec, KeepsTheLine, Line!Spec
=============================================================================
