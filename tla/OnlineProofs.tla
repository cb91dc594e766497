--------------------------- MODULE OnlineProofs ---------------------------
(* Theorems about in-problem training.  First OnlineTTT, for trees,        *)
(* searches and budgets of any size: every safety property of a run, and   *)
(* the refinement of SearchBarrier.  Then OnlineBatch, which runs many:    *)
(* its two safety properties, for any manifest and any number of places.   *)
EXTENDS OnlineTTT, OnlineBatch, FiniteSetTheorems, WellFoundedInduction, TLAPS

Trees == [solved: BOOLEAN, trainable: SUBSET Nodes, visits: [Nodes -> Nat]]
Kinds == {"generation", "backup", "checkpoint", "checkpoint_ack", "selection_value_refresh"}
Records ==
    {r \in [kind: Kinds, step: Steps, version: Nat, about: Nat \cup Trees] :
        /\ r.kind = "checkpoint" => r.about \in Trees
        /\ r.kind = "backup" => r.about \in Nodes}
Acks == [status: {"continue", "error"}, version: Nat]
Requests == [step: Steps, node: Nodes, version: Nat, visits: Nat]
Refreshes == [step: Steps, version: Nat, acknowledged: BOOLEAN]

Bounded(S) == \E b \in Nat : \A n \in S : n <= b
Is(kind, i) == stream[i].kind = kind

TypeOK ==
    /\ phase \in Searching \cup Over \cup {"wait"}
    /\ step \in Steps /\ known \in Nat /\ fresh \in Nat
    /\ stream \in Seq(Records)
    /\ acks \in [Steps -> Acks \cup {None}]
    /\ requests \in Seq(Requests)
    /\ applied \in Nat /\ wire \in {"idle", "sent", "answered", "refused"}
    /\ pc \in {"poll", "learn", "witness", "publish", "stop", "report", "done", "dead"}
    /\ cursor \in 0..Len(stream)
    /\ version \in Nat /\ lastStep \in Steps \cup {-1}
    /\ backedUp \subseteq Nodes /\ Bounded(backedUp)
    /\ consumed \in [Nodes -> Nat]
    /\ pending \in Refreshes \cup {None}

-----------------------------------------------------------------------------
(* The inductive invariant.                                                *)

Unheard == cursor + 1..Len(stream)
Updating == pc \in {"learn", "witness", "publish"}
Healthy == pc = "poll" \/ Updating

\* Lean is in the iteration after the last checkpoint that was accepted, or waits
\* at that checkpoint or at the next one; no acknowledgement is ahead of that.
StepsAgree ==
    /\ phase = "search" => step = lastStep + 1
    /\ phase = "refresh" => step = lastStep
    /\ phase = "wait" => step \in {lastStep, lastStep + 1}
    /\ \A s \in Steps : acks[s] # None => s <= lastStep
    /\ \A i \in DOMAIN stream :
          /\ stream[i].step <= step
          /\ Is("checkpoint", i) /\ phase = "search" => stream[i].step < step
    /\ \A i \in Unheard : Is("checkpoint", i) =>
          i = Len(stream) /\ stream[i].step = step /\ step = lastStep + 1 /\ phase \notin Searching

\* The search stands at the barrier and will not pass it.
Held ==
    /\ phase \notin Searching
    /\ phase = "wait" => step = lastStep /\ (acks[step] = None \/ acks[step].status = "error")

\* What the coordinator has requests and receipts for is what the GPU applied.
Counted ==
    /\ pc \in {"poll", "witness", "publish"} =>
          applied = version /\ Len(requests) = version /\ wire # "sent"
    /\ pc = "learn" =>
          /\ Len(requests) = version + 1 /\ wire # "idle"
          /\ applied = IF wire = "answered" THEN version + 1 ELSE version
    /\ wire = "sent" => Len(requests) > version

\* A request without a receipt holds the search, and so does an update up to its
\* acknowledgement.
SearchHeld ==
    /\ Len(requests) > version => Held
    /\ Updating => /\ phase \notin Searching /\ (phase = "wait" => step = lastStep)
                   /\ lastStep \in Steps /\ acks[lastStep] = None /\ cursor = Len(stream)

\* An acknowledgement lets the search go on with the updates the GPU applied.
AckCounts ==
    phase = "wait" /\ acks[step] # None /\ acks[step].status = "continue" =>
        acks[step].version = applied

UpdatesAgree == Counted /\ SearchHeld /\ AckCounts

\* The refreshed values are still to come behind record k, or come next.
Refreshing(k) ==
    \/ Len(stream) = k /\ phase \in Over \cup {"refresh"}
    \/ /\ k < Len(stream) /\ phase # "refresh"
       /\ Is("selection_value_refresh", k + 1)
       /\ stream[k + 1].step = lastStep /\ stream[k + 1].about = version
       /\ \A i \in k + 2..Len(stream) : ~Is("selection_value_refresh", i)
       /\ phase \notin Over => fresh = version
       /\ phase = "wait" => step = lastStep + 1

\* What Lean writes while the coordinator waits for a refresh.
Awaited ==
    /\ Refresh /\ pending.version = version /\ pending.step = lastStep
    /\ IF pending.acknowledged THEN Refreshing(cursor)
       ELSE \/ /\ cursor = Len(stream) /\ phase \notin Searching
               /\ phase = "wait" => step = lastStep /\ fresh = version - 1 /\ acks[step] # None
            \/ /\ cursor < Len(stream) /\ Is("checkpoint_ack", cursor + 1)
               /\ stream[cursor + 1].step = lastStep
               /\ Refreshing(cursor + 1)

\* Both sides count versions alike.
VersionKnown ==
    Healthy =>
        /\ \A i \in Unheard : stream[i].version = version
        /\ phase \in Searching => known = version
        /\ phase = "wait" /\ acks[step] # None =>
              acks[step] = [status |-> "continue", version |-> version]

\* While no refresh is waited for none comes, and the search uses current values.
ValuesFresh ==
    Healthy /\ pending = None =>
        /\ phase # "refresh"
        /\ \A i \in Unheard : ~Is("selection_value_refresh", i)
        /\ Refresh /\ phase \notin Over =>
              fresh = IF pc \in {"witness", "publish"} THEN version - 1 ELSE version

\* A refresh that is waited for comes next.
RefreshAwaited ==
    /\ Updating => pending = None
    /\ pc = "poll" /\ pending # None => Awaited

VersionsAgree == error # "protocol" /\ VersionKnown /\ ValuesFresh /\ RefreshAwaited

Refreshed(v) == \E i \in DOMAIN stream : Is("selection_value_refresh", i) /\ stream[i].about = v

\* Which versions the values of the search were refreshed to, and what is known
\* when the run is closed.
ClosedInOrder ==
    /\ pc = "poll" \/ pc = "learn" =>
          \A v \in 1..version : Refresh => Refreshed(v) \/ (pending # None /\ v = version)
    /\ pc \in {"witness", "publish"} => \A v \in 1..version - 1 : Refresh => Refreshed(v)
    /\ pc = "stop" => error # "none"
    /\ pc \in {"report", "done"} /\ error = "none" =>
          /\ applied = version /\ wire # "sent"
          /\ \A v \in 1..version : Refresh => Refreshed(v)
    /\ after # None => pc = "done" /\ error = "none" /\ after = applied

\* The backups of node n in the records r up to iteration s.
Seen(r, n, s) == {i \in DOMAIN r : r[i].kind = "backup" /\ r[i].about = n /\ r[i].step <= s}

TreesCounted == \A i \in DOMAIN stream : Is("checkpoint", i) =>
    \A n \in Nodes : stream[i].about.visits[n] = Cardinality(Seen(stream, n, stream[i].step))

\* The backups the coordinator knows are of the iteration Lean is in.
BackupsCurrent ==
    /\ \A i \in Unheard : Is("backup", i) => stream[i].step = lastStep + 1
    /\ pc = "poll" => \A n \in backedUp : \E i \in 1..cursor :
          Is("backup", i) /\ stream[i].about = n /\ stream[i].step = lastStep + 1

\* What TargetsAreFresh says of one request, by the records r up to iteration s.
FreshlySeen(q, r, s) ==
    /\ q.step <= s
    /\ q.visits = Cardinality(Seen(r, q.node, q.step))
    /\ \E i \in Seen(r, q.node, q.step) : r[i].step = q.step

\* What the targets are chosen from.
TreesAgree ==
    /\ TreesCounted /\ BackupsCurrent
    /\ \A k \in DOMAIN requests : FreshlySeen(requests[k], stream, lastStep)

IInv == TypeOK /\ StepsAgree /\ UpdatesAgree /\ VersionsAgree /\ ClosedInOrder /\ TreesAgree

-----------------------------------------------------------------------------
(* Facts about records and targets.                                        *)

\* A record added to the stream leaves the others where they are.
LEMMA Written ==
    ASSUME TypeOK, NEW kind \in Kinds, NEW stamp \in Nat, NEW about,
           about \in IF kind = "checkpoint" THEN Trees ELSE IF kind = "backup" THEN Nodes ELSE Nat,
           stream' = Append(stream, Record(kind, stamp, about))
    PROVE  /\ stream' \in Seq(Records) /\ Len(stream') = Len(stream) + 1
           /\ Len(stream) \in Nat /\ DOMAIN stream = 1..Len(stream)
           /\ DOMAIN stream' = 1..Len(stream) + 1
           /\ \A i \in 1..Len(stream) : stream'[i] = stream[i]
           /\ stream'[Len(stream) + 1].kind = kind /\ stream'[Len(stream) + 1].step = step
           /\ stream'[Len(stream) + 1].version = stamp /\ stream'[Len(stream) + 1].about = about
<1> DEFINE r == Record(kind, stamp, about)
<1>1. r \in Records
  BY OnlineAssumption DEF Record, Records, Kinds, TypeOK
<1>2. r.kind = kind /\ r.step = step /\ r.version = stamp /\ r.about = about
  BY DEF Record
<1>3. stream' = Append(stream, r)
  OBVIOUS
<1> HIDE DEF r
<1> QED BY <1>1, <1>2, <1>3 DEF TypeOK

\* The visits of a tree are numbers.
LEMMA VisitsType == TypeOK => Visits \in [Nodes -> Nat]
<1> SUFFICES ASSUME TypeOK, NEW n \in Nodes PROVE Cardinality(Backups(n)) \in Nat
  BY DEF Visits
<1>1. DOMAIN stream = 1..Len(stream) /\ Len(stream) \in Nat
  BY DEF TypeOK
<1>2. IsFiniteSet(1..Len(stream))
  BY <1>1, FS_Interval
<1>3. Backups(n) \subseteq 1..Len(stream)
  BY <1>1 DEF Backups
<1>4. IsFiniteSet(Backups(n))
  BY <1>2, <1>3, FS_Subset
<1> QED BY <1>4, FS_CardinalityType

\* A set of naturals with a bound has a greatest member.
LEMMA GreatestExists ==
    ASSUME NEW S \in SUBSET Nat, S # {}, NEW b \in Nat, \A s \in S : s <= b
    PROVE  \E r \in S : \A s \in S : s <= r
<1> DEFINE T == {k \in Nat : \E s \in S : s + k = b}
<1>1. T # {}
  <2>1. PICK s \in S : TRUE
    OBVIOUS
  <2>2. b - s \in Nat /\ s + (b - s) = b
    BY <2>1
  <2> QED BY <2>1, <2>2
<1>2. PICK k \in T : \A l \in T : ~ (<<l, k>> \in OpToRel(<, Nat))
  BY <1>1, WFMin, NatLessThanWellFounded
<1>3. PICK r \in S : r + k = b
  OBVIOUS
<1>4. ASSUME NEW s \in S
      PROVE  s <= r
  <2>1. b - s \in T
    BY <1>4
  <2>2. ~ (b - s < k)
    BY <1>2, <2>1 DEF OpToRel
  <2> QED BY <1>3, <1>4, <2>2
<1> QED BY <1>4

\* The bound of a set with one more member.
LEMMA BoundedAdd ==
    ASSUME NEW S \in SUBSET Nat, Bounded(S), NEW n \in Nat
    PROVE  Bounded(S \cup {n})
<1>1. PICK b \in Nat : \A m \in S : m <= b
  BY DEF Bounded
<1>2. b + n \in Nat /\ \A m \in S \cup {n} : m <= b + n
  BY <1>1
<1> QED BY <1>2 DEF Bounded

\* An acknowledgement is one.
LEMMA AckType ==
    ASSUME TypeOK, NEW status \in {"continue", "error"}, Acknowledge(status)
    PROVE  /\ acks' \in [Steps -> Acks \cup {None}]
           /\ \A s \in Steps : acks'[s] = IF s = lastStep' THEN [status |-> status, version |-> version]
                                                           ELSE acks[s]
<1>1. [status |-> status, version |-> version] \in Acks
  BY DEF TypeOK, Acks
<1> QED BY <1>1 DEF Acknowledge, TypeOK

\* A refresh that is waited for is not None.
LEMMA RefreshIsSome ==
    ASSUME NEW s \in Steps, NEW v \in Nat, NEW b \in BOOLEAN
    PROVE  [step |-> s, version |-> v, acknowledged |-> b] # None
<1>1. s \in Nat
  BY OnlineAssumption DEF Steps
<1>2. [step |-> s, version |-> v, acknowledged |-> b] \in [step: Nat, version: Nat, acknowledged: BOOLEAN]
  BY <1>1
<1> QED BY <1>2, OnlineAssumption

\* The node an update is made for is one of those it may be made for.
LEMMA TargetIsOne ==
    ASSUME TypeOK, NEW r \in Records, Targets(r) # {}
    PROVE  Target(r) \in Targets(r) /\ Targets(r) \subseteq backedUp /\ Target(r) \in Nodes
<1>1. Targets(r) \subseteq backedUp
  BY DEF Targets
<1>2. PICK b \in Nat : \A n \in backedUp : n <= b
  BY DEF TypeOK, Bounded
<1>3. Targets(r) \in SUBSET Nat
  BY <1>1, OnlineAssumption DEF TypeOK
<1>4. \E n \in Targets(r) : \A m \in Targets(r) : m <= n
  BY <1>1, <1>2, <1>3, GreatestExists
<1>5. Target(r) \in Targets(r)
  BY <1>4 DEF Target
<1> QED BY <1>1, <1>5 DEF TypeOK

-----------------------------------------------------------------------------
(* Types.                                                                  *)

\* What Lean does keeps the types.
LEMMA LeanTypes == TypeOK /\ (LeanNext \/ LeanFails) => TypeOK'
<1> SUFFICES ASSUME TypeOK, LeanNext \/ LeanFails PROVE TypeOK'
  OBVIOUS
<1> USE OnlineAssumption
<1>1. ASSUME NEW n \in Nodes, NEW kind \in {"generation", "backup"}, Observe(kind, n)
      PROVE  TypeOK'
  <2>1. stream' \in Seq(Records) /\ Len(stream') = Len(stream) + 1
    BY <1>1, Written DEF Observe, Kinds, TypeOK
  <2> QED BY <1>1, <2>1 DEF Observe, TypeOK, lean, gpu, accepted, trained
<1>2. ASSUME NEW solved \in BOOLEAN, NEW trainable \in SUBSET Nodes, Checkpoint(solved, trainable)
      PROVE  TypeOK'
  <2> DEFINE tree == [solved |-> solved, trainable |-> trainable, visits |-> Visits]
  <2>1. tree \in Trees
    BY VisitsType DEF Trees
  <2>2. stream' = Append(stream, Record("checkpoint", known, tree))
    BY <1>2 DEF Checkpoint
  <2> HIDE DEF tree
  <2>4. stream' \in Seq(Records) /\ cursor \in 0..Len(stream')
    BY <2>1, <2>2, Written DEF TypeOK, Kinds
  <2> QED BY <1>2, <2>4 DEF Checkpoint, TypeOK, gpu, accepted, trained, Searching, Over
<1>3. CASE TakeAck
  <2>1. acks[step] \in Acks /\ acks[step].version \in Nat
    BY <1>3 DEF TakeAck, TypeOK, Acks
  <2>2. phase' \in Searching \cup Over \cup {"wait"} /\ step' \in Steps
    BY <1>3 DEF TakeAck, Leave, Continue, TypeOK, Searching, Over, Steps
  <2>3. known' \in Nat
    BY <1>3, <2>1 DEF TakeAck, TypeOK
  <2>4. stream' \in Seq(Records) /\ cursor \in 0..Len(stream')
    <3>1. CASE stream' = stream
      BY <3>1 DEF TypeOK
    <3>2. CASE stream' = Append(stream, Record("checkpoint_ack", acks[step].version, 0))
      <4>1. "checkpoint_ack" \in Kinds /\ 0 \in Nat
        BY DEF Kinds
      <4>2. stream' \in Seq(Records) /\ Len(stream') = Len(stream) + 1 /\ Len(stream) \in Nat
        BY <2>1, <3>2, <4>1, Written
      <4> QED BY <4>2 DEF TypeOK
    <3> QED BY <1>3, <3>1, <3>2 DEF TakeAck
  <2>5. UNCHANGED <<pc, cursor, version, lastStep, acks, pending, error>>
    BY <1>3 DEF TakeAck, gpu, accepted, trained
  <2>6. fresh' \in Nat
    BY <1>3, <2>1 DEF TakeAck, TypeOK, accepted, trained
  <2> QED BY <1>3, <2>2, <2>3, <2>4, <2>5, <2>6 DEF TakeAck, TypeOK, gpu, accepted, trained
<1>4. CASE BarrierTimeout
  BY <1>4 DEF BarrierTimeout, TypeOK, gpu, accepted, trained, observer, Searching, Over
<1>5. CASE RefreshValues
  <2>2. stream' \in Seq(Records) /\ cursor \in 0..Len(stream')
    BY <1>5, Written DEF RefreshValues, TypeOK, Kinds
  <2>3. phase' \in Searching \cup Over \cup {"wait"} /\ step' \in Steps /\ fresh' \in Nat
    BY <1>5 DEF RefreshValues, Continue, TypeOK, Searching, Over, Steps
  <2> QED BY <1>5, <2>2, <2>3 DEF RefreshValues, TypeOK, gpu, accepted, trained
<1>6. CASE LeanFails
  BY <1>6 DEF LeanFails, Ends, TypeOK, gpu, accepted, trained, Searching, Over
<1> QED BY <1>1, <1>2, <1>3, <1>4, <1>5, <1>6 DEF LeanNext

\* What the GPU and the coordinator do keeps the types.
LEMMA CoordinatorTypes ==
  TypeOK /\ UpdatesAgree /\ (GpuLearns \/ CoordinatorNext \/ Die) => TypeOK'
<1> SUFFICES ASSUME TypeOK, UpdatesAgree, GpuLearns \/ CoordinatorNext \/ Die PROVE TypeOK'
  OBVIOUS
<1> USE OnlineAssumption
<1>1. CASE GpuLearns
  BY <1>1 DEF GpuLearns, TypeOK, lean, observer, accepted, trained
<1>2. CASE Die
  BY <1>2 DEF Die, TypeOK, lean, observer, gpu, accepted, trained
<1>3. CASE Accept
  <2>1. Unread \in Records /\ cursor' \in 0..Len(stream)
    BY <1>3 DEF Accept, Unread, TypeOK
  <2>2. pc' \in {"poll", "stop"}
    BY <1>3 DEF Accept, Fail
  <2>3. backedUp' \subseteq Nodes /\ Bounded(backedUp')
    <3>1. CASE backedUp' = backedUp
      BY <3>1 DEF TypeOK
    <3>2. CASE Unread.kind = "backup" /\ backedUp' = backedUp \cup {Unread.about}
      <4>1. Unread.about \in Nodes /\ Nodes \subseteq Nat
        BY <2>1, <3>2 DEF Records
      <4>2. Bounded(backedUp')
        BY <3>2, <4>1, BoundedAdd DEF TypeOK
      <4> QED BY <3>2, <4>1, <4>2 DEF TypeOK
    <3> QED BY <1>3, <3>1, <3>2 DEF Accept
  <2>4. pending' \in Refreshes \cup {None}
    BY <1>3 DEF Accept, TypeOK, Refreshes
  <2> QED BY <1>3, <2>1, <2>2, <2>3, <2>4
       DEF Accept, TypeOK, lean, observer, gpu, trained
<1>4. CASE AcceptCheckpoint
  <2>1. Unread \in Records /\ Unread.kind = "checkpoint" /\ cursor' \in 0..Len(stream)
    BY <1>4 DEF AcceptCheckpoint, Unread, TypeOK
  <2>2. Unread.step \in Steps /\ Unread.about \in Trees
    BY <2>1 DEF Records
  <2>3. /\ acks' \in [Steps -> Acks \cup {None}] /\ wire' \in {"idle", "sent", "answered", "refused"}
        /\ pc' \in {"poll", "learn", "stop"}
    <3>1. acks' = acks \/ Acknowledge("continue") \/ Acknowledge("error")
      BY <1>4 DEF AcceptCheckpoint, Pass, Send, Reject, Refuses
    <3>2. acks' \in [Steps -> Acks \cup {None}]
      BY <3>1, AckType DEF TypeOK
    <3>3. /\ wire' \in {"idle", "sent", "answered", "refused"} /\ pc' \in {"poll", "learn", "stop"}
      BY <1>4 DEF AcceptCheckpoint, Pass, Send, Reject, Refuses, Fail, TypeOK
    <3> QED BY <3>2, <3>3
  <2>4. backedUp' \subseteq Nodes /\ Bounded(backedUp')
    <3>1. Bounded({})
      BY DEF Bounded
    <3> QED BY <1>4, <3>1 DEF AcceptCheckpoint, Pass, Send, Reject, TypeOK
  <2>5. requests' \in Seq(Requests)
    <3>1. CASE Send(Unread)
      <4>1. Target(Unread) \in Nodes
        BY <2>1, <3>1, TargetIsOne DEF Send, MayUpdate
      <4>2. Unread.about.visits[Target(Unread)] \in Nat
        BY <2>2, <4>1 DEF Trees
      <4> QED BY <2>2, <3>1, <4>1, <4>2 DEF Send, TypeOK, Requests
    <3> QED BY <1>4, <3>1 DEF AcceptCheckpoint, Pass, Reject, TypeOK
  <2> QED BY <1>4, <2>1, <2>2, <2>3, <2>4, <2>5
       DEF AcceptCheckpoint, TypeOK, lean, observer, trained
<1>5. CASE LearnReturns
  <2>1. requests[Len(requests)] \in Requests
    <3>1. Len(requests) = version + 1
      BY <1>5 DEF LearnReturns, UpdatesAgree, Counted
    <3>2. Len(requests) \in 1..Len(requests)
      BY <3>1 DEF TypeOK
    <3>3. requests \in Seq(Requests)
      BY DEF TypeOK
    <3> QED BY <3>2, <3>3, SMT
  <2> QED BY <1>5, <2>1 DEF LearnReturns, TypeOK, Requests, lean, observer, gpu, accepted
<1>6. CASE LearnFails
  BY <1>6, AckType DEF LearnFails, Refuses, Fail, TypeOK, lean, observer, gpu, accepted, trained
<1>7. CASE Witness
  BY <1>7, AckType DEF Witness, Refuses, Fail, TypeOK, lean, observer, gpu, accepted, trained
<1>8. CASE Publish
  <2>1. lastStep \in Steps
    BY <1>8 DEF Publish, UpdatesAgree, SearchHeld, Updating
  <2>2. Bounded({})
    BY DEF Bounded
  <2>3. acks' \in [Steps -> Acks \cup {None}]
    BY <1>8, AckType DEF Publish, TypeOK
  <2>4. pending' \in Refreshes \cup {None}
    <3>1. [step |-> lastStep, version |-> version, acknowledged |-> FALSE] \in Refreshes
      BY <2>1 DEF Refreshes, TypeOK
    <3> QED BY <1>8, <3>1 DEF Publish, TypeOK
  <2> QED BY <1>8, <2>1, <2>2, <2>3, <2>4 DEF Publish, Fail, TypeOK, lean, observer, gpu, trained
<1>9. CASE Exit \/ StopLean \/ Report
  BY <1>9 DEF Exit, StopLean, Report, Ends, TypeOK, lean, observer, gpu, accepted, trained,
     Searching, Over
<1> QED BY <1>1, <1>2, <1>3, <1>4, <1>5, <1>6, <1>7, <1>8, <1>9 DEF CoordinatorNext

-----------------------------------------------------------------------------
(* Steps and updates.                                                      *)

\* What Lean does keeps the two sides at the same iteration.
LEMMA LeanSteps == TypeOK /\ StepsAgree /\ (LeanNext \/ LeanFails) => StepsAgree'
<1> SUFFICES ASSUME TypeOK, StepsAgree, LeanNext \/ LeanFails PROVE StepsAgree'
  OBVIOUS
<1> USE DEF StepsAgree, Is, Unheard, Searching, Over
<1>a. /\ cursor \in 0..Len(stream) /\ Len(stream) \in Nat /\ step \in Int /\ lastStep \in Int
      /\ \A i \in DOMAIN stream : stream[i].step \in Int
  BY OnlineAssumption DEF TypeOK, Records, Steps
<1>1. ASSUME NEW n \in Nodes, NEW kind \in {"generation", "backup"}, Observe(kind, n)
      PROVE  StepsAgree'
  <2>1. known \in Nat /\ kind \in Kinds /\ n \in IF kind = "backup" THEN Nodes ELSE Nat
    BY OnlineAssumption DEF TypeOK, Kinds
  <2> QED BY <1>1, <1>a, <2>1, Written DEF Observe, lean, accepted
<1>2. ASSUME NEW solved \in BOOLEAN, NEW trainable \in SUBSET Nodes, Checkpoint(solved, trainable)
      PROVE  StepsAgree'
  <2> DEFINE tree == [solved |-> solved, trainable |-> trainable, visits |-> Visits]
  <2>1. tree \in Trees /\ known \in Nat /\ "checkpoint" \in Kinds
    BY VisitsType DEF Kinds, Trees, TypeOK
  <2>2. stream' = Append(stream, Record("checkpoint", known, tree))
    BY <1>2 DEF Checkpoint
  <2> HIDE DEF tree
  <2> QED BY <1>2, <1>a, <2>1, <2>2, Written DEF Checkpoint, accepted
<1>3. CASE TakeAck
  <2>1. acks[step] \in Acks /\ acks[step].version \in Nat
    BY <1>3 DEF TakeAck, TypeOK, Acks
  <2>2. step = lastStep
    BY <1>3, <1>a DEF TakeAck, TypeOK
  <2>3. CASE stream' = stream
    BY <1>3, <1>a, <2>3 DEF TakeAck, Leave, Continue, accepted
  <2>4. CASE stream' = Append(stream, Record("checkpoint_ack", acks[step].version, 0))
    <3>1. "checkpoint_ack" \in Kinds
      BY DEF Kinds
    <3>2. /\ UNCHANGED <<acks, cursor, lastStep>>
          /\ phase' # "wait" /\ (phase' = "search" => step' = step + 1)
          /\ phase' \in {"search", "unsolved"} \/ step' = step
          /\ phase' = "refresh" => step' = step
          /\ step' \in {step, step + 1}
      BY <1>3 DEF TakeAck, Leave, Continue, accepted
    <3>3. /\ Len(stream') = Len(stream) + 1 /\ DOMAIN stream = 1..Len(stream)
          /\ DOMAIN stream' = 1..Len(stream) + 1
          /\ \A i \in 1..Len(stream) : stream'[i] = stream[i]
          /\ stream'[Len(stream) + 1].kind = "checkpoint_ack" /\ stream'[Len(stream) + 1].step = step
      BY <2>1, <2>4, <3>1, Written
    <3> HIDE DEF StepsAgree
    <3>4. \A i \in Unheard' : stream'[i].kind # "checkpoint"
      <4>1. \A i \in Unheard : stream[i].kind = "checkpoint" => step = lastStep + 1
        BY DEF StepsAgree
      <4>2. step # lastStep + 1
        BY <1>a, <2>2
      <4> QED BY <1>a, <3>2, <3>3, <4>1, <4>2
    <3>5. \A i \in DOMAIN stream' : stream'[i].step <= step
      <4>1. \A i \in DOMAIN stream : stream[i].step <= step
        BY DEF StepsAgree
      <4> QED BY <1>a, <3>3, <4>1
    <3>6. \A i \in DOMAIN stream' :
              stream'[i].step <= step' /\ (phase' = "search" => stream'[i].step < step')
      BY <1>a, <3>2, <3>3, <3>5
    <3>7. \A s \in Steps : acks'[s] # None => s <= lastStep'
      BY <3>2 DEF StepsAgree
    <3> HIDE DEF Unheard
    <3> QED BY <2>2, <3>2, <3>4, <3>6, <3>7 DEF StepsAgree
  <2> QED BY <1>3, <2>3, <2>4 DEF TakeAck
<1>4. CASE BarrierTimeout
  BY <1>4 DEF BarrierTimeout, observer, accepted
<1>5. CASE RefreshValues
  <2>1. known \in Nat /\ "selection_value_refresh" \in Kinds
    BY DEF Kinds, TypeOK
  <2>2. /\ UNCHANGED <<acks, cursor, lastStep>>
        /\ phase' \in {"search", "unsolved"} /\ (phase' = "search" => step' = step + 1)
        /\ step' \in {step, step + 1}
    BY <1>5 DEF RefreshValues, Continue, accepted
  <2>3. /\ Len(stream') = Len(stream) + 1 /\ DOMAIN stream = 1..Len(stream)
        /\ DOMAIN stream' = 1..Len(stream) + 1
        /\ \A i \in 1..Len(stream) : stream'[i] = stream[i]
        /\ stream'[Len(stream) + 1].kind = "selection_value_refresh"
        /\ stream'[Len(stream) + 1].step = step
    BY <1>5, <2>1, Written DEF RefreshValues
  <2>4. phase = "refresh"
    BY <1>5 DEF RefreshValues
  <2> QED BY <1>a, <2>2, <2>3, <2>4
<1>6. CASE LeanFails
  BY <1>6 DEF LeanFails, Ends, accepted
<1> QED BY <1>1, <1>2, <1>3, <1>4, <1>5, <1>6 DEF LeanNext

\* What the GPU and the coordinator do keeps the two sides at the same iteration.
LEMMA CoordinatorSteps ==
  TypeOK /\ StepsAgree /\ UpdatesAgree /\ (GpuLearns \/ CoordinatorNext \/ Die) => StepsAgree'
<1> SUFFICES ASSUME TypeOK, StepsAgree, UpdatesAgree, GpuLearns \/ CoordinatorNext \/ Die
    PROVE  StepsAgree'
  OBVIOUS
<1> USE DEF StepsAgree, Is, Unheard, Searching, Over
<1>a. cursor \in 0..Len(stream) /\ Len(stream) \in Nat /\ step \in Int /\ lastStep \in Int
  BY OnlineAssumption DEF TypeOK, Steps
<1>1. CASE GpuLearns \/ Die
  BY <1>1 DEF GpuLearns, Die, lean, observer, accepted
<1>2. CASE Accept
  BY <1>2, <1>a DEF Accept, lean, observer
<1>3. CASE AcceptCheckpoint
  <2>1. cursor + 1 = Len(stream) /\ Unread.step = step /\ step = lastStep + 1 /\ phase \notin Searching
    BY <1>3, <1>a DEF AcceptCheckpoint, Unread
  <2>2. \A s \in Steps : acks'[s] # None => s <= lastStep'
    <3>1. acks' = acks \/ Acknowledge("continue") \/ Acknowledge("error")
      BY <1>3 DEF AcceptCheckpoint, Pass, Send, Reject, Refuses
    <3>2. lastStep' = lastStep + 1
      BY <1>3, <2>1 DEF AcceptCheckpoint
    <3> QED BY <1>a, <3>1, <3>2, AckType DEF Steps
  <2> QED BY <1>3, <1>a, <2>1, <2>2 DEF AcceptCheckpoint, lean, observer
<1>4. CASE LearnReturns
  BY <1>4 DEF LearnReturns, lean, observer, accepted
<1>5. CASE LearnFails \/ Witness
  <2>1. \A s \in Steps : acks'[s] # None => s <= lastStep'
    BY <1>5, <1>a, AckType DEF LearnFails, Witness, Refuses, accepted
  <2> QED BY <1>5, <2>1 DEF LearnFails, Witness, lean, observer, accepted
<1>6. CASE Publish
  <2>1. \A s \in Steps : acks'[s] # None => s <= lastStep'
    BY <1>6, <1>a, AckType DEF Publish
  <2> QED BY <1>6, <2>1 DEF Publish, lean, observer
<1>7. CASE Exit \/ StopLean \/ Report
  BY <1>7 DEF Exit, StopLean, Report, Ends, lean, observer, accepted
<1> QED BY <1>1, <1>2, <1>3, <1>4, <1>5, <1>6, <1>7 DEF CoordinatorNext

\* A checkpoint that is accepted is the last record, and the search waits at it.
LEMMA AtCheckpoint ==
    ASSUME TypeOK, StepsAgree, AcceptCheckpoint
    PROVE  /\ cursor' = Len(stream) /\ cursor + 1 = Len(stream)
           /\ lastStep' = step /\ step = lastStep + 1 /\ step \in Steps
           /\ phase \notin Searching /\ acks[step] = None
           /\ Unread \in Records /\ Unread.kind = "checkpoint" /\ Unread.step = step
<1>1. cursor + 1 \in 1..Len(stream) /\ cursor' = cursor + 1 /\ lastStep' = Unread.step
  BY DEF AcceptCheckpoint, TypeOK
<1>2. Unread \in Records /\ Unread.kind = "checkpoint"
  BY <1>1 DEF AcceptCheckpoint, Unread, TypeOK
<1>3. cursor + 1 = Len(stream) /\ Unread.step = step /\ step = lastStep + 1 /\ phase \notin Searching
  BY <1>1, <1>2 DEF Unread, StepsAgree, Unheard, Is
<1>4. step \in Steps /\ acks[step] = None
  BY <1>3, OnlineAssumption DEF StepsAgree, TypeOK, Steps
<1> QED BY <1>1, <1>2, <1>3, <1>4

\* What Lean does leaves the updates alone, and never passes a barrier that is held.
LEMMA LeanUpdates ==
  TypeOK /\ StepsAgree /\ UpdatesAgree /\ (LeanNext \/ LeanFails) => UpdatesAgree'
<1> SUFFICES ASSUME TypeOK, StepsAgree, UpdatesAgree, LeanNext \/ LeanFails PROVE UpdatesAgree'
  OBVIOUS
<1> USE DEF UpdatesAgree, Updating, Held, Searching, Over
<1>a. UNCHANGED <<requests, applied, wire, pc, cursor, version, lastStep, acks>>
  BY DEF LeanNext, LeanFails, Observe, Checkpoint, TakeAck, BarrierTimeout, RefreshValues, gpu,
     accepted, trained
<1>b. Counted'
  BY <1>a DEF Counted
<1>1. ASSUME NEW n \in Nodes, NEW kind \in {"generation", "backup"}, Observe(kind, n)
      PROVE  UpdatesAgree'
  BY <1>1, <1>a, <1>b DEF Observe, SearchHeld, AckCounts, lean
<1>2. ASSUME NEW solved \in BOOLEAN, NEW trainable \in SUBSET Nodes, Checkpoint(solved, trainable)
      PROVE  UpdatesAgree'
  <2>1. phase = "search" /\ step' = step /\ acks[step] = None
    BY <1>2, OnlineAssumption DEF Checkpoint, StepsAgree, TypeOK, Steps
  <2> QED BY <1>2, <1>a, <1>b, <2>1 DEF SearchHeld, AckCounts
<1>3. CASE TakeAck
  <2>1. phase' # "wait"
    BY <1>3 DEF TakeAck, Leave, Continue
  <2>2. ~ Updating
    BY <1>3 DEF TakeAck, SearchHeld
  <2>3. CASE Len(requests) > version
    BY <1>3, <1>a, <1>b, <2>1, <2>2, <2>3 DEF TakeAck, SearchHeld, AckCounts
  <2>4. CASE ~ (Len(requests) > version)
    BY <1>a, <1>b, <2>1, <2>2, <2>4 DEF SearchHeld, AckCounts
  <2> QED BY <2>3, <2>4
<1>4. CASE BarrierTimeout
  BY <1>4, <1>a, <1>b DEF BarrierTimeout, observer, SearchHeld, AckCounts
<1>5. CASE RefreshValues
  BY <1>5, <1>a, <1>b DEF RefreshValues, Continue, SearchHeld, AckCounts
<1>6. CASE LeanFails
  BY <1>6, <1>a, <1>b DEF LeanFails, Ends, SearchHeld, AckCounts
<1> QED BY <1>1, <1>2, <1>3, <1>4, <1>5, <1>6 DEF LeanNext

\* The updates of the GPU and what the coordinator counts stay together.
LEMMA CoordinatorUpdates ==
  TypeOK /\ StepsAgree /\ UpdatesAgree /\ (GpuLearns \/ CoordinatorNext \/ Die) => UpdatesAgree'
<1> SUFFICES ASSUME TypeOK, StepsAgree, UpdatesAgree, GpuLearns \/ CoordinatorNext \/ Die
    PROVE  UpdatesAgree'
  OBVIOUS
<1> USE DEF UpdatesAgree, Updating, Held, Searching, Over
<1>a. /\ version \in Nat /\ applied \in Nat /\ Len(requests) \in Nat /\ step \in Steps
      /\ wire \in {"idle", "sent", "answered", "refused"}
      /\ pc \in {"poll", "learn", "witness", "publish", "stop", "report", "done", "dead"}
  BY DEF TypeOK
<1>1. CASE GpuLearns
  <2>1. Len(requests) > version /\ UNCHANGED <<phase, step, stream, acks, requests, pc, cursor, lastStep, version>>
    BY <1>1 DEF GpuLearns, Counted, lean, observer, accepted, trained
  <2>2. Counted'
    BY <1>1, <1>a, <2>1 DEF GpuLearns, Counted
  <2> QED BY <2>1, <2>2 DEF SearchHeld, AckCounts
<1>2. CASE Die \/ Exit \/ StopLean \/ Report
  BY <1>2 DEF Die, Exit, StopLean, Report, Ends, Counted, SearchHeld, AckCounts, lean,
     observer, gpu,
     accepted, trained
<1>3. CASE Accept
  BY <1>3 DEF Accept, Fail, Counted, SearchHeld, AckCounts, lean, observer, gpu, trained
<1>4. CASE AcceptCheckpoint
  <2>1. /\ pc = "poll" /\ applied = version /\ Len(requests) = version /\ wire # "sent"
        /\ UNCHANGED <<phase, step, stream, version, applied>>
    BY <1>4 DEF AcceptCheckpoint, Counted, lean, observer, trained
  <2>2. /\ lastStep' = step /\ cursor' = Len(stream) /\ phase \notin Searching /\ acks[step] = None
    BY <1>4, AtCheckpoint
  <2>3. CASE Pass(Unread)
    <3>1. acks'[step] = [status |-> "continue", version |-> version]
      BY <1>a, <2>2, <2>3, AckType DEF Pass
    <3>2. UNCHANGED <<requests, wire, pc>>
      BY <2>3 DEF Pass
    <3> QED BY <1>a, <2>1, <2>2, <3>1, <3>2 DEF Counted, SearchHeld, AckCounts
  <2>4. CASE Send(Unread)
    <3>1. Len(requests') = Len(requests) + 1 /\ wire' = "sent" /\ pc' = "learn" /\ acks' = acks
      BY <2>4 DEF Send, TypeOK
    <3> QED BY <1>a, <2>1, <2>2, <3>1 DEF Counted, SearchHeld, AckCounts
  <2>5. CASE Reject
    <3>1. acks'[step] = acks[step] \/ acks'[step] = [status |-> "error", version |-> version]
      BY <1>a, <2>2, <2>5, AckType DEF Reject, Refuses
    <3>2. UNCHANGED <<requests, wire>> /\ pc' = "stop"
      BY <2>5 DEF Reject, Refuses, Fail
    <3> QED BY <1>a, <2>1, <2>2, <3>1, <3>2 DEF Counted, SearchHeld, AckCounts
  <2> QED BY <1>4, <2>3, <2>4, <2>5 DEF AcceptCheckpoint
<1>5. CASE LearnReturns
  BY <1>5, <1>a DEF LearnReturns, Counted, SearchHeld, AckCounts, lean, observer, gpu, accepted
<1>6. CASE LearnFails
  BY <1>6, AckType DEF LearnFails, Refuses, Fail, Counted, SearchHeld, AckCounts, lean,
     observer, gpu,
     accepted, trained
<1>7. CASE Witness
  BY <1>7, AckType DEF Witness, Refuses, Fail, Counted, SearchHeld, AckCounts, lean, observer,
     gpu,
     accepted, trained
<1>8. CASE Publish
  BY <1>8, AckType DEF Publish, Fail, Counted, SearchHeld, AckCounts, lean, observer, gpu,
     trained
<1> QED BY <1>1, <1>2, <1>3, <1>4, <1>5, <1>6, <1>7, <1>8 DEF CoordinatorNext

-----------------------------------------------------------------------------
(* Versions.                                                               *)

\* What Lean writes is what the coordinator expects next.
LEMMA LeanVersions ==
  TypeOK /\ StepsAgree /\ UpdatesAgree /\ VersionsAgree /\ (LeanNext \/ LeanFails) => VersionsAgree'
<1> SUFFICES ASSUME TypeOK, StepsAgree, UpdatesAgree, VersionsAgree, LeanNext \/ LeanFails
    PROVE  VersionsAgree'
  OBVIOUS
<1> USE DEF Healthy, Updating, Searching, Over, Unheard, Is
<1>a. UNCHANGED <<pc, cursor, version, lastStep, acks, pending, error>>
  BY DEF LeanNext, LeanFails, Observe, Checkpoint, TakeAck, BarrierTimeout, RefreshValues, gpu,
     accepted, trained
<1>b. /\ cursor \in 0..Len(stream) /\ Len(stream) \in Nat /\ DOMAIN stream = 1..Len(stream)
      /\ version \in Nat /\ known \in Nat /\ fresh \in Nat /\ step \in Int /\ lastStep \in Int
  BY OnlineAssumption DEF TypeOK, Steps
<1>c. error' # "protocol"
  BY <1>a DEF VersionsAgree
<1>d. Updating' => pending' = None
  BY <1>a DEF VersionsAgree, RefreshAwaited, Updating
<1>1. ASSUME NEW n \in Nodes, NEW kind \in {"generation", "backup"}, Observe(kind, n)
      PROVE  VersionsAgree'
  <2>1. known \in Nat /\ kind \in Kinds /\ n \in IF kind = "backup" THEN Nodes ELSE Nat
    BY OnlineAssumption DEF TypeOK, Kinds
  <2>2. /\ Len(stream') = Len(stream) + 1
        /\ \A i \in 1..Len(stream) : stream'[i] = stream[i]
        /\ stream'[Len(stream) + 1].kind = kind
        /\ stream'[Len(stream) + 1].version = known
    BY <1>1, <2>1, Written DEF Observe
  <2>3. phase = "search" /\ UNCHANGED <<phase, step, known, fresh>>
    BY <1>1 DEF Observe, lean
  <2>4. VersionKnown'
    BY <1>a, <1>b, <2>2, <2>3 DEF VersionsAgree, VersionKnown
  <2>5. ValuesFresh'
    BY <1>a, <1>b, <2>2, <2>3 DEF VersionsAgree, ValuesFresh
  <2>6. pc' = "poll" /\ pending' # None => Awaited'
    <3>1. SUFFICES ASSUME pc' = "poll", pending' # None
                   PROVE  Awaited'
      OBVIOUS
    <3>2. Awaited
      BY <1>a, <3>1 DEF VersionsAgree, RefreshAwaited
    <3>3. /\ UNCHANGED <<version, lastStep, pending, cursor, phase, step, fresh>>
          /\ phase = "search" /\ \A i \in 1..Len(stream) : Is("checkpoint_ack", i) => Is("checkpoint_ack", i)'
      BY <1>a, <2>2, <2>3 DEF Is
    <3>4. ASSUME NEW k \in 0..Len(stream), Refreshing(k)
          PROVE  Refreshing(k)'
      BY <1>1, <1>a, <1>b, <2>2, <3>3, <3>4 DEF Refreshing, Is, Searching, Over
    <3>5. CASE pending.acknowledged
      BY <1>b, <3>2, <3>3, <3>4, <3>5 DEF Awaited
    <3>6. CASE ~pending.acknowledged
      <4>1. cursor < Len(stream) /\ Is("checkpoint_ack", cursor + 1)
            /\ stream[cursor + 1].step = lastStep /\ Refreshing(cursor + 1)
        BY <3>2, <3>3, <3>6 DEF Awaited, Searching
      <4>2. cursor + 1 \in 1..Len(stream) /\ cursor + 1 \in 0..Len(stream)
        BY <1>b, <4>1
      <4>3. Is("checkpoint_ack", cursor + 1)' /\ Refreshing(cursor + 1)'
        BY <1>a, <3>3, <3>4, <4>1, <4>2
      <4> QED BY <1>a, <1>b, <2>2, <3>2, <3>3, <3>6, <4>1, <4>2, <4>3 DEF Awaited
    <3> QED BY <3>5, <3>6
  <2> QED BY <1>c, <1>d, <2>4, <2>5, <2>6 DEF VersionsAgree, RefreshAwaited
<1>2. ASSUME NEW solved \in BOOLEAN, NEW trainable \in SUBSET Nodes, Checkpoint(solved, trainable)
      PROVE  VersionsAgree'
  <2> DEFINE tree == [solved |-> solved, trainable |-> trainable, visits |-> Visits]
  <2>1. tree \in Trees /\ known \in Nat /\ "checkpoint" \in Kinds
    BY VisitsType DEF Kinds, Trees, TypeOK
  <2>2. stream' = Append(stream, Record("checkpoint", known, tree))
    BY <1>2 DEF Checkpoint
  <2> HIDE DEF tree
  <2>3. /\ Len(stream') = Len(stream) + 1
        /\ \A i \in 1..Len(stream) : stream'[i] = stream[i]
        /\ stream'[Len(stream) + 1].kind = "checkpoint"
        /\ stream'[Len(stream) + 1].version = known
    BY <2>1, <2>2, Written
  <2>4. /\ phase = "search" /\ phase' = "wait" /\ UNCHANGED <<step, known, fresh>>
        /\ step = lastStep + 1 /\ acks[step] = None
    BY <1>2, OnlineAssumption DEF Checkpoint, StepsAgree, TypeOK, Steps
  <2>5. VersionKnown'
    BY <1>a, <1>b, <2>3, <2>4 DEF VersionsAgree, VersionKnown
  <2>6. ValuesFresh'
    BY <1>a, <1>b, <2>3, <2>4 DEF VersionsAgree, ValuesFresh
  <2>7. pc' = "poll" /\ pending' # None => Awaited'
    <3>1. SUFFICES ASSUME pc' = "poll", pending' # None
                   PROVE  Awaited'
      OBVIOUS
    <3>2. Awaited
      BY <1>a, <3>1 DEF VersionsAgree, RefreshAwaited
    <3>3. \A i \in 1..Len(stream) : stream'[i] = stream[i]
      BY <2>3
    <3>4. ASSUME NEW k \in 0..Len(stream), Refreshing(k)
          PROVE  Refreshing(k)'
      BY <1>a, <1>b, <2>3, <2>4, <3>4 DEF Refreshing, Is, Searching, Over
    <3>5. CASE pending.acknowledged
      BY <1>a, <1>b, <3>2, <3>4, <3>5 DEF Awaited
    <3>6. CASE ~pending.acknowledged
      <4>1. cursor < Len(stream) /\ Is("checkpoint_ack", cursor + 1)
            /\ stream[cursor + 1].step = lastStep /\ Refreshing(cursor + 1)
        BY <2>4, <3>2, <3>6 DEF Awaited, Searching
      <4>2. cursor + 1 \in 1..Len(stream) /\ cursor + 1 \in 0..Len(stream)
        BY <1>b, <4>1
      <4>3. Is("checkpoint_ack", cursor + 1)' /\ Refreshing(cursor + 1)'
        BY <1>a, <3>3, <3>4, <4>1, <4>2 DEF Is
      <4>4. cursor' < Len(stream') /\ stream'[cursor' + 1].step = lastStep'
        BY <1>a, <1>b, <2>3, <3>3, <4>1, <4>2
      <4>5. /\ Refresh /\ pending'.version = version' /\ pending'.step = lastStep'
            /\ ~pending'.acknowledged
        BY <1>a, <3>2, <3>6 DEF Awaited
      <4> QED BY <4>3, <4>4, <4>5 DEF Awaited
    <3> QED BY <3>5, <3>6
  <2> QED BY <1>c, <1>d, <2>5, <2>6, <2>7 DEF VersionsAgree, RefreshAwaited
<1>3. CASE TakeAck
  <2>1. acks[step] \in Acks /\ acks[step].version \in Nat
    BY <1>3 DEF TakeAck, TypeOK, Acks
  <2>2. step = lastStep /\ phase = "wait" /\ acks[step] # None
    <3>1. phase = "wait" /\ acks[step] # None /\ step \in Steps
      BY <1>3 DEF TakeAck, TypeOK
    <3>2. step <= lastStep
      BY <3>1 DEF StepsAgree
    <3>3. step \in {lastStep, lastStep + 1}
      BY <3>1 DEF StepsAgree
    <3> QED BY <1>b, <3>1, <3>2, <3>3
  <2>3. ~ Updating
    BY <2>2 DEF UpdatesAgree, SearchHeld
  <2>4. CASE ~ Healthy
    BY <1>a, <1>c, <2>3, <2>4 DEF VersionsAgree, VersionKnown, ValuesFresh, RefreshAwaited
  <2>5. CASE Healthy
    <3>1. pc = "poll" /\ acks[step].status = "continue" /\ acks[step].version = version
      BY <2>2, <2>3, <2>5 DEF VersionsAgree, VersionKnown
    <3>2. pending # None =>
              /\ Refresh /\ pending.version = version /\ pending.step = lastStep
              /\ ~ pending.acknowledged /\ cursor = Len(stream) /\ fresh = version - 1
      <4>1. step # lastStep + 1 /\ phase \notin Over \cup {"refresh"}
        BY <1>b, <2>2
      <4>2. ~ Refreshing(cursor) /\ ~ Refreshing(cursor + 1)
        BY <2>2, <4>1 DEF Refreshing
      <4>3. pending # None => Awaited
        BY <3>1 DEF VersionsAgree, RefreshAwaited
      <4> QED BY <2>2, <4>2, <4>3 DEF Awaited
    <3>3. CASE version < known
      BY <1>3, <1>a, <1>c, <1>d, <3>1, <3>2, <3>3
      DEF TakeAck, VersionsAgree, VersionKnown, ValuesFresh, RefreshAwaited, Awaited
    <3>4. CASE ~ (version < known)
      <4>1. /\ known' = version /\ fresh' = fresh
            /\ stream' = Append(stream, Record("checkpoint_ack", version, 0))
        BY <1>3, <3>1, <3>4 DEF TakeAck
      <4>2. /\ Len(stream') = Len(stream) + 1
            /\ \A i \in 1..Len(stream) : stream'[i] = stream[i]
            /\ stream'[Len(stream) + 1].kind = "checkpoint_ack"
            /\ stream'[Len(stream) + 1].version = version
            /\ stream'[Len(stream) + 1].step = step
        BY <1>b, <4>1, Written DEF Kinds
      <4>3. phase' # "wait"
        BY <1>3 DEF TakeAck, Leave, Continue
      <4>4. pending = None => phase' # "refresh"
        BY <1>3, <2>5, <3>1, <3>4, <2>2 DEF TakeAck, Leave, Continue, VersionsAgree, ValuesFresh
      <4>5. pending # None => phase' \in Over \cup {"refresh"}
        BY <1>3, <1>b, <3>1, <3>2, <3>4 DEF TakeAck, Leave, Continue
      <4>6. VersionKnown'
        BY <1>a, <1>b, <4>1, <4>2, <4>3 DEF VersionsAgree, VersionKnown
      <4>7. ValuesFresh'
        BY <1>a, <1>b, <2>2, <3>1, <4>1, <4>2, <4>4 DEF VersionsAgree, ValuesFresh
      <4>8. pc' = "poll" /\ pending' # None => Awaited'
        BY <1>a, <1>b, <2>2, <3>2, <4>1, <4>2, <4>5 DEF Awaited, Refreshing
      <4> QED BY <1>c, <1>d, <4>6, <4>7, <4>8 DEF VersionsAgree, RefreshAwaited
    <3> QED BY <1>b, <3>3, <3>4
  <2> QED BY <2>4, <2>5
<1>4. CASE BarrierTimeout \/ LeanFails
  <2>1. phase' = "unsolved" /\ UNCHANGED <<step, known, fresh, stream>>
    BY <1>4 DEF BarrierTimeout, LeanFails, Ends, observer
  <2>2. VersionKnown' /\ ValuesFresh'
    BY <1>a, <2>1 DEF VersionsAgree, VersionKnown, ValuesFresh
  <2>3. pc' = "poll" /\ pending' # None => Awaited'
    BY <1>a, <2>1 DEF VersionsAgree, RefreshAwaited, Awaited, Refreshing
  <2> QED BY <1>c, <1>d, <2>2, <2>3 DEF VersionsAgree, RefreshAwaited
<1>5. CASE RefreshValues
  <2>1. /\ Len(stream') = Len(stream) + 1
        /\ \A i \in 1..Len(stream) : stream'[i] = stream[i]
        /\ stream'[Len(stream) + 1].kind = "selection_value_refresh"
        /\ stream'[Len(stream) + 1].version = known /\ stream'[Len(stream) + 1].about = known
        /\ stream'[Len(stream) + 1].step = step
    BY <1>5, <1>b, Written DEF RefreshValues, Kinds
  <2>2. /\ phase = "refresh" /\ step = lastStep /\ known' = known /\ fresh' = known
        /\ phase' \in {"search", "unsolved"} /\ (phase' = "search" => step' = step + 1)
    BY <1>5 DEF RefreshValues, Continue, StepsAgree
  <2>3. ~ Updating
    BY <2>2 DEF UpdatesAgree, SearchHeld
  <2>4. CASE ~ Healthy
    BY <1>a, <1>c, <2>3, <2>4 DEF VersionsAgree, VersionKnown, ValuesFresh, RefreshAwaited
  <2>5. CASE Healthy
    <3>1. pc = "poll" /\ known = version /\ pending # None
      BY <2>2, <2>3, <2>5 DEF VersionsAgree, VersionKnown, ValuesFresh
    <3>2. VersionKnown'
      BY <1>a, <1>b, <2>1, <2>2, <3>1 DEF VersionsAgree, VersionKnown
    <3>3. ValuesFresh'
      BY <1>a, <3>1 DEF ValuesFresh
    <3>4. Awaited'
      <4>1. Awaited
        BY <3>1 DEF VersionsAgree, RefreshAwaited
      <4>2. CASE pending.acknowledged
        <5>1. Len(stream) = cursor
          BY <2>2, <4>1, <4>2 DEF Awaited, Refreshing
        <5>2. Refreshing(cursor)'
          BY <1>a, <1>b, <2>1, <2>2, <3>1, <5>1 DEF Refreshing
        <5> QED BY <1>a, <4>1, <4>2, <5>2 DEF Awaited
      <4>3. CASE ~ pending.acknowledged
        <5>1. /\ Len(stream) = cursor + 1 /\ stream[cursor + 1].kind = "checkpoint_ack"
              /\ stream[cursor + 1].step = lastStep
          BY <2>2, <4>1, <4>3 DEF Awaited, Refreshing
        <5>2. Refreshing(cursor + 1)'
          BY <1>a, <1>b, <2>1, <2>2, <3>1, <5>1 DEF Refreshing
        <5> QED BY <1>a, <1>b, <2>1, <4>1, <4>3, <5>1, <5>2 DEF Awaited
      <4> QED BY <4>2, <4>3
    <3> QED BY <1>c, <1>d, <3>2, <3>3, <3>4 DEF VersionsAgree, RefreshAwaited
  <2> QED BY <2>4, <2>5
<1> QED BY <1>1, <1>2, <1>3, <1>4, <1>5 DEF LeanNext

\* Every record the coordinator reads from the search it started is valid.
LEMMA UnreadValid ==
    ASSUME TypeOK, StepsAgree, VersionsAgree, pc = "poll", cursor < Len(stream)
    PROVE  Valid(Unread)
<1>1. cursor + 1 \in Unheard /\ cursor + 1 \in DOMAIN stream
  BY DEF TypeOK, Unheard
<1>2. Unread.version = version
  BY <1>1 DEF VersionsAgree, VersionKnown, Healthy, Unread
<1>3. Unread.kind = "checkpoint" => Unread.step = lastStep + 1
  BY <1>1 DEF StepsAgree, Is, Unread
<1>4. CASE pending = None
  <2>1. Unread.kind # "selection_value_refresh"
    BY <1>1, <1>4 DEF VersionsAgree, ValuesFresh, Healthy, Is, Unread
  <2> QED BY <1>2, <1>3, <1>4, <2>1 DEF Valid
<1>5. CASE pending # None
  <2>1. Awaited
    BY <1>5 DEF VersionsAgree, RefreshAwaited
  <2>2. CASE pending.acknowledged
    <3>1. Unread.kind = "selection_value_refresh" /\ Unread.step = lastStep /\ Unread.about = version
      BY <2>1, <2>2 DEF Awaited, Refreshing, Is, Unread
    <3> QED BY <1>2, <1>5, <2>1, <2>2, <3>1 DEF Valid, Awaited
  <2>3. CASE ~ pending.acknowledged
    <3>1. Unread.kind = "checkpoint_ack" /\ Unread.step = lastStep
      BY <2>1, <2>3 DEF Awaited, Is, Unread
    <3> QED BY <1>2, <1>5, <2>1, <2>3, <3>1 DEF Valid, Awaited
  <2> QED BY <2>2, <2>3
<1> QED BY <1>4, <1>5

\* What the GPU and the coordinator do keeps the expectations.
LEMMA CoordinatorVersions ==
  TypeOK /\ StepsAgree /\ UpdatesAgree /\ VersionsAgree /\ (GpuLearns \/ CoordinatorNext \/ Die)
      => VersionsAgree'
<1> SUFFICES ASSUME TypeOK, StepsAgree, UpdatesAgree, VersionsAgree, GpuLearns \/ CoordinatorNext \/ Die
    PROVE  VersionsAgree'
  OBVIOUS
<1> USE DEF Healthy, Updating, Searching, Over, Unheard, Is
<1>b. /\ cursor \in 0..Len(stream) /\ Len(stream) \in Nat /\ DOMAIN stream = 1..Len(stream)
      /\ version \in Nat /\ step \in Int /\ lastStep \in Int /\ step \in Steps
      /\ pc \in {"poll", "learn", "witness", "publish", "stop", "report", "done", "dead"}
  BY OnlineAssumption DEF TypeOK, Steps
<1>1. CASE GpuLearns
  <2>1. UNCHANGED <<phase, step, known, fresh, stream, acks, pc, cursor, lastStep, version, pending, error>>
    BY <1>1 DEF GpuLearns, lean, observer, accepted, trained
  <2> QED BY <2>1 DEF VersionsAgree, VersionKnown, ValuesFresh, RefreshAwaited, Awaited, Refreshing
<1>2. CASE Die \/ Exit \/ StopLean \/ Report
  <2>1. pc' \in {"dead", "report", "done"} /\ error' # "protocol"
    BY <1>2 DEF Die, Exit, StopLean, Report, VersionsAgree
  <2> QED BY <2>1 DEF VersionsAgree, VersionKnown, ValuesFresh, RefreshAwaited
<1>3. CASE Accept
  <2>1. pc = "poll" /\ Valid(Unread) /\ cursor' = cursor + 1 /\ cursor < Len(stream)
    BY <1>3, UnreadValid DEF Accept
  <2>2. UNCHANGED <<phase, step, known, fresh, stream, acks, pc, lastStep, version, error>>
    BY <1>3, <2>1 DEF Accept, lean, observer, trained
  <2>3. VersionKnown'
    BY <1>b, <2>1, <2>2 DEF VersionsAgree, VersionKnown
  <2>4. CASE pending = None
    <3>1. pending' = None
      BY <1>3, <2>1, <2>4 DEF Accept
    <3>2. ValuesFresh'
      BY <1>b, <2>1, <2>2, <2>4, <3>1 DEF VersionsAgree, ValuesFresh
    <3> QED BY <2>2, <2>3, <3>1, <3>2 DEF VersionsAgree, RefreshAwaited
  <2>5. CASE pending # None
    <3>1. Awaited
      BY <2>1, <2>5 DEF VersionsAgree, RefreshAwaited
    <3>2. CASE pending.acknowledged
      <4>1. Refreshing(cursor) /\ cursor < Len(stream)
        BY <2>1, <3>1, <3>2 DEF Awaited
      <4>2. Unread.kind = "selection_value_refresh"
        BY <2>1, <4>1 DEF Refreshing, Unread
      <4>3. pending' = None
        BY <1>3, <2>1, <2>5, <4>2 DEF Accept
      <4>4. ValuesFresh'
        BY <1>b, <2>1, <2>2, <3>1, <4>1, <4>3 DEF ValuesFresh, Refreshing
      <4> QED BY <2>1, <2>2, <2>3, <4>3, <4>4 DEF VersionsAgree, RefreshAwaited
    <3>3. CASE ~ pending.acknowledged
      <4>1. Unread.kind = "checkpoint_ack" /\ Refreshing(cursor + 1)
        BY <2>1, <3>1, <3>3 DEF Awaited, Unread
      <4>2. pending' = [pending EXCEPT !.acknowledged = TRUE] /\ pending \in Refreshes
        BY <1>3, <2>1, <2>5, <4>1 DEF Accept, TypeOK
      <4>3. pending' # None /\ pending'.acknowledged /\ pending'.version = pending.version
            /\ pending'.step = pending.step
        <5>1. PICK t \in Steps, v \in Nat, b \in BOOLEAN :
                  pending = [step |-> t, version |-> v, acknowledged |-> b]
          BY <4>2 DEF Refreshes
        <5>2. pending' = [step |-> t, version |-> v, acknowledged |-> TRUE]
          BY <4>2, <5>1
        <5> QED BY <5>1, <5>2, RefreshIsSome
      <4>4. Awaited'
        BY <2>1, <2>2, <3>1, <4>1, <4>3 DEF Awaited, Refreshing
      <4> QED BY <2>1, <2>2, <2>3, <4>3, <4>4 DEF VersionsAgree, ValuesFresh, RefreshAwaited
    <3> QED BY <3>2, <3>3
  <2> QED BY <2>4, <2>5
<1>4. CASE AcceptCheckpoint
  <2>1. /\ pc = "poll" /\ UNCHANGED <<phase, step, known, fresh, stream, version, pending>>
    BY <1>4 DEF AcceptCheckpoint, lean, observer, trained
  <2>2. /\ lastStep' = step /\ cursor' = Len(stream) /\ phase \notin Searching /\ acks[step] = None
    BY <1>4, AtCheckpoint
  <2>3. pending = None
    BY <1>4 DEF AcceptCheckpoint, Valid
  <2>4. CASE Pass(Unread)
    <3>1. acks'[step] = [status |-> "continue", version |-> version]
      BY <1>b, <2>2, <2>4, AckType DEF Pass
    <3>2. UNCHANGED <<pc, error>>
      BY <2>4 DEF Pass
    <3> QED BY <2>1, <2>2, <2>3, <3>1, <3>2 DEF VersionsAgree, VersionKnown, ValuesFresh, RefreshAwaited
  <2>5. CASE Send(Unread)
    <3>1. pc' = "learn" /\ UNCHANGED <<acks, error>>
      BY <2>5 DEF Send
    <3> QED BY <2>1, <2>2, <2>3, <3>1 DEF VersionsAgree, VersionKnown, ValuesFresh, RefreshAwaited
  <2>6. CASE Reject
    BY <2>6 DEF Reject, Refuses, Fail, VersionsAgree, VersionKnown, ValuesFresh, RefreshAwaited
  <2> QED BY <1>4, <2>4, <2>5, <2>6 DEF AcceptCheckpoint
<1>5. CASE LearnReturns
  <2>1. /\ pc = "learn" /\ pc' \in {"witness", "publish"} /\ version' = version + 1
        /\ UNCHANGED <<phase, step, known, fresh, stream, acks, cursor, lastStep, pending, error>>
    BY <1>5 DEF LearnReturns, lean, observer, accepted
  <2>2. phase \notin Searching /\ (phase = "wait" => acks[step] = None) /\ cursor = Len(stream)
    BY <2>1 DEF UpdatesAgree, SearchHeld
  <2> QED BY <1>b, <2>1, <2>2 DEF VersionsAgree, VersionKnown, ValuesFresh, RefreshAwaited
<1>6. CASE LearnFails
  BY <1>6 DEF LearnFails, Refuses, Fail, VersionsAgree, VersionKnown, ValuesFresh,
     RefreshAwaited
<1>7. CASE Witness
  <2>1. CASE pc' = "publish" /\ UNCHANGED <<acks, error>>
    BY <1>7, <2>1 DEF Witness, lean, observer, accepted, trained, VersionsAgree, VersionKnown,
       ValuesFresh,
       RefreshAwaited
  <2>2. CASE Refuses("snapshot")
    BY <2>2 DEF Refuses, Fail, VersionsAgree, VersionKnown, ValuesFresh, RefreshAwaited
  <2> QED BY <1>7, <2>1, <2>2 DEF Witness
<1>8. CASE Publish
  <2>1. CASE Fail("publication")
    BY <2>1 DEF Fail, VersionsAgree, VersionKnown, ValuesFresh, RefreshAwaited
  <2>2. CASE Acknowledge("continue") /\ ~ Fail("publication")
    <3>1. /\ pc = "publish" /\ pc' = "poll" /\ error' = error
          /\ UNCHANGED <<phase, step, known, fresh, stream, cursor, lastStep, version>>
          /\ pending' = IF Refresh THEN [step |-> lastStep, version |-> version, acknowledged |-> FALSE]
                                   ELSE None
      BY <1>8, <2>2 DEF Publish, lean, observer, trained
    <3>2. /\ phase \notin Searching /\ (phase = "wait" => step = lastStep) /\ cursor = Len(stream)
          /\ lastStep \in Steps
      BY <3>1 DEF UpdatesAgree, SearchHeld
    <3>3. acks'[lastStep] = [status |-> "continue", version |-> version]
      BY <2>2, <3>1, <3>2, AckType
    <3>4. [status |-> "continue", version |-> version] # None
      BY <1>b, OnlineAssumption
    <3>5. Refresh /\ phase = "wait" => fresh = version - 1
      BY <3>1 DEF VersionsAgree, ValuesFresh, RefreshAwaited
    <3>6. VersionKnown'
      BY <3>1, <3>2, <3>3 DEF VersionKnown
    <3>7. ValuesFresh'
      <4>1. Refresh => pending' # None
        BY <1>b, <3>1, <3>2, RefreshIsSome
      <4> QED BY <1>b, <3>1, <3>2, <4>1 DEF ValuesFresh
    <3>8. pending' # None => Awaited'
      BY <3>1, <3>2, <3>3, <3>4, <3>5 DEF Awaited
    <3> QED BY <3>1, <3>6, <3>7, <3>8 DEF VersionsAgree, RefreshAwaited
  <2> QED BY <1>8, <2>1, <2>2 DEF Publish
<1> QED BY <1>1, <1>2, <1>3, <1>4, <1>5, <1>6, <1>7, <1>8 DEF CoordinatorNext

-----------------------------------------------------------------------------
(* What the run ends with.                                                 *)

\* Lean only adds to the stream: an acknowledgement or the values it refreshed.
LEMMA StreamGrows ==
    ASSUME TypeOK, LeanNext \/ LeanFails
    PROVE  \A i \in DOMAIN stream : i \in DOMAIN stream' /\ stream'[i] = stream[i]
<1>a. /\ known \in Nat /\ {"generation", "backup", "checkpoint", "checkpoint_ack",
                           "selection_value_refresh"} = Kinds
  BY DEF TypeOK, Kinds
<1>1. CASE stream' = stream
  BY <1>1
<1>2. ASSUME NEW n \in Nodes, NEW kind \in {"generation", "backup"}, Observe(kind, n)
      PROVE  \A i \in DOMAIN stream : i \in DOMAIN stream' /\ stream'[i] = stream[i]
  <2>1. kind \in Kinds /\ n \in IF kind = "backup" THEN Nodes ELSE Nat
    BY OnlineAssumption DEF Kinds
  <2>2. DOMAIN stream = 1..Len(stream) /\ DOMAIN stream' = 1..Len(stream) + 1 /\ Len(stream) \in Nat
        /\ \A i \in 1..Len(stream) : stream'[i] = stream[i]
    BY <1>2, <1>a, <2>1, Written DEF Observe
  <2> QED BY <2>2
<1>3. ASSUME NEW solved \in BOOLEAN, NEW trainable \in SUBSET Nodes, Checkpoint(solved, trainable)
      PROVE  \A i \in DOMAIN stream : i \in DOMAIN stream' /\ stream'[i] = stream[i]
  <2> DEFINE tree == [solved |-> solved, trainable |-> trainable, visits |-> Visits]
  <2>1. tree \in Trees
    BY VisitsType DEF Trees
  <2>2. stream' = Append(stream, Record("checkpoint", known, tree))
    BY <1>3 DEF Checkpoint
  <2> HIDE DEF tree
  <2>3. DOMAIN stream = 1..Len(stream) /\ DOMAIN stream' = 1..Len(stream) + 1 /\ Len(stream) \in Nat
        /\ \A i \in 1..Len(stream) : stream'[i] = stream[i]
    BY <1>a, <2>1, <2>2, Written
  <2> QED BY <2>3
<1>4. CASE TakeAck /\ stream' # stream
  <2>1. acks[step].version \in Nat
    BY <1>4 DEF TakeAck, TypeOK, Acks
  <2>2. stream' = Append(stream, Record("checkpoint_ack", acks[step].version, 0))
    BY <1>4 DEF TakeAck
  <2>3. DOMAIN stream = 1..Len(stream) /\ DOMAIN stream' = 1..Len(stream) + 1 /\ Len(stream) \in Nat
        /\ \A i \in 1..Len(stream) : stream'[i] = stream[i]
    BY <1>a, <2>1, <2>2, Written
  <2> QED BY <2>3
<1>5. CASE RefreshValues
  <2>1. DOMAIN stream = 1..Len(stream) /\ DOMAIN stream' = 1..Len(stream) + 1 /\ Len(stream) \in Nat
        /\ \A i \in 1..Len(stream) : stream'[i] = stream[i]
    BY <1>5, <1>a, Written DEF RefreshValues
  <2> QED BY <2>1
<1>6. CASE BarrierTimeout \/ LeanFails
  BY <1>6, <1>1 DEF BarrierTimeout, LeanFails, observer
<1> QED BY <1>1, <1>2, <1>3, <1>4, <1>5, <1>6 DEF LeanNext

\* A search whose values were refreshed stays so.
LEMMA LeanClosed == TypeOK /\ ClosedInOrder /\ (LeanNext \/ LeanFails) => ClosedInOrder'
<1> SUFFICES ASSUME TypeOK, ClosedInOrder, LeanNext \/ LeanFails PROVE ClosedInOrder'
  OBVIOUS
<1>1. UNCHANGED <<applied, wire, pc, version, pending, error, after>>
  BY DEF LeanNext, LeanFails, Observe, Checkpoint, TakeAck, BarrierTimeout, RefreshValues, gpu,
     accepted, trained
<1>2. ASSUME NEW v, Refreshed(v)
      PROVE  Refreshed(v)'
  BY <1>2, StreamGrows DEF Refreshed, Is
<1> QED BY <1>1, <1>2 DEF ClosedInOrder

\* The coordinator closes a run with nothing left open.
LEMMA CoordinatorClosed ==
  TypeOK /\ StepsAgree /\ UpdatesAgree /\ VersionsAgree /\ ClosedInOrder
      /\ (GpuLearns \/ CoordinatorNext \/ Die) => ClosedInOrder'
<1> SUFFICES ASSUME TypeOK, StepsAgree, UpdatesAgree, VersionsAgree, ClosedInOrder,
                    GpuLearns \/ CoordinatorNext \/ Die
    PROVE  ClosedInOrder'
  OBVIOUS
<1>a. version \in Nat
  BY DEF TypeOK
<1>b. UNCHANGED stream
  BY DEF GpuLearns, CoordinatorNext, Die, Accept, AcceptCheckpoint, LearnReturns, LearnFails,
     Witness,
     Publish, Exit, StopLean, Report, observer
<1>c. \A v : Refreshed(v)' <=> Refreshed(v)
  BY <1>b DEF Refreshed, Is
<1>1. CASE GpuLearns
  BY <1>1, <1>c DEF GpuLearns, accepted, trained, ClosedInOrder
<1>2. CASE Die
  BY <1>2, <1>c DEF Die, gpu, trained, ClosedInOrder
<1>3. CASE Accept
  <2>1. pc = "poll" /\ Valid(Unread) /\ UNCHANGED <<applied, wire, pc, version, error, after>>
    BY <1>3, UnreadValid DEF Accept, gpu, trained
  <2>2. CASE pending # None /\ pending' = None
    <3>1. Unread.kind = "selection_value_refresh" /\ Unread.about = version
      <4>1. Unread.kind = "selection_value_refresh" \/ Unread.kind = "checkpoint_ack"
        BY <2>1, <2>2 DEF Valid
      <4>2. CASE Unread.kind = "checkpoint_ack"
        <5>1. pending' = [pending EXCEPT !.acknowledged = TRUE] /\ pending \in Refreshes
          BY <1>3, <2>1, <2>2, <4>2 DEF Accept, TypeOK
        <5>2. PICK t \in Steps, v \in Nat, b \in BOOLEAN :
                  pending = [step |-> t, version |-> v, acknowledged |-> b]
          BY <5>1 DEF Refreshes
        <5>3. pending' = [step |-> t, version |-> v, acknowledged |-> TRUE]
          BY <5>1, <5>2
        <5> QED BY <2>2, <5>3, RefreshIsSome
      <4>3. CASE Unread.kind = "selection_value_refresh"
        BY <2>1, <2>2, <4>3 DEF Valid, VersionsAgree, RefreshAwaited, Awaited
      <4> QED BY <4>1, <4>2, <4>3
    <3>2. Refreshed(version)
      BY <1>3, <3>1 DEF Accept, Refreshed, Is, Unread, TypeOK
    <3> QED BY <1>c, <2>1, <3>2 DEF ClosedInOrder
  <2>3. CASE pending = None \/ pending' # None
    BY <1>c, <2>1, <2>3 DEF ClosedInOrder
  <2> QED BY <2>2, <2>3
<1>4. CASE AcceptCheckpoint
  <2>1. /\ UNCHANGED <<applied, version, pending, after>> /\ pc = "poll"
        /\ pc' \in {"poll", "learn", "stop"} /\ (pc' = "stop" => error' # "none")
    BY <1>4 DEF AcceptCheckpoint, Pass, Send, Reject, Refuses, Fail, trained
  <2>2. after = None
    BY <2>1 DEF ClosedInOrder
  <2> QED BY <1>c, <2>1, <2>2 DEF ClosedInOrder
<1>5. CASE LearnReturns
  <2>1. pc = "learn" /\ pc' \in {"witness", "publish"} /\ version' = version + 1 /\ UNCHANGED <<pending, after>>
    BY <1>5 DEF LearnReturns
  <2>2. pending = None
    BY <2>1 DEF VersionsAgree, RefreshAwaited, Updating
  <2> QED BY <1>a, <1>c, <2>1, <2>2 DEF ClosedInOrder
<1>6. CASE LearnFails
  BY <1>6 DEF LearnFails, Refuses, Fail, ClosedInOrder
<1>7. CASE Witness
  BY <1>7, <1>c DEF Witness, Refuses, Fail, trained, ClosedInOrder
<1>8. CASE Publish
  <2>1. /\ pc = "publish" /\ UNCHANGED <<version, after>> /\ pc' \in {"poll", "stop"}
        /\ pc' = "stop" => error' # "none"
    BY <1>8 DEF Publish, Fail, trained
  <2>2. pc' = "poll" /\ Refresh => pending' # None
    <3>1. lastStep \in Steps
      BY <2>1 DEF UpdatesAgree, SearchHeld, Updating
    <3>2. [step |-> lastStep, version |-> version, acknowledged |-> FALSE] # None
      BY <1>a, <3>1, RefreshIsSome
    <3> QED BY <1>8, <3>2 DEF Publish, Fail
  <2> QED BY <1>a, <1>c, <2>1, <2>2 DEF ClosedInOrder
<1>9. CASE Exit
  <2>1. pc = "poll" /\ pc' = "report" /\ UNCHANGED <<applied, wire, version, pending, after>>
        /\ (error' = "none" => pending = None)
    BY <1>9 DEF Exit, gpu, trained
  <2>2. applied = version /\ wire # "sent"
    BY <2>1 DEF UpdatesAgree, Counted
  <2> QED BY <1>c, <2>1, <2>2 DEF ClosedInOrder
<1>10. CASE StopLean
  BY <1>10, <1>c DEF StopLean, ClosedInOrder
<1>11. CASE Report
  BY <1>11, <1>c DEF Report, gpu, trained, ClosedInOrder
<1> QED BY <1>1, <1>2, <1>3, <1>4, <1>5, <1>6, <1>7, <1>8, <1>9, <1>10, <1>11 DEF CoordinatorNext

-----------------------------------------------------------------------------
(* Trees.                                                                  *)

\* A new record adds no backup to the iterations that are over.
LEMMA SeenAfter ==
    ASSUME TypeOK, NEW kind \in Kinds, NEW stamp \in Nat, NEW about,
           about \in IF kind = "checkpoint" THEN Trees ELSE IF kind = "backup" THEN Nodes ELSE Nat,
           stream' = Append(stream, Record(kind, stamp, about)),
           NEW n, NEW s \in Int, kind # "backup" \/ s < step
    PROVE  Seen(stream', n, s) = Seen(stream, n, s)
<1>1. /\ Len(stream) \in Nat /\ DOMAIN stream = 1..Len(stream)
      /\ DOMAIN stream' = 1..Len(stream) + 1
      /\ \A i \in 1..Len(stream) : stream'[i] = stream[i]
      /\ stream'[Len(stream) + 1].kind = kind /\ stream'[Len(stream) + 1].step = step
  BY Written
<1>2. step \in Int
  BY OnlineAssumption DEF TypeOK, Steps
<1>3. Len(stream) + 1 \notin Seen(stream', n, s)
  BY <1>1, <1>2 DEF Seen
<1>4. ASSUME NEW i \in 1..Len(stream)
      PROVE  i \in Seen(stream', n, s) <=> i \in Seen(stream, n, s)
  BY <1>1 DEF Seen
<1>5. Seen(stream', n, s) \subseteq 1..Len(stream) + 1 /\ Seen(stream, n, s) \subseteq 1..Len(stream)
  BY <1>1 DEF Seen
<1>6. \A i : i \in Seen(stream', n, s) <=> i \in Seen(stream, n, s)
  BY <1>1, <1>3, <1>4, <1>5
<1> QED BY <1>6, Zenon

\* What a new record has to meet.
LEMMA TreesAfter ==
    ASSUME TypeOK, StepsAgree, TreesAgree,
           NEW kind \in Kinds, NEW stamp \in Nat, NEW about,
           about \in IF kind = "checkpoint" THEN Trees ELSE IF kind = "backup" THEN Nodes ELSE Nat,
           stream' = Append(stream, Record(kind, stamp, about)),
           kind = "backup" => phase = "search",
           kind = "checkpoint" => \A n \in Nodes : about.visits[n] = Cardinality(Seen(stream, n, step)),
           UNCHANGED <<requests, pc, cursor, lastStep, backedUp>>
    PROVE  TreesAgree'
<1>1. /\ Len(stream) \in Nat /\ DOMAIN stream = 1..Len(stream) /\ Len(stream') = Len(stream) + 1
      /\ DOMAIN stream' = 1..Len(stream) + 1
      /\ \A i \in 1..Len(stream) : stream'[i] = stream[i]
      /\ stream'[Len(stream) + 1].kind = kind /\ stream'[Len(stream) + 1].step = step
      /\ stream'[Len(stream) + 1].about = about
  BY Written
<1>2. /\ step \in Int /\ lastStep \in Int /\ cursor \in 0..Len(stream)
      /\ \A i \in DOMAIN stream : stream[i].step \in Int
      /\ \A k \in DOMAIN requests : requests[k].step \in Int
  <2>1. step \in Int /\ lastStep \in Int /\ cursor \in 0..Len(stream)
    BY OnlineAssumption DEF TypeOK, Steps
  <2>2. \A i \in DOMAIN stream : stream[i].step \in Int
    BY OnlineAssumption DEF TypeOK, Steps, Records
  <2>3. \A k \in DOMAIN requests : requests[k].step \in Int
    <3> SUFFICES ASSUME NEW k \in DOMAIN requests PROVE requests[k].step \in Int
      OBVIOUS
    <3>1. requests[k] \in Requests
      BY DEF TypeOK
    <3>2. requests[k].step \in Steps
      BY <3>1 DEF Requests
    <3> QED BY <3>2, OnlineAssumption DEF Steps
  <2> QED BY <2>1, <2>2, <2>3
<1>3. kind = "backup" => step = lastStep + 1
  BY DEF StepsAgree
<1>4. \A n : \A s \in Int : kind # "backup" \/ s < step => Seen(stream', n, s) = Seen(stream, n, s)
  BY SeenAfter
<1>5. TreesCounted'
  <2> SUFFICES ASSUME NEW i \in DOMAIN stream', stream'[i].kind = "checkpoint", NEW n \in Nodes
               PROVE  stream'[i].about.visits[n] = Cardinality(Seen(stream', n, stream'[i].step))
    BY DEF TreesCounted, Is
  <2>1. CASE i = Len(stream) + 1
    <3>1. kind = "checkpoint" /\ stream'[i].about = about /\ stream'[i].step = step
      BY <1>1, <2>1
    <3>2. Seen(stream', n, step) = Seen(stream, n, step)
      BY <1>2, <1>4, <3>1
    <3>3. about.visits[n] = Cardinality(Seen(stream, n, step))
      BY <3>1
    <3> QED BY <3>1, <3>2, <3>3
  <2>2. CASE i \in 1..Len(stream)
    <3>1. stream'[i] = stream[i] /\ stream[i].step \in Int
      BY <1>1, <1>2, <2>2
    <3>2. kind = "backup" => stream[i].step < step
      BY <1>1, <2>2, <3>1 DEF StepsAgree, Is
    <3>3. Seen(stream', n, stream[i].step) = Seen(stream, n, stream[i].step)
      BY <1>4, <3>1, <3>2
    <3>4. stream[i].about.visits[n] = Cardinality(Seen(stream, n, stream[i].step))
      BY <1>1, <2>2, <3>1 DEF TreesAgree, TreesCounted, Is
    <3> QED BY <3>1, <3>3, <3>4
  <2> QED BY <1>1, <2>1, <2>2
<1>6. BackupsCurrent'
  <2>1. BackupsCurrent /\ UNCHANGED <<pc, cursor, lastStep, backedUp>>
    BY DEF TreesAgree
  <2>2. ASSUME NEW i \in Unheard', Is("backup", i)'
        PROVE  stream'[i].step = lastStep + 1
    <3>1. i \in cursor + 1..Len(stream) \/ i = Len(stream) + 1
      BY <1>1, <1>2, <2>1, <2>2 DEF Unheard
    <3>2. CASE i = Len(stream) + 1
      BY <1>1, <1>3, <2>2, <3>2 DEF Is
    <3>3. CASE i \in cursor + 1..Len(stream)
      <4>1. i \in 1..Len(stream) /\ stream'[i] = stream[i]
        BY <1>1, <1>2, <3>3
      <4> QED BY <2>1, <2>2, <3>3, <4>1 DEF BackupsCurrent, Unheard, Is
    <3> QED BY <3>1, <3>2, <3>3
  <2>3. ASSUME pc' = "poll", NEW m \in backedUp'
        PROVE  \E i \in 1..cursor' :
                  Is("backup", i)' /\ stream'[i].about = m /\ stream'[i].step = lastStep' + 1
    <3>1. PICK i \in 1..cursor :
             Is("backup", i) /\ stream[i].about = m /\ stream[i].step = lastStep + 1
      BY <2>1, <2>3 DEF BackupsCurrent
    <3>2. stream'[i] = stream[i]
      BY <1>1, <1>2
    <3> QED BY <2>1, <3>1, <3>2 DEF Is
  <2> QED BY <2>1, <2>2, <2>3 DEF BackupsCurrent
<1>7. ASSUME NEW k \in DOMAIN requests
      PROVE  FreshlySeen(requests[k], stream', lastStep)
  <2> DEFINE q == requests[k]
  <2>1. q.step <= lastStep /\ q.step \in Int /\ FreshlySeen(q, stream, lastStep)
    <3>1. FreshlySeen(q, stream, lastStep) /\ q.step \in Int
      BY <1>2 DEF TreesAgree
    <3> QED BY <3>1 DEF FreshlySeen
  <2>2. Seen(stream', q.node, q.step) = Seen(stream, q.node, q.step)
    BY <1>2, <1>3, <1>4, <2>1
  <2>3. Seen(stream, q.node, q.step) \subseteq 1..Len(stream)
    BY <1>1 DEF Seen
  <2> HIDE DEF q
  <2>4. FreshlySeen(q, stream', lastStep)
    BY <1>1, <2>1, <2>2, <2>3 DEF FreshlySeen
  <2> QED BY <2>4 DEF q
<1> QED BY <1>5, <1>6, <1>7 DEF TreesAgree

\* What Lean does keeps the trees: its visits are all the backups so far.
LEMMA LeanTrees ==
  TypeOK /\ StepsAgree /\ TreesAgree /\ (LeanNext \/ LeanFails) => TreesAgree'
<1> SUFFICES ASSUME TypeOK, StepsAgree, TreesAgree, LeanNext \/ LeanFails PROVE TreesAgree'
  OBVIOUS
<1>a. UNCHANGED <<requests, pc, cursor, lastStep, backedUp>>
  BY DEF LeanNext, LeanFails, Observe, Checkpoint, TakeAck, BarrierTimeout, RefreshValues, gpu,
     accepted, trained
<1>b. /\ known \in Nat /\ {"generation", "backup", "checkpoint", "checkpoint_ack",
                           "selection_value_refresh"} = Kinds
  BY DEF TypeOK, Kinds
<1>1. CASE stream' = stream
  BY <1>a, <1>1 DEF TreesAgree, TreesCounted, BackupsCurrent, Unheard, Is
<1>2. ASSUME NEW n \in Nodes, NEW kind \in {"generation", "backup"}, Observe(kind, n)
      PROVE  TreesAgree'
  <2>1. kind \in Kinds /\ n \in IF kind = "backup" THEN Nodes ELSE Nat
    BY OnlineAssumption DEF Kinds
  <2> QED BY <1>2, <1>a, <1>b, <2>1, TreesAfter DEF Observe
<1>3. ASSUME NEW solved \in BOOLEAN, NEW trainable \in SUBSET Nodes, Checkpoint(solved, trainable)
      PROVE  TreesAgree'
  <2> DEFINE tree == [solved |-> solved, trainable |-> trainable, visits |-> Visits]
  <2>1. tree \in Trees
    BY VisitsType DEF Trees
  <2>2. stream' = Append(stream, Record("checkpoint", known, tree))
    BY <1>3 DEF Checkpoint
  <2>3. ASSUME NEW n \in Nodes
        PROVE  tree.visits[n] = Cardinality(Seen(stream, n, step))
    <3>1. \A i \in DOMAIN stream : stream[i].step <= step
      BY DEF StepsAgree
    <3>2. \A i : i \in Backups(n) <=> i \in Seen(stream, n, step)
      BY <3>1 DEF Backups, Seen
    <3>3. Backups(n) = Seen(stream, n, step)
      BY <3>2, Zenon
    <3> QED BY <3>3 DEF Visits
  <2> HIDE DEF tree
  <2> QED BY <1>a, <1>b, <2>1, <2>2, <2>3, TreesAfter
<1>4. CASE TakeAck /\ stream' # stream
  <2>1. acks[step].version \in Nat
    BY <1>4 DEF TakeAck, TypeOK, Acks
  <2>2. stream' = Append(stream, Record("checkpoint_ack", acks[step].version, 0))
    BY <1>4 DEF TakeAck
  <2> QED BY <1>a, <1>b, <2>1, <2>2, TreesAfter
<1>5. CASE RefreshValues
  BY <1>5, <1>a, <1>b, TreesAfter DEF RefreshValues
<1>6. CASE BarrierTimeout \/ LeanFails
  BY <1>6, <1>1 DEF BarrierTimeout, LeanFails, observer
<1> QED BY <1>1, <1>2, <1>3, <1>4, <1>5, <1>6 DEF LeanNext

\* What the coordinator does keeps the trees: a request is made of the last one.
LEMMA CoordinatorTrees ==
  TypeOK /\ StepsAgree /\ TreesAgree /\ (GpuLearns \/ CoordinatorNext \/ Die) => TreesAgree'
<1> SUFFICES ASSUME TypeOK, StepsAgree, TreesAgree, GpuLearns \/ CoordinatorNext \/ Die
    PROVE  TreesAgree'
  OBVIOUS
<1>a. UNCHANGED stream
  BY DEF GpuLearns, CoordinatorNext, Die, Accept, AcceptCheckpoint, LearnReturns, LearnFails,
     Witness,
     Publish, Exit, StopLean, Report, observer
<1>b. TreesCounted'
  BY <1>a DEF TreesAgree, TreesCounted, Is
<1>c. cursor \in 0..Len(stream) /\ Len(stream) \in Nat /\ lastStep \in Int /\ step \in Int
  BY OnlineAssumption DEF TypeOK, Steps
<1>1. CASE GpuLearns \/ LearnReturns \/ LearnFails \/ Witness \/ Exit \/ StopLean \/ Report \/ Die
  <2>1. UNCHANGED <<requests, cursor, lastStep, backedUp>> /\ (pc' = "poll" => pc = "poll")
    BY <1>1 DEF GpuLearns, LearnReturns, LearnFails, Witness, Exit, StopLean, Report, Die,
       Refuses, Fail,
       accepted
  <2> QED BY <1>a, <1>b, <2>1 DEF TreesAgree, BackupsCurrent, Unheard, Is
<1>2. CASE Accept
  <2>1. /\ pc = "poll" /\ cursor' = cursor + 1 /\ cursor < Len(stream) /\ UNCHANGED <<requests, lastStep>>
        /\ pc' = "poll" => backedUp' = IF Unread.kind = "backup" THEN backedUp \cup {Unread.about}
                                                                ELSE backedUp
    BY <1>2 DEF Accept, Fail
  <2>2. BackupsCurrent'
    <3>1. \A i \in Unheard' : i \in Unheard
      BY <1>a, <1>c, <2>1 DEF Unheard
    <3>2. \A i \in Unheard' : stream'[i].kind = "backup" => stream'[i].step = lastStep' + 1
      BY <1>a, <2>1, <3>1 DEF TreesAgree, BackupsCurrent, Is
    <3>3. ASSUME pc' = "poll", NEW n \in backedUp'
          PROVE  \E i \in 1..cursor' :
                     stream'[i].kind = "backup" /\ stream'[i].about = n /\ stream'[i].step = lastStep' + 1
      <4>1. CASE n \in backedUp
        <5>1. PICK i \in 1..cursor : stream[i].kind = "backup" /\ stream[i].about = n /\ stream[i].step = lastStep + 1
          BY <2>1, <4>1 DEF TreesAgree, BackupsCurrent, Is
        <5>2. i \in 1..cursor'
          BY <1>c, <2>1
        <5> QED BY <1>a, <2>1, <5>1, <5>2
      <4>2. CASE Unread.kind = "backup" /\ n = Unread.about
        <5>1. cursor + 1 \in Unheard /\ cursor + 1 \in 1..cursor'
          BY <1>c, <2>1 DEF Unheard
        <5>2. Unread.step = lastStep + 1
          BY <4>2, <5>1 DEF TreesAgree, BackupsCurrent, Is, Unread
        <5> QED BY <1>a, <2>1, <4>2, <5>1, <5>2 DEF Unread
      <4> QED BY <2>1, <3>3, <4>1, <4>2
    <3> QED BY <3>2, <3>3 DEF BackupsCurrent, Is
  <2> QED BY <1>a, <1>b, <2>1, <2>2 DEF TreesAgree
<1>3. CASE Publish
  <2>1. /\ UNCHANGED <<requests, cursor, lastStep>> /\ (pc' = "poll" => backedUp' = {})
    BY <1>3 DEF Publish, Fail
  <2> QED BY <1>a, <1>b, <2>1 DEF TreesAgree, BackupsCurrent, Unheard, Is
<1>4. CASE AcceptCheckpoint
  <2>1. pc = "poll" /\ lastStep' = step /\ step = lastStep + 1 /\ cursor' = Len(stream)
        /\ Unread \in Records /\ Unread.kind = "checkpoint" /\ Unread.step = step
        /\ cursor + 1 \in DOMAIN stream
    BY <1>4, AtCheckpoint DEF AcceptCheckpoint, TypeOK
  <2>2. BackupsCurrent'
    <3>1. pc' = "poll" => backedUp' = {}
      BY <1>4 DEF AcceptCheckpoint, Pass, Send, Reject, Refuses, Fail
    <3>2. Unheard' = {}
      BY <1>a, <1>c, <2>1 DEF Unheard
    <3> QED BY <3>1, <3>2 DEF BackupsCurrent
  <2>3. ASSUME NEW q \in Requests, FreshlySeen(q, stream, lastStep)
        PROVE  FreshlySeen(q, stream, step)
    <3>1. q.step \in Steps
      BY DEF Requests
    <3>2. q.step \in Int
      BY <3>1, OnlineAssumption DEF Steps
    <3> QED BY <1>c, <2>1, <2>3, <3>2 DEF FreshlySeen
  <2>4. requests \in Seq(Requests) /\ \A k \in DOMAIN requests : FreshlySeen(requests[k], stream, lastStep)
    BY DEF TypeOK, TreesAgree
  <2>5. CASE requests' = requests
    BY <1>a, <1>b, <2>1, <2>2, <2>3, <2>4, <2>5 DEF TreesAgree
  <2>6. CASE Send(Unread)
    <3> DEFINE n == Target(Unread)
               q == [step |-> Unread.step, node |-> n, version |-> version,
                     visits |-> Unread.about.visits[n]]
    <3>1. n \in Targets(Unread) /\ n \in backedUp /\ n \in Nodes
      BY <2>1, <2>6, TargetIsOne DEF Send, MayUpdate
    <3>2. q.step = step /\ q.visits = Cardinality(Seen(stream, n, step)) /\ q.node = n
      BY <2>1, <3>1 DEF TreesAgree, TreesCounted, Is, Unread
    <3>3. PICK i \in 1..cursor : Is("backup", i) /\ stream[i].about = n /\ stream[i].step = step
      BY <2>1, <3>1 DEF TreesAgree, BackupsCurrent
    <3>4. i \in Seen(stream, n, step)
      BY <1>c, <2>1, <3>3 DEF Seen, Is, TypeOK
    <3>5. requests' = Append(requests, q)
      BY <2>6 DEF Send
    <3>6. q \in Requests
      <4>1. Unread.about \in Trees /\ Unread.step \in Steps
        BY <2>1 DEF Records
      <4>2. Unread.about.visits[n] \in Nat
        BY <3>1, <4>1 DEF Trees
      <4> QED BY <3>1, <4>1, <4>2 DEF Requests, TypeOK
    <3> HIDE DEF q, n
    <3>7. FreshlySeen(q, stream, step)
      BY <1>c, <3>2, <3>3, <3>4 DEF FreshlySeen
    <3>8. ASSUME NEW k \in DOMAIN requests'
          PROVE  FreshlySeen(requests'[k], stream, step)
      <4>1. requests'[k] = q \/ (k \in DOMAIN requests /\ requests'[k] = requests[k] /\ requests[k] \in Requests)
        BY <2>4, <3>5, <3>6
      <4> QED BY <2>3, <2>4, <3>7, <4>1
    <3> QED BY <1>a, <1>b, <2>1, <2>2, <3>8 DEF TreesAgree
  <2> QED BY <1>4, <2>5, <2>6 DEF AcceptCheckpoint, Pass, Reject
<1> QED BY <1>1, <1>2, <1>3, <1>4 DEF CoordinatorNext

-----------------------------------------------------------------------------
(* The theorems.                                                           *)

\* The search starts with nothing written, counted or waited for.
LEMMA InitIInv == Init => IInv
<1> SUFFICES ASSUME Init PROVE IInv
  OBVIOUS
<1> USE OnlineAssumption DEF Init
<1>1. Bounded({})
  BY DEF Bounded
<1>2. TypeOK
  BY <1>1 DEF TypeOK, Searching, Over, Steps
<1>3. StepsAgree
  BY DEF StepsAgree, Unheard
<1>4. UpdatesAgree
  BY DEF UpdatesAgree, Counted, SearchHeld, AckCounts, Updating
<1>5. VersionsAgree
  BY DEF VersionsAgree, VersionKnown, ValuesFresh, RefreshAwaited, Updating, Unheard, Is
<1>6. ClosedInOrder
  BY DEF ClosedInOrder
<1>7. TreesAgree
  BY DEF TreesAgree, TreesCounted, BackupsCurrent, Unheard
<1> QED BY <1>2, <1>3, <1>4, <1>5, <1>6, <1>7 DEF IInv

\* Every step keeps the invariant.
LEMMA NextIInv == IInv /\ [Next]_vars => IInv'
<1> SUFFICES ASSUME IInv, [Next]_vars PROVE IInv'
  OBVIOUS
<1> USE DEF IInv
<1>1. CASE LeanNext \/ LeanFails
  BY <1>1, LeanTypes, LeanSteps, LeanUpdates, LeanVersions, LeanClosed, LeanTrees
<1>2. CASE GpuLearns \/ CoordinatorNext \/ Die
  BY <1>2, CoordinatorTypes, CoordinatorSteps, CoordinatorUpdates, CoordinatorVersions,
     CoordinatorClosed, CoordinatorTrees
<1>3. CASE UNCHANGED vars
  <2> USE <1>3 DEF vars, lean, observer, gpu, accepted, trained
  <2>1. TypeOK'
    BY DEF TypeOK
  <2>2. StepsAgree'
    BY DEF StepsAgree, Unheard, Is
  <2>3. UpdatesAgree'
    BY DEF UpdatesAgree, Counted, SearchHeld, AckCounts, Updating, Held
  <2>4. VersionsAgree'
    BY DEF VersionsAgree, VersionKnown, ValuesFresh, RefreshAwaited, Awaited, Refreshing,
       Healthy, Updating,
       Unheard, Is
  <2>5. ClosedInOrder'
    BY DEF ClosedInOrder, Refreshed, Is
  <2>6. TreesAgree'
    BY DEF TreesAgree, TreesCounted, BackupsCurrent, Unheard, Is
  <2> QED BY <2>1, <2>2, <2>3, <2>4, <2>5, <2>6
<1> QED BY <1>1, <1>2, <1>3 DEF Next

\* The inductive invariant: both sides agree on steps, versions and updates.
THEOREM InductiveInvariant == Spec => []IInv
  BY InitIInv, NextIInv, PTL DEF Spec

\* No update whose outcome is unknown is followed by more of the search, however
\* the learn call, the coordinator or Lean fails (run OnlineTTT).
THEOREM UnknownEndsSearch == Spec => []UnknownUpdateEndsSearch
<1>1. IInv => UnknownUpdateEndsSearch
  BY DEF IInv, UpdatesAgree, SearchHeld, Held, UnknownUpdateEndsSearch
<1> QED BY <1>1, InductiveInvariant, PTL

\* The checks of _validate and _accept_selection_refresh never end a run.
THEOREM StreamIsValid == Spec => []NoFalseAlarm
<1>1. IInv => NoFalseAlarm
  BY DEF IInv, VersionsAgree, NoFalseAlarm
<1> QED BY <1>1, InductiveInvariant, PTL

\* The snapshot after the run holds all of it and nothing else.
THEOREM Sealed == Spec => []SealedIsComplete
<1>1. IInv => SealedIsComplete
  BY DEF IInv, ClosedInOrder, Refreshed, Is, SealedIsComplete
<1> QED BY <1>1, InductiveInvariant, PTL

\* Every update is made of the tree of its own checkpoint, with all its visits.
THEOREM TargetsFresh == Spec => []TargetsAreFresh
<1>1. IInv => TargetsAreFresh
  <2> SUFFICES ASSUME IInv, NEW k \in DOMAIN requests
               PROVE  LET q == requests[k]
                          seen == {i \in DOMAIN stream : /\ stream[i].kind = "backup"
                                                         /\ stream[i].about = q.node /\ stream[i].step <= q.step}
                      IN  q.visits = Cardinality(seen) /\ \E i \in seen : stream[i].step = q.step
    BY DEF TargetsAreFresh
  <2>1. FreshlySeen(requests[k], stream, lastStep)
    BY DEF IInv, TreesAgree
  <2> QED BY <2>1 DEF FreshlySeen, Seen
<1> QED BY <1>1, InductiveInvariant, PTL

\* The search and its updates alternate: the run implements SearchBarrier.
THEOREM Alternates == Spec => UpdatesAtBarriers
<1>1. Init => Barrier!Init
  BY DEF Init, Barrier!Init, Searching
<1>2. IInv /\ [Next]_vars => [Barrier!Next]_Barrier!vars
  <2> SUFFICES ASSUME IInv, [Next]_vars PROVE [Barrier!Next]_Barrier!vars
    OBVIOUS
  <2> USE DEF Barrier!Next, Barrier!vars, Barrier!Arrive, Barrier!Update, Barrier!Resume, Barrier!Stop,
          Searching, Over
  <2>1. CASE GpuLearns
    <3>1. Len(requests) > version /\ UNCHANGED <<phase, known>> /\ applied' \in {applied, applied + 1}
      BY <2>1 DEF GpuLearns, IInv, UpdatesAgree, Counted, lean
    <3>2. phase \notin Searching
      BY <3>1 DEF IInv, UpdatesAgree, SearchHeld, Held
    <3> QED BY <3>1, <3>2
  <2>2. ASSUME NEW n \in Nodes, NEW kind \in {"generation", "backup"}, Observe(kind, n)
        PROVE  [Barrier!Next]_Barrier!vars
    BY <2>2 DEF Observe, lean, gpu
  <2>3. ASSUME NEW solved \in BOOLEAN, NEW trainable \in SUBSET Nodes, Checkpoint(solved, trainable)
        PROVE  [Barrier!Next]_Barrier!vars
    BY <2>3 DEF Checkpoint, gpu
  <2>4. CASE TakeAck
    <3>1. acks[step] \in Acks
      BY <2>4 DEF TakeAck, IInv, TypeOK
    <3>2. acks[step].status # "error" => acks[step].version = applied
      BY <2>4, <3>1 DEF TakeAck, Acks, IInv, UpdatesAgree, AckCounts
    <3>3. applied' = applied /\ phase = "wait" /\ phase' \in Searching \cup Over /\ known' \in {known, applied}
          /\ (phase' \in Searching => known' = applied)
      BY <2>4, <3>2 DEF TakeAck, Leave, Continue, gpu
    <3> QED BY <3>3
  <2>5. CASE BarrierTimeout \/ LeanFails
    BY <2>5 DEF BarrierTimeout, LeanFails, Ends, gpu
  <2>6. CASE RefreshValues
    BY <2>6 DEF RefreshValues, Continue, gpu
  <2>7. CASE StopLean
    BY <2>7 DEF StopLean, Ends, gpu
  <2>8. CASE \/ Accept \/ AcceptCheckpoint \/ LearnReturns \/ LearnFails \/ Witness \/ Publish \/ Exit
             \/ Report \/ Die \/ UNCHANGED vars
    <3>1. UNCHANGED <<phase, known, applied>>
      BY <2>8 DEF Accept, AcceptCheckpoint, LearnReturns, LearnFails, Witness, Publish, Exit,
         Report, Die,
         lean, gpu, vars
    <3> QED BY <3>1
  <2> QED BY <2>1, <2>2, <2>3, <2>4, <2>5, <2>6, <2>7, <2>8 DEF Next, LeanNext, CoordinatorNext
<1> QED BY <1>1, <1>2, InductiveInvariant, PTL DEF Spec, UpdatesAtBarriers, Barrier!Spec

-----------------------------------------------------------------------------
(* OnlineBatch: what a batch did outside itself, over all its lives.       *)

\* Every variable of the batch has its type; what it counts is finite.
BatchTypeOK ==
    /\ intents \subseteq Sessions
    /\ evidence \in [Sessions -> {"none", "unfinished", "solved", "exhausted"}]
    /\ lines \in Seq(Sessions)
    /\ retirement \in [Sessions -> SUBSET Retirement]
    /\ resident \subseteq Sessions
    /\ at \in {"down", "recover", "submit", "wait", "settle", "raise"}
    /\ recovered \subseteq Sessions /\ due \subseteq Sessions /\ entries \subseteq Sessions
    /\ running \subseteq Sessions /\ ended \subseteq Sessions /\ done \subseteq Sessions
    /\ job \in [session: Sessions, step: RecordSteps] \cup {NoJob}
    /\ failed \in BOOLEAN
    /\ ran \in [Sessions -> Nat] /\ sent \in [Sessions -> Nat] /\ deaths \in Nat
    /\ IsFiniteSet(Recorded) /\ IsFiniteSet(resident \cup running \cup ended)

\* Which parts of the process are in use where it is.
Placed ==
    /\ job # NoJob => at \in {"recover", "settle"}
    /\ done # {} => at = "settle"
    /\ at \in {"down", "recover"} => running = {} /\ ended = {}
    /\ at = "recover" => ~failed
    /\ at \in {"submit", "wait", "settle"} => recovered = {} /\ due = {}

\* What the disk and the GPU say of a session, in every life of the batch.
Lasting ==
    \A s \in Sessions :
        /\ ran[s] <= 1 /\ (ran[s] > 0 \/ s \in resident => evidence[s] # "none")
        /\ sent[s] <= 1 /\ (sent[s] > 0 => "intent" \in retirement[s])
        /\ retirement[s] # {} => s \in Recorded /\ RetireCompleted
        /\ s \in Recorded => Complete(s)
        /\ "response" \in retirement[s] => s \notin resident

\* A session is in one place of the process, and a place implies what was recorded.
Unrecorded == recovered \cup running \cup ended \cup done

Apart ==
    /\ Unrecorded \cap Recorded = {}
    /\ running \cap ended = {} /\ running \cap done = {} /\ ended \cap done = {}
    /\ \A s \in recovered : Complete(s)
    /\ \A s \in due : RetireCompleted /\ retirement[s] = {}
    /\ at \in {"recover", "submit", "wait", "settle"} =>
          \A s \in entries : evidence[s] = "none" /\ s \notin running \cup ended \cup done

\* The record under way: its session is complete, its line comes first, then the
\* intent of its retirement, and the call is sent for the first time.
JobStands ==
    job # NoJob =>
        /\ Complete(job.session)
        /\ job.step = "append" => job.session \notin Recorded \cup Unrecorded
        /\ job.step # "append" =>
              RetireCompleted /\ job.session \in Recorded /\ job.session \notin due
        /\ job.step = "intent" => retirement[job.session] = {}
        /\ job.step = "call" => sent[job.session] = 0 /\ "intent" \in retirement[job.session]
        /\ job.step \in {"response", "receipt"} => job.session \notin resident

JobOn(steps) == IF job # NoJob /\ job.step \in steps THEN {job.session} ELSE {}

\* Where sessions that hold the GPU are, as long as nothing failed.
ResidentKnown ==
    RetireCompleted =>
        /\ at = "recover" =>
              resident \subseteq due \cup JobOn({"intent", "call"})
        /\ at \in {"submit", "wait", "settle"} /\ ~failed =>
              resident \subseteq running \cup ended \cup done
                                    \cup JobOn({"append", "intent", "call"})
        /\ Cardinality(resident \cup running) <= Concurrency

\* Where sessions without a line are, as long as nothing failed.
Covered ==
    /\ at = "recover" => due \subseteq Recorded \cup recovered \cup JobOn({"append"})
    /\ at \in {"recover", "submit", "wait", "settle"} /\ ~failed =>
          Sessions \subseteq Recorded \cup Unrecorded \cup entries \cup JobOn({"append"})

LinesOnce == Len(lines) = Cardinality(Recorded)

BatchInv == Placed /\ Lasting /\ Apart /\ JobStands /\ ResidentKnown /\ Covered /\ LinesOnce


\* Any non-empty set of natural numbers has a least member.
LEMMA LeastExists ==
    ASSUME NEW S \in SUBSET Nat, S # {}
    PROVE  \E r \in S : \A s \in S : r <= s
<1>1. PICK r \in S : \A s \in S : ~ (<<s, r>> \in OpToRel(<, Nat))
  BY WFMin, NatLessThanWellFounded
<1>2. ASSUME NEW s \in S
      PROVE  r <= s
  <2>1. s \in Nat /\ r \in Nat
    OBVIOUS
  <2>2. <<s, r>> \in Nat \X Nat /\ ~ (s < r)
    BY <1>1, <2>1 DEF OpToRel
  <2> QED BY <2>1, <2>2
<1> QED BY <1>2

\* The number of places is a number.
LEMMA PlacesType == Concurrency \in Nat
  BY BatchAssumption

\* First picks a member of any set of sessions that has one.
LEMMA FirstIn == ASSUME NEW S, S \subseteq Sessions, S # {} PROVE First(S) \in S
  <1>1. S \in SUBSET Nat
    BY BatchAssumption
  <1>2. \E s \in S : \A t \in S : s <= t
    BY <1>1, LeastExists
  <1> QED
    BY <1>2 DEF First

\* A line that is appended is on record.
LEMMA AppendedRecorded ==
  ASSUME BatchTypeOK, NEW s \in Sessions, lines' = Append(lines, s)
  PROVE  /\ Recorded' = Recorded \cup {s} /\ lines' \in Seq(Sessions)
         /\ IsFiniteSet(Recorded') /\ Len(lines') = Len(lines) + 1
         /\ LinesOnce /\ s \notin Recorded => LinesOnce'
  <1>1. lines \in Seq(Sessions) /\ IsFiniteSet(Recorded)
    BY DEF BatchTypeOK
  <1>2. /\ DOMAIN lines' = DOMAIN lines \cup {Len(lines) + 1} /\ lines'[Len(lines) + 1] = s
        /\ \A i \in DOMAIN lines : lines'[i] = lines[i]
        /\ lines' \in Seq(Sessions) /\ Len(lines') = Len(lines) + 1
    BY <1>1
  <1>3. Recorded' = Recorded \cup {s}
    BY <1>2 DEF Recorded
  <1>4. IsFiniteSet(Recorded')
    BY <1>1, <1>3, FS_AddElement
  <1>5. s \notin Recorded => Cardinality(Recorded') = Cardinality(Recorded) + 1
    BY <1>1, <1>3, FS_AddElement
  <1> QED
    BY <1>2, <1>3, <1>4, <1>5 DEF LinesOnce

\* The disk and the GPU without a change of lines.
LEMMA SameRecorded == UNCHANGED lines => Recorded' = Recorded /\ (LinesOnce => LinesOnce')
  BY DEF Recorded, LinesOnce


\* The next step of a record is a step of a record.
LEMMA JobType ==
  ASSUME NEW j \in [session: Sessions, step: RecordSteps], NEW next \in RecordSteps
  PROVE  [j EXCEPT !.step = next] \in [session: Sessions, step: RecordSteps]
  OBVIOUS

\* Counting one more keeps an array of counters.
LEMMA CountType ==
  ASSUME NEW f \in [Sessions -> Nat], NEW s \in Sessions
  PROVE  [f EXCEPT ![s] = @ + 1] \in [Sessions -> Nat]
  OBVIOUS

\* Every variable of the batch keeps its type.
LEMMA BatchTyped ==
  ASSUME BatchTypeOK, [BatchNext]_batchVars
  PROVE  BatchTypeOK'
  <1> USE DEF BatchTypeOK
  <1>0. NoJob \notin Sessions /\ NoJob \notin RecordSteps /\ NoJob \notin [session: Sessions, step: RecordSteps]
    BY BatchAssumption
  <1>1. UNCHANGED lines => Recorded' = Recorded
    BY SameRecorded
  <1>2. CASE Start
    BY <1>1, <1>2 DEF Start, disk, pool, history, Attempted
  <1>3. CASE Recover
    <2>1. recovered # {} => First(recovered) \in Sessions
      BY FirstIn
    <2>2. due # {} => First(due) \in Sessions
      BY FirstIn
    <2>3. job' \in [session: Sessions, step: RecordSteps] \cup {NoJob}
      BY <1>3, <2>1, <2>2 DEF Recover, RecordSteps
    <2>4. UNCHANGED <<disk, resident, entries, pool, failed, history>>
          /\ recovered' \subseteq recovered /\ due' \subseteq due /\ at' \in {at, "submit"}
      BY <1>3 DEF Recover
    <2> QED
      BY <1>1, <2>3, <2>4 DEF disk, pool, history
  <1>4. CASE AppendLine
    <2>1. job.session \in Sessions /\ job \in [session: Sessions, step: RecordSteps]
      BY <1>4 DEF AppendLine, On
    <2>2. UNCHANGED lines \/ lines' = Append(lines, job.session)
      BY <1>4 DEF AppendLine
    <2>3. lines' \in Seq(Sessions) /\ IsFiniteSet(Recorded')
      BY <1>1, <2>1, <2>2, AppendedRecorded
    <2>4. job' \in [session: Sessions, step: RecordSteps] \cup {NoJob}
      <3>1. job' \in {[job EXCEPT !.step = "intent"], NoJob}
        BY <1>4 DEF AppendLine, Goes, Finished, Raises
      <3> QED
        BY <2>1, <3>1, JobType DEF RecordSteps
    <2>5. at' \in {"recover", "submit", "wait", "settle", "raise", "down"} /\ failed' \in BOOLEAN
      BY <1>4 DEF AppendLine, Goes, Finished, Raises
    <2> QED
      BY <1>4, <2>3, <2>4, <2>5 DEF AppendLine, plan, pool, history
  <1>5. CASE CallRetire
    <2>1. job.session \in Sessions /\ job \in [session: Sessions, step: RecordSteps]
      BY <1>5 DEF CallRetire, On
    <2>2. job' \in [session: Sessions, step: RecordSteps] \cup {NoJob}
      <3>1. job' \in {[job EXCEPT !.step = "response"], NoJob}
        BY <1>5 DEF CallRetire, Goes, Raises
      <3> QED
        BY <2>1, <3>1, JobType DEF RecordSteps
    <2>3. at' \in {"recover", "submit", "wait", "settle", "raise", "down"} /\ failed' \in BOOLEAN
      BY <1>5 DEF CallRetire, Goes, Raises
    <2>4. resident' \subseteq resident
      BY <1>5 DEF CallRetire
    <2>5. sent' \in [Sessions -> Nat]
      BY <1>5, <2>1, CountType DEF CallRetire
    <2>6. UNCHANGED <<running, ended>> 
      BY <1>5 DEF CallRetire, pool
    <2>8. (resident \cup running \cup ended)' \subseteq resident \cup running \cup ended
      BY <2>4, <2>6
    <2>7. IsFiniteSet((resident \cup running \cup ended)')
      BY <2>8, FS_Subset
    <2> QED
      BY <1>1, <1>5, <2>2, <2>3, <2>4, <2>5, <2>7 DEF CallRetire, disk, plan,
         pool
  <1>6. ASSUME NEW file \in Retirement, NEW next \in RecordSteps \cup {NoJob}, WriteRetirement(file, next)
        PROVE  BatchTypeOK'
    <2>1. job.session \in Sessions /\ job \in [session: Sessions, step: RecordSteps]
      BY <1>6 DEF WriteRetirement, On
    <2>2. job' \in [session: Sessions, step: RecordSteps] \cup {NoJob}
      <3>1. \/ job' = NoJob
            \/ next \in RecordSteps /\ job' = [job EXCEPT !.step = next]
        BY <1>6 DEF WriteRetirement, Goes, Raises, Finished
      <3> QED
        BY <2>1, <3>1, JobType
    <2>3. at' \in {"recover", "submit", "wait", "settle", "raise", "down"} /\ failed' \in BOOLEAN
      BY <1>6 DEF WriteRetirement, Goes, Raises, Finished
    <2>4. retirement' \in [Sessions -> SUBSET Retirement]
      BY <1>6, <2>1 DEF WriteRetirement, Wrote
    <2> QED
      BY <1>1, <1>6, <2>2, <2>3, <2>4 DEF WriteRetirement, plan, pool,
         history
  <1>7. CASE Submit
    <2>1. First(entries) \in Sessions
      BY <1>7, FirstIn DEF Submit, MaySubmit
    <2>2. UNCHANGED <<resident, ended>> /\ running' \in {running, running \cup {First(entries)}}
      BY <1>7 DEF Submit
    <2>3. IsFiniteSet((resident \cup running \cup ended)')
      <3>1. IsFiniteSet((resident \cup running \cup ended) \cup {First(entries)})
        BY FS_AddElement
      <3> QED
        BY <2>2, <3>1, FS_Subset
    <2>4. running' \subseteq Sessions /\ entries' \subseteq Sessions /\ intents' \subseteq Sessions
      BY <1>7, <2>1 DEF Submit
    <2> QED
      BY <1>1, <1>7, <2>3, <2>4 DEF Submit, history
  <1>8. CASE Refilled \/ Wait \/ Settled \/ Escape
    <2>1. (resident \cup running \cup ended)' \subseteq resident \cup running \cup ended
      BY <1>8 DEF Refilled, Wait, Settled, Escape, pool
    <2>2. IsFiniteSet((resident \cup running \cup ended)')
      BY <2>1, FS_Subset
    <2> QED
      BY <1>1, <1>8, <2>2 DEF Refilled, Wait, Settled, Escape,
         disk, plan, pool, history
  <1>9. ASSUME NEW s \in Sessions, Begin(s) \/ End(s) \/ Settle(s)
        PROVE  BatchTypeOK'
    <2>1. (resident \cup running \cup ended)' \subseteq resident \cup running \cup ended
      BY <1>9 DEF Begin, End, Settle, pool
    <2>2. IsFiniteSet((resident \cup running \cup ended)')
      BY <2>1, FS_Subset
    <2>3. CASE Begin(s)
      <3>1. evidence' \in [Sessions -> {"none", "unfinished", "solved", "exhausted"}]
            /\ resident' \subseteq Sessions
        BY <2>3 DEF Begin
      <3>2. ran' \in [Sessions -> Nat]
        BY <2>3, CountType DEF Begin
      <3> QED
        BY <1>1, <2>2, <2>3, <3>1, <3>2 DEF Begin, plan, pool
    <2>4. CASE End(s)
      <3>1. evidence' \in [Sessions -> {"none", "unfinished", "solved", "exhausted"}]
        <4>1. \A e \in {"solved", "exhausted"} : [evidence EXCEPT ![s] = e]
                 \in [Sessions -> {"none", "unfinished", "solved", "exhausted"}]
          OBVIOUS
        <4> QED
          BY <2>4, <4>1 DEF End
      <3> QED
        BY <1>1, <2>2, <2>4, <3>1 DEF End, plan, history
    <2>5. CASE Settle(s)
      <3>1. job' \in [session: Sessions, step: RecordSteps] \cup {NoJob}
        BY <2>5 DEF Settle, RecordSteps
      <3>2. done' \subseteq Sessions /\ failed' \in BOOLEAN
        BY <2>5 DEF Settle
      <3> QED
        BY <1>1, <2>2, <2>5, <3>1, <3>2 DEF Settle, disk, plan, history
    <2> QED
      BY <1>9, <2>3, <2>4, <2>5
  <1>10. CASE BatchDies
    <2>1. (resident \cup running \cup ended)' \subseteq resident \cup running \cup ended
      BY <1>10 DEF BatchDies
    <2>2. IsFiniteSet((resident \cup running \cup ended)')
      BY <2>1, FS_Subset
    <2> QED
      BY <1>1, <1>10, <2>2 DEF BatchDies, disk, plan
  <1>11. CASE UNCHANGED batchVars
    BY <1>1, <1>11 DEF batchVars, disk, plan, pool, history
  <1>12. SaveRecord => \/ AppendLine \/ CallRetire
                   \/ \E file \in Retirement, next \in RecordSteps \cup {NoJob} : WriteRetirement(file, next)
    BY DEF SaveRecord, Retirement, RecordSteps
  <1> QED
    BY <1>2, <1>3, <1>4, <1>5, <1>6, <1>7, <1>8, <1>9, <1>10, <1>11, <1>12 DEF BatchNext,
       Step

\* The facts of BatchInv that an action of the batch needs, with Recorded closed.
LEMMA BatchStart ==
  ASSUME BatchTypeOK, BatchInv, Start
  PROVE  BatchInv'
  <1> USE DEF BatchTypeOK, BatchInv, Start, disk, pool, history
  <1>1. Recorded' = Recorded /\ LinesOnce'
    BY SameRecorded
  <1>2. Placed'
    BY DEF Placed
  <1>3. Lasting'
    BY <1>1 DEF Lasting, Complete
  <1>4. job = NoJob /\ running = {} /\ ended = {} /\ done = {}
    BY DEF Placed
  <1>5. Apart'
    <2>1. \A s \in recovered' : Complete(s)'
      BY DEF Startable, Complete
    <2>2. \A s \in entries' : evidence'[s] = "none"
      BY DEF Attempted
    <2>3. \A s \in due' : RetireCompleted /\ retirement'[s] = {}
      OBVIOUS
    <2>4. Unrecorded' \cap Recorded = {}
      BY <1>4 DEF Unrecorded
    <2> QED
      BY <1>1, <1>4, <2>1, <2>2, <2>3, <2>4 DEF Apart
  <1>6. JobStands'
    BY <1>4 DEF JobStands
  <1>7. ResidentKnown'
    <2> SUFFICES ASSUME RetireCompleted
                 PROVE  resident \subseteq due' /\ Cardinality(resident \cup running) <= Concurrency
      BY DEF ResidentKnown
    <2>1. Cardinality(resident \cup running) <= Concurrency
      BY DEF ResidentKnown
    <2>2. ASSUME NEW s \in resident PROVE s \in due'
      <3>1. s \in Attempted /\ "response" \notin retirement[s]
        BY DEF Lasting, Attempted
      <3>2. retirement[s] = {}
        BY <3>1 DEF Startable, Retirement
      <3> QED
        BY <3>1, <3>2
    <2> QED
      BY <2>1, <2>2
  <1>8. Covered'
    <2>1. due' \subseteq Recorded \cup recovered'
      OBVIOUS
    <2>2. Sessions \subseteq Recorded \cup recovered' \cup entries'
      OBVIOUS
    <2> QED
      BY <1>1, <2>1, <2>2 DEF Covered, Unrecorded
  <1> QED
    BY <1>1, <1>2, <1>3, <1>5, <1>6, <1>7, <1>8

\* Recovery takes the next session, or goes on to submit.
LEMMA BatchRecover ==
  ASSUME BatchTypeOK, BatchInv, Recover
  PROVE  BatchInv'
  <1> USE DEF BatchTypeOK, BatchInv
  <1>1. /\ UNCHANGED <<disk, resident, entries, pool, failed, history>>
        /\ job = NoJob /\ at = "recover" /\ ~failed
        /\ running = {} /\ ended = {} /\ done = {}
    BY DEF Recover, Placed, pool
  <1>2. /\ UNCHANGED <<intents, evidence, lines, retirement, running, ended, done, ran, sent, deaths>>
        /\ UNCHANGED <<resident, entries, failed>>
    BY <1>1 DEF disk, pool, history
  <1>3. Recorded' = Recorded /\ LinesOnce'
    BY <1>2, SameRecorded
  <1>4. Lasting'
    BY <1>2, <1>3 DEF Lasting, Complete
  <1>5. CASE /\ recovered # {} /\ job' = [session |-> First(recovered), step |-> "append"]
             /\ recovered' = recovered \ {First(recovered)} /\ UNCHANGED <<due, at>>
    <2> DEFINE s == First(recovered)
    <2>1. s \in recovered /\ s \in Sessions
      BY <1>5, FirstIn
    <2>2. job' # NoJob /\ job'.session = s /\ job'.step = "append"
      <3>1. job' \in [session: Sessions, step: RecordSteps]
        BY <1>5, <2>1 DEF RecordSteps
      <3> QED
        BY <1>5, <3>1, BatchAssumption
    <2> HIDE DEF s
    <2>3. recovered' = recovered \ {s}
      BY <1>5 DEF s
    <2>4. Placed'
      BY <1>1, <1>2, <1>5 DEF Placed
    <2>5. Apart'
      BY <1>1, <1>2, <1>3, <1>5, <2>3 DEF Apart, Unrecorded, Complete
    <2>6. JobStands'
      BY <1>1, <1>2, <1>3, <2>1, <2>2, <2>3 DEF JobStands, Apart, Unrecorded, Complete
    <2>7. ResidentKnown'
      BY <1>1, <1>2, <1>5, <2>2 DEF ResidentKnown, JobOn
    <2>8. Covered'
      BY <1>1, <1>2, <1>3, <1>5, <2>2, <2>3 DEF Covered, JobOn, Unrecorded
    <2> QED
      BY <1>3, <1>4, <2>4, <2>5, <2>6, <2>7, <2>8
  <1>6. CASE /\ recovered = {} /\ due # {}
             /\ job' = [session |-> First(due), step |-> "intent"]
             /\ due' = due \ {First(due)} /\ UNCHANGED <<recovered, at>>
    <2> DEFINE s == First(due)
    <2>1. s \in due /\ s \in Sessions
      BY <1>6, FirstIn
    <2>2. job' # NoJob /\ job'.session = s /\ job'.step = "intent"
      <3>1. job' \in [session: Sessions, step: RecordSteps]
        BY <1>6, <2>1 DEF RecordSteps
      <3> QED
        BY <1>6, <3>1, BatchAssumption
    <2> HIDE DEF s
    <2>3. due' = due \ {s} /\ s \in Recorded
      BY <1>1, <1>6, <2>1 DEF s, Covered, JobOn
    <2>4. Placed'
      BY <1>1, <1>2, <1>6 DEF Placed
    <2>5. Apart'
      BY <1>1, <1>2, <1>3, <1>6, <2>3 DEF Apart, Unrecorded, Complete
    <2>6. JobStands'
      BY <1>1, <1>2, <1>3, <2>1, <2>2, <2>3 DEF JobStands, Apart, Lasting, Complete
    <2>7. ResidentKnown'
      BY <1>1, <1>2, <1>6, <2>2, <2>3 DEF ResidentKnown, JobOn
    <2>8. Covered'
      BY <1>1, <1>2, <1>3, <1>6, <2>2, <2>3 DEF Covered, JobOn, Unrecorded
    <2> QED
      BY <1>3, <1>4, <2>4, <2>5, <2>6, <2>7, <2>8
  <1>7. CASE recovered = {} /\ due = {} /\ at' = "submit" /\ UNCHANGED <<recovered, due, job>>
    <2>1. Placed' /\ JobStands'
      BY <1>1, <1>2, <1>7 DEF Placed, JobStands
    <2>2. Apart'
      BY <1>1, <1>2, <1>3, <1>7 DEF Apart, Unrecorded, Complete
    <2>3. ResidentKnown'
      BY <1>1, <1>2, <1>7 DEF ResidentKnown, JobOn
    <2>4. Covered'
      BY <1>1, <1>2, <1>3, <1>7 DEF Covered, JobOn, Unrecorded
    <2> QED
      BY <1>3, <1>4, <2>1, <2>2, <2>3, <2>4
  <1> QED
    BY <1>5, <1>6, <1>7 DEF Recover

\* The record of a session that stops, because it is finished or because of an
\* exception: the session may keep what it holds only if something failed.
LEMMA BatchStops ==
  ASSUME BatchTypeOK, BatchInv, job # NoJob, job' = NoJob,
         UNCHANGED <<evidence, ran, running, ended, done, recovered, due, entries>>,
         \/ UNCHANGED <<at, failed>>
         \/ at = "recover" /\ at' = "raise" /\ UNCHANGED failed
         \/ at # "recover" /\ failed' = TRUE /\ UNCHANGED at,
         resident' \subseteq resident,
         UNCHANGED <<at, failed>> /\ ~failed =>
            \/ job.session \notin resident'
            \/ job.step = "append" /\ (~RetireCompleted \/ at = "recover"),
         UNCHANGED <<at, failed>> /\ ~failed => job.session \in Recorded',
         Recorded \subseteq Recorded',
         Recorded' \subseteq Recorded \cup {job.session},
         \A s \in Sessions : s # job.session => UNCHANGED <<retirement[s], sent[s]>>,
         job.step = "append" => UNCHANGED retirement,
         Lasting', LinesOnce'
  PROVE  BatchInv'
  <1> USE DEF BatchTypeOK, BatchInv
  <1>1. job.session \in Sessions /\ at \in {"recover", "settle"}
    BY DEF Placed
  <1>2. Placed'
    BY <1>1 DEF Placed
  <1>3. JobStands'
    BY DEF JobStands
  <1>4. Apart'
    <2>1. Unrecorded' = Unrecorded /\ Unrecorded' \cap Recorded' = {}
      BY DEF Apart, JobStands, Unrecorded
    <2>2. \A s \in due : retirement'[s] = {}
      BY DEF Apart, JobStands
    <2> QED
      BY <1>1, <2>1, <2>2 DEF Apart, Complete
  <1>5. ResidentKnown'
    <2> SUFFICES ASSUME RetireCompleted
                 PROVE  /\ at' = "recover" => resident' \subseteq due
                        /\ at' \in {"submit", "wait", "settle"} /\ ~failed' =>
                              resident' \subseteq running \cup ended \cup done
                        /\ Cardinality(resident' \cup running') <= Concurrency
      BY DEF ResidentKnown, JobOn
    <2>1. at' = "recover" => resident' \subseteq due
      BY <1>1 DEF ResidentKnown, JobOn, Placed
    <2>2. at' \in {"submit", "wait", "settle"} /\ ~failed' =>
             resident' \subseteq running \cup ended \cup done
      BY <1>1 DEF ResidentKnown, JobOn
    <2>3. Cardinality(resident' \cup running') <= Concurrency
      <3>1. resident' \cup running' \subseteq resident \cup running /\ IsFiniteSet(resident \cup running)
        BY FS_Subset
      <3>2. /\ Cardinality(resident' \cup running') <= Cardinality(resident \cup running)
            /\ Cardinality(resident' \cup running') \in Nat /\ Cardinality(resident \cup running) \in Nat
            /\ Cardinality(resident \cup running) <= Concurrency
        BY <3>1, FS_Subset, FS_CardinalityType DEF ResidentKnown
      <3> QED
        BY <3>2, BatchAssumption
    <2> QED
      BY <2>1, <2>2, <2>3
  <1>6. Covered'
    <2>1. at' = "recover" => due \subseteq Recorded' \cup recovered
      BY <1>1 DEF Covered, JobOn, Placed
    <2>2. at' \in {"recover", "submit", "wait", "settle"} /\ ~failed' =>
             Sessions \subseteq Recorded' \cup Unrecorded \cup entries
      BY <1>1 DEF Covered, JobOn
    <2> QED
      BY <2>1, <2>2 DEF Covered, JobOn, Unrecorded
  <1> QED
    BY <1>2, <1>3, <1>4, <1>5, <1>6

\* The record under way, and what is left alone while it goes on.
LEMMA JobKnown ==
  ASSUME BatchTypeOK, BatchInv, NEW now \in RecordSteps, On(now)
  PROVE  /\ job # NoJob /\ job.step = now /\ job \in [session: Sessions, step: RecordSteps]
         /\ job.session \in Sessions /\ Complete(job.session) /\ at \in {"recover", "settle"}
         /\ \A next \in RecordSteps : [job EXCEPT !.step = next] # NoJob
                  /\ [job EXCEPT !.step = next].session = job.session
                  /\ [job EXCEPT !.step = next].step = next
  <1>1. job # NoJob /\ job.step = now
    BY DEF On
  <1>2. job \in [session: Sessions, step: RecordSteps]
    BY <1>1 DEF BatchTypeOK
  <1>3. Complete(job.session) /\ at \in {"recover", "settle"}
    BY <1>1 DEF BatchInv, JobStands, Placed
  <1>4. ASSUME NEW next \in RecordSteps
        PROVE  /\ [job EXCEPT !.step = next] # NoJob
               /\ [job EXCEPT !.step = next].session = job.session
               /\ [job EXCEPT !.step = next].step = next
    <2>1. [job EXCEPT !.step = next] \in [session: Sessions, step: RecordSteps]
      BY <1>2, JobType
    <2>2. [job EXCEPT !.step = next] # NoJob
      BY <2>1, BatchAssumption
    <2> QED
      BY <1>2, <2>2
  <1> QED
    BY <1>1, <1>2, <1>3, <1>4

\* A line is appended, after the evidence was complete and before the retirement.
LEMMA BatchAppend ==
  ASSUME BatchTypeOK, BatchInv, AppendLine
  PROVE  BatchInv'
  <1> USE DEF BatchTypeOK, BatchInv
  <1> DEFINE s == job.session
  <1>1. /\ job # NoJob /\ job.step = "append" /\ s \in Sessions /\ Complete(s)
        /\ at \in {"recover", "settle"}
        /\ [job EXCEPT !.step = "intent"] # NoJob
        /\ [job EXCEPT !.step = "intent"].session = s
        /\ [job EXCEPT !.step = "intent"].step = "intent"
    BY JobKnown DEF AppendLine, RecordSteps
  <1>2. s \notin Recorded /\ s \notin Unrecorded
    BY <1>1 DEF JobStands
  <1>3. /\ UNCHANGED <<intents, evidence, retirement, resident, recovered, due, entries>>
        /\ UNCHANGED <<running, ended, done, ran, sent, deaths>>
    BY DEF AppendLine, plan, pool, history
  <1>4. \/ UNCHANGED lines /\ Raises
        \/ lines' = Append(lines, s) /\ Raises
        \/ lines' = Append(lines, s) /\ Goes("intent") /\ RetireCompleted /\ at # "recover"
        \/ lines' = Append(lines, s) /\ Finished /\ (~RetireCompleted \/ at = "recover")
    BY DEF AppendLine
  <1>5. /\ lines' = Append(lines, s) => Recorded' = Recorded \cup {s} /\ LinesOnce'
        /\ UNCHANGED lines => Recorded' = Recorded /\ LinesOnce'
    BY <1>1, <1>2, AppendedRecorded, SameRecorded
  <1> HIDE DEF s
  <1>6. Recorded \subseteq Recorded' /\ Recorded' \subseteq Recorded \cup {s} /\ LinesOnce'
    BY <1>4, <1>5
  <1>7. Lasting'
    BY <1>1, <1>3, <1>6 DEF Lasting, Complete
  <1>8. CASE Raises
    <2>1. job' = NoJob /\ (UNCHANGED <<at, failed>> => failed)
      BY <1>8 DEF Raises
    <2>2. \/ at = "recover" /\ at' = "raise" /\ UNCHANGED failed
          \/ at # "recover" /\ failed' = TRUE /\ UNCHANGED at
      BY <1>8 DEF Raises
    <2> QED
      BY <1>1, <1>3, <1>6, <1>7, <2>1, <2>2, BatchStops DEF s
  <1>9. CASE lines' = Append(lines, s) /\ Finished /\ (~RetireCompleted \/ at = "recover")
    <2>1. job' = NoJob /\ UNCHANGED <<at, failed>> /\ s \in Recorded'
      BY <1>5, <1>9 DEF Finished
    <2> QED
      BY <1>1, <1>3, <1>6, <1>7, <1>9, <2>1, BatchStops DEF s
  <1>10. CASE lines' = Append(lines, s) /\ Goes("intent") /\ RetireCompleted /\ at # "recover"
    <2>1. Recorded' = Recorded \cup {s} /\ UNCHANGED <<at, failed>> /\ at = "settle"
      BY <1>1, <1>5, <1>10 DEF Goes
    <2>2. job' # NoJob /\ job'.session = s /\ job'.step = "intent"
      BY <1>1, <1>10 DEF Goes
    <2>3. Placed' /\ due = {}
      BY <1>1, <1>3, <2>1 DEF Placed
    <2>4. Apart'
      BY <1>1, <1>2, <1>3, <2>1, <2>3 DEF Apart, Unrecorded, Complete
    <2>5. retirement[s] = {}
      BY <1>1, <1>2 DEF Lasting
    <2>6. JobStands'
      BY <1>1, <1>3, <1>10, <2>1, <2>2, <2>3, <2>5 DEF JobStands, Complete
    <2>7. ResidentKnown'
      BY <1>1, <1>3, <2>1, <2>2 DEF ResidentKnown, JobOn, s
    <2>8. Covered'
      BY <1>1, <1>3, <2>1, <2>2 DEF Covered, JobOn, Unrecorded, s
    <2> QED
      BY <1>6, <1>7, <2>3, <2>4, <2>6, <2>7, <2>8
  <1> QED
    BY <1>4, <1>8, <1>9, <1>10

\* A file of the retirement is written: the intent before the call, the others
\* after the session was released.
LEMMA BatchWrite ==
  ASSUME BatchTypeOK, BatchInv, NEW file, NEW next,
         \/ file = "intent" /\ next = "call"
         \/ file = "response" /\ next = "receipt"
         \/ file = "receipt" /\ next = NoJob,
         WriteRetirement(file, next)
  PROVE  BatchInv'
  <1> USE DEF BatchTypeOK, BatchInv
  <1> DEFINE s == job.session
  <1>0. file \in Retirement /\ file \in RecordSteps
    BY DEF Retirement, RecordSteps
  <1>1. /\ job # NoJob /\ job.step = file /\ s \in Sessions /\ Complete(s)
        /\ at \in {"recover", "settle"}
        /\ next # NoJob => /\ [job EXCEPT !.step = next] # NoJob
                          /\ [job EXCEPT !.step = next].session = s
                          /\ [job EXCEPT !.step = next].step = next
    BY <1>0, JobKnown DEF WriteRetirement, RecordSteps
  <1>2. /\ RetireCompleted /\ s \in Recorded /\ s \notin due
        /\ file = "intent" => retirement[s] = {}
        /\ file \in {"response", "receipt"} => s \notin resident
    BY <1>1 DEF JobStands
  <1>3. /\ UNCHANGED <<intents, evidence, lines, resident, recovered, due, entries>>
        /\ UNCHANGED <<running, ended, done, ran, sent, deaths>>
    BY DEF WriteRetirement, plan, pool, history
  <1>4. \/ UNCHANGED retirement /\ Raises
        \/ Wrote(file) /\ Raises
        \/ Wrote(file) /\ next # NoJob /\ Goes(next)
        \/ Wrote(file) /\ next = NoJob /\ Finished
    BY DEF WriteRetirement
  <1> HIDE DEF s
  <1>5. /\ \A t \in Sessions : t # s => retirement'[t] = retirement[t]
        /\ retirement'[s] \in {retirement[s], retirement[s] \cup {file}}
        /\ Wrote(file) => retirement'[s] = retirement[s] \cup {file}
    BY <1>1, <1>4 DEF Wrote, s
  <1>6. Recorded' = Recorded /\ LinesOnce'
    BY <1>3, SameRecorded
  <1>7. Lasting'
    <2> SUFFICES ASSUME NEW t \in Sessions
                 PROVE  /\ sent'[t] > 0 => "intent" \in retirement'[t]
                        /\ retirement'[t] # {} => t \in Recorded' /\ RetireCompleted
                        /\ "response" \in retirement'[t] => t \notin resident'
      BY <1>3, <1>6 DEF Lasting, Complete
    <2>1. CASE t # s
      BY <1>3, <1>5, <1>6, <2>1 DEF Lasting
    <2>2. CASE t = s
      BY <1>0, <1>1, <1>2, <1>3, <1>5, <1>6, <2>2 DEF Lasting
    <2> QED
      BY <2>1, <2>2
  <1>8. CASE Raises
    <2>1. job' = NoJob /\ (UNCHANGED <<at, failed>> => failed)
      BY <1>8 DEF Raises
    <2>2. \/ at = "recover" /\ at' = "raise" /\ UNCHANGED failed
          \/ at # "recover" /\ failed' = TRUE /\ UNCHANGED at
      BY <1>8 DEF Raises
    <2>3. \A t \in Sessions : t # job.session => UNCHANGED <<retirement[t], sent[t]>>
      BY <1>3, <1>5 DEF s
    <2>4. job.step # "append"
      BY <1>1
    <2> QED
      BY <1>1, <1>3, <1>6, <1>7, <2>1, <2>2, <2>3, <2>4, BatchStops DEF s
  <1>9. CASE Wrote(file) /\ next = NoJob /\ Finished
    <2>1. job' = NoJob /\ UNCHANGED <<at, failed>> /\ s \in Recorded'
      BY <1>2, <1>6, <1>9 DEF Finished
    <2>2. file = "receipt" /\ s \notin resident'
      BY <1>2, <1>3, <1>9, BatchAssumption DEF RecordSteps
    <2>3. \A t \in Sessions : t # job.session => UNCHANGED <<retirement[t], sent[t]>>
      BY <1>3, <1>5 DEF s
    <2>4. job.step # "append" /\ resident' \subseteq resident
      BY <1>1, <1>3, <1>9
    <2>5. job.session \notin resident' /\ job.session \in Recorded'
      BY <2>1, <2>2 DEF s
    <2>6. Recorded \subseteq Recorded' /\ Recorded' \subseteq Recorded \cup {job.session}
      BY <1>6
    <2>7. UNCHANGED <<evidence, ran, running, ended, done, recovered, due, entries>>
      BY <1>3
    <2>8. job # NoJob
      BY <1>1
    <2> HIDE DEF BatchTypeOK, BatchInv
    <2> QED
      BY <1>6, <1>7, <2>1, <2>3, <2>4, <2>5, <2>6, <2>7, <2>8, BatchStops
  <1>10. CASE Wrote(file) /\ next # NoJob /\ Goes(next)
    <2>1. UNCHANGED <<at, failed>>
      BY <1>10 DEF Goes
    <2>2. job' # NoJob /\ job'.session = s /\ job'.step = next
      BY <1>1, <1>10 DEF Goes
    <2>3. Placed'
      BY <1>1, <1>3, <2>1 DEF Placed
    <2>4. Apart'
      BY <1>1, <1>2, <1>3, <1>5, <1>6, <2>1 DEF Apart, Unrecorded, Complete
    <2>5. \/ next = "call" /\ file = "intent" /\ retirement[s] = {} /\ "intent" \in retirement'[s]
          \/ next = "receipt" /\ file = "response"
      BY <1>2, <1>5, <1>10
    <2>6. next = "call" => sent[s] = 0
      <3>1. sent[s] \in Nat /\ (sent[s] > 0 => "intent" \in retirement[s])
        BY <1>1 DEF Lasting
      <3> QED
        BY <2>5, <3>1
    <2>7. JobStands'
      BY <1>1, <1>2, <1>3, <1>6, <2>1, <2>2, <2>5, <2>6 DEF JobStands, Complete
    <2>8. ResidentKnown'
      BY <1>1, <1>2, <1>3, <2>1, <2>2, <2>5 DEF ResidentKnown, JobOn, s
    <2>9. Covered'
      BY <1>1, <1>2, <1>3, <1>6, <2>1, <2>2, <2>5 DEF Covered, JobOn, Unrecorded, s
    <2> QED
      BY <1>6, <1>7, <2>3, <2>4, <2>7, <2>8, <2>9
  <1> QED
    BY <1>4, <1>8, <1>9, <1>10

\* The session is released, and the call is sent once.
LEMMA BatchCall ==
  ASSUME BatchTypeOK, BatchInv, CallRetire
  PROVE  BatchInv'
  <1> USE DEF BatchTypeOK, BatchInv
  <1> DEFINE s == job.session
  <1>1. /\ job # NoJob /\ job.step = "call" /\ s \in Sessions /\ Complete(s)
        /\ at \in {"recover", "settle"}
        /\ [job EXCEPT !.step = "response"] # NoJob
        /\ [job EXCEPT !.step = "response"].session = s
        /\ [job EXCEPT !.step = "response"].step = "response"
    BY JobKnown DEF CallRetire, RecordSteps
  <1>2. /\ RetireCompleted /\ s \in Recorded /\ s \notin due
        /\ sent[s] = 0 /\ "intent" \in retirement[s]
    BY <1>1 DEF JobStands
  <1>3. /\ UNCHANGED <<intents, evidence, lines, retirement, recovered, due, entries>>
        /\ UNCHANGED <<running, ended, done, ran, deaths>>
    BY DEF CallRetire, disk, plan, pool
  <1>4. \/ resident' \in {resident, resident \ {s}} /\ Raises
        \/ resident' = resident \ {s} /\ Goes("response")
    BY DEF CallRetire
  <1>5. /\ \A t \in Sessions : t # s => sent'[t] = sent[t]
        /\ sent'[s] = 1
    BY <1>1, <1>2 DEF CallRetire
  <1> HIDE DEF s
  <1>6. Recorded' = Recorded /\ LinesOnce'
    BY <1>3, SameRecorded
  <1>7. resident' \subseteq resident
    BY <1>4
  <1>8. Lasting'
    <2> SUFFICES ASSUME NEW t \in Sessions
                 PROVE  /\ sent'[t] <= 1 /\ (sent'[t] > 0 => "intent" \in retirement'[t])
                        /\ t \in resident' => evidence[t] # "none"
                        /\ "response" \in retirement'[t] => t \notin resident'
      BY <1>3, <1>6 DEF Lasting, Complete
    <2>1. CASE t # s
      BY <1>3, <1>5, <1>7, <2>1 DEF Lasting
    <2>2. CASE t = s
      BY <1>1, <1>2, <1>3, <1>5, <1>7, <2>2 DEF Lasting
    <2> QED
      BY <2>1, <2>2
  <1>9. CASE Raises
    <2>1. job' = NoJob /\ (UNCHANGED <<at, failed>> => failed)
      BY <1>9 DEF Raises
    <2>2. \/ at = "recover" /\ at' = "raise" /\ UNCHANGED failed
          \/ at # "recover" /\ failed' = TRUE /\ UNCHANGED at
      BY <1>9 DEF Raises
    <2>3. \A t \in Sessions : t # job.session => UNCHANGED <<retirement[t], sent[t]>>
      BY <1>3, <1>5 DEF s
    <2>4. job.step # "append"
      BY <1>1
    <2> QED
      BY <1>1, <1>3, <1>6, <1>7, <1>8, <2>1, <2>2, <2>3, <2>4, BatchStops DEF s
  <1>10. CASE resident' = resident \ {s} /\ Goes("response")
    <2>1. UNCHANGED <<at, failed>>
      BY <1>10 DEF Goes
    <2>2. job' # NoJob /\ job'.session = s /\ job'.step = "response"
      BY <1>1, <1>10 DEF Goes
    <2>3. Placed'
      BY <1>1, <1>3, <2>1 DEF Placed
    <2>4. Apart'
      BY <1>1, <1>3, <1>6, <2>1 DEF Apart, Unrecorded, Complete
    <2>5. JobStands'
      BY <1>1, <1>2, <1>3, <1>6, <1>10, <2>1, <2>2 DEF JobStands, Complete
    <2>6. ResidentKnown'
      <3>1. RetireCompleted => Cardinality(resident' \cup running') <= Concurrency
        <4>1. resident' \cup running' \subseteq resident \cup running /\ IsFiniteSet(resident \cup running)
          BY <1>3, <1>7, FS_Subset
        <4>2. /\ Cardinality(resident' \cup running') <= Cardinality(resident \cup running)
              /\ Cardinality(resident' \cup running') \in Nat /\ Cardinality(resident \cup running) \in Nat
          BY <4>1, FS_Subset, FS_CardinalityType
        <4> QED
          BY <4>2, PlacesType DEF ResidentKnown
      <3>2. JobOn({"intent", "call"}) = {s} /\ JobOn({"append", "intent", "call"}) = {s}
        BY <1>1 DEF JobOn, s
      <3> QED
        BY <1>1, <1>2, <1>3, <1>10, <2>1, <2>2, <3>1, <3>2 DEF ResidentKnown
    <2>7. Covered'
      BY <1>1, <1>2, <1>3, <1>6, <2>1, <2>2 DEF Covered, JobOn, Unrecorded, s
    <2> QED
      BY <1>6, <1>8, <2>3, <2>4, <2>5, <2>6, <2>7
  <1> QED
    BY <1>4, <1>9, <1>10

\* Fewer sessions on the GPU or in the pool stay within the places.
LEMMA FewerResident ==
  ASSUME BatchTypeOK, ResidentKnown, RetireCompleted,
         resident' \cup running' \subseteq resident \cup running
  PROVE  Cardinality(resident' \cup running') <= Concurrency
  <1>1. IsFiniteSet(resident \cup running)
    BY FS_Subset DEF BatchTypeOK
  <1>2. /\ Cardinality(resident' \cup running') <= Cardinality(resident \cup running)
        /\ Cardinality(resident' \cup running') \in Nat /\ Cardinality(resident \cup running) \in Nat
    BY <1>1, FS_Subset, FS_CardinalityType
  <1> QED
    BY <1>2, BatchAssumption DEF ResidentKnown

\* A session enters the pool: nothing failed, so every session that holds the GPU
\* is still in the pool, and there is a place.
LEMMA BatchSubmit ==
  ASSUME BatchTypeOK, BatchInv, Submit
  PROVE  BatchInv'
  <1> USE DEF BatchTypeOK, BatchInv
  <1> DEFINE s == First(entries)
  <1>1. at = "submit" /\ ~failed /\ Busy < Concurrency /\ s \in entries /\ s \in Sessions
    BY FirstIn DEF Submit, MaySubmit
  <1>2. /\ UNCHANGED <<evidence, lines, retirement, resident, recovered, due, ended, done>>
        /\ UNCHANGED <<job, failed, ran, sent, deaths>>
    BY DEF Submit, history
  <1>3. \/ running' = running \cup {s} /\ entries' = entries \ {s} /\ UNCHANGED at
        \/ at' = "raise" /\ UNCHANGED <<running, entries>>
    BY DEF Submit
  <1> HIDE DEF s
  <1>4. Recorded' = Recorded /\ LinesOnce'
    BY <1>2, SameRecorded
  <1>5. Lasting'
    BY <1>2, <1>4 DEF Lasting, Complete
  <1>6. done = {} /\ job = NoJob /\ recovered = {} /\ due = {}
    BY <1>1 DEF Placed
  <1>7. Placed' /\ JobStands'
    BY <1>1, <1>2, <1>3, <1>6 DEF Placed, JobStands
  <1>8. evidence[s] = "none" /\ s \notin running \cup ended \cup done /\ s \notin Recorded
    <2>1. evidence[s] = "none" /\ s \notin running \cup ended \cup done
      BY <1>1 DEF Apart
    <2> QED
      BY <1>1, <2>1 DEF Lasting, Complete
  <1>9. Apart'
    BY <1>1, <1>2, <1>3, <1>4, <1>6, <1>8 DEF Apart, Unrecorded, Complete
  <1>10. RetireCompleted => Cardinality(resident' \cup running') <= Concurrency
    <2> SUFFICES ASSUME RetireCompleted PROVE Cardinality(resident' \cup running') <= Concurrency
      OBVIOUS
    <2>1. resident \subseteq running \cup ended
      BY <1>1, <1>6 DEF ResidentKnown, JobOn
    <2>2. IsFiniteSet(running \cup ended)
      BY FS_Subset
    <2>3. IsFiniteSet((running \cup ended) \cup {s})
          /\ Cardinality((running \cup ended) \cup {s}) <= Cardinality(running \cup ended) + 1
      <3>1. s \notin running \cup ended
        BY <1>8
      <3>2. /\ IsFiniteSet((running \cup ended) \cup {s})
            /\ Cardinality((running \cup ended) \cup {s}) = Cardinality(running \cup ended) + 1
        BY <2>2, <3>1, FS_AddElement
      <3>3. Cardinality(running \cup ended) \in Nat
        BY <2>2, FS_CardinalityType
      <3> QED
        BY <3>2, <3>3
    <2>4. resident' \cup running' \subseteq (running \cup ended) \cup {s}
      BY <1>2, <1>3, <2>1
    <2>5. /\ Cardinality(resident' \cup running') <= Cardinality((running \cup ended) \cup {s})
          /\ Cardinality(resident' \cup running') \in Nat
          /\ Cardinality((running \cup ended) \cup {s}) \in Nat
      BY <2>3, <2>4, FS_Subset, FS_CardinalityType
    <2>6. Cardinality(running \cup ended) \in Nat /\ Cardinality(running \cup ended) < Concurrency
      BY <1>1, <2>2, FS_CardinalityType DEF Busy
    <2> QED
      BY <2>3, <2>5, <2>6, PlacesType
  <1>11. ResidentKnown'
    BY <1>1, <1>2, <1>3, <1>6, <1>10 DEF ResidentKnown, JobOn
  <1>12. Covered'
    BY <1>1, <1>2, <1>3, <1>4, <1>6 DEF Covered, JobOn, Unrecorded
  <1> QED
    BY <1>4, <1>5, <1>7, <1>9, <1>11, <1>12

\* The loop of the batch goes round, or the batch returns.
LEMMA BatchLoop ==
  ASSUME BatchTypeOK, BatchInv, Refilled \/ Wait \/ Settled \/ Escape \/ BatchDies
  PROVE  BatchInv'
  <1> USE DEF BatchTypeOK, BatchInv
  <1>1. /\ UNCHANGED <<intents, evidence, lines, retirement, resident, recovered, due, entries>>
        /\ UNCHANGED <<failed, ran, sent>> /\ running' \subseteq running
    BY DEF Refilled, Wait, Settled, Escape, BatchDies, disk,
       plan, pool, history
  <1>2. Recorded' = Recorded /\ LinesOnce'
    BY <1>1, SameRecorded
  <1>3. Lasting'
    BY <1>1, <1>2 DEF Lasting, Complete
  <1>4. RetireCompleted => Cardinality(resident' \cup running') <= Concurrency
    BY <1>1, FewerResident
  <1>5. CASE Refilled
    <2>1. at = "submit" /\ UNCHANGED <<running, ended, done, job>> /\ job = NoJob /\ done = {}
      BY <1>5 DEF Refilled, pool, Placed
    <2>2. \/ at' = "wait"
          \/ at' = "down" /\ running = {} /\ ended = {}
      <3>1. IsFiniteSet(running \cup ended)
        BY FS_Subset
      <3>2. Cardinality(running \cup ended) = 0 => running \cup ended = {}
        BY <3>1, FS_EmptySet
      <3> QED
        BY <1>5, <3>2 DEF Refilled, Busy
    <2>3. Placed' /\ JobStands'
      BY <1>1, <2>1, <2>2 DEF Placed, JobStands
    <2>4. Apart'
      BY <1>1, <1>2, <2>1, <2>2 DEF Apart, Unrecorded, Complete
    <2>5. ResidentKnown'
      BY <1>1, <1>4, <2>1, <2>2 DEF ResidentKnown, JobOn
    <2>6. Covered'
      BY <1>1, <1>2, <2>1, <2>2 DEF Covered, JobOn, Unrecorded
    <2> QED
      BY <1>2, <1>3, <2>3, <2>4, <2>5, <2>6
  <1>6. CASE Wait
    <2>1. /\ at = "wait" /\ at' = "settle" /\ done' = ended /\ ended' = {}
          /\ UNCHANGED <<running, job>> /\ job = NoJob /\ done = {}
      BY <1>6 DEF Wait, Placed
    <2>2. Unrecorded' = Unrecorded
      BY <1>1, <2>1 DEF Unrecorded
    <2>3. Placed' /\ JobStands'
      BY <1>1, <2>1 DEF Placed, JobStands
    <2>4. Apart'
      BY <1>1, <1>2, <2>1, <2>2 DEF Apart, Complete
    <2>5. ResidentKnown'
      BY <1>1, <1>4, <2>1 DEF ResidentKnown, JobOn
    <2>6. Covered'
      BY <1>1, <1>2, <2>1, <2>2 DEF Covered, JobOn
    <2> QED
      BY <1>2, <1>3, <2>3, <2>4, <2>5, <2>6
  <1>7. CASE Settled
    <2>1. /\ at = "settle" /\ at' = "submit" /\ UNCHANGED <<running, ended, done, job>>
          /\ job = NoJob /\ done = {}
      BY <1>7 DEF Settled, pool
    <2>3. Placed' /\ JobStands'
      BY <1>1, <2>1 DEF Placed, JobStands
    <2>4. Apart'
      BY <1>1, <1>2, <2>1 DEF Apart, Unrecorded, Complete
    <2>5. ResidentKnown'
      BY <1>1, <1>4, <2>1 DEF ResidentKnown, JobOn
    <2>6. Covered'
      BY <1>1, <1>2, <2>1 DEF Covered, JobOn, Unrecorded
    <2> QED
      BY <1>2, <1>3, <2>3, <2>4, <2>5, <2>6
  <1>8. CASE Escape \/ BatchDies
    <2>1. /\ at' = "down" /\ running' = {} /\ ended' = {} /\ done' = {} /\ job' = NoJob
      BY <1>8 DEF Escape, BatchDies, Placed
    <2>3. Placed' /\ JobStands'
      BY <1>1, <2>1 DEF Placed, JobStands
    <2>4. Apart'
      BY <1>1, <1>2, <2>1 DEF Apart, Unrecorded, Complete
    <2>5. ResidentKnown'
      BY <1>1, <1>4, <2>1 DEF ResidentKnown, JobOn
    <2>6. Covered'
      BY <1>1, <1>2, <2>1 DEF Covered, JobOn, Unrecorded
    <2> QED
      BY <1>2, <1>3, <2>3, <2>4, <2>5, <2>6
  <1> QED
    BY <1>5, <1>6, <1>7, <1>8

\* A pool thread takes up its session, which nobody ran before.
LEMMA BatchBegin ==
  ASSUME BatchTypeOK, BatchInv, NEW s \in Sessions, Begin(s)
  PROVE  BatchInv'
  <1> USE DEF BatchTypeOK, BatchInv
  <1>1. /\ s \in running /\ evidence[s] = "none" /\ evidence'[s] = "unfinished"
        /\ \A t \in Sessions : t # s => evidence'[t] = evidence[t] /\ ran'[t] = ran[t]
        /\ resident' \in {resident, resident \cup {s}}
        /\ ran'[s] = ran[s] + 1
    BY DEF Begin
  <1>2. /\ UNCHANGED <<intents, lines, retirement, at, recovered, due, entries>>
        /\ UNCHANGED <<running, ended, done, job, failed, sent, deaths>>
    BY DEF Begin, plan, pool
  <1>3. Recorded' = Recorded /\ LinesOnce'
    BY <1>2, SameRecorded
  <1>4. /\ ran[s] = 0 /\ s \notin Recorded /\ s \notin recovered
        /\ \A t \in Sessions : Complete(t) => Complete(t)'
    <2>1. ran[s] \in Nat /\ ~ (ran[s] > 0) /\ ~ Complete(s)
      BY <1>1 DEF Lasting, Complete
    <2>2. s \notin Recorded /\ s \notin recovered
      BY <2>1 DEF Lasting, Apart
    <2>3. \A t \in Sessions : Complete(t) => Complete(t)'
      BY <1>1, <2>1 DEF Complete
    <2> QED
      BY <2>1, <2>2, <2>3
  <1>5. Lasting'
    <2> SUFFICES ASSUME NEW t \in Sessions
                 PROVE  /\ ran'[t] <= 1
                        /\ ran'[t] > 0 \/ t \in resident' => evidence'[t] # "none"
                        /\ t \in Recorded' => Complete(t)'
                        /\ "response" \in retirement'[t] => t \notin resident'
      BY <1>2, <1>3 DEF Lasting
    <2>1. CASE t # s
      BY <1>1, <1>2, <1>3, <1>4, <2>1 DEF Lasting
    <2>2. CASE t = s
      <3>1. retirement[s] = {}
        BY <1>4 DEF Lasting
      <3> QED
        BY <1>1, <1>2, <1>3, <1>4, <2>2, <3>1
    <2> QED
      BY <2>1, <2>2
  <1>6. Placed'
    BY <1>2 DEF Placed
  <1>7. Apart'
    <2>1. Unrecorded' = Unrecorded
      BY <1>2 DEF Unrecorded
    <2>2. \A t \in recovered' : Complete(t)'
      BY <1>2, <1>4 DEF Apart
    <2>3. at' \in {"recover", "submit", "wait", "settle"} => \A t \in entries' : evidence'[t] = "none"
      BY <1>1, <1>2 DEF Apart
    <2> QED
      BY <1>2, <1>3, <2>1, <2>2, <2>3 DEF Apart
  <1>8. JobStands'
    <2>1. Unrecorded' = Unrecorded
      BY <1>2 DEF Unrecorded
    <2>2. job # NoJob => job.session \in Sessions /\ job.session # s
      BY <1>1 DEF JobStands, Complete
    <2>3. job # NoJob => Complete(job.session)'
      <3>1. job # NoJob => Complete(job.session)
        BY DEF JobStands
      <3> QED
        BY <1>1, <1>2, <2>2, <3>1 DEF Complete
    <2> QED
      BY <1>1, <1>2, <1>3, <2>1, <2>2, <2>3 DEF JobStands
  <1>9. ResidentKnown'
    <2>1. RetireCompleted => Cardinality(resident' \cup running') <= Concurrency
      BY <1>1, <1>2, FewerResident
    <2>2. at # "recover"
      BY <1>1 DEF Placed
    <2> QED
      BY <1>1, <1>2, <2>1, <2>2 DEF ResidentKnown, JobOn
  <1>10. Covered'
    BY <1>2, <1>3 DEF Covered, JobOn, Unrecorded
  <1> QED
    BY <1>3, <1>5, <1>6, <1>7, <1>8, <1>9, <1>10

\* A search is over, whatever evidence it leaves.
LEMMA BatchEnd ==
  ASSUME BatchTypeOK, BatchInv, NEW s \in Sessions, End(s)
  PROVE  BatchInv'
  <1> USE DEF BatchTypeOK, BatchInv
  <1>1. /\ s \in running /\ evidence[s] = "unfinished" /\ evidence'[s] # "none"
        /\ \A t \in Sessions : t # s => evidence'[t] = evidence[t]
        /\ running' = running \ {s} /\ ended' = ended \cup {s}
    BY DEF End
  <1>2. /\ UNCHANGED <<intents, lines, retirement, resident, at, recovered, due, entries>>
        /\ UNCHANGED <<done, job, failed, ran, sent, deaths>>
    BY DEF End, plan, history
  <1>3. Recorded' = Recorded /\ LinesOnce'
    BY <1>2, SameRecorded
  <1>4. ~ Complete(s) /\ \A t \in Sessions : Complete(t) => Complete(t)'
    BY <1>1 DEF Complete
  <1>5. Lasting'
    <2> SUFFICES ASSUME NEW t \in Sessions
                 PROVE  /\ ran'[t] > 0 \/ t \in resident' => evidence'[t] # "none"
                        /\ t \in Recorded' => Complete(t)'
      BY <1>2, <1>3 DEF Lasting
    <2> QED
      BY <1>1, <1>2, <1>3, <1>4 DEF Lasting
  <1>6. at \notin {"down", "recover"}
    BY <1>1 DEF Placed
  <1>7. Placed'
    BY <1>1, <1>2, <1>6 DEF Placed
  <1>8. Unrecorded' = Unrecorded
    BY <1>1, <1>2 DEF Unrecorded
  <1>9. Apart'
    <2>1. \A t \in recovered' : Complete(t)'
      BY <1>2, <1>4 DEF Apart
    <2>2. at' \in {"recover", "submit", "wait", "settle"} =>
            \A t \in entries' : evidence'[t] = "none" /\ t \notin running' \cup ended' \cup done'
      BY <1>1, <1>2 DEF Apart
    <2>3. running' \cap ended' = {} /\ running' \cap done' = {} /\ ended' \cap done' = {}
      BY <1>1, <1>2 DEF Apart
    <2> QED
      BY <1>2, <1>3, <1>8, <2>1, <2>2, <2>3 DEF Apart
  <1>10. JobStands'
    <2>2. job # NoJob => job.session \in Sessions /\ job.session # s
      BY <1>4 DEF JobStands
    <2>3. job # NoJob => Complete(job.session)'
      <3>1. job # NoJob => Complete(job.session)
        BY DEF JobStands
      <3> QED
        BY <1>1, <1>2, <2>2, <3>1 DEF Complete
    <2> QED
      BY <1>1, <1>2, <1>3, <1>8, <2>2, <2>3 DEF JobStands
  <1>11. ResidentKnown'
    <2>1. RetireCompleted => Cardinality(resident' \cup running') <= Concurrency
      BY <1>1, <1>2, FewerResident
    <2> QED
      BY <1>1, <1>2, <1>6, <2>1 DEF ResidentKnown, JobOn
  <1>12. Covered'
    BY <1>2, <1>3, <1>6, <1>8 DEF Covered, JobOn
  <1> QED
    BY <1>3, <1>5, <1>7, <1>9, <1>10, <1>11, <1>12

\* A session that is over is settled, or counted as a failure.
LEMMA BatchSettle ==
  ASSUME BatchTypeOK, BatchInv, NEW s \in Sessions, Settle(s)
  PROVE  BatchInv'
  <1> USE DEF BatchTypeOK, BatchInv
  <1>1. /\ UNCHANGED <<intents, evidence, lines, retirement, resident, at, recovered, due, entries>>
        /\ UNCHANGED <<running, ended, ran, sent, deaths>>
        /\ at = "settle" /\ job = NoJob /\ s \in done /\ done' = done \ {s}
    BY DEF Settle, disk, plan, history
  <1>2. Recorded' = Recorded /\ LinesOnce'
    BY <1>1, SameRecorded
  <1>3. Lasting'
    BY <1>1, <1>2 DEF Lasting, Complete
  <1>4. RetireCompleted => Cardinality(resident' \cup running') <= Concurrency
    BY <1>1, FewerResident
  <1>5. recovered = {} /\ due = {}
    BY <1>1 DEF Placed
  <1>6. Placed'
    BY <1>1, <1>5 DEF Placed
  <1>7. Apart'
    BY <1>1, <1>2 DEF Apart, Unrecorded, Complete
  <1>8. CASE Complete(s) /\ job' = [session |-> s, step |-> "append"] /\ UNCHANGED failed
    <2>1. job' # NoJob /\ job'.session = s /\ job'.step = "append"
      <3>1. job' \in [session: Sessions, step: RecordSteps]
        BY <1>8 DEF RecordSteps
      <3> QED
        BY <1>8, <3>1, BatchAssumption
    <2>2. s \notin Recorded /\ s \notin Unrecorded'
      BY <1>1, <1>5 DEF Apart, Unrecorded
    <2>3. JobStands'
      BY <1>1, <1>2, <1>8, <2>1, <2>2 DEF JobStands, Complete
    <2>4. ResidentKnown'
      BY <1>1, <1>4, <1>8, <2>1 DEF ResidentKnown, JobOn
    <2>5. Covered'
      BY <1>1, <1>2, <1>5, <1>8, <2>1 DEF Covered, JobOn, Unrecorded
    <2> QED
      BY <1>2, <1>3, <1>6, <1>7, <2>3, <2>4, <2>5
  <1>9. CASE failed' = TRUE /\ UNCHANGED job
    <2>1. JobStands'
      BY <1>1, <1>9 DEF JobStands
    <2>2. ResidentKnown'
      BY <1>1, <1>4, <1>9 DEF ResidentKnown
    <2>3. Covered'
      BY <1>1, <1>9 DEF Covered
    <2> QED
      BY <1>2, <1>3, <1>6, <1>7, <2>1, <2>2, <2>3
  <1> QED
    BY <1>8, <1>9 DEF Settle

\* The invariant holds before the batch was ever started.
LEMMA BatchInitial == ASSUME BatchInit PROVE BatchTypeOK /\ BatchInv
  <1> USE DEF BatchInit
  <1>1. Recorded = {}
    BY DEF Recorded
  <1>2. IsFiniteSet({}) /\ Cardinality({}) = 0
    BY FS_EmptySet
  <1>3. resident \cup running \cup ended = {} /\ resident \cup running = {}
    OBVIOUS
  <1>4. BatchTypeOK
    <2>1. lines \in Seq(Sessions) /\ job \in [session: Sessions, step: RecordSteps] \cup {NoJob}
      OBVIOUS
    <2>2. /\ evidence \in [Sessions -> {"none", "unfinished", "solved", "exhausted"}]
          /\ retirement \in [Sessions -> SUBSET Retirement]
          /\ ran \in [Sessions -> Nat] /\ sent \in [Sessions -> Nat]
      OBVIOUS
    <2>3. IsFiniteSet(Recorded) /\ IsFiniteSet(resident \cup running \cup ended)
      BY <1>1, <1>2, <1>3
    <2>4. /\ intents \subseteq Sessions /\ resident \subseteq Sessions
          /\ at \in {"down", "recover", "submit", "wait", "settle", "raise"}
          /\ recovered \subseteq Sessions /\ due \subseteq Sessions /\ entries \subseteq Sessions
          /\ running \subseteq Sessions /\ ended \subseteq Sessions /\ done \subseteq Sessions
          /\ failed \in BOOLEAN /\ deaths \in Nat
      OBVIOUS
    <2> QED
      BY <2>1, <2>2, <2>3, <2>4 DEF BatchTypeOK
  <1>5. Placed /\ Lasting /\ JobStands /\ LinesOnce
    BY <1>1, <1>2 DEF Placed, Lasting, JobStands, LinesOnce
  <1>6. Apart /\ Covered
    BY <1>1 DEF Apart, Unrecorded, Covered
  <1>7. ResidentKnown
    BY <1>2, <1>3, BatchAssumption DEF ResidentKnown
  <1> QED
    BY <1>4, <1>5, <1>6, <1>7 DEF BatchInv

\* Every step of the batch, of its pool and of its deaths keeps the invariant.
LEMMA BatchStep ==
  ASSUME BatchTypeOK, BatchInv, [BatchNext]_batchVars
  PROVE  BatchInv'
  <1>1. CASE Start
    BY <1>1, BatchStart
  <1>2. CASE Recover
    BY <1>2, BatchRecover
  <1>3. CASE SaveRecord
    BY <1>3, BatchAppend, BatchCall, BatchWrite DEF SaveRecord
  <1>4. CASE Submit
    BY <1>4, BatchSubmit
  <1>5. CASE Refilled \/ Wait \/ Settled \/ Escape \/ BatchDies
    BY <1>5, BatchLoop
  <1>6. CASE \E s \in Sessions : Begin(s) \/ End(s) \/ Settle(s)
    BY <1>6, BatchBegin, BatchEnd, BatchSettle
  <1>7. CASE UNCHANGED batchVars
    <2>1. /\ UNCHANGED <<evidence, lines, retirement, resident, at, recovered, due, entries>>
          /\ UNCHANGED <<running, ended, done, job, failed, ran, sent>>
      BY <1>7 DEF batchVars, disk, plan, pool, history
    <2>2. Recorded' = Recorded /\ LinesOnce'
      BY <2>1, SameRecorded DEF BatchInv
    <2>3. Placed' /\ Lasting' /\ Apart'
      BY <2>1, <2>2 DEF BatchInv, Placed, Lasting, Apart, Unrecorded, Complete
    <2>4. JobStands' /\ ResidentKnown' /\ Covered'
      BY <2>1, <2>2 DEF BatchInv, JobStands, ResidentKnown, Covered, Unrecorded,
         Complete, JobOn
    <2> QED
      BY <2>2, <2>3, <2>4 DEF BatchInv
  <1> QED
    BY <1>1, <1>2, <1>3, <1>4, <1>5, <1>6, <1>7 DEF BatchNext, Step

\* In every life of the batch.
LEMMA BatchAlways == BatchSpec => [](BatchTypeOK /\ BatchInv)
  <1>1. BatchInit => BatchTypeOK /\ BatchInv
    BY BatchInitial
  <1>2. (BatchTypeOK /\ BatchInv) /\ [BatchNext]_batchVars => (BatchTypeOK /\ BatchInv)'
    BY BatchTyped, BatchStep
  <1> QED
    BY <1>1, <1>2, PTL DEF BatchSpec

\* What a batch does outside itself is bounded, over failures, lost answers and
\* all its lives: it holds no more sessions on the GPU than it has places, executes
\* no session twice, sends no retirement twice, and gives a session up only with
\* its result complete and its line written, once.
THEOREM BatchEffects == BatchSpec => []BatchEffectsBounded
  <1>1. ASSUME BatchTypeOK, BatchInv PROVE BatchEffectsBounded
    <2>1. SessionsWithinConcurrency
      <3> SUFFICES ASSUME RetireCompleted PROVE Cardinality(resident) <= Concurrency
        BY DEF SessionsWithinConcurrency
      <3>1. resident \subseteq resident \cup running /\ IsFiniteSet(resident \cup running)
        BY <1>1, FS_Subset DEF BatchTypeOK
      <3>2. /\ Cardinality(resident) <= Cardinality(resident \cup running)
            /\ Cardinality(resident) \in Nat /\ Cardinality(resident \cup running) \in Nat
        BY <3>1, FS_Subset, FS_CardinalityType
      <3> QED
        BY <1>1, <3>2, BatchAssumption DEF BatchInv, ResidentKnown
    <2>2. \A s \in Sessions : ran[s] <= 1 /\ sent[s] <= 1 /\ (sent[s] > 0 => s \in Recorded)
      BY <1>1 DEF BatchInv, Lasting
    <2>3. Recorded \subseteq Sessions
      BY <1>1 DEF BatchTypeOK, Recorded
    <2>4. \A s \in Recorded : Complete(s)
      BY <1>1, <2>3 DEF BatchInv, Lasting
    <2> QED
      BY <1>1, <2>1, <2>2, <2>4 DEF BatchEffectsBounded,
         RetiredOnceRecorded, BatchInv, LinesOnce
  <1> QED
    BY <1>1, BatchAlways, PTL

\* A run that returns without failures has a line for every session of the batch,
\* those it found complete included, and with retirement it leaves none on the GPU.
THEOREM BatchRuns == BatchSpec => CleanRunIsComplete
  <1>1. ASSUME BatchTypeOK, BatchInv, [BatchNext]_batchVars
        PROVE  [at = "submit" /\ at' = "down" /\ ~failed /\ deaths' = deaths
                  => Sessions \subseteq Recorded /\ (RetireCompleted => resident = {})]_batchVars
    <2> SUFFICES ASSUME BatchNext, at = "submit", at' = "down", ~failed, deaths' = deaths
                 PROVE  Sessions \subseteq Recorded /\ (RetireCompleted => resident = {})
      BY <1>1
    <2>1. job = NoJob /\ done = {} /\ recovered = {}
      BY <1>1 DEF BatchInv, Placed
    <2>2. Refilled
      <3>1. deaths \in Nat
        BY <1>1 DEF BatchTypeOK
      <3> QED
        BY <2>1, <3>1 DEF BatchNext, Step, Start, Recover, SaveRecord,
           AppendLine, CallRetire, WriteRetirement,
              On, Submit, Wait, Settled, Escape, Begin, End, Settle, BatchDies
    <2>3. running \cup ended = {}
      <3>1. IsFiniteSet(running \cup ended)
        BY <1>1, FS_Subset DEF BatchTypeOK
      <3>2. Cardinality(running \cup ended) = 0
        BY <2>2 DEF Refilled, Busy
      <3> QED
        BY <3>1, <3>2, FS_EmptySet
    <2>4. entries = {}
      BY <2>2, <2>3, FS_EmptySet, BatchAssumption DEF Refilled, MaySubmit, Busy
    <2> QED
      BY <1>1, <2>1, <2>3, <2>4 DEF BatchInv, Covered, ResidentKnown, JobOn, Unrecorded
  <1> QED
    BY <1>1, BatchAlways, PTL DEF BatchSpec, CleanRunIsComplete

=============================================================================
