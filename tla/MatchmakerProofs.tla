--------------------------- MODULE MatchmakerProofs ---------------------------
(* Theorems about Matchmaker for every curriculum and configuration, and   *)
(* about ReleasedAttempts, which composes it with the provider of          *)
(* releases and the learner.                                               *)
EXTENDS ReleasedAttempts, FiniteSetTheorems, WellFoundedInduction, TLAPS

-----------------------------------------------------------------------------
(* Facts about the pure operators.                                         *)

\* The budget of a problem lies between base_steps and cap_steps.
LEMMA BudgetRange == ASSUME NEW p PROVE Budget(p) \in BaseSteps..CapSteps
  BY ConfigAssumption DEF Budget

\* A proposal that validation accepts is for a candidate, fits the remaining
\* budget and the free slots, and carries the next sequence number and the head.
LEMMA ValidIntent ==
  ASSUME NEW q \in Proposal, ValidEvent(Intent(q))
  PROVE  /\ q.problem \in Candidates
         /\ ~Blocked
         /\ Cardinality(PendingProblems) < MaxInflight
         /\ q.attempt = Sequence /\ Sequence <= MaxAttempts
         /\ q.budget = Budget(q.problem)
  BY DEF ValidEvent, Intent, Plan, ProposalFor, Chosen, Proposal

\* What planning returns is a well-formed proposal.
LEMMA PlanType ==
  ASSUME TypeOK, NEW r \in Releases, NEW q \in Plan(r)
  PROVE  q \in Proposal
  <1>1. PICK p \in Problems : q = ProposalFor(p, r) /\ Sequence <= MaxAttempts
    BY DEF Plan
  <1>2. Sequence \in 1..MaxAttempts
    BY <1>1 DEF TypeOK, Sequence
  <1>3. Polarity[p][Sequence] \in Polarities
    <2>1. Polarity[p] \in [1..MaxAttempts -> Polarities]
      BY CurriculumAssumption
    <2> QED
      BY <1>2, <2>1
  <1> QED
    BY <1>1, <1>2, <1>3, BudgetRange DEF TypeOK, ProposalFor, Proposal

\* A valid result is the first one of an attempt in flight.
LEMMA ValidResult ==
  ASSUME NEW a, NEW o, ValidEvent(Result(a, o))
  PROVE  a \in Pending /\ o \in Outcomes
  BY DEF ValidEvent, Result

\* Incrementing one counter of an array of counters keeps its type.
LEMMA IncrementType ==
  ASSUME NEW S, NEW f \in [S -> Nat], NEW x \in S
  PROVE  [f EXCEPT ![x] = @ + 1] \in [S -> Nat]
  OBVIOUS

-----------------------------------------------------------------------------
(* Type correctness.                                                       *)

\* Linking an event keeps the types of the log and of the fairness counter.
LEMMA LinkedType ==
  ASSUME TypeOK, NEW e \in Event, Linked(e)
  PROVE  events' \in Seq(Event) /\ passed' \in [Problems -> Nat]
  <1>1. events' \in Seq(Event)
    BY DEF TypeOK, Linked
  <1>2. passed' \in [Problems -> Nat]
    BY DEF TypeOK, Linked, PassedBy
  <1> QED
    BY <1>1, <1>2

MemoryType ==
    /\ attempts \in Seq(Proposal) /\ Len(attempts) <= MaxAttempts
    /\ results \in Seq(Outcomes \cup {None}) /\ Len(results) = Len(attempts)
    /\ history \in [Problems -> Seq({"accepted", "exhausted"})]
    /\ lastDispatch \in [Problems -> 0..MaxAttempts]
    /\ families \in [Families -> Verdicts \cup {None}]
    /\ disproved \subseteq Problems
    /\ reserved \in Nat
    /\ eventCount \in Nat

\* Applying a valid event keeps the types of the memory.
LEMMA ApplyType ==
  ASSUME TypeOK, NEW e \in Event, ValidEvent(e), Apply(e)
  PROVE  MemoryType'
  <1>0. eventCount' \in Nat
    BY DEF Apply, TypeOK
  <1>1. CASE e.kind = "intent" /\ ApplyIntent(e.proposal)
    <2>1. e.proposal \in Proposal
      BY <1>1 DEF Event
    <2>2. /\ e.proposal.problem \in Problems
          /\ e.proposal.attempt \in 1..MaxAttempts
          /\ e.proposal.budget \in Nat
      BY <2>1, ConfigAssumption DEF Proposal
    <2>3. Sequence <= MaxAttempts
      BY <1>1, <2>1, ValidIntent DEF ValidEvent, Intent, Plan
    <2>4. attempts' \in Seq(Proposal) /\ Len(attempts') <= MaxAttempts
      BY <1>1, <2>1, <2>3, ConfigAssumption DEF TypeOK, ApplyIntent, Sequence
    <2>5. results' \in Seq(Outcomes \cup {None}) /\ Len(results') = Len(attempts')
      BY <1>1, <2>1 DEF TypeOK, ApplyIntent
    <2>6. lastDispatch' \in [Problems -> 0..MaxAttempts]
      <3>1. e.proposal.attempt \in 0..MaxAttempts
        BY <2>2, ConfigAssumption
      <3>2. lastDispatch' = [lastDispatch EXCEPT ![e.proposal.problem] = e.proposal.attempt]
        BY <1>1 DEF ApplyIntent, DispatchDated
      <3> QED
        BY <3>1, <3>2 DEF TypeOK
    <2>7. reserved' \in Nat
      BY <1>1, <2>2 DEF TypeOK, ApplyIntent
    <2> QED
      BY <1>0, <1>1, <2>4, <2>5, <2>6, <2>7 DEF TypeOK, ApplyIntent, MemoryType
  <1>2. CASE e.kind = "result" /\ ApplyResult(e.attempt, e.outcome)
    <2>1. e.attempt \in DOMAIN results /\ e.outcome \in Outcomes
      BY <1>2 DEF ValidEvent, Pending
    <2>2. attempts[e.attempt] \in Proposal
      BY <2>1 DEF TypeOK
    <2>3. attempts[e.attempt].problem \in Problems
      BY <2>2 DEF Proposal
    <2>4. VerdictOf(attempts[e.attempt]) \in Verdicts
      BY DEF VerdictOf, Verdicts
    <2>5. results' \in Seq(Outcomes \cup {None}) /\ Len(results') = Len(attempts)
      BY <1>2, <2>1 DEF TypeOK, ApplyResult
    <2>6. history' \in [Problems -> Seq({"accepted", "exhausted"})]
      BY <1>2, <2>1, <2>3 DEF TypeOK, ApplyResult, Outcomes, Known
    <2>7. families' \in [Families -> Verdicts \cup {None}]
      BY <1>2, <2>3, <2>4 DEF TypeOK, ApplyResult
    <2>8. disproved' \subseteq Problems
      BY <1>2, <2>3 DEF TypeOK, ApplyResult
    <2> QED
      BY <1>0, <1>2, <2>5, <2>6, <2>7, <2>8 DEF TypeOK, ApplyResult, MemoryType
  <1> QED
    BY <1>1, <1>2 DEF Apply

\* The intent of a proposal and the result of an attempt are events.
LEMMA EventTypes ==
  /\ \A q \in Proposal : Intent(q) \in Event
  /\ \A a \in 1..MaxAttempts, o \in Outcomes : Result(a, o) \in Event
  BY DEF Intent, Result, Event

\* Every variable keeps its type (runs Matchmaker).
THEOREM TypeCorrect == Spec => []TypeOK
  <1>1. Init => TypeOK
    BY ConfigAssumption DEF Init, InitialMemory, TypeOK
  <1>2. TypeOK /\ [Next]_vars => TypeOK'
    <2> SUFFICES ASSUME TypeOK, [Next]_vars PROVE TypeOK'
      OBVIOUS
    <2> USE DEF TypeOK
    <2>1. ASSUME NEW c \in Callers, NEW r \in Releases, PlanNext(c, r)
          PROVE  TypeOK'
      BY <2>1, PlanType DEF PlanNext, memory
    <2>2. ASSUME NEW c \in Callers, Reserve(c)
          PROVE  TypeOK'
      <3>1. held[c] \in Proposal
        BY <2>2 DEF Reserve
      <3>2. Intent(held[c]) \in Event /\ held[c].attempt \in 1..MaxAttempts
        BY <3>1, EventTypes DEF Proposal
      <3>a. held' \in [Callers -> Proposal \cup {None}] /\ recovered' \subseteq 1..MaxAttempts
        BY <2>2 DEF Reserve
      <3>b. mine' \subseteq 1..MaxAttempts /\ sent' \in [1..MaxAttempts -> Nat]
        <4>1. \/ UNCHANGED <<mine, sent>>
              \/ /\ mine' = mine \cup {held[c].attempt}
                 /\ sent' = [sent EXCEPT ![held[c].attempt] = @ + 1]
          BY <2>2 DEF Reserve
        <4>2. mine' \subseteq 1..MaxAttempts
          BY <3>2, <4>1
        <4>3. sent' \in [1..MaxAttempts -> Nat]
          <5>1. sent \in [1..MaxAttempts -> Nat]
            OBVIOUS
          <5>2. [sent EXCEPT ![held[c].attempt] = @ + 1] \in [1..MaxAttempts -> Nat]
            BY <3>2, <5>1, IncrementType
          <5> QED
            BY <4>1, <5>1, <5>2
        <4> QED
          BY <4>2, <4>3
      <3>3. CASE Published(Intent(held[c]))
        <4>1. MemoryType'
          BY <2>2, <3>2, <3>3, ApplyType DEF Reserve, Published
        <4> QED
          BY <3>2, <3>3, <3>a, <3>b, <4>1, LinkedType DEF Published, MemoryType
      <3>4. CASE PublishFails(Intent(held[c]))
        BY <3>2, <3>4, <3>a, <3>b, LinkedType DEF PublishFails, memory
      <3> QED
        BY <2>2, <3>3, <3>4 DEF Reserve
    <2>3. ASSUME NEW c \in Callers, ReserveStale(c)
          PROVE  TypeOK'
      BY <2>3 DEF ReserveStale, memory
    <2>4. ASSUME NEW a \in 1..MaxAttempts, NEW o \in Outcomes, RecordResult(a, o)
          PROVE  TypeOK'
      <3>1. Result(a, o) \in Event
        BY EventTypes
      <3>2. CASE Published(Result(a, o)) /\ recovered' = recovered \ {a}
        <4>1. MemoryType'
          BY <2>4, <3>1, <3>2, ApplyType DEF RecordResult, Published
        <4> QED
          BY <2>4, <3>1, <3>2, <4>1, LinkedType DEF RecordResult, Published, MemoryType
      <3>3. CASE PublishFails(Result(a, o)) /\ UNCHANGED recovered
        BY <2>4, <3>1, <3>3, LinkedType DEF RecordResult, PublishFails, memory
      <3> QED
        BY <2>4, <3>2, <3>3 DEF RecordResult
    <2>5. CASE Stop
      BY <2>5, ConfigAssumption DEF Stop
    <2>6. CASE Open
      BY <2>6 DEF Open, memory
    <2>7. CASE ReplayEvent
      <3>1. events[eventCount + 1] \in Event
        BY <2>7 DEF ReplayEvent
      <3>2. MemoryType'
        BY <2>7, <3>1, ApplyType DEF ReplayEvent
      <3> QED
        BY <2>7, <3>2 DEF ReplayEvent, MemoryType
    <2>8. CASE FinishOpen
      <3>1. Pending \subseteq 1..MaxAttempts
        BY ConfigAssumption DEF Pending
      <3> QED
        BY <2>8, <3>1 DEF FinishOpen, memory
    <2>9. CASE UNCHANGED vars
      BY <2>9 DEF vars, memory
    <2> QED
      BY <2>1, <2>2, <2>3, <2>4, <2>5, <2>6, <2>7, <2>8, <2>9 DEF Next
  <1> QED
    BY <1>1, <1>2, PTL DEF Spec

-----------------------------------------------------------------------------
(* How a step changes the memory: not at all, to that of a fresh process,  *)
(* or by one valid event.  The safety proofs split on these three cases.   *)

\* A step of the specification leaves the memory, resets it, or applies to it
\* one event that was valid in it.
LEMMA MemoryStep ==
  ASSUME TypeOK, [Next]_vars
  PROVE  \/ UNCHANGED memory
         \/ InitialMemory'
         \/ \E e \in Event : ValidEvent(e) /\ Apply(e)
  <1>1. ASSUME NEW c \in Callers, NEW r \in Releases, PlanNext(c, r)
        PROVE  UNCHANGED memory
    BY <1>1 DEF PlanNext
  <1>2. ASSUME NEW c \in Callers, Reserve(c)
        PROVE  UNCHANGED memory \/ \E e \in Event : ValidEvent(e) /\ Apply(e)
    <2>1. Intent(held[c]) \in Event
      BY <1>2, EventTypes DEF Reserve, TypeOK
    <2> QED
      BY <1>2, <2>1 DEF Reserve, Published, PublishFails
  <1>3. ASSUME NEW c \in Callers, ReserveStale(c)
        PROVE  UNCHANGED memory
    BY <1>3 DEF ReserveStale
  <1>4. ASSUME NEW a \in 1..MaxAttempts, NEW o \in Outcomes, RecordResult(a, o)
        PROVE  UNCHANGED memory \/ \E e \in Event : ValidEvent(e) /\ Apply(e)
    BY <1>4, EventTypes DEF RecordResult, Published, PublishFails
  <1>5. CASE Stop
    BY <1>5 DEF Stop, InitialMemory
  <1>6. CASE Open
    BY <1>6 DEF Open
  <1>7. CASE ReplayEvent
    <2>1. events[eventCount + 1] \in Event
      BY <1>7 DEF ReplayEvent, TypeOK
    <2> QED
      BY <1>7, <2>1 DEF ReplayEvent
  <1>8. CASE FinishOpen
    BY <1>8 DEF FinishOpen
  <1>9. CASE UNCHANGED vars
    BY <1>9 DEF vars
  <1> QED
    BY <1>1, <1>2, <1>3, <1>4, <1>5, <1>6, <1>7, <1>8, <1>9 DEF Next

\* A valid event is a valid intent or a valid result, with the effect of its kind.
LEMMA ApplyCases ==
  ASSUME NEW e \in Event, ValidEvent(e), Apply(e)
  PROVE  \/ \E q \in Proposal : ValidEvent(Intent(q)) /\ ApplyIntent(q)
         \/ \E a \in Pending, o \in Outcomes : ApplyResult(a, o)
  <1>1. CASE e.kind = "intent" /\ ApplyIntent(e.proposal)
    <2>1. e.proposal \in Proposal
      BY <1>1 DEF Event
    <2>2. ValidEvent(Intent(e.proposal))
      BY <1>1 DEF ValidEvent, Intent
    <2> QED
      BY <1>1, <2>1, <2>2
  <1>2. CASE e.kind = "result" /\ ApplyResult(e.attempt, e.outcome)
    BY <1>2 DEF ValidEvent
  <1> QED
    BY <1>1, <1>2 DEF Apply

-----------------------------------------------------------------------------
(* The budget.                                                             *)

\* The reserved budget stays within total_steps whatever is reserved, lost,
\* replayed or reconciled (run Matchmaker).
THEOREM BudgetNeverExceeded == Spec => []BudgetBounded
  <1>1. Init => BudgetBounded
    BY ConfigAssumption DEF Init, InitialMemory, BudgetBounded
  <1>2. TypeOK /\ BudgetBounded /\ [Next]_vars => BudgetBounded'
    <2> SUFFICES ASSUME TypeOK, BudgetBounded, [Next]_vars PROVE BudgetBounded'
      OBVIOUS
    <2>1. CASE UNCHANGED memory
      BY <2>1 DEF memory, BudgetBounded
    <2>2. CASE InitialMemory'
      BY <2>2, ConfigAssumption DEF InitialMemory, BudgetBounded
    <2>3. ASSUME NEW q \in Proposal, ValidEvent(Intent(q)), ApplyIntent(q)
          PROVE  BudgetBounded'
      BY <2>3, ValidIntent DEF ApplyIntent, Candidates, Affordable, BudgetBounded
    <2>4. ASSUME NEW a \in Pending, NEW o \in Outcomes, ApplyResult(a, o)
          PROVE  BudgetBounded'
      BY <2>4 DEF ApplyResult, BudgetBounded
    <2> QED
      BY <2>1, <2>2, <2>3, <2>4, MemoryStep, ApplyCases
  <1> QED
    BY <1>1, <1>2, TypeCorrect, PTL DEF Spec

-----------------------------------------------------------------------------
(* The attempts in flight.                                                 *)

\* The problems in flight are finitely many.
LEMMA PendingFinite ==
  ASSUME TypeOK
  PROVE  IsFiniteSet(PendingProblems) /\ Cardinality(PendingProblems) \in Nat
  <1>1. \A a \in Pending : attempts[a] \in Proposal
    BY DEF TypeOK, Pending
  <1>2. \A q \in Proposal : q.problem \in Problems
    BY DEF Proposal
  <1>3. PendingProblems \subseteq Problems
    BY <1>1, <1>2 DEF PendingProblems
  <1> QED
    BY <1>3, CurriculumAssumption, FS_Subset, FS_CardinalityType

\* No problem has two attempts in flight and the slots are never exceeded,
\* before and after any number of restarts (run Matchmaker).
THEOREM InflightSafe == Spec => []InflightDisjoint
  <1>1. Init => InflightDisjoint
    <2> SUFFICES ASSUME Init PROVE InflightDisjoint
      OBVIOUS
    <2>1. Pending = {} /\ PendingProblems = {}
      BY DEF Init, InitialMemory, Pending, PendingProblems
    <2> QED
      BY <2>1, FS_EmptySet, ConfigAssumption DEF InflightDisjoint
  <1>2. TypeOK /\ InflightDisjoint /\ [Next]_vars => InflightDisjoint'
    <2> SUFFICES ASSUME TypeOK, InflightDisjoint, [Next]_vars PROVE InflightDisjoint'
      OBVIOUS
    <2>1. CASE UNCHANGED memory
      BY <2>1 DEF memory, InflightDisjoint, Pending, PendingProblems
    <2>2. CASE InitialMemory'
      <3>1. Pending' = {} /\ PendingProblems' = {}
        BY <2>2 DEF InitialMemory, Pending, PendingProblems
      <3> QED
        BY <3>1, FS_EmptySet, ConfigAssumption DEF InflightDisjoint
    <2>3. ASSUME NEW q \in Proposal, ValidEvent(Intent(q)), ApplyIntent(q)
          PROVE  InflightDisjoint'
      <3> DEFINE n == Len(attempts) + 1
      <3>1. /\ attempts' = Append(attempts, q) /\ results' = Append(results, None)
            /\ n = Len(results) + 1
        BY <2>3 DEF ApplyIntent, TypeOK
      <3>2. /\ attempts'[n] = q /\ \A i \in DOMAIN attempts : attempts'[i] = attempts[i]
            /\ results'[n] = None /\ \A i \in DOMAIN results : results'[i] = results[i]
            /\ DOMAIN results' = DOMAIN results \cup {n}
            /\ DOMAIN results = DOMAIN attempts
        BY <3>1 DEF TypeOK
      <3>3. Pending' = Pending \cup {n}
        BY <3>2 DEF Pending
      <3>4. PendingProblems' = PendingProblems \cup {q.problem}
        BY <3>2, <3>3 DEF PendingProblems, Pending
      <3>5. q.problem \notin PendingProblems /\ Cardinality(PendingProblems) < MaxInflight
        BY <2>3, ValidIntent DEF Candidates, Available
      <3>6. Cardinality(PendingProblems') <= MaxInflight
        <4>1. Cardinality(PendingProblems') = Cardinality(PendingProblems) + 1
          BY <3>4, <3>5, PendingFinite, FS_AddElement
        <4> QED
          BY <3>5, <4>1, PendingFinite, ConfigAssumption
      <3>7. ASSUME NEW a \in Pending', NEW b \in Pending',
                   attempts'[a].problem = attempts'[b].problem
            PROVE  a = b
        <4>1. \A i \in Pending : attempts'[i].problem \in PendingProblems
          BY <3>2 DEF PendingProblems, Pending
        <4> QED
          BY <3>2, <3>3, <3>5, <3>7, <4>1 DEF InflightDisjoint, Pending
      <3> QED
        BY <3>6, <3>7 DEF InflightDisjoint
    <2>4. ASSUME NEW a \in Pending, NEW o \in Outcomes, ApplyResult(a, o)
          PROVE  InflightDisjoint'
      <3>1. Pending' \subseteq Pending /\ attempts' = attempts
        BY <2>4 DEF ApplyResult, Pending, TypeOK
      <3>2. PendingProblems' \subseteq PendingProblems
        BY <3>1 DEF PendingProblems
      <3>3. Cardinality(PendingProblems') <= Cardinality(PendingProblems)
            /\ Cardinality(PendingProblems') \in Nat
        BY <3>2, PendingFinite, FS_Subset, FS_CardinalityType
      <3> QED
        BY <3>1, <3>3, PendingFinite, ConfigAssumption DEF InflightDisjoint
    <2> QED
      BY <2>1, <2>2, <2>3, <2>4, MemoryStep, ApplyCases
  <1> QED
    BY <1>1, <1>2, TypeCorrect, PTL DEF Spec

-----------------------------------------------------------------------------
(* Lost work.                                                              *)

\* A published intent adds its number to the attempts in flight.
LEMMA PendingGrows ==
  ASSUME TypeOK, NEW q \in Proposal, ApplyIntent(q)
  PROVE  Pending' = Pending \cup {Sequence}
  BY DEF ApplyIntent, TypeOK, Pending, Sequence

\* A published result takes its attempt out of those in flight.
LEMMA PendingShrinks ==
  ASSUME TypeOK, NEW a \in Pending, NEW o \in Outcomes, ApplyResult(a, o)
  PROVE  Pending' = Pending \ {a}
  BY NoneAssumption DEF ApplyResult, TypeOK, Pending

\* Every attempt without a result was handed out by the running process or is
\* on its list of recovered intents (run Matchmaker).
THEOREM PendingAlwaysAccounted == Spec => []PendingAccounted
  <1>1. Init => PendingAccounted
    BY DEF Init, InitialMemory, PendingAccounted, Pending
  <1>2. TypeOK /\ PendingAccounted /\ [Next]_vars => PendingAccounted'
    <2> SUFFICES ASSUME TypeOK, PendingAccounted, [Next]_vars PROVE PendingAccounted'
      OBVIOUS
    <2> USE DEF PendingAccounted
    <2>1. ASSUME NEW c \in Callers, NEW r \in Releases, PlanNext(c, r)
          PROVE  PendingAccounted'
      BY <2>1 DEF PlanNext, memory, Pending
    <2>2. ASSUME NEW c \in Callers, Reserve(c)
          PROVE  PendingAccounted'
      <3>1. held[c] \in Proposal /\ held[c].attempt = Sequence
        BY <2>2, ValidIntent DEF Reserve, TypeOK
      <3>2. CASE Published(Intent(held[c])) /\ mine' = mine \cup {held[c].attempt}
        <4>1. ApplyIntent(held[c]) /\ phase' = phase
          BY <3>2 DEF Published, Apply, Intent
        <4> QED
          BY <2>2, <3>1, <3>2, <4>1, PendingGrows DEF Reserve
      <3>3. CASE PublishFails(Intent(held[c])) /\ mine' = mine
        BY <2>2, <3>3 DEF Reserve, PublishFails, memory, Pending
      <3> QED
        BY <2>2, <3>2, <3>3 DEF Reserve
    <2>3. ASSUME NEW c \in Callers, ReserveStale(c)
          PROVE  PendingAccounted'
      BY <2>3 DEF ReserveStale, memory, Pending
    <2>4. ASSUME NEW a \in 1..MaxAttempts, NEW o \in Outcomes, RecordResult(a, o)
          PROVE  PendingAccounted'
      <3>1. CASE Published(Result(a, o)) /\ recovered' = recovered \ {a}
        <4>1. ApplyResult(a, o) /\ phase' = phase /\ a \in Pending
          BY <2>4, <3>1, ValidResult DEF RecordResult, Published, Apply, Result
        <4> QED
          BY <2>4, <3>1, <4>1, PendingShrinks DEF RecordResult
      <3>2. CASE PublishFails(Result(a, o)) /\ UNCHANGED recovered
        BY <2>4, <3>2 DEF RecordResult, PublishFails, memory, Pending
      <3> QED
        BY <2>4, <3>1, <3>2 DEF RecordResult
    <2>5. CASE Stop
      BY <2>5 DEF Stop
    <2>6. CASE Open
      BY <2>6 DEF Open
    <2>7. CASE ReplayEvent
      BY <2>7 DEF ReplayEvent
    <2>8. CASE FinishOpen
      BY <2>8 DEF FinishOpen, memory, Pending
    <2>9. CASE UNCHANGED vars
      BY <2>9 DEF vars, memory, Pending
    <2> QED
      BY <2>1, <2>2, <2>3, <2>4, <2>5, <2>6, <2>7, <2>8, <2>9 DEF Next
  <1> QED
    BY <1>1, <1>2, TypeCorrect, PTL DEF Spec

\* While an outcome is unknown, or an attempt of an earlier process has no
\* result, no intent is handed out (run Matchmaker).
THEOREM LostWorkNeverOvertaken == Spec => LostWorkFreezesDispatch
  <1>1. TypeOK /\ PendingAccounted /\ [Next]_vars
          => [sent' # sent => Unknown = {} /\ Pending \subseteq mine]_vars
    <2> SUFFICES ASSUME TypeOK, PendingAccounted, Next, sent' # sent
                 PROVE  Unknown = {} /\ Pending \subseteq mine
      OBVIOUS
    <2>1. PICK c \in Callers : Reserve(c)
      BY DEF Next, PlanNext, ReserveStale, RecordResult, Stop, Open, ReplayEvent, FinishOpen
    <2>2. ~Blocked /\ phase = "live"
      BY <2>1, ValidIntent DEF Reserve, TypeOK
    <2> QED
      BY <2>2 DEF Blocked, PendingAccounted
  <1> QED
    BY <1>1, TypeCorrect, PendingAlwaysAccounted, PTL DEF Spec, LostWorkFreezesDispatch

-----------------------------------------------------------------------------
(* Dispatch at most once.                                                  *)

\* The inductive invariant behind DispatchIsDurable: the memory has taken a
\* prefix of the log, all of it while the process is live, and every intent in
\* that prefix has a number the sequence has already passed.
LogApplied ==
    /\ eventCount <= Len(events)
    /\ phase = "live" => eventCount = Len(events)
    /\ \A i \in 1..eventCount :
          events[i].kind = "intent" => events[i].proposal.attempt <= Len(attempts)

\* A valid event that is the next of the log keeps the prefix numbered.
LEMMA AppliedPrefix ==
  ASSUME TypeOK, LogApplied, NEW e \in Event, ValidEvent(e), Apply(e),
         eventCount' <= Len(events'), events'[eventCount'] = e,
         \A i \in 1..eventCount : events'[i] = events[i]
  PROVE  \A i \in 1..eventCount' :
            events'[i].kind = "intent" => events'[i].proposal.attempt <= Len(attempts')
  <1>1. eventCount' = eventCount + 1
    BY DEF Apply
  <1>2. Len(attempts') >= Len(attempts)
    BY DEF Apply, ApplyIntent, ApplyResult, TypeOK
  <1>3. e.kind = "intent" => e.proposal.attempt <= Len(attempts')
    <2> SUFFICES ASSUME e.kind = "intent" PROVE e.proposal.attempt <= Len(attempts')
      OBVIOUS
    <2>1. e.proposal \in Proposal /\ ValidEvent(Intent(e.proposal))
      BY DEF Event, ValidEvent, Intent
    <2>2. e.proposal.attempt = Sequence
      BY <2>1, ValidIntent
    <2> QED
      BY <2>2 DEF Apply, ApplyIntent, TypeOK, Sequence
  <1> SUFFICES ASSUME NEW i \in 1..eventCount', events'[i].kind = "intent"
               PROVE  events'[i].proposal.attempt <= Len(attempts')
    OBVIOUS
  <1>4. CASE i = eventCount'
    BY <1>3, <1>4
  <1>5. CASE i \in 1..eventCount
    <2>0. i \in 1..Len(events)
      BY <1>5 DEF TypeOK, LogApplied
    <2>1. events[i] \in Event /\ events[i].kind = "intent"
      <3>1. events[i] \in Event
        BY <2>0 DEF TypeOK
      <3>2. events[i].kind = "intent"
        BY <1>5
      <3> QED
        BY <3>1, <3>2
    <2>2. events[i].proposal.attempt \in Nat
      BY <2>1, ConfigAssumption DEF Event, Proposal
    <2>3. events[i].proposal.attempt <= Len(attempts)
      BY <1>5, <2>1 DEF LogApplied
    <2>4. Len(attempts) \in Nat /\ Len(attempts') \in Nat
      BY DEF TypeOK, Apply, ApplyIntent, ApplyResult
    <2> QED
      BY <1>2, <1>5, <2>2, <2>3, <2>4
  <1> QED
    BY <1>1, <1>4, <1>5 DEF TypeOK

\* The log numbering and the single durable dispatch of every attempt hold
\* together: a fresh number was never sent because no logged intent has it.
THEOREM DispatchedOnce == Spec => [](LogApplied /\ DispatchIsDurable)
  <1> DEFINE Inv == LogApplied /\ DispatchIsDurable
  <1>1. Init => Inv
    BY DEF Init, InitialMemory, LogApplied, DispatchIsDurable
  <1>2. TypeOK /\ Inv /\ [Next]_vars => Inv'
    <2> SUFFICES ASSUME TypeOK, LogApplied, DispatchIsDurable, [Next]_vars
                 PROVE  LogApplied' /\ DispatchIsDurable'
      OBVIOUS
    <2>1. ASSUME UNCHANGED <<events, eventCount, attempts, sent>>,
                 phase' = "live" => eventCount = Len(events)
          PROVE  LogApplied' /\ DispatchIsDurable'
      BY <2>1 DEF LogApplied, DispatchIsDurable
    <2>2. ASSUME NEW e \in Event, PublishFails(e), UNCHANGED sent
          PROVE  LogApplied' /\ DispatchIsDurable'
      <3>1. UNCHANGED <<eventCount, attempts>> /\ phase' = "poisoned"
        BY <2>2 DEF PublishFails, memory
      <3>2. events' = events \/ events' = Append(events, e)
        BY <2>2 DEF PublishFails, Linked
      <3>3. /\ Len(events') >= Len(events) /\ Len(events') \in Nat
            /\ \A i \in DOMAIN events : i \in DOMAIN events' /\ events'[i] = events[i]
        <4>1. CASE events' = events
          BY <4>1 DEF TypeOK
        <4>2. CASE events' = Append(events, e)
          BY <4>2 DEF TypeOK
        <4> QED
          BY <3>2, <4>1, <4>2
      <3>4. LogApplied'
        BY <3>1, <3>3 DEF LogApplied, TypeOK
      <3>5. DispatchIsDurable'
        BY <2>2, <3>3 DEF DispatchIsDurable
      <3> QED
        BY <3>4, <3>5
    <2>3. ASSUME NEW e \in Event, phase = "live", ValidEvent(e), Published(e)
          PROVE  /\ LogApplied'
                 /\ events' = Append(events, e)
                 /\ \A i \in DOMAIN events : i \in DOMAIN events' /\ events'[i] = events[i]
      <3>1. events' = Append(events, e) /\ Apply(e) /\ phase' = phase
        BY <2>3 DEF Published, Linked
      <3>2. eventCount' = eventCount + 1 /\ eventCount = Len(events)
        BY <2>3, <3>1 DEF Apply, LogApplied
      <3>3. /\ eventCount' = Len(events') /\ events'[eventCount'] = e
            /\ \A i \in DOMAIN events : i \in DOMAIN events' /\ events'[i] = events[i]
        BY <3>1, <3>2 DEF TypeOK
      <3>4. \A i \in 1..eventCount : events'[i] = events[i]
        BY <3>2, <3>3 DEF TypeOK
      <3>5. Len(events') \in Nat
        BY <3>1 DEF TypeOK
      <3>6. \A i \in 1..eventCount' :
               events'[i].kind = "intent" => events'[i].proposal.attempt <= Len(attempts')
        <4>1. eventCount' <= Len(events')
          BY <3>3, <3>5
        <4> QED
          BY <2>3, <3>1, <3>3, <3>4, <4>1, AppliedPrefix
      <3> QED
        BY <3>1, <3>3, <3>5, <3>6 DEF LogApplied
    <2>4. ASSUME NEW c \in Callers, NEW r \in Releases, PlanNext(c, r)
          PROVE  LogApplied' /\ DispatchIsDurable'
      BY <2>4, <2>1 DEF PlanNext, memory, LogApplied
    <2>5. ASSUME NEW c \in Callers, Reserve(c)
          PROVE  LogApplied' /\ DispatchIsDurable'
      <3> DEFINE q == held[c]
                 e == Intent(held[c])
      <3>1. q \in Proposal /\ e \in Event /\ ValidEvent(e) /\ phase = "live"
        BY <2>5, EventTypes DEF Reserve, TypeOK
      <3>2. q.attempt = Sequence /\ q.attempt \in 1..MaxAttempts
        BY <3>1, ValidIntent DEF Proposal
      <3>3. CASE Published(e) /\ sent' = [sent EXCEPT ![q.attempt] = @ + 1]
        <4>1. LogApplied' /\ events' = Append(events, e)
              /\ \A i \in DOMAIN events : i \in DOMAIN events' /\ events'[i] = events[i]
          BY <3>1, <3>3, <2>3
        <4>2. sent[q.attempt] = 0
          <5> SUFFICES ASSUME sent[q.attempt] > 0 PROVE FALSE
            BY <3>2 DEF TypeOK
          <5>1. PICK i \in DOMAIN events :
                   events[i].kind = "intent" /\ events[i].proposal.attempt = q.attempt
            BY <3>2 DEF DispatchIsDurable
          <5>2. i \in 1..eventCount
            BY <3>1, <5>1 DEF LogApplied, TypeOK
          <5>3. q.attempt <= Len(attempts)
            BY <5>1, <5>2 DEF LogApplied
          <5> QED
            BY <3>2, <5>3 DEF Sequence, TypeOK
        <4>3. /\ Len(events') \in DOMAIN events'
              /\ events'[Len(events')].kind = "intent"
              /\ events'[Len(events')].proposal.attempt = q.attempt
          BY <4>1 DEF TypeOK, Intent
        <4>4. ASSUME NEW a \in 1..MaxAttempts, sent'[a] > 0
              PROVE  /\ sent'[a] = 1
                     /\ \E i \in DOMAIN events' :
                          events'[i].kind = "intent" /\ events'[i].proposal.attempt = a
          <5>1. CASE a = q.attempt
            BY <3>2, <3>3, <4>2, <4>3, <5>1 DEF TypeOK
          <5>2. CASE a # q.attempt
            <6>1. sent'[a] = sent[a]
              BY <3>3, <5>2 DEF TypeOK
            <6> QED
              BY <4>1, <4>4, <6>1 DEF DispatchIsDurable
          <5> QED
            BY <5>1, <5>2
        <4> QED
          BY <4>1, <4>4 DEF DispatchIsDurable
      <3>4. CASE PublishFails(e) /\ UNCHANGED sent
        BY <3>1, <3>4, <2>2
      <3> QED
        BY <2>5, <3>3, <3>4 DEF Reserve
    <2>6. ASSUME NEW c \in Callers, ReserveStale(c)
          PROVE  LogApplied' /\ DispatchIsDurable'
      BY <2>6, <2>1 DEF ReserveStale, memory, LogApplied
    <2>7. ASSUME NEW a \in 1..MaxAttempts, NEW o \in Outcomes, RecordResult(a, o)
          PROVE  LogApplied' /\ DispatchIsDurable'
      <3>1. Result(a, o) \in Event /\ ValidEvent(Result(a, o)) /\ phase = "live" /\ sent' = sent
        BY <2>7, EventTypes DEF RecordResult
      <3>2. CASE Published(Result(a, o))
        BY <3>1, <3>2, <2>3 DEF DispatchIsDurable
      <3>3. CASE PublishFails(Result(a, o))
        BY <3>1, <3>3, <2>2
      <3> QED
        BY <2>7, <3>2, <3>3 DEF RecordResult
    <2>8. CASE Stop
      <3>1. phase' = "down" /\ eventCount' = 0 /\ UNCHANGED <<events, sent>>
        BY <2>8 DEF Stop
      <3>2. Len(events) \in Nat
        BY DEF TypeOK
      <3>3. LogApplied'
        BY <3>1, <3>2 DEF LogApplied
      <3>4. DispatchIsDurable'
        BY <3>1 DEF DispatchIsDurable
      <3> QED
        BY <3>3, <3>4
    <2>9. CASE Open
      BY <2>9, <2>1 DEF Open, memory
    <2>10. CASE ReplayEvent
      <3> DEFINE e == events[eventCount + 1]
      <3>1. e \in Event /\ ValidEvent(e) /\ Apply(e) /\ eventCount' = eventCount + 1
            /\ UNCHANGED <<events, sent, phase>> /\ phase = "opening" /\ eventCount' <= Len(events')
        BY <2>10 DEF ReplayEvent, TypeOK, Apply
      <3>2. \A i \in 1..eventCount' :
               events'[i].kind = "intent" => events'[i].proposal.attempt <= Len(attempts')
        BY <3>1, AppliedPrefix
      <3> QED
        BY <3>1, <3>2 DEF LogApplied, DispatchIsDurable
    <2>11. CASE FinishOpen
      BY <2>11, <2>1 DEF FinishOpen, memory
    <2>12. CASE UNCHANGED vars
      BY <2>12, <2>1 DEF vars, memory, LogApplied
    <2> QED
      BY <2>4, <2>5, <2>6, <2>7, <2>8, <2>9, <2>10, <2>11, <2>12 DEF Next
  <1> QED
    BY <1>1, <1>2, TypeCorrect, PTL DEF Spec

\* What reserve admits stays within its limits (AdmissionWithinLimits), for every
\* curriculum and configuration and over every crash and replay.
THEOREM AdmissionSafe == Spec => []AdmissionWithinLimits
BY BudgetNeverExceeded, InflightSafe, DispatchedOnce, PTL DEF AdmissionWithinLimits

-----------------------------------------------------------------------------
(* What the log tells.  The memory describes the prefix of the log it has  *)
(* taken; the whole log has a shape of its own, which also holds while the *)
(* process is down or has lost an outcome.                                 *)

Number(i) == events[i].proposal.attempt

\* An accepted result of an attempt whose problem is a target settles a family.
SettledBy(i, p) == IsResult(i) /\ events[i].outcome = "accepted" /\ p \in Targets

\* The memory and the prefix of the log it was built from: the logged intents are
\* the attempts, by number; results are of known attempts and a settling one has its
\* verdict; an attempt in flight on a target has an open family; last_dispatch is
\* the last attempt of each problem.
IntentsTold ==
    \A i \in 1..eventCount : IsIntent(i) =>
        Number(i) \in 1..Len(attempts) /\ attempts[Number(i)] = events[i].proposal

AttemptsTold ==
    \A a \in 1..Len(attempts) :
        /\ attempts[a].attempt = a
        /\ \E i \in 1..eventCount : IsIntent(i) /\ events[i].proposal = attempts[a]

ResultsTold ==
    \A i \in 1..eventCount : IsResult(i) =>
        /\ events[i].attempt \in 1..Len(attempts)
        /\ SettledBy(i, attempts[events[i].attempt].problem) =>
              families[FamilyOf[attempts[events[i].attempt].problem]] # None

OpenFamilies ==
    \A a \in Pending : attempts[a].problem \in Targets =>
        families[FamilyOf[attempts[a].problem]] = None

DispatchesTold ==
    /\ \A a \in 1..Len(attempts) : a <= lastDispatch[attempts[a].problem]
    /\ \A p \in Problems : lastDispatch[p] # 0 =>
          /\ lastDispatch[p] \in 1..Len(attempts)
          /\ attempts[lastDispatch[p]].problem = p

LogTold == IntentsTold /\ AttemptsTold /\ ResultsTold /\ OpenFamilies /\ DispatchesTold

\* Problem q was dispatched after the last dispatch of p.
OvertookBy(q, p) ==
    \E i \in DOMAIN events :
        /\ IsIntent(i) /\ events[i].proposal.problem = q
        /\ \A j \in DOMAIN events :
              IsIntent(j) /\ events[j].proposal.problem = p => Number(j) < Number(i)
Overtakers(p) == {q \in Problems : OvertookBy(q, p)}

\* The shape of the whole log: intents have different numbers, results have
\* their intents, and after a settling result its family is left alone.
Numbering ==
    /\ \A i, j \in DOMAIN events :
          IsIntent(i) /\ IsIntent(j) /\ Number(i) = Number(j) => i = j
    /\ \A i \in DOMAIN events : IsResult(i) =>
          \E j \in DOMAIN events : IsIntent(j) /\ Number(j) = events[i].attempt

Aims(e, p) ==
    \E k \in DOMAIN events :
        IsIntent(k) /\ Number(k) = e.attempt /\ events[k].proposal.problem = p

SettledAlone ==
    \A i, j \in DOMAIN events : \A p \in Problems :
        (i < j /\ SettledBy(i, p) /\ Aims(events[i], p)) =>
           /\ IsIntent(j) => FamilyOf[events[j].proposal.problem] # FamilyOf[p]
           /\ \A q \in Problems :
                 SettledBy(j, q) /\ Aims(events[j], q) => FamilyOf[q] # FamilyOf[p]

\* The counters of the starvation guard: who was passed while overdue has one
\* overtaker more than times it was passed.
PassedCounted ==
    \A p \in Problems : passed[p] > 0 => passed[p] + 1 <= Cardinality(Overtakers(p))

LogShape == Numbering /\ SettledAlone /\ PassedCounted

\* The log events that the memory has taken are events.
LEMMA TakenTyped ==
  ASSUME TypeOK, LogApplied
  PROVE  \A i \in 1..eventCount : i \in DOMAIN events /\ events[i] \in Event
  BY DEF TypeOK, LogApplied

\* A published intent becomes the last attempt, and is the only change of the attempts.
LEMMA IntentApplied ==
  ASSUME TypeOK, NEW q \in Proposal, ValidEvent(Intent(q)), ApplyIntent(q)
  PROVE  /\ Len(attempts') = Len(attempts) + 1
         /\ attempts'[Len(attempts) + 1] = q
         /\ q.attempt = Len(attempts) + 1
         /\ \A a \in 1..Len(attempts) : attempts'[a] = attempts[a]
         /\ \A a \in 1..Len(attempts') : a \in 1..Len(attempts) \/ a = Len(attempts) + 1
         /\ lastDispatch' = [lastDispatch EXCEPT ![q.problem] = Len(attempts) + 1]
         /\ Len(attempts) \in Nat
         /\ q.problem \in Problems
         /\ Pending' = Pending \cup {Len(attempts) + 1}
         /\ families' = families
         /\ families[FamilyOf[q.problem]] = None
  <1>1. q.attempt = Sequence /\ q.problem \in Candidates
    BY ValidIntent
  <1>2. q.attempt = Len(attempts) + 1 /\ Pending' = Pending \cup {Len(attempts) + 1}
    BY <1>1, PendingGrows DEF Sequence
  <1>3. q.problem \in Problems /\ families[FamilyOf[q.problem]] = None
    BY <1>1 DEF Candidates, Available
  <1>4. attempts' = Append(attempts, q) /\ families' = families
        /\ lastDispatch' = [lastDispatch EXCEPT ![q.problem] = Len(attempts) + 1]
    BY <1>2 DEF ApplyIntent, DispatchDated
  <1>5. attempts \in Seq(Proposal)
    BY DEF TypeOK
  <1> QED
    BY <1>2, <1>3, <1>4, <1>5

\* A published result leaves the attempts alone and settles at most the family of
\* its target.
LEMMA ResultApplied ==
  ASSUME TypeOK, NEW a \in Pending, NEW o \in Outcomes, ApplyResult(a, o)
  PROVE  /\ attempts' = attempts /\ lastDispatch' = lastDispatch
         /\ Pending' = Pending \ {a}
         /\ a \in 1..Len(attempts)
         /\ attempts[a].problem \in Problems
         /\ \A f \in Families : families[f] # None => families'[f] # None
         /\ o = "accepted" /\ attempts[a].problem \in Targets =>
               families'[FamilyOf[attempts[a].problem]] # None
         /\ \A f \in Families :
               families'[f] # families[f] =>
                  attempts[a].problem \in Targets /\ f = FamilyOf[attempts[a].problem]
  <1>1. attempts' = attempts /\ lastDispatch' = lastDispatch /\ Pending' = Pending \ {a}
    BY PendingShrinks DEF ApplyResult
  <1>2. a \in 1..Len(attempts)
    BY DEF TypeOK, Pending
  <1>3. attempts[a].problem \in Problems
    <2>1. attempts[a] \in Proposal
      BY <1>2 DEF TypeOK
    <2> QED
      BY <2>1 DEF Proposal
  <1>4. FamilyOf[attempts[a].problem] \in Families
    BY <1>3, CurriculumAssumption
  <1> DEFINE v == VerdictOf(attempts[a])
             F == FamilyOf[attempts[a].problem]
  <1>5. families' = IF o = "accepted" /\ attempts[a].problem \in Targets
                    THEN [families EXCEPT ![F] = v] ELSE families
    BY DEF ApplyResult
  <1>6. v # None
    BY NoneAssumption DEF VerdictOf, Verdicts
  <1>7. families \in [Families -> Verdicts \cup {None}]
    BY DEF TypeOK
  <1> HIDE DEF v, F
  <1>8. \A f \in Families : families'[f] = families[f]
            \/ (o = "accepted" /\ attempts[a].problem \in Targets /\ f = F /\ families'[f] = v)
    BY <1>5, <1>7
  <1>9. o = "accepted" /\ attempts[a].problem \in Targets => families'[F] = v
    BY <1>5, <1>7, <1>4 DEF F
  <1> QED
    BY <1>1, <1>2, <1>3, <1>6, <1>8, <1>9 DEF F

\* A valid event that is the next of the log is told by the memory it makes.
LEMMA ToldKept ==
  ASSUME TypeOK, LogApplied, InflightDisjoint, LogTold, NEW e \in Event, ValidEvent(e), Apply(e),
         eventCount' <= Len(events'), events'[eventCount'] = e,
         \A i \in 1..eventCount : events'[i] = events[i]
  PROVE  LogTold'
  <1> USE DEF IsIntent, IsResult, Number, SettledBy
  <1>1. /\ eventCount \in Nat /\ eventCount' = eventCount + 1
        /\ \A i \in 1..eventCount' : i \in 1..eventCount \/ i = eventCount'
        /\ \A i \in 1..eventCount : i \in 1..eventCount' /\ events'[i] = events[i]
        /\ eventCount' \in 1..eventCount'
    BY DEF Apply, TypeOK
  <1>2. ASSUME NEW q \in Proposal, e = Intent(q), ValidEvent(Intent(q)), ApplyIntent(q)
        PROVE  LogTold'
    <2> DEFINE n == Len(attempts) + 1
    <2>1. /\ Len(attempts') = n /\ attempts'[n] = q /\ q.attempt = n /\ n \in 1..n
          /\ \A a \in 1..Len(attempts) : attempts'[a] = attempts[a]
          /\ \A a \in 1..n : a \in 1..Len(attempts) \/ a = n
          /\ \A a \in 1..Len(attempts) : a \in 1..n /\ a # n
          /\ lastDispatch' = [lastDispatch EXCEPT ![q.problem] = n]
          /\ q.problem \in Problems
          /\ Pending' = Pending \cup {n}
          /\ families' = families
          /\ families[FamilyOf[q.problem]] = None
      BY <1>2, IntentApplied
    <2>2. e.kind = "intent" /\ e.proposal = q
      BY <1>2 DEF Intent
    <2> HIDE DEF n
    <2>3. IntentsTold'
      <3> SUFFICES ASSUME NEW i \in 1..eventCount', events'[i].kind = "intent"
                   PROVE  /\ events'[i].proposal.attempt \in 1..Len(attempts')
                          /\ attempts'[events'[i].proposal.attempt] = events'[i].proposal
        BY DEF IntentsTold
      <3>1. CASE i = eventCount'
        BY <2>1, <2>2, <3>1
      <3>2. CASE i \in 1..eventCount
        BY <1>1, <2>1, <3>2 DEF LogTold, IntentsTold
      <3> QED
        BY <1>1, <3>1, <3>2
    <2>4. AttemptsTold'
      <3> SUFFICES ASSUME NEW a \in 1..Len(attempts')
                   PROVE  /\ attempts'[a].attempt = a
                          /\ \E i \in 1..eventCount' :
                                events'[i].kind = "intent" /\ events'[i].proposal = attempts'[a]
        BY DEF AttemptsTold
      <3>1. CASE a = n
        BY <1>1, <2>1, <2>2, <3>1
      <3>2. CASE a \in 1..Len(attempts)
        BY <1>1, <2>1, <3>2 DEF LogTold, AttemptsTold
      <3> QED
        BY <2>1, <3>1, <3>2
    <2>5. ResultsTold'
      <3> SUFFICES ASSUME NEW i \in 1..eventCount', events'[i].kind = "result"
                   PROVE  /\ events'[i].attempt \in 1..Len(attempts')
                          /\ SettledBy(i, attempts[events[i].attempt].problem)' =>
                                families'[FamilyOf[attempts'[events'[i].attempt].problem]] # None
        BY DEF ResultsTold
      <3>1. i \in 1..eventCount
        BY <1>1, <2>2
      <3>2. /\ events[i].attempt \in 1..Len(attempts)
            /\ SettledBy(i, attempts[events[i].attempt].problem) =>
                  families[FamilyOf[attempts[events[i].attempt].problem]] # None
        BY <1>1, <3>1 DEF LogTold, ResultsTold
      <3>3. attempts'[events'[i].attempt] = attempts[events[i].attempt] /\ events'[i] = events[i]
        BY <1>1, <2>1, <3>1, <3>2
      <3> QED
        BY <2>1, <3>2, <3>3
    <2>6. OpenFamilies'
      <3>1. \A a \in Pending : a \in 1..Len(attempts)
        BY DEF Pending, TypeOK
      <3>2. \A a \in Pending : attempts'[a] = attempts[a]
        BY <2>1, <3>1
      <3> QED
        BY <2>1, <3>2 DEF LogTold, OpenFamilies
    <2>7. DispatchesTold'
      <3>0. lastDispatch \in [Problems -> 0..MaxAttempts] /\ n \in Nat \ {0}
            /\ \A a \in 1..Len(attempts) : a < n /\ attempts[a].problem \in Problems
        <4>1. \A a \in 1..Len(attempts) : attempts[a] \in Proposal
          BY DEF TypeOK
        <4>2. \A a \in 1..Len(attempts) : attempts[a].problem \in Problems
          BY <4>1 DEF Proposal
        <4>3. Len(attempts) \in Nat
          BY DEF TypeOK
        <4>4. n \in Nat \ {0} /\ \A a \in 1..Len(attempts) : a < n
          BY <4>3 DEF n
        <4> QED
          BY <4>2, <4>4 DEF TypeOK
      <3>1. ASSUME NEW a \in 1..Len(attempts')
            PROVE  a <= lastDispatch'[attempts'[a].problem]
        <4>1. CASE a = n
          BY <2>1, <3>0, <4>1
        <4>2. CASE a \in 1..Len(attempts) /\ attempts[a].problem = q.problem
          BY <2>1, <3>0, <4>2
        <4>3. CASE a \in 1..Len(attempts) /\ attempts[a].problem # q.problem
          BY <2>1, <3>0, <4>3 DEF LogTold, DispatchesTold
        <4> QED
          BY <2>1, <3>1, <4>1, <4>2, <4>3
      <3>2. ASSUME NEW p \in Problems, lastDispatch'[p] # 0
            PROVE  /\ lastDispatch'[p] \in 1..Len(attempts')
                   /\ attempts'[lastDispatch'[p]].problem = p
        <4>1. CASE p = q.problem
          BY <2>1, <3>0, <4>1
        <4>2. CASE p # q.problem
          <5>1. lastDispatch'[p] = lastDispatch[p]
            BY <2>1, <3>0, <4>2
          <5> QED
            BY <2>1, <3>2, <5>1 DEF LogTold, DispatchesTold
        <4> QED
          BY <4>1, <4>2
      <3> QED
        BY <3>1, <3>2 DEF DispatchesTold
    <2> QED
      BY <2>3, <2>4, <2>5, <2>6, <2>7 DEF LogTold
  <1>3. ASSUME NEW b \in Pending, NEW o \in Outcomes, e.kind = "result", e.attempt = b,
               e.outcome = o, ApplyResult(b, o)
        PROVE  LogTold'
    <2>1. /\ attempts' = attempts /\ lastDispatch' = lastDispatch
          /\ Pending' = Pending \ {b}
          /\ b \in 1..Len(attempts)
          /\ attempts[b].problem \in Problems
          /\ \A f \in Families : families[f] # None => families'[f] # None
          /\ o = "accepted" /\ attempts[b].problem \in Targets =>
                families'[FamilyOf[attempts[b].problem]] # None
          /\ \A f \in Families :
                families'[f] # families[f] =>
                   attempts[b].problem \in Targets /\ f = FamilyOf[attempts[b].problem]
      BY <1>3, ResultApplied
    <2>2. \A a \in 1..Len(attempts) : /\ attempts[a].problem \in Problems
                                      /\ FamilyOf[attempts[a].problem] \in Families
      <3>1. \A a \in 1..Len(attempts) : attempts[a] \in Proposal
        BY DEF TypeOK
      <3> QED
        BY <3>1, CurriculumAssumption DEF Proposal
    <2>3. IntentsTold'
      BY <1>1, <1>3, <2>1 DEF LogTold, IntentsTold
    <2>4. AttemptsTold'
      BY <1>1, <2>1 DEF LogTold, AttemptsTold
    <2>5. ResultsTold'
      <3> SUFFICES ASSUME NEW i \in 1..eventCount', events'[i].kind = "result"
                   PROVE  /\ events'[i].attempt \in 1..Len(attempts)
                          /\ SettledBy(i, attempts[events[i].attempt].problem)' =>
                                families'[FamilyOf[attempts[events'[i].attempt].problem]] # None
        BY <2>1 DEF ResultsTold
      <3>1. CASE i = eventCount'
        BY <1>3, <2>1, <3>1
      <3>2. CASE i \in 1..eventCount
        <4>1. /\ events[i].attempt \in 1..Len(attempts)
              /\ SettledBy(i, attempts[events[i].attempt].problem) =>
                    families[FamilyOf[attempts[events[i].attempt].problem]] # None
          BY <1>1, <3>2 DEF LogTold, ResultsTold
        <4>2. events'[i] = events[i]
          BY <1>1, <3>2
        <4> QED
          BY <2>1, <2>2, <4>1, <4>2
      <3> QED
        BY <1>1, <3>1, <3>2
    <2>6. OpenFamilies'
      <3> SUFFICES ASSUME NEW a \in Pending \ {b}, attempts[a].problem \in Targets
                   PROVE  families'[FamilyOf[attempts[a].problem]] = None
        BY <2>1 DEF OpenFamilies
      <3>1. families[FamilyOf[attempts[a].problem]] = None /\ a \in 1..Len(attempts)
        BY DEF LogTold, OpenFamilies, Pending, TypeOK
      <3> SUFFICES ASSUME families'[FamilyOf[attempts[a].problem]]
                             # families[FamilyOf[attempts[a].problem]]
                   PROVE  FALSE
        BY <3>1
      <3>2. FamilyOf[attempts[a].problem] = FamilyOf[attempts[b].problem]
            /\ attempts[b].problem \in Targets
        BY <2>1, <2>2, <3>1
      <3>3. attempts[a].problem = attempts[b].problem
        BY <3>2, CurriculumAssumption
      <3> QED
        BY <3>3 DEF InflightDisjoint
    <2>7. DispatchesTold'
      BY <2>1 DEF LogTold, DispatchesTold
    <2> QED
      BY <2>3, <2>4, <2>5, <2>6, <2>7 DEF LogTold
  <1>4. CASE e.kind = "intent" /\ ApplyIntent(e.proposal)
    <2>1. e.proposal \in Proposal /\ e = Intent(e.proposal)
      BY <1>4 DEF Event, Intent
    <2> QED
      BY <1>2, <1>4, <2>1
  <1>5. CASE e.kind = "result" /\ ApplyResult(e.attempt, e.outcome)
    BY <1>3, <1>5 DEF ValidEvent
  <1> QED
    BY <1>4, <1>5 DEF Apply

\* Who was dispatched after another is some other problem, and they are finitely many.
LEMMA OvertakersFinite ==
  ASSUME TypeOK, NEW p \in Problems
  PROVE  /\ IsFiniteSet(Overtakers(p)) /\ Cardinality(Overtakers(p)) \in Nat
         /\ p \notin Overtakers(p)
  <1>1. Overtakers(p) \subseteq Problems
    BY DEF Overtakers
  <1>2. p \notin Overtakers(p)
    <2> SUFFICES ASSUME OvertookBy(p, p) PROVE FALSE
      BY DEF Overtakers
    <2>1. PICK i \in DOMAIN events : IsIntent(i) /\ Number(i) < Number(i)
      BY DEF OvertookBy
    <2>2. Number(i) \in Nat
      <3>1. events[i] \in Event
        BY DEF TypeOK
      <3>2. events[i].proposal \in Proposal
        BY <2>1, <3>1 DEF Event, IsIntent
      <3> QED
        BY <3>2, ConfigAssumption DEF Number, Proposal
    <2> QED
      BY <2>1, <2>2
  <1> QED
    BY <1>1, <1>2, CurriculumAssumption, FS_Subset, FS_CardinalityType

\* While the memory has the whole log, the overtakers are those dispatched later.
LEMMA OvertakersTold ==
  ASSUME TypeOK, LogTold, eventCount = Len(events), NEW p \in Problems, NEW q \in Problems
  PROVE  OvertookBy(q, p) <=> lastDispatch[q] > lastDispatch[p]
  <1> DEFINE of(i, r) == i \in 1..eventCount /\ IsIntent(i) /\ events[i].proposal.problem = r
  <1>0. /\ lastDispatch[p] \in Nat /\ lastDispatch[q] \in Nat
        /\ DOMAIN events = 1..eventCount
    BY ConfigAssumption DEF TypeOK
  <1>1. \A r \in Problems : \A i \in 1..eventCount :
           of(i, r) => Number(i) \in Nat \ {0} /\ Number(i) <= lastDispatch[r]
    BY DEF LogTold, IntentsTold, DispatchesTold, Number
  <1>2. \A r \in Problems : lastDispatch[r] # 0 =>
           \E i \in 1..eventCount : of(i, r) /\ Number(i) = lastDispatch[r]
    <2> SUFFICES ASSUME NEW r \in Problems, lastDispatch[r] # 0
                 PROVE  \E i \in 1..eventCount : of(i, r) /\ Number(i) = lastDispatch[r]
      OBVIOUS
    <2>1. lastDispatch[r] \in 1..Len(attempts) /\ attempts[lastDispatch[r]].problem = r
      BY DEF LogTold, DispatchesTold
    <2>2. PICK i \in 1..eventCount :
             IsIntent(i) /\ events[i].proposal = attempts[lastDispatch[r]]
      BY <2>1 DEF LogTold, AttemptsTold
    <2>3. attempts[lastDispatch[r]].attempt = lastDispatch[r]
      BY <2>1 DEF LogTold, AttemptsTold
    <2> QED
      BY <2>1, <2>2, <2>3 DEF Number
  <1>3. OvertookBy(q, p) <=> \E i \in 1..eventCount :
           of(i, q) /\ \A j \in 1..eventCount : of(j, p) => Number(j) < Number(i)
    BY <1>0 DEF OvertookBy
  <1> HIDE DEF of
  <1>4. ASSUME OvertookBy(q, p) PROVE lastDispatch[q] > lastDispatch[p]
    <2>1. PICK i \in 1..eventCount :
             of(i, q) /\ \A j \in 1..eventCount : of(j, p) => Number(j) < Number(i)
      BY <1>3, <1>4
    <2>2. Number(i) \in Nat \ {0} /\ Number(i) <= lastDispatch[q]
      BY <1>1, <2>1
    <2>3. CASE lastDispatch[p] = 0
      BY <1>0, <2>2, <2>3
    <2>4. CASE lastDispatch[p] # 0
      <3>1. lastDispatch[p] < Number(i)
        BY <1>2, <2>1, <2>4
      <3> QED
        BY <1>0, <2>2, <3>1
    <2> QED
      BY <2>3, <2>4
  <1>5. ASSUME lastDispatch[q] > lastDispatch[p] PROVE OvertookBy(q, p)
    <2>1. lastDispatch[q] # 0
      BY <1>0, <1>5
    <2>2. PICK i \in 1..eventCount : of(i, q) /\ Number(i) = lastDispatch[q]
      BY <1>2, <2>1
    <2>3. ASSUME NEW j \in 1..eventCount, of(j, p) PROVE Number(j) < Number(i)
      <3>1. Number(j) \in Nat /\ Number(j) <= lastDispatch[p]
        BY <1>1, <2>3
      <3> QED
        BY <1>0, <1>5, <2>2, <3>1
    <2> QED
      BY <1>3, <2>2, <2>3
  <1> QED
    BY <1>4, <1>5

\* The results in the whole log aim at the problem of the attempt they name.
LEMMA AimsTold ==
  ASSUME TypeOK, LogTold, eventCount = Len(events), NEW e, e.attempt \in 1..Len(attempts),
         NEW p
  PROVE  Aims(e, p) <=> attempts[e.attempt].problem = p
  <1>1. DOMAIN events = 1..eventCount
    BY DEF TypeOK
  <1>2. PICK i \in 1..eventCount : IsIntent(i) /\ events[i].proposal = attempts[e.attempt]
    BY DEF LogTold, AttemptsTold
  <1>3. Number(i) = e.attempt
    BY <1>2 DEF LogTold, AttemptsTold, Number
  <1>4. \A k \in 1..eventCount : IsIntent(k) /\ Number(k) = e.attempt =>
           events[k].proposal = attempts[e.attempt]
    BY DEF LogTold, IntentsTold
  <1> QED
    BY <1>1, <1>2, <1>3, <1>4 DEF Aims

\* A problem that planning prefers to an overdue candidate was not dispatched after it.
LEMMA OldestFirst ==
  ASSUME TypeOK, NEW p \in Candidates, Overdue(p), NEW q \in Problems, Chosen(q), q # p
  PROVE  lastDispatch[q] <= lastDispatch[p]
  <1>1. Before(Key(q), Key(p))
    BY DEF Chosen
  <1>2. PICK i \in 1..4 : /\ Key(q)[i] < Key(p)[i]
                          /\ \A j \in 1..(i - 1) : Key(q)[j] = Key(p)[j]
    BY <1>1 DEF Before
  <1>3. Key(p)[1] = 0 /\ Key(p)[2] = lastDispatch[p] /\ Key(p)[3] = lastDispatch[p]
    BY DEF Key
  <1>4. /\ Key(q)[1] = 0 => Key(q)[2] = lastDispatch[q]
        /\ Key(q)[1] \in {0, 1} /\ Key(q)[3] = lastDispatch[q]
    BY DEF Key
  <1>5. p \in Problems /\ lastDispatch[p] \in Nat /\ lastDispatch[q] \in Nat
    BY ConfigAssumption DEF TypeOK, Candidates
  <1>6. CASE i = 1
    BY <1>2, <1>3, <1>4, <1>6
  <1>7. CASE i = 2
    <2>1. Key(q)[1] = Key(p)[1]
      BY <1>2, <1>7
    <2> QED
      BY <1>2, <1>3, <1>4, <1>5, <1>7, <2>1
  <1>8. CASE i = 3
    BY <1>2, <1>3, <1>4, <1>5, <1>8
  <1>9. CASE i = 4
    <2>1. Key(q)[3] = Key(p)[3]
      BY <1>2, <1>9
    <2> QED
      BY <1>3, <1>4, <1>5, <2>1
  <1> QED
    BY <1>6, <1>7, <1>8, <1>9

\* Linking a valid event to a log that the memory has taken whole keeps its shape.
LEMMA ShapeKept ==
  ASSUME TypeOK, LogTold, LogShape, eventCount = Len(events),
         NEW e \in Event, ValidEvent(e), Linked(e)
  PROVE  LogShape'
  <1> DEFINE n == Len(events) + 1
  <1>1. /\ DOMAIN events' = DOMAIN events \cup {n} /\ n \notin DOMAIN events
        /\ events'[n] = e /\ \A i \in DOMAIN events : events'[i] = events[i] /\ i < n
        /\ DOMAIN events = 1..eventCount
    <2>1. events' = Append(events, e) /\ events \in Seq(Event)
      BY DEF Linked, TypeOK
    <2> QED
      BY <2>1
  <1> HIDE DEF n
  <1>2. CASE e.kind = "intent"
    <2> DEFINE q == e.proposal
    <2>1. /\ q \in Proposal /\ q.problem \in Candidates /\ q.problem \in Problems
          /\ q.attempt = Len(attempts) + 1 /\ Chosen(q.problem)
      <3>1. q \in Proposal /\ ValidEvent(Intent(q))
        BY <1>2 DEF Event, ValidEvent, Intent
      <3>2. Chosen(q.problem)
        BY <3>1 DEF ValidEvent, Intent, Plan, ProposalFor
      <3> QED
        BY <3>1, <3>2, ValidIntent DEF Candidates, Sequence
    <2>2. \A i \in DOMAIN events : IsIntent(i) => Number(i) \in Nat /\ Number(i) < q.attempt
      <3>1. Len(attempts) \in Nat
        BY DEF TypeOK
      <3> QED
        BY <1>1, <2>1, <3>1 DEF LogTold, IntentsTold
    <2> HIDE DEF q
    <2>3. Numbering'
      <3>1. ASSUME NEW i \in DOMAIN events', NEW j \in DOMAIN events',
                   IsIntent(i)', IsIntent(j)', Number(i)' = Number(j)'
            PROVE  i = j
        BY <1>1, <2>2, <3>1 DEF LogShape, Numbering, IsIntent, Number, q
      <3>2. ASSUME NEW i \in DOMAIN events', IsResult(i)'
            PROVE  \E j \in DOMAIN events' : IsIntent(j)' /\ Number(j)' = events'[i].attempt
        <4>1. i \in DOMAIN events /\ IsResult(i) /\ events'[i] = events[i]
          BY <1>1, <1>2, <3>2 DEF IsResult
        <4>2. PICK j \in DOMAIN events : IsIntent(j) /\ Number(j) = events[i].attempt
          BY <4>1 DEF LogShape, Numbering
        <4> QED
          BY <1>1, <4>1, <4>2 DEF IsIntent, Number
      <3> QED
        BY <3>1, <3>2 DEF Numbering
    <2>4. SettledAlone'
      <3> SUFFICES ASSUME NEW i \in DOMAIN events', NEW j \in DOMAIN events', NEW p \in Problems,
                          i < j, SettledBy(i, p)', Aims(events[i], p)'
                   PROVE  /\ IsIntent(j)' => FamilyOf[events'[j].proposal.problem] # FamilyOf[p]
                          /\ \A r \in Problems :
                                SettledBy(j, r)' /\ Aims(events[j], r)' => FamilyOf[r] # FamilyOf[p]
        BY DEF SettledAlone
      <3>1. ASSUME NEW k \in DOMAIN events, IsResult(k), NEW r
            PROVE  Aims(events[k], r)' <=> Aims(events[k], r)
        <4>1. events'[k] = events[k] /\ events[k].attempt # q.attempt
          <5>1. events[k].attempt \in 1..Len(attempts) /\ Len(attempts) \in Nat
            BY <1>1, <3>1 DEF LogTold, ResultsTold, TypeOK
          <5> QED
            BY <1>1, <2>1, <3>1, <5>1
        <4> QED
          BY <1>1, <4>1 DEF Aims, IsIntent, Number, q
      <3>2. i \in DOMAIN events /\ SettledBy(i, p) /\ IsResult(i) /\ events'[i] = events[i]
        BY <1>1, <1>2 DEF SettledBy, IsResult
      <3>3. Aims(events[i], p)
        BY <3>1, <3>2
      <3>4. CASE j = n
        <4>1. attempts[events[i].attempt].problem = p /\ families[FamilyOf[p]] # None
          BY <1>1, <3>2, <3>3, AimsTold DEF LogTold, ResultsTold
        <4>2. families[FamilyOf[q.problem]] = None
          BY <2>1 DEF Candidates, Available
        <4> QED
          BY <1>1, <1>2, <3>4, <4>1, <4>2 DEF q, SettledBy, IsResult
      <3>5. CASE j \in DOMAIN events
        <4>1. events'[j] = events[j] /\ (IsIntent(j)' <=> IsIntent(j))
              /\ \A r \in Problems : SettledBy(j, r)' <=> SettledBy(j, r)
          BY <1>1, <3>5 DEF IsIntent, SettledBy, IsResult
        <4>2. \A r \in Problems : SettledBy(j, r) => (Aims(events[j], r)' <=> Aims(events[j], r))
          BY <3>1, <3>5 DEF SettledBy
        <4> QED
          BY <3>2, <3>3, <3>5, <4>1, <4>2 DEF LogShape, SettledAlone
      <3> QED
        BY <1>1, <3>4, <3>5
    <2>5. PassedCounted'
      <3> SUFFICES ASSUME NEW p \in Problems, passed'[p] > 0
                   PROVE  passed'[p] + 1 <= Cardinality(Overtakers(p)')
        BY DEF PassedCounted
      <3>1. p # q.problem /\ passed[p] \in Nat
            /\ passed'[p] = IF p \in Candidates /\ Overdue(p) THEN passed[p] + 1 ELSE passed[p]
        BY <1>2 DEF Linked, PassedBy, TypeOK, q
      <3>2. \A k \in DOMAIN events' : IsIntent(k)' /\ events'[k].proposal.problem = p =>
               k \in DOMAIN events /\ events'[k] = events[k]
        BY <1>1, <3>1 DEF q
      <3>3. OvertookBy(q.problem, p)'
        <4>1. \A k \in DOMAIN events' : IsIntent(k)' /\ events'[k].proposal.problem = p =>
                 Number(k)' < q.attempt
          BY <2>2, <3>2 DEF Number, IsIntent
        <4> QED
          BY <1>1, <1>2, <4>1 DEF OvertookBy, IsIntent, Number, q
      <3>4. \A r \in Problems : OvertookBy(r, p) => OvertookBy(r, p)'
        <4> SUFFICES ASSUME NEW r \in Problems, OvertookBy(r, p) PROVE OvertookBy(r, p)'
          OBVIOUS
        <4>1. PICK k \in DOMAIN events : /\ IsIntent(k) /\ events[k].proposal.problem = r
                 /\ \A j \in DOMAIN events :
                       IsIntent(j) /\ events[j].proposal.problem = p => Number(j) < Number(k)
          BY DEF OvertookBy
        <4> QED
          BY <1>1, <3>2, <4>1 DEF OvertookBy, IsIntent, Number
      <3>5. Overtakers(p) \cup {q.problem} \subseteq Overtakers(p)'
        BY <2>1, <3>3, <3>4 DEF Overtakers
      <3>6. IsFiniteSet(Overtakers(p)')
        <4>1. Overtakers(p)' \subseteq Problems
          BY DEF Overtakers
        <4> QED
          BY <4>1, CurriculumAssumption, FS_Subset
      <3>7. /\ Cardinality(Overtakers(p)') \in Nat
            /\ Cardinality(Overtakers(p)) <= Cardinality(Overtakers(p)')
        BY <3>5, <3>6, FS_Subset, FS_CardinalityType
      <3>8. CASE p \in Candidates /\ Overdue(p)
        <4>1. q.problem \notin Overtakers(p)
          <5>1. lastDispatch[q.problem] <= lastDispatch[p]
            BY <2>1, <3>1, <3>8, OldestFirst
          <5>2. lastDispatch[q.problem] \in Nat /\ lastDispatch[p] \in Nat
            BY <2>1, ConfigAssumption DEF TypeOK
          <5> QED
            BY <2>1, <5>1, <5>2, OvertakersTold DEF Overtakers
        <4>2. Cardinality(Overtakers(p) \cup {q.problem}) = Cardinality(Overtakers(p)) + 1
          BY <4>1, OvertakersFinite, FS_AddElement
        <4>3. Cardinality(Overtakers(p)) + 1 <= Cardinality(Overtakers(p)')
          BY <3>5, <3>6, <4>2, FS_Subset
        <4>4. CASE passed[p] > 0
          <5>1. passed[p] + 1 <= Cardinality(Overtakers(p))
            BY <4>4 DEF LogShape, PassedCounted
          <5> QED
            BY <3>1, <3>7, <3>8, <4>3, <5>1, OvertakersFinite
        <4>5. CASE passed[p] = 0
          <5> DEFINE d == lastDispatch[p] + 1
          <5>1. /\ lastDispatch[p] \in Nat /\ Len(attempts) \in Nat
                /\ Len(attempts) - lastDispatch[p] >= MaxWait
                /\ MaxWait \in Nat \ {0}
            BY <3>8, ConfigAssumption DEF TypeOK, Overdue, Sequence
          <5>2. d \in 1..Len(attempts)
            BY <5>1
          <5>3. attempts[d].problem \in Problems
            <6>1. attempts[d] \in Proposal
              BY <5>2 DEF TypeOK
            <6> QED
              BY <6>1 DEF Proposal
          <5>4. lastDispatch[attempts[d].problem] >= d
            BY <5>2 DEF LogTold, DispatchesTold
          <5>5. lastDispatch[attempts[d].problem] > lastDispatch[p]
            <6>1. lastDispatch[attempts[d].problem] \in Nat
              BY <5>3, ConfigAssumption DEF TypeOK
            <6> QED
              BY <5>1, <5>4, <6>1
          <5>6. attempts[d].problem \in Overtakers(p)
            BY <5>3, <5>5, OvertakersTold DEF Overtakers
          <5>7. Cardinality(Overtakers(p)) >= 1
            <6>1. Cardinality(Overtakers(p)) # 0
              BY <5>6, OvertakersFinite, FS_EmptySet
            <6> QED
              BY <6>1, OvertakersFinite
          <5> QED
            BY <3>1, <3>7, <3>8, <4>3, <4>5, <5>7, OvertakersFinite
        <4> QED
          BY <3>1, <4>4, <4>5
      <3>9. CASE ~(p \in Candidates /\ Overdue(p))
        <4>1. passed'[p] = passed[p] /\ passed[p] > 0
          BY <3>1, <3>9
        <4>2. passed[p] + 1 <= Cardinality(Overtakers(p))
          BY <4>1 DEF LogShape, PassedCounted
        <4> QED
          BY <3>1, <3>7, <4>1, <4>2, OvertakersFinite
      <3> QED
        BY <3>8, <3>9
    <2> QED
      BY <2>3, <2>4, <2>5 DEF LogShape
  <1>3. CASE e.kind = "result"
    <2>1. e.attempt \in Pending /\ e.attempt \in 1..Len(attempts)
      BY <1>3 DEF ValidEvent, Pending, TypeOK
    <2>2. /\ \A i \in DOMAIN events' : IsIntent(i)' => i \in DOMAIN events
          /\ \A i \in DOMAIN events : /\ IsIntent(i)' <=> IsIntent(i)
                                      /\ IsResult(i)' <=> IsResult(i)
                                      /\ Number(i)' = Number(i)
                                      /\ \A r : SettledBy(i, r)' <=> SettledBy(i, r)
      BY <1>1, <1>3 DEF IsIntent, IsResult, Number, SettledBy
    <2>3. \A f, r : (\E k \in DOMAIN events' :
              IsIntent(k)' /\ Number(k)' = f.attempt /\ events'[k].proposal.problem = r)
            <=> Aims(f, r)
      BY <1>1, <2>2 DEF Aims
    <2>4. Numbering'
      <3>1. \E j \in DOMAIN events : IsIntent(j) /\ Number(j) = e.attempt
        <4>1. PICK i \in 1..eventCount : IsIntent(i) /\ events[i].proposal = attempts[e.attempt]
          BY <2>1 DEF LogTold, AttemptsTold
        <4>2. Number(i) = e.attempt
          BY <2>1, <4>1 DEF LogTold, AttemptsTold, Number
        <4> QED
          BY <1>1, <4>1, <4>2
      <3>2. ASSUME NEW i \in DOMAIN events', NEW j \in DOMAIN events',
                   IsIntent(i)', IsIntent(j)', Number(i)' = Number(j)'
            PROVE  i = j
        BY <2>2, <3>2 DEF LogShape, Numbering
      <3>3. ASSUME NEW i \in DOMAIN events', IsResult(i)'
            PROVE  \E j \in DOMAIN events' : IsIntent(j)' /\ Number(j)' = events'[i].attempt
        <4>1. \E j \in DOMAIN events : IsIntent(j) /\ Number(j) = events'[i].attempt
          BY <1>1, <2>2, <3>1, <3>3 DEF LogShape, Numbering
        <4> QED
          BY <1>1, <2>2, <4>1
      <3> QED
        BY <3>2, <3>3 DEF Numbering
    <2>5. SettledAlone'
      <3> SUFFICES ASSUME NEW i \in DOMAIN events', NEW j \in DOMAIN events', NEW p \in Problems,
                          i < j, SettledBy(i, p)', Aims(events[i], p)'
                   PROVE  /\ IsIntent(j)' => FamilyOf[events'[j].proposal.problem] # FamilyOf[p]
                          /\ \A r \in Problems :
                                SettledBy(j, r)' /\ Aims(events[j], r)' => FamilyOf[r] # FamilyOf[p]
        BY DEF SettledAlone
      <3>1. i \in DOMAIN events
        <4>1. i # n
          <5>1. n \in Nat /\ \A k \in DOMAIN events' : k \in Nat /\ k <= n
            BY <1>1 DEF n, TypeOK
          <5> QED
            BY <5>1
        <4> QED
          BY <1>1, <4>1
      <3>2. SettledBy(i, p) /\ events'[i] = events[i] /\ Aims(events[i], p)
        BY <1>1, <2>2, <2>3, <3>1 DEF Aims
      <3>3. CASE j = n
        <4>1. attempts[events[i].attempt].problem = p /\ families[FamilyOf[p]] # None
          BY <1>1, <3>1, <3>2, AimsTold DEF LogTold, ResultsTold, SettledBy
        <4>2. ASSUME NEW r \in Problems, SettledBy(j, r)', Aims(events[j], r)'
              PROVE  FamilyOf[r] # FamilyOf[p]
          <5>1. Aims(e, r) /\ r \in Targets
            BY <1>1, <2>3, <3>3, <4>2 DEF Aims, SettledBy
          <5>2. attempts[e.attempt].problem = r
            BY <2>1, <5>1, AimsTold
          <5>3. families[FamilyOf[r]] = None
            BY <2>1, <5>1, <5>2 DEF LogTold, OpenFamilies
          <5> QED
            BY <4>1, <5>3
        <4>3. ~IsIntent(j)'
          BY <1>1, <1>3, <3>3 DEF IsIntent
        <4> QED
          BY <4>2, <4>3
      <3>4. CASE j \in DOMAIN events
        <4>0. events'[j] = events[j]
          BY <1>1, <3>4
        <4>1. \A r : Aims(events[j], r)' <=> Aims(events[j], r)
          <5>1. \A r : (\E k \in DOMAIN events' : IsIntent(k)' /\ Number(k)' = events[j].attempt
                          /\ events'[k].proposal.problem = r) <=> Aims(events[j], r)
            BY <2>3
          <5> QED
            BY <4>0, <5>1 DEF Aims
        <4> QED
          BY <2>2, <3>1, <3>2, <3>4, <4>0, <4>1 DEF LogShape, SettledAlone
      <3> QED
        BY <1>1, <3>3, <3>4
    <2>6. PassedCounted'
      <3>1. \A p \in Problems : Overtakers(p)' = Overtakers(p)
        BY <1>1, <2>2 DEF Overtakers, OvertookBy
      <3>2. passed' = passed
        BY <1>3 DEF Linked, PassedBy
      <3> QED
        BY <3>1, <3>2 DEF LogShape, PassedCounted
    <2> QED
      BY <2>4, <2>5, <2>6 DEF LogShape
  <1> QED
    BY <1>2, <1>3 DEF ValidEvent

\* A step touches the log and the memory in one of five ways.
LEMMA LogStep ==
  ASSUME TypeOK, LogApplied, [Next]_vars
  PROVE  \/ UNCHANGED <<events, passed, memory>>
         \/ UNCHANGED <<events, passed>> /\ InitialMemory'
         \/ /\ UNCHANGED <<events, passed>> /\ eventCount < Len(events)
            /\ events[eventCount + 1] \in Event
            /\ ValidEvent(events[eventCount + 1]) /\ Apply(events[eventCount + 1])
         \/ /\ eventCount = Len(events)
            /\ \E e \in Event : /\ ValidEvent(e) /\ Linked(e)
                                /\ UNCHANGED memory \/ Apply(e)
  <1>1. ASSUME NEW e \in Event, phase = "live", ValidEvent(e), Published(e) \/ PublishFails(e)
        PROVE  \/ UNCHANGED <<events, passed, memory>>
               \/ /\ eventCount = Len(events)
                  /\ ValidEvent(e) /\ Linked(e)
                  /\ UNCHANGED memory \/ Apply(e)
    BY <1>1 DEF Published, PublishFails, LogApplied
  <1>2. ASSUME NEW c \in Callers, NEW r \in Releases, PlanNext(c, r)
        PROVE  UNCHANGED <<events, passed, memory>>
    BY <1>2 DEF PlanNext
  <1>3. ASSUME NEW c \in Callers, Reserve(c)
        PROVE  /\ Intent(held[c]) \in Event /\ phase = "live" /\ ValidEvent(Intent(held[c]))
               /\ Published(Intent(held[c])) \/ PublishFails(Intent(held[c]))
    BY <1>3, EventTypes DEF Reserve, TypeOK
  <1>4. ASSUME NEW c \in Callers, ReserveStale(c)
        PROVE  UNCHANGED <<events, passed, memory>>
    BY <1>4 DEF ReserveStale
  <1>5. ASSUME NEW a \in 1..MaxAttempts, NEW o \in Outcomes, RecordResult(a, o)
        PROVE  /\ Result(a, o) \in Event /\ phase = "live" /\ ValidEvent(Result(a, o))
               /\ Published(Result(a, o)) \/ PublishFails(Result(a, o))
    BY <1>5, EventTypes DEF RecordResult
  <1>6. CASE Stop
    BY <1>6 DEF Stop, InitialMemory
  <1>7. CASE ReplayEvent
    BY <1>7 DEF ReplayEvent, TypeOK
  <1>8. CASE Open \/ FinishOpen \/ UNCHANGED vars
    BY <1>8 DEF Open, FinishOpen, vars
  <1> QED
    BY <1>1, <1>2, <1>3, <1>4, <1>5, <1>6, <1>7, <1>8 DEF Next

\* What the memory tells of the log, and the shape of the log, at every moment: while
\* the process serves, after a lost publication, while it is down and at any point of
\* a replay.
THEOREM LogIsTold == Spec => [](LogTold /\ LogShape)
  <1>1. Init => LogTold /\ LogShape
    BY DEF Init, InitialMemory, LogTold, IntentsTold, AttemptsTold, ResultsTold, OpenFamilies,
       DispatchesTold, Pending, LogShape, Numbering, SettledAlone, PassedCounted
  <1>2. TypeOK /\ LogApplied /\ InflightDisjoint /\ LogTold /\ LogShape /\ [Next]_vars
           => LogTold' /\ LogShape'
    <2> SUFFICES ASSUME TypeOK, LogApplied, InflightDisjoint, LogTold, LogShape, [Next]_vars
                 PROVE  LogTold' /\ LogShape'
      OBVIOUS
    <2>0. ASSUME UNCHANGED <<events, passed>>
          PROVE  LogShape'
      BY <2>0 DEF LogShape, Numbering, SettledAlone, PassedCounted, IsIntent, IsResult, Number,
         SettledBy, Aims, Overtakers, OvertookBy
    <2>1. CASE UNCHANGED <<events, passed, memory>>
      <3>1. LogTold'
        BY <2>1 DEF LogTold, IntentsTold, AttemptsTold, ResultsTold, OpenFamilies,
           DispatchesTold, Pending, IsIntent, IsResult, Number, SettledBy, memory
      <3> QED
        BY <2>0, <2>1, <3>1
    <2>2. CASE UNCHANGED <<events, passed>> /\ InitialMemory'
      <3>1. LogTold'
        BY <2>2 DEF InitialMemory, LogTold, IntentsTold, AttemptsTold, ResultsTold,
           OpenFamilies,
           DispatchesTold, Pending
      <3> QED
        BY <2>0, <2>2, <3>1
    <2>3. CASE /\ UNCHANGED <<events, passed>> /\ eventCount < Len(events)
               /\ events[eventCount + 1] \in Event
               /\ ValidEvent(events[eventCount + 1]) /\ Apply(events[eventCount + 1])
      <3>1. eventCount' = eventCount + 1 /\ eventCount' <= Len(events')
        BY <2>3 DEF Apply, TypeOK
      <3>2. LogTold'
        BY <2>3, <3>1, ToldKept
      <3> QED
        BY <2>0, <2>3, <3>2
    <2>4. ASSUME NEW e \in Event, eventCount = Len(events), ValidEvent(e), Linked(e)
          PROVE  /\ LogShape'
                 /\ UNCHANGED memory \/ Apply(e) => LogTold'
      <3>1. LogShape'
        BY <2>4, ShapeKept
      <3>2. /\ events' = Append(events, e) /\ Len(events') = Len(events) + 1
            /\ events'[Len(events) + 1] = e
            /\ \A i \in 1..eventCount : events'[i] = events[i]
        BY <2>4 DEF Linked, TypeOK
      <3>3. ASSUME UNCHANGED memory PROVE LogTold'
        <4>1. UNCHANGED <<attempts, results, lastDispatch, families, eventCount>>
          BY <3>3 DEF memory
        <4>2. \A i \in 1..eventCount : /\ IsIntent(i)' <=> IsIntent(i)
                                       /\ IsResult(i)' <=> IsResult(i)
                                       /\ Number(i)' = Number(i)
                                       /\ events'[i] = events[i]
                                       /\ \A r : SettledBy(i, r)' <=> SettledBy(i, r)
          BY <3>2 DEF IsIntent, IsResult, Number, SettledBy
        <4>3. OpenFamilies' /\ DispatchesTold'
          BY <4>1 DEF LogTold, OpenFamilies, DispatchesTold, Pending
        <4>5. IntentsTold'
          BY <4>1, <4>2 DEF LogTold, IntentsTold
        <4>6. AttemptsTold'
          BY <4>1, <4>2 DEF LogTold, AttemptsTold
        <4>4. ResultsTold'
          BY <4>1, <4>2 DEF LogTold, ResultsTold
        <4> QED
          BY <4>3, <4>4, <4>5, <4>6 DEF LogTold
      <3>4. ASSUME Apply(e) PROVE LogTold'
        <4>1. eventCount' = Len(events') /\ Len(events') \in Nat
          BY <2>4, <3>2, <3>4 DEF Apply, TypeOK
        <4>2. eventCount' <= Len(events') /\ events'[eventCount'] = e
          BY <2>4, <3>2, <4>1
        <4> QED
          BY <2>4, <3>2, <3>4, <4>2, ToldKept
      <3> QED
        BY <3>1, <3>3, <3>4
    <2> QED
      BY <2>1, <2>2, <2>3, <2>4, LogStep
  <1> QED
    BY <1>1, <1>2, TypeCorrect, DispatchedOnce, InflightSafe, PTL DEF Spec

\* The first accepted target result settles its family for good (FamilySettledOnce),
\* whatever is lost, replayed or reconciled: one target in a family, one attempt in
\* flight on it, and no intent for a settled family.
THEOREM FamilySettled == Spec => []FamilySettledOnce
  <1>1. TypeOK /\ LogShape => FamilySettledOnce
    <2> SUFFICES ASSUME TypeOK, LogShape PROVE FamilySettledOnce
      OBVIOUS
    <2> DEFINE intentsOf(e) == {k \in DOMAIN events : events[k].kind = "intent"
                                     /\ events[k].proposal.attempt = e.attempt}
               problemOf(e) == events[CHOOSE k \in intentsOf(e) : TRUE].proposal.problem
    <2>1. ASSUME NEW i \in DOMAIN events, IsResult(i)
          PROVE  Aims(events[i], problemOf(events[i])) /\ problemOf(events[i]) \in Problems
      <3> DEFINE m == CHOOSE k \in intentsOf(events[i]) : TRUE
      <3>1. \E k \in intentsOf(events[i]) : TRUE
        BY <2>1 DEF LogShape, Numbering, IsIntent, Number
      <3>2. m \in intentsOf(events[i])
        BY <3>1
      <3>3. events[m] \in Event /\ events[m].kind = "intent"
        BY <3>2 DEF TypeOK
      <3>4. events[m].proposal.problem \in Problems
        BY <3>3 DEF Event, Proposal
      <3> QED
        BY <3>2, <3>4 DEF Aims, IsIntent, Number
    <2> HIDE DEF intentsOf
    <2> SUFFICES ASSUME NEW i \in DOMAIN events, NEW j \in DOMAIN events, i < j,
                        events[i].kind = "result", events[i].outcome = "accepted",
                        problemOf(events[i]) \in Targets
                 PROVE  /\ events[j].kind = "intent" =>
                              FamilyOf[events[j].proposal.problem] # FamilyOf[problemOf(events[i])]
                        /\ (/\ events[j].kind = "result" /\ events[j].outcome = "accepted"
                            /\ problemOf(events[j]) \in Targets) =>
                              FamilyOf[problemOf(events[j])] # FamilyOf[problemOf(events[i])]
      BY DEF FamilySettledOnce, intentsOf
    <2>2. SettledBy(i, problemOf(events[i])) /\ Aims(events[i], problemOf(events[i]))
          /\ problemOf(events[i]) \in Problems
      BY <2>1 DEF SettledBy, IsResult
    <2>3. (/\ events[j].kind = "result" /\ events[j].outcome = "accepted"
           /\ problemOf(events[j]) \in Targets) =>
              /\ SettledBy(j, problemOf(events[j])) /\ Aims(events[j], problemOf(events[j]))
              /\ problemOf(events[j]) \in Problems
      BY <2>1 DEF SettledBy, IsResult
    <2> HIDE DEF problemOf
    <2> QED
      BY <2>2, <2>3 DEF LogShape, SettledAlone, IsIntent
  <1> QED
    BY <1>1, LogIsTold, TypeCorrect, PTL

\* The starvation guard (OverdueNotStarved): who overtakes an overdue problem is from
\* then on dispatched later than it, and so is the problem that made it overdue.
THEOREM NotStarved == Spec => []OverdueNotStarved
  <1>1. TypeOK /\ LogShape => OverdueNotStarved
    <2> SUFFICES ASSUME TypeOK, LogShape, NEW p \in Problems, passed[p] > 0
                 PROVE  passed[p] <= Cardinality(Problems) - 2
      BY DEF OverdueNotStarved
    <2>1. passed[p] + 1 <= Cardinality(Overtakers(p))
      BY DEF LogShape, PassedCounted
    <2>2. Overtakers(p) \subseteq Problems \ {p}
      BY OvertakersFinite DEF Overtakers
    <2>3. /\ Cardinality(Problems \ {p}) = Cardinality(Problems) - 1
          /\ IsFiniteSet(Problems \ {p}) /\ Cardinality(Problems) \in Nat
      BY CurriculumAssumption, FS_RemoveElement, FS_CardinalityType
    <2>4. Cardinality(Overtakers(p)) <= Cardinality(Problems \ {p})
      BY <2>2, <2>3, FS_Subset
    <2>5. passed[p] \in Nat
      BY DEF TypeOK
    <2> QED
      BY <2>1, <2>3, <2>4, <2>5, OvertakersFinite
  <1> QED
    BY <1>1, LogIsTold, TypeCorrect, PTL

-----------------------------------------------------------------------------
(* Replay.  Planning and validation read nothing but the memory, so that   *)
(* the log has one history of memories, whichever process makes it.        *)

\* The rules of the scheduler over a given memory m, for a process without recovered
\* intents, as one that replays is.
At(m) == INSTANCE Matchmaker WITH
    attempts <- m.attempts, results <- m.results, history <- m.history,
    lastDispatch <- m.lastDispatch, families <- m.families, disproved <- m.disproved,
    reserved <- m.reserved, eventCount <- m.eventCount, recovered <- {}

Memory ==
    [attempts |-> attempts, results |-> results, history |-> history,
     lastDispatch |-> lastDispatch, families |-> families, disproved |-> disproved,
     reserved |-> reserved, eventCount |-> eventCount]

BlankMemory ==
    [attempts |-> <<>>, results |-> <<>>, history |-> [p \in Problems |-> <<>>],
     lastDispatch |-> [p \in Problems |-> 0], families |-> [f \in Families |-> None],
     disproved |-> {}, reserved |-> 0, eventCount |-> 0]

\* The memory after an intent, and after a result, that memory m takes.
AfterIntent(m, q) ==
    [attempts |-> Append(m.attempts, q), results |-> Append(m.results, None),
     history |-> m.history,
     lastDispatch |-> [m.lastDispatch EXCEPT ![q.problem] = q.attempt],
     families |-> m.families, disproved |-> m.disproved,
     reserved |-> m.reserved + q.budget, eventCount |-> m.eventCount + 1]

AfterResult(m, a, outcome) ==
    LET problem  == m.attempts[a].problem
        verdict  == VerdictOf(m.attempts[a])
        accepted == outcome = "accepted"
    IN  [attempts |-> m.attempts, results |-> [m.results EXCEPT ![a] = outcome],
         history |-> IF Known(outcome)
                     THEN [m.history EXCEPT ![problem] = Append(@, outcome)] ELSE m.history,
         lastDispatch |-> m.lastDispatch,
         families |-> IF accepted /\ problem \in Targets
                      THEN [m.families EXCEPT ![FamilyOf[problem]] = verdict] ELSE m.families,
         disproved |-> IF accepted /\ verdict = "disproved"
                       THEN m.disproved \cup {problem} ELSE m.disproved,
         reserved |-> m.reserved, eventCount |-> m.eventCount + 1]

After(m, e) ==
    IF e.kind = "intent" THEN AfterIntent(m, e.proposal) ELSE AfterResult(m, e.attempt, e.outcome)

\* The memories on the way through the log: each event was valid in the one before it.
Course(course) ==
    /\ course[0] = BlankMemory
    /\ \A k \in 1..Len(events) :
          /\ At(course[k - 1])!ValidEvent(events[k])
          /\ course[k] = After(course[k - 1], events[k])

\* The memory is the one at its event of the course that the log has.
MemoryReplays == \E course : Course(course) /\ Memory = course[eventCount]

\* The rules over the memory the process has are its rules, but for what it recovered.
LEMMA RulesAt ==
  ASSUME NEW e
  PROVE  /\ ValidEvent(e) => At(Memory)!ValidEvent(e)
         /\ recovered = {} /\ At(Memory)!ValidEvent(e) => ValidEvent(e)
  <1> DEFINE m == Memory
  <1>1. /\ m.attempts = attempts /\ m.results = results /\ m.history = history
        /\ m.lastDispatch = lastDispatch /\ m.families = families /\ m.disproved = disproved
        /\ m.reserved = reserved /\ m.eventCount = eventCount
    BY DEF Memory
  <1> HIDE DEF m
  <1>2. At(m)!Pending = Pending /\ At(m)!Unknown = Unknown
    BY <1>1 DEF At!Pending, Pending, At!Unknown, Unknown
  <1>3. At(m)!PendingProblems = PendingProblems
    BY <1>1, <1>2 DEF At!PendingProblems, PendingProblems
  <1>4. \A S : At(m)!Cardinality(S) = Cardinality(S)
    BY DEF At!Cardinality, Cardinality
  <1>5. \A p : At(m)!Window(p) = Window(p)
    BY <1>1 DEF At!Window, Window
  <1>6. \A p : At(m)!Budget(p) = Budget(p)
    BY <1>1, <1>4, <1>5 DEF At!Budget, Budget
  <1>7. \A p : At(m)!Priority(p) = Priority(p)
    BY <1>1, <1>4, <1>5 DEF At!Priority, Priority
  <1>8. At(m)!Sequence = Sequence
    BY <1>1 DEF At!Sequence, Sequence
  <1>9. \A p : At(m)!Overdue(p) <=> Overdue(p)
    BY <1>1, <1>8 DEF At!Overdue, Overdue
  <1>10. \A p : At(m)!Key(p) = Key(p)
    BY <1>1, <1>7, <1>9 DEF At!Key, Key
  <1>11. \A p : At(m)!Available(p) /\ At(m)!Affordable(p) <=> Available(p) /\ Affordable(p)
    BY <1>1, <1>3, <1>6 DEF At!Available, At!Affordable, Available, Affordable
  <1>12. At(m)!Candidates = Candidates
    BY <1>11 DEF At!Candidates, Candidates
  <1>13. \A k, l : At(m)!Before(k, l) <=> Before(k, l)
    BY DEF At!Before, Before
  <1>14. \A p : At(m)!Chosen(p) <=> Chosen(p)
    BY <1>10, <1>12, <1>13 DEF At!Chosen, Chosen
  <1>15. \A p, r : At(m)!ProposalFor(p, r) = ProposalFor(p, r)
    BY <1>1, <1>6, <1>8 DEF At!ProposalFor, ProposalFor
  <1>16. At(m)!Blocked <=> Unknown # {}
    BY <1>2 DEF At!Blocked
  <1>17. ASSUME NEW r, NEW q
         PROVE  /\ q \in Plan(r) => q \in At(m)!Plan(r)
                /\ recovered = {} /\ q \in At(m)!Plan(r) => q \in Plan(r)
    BY <1>3, <1>4, <1>8, <1>14, <1>15, <1>16 DEF At!Plan, Plan, Blocked
  <1>18. At(m)!ValidEvent(e) <=> \/ e.kind = "intent" /\ e.proposal \in At(m)!Plan(e.proposal.release)
                                 \/ /\ e.kind = "result" /\ e.attempt \in Pending
                                    /\ e.outcome \in Outcomes
    BY <1>2 DEF At!ValidEvent, At!Outcomes, Outcomes
  <1> QED
    BY <1>17, <1>18 DEF ValidEvent, m

\* Applying an event makes the memory that follows.
LEMMA MemoryAfter ==
  ASSUME NEW e, Apply(e)
  PROVE  Memory' = After(Memory, e)
  <1> DEFINE m == Memory
  <1>1. /\ m.attempts = attempts /\ m.results = results /\ m.history = history
        /\ m.lastDispatch = lastDispatch /\ m.families = families /\ m.disproved = disproved
        /\ m.reserved = reserved /\ m.eventCount = eventCount
    BY DEF Memory
  <1> HIDE DEF m
  <1>2. CASE e.kind = "intent" /\ ApplyIntent(e.proposal) /\ eventCount' = eventCount + 1
    <2>1. After(m, e) = AfterIntent(m, e.proposal)
      BY <1>2 DEF After
    <2> QED
      BY <1>1, <1>2, <2>1 DEF AfterIntent, ApplyIntent, DispatchDated, Memory, m
  <1>3. CASE e.kind = "result" /\ ApplyResult(e.attempt, e.outcome) /\ eventCount' = eventCount + 1
    <2>1. After(m, e) = AfterResult(m, e.attempt, e.outcome)
      BY <1>3 DEF After
    <2> QED
      BY <1>1, <1>3, <2>1 DEF AfterResult, ApplyResult, Memory, m
  <1> QED
    BY <1>2, <1>3 DEF Apply, m

\* An event that was valid goes on with the course of the log.
LEMMA CourseGoesOn ==
  ASSUME TypeOK, MemoryReplays, eventCount = Len(events),
         NEW e \in Event, ValidEvent(e), Linked(e), UNCHANGED memory \/ Apply(e)
  PROVE  MemoryReplays'
  <1> DEFINE n == Len(events) + 1
  <1>1. PICK course : Course(course) /\ Memory = course[Len(events)]
    BY DEF MemoryReplays
  <1>2. /\ Len(events) \in Nat /\ Len(events') = n /\ events'[n] = e
        /\ \A k \in 1..Len(events) : events'[k] = events[k]
    <2>1. events' = Append(events, e) /\ events \in Seq(Event)
      BY DEF Linked, TypeOK
    <2> QED
      BY <2>1
  <1>3. PICK longer :
           /\ longer[n] = After(Memory, e) /\ longer[n - 1] = Memory
           /\ \A k \in 0..Len(events) : longer[k] = course[k]
    <2> DEFINE long == [k \in 0..n |-> IF k = n THEN After(Memory, e) ELSE course[k]]
    <2>1. /\ long[n] = After(Memory, e) /\ long[n - 1] = Memory
          /\ \A k \in 0..Len(events) : long[k] = course[k]
      BY <1>1, <1>2
    <2> QED
      BY <2>1
  <1>4. \A k \in 1..n : k = n \/ (k \in 1..Len(events) /\ k - 1 \in 0..Len(events))
    BY <1>2
  <1> HIDE DEF n
  <1>5. longer[0] = BlankMemory
    BY <1>1, <1>2, <1>3 DEF Course
  <1>6. ASSUME NEW k \in 1..n
        PROVE  /\ At(longer[k - 1])!ValidEvent(events'[k])
               /\ longer[k] = After(longer[k - 1], events'[k])
    <2>1. CASE k = n
      BY <1>2, <1>3, <2>1, RulesAt
    <2>2. CASE k \in 1..Len(events) /\ k - 1 \in 0..Len(events)
      BY <1>1, <1>2, <1>3, <2>2 DEF Course
    <2> QED
      BY <1>4, <2>1, <2>2
  <1>7. Course(longer)'
    BY <1>2, <1>5, <1>6 DEF Course
  <1>8. Memory' = longer[eventCount']
    <2>1. CASE UNCHANGED memory
      BY <1>1, <1>2, <1>3, <2>1 DEF memory, Memory
    <2>2. CASE Apply(e)
      BY <1>2, <1>3, <2>2, MemoryAfter DEF Apply, n
    <2> QED
      BY <2>1, <2>2
  <1> QED
    BY <1>7, <1>8 DEF MemoryReplays

\* Replay rebuilds the memory: with the log goes one course of memories, each event of
\* which was valid, and every process that serves or replays the run is on it; a log
\* of this code is never refused when it is opened again (ReopenAccepts).
THEOREM ReplayAccepts == Spec => [](MemoryReplays /\ ReopenAccepts)
  <1> DEFINE Fresh == phase \in {"down", "opening"} => recovered = {}
  <1>1. Init => MemoryReplays /\ Fresh
    <2> SUFFICES ASSUME Init PROVE MemoryReplays
      BY DEF Init
    <2>1. Memory = BlankMemory /\ Len(events) = 0 /\ eventCount = 0
      BY DEF Init, InitialMemory, Memory, BlankMemory
    <2> DEFINE course == [k \in {0} |-> BlankMemory]
    <2>2. Course(course) /\ Memory = course[eventCount]
      BY <2>1 DEF Course
    <2> QED
      BY <2>2 DEF MemoryReplays
  <1>2. TypeOK /\ LogApplied /\ MemoryReplays /\ [Next]_vars => MemoryReplays'
    <2> SUFFICES ASSUME TypeOK, LogApplied, MemoryReplays, [Next]_vars PROVE MemoryReplays'
      OBVIOUS
    <2>0. PICK course : Course(course) /\ Memory = course[eventCount]
      BY DEF MemoryReplays
    <2>1. ASSUME UNCHANGED events
          PROVE  Course(course)'
      BY <2>0, <2>1 DEF Course
    <2>2. CASE UNCHANGED <<events, passed, memory>>
      <3>1. Memory' = Memory /\ eventCount' = eventCount
        BY <2>2 DEF Memory, memory
      <3> QED
        BY <2>0, <2>1, <2>2, <3>1 DEF MemoryReplays
    <2>3. CASE UNCHANGED <<events, passed>> /\ InitialMemory'
      <3>1. Memory' = BlankMemory /\ eventCount' = 0
        BY <2>3 DEF InitialMemory, Memory, BlankMemory
      <3>2. Course(course)' /\ Memory' = course[eventCount']
        BY <2>0, <2>1, <2>3, <3>1 DEF Course
      <3> QED
        BY <3>2 DEF MemoryReplays
    <2>4. CASE /\ UNCHANGED <<events, passed>> /\ eventCount < Len(events)
               /\ events[eventCount + 1] \in Event
               /\ ValidEvent(events[eventCount + 1]) /\ Apply(events[eventCount + 1])
      <3>1. Memory' = After(Memory, events[eventCount + 1]) /\ eventCount' = eventCount + 1
        BY <2>4, MemoryAfter DEF Apply
      <3>2. eventCount \in Nat /\ Len(events) \in Nat
        BY DEF TypeOK
      <3>3. eventCount + 1 \in 1..Len(events) /\ (eventCount + 1) - 1 = eventCount
        BY <2>4, <3>2
      <3>4. course[eventCount + 1] = After(Memory, events[eventCount + 1])
        BY <2>0, <3>3 DEF Course
      <3>5. Course(course)' /\ Memory' = course[eventCount']
        BY <2>1, <2>4, <3>1, <3>4
      <3> QED
        BY <3>5 DEF MemoryReplays
    <2>5. ASSUME NEW e \in Event, eventCount = Len(events), ValidEvent(e), Linked(e),
                 UNCHANGED memory \/ Apply(e)
          PROVE  MemoryReplays'
      BY <2>5, CourseGoesOn
    <2> QED
      BY <2>2, <2>3, <2>4, <2>5, LogStep
  <1>3. Fresh /\ [Next]_vars => Fresh'
    <2> SUFFICES ASSUME Fresh, [Next]_vars PROVE Fresh'
      OBVIOUS
    <2>1. ASSUME NEW c \in Callers, NEW r \in Releases, PlanNext(c, r)
          PROVE  Fresh'
      BY <2>1 DEF PlanNext
    <2>2. ASSUME NEW c \in Callers, Reserve(c) \/ ReserveStale(c)
          PROVE  Fresh'
      BY <2>2 DEF Reserve, ReserveStale, Published, PublishFails
    <2>3. ASSUME NEW a \in 1..MaxAttempts, NEW o \in Outcomes, RecordResult(a, o)
          PROVE  Fresh'
      BY <2>3 DEF RecordResult, Published, PublishFails
    <2>4. CASE Stop \/ Open \/ ReplayEvent \/ FinishOpen \/ UNCHANGED vars
      BY <2>4 DEF Stop, Open, ReplayEvent, FinishOpen, vars
    <2> QED
      BY <2>1, <2>2, <2>3, <2>4 DEF Next
  <1>4. TypeOK /\ MemoryReplays /\ Fresh => ReopenAccepts
    <2> SUFFICES ASSUME TypeOK, MemoryReplays, recovered = {}, eventCount < Len(events)
                 PROVE  ValidEvent(events[eventCount + 1])
      BY DEF ReopenAccepts
    <2>1. PICK course : Course(course) /\ Memory = course[eventCount]
      BY DEF MemoryReplays
    <2>2. eventCount + 1 \in 1..Len(events) /\ (eventCount + 1) - 1 = eventCount
      BY DEF TypeOK
    <2>3. At(Memory)!ValidEvent(events[eventCount + 1])
      BY <2>1, <2>2 DEF Course
    <2> QED
      BY <2>3, RulesAt
  <1> QED
    BY <1>1, <1>2, <1>3, <1>4, TypeCorrect, DispatchedOnce, PTL DEF Spec

-----------------------------------------------------------------------------
(* The memory is the log: what a process holds, told from the whole prefix *)
(* of the log it has taken.                                                *)

\* A non-empty set of naturals has a least element.
LEMMA LeastExists ==
  ASSUME NEW S \in SUBSET Nat, S # {}
  PROVE  \E r \in S : \A s \in S : r <= s
  <1>1. PICK r \in S : \A s \in S : ~ (<<s, r>> \in OpToRel(<, Nat))
    BY WFMin, NatLessThanWellFounded
  <1>2. ASSUME NEW s \in S
        PROVE  r <= s
    <2>1. <<s, r>> \in Nat \X Nat /\ ~ (s < r)
      BY <1>1 DEF OpToRel
    <2> QED
      BY <2>1
  <1> QED
    BY <1>2

\* A list of what is said of some event numbers goes on with that of the next number.
LEMMA ListsGrows ==
  ASSUME NEW n \in Nat, NEW S \in SUBSET (1..n), NEW V, NEW seq \in Seq(V), NEW v \in V,
         NEW old, NEW new, Lists(seq, S, old), \A i \in S : new[i] = old[i], new[n + 1] = v
  PROVE  Lists(Append(seq, v), S \cup {n + 1}, new)
  <1> DEFINE T == S \cup {n + 1}
             upTo(R, i) == {j \in R : j <= i}
  <1>1. IsFiniteSet(S) /\ n + 1 \notin S /\ \A i \in S : i \in Nat /\ i < n + 1
    <2>1. IsFiniteSet(1..n)
      BY FS_Interval
    <2>2. IsFiniteSet(S)
      BY <2>1, FS_Subset
    <2>3. \A i \in S : i \in 1..n
      OBVIOUS
    <2> QED
      BY <2>2, <2>3
  <1>2. Cardinality(S) = Len(seq) /\ Len(seq) \in Nat
    BY DEF Lists
  <1>3. Cardinality(T) = Len(seq) + 1
    BY <1>1, <1>2, FS_AddElement
  <1>4. ASSUME NEW i \in S
        PROVE  Append(seq, v)[Cardinality(upTo(T, i))] = new[i]
    <2>1. upTo(T, i) = upTo(S, i)
      BY <1>1
    <2>2. seq[Cardinality(upTo(S, i))] = new[i]
      BY DEF Lists
    <2>3. Cardinality(upTo(S, i)) \in 1..Len(seq)
      <3>1. upTo(S, i) \subseteq S /\ i \in upTo(S, i)
        BY <1>1
      <3>2. /\ IsFiniteSet(upTo(S, i)) /\ Cardinality(upTo(S, i)) \in Nat
            /\ Cardinality(upTo(S, i)) <= Len(seq)
        BY <1>1, <1>2, <3>1, FS_Subset, FS_CardinalityType
      <3>3. Cardinality(upTo(S, i)) # 0
        BY <3>1, <3>2, FS_EmptySet
      <3> QED
        BY <1>2, <3>2, <3>3
    <2> HIDE DEF upTo
    <2> QED
      BY <2>1, <2>2, <2>3
  <1>5. Append(seq, v)[Cardinality(upTo(T, n + 1))] = new[n + 1]
    <2>1. upTo(T, n + 1) = T
      <3>1. \A j \in T : j <= n + 1
        BY <1>1
      <3> QED
        BY <3>1
    <2>2. Append(seq, v)[Len(seq) + 1] = v
      OBVIOUS
    <2> QED
      BY <1>3, <2>1, <2>2
  <1>6. Len(Append(seq, v)) = Cardinality(T)
    BY <1>3
  <1> QED
    BY <1>4, <1>5, <1>6 DEF Lists

\* Partial sums of the budgets that lead to the reserved steps.
Summed ==
    \E w \in [0..Len(attempts) -> Nat] :
        /\ w[0] = 0 /\ w[Len(attempts)] = reserved
        /\ \A n \in 1..Len(attempts) : w[n] = w[n - 1] + attempts[n].budget

\* The inductive invariant behind MemoryIsLog, but for what LogTold says already.
Recorded == AttemptsAreLogged /\ ResultsAreLogged /\ HistoryIsLogged /\ Summed /\ VerdictsAreLogged

\* The sum the specification takes is the one the partial sums lead to.
LEMMA SpentIs ==
  ASSUME TypeOK, Summed
  PROVE  reserved = Spent[Len(attempts)]
  <1> DEFINE L == Len(attempts)
             body(f, k) == IF k = 0 THEN 0 ELSE f[k - 1] + attempts[k].budget
             sum == CHOOSE f : f = [k \in 0..L |-> body(f, k)]
  <1>1. L \in Nat
    BY DEF TypeOK
  <1>2. PICK w \in [0..L -> Nat] : /\ w[0] = 0 /\ w[L] = reserved
                                   /\ \A k \in 1..L : w[k] = w[k - 1] + attempts[k].budget
    BY DEF Summed
  <1>3. w = [k \in 0..L |-> body(w, k)]
    <2>1. \A k \in 0..L : w[k] = body(w, k)
      BY <1>1, <1>2
    <2> QED
      BY <2>1
  <1>4. sum = [k \in 0..L |-> body(sum, k)]
    BY <1>3
  <1>5. Spent[L] = sum[L]
    BY DEF Spent
  <1> HIDE DEF sum
  <1>6. \A k \in 0..L : sum[k] = body(sum, k)
    BY <1>4
  <1> HIDE DEF L
  <1>7. \A k \in 0..L : sum[k] = w[k]
    <2> DEFINE Bad == {k \in 0..L : sum[k] # w[k]}
    <2> SUFFICES ASSUME Bad # {} PROVE FALSE
      OBVIOUS
    <2>0. Bad \in SUBSET Nat
      BY <1>1
    <2>1. PICK k \in Bad : \A j \in Bad : k <= j
      BY <2>0, LeastExists
    <2>2. k \in 0..L /\ sum[k] # w[k]
      OBVIOUS
    <2>3. k # 0
      BY <1>2, <1>6, <2>2
    <2>4. k - 1 \in 0..L /\ k \in 1..L /\ ~(k <= k - 1)
      BY <1>1, <2>2, <2>3
    <2>5. sum[k - 1] = w[k - 1]
      BY <2>1, <2>4
    <2>6. w[k] = w[k - 1] + attempts[k].budget
      BY <1>2, <2>4
    <2>7. sum[k] = sum[k - 1] + attempts[k].budget
      BY <1>6, <2>2, <2>3
    <2> QED
      BY <2>2, <2>5, <2>6, <2>7
  <1> QED
    BY <1>1, <1>2, <1>5, <1>7 DEF L

\* A valid intent that is the next of the log is recorded in the memory it makes.
LEMMA IntentRecorded ==
  ASSUME TypeOK, LogApplied, Recorded, NEW q \in Proposal, ValidEvent(Intent(q)), ApplyIntent(q),
         eventCount' = eventCount + 1, events'[eventCount'] = Intent(q),
         \A i \in 1..eventCount : events'[i] = events[i]
  PROVE  Recorded'
  <1> DEFINE n == Len(attempts) + 1
             N == eventCount + 1
  <1>1. /\ Len(attempts') = n /\ attempts'[n] = q /\ q.attempt = n /\ Len(attempts) \in Nat
        /\ \A a \in 1..Len(attempts) : attempts'[a] = attempts[a]
    BY IntentApplied
  <1>2. /\ attempts' = Append(attempts, q) /\ results' = Append(results, None)
        /\ reserved' = reserved + q.budget
        /\ UNCHANGED <<history, families, disproved>>
    BY DEF ApplyIntent
  <1>3. /\ attempts \in Seq(Proposal) /\ results \in Seq(Outcomes \cup {None})
        /\ Len(results) = Len(attempts) /\ eventCount \in Nat /\ N \in Nat
    BY DEF TypeOK
  <1>4. events'[N].kind = "intent" /\ events'[N].proposal = q
    BY DEF Intent
  <1>5. \A i \in 1..eventCount' : i = N \/ i \in 1..eventCount
    BY <1>3
  <1>6. \A i \in 1..eventCount : i # N /\ i \in 1..eventCount' /\ events'[i] = events[i]
    BY <1>3
  <1>7. eventCount' = N /\ N \in 1..N
    BY <1>3
  <1> HIDE DEF N
  <1>8. \A i \in 1..eventCount' : IsResult(i)' => i \in 1..eventCount /\ IsResult(i)
    BY <1>4, <1>5, <1>6 DEF IsResult
  <1>9. \A i \in 1..eventCount : IsResult(i) => /\ IsResult(i)'
                                                /\ events[i].attempt \in 1..Len(attempts)
                                                /\ AttemptOf(i)' = AttemptOf(i)
    BY <1>1, <1>3, <1>6 DEF IsResult, AttemptOf, Recorded, ResultsAreLogged
  <1>10. AttemptsAreLogged'
    <2>1. Intents' = Intents \cup {N}
      BY <1>4, <1>5, <1>6, <1>7 DEF Intents, IsIntent
    <2>2. Intents \in SUBSET (1..eventCount)
      BY DEF Intents
    <2> DEFINE old == [i \in Intents |-> events[i].proposal]
               new == [i \in Intents' |-> events'[i].proposal]
    <2>3. new[N] = q /\ \A i \in Intents : new[i] = old[i]
      BY <1>4, <1>6, <2>1, <2>2
    <2>4. Lists(attempts, Intents, old)
      BY DEF Recorded, AttemptsAreLogged
    <2> HIDE DEF old, new
    <2>5. Lists(Append(attempts, q), Intents \cup {eventCount + 1}, new)
      BY <1>3, <2>2, <2>3, <2>4, ListsGrows DEF N
    <2>6. Lists(attempts', Intents', new)
      BY <1>2, <2>1, <2>5 DEF N
    <2> QED
      BY <2>6 DEF AttemptsAreLogged, Lists, new
  <1>11. ResultsAreLogged'
    <2>1. /\ \A a \in DOMAIN results : a \in DOMAIN results' /\ results'[a] = results[a]
          /\ \A a \in DOMAIN results' : a \in DOMAIN results \/ results'[a] = None
      BY <1>2, <1>3
    <2>2. ASSUME NEW i \in 1..eventCount', IsResult(i)'
          PROVE  /\ events'[i].attempt \in DOMAIN results'
                 /\ results'[events'[i].attempt] = events'[i].outcome
      BY <1>6, <1>8, <2>1, <2>2 DEF Recorded, ResultsAreLogged
    <2>3. ASSUME NEW a \in DOMAIN results', results'[a] # None
          PROVE  \E i \in 1..eventCount' : IsResult(i)' /\ events'[i].attempt = a
      <3>1. PICK i \in 1..eventCount : IsResult(i) /\ events[i].attempt = a
        BY <2>1, <2>3 DEF Recorded, ResultsAreLogged
      <3> QED
        BY <1>6, <1>9, <3>1
    <2> QED
      BY <2>2, <2>3 DEF ResultsAreLogged
  <1>12. HistoryIsLogged'
    <2> SUFFICES ASSUME NEW p \in Problems
                 PROVE  Lists(history[p], KnownResults(p)',
                              [i \in KnownResults(p)' |-> events'[i].outcome])
      BY <1>2 DEF HistoryIsLogged, Lists
    <2>1. KnownResults(p)' = KnownResults(p)
      BY <1>6, <1>8, <1>9 DEF KnownResults
    <2>2. \A i \in KnownResults(p) : events'[i].outcome = events[i].outcome
      BY <1>6 DEF KnownResults
    <2>3. Lists(history[p], KnownResults(p), [i \in KnownResults(p) |-> events[i].outcome])
      BY DEF Recorded, HistoryIsLogged
    <2> QED
      BY <2>1, <2>2, <2>3
  <1>13. Summed'
    <2>1. PICK w \in [0..Len(attempts) -> Nat] :
             /\ w[0] = 0 /\ w[Len(attempts)] = reserved
             /\ \A k \in 1..Len(attempts) : w[k] = w[k - 1] + attempts[k].budget
      BY DEF Recorded, Summed
    <2> DEFINE x == [k \in 0..n |-> IF k = n THEN reserved' ELSE w[k]]
    <2>2. reserved' \in Nat
      <3>1. reserved \in Nat /\ q.budget \in Nat
        BY ConfigAssumption DEF TypeOK, Proposal
      <3> QED
        BY <1>2, <3>1
    <2>3. x \in [0..n -> Nat] /\ x[0] = 0 /\ x[n] = reserved'
      BY <1>3, <2>1, <2>2
    <2>4. ASSUME NEW k \in 1..n PROVE x[k] = x[k - 1] + attempts'[k].budget
      <3>1. CASE k = n
        <4>1. x[n] = reserved + q.budget /\ x[n - 1] = reserved
          BY <1>2, <1>3, <2>1
        <4> QED
          BY <1>1, <3>1, <4>1
      <3>2. CASE k \in 1..Len(attempts)
        <4>1. x[k] = w[k] /\ x[k - 1] = w[k - 1]
          BY <1>3, <3>2
        <4> QED
          BY <1>1, <2>1, <3>2, <4>1
      <3> QED
        BY <1>3, <3>1, <3>2
    <2> HIDE DEF x, n
    <2> QED
      BY <1>1, <2>3, <2>4 DEF Summed
  <1>14. \A p, v : AcceptedAs(p, v)' <=> AcceptedAs(p, v)
    BY <1>6, <1>8, <1>9 DEF AcceptedAs
  <1>15. VerdictsAreLogged'
    BY <1>2, <1>14 DEF Recorded, VerdictsAreLogged
  <1> QED
    BY <1>10, <1>11, <1>12, <1>13, <1>15 DEF Recorded

\* A valid result that is the next of the log is recorded in the memory it makes.
LEMMA ResultRecorded ==
  ASSUME TypeOK, LogApplied, OpenFamilies, Recorded, NEW b \in Pending, NEW o \in Outcomes,
         ApplyResult(b, o),
         eventCount' = eventCount + 1, events'[eventCount'] = Result(b, o),
         \A i \in 1..eventCount : events'[i] = events[i]
  PROVE  Recorded'
  <1>0. PICK N \in Nat : N = eventCount + 1
    BY DEF TypeOK
  <1> DEFINE P == attempts[b].problem
             verdict == VerdictOf(attempts[b])
  <1>1. /\ b \in 1..Len(attempts) /\ b \in DOMAIN results /\ results[b] = None
        /\ P \in Problems /\ FamilyOf[P] \in Families /\ verdict \in Verdicts
        /\ attempts[b] \in Proposal
    <2>1. b \in DOMAIN results /\ results[b] = None
      BY DEF Pending
    <2>2. b \in 1..Len(attempts) /\ attempts[b] \in Proposal
      BY <2>1 DEF TypeOK
    <2>3. P \in Problems
      BY <2>2 DEF Proposal
    <2> QED
      BY <2>1, <2>2, <2>3, CurriculumAssumption DEF VerdictOf, Verdicts
  <1>2. /\ results' = [results EXCEPT ![b] = o]
        /\ history' = IF Known(o) THEN [history EXCEPT ![P] = Append(@, o)] ELSE history
        /\ disproved' = IF o = "accepted" /\ verdict = "disproved"
                        THEN disproved \cup {P} ELSE disproved
        /\ families' = IF o = "accepted" /\ P \in Targets
                       THEN [families EXCEPT ![FamilyOf[P]] = verdict] ELSE families
        /\ UNCHANGED <<attempts, reserved>>
    BY DEF ApplyResult
  <1>3. /\ results \in Seq(Outcomes \cup {None}) /\ Len(results) = Len(attempts)
        /\ eventCount \in Nat /\ N \in Nat
        /\ history \in [Problems -> Seq({"accepted", "exhausted"})]
        /\ families \in [Families -> Verdicts \cup {None}] /\ disproved \subseteq Problems
    BY DEF TypeOK
  <1>4. /\ events'[N].kind = "result" /\ events'[N].attempt = b /\ events'[N].outcome = o
    BY <1>0 DEF Result
  <1>5. \A i \in 1..eventCount' : i = N \/ i \in 1..eventCount
    BY <1>0, <1>3
  <1>6. \A i \in 1..eventCount : i # N /\ i \in 1..eventCount' /\ events'[i] = events[i]
    BY <1>0, <1>3
  <1>7. eventCount' = N /\ N \in 1..N
    BY <1>0, <1>3
  <1> HIDE DEF P, verdict
  <1>8. /\ \A i \in 1..eventCount : IsResult(i)' <=> IsResult(i)
        /\ \A i \in 1..eventCount : AttemptOf(i)' = AttemptOf(i)
        /\ IsResult(N)' /\ AttemptOf(N)' = attempts[b]
    <2>1. attempts' = attempts
      BY <1>2
    <2>2. \A i \in 1..eventCount : (IsResult(i)' <=> IsResult(i)) /\ AttemptOf(i)' = AttemptOf(i)
      BY <1>6, <2>1 DEF IsResult, AttemptOf
    <2>3. IsResult(N)' /\ AttemptOf(N)' = attempts[b]
      BY <1>4, <2>1 DEF IsResult, AttemptOf
    <2> QED
      BY <2>2, <2>3
  <1>9. AttemptsAreLogged'
    <2>1. Intents' = Intents
      BY <1>4, <1>5, <1>6, <1>7 DEF Intents, IsIntent
    <2>2. [i \in Intents |-> events'[i].proposal] = [i \in Intents |-> events[i].proposal]
      BY <1>6 DEF Intents
    <2> QED
      BY <1>2, <2>1, <2>2 DEF Recorded, AttemptsAreLogged
  <1>10. ResultsAreLogged'
    <2>1. /\ DOMAIN results' = DOMAIN results /\ results'[b] = o
          /\ \A a \in DOMAIN results : a # b => results'[a] = results[a]
      BY <1>1, <1>2, <1>3
    <2>2. \A i \in 1..eventCount : IsResult(i) =>
             /\ events[i].attempt \in DOMAIN results /\ results[events[i].attempt] = events[i].outcome
             /\ events[i].attempt # b
      <3>1. \A i \in 1..eventCount : IsResult(i) => events[i].outcome # None
        BY TakenTyped, NoneAssumption DEF Event, IsResult
      <3> QED
        BY <1>1, <3>1 DEF Recorded, ResultsAreLogged
    <2>3. ASSUME NEW i \in 1..eventCount', IsResult(i)'
          PROVE  /\ events'[i].attempt \in DOMAIN results'
                 /\ results'[events'[i].attempt] = events'[i].outcome
      <3>1. CASE i = N
        BY <1>1, <1>4, <2>1, <3>1
      <3>2. CASE i \in 1..eventCount
        BY <1>6, <1>8, <2>1, <2>2, <2>3, <3>2
      <3> QED
        BY <1>5, <3>1, <3>2
    <2>4. ASSUME NEW a \in DOMAIN results', results'[a] # None
          PROVE  \E i \in 1..eventCount' : IsResult(i)' /\ events'[i].attempt = a
      <3>1. CASE a = b
        BY <1>4, <1>7, <1>8, <3>1
      <3>2. CASE a # b
        <4>1. PICK i \in 1..eventCount : IsResult(i) /\ events[i].attempt = a
          BY <2>1, <2>4, <3>2 DEF Recorded, ResultsAreLogged
        <4> QED
          BY <1>6, <1>8, <4>1
      <3> QED
        BY <3>1, <3>2
    <2> QED
      BY <2>3, <2>4 DEF ResultsAreLogged
  <1>11. HistoryIsLogged'
    <2> SUFFICES ASSUME NEW p \in Problems
                 PROVE  Lists(history'[p], KnownResults(p)',
                              [i \in KnownResults(p)' |-> events'[i].outcome])
      BY DEF HistoryIsLogged, Lists
    <2> DEFINE old == [i \in KnownResults(p) |-> events[i].outcome]
               new == [i \in KnownResults(p)' |-> events'[i].outcome]
    <2>1. Lists(history[p], KnownResults(p), old)
      BY DEF Recorded, HistoryIsLogged
    <2>2. KnownResults(p) \in SUBSET (1..eventCount)
      BY DEF KnownResults
    <2>3. \A i \in KnownResults(p) : events'[i].outcome = events[i].outcome
      BY <1>6, <2>2
    <2>4. CASE Known(o) /\ p = P
      <3>1. KnownResults(p)' = KnownResults(p) \cup {N}
        BY <1>4, <1>5, <1>6, <1>7, <1>8, <2>4 DEF KnownResults, P
      <3>2. new[N] = o /\ \A i \in KnownResults(p) : new[i] = old[i]
        BY <1>4, <2>3, <3>1
      <3>3. history'[p] = Append(history[p], o) /\ history[p] \in Seq({"accepted", "exhausted"})
            /\ o \in {"accepted", "exhausted"}
        BY <1>1, <1>2, <1>3, <2>4 DEF Known, Outcomes
      <3> HIDE DEF old, new
      <3>4. Lists(Append(history[p], o), KnownResults(p) \cup {eventCount + 1}, new)
        BY <1>0, <1>3, <2>1, <2>2, <3>2, <3>3, ListsGrows
      <3>5. Lists(history'[p], KnownResults(p)', new)
        BY <1>0, <3>1, <3>3, <3>4
      <3> QED
        BY <3>5 DEF new
    <2>5. CASE ~(Known(o) /\ p = P)
      <3>1. KnownResults(p)' = KnownResults(p)
        BY <1>4, <1>5, <1>6, <1>7, <1>8, <2>5 DEF KnownResults, P
      <3>2. history'[p] = history[p]
        BY <1>2, <1>3, <2>5
      <3>3. new = old
        BY <2>3, <3>1
      <3> QED
        BY <2>1, <3>1, <3>2, <3>3
    <2> QED
      BY <2>4, <2>5
  <1>12. Summed'
    BY <1>2 DEF Recorded, Summed
  <1>13. ASSUME NEW p, NEW v
         PROVE  AcceptedAs(p, v)' <=> \/ AcceptedAs(p, v)
                                      \/ o = "accepted" /\ p = P /\ v = verdict
    <2>1. \A i \in 1..eventCount : events'[i].outcome = events[i].outcome
      BY <1>6
    <2> QED
      BY <1>4, <1>5, <1>6, <1>7, <1>8, <2>1 DEF AcceptedAs, P, verdict
  <1>14. disproved' = {p \in Problems : AcceptedAs(p, "disproved")'}
    BY <1>1, <1>2, <1>13 DEF Recorded, VerdictsAreLogged
  <1>15. ASSUME NEW f \in Families, NEW v \in Verdicts
         PROVE  families'[f] = v <=> \E p \in Targets : FamilyOf[p] = f /\ AcceptedAs(p, v)'
    <2>1. families[f] = v <=> \E p \in Targets : FamilyOf[p] = f /\ AcceptedAs(p, v)
      BY DEF Recorded, VerdictsAreLogged
    <2>2. CASE o = "accepted" /\ P \in Targets /\ f = FamilyOf[P]
      <3>1. families'[f] = verdict
        BY <1>2, <1>3, <2>2
      <3>2. families[f] = None
        BY <2>2 DEF OpenFamilies, P
      <3>3. families[f] # v
        BY <3>2, NoneAssumption
      <3>4. ~ \E p \in Targets : FamilyOf[p] = f /\ AcceptedAs(p, v)
        BY <2>1, <3>3
      <3> QED
        BY <1>13, <2>2, <3>1, <3>4
    <2>3. CASE ~(o = "accepted" /\ P \in Targets /\ f = FamilyOf[P])
      <3>1. families'[f] = families[f]
        BY <1>2, <1>3, <2>3
      <3> QED
        BY <1>13, <2>1, <2>3, <3>1
    <2> QED
      BY <2>2, <2>3
  <1>16. VerdictsAreLogged'
    BY <1>14, <1>15 DEF VerdictsAreLogged
  <1> QED
    BY <1>9, <1>10, <1>11, <1>12, <1>16 DEF Recorded

\* What is recorded depends on the memory and on the prefix of the log it has taken.
LEMMA RecordedSame ==
  ASSUME TypeOK, Recorded, UNCHANGED memory, \A i \in 1..eventCount : events'[i] = events[i]
  PROVE  Recorded'
  <1>1. UNCHANGED <<attempts, results, history, families, disproved, reserved, eventCount>>
    BY DEF memory
  <1>2. \A i \in 1..eventCount : /\ IsIntent(i)' <=> IsIntent(i)
                                 /\ IsResult(i)' <=> IsResult(i)
                                 /\ AttemptOf(i)' = AttemptOf(i)
                                 /\ events'[i] = events[i]
    BY <1>1 DEF IsIntent, IsResult, AttemptOf
  <1>3. AttemptsAreLogged'
    <2>1. Intents' = Intents
      BY <1>1, <1>2 DEF Intents
    <2>2. [i \in Intents |-> events'[i].proposal] = [i \in Intents |-> events[i].proposal]
      BY <1>2 DEF Intents
    <2> QED
      BY <1>1, <2>1, <2>2 DEF Recorded, AttemptsAreLogged
  <1>4. ResultsAreLogged'
    BY <1>1, <1>2 DEF Recorded, ResultsAreLogged
  <1>5. HistoryIsLogged'
    <2>1. \A p : KnownResults(p)' = KnownResults(p)
      BY <1>1, <1>2 DEF KnownResults
    <2>2. \A p : [i \in KnownResults(p) |-> events'[i].outcome]
                    = [i \in KnownResults(p) |-> events[i].outcome]
      BY <1>2 DEF KnownResults
    <2> QED
      BY <1>1, <2>1, <2>2 DEF Recorded, HistoryIsLogged, Lists
  <1>6. Summed'
    BY <1>1 DEF Recorded, Summed
  <1>7. VerdictsAreLogged'
    <2>1. \A p, v : AcceptedAs(p, v)' <=> AcceptedAs(p, v)
      BY <1>1, <1>2 DEF AcceptedAs
    <2> QED
      BY <1>1, <2>1 DEF Recorded, VerdictsAreLogged
  <1> QED
    BY <1>3, <1>4, <1>5, <1>6, <1>7 DEF Recorded

\* Nothing is recorded in the memory of a process that has read nothing.
LEMMA RecordedAtFirst == InitialMemory => Recorded
  <1> SUFFICES ASSUME InitialMemory PROVE Recorded
    OBVIOUS
  <1>1. \A i : i \notin 1..eventCount
    BY DEF InitialMemory
  <1>2. Intents = {} /\ \A p : KnownResults(p) = {}
    BY <1>1 DEF Intents, KnownResults
  <1>3. AttemptsAreLogged /\ HistoryIsLogged
    BY <1>2, FS_EmptySet DEF InitialMemory, AttemptsAreLogged, HistoryIsLogged, Lists
  <1>4. ResultsAreLogged
    BY <1>1 DEF InitialMemory, ResultsAreLogged
  <1>5. Summed
    <2> DEFINE w == [k \in 0..0 |-> 0]
    <2>1. Len(attempts) = 0 /\ reserved = 0
      BY DEF InitialMemory
    <2>2. w \in [0..0 -> Nat] /\ w[0] = 0 /\ \A k \in 1..0 : w[k] = w[k - 1] + attempts[k].budget
      OBVIOUS
    <2> QED
      BY <2>1, <2>2 DEF Summed
  <1>6. VerdictsAreLogged
    <2>1. \A p, v : ~ AcceptedAs(p, v)
      BY <1>1 DEF AcceptedAs
    <2>2. \A f \in Families, v \in Verdicts : families[f] # v
      BY NoneAssumption DEF InitialMemory
    <2> QED
      BY <2>1, <2>2 DEF InitialMemory, VerdictsAreLogged
  <1> QED
    BY <1>3, <1>4, <1>5, <1>6 DEF Recorded

\* A process that lost a publication is behind the log by that one event at most.
Behind == phase = "poisoned" => eventCount \in {Len(events), Len(events) - 1}

\* A lost publication leaves the memory at most one event behind the log.
LEMMA BehindKept == TypeOK /\ LogApplied /\ Behind /\ [Next]_vars => Behind'
  <1> SUFFICES ASSUME TypeOK, LogApplied, Behind, [Next]_vars PROVE Behind'
    OBVIOUS
  <1> USE DEF Behind
  <1>1. ASSUME NEW e, phase = "live", Published(e) \/ PublishFails(e)
        PROVE  Behind'
    <2>1. eventCount = Len(events) /\ eventCount \in Nat /\ events \in Seq(Event)
      BY <1>1 DEF LogApplied, TypeOK
    <2>2. CASE Published(e)
      BY <1>1, <2>2 DEF Published
    <2>3. CASE PublishFails(e)
      <3>1. eventCount' = eventCount /\ (events' = events \/ events' = Append(events, e))
        BY <2>3 DEF PublishFails, Linked, memory
      <3>2. Len(events') \in {Len(events), Len(events) + 1}
        BY <2>1, <3>1
      <3> QED
        BY <2>1, <3>1, <3>2
    <2> QED
      BY <1>1, <2>2, <2>3
  <1>2. ASSUME NEW c \in Callers, NEW r \in Releases, PlanNext(c, r)
        PROVE  Behind'
    BY <1>2 DEF PlanNext, memory
  <1>3. ASSUME NEW c \in Callers, Reserve(c)
        PROVE  Behind'
    BY <1>1, <1>3 DEF Reserve
  <1>4. ASSUME NEW c \in Callers, ReserveStale(c)
        PROVE  Behind'
    BY <1>4 DEF ReserveStale, memory
  <1>5. ASSUME NEW a \in 1..MaxAttempts, NEW o \in Outcomes, RecordResult(a, o)
        PROVE  Behind'
    BY <1>1, <1>5 DEF RecordResult
  <1>6. CASE Stop \/ Open \/ ReplayEvent \/ FinishOpen \/ UNCHANGED vars
    BY <1>6 DEF Stop, Open, ReplayEvent, FinishOpen, vars, memory
  <1> QED
    BY <1>2, <1>3, <1>4, <1>5, <1>6 DEF Next

\* The memory is at every moment what the taken prefix of the log says, as a whole, and
\* that log is accepted when it is read again (ReplayRebuilds): for every curriculum and
\* configuration, over lost publications, deaths and replays cut short.
THEOREM ReplayRestores == Spec => []ReplayRebuilds
  <1>1. Init => Recorded /\ Behind
    BY RecordedAtFirst DEF Init, Behind
  <1>2. TypeOK /\ LogApplied /\ LogTold /\ Recorded /\ [Next]_vars => Recorded'
    <2> SUFFICES ASSUME TypeOK, LogApplied, LogTold, Recorded, [Next]_vars PROVE Recorded'
      OBVIOUS
    <2>1. ASSUME NEW e \in Event, ValidEvent(e), Apply(e), events'[eventCount + 1] = e,
                 \A i \in 1..eventCount : events'[i] = events[i]
          PROVE  Recorded'
      <3>1. eventCount' = eventCount + 1
        BY <2>1 DEF Apply
      <3>2. CASE e.kind = "intent" /\ ApplyIntent(e.proposal)
        <4>1. e.proposal \in Proposal /\ e = Intent(e.proposal)
          BY <3>2 DEF Event, Intent
        <4> QED
          BY <2>1, <3>1, <3>2, <4>1, IntentRecorded
      <3>3. CASE e.kind = "result" /\ ApplyResult(e.attempt, e.outcome)
        <4>1. e = Result(e.attempt, e.outcome) /\ e.attempt \in Pending /\ e.outcome \in Outcomes
          BY <2>1, <3>3 DEF Event, Result, ValidEvent
        <4> QED
          BY <2>1, <3>1, <3>3, <4>1, ResultRecorded DEF LogTold
      <3> QED
        BY <2>1, <3>2, <3>3 DEF Apply
    <2>2. CASE UNCHANGED <<events, passed, memory>>
      BY <2>2, RecordedSame
    <2>3. CASE UNCHANGED <<events, passed>> /\ InitialMemory'
      BY <2>3, RecordedAtFirst, PTL
    <2>4. CASE /\ UNCHANGED <<events, passed>> /\ eventCount < Len(events)
               /\ events[eventCount + 1] \in Event
               /\ ValidEvent(events[eventCount + 1]) /\ Apply(events[eventCount + 1])
      BY <2>1, <2>4
    <2>5. ASSUME NEW e \in Event, eventCount = Len(events), ValidEvent(e), Linked(e),
                 UNCHANGED memory \/ Apply(e)
          PROVE  Recorded'
      <3>1. events'[eventCount + 1] = e /\ \A i \in 1..eventCount : events'[i] = events[i]
        BY <2>5 DEF Linked, TypeOK
      <3> QED
        BY <2>1, <2>5, <3>1, RecordedSame
    <2> QED
      BY <2>2, <2>3, <2>4, <2>5, LogStep
  <1>3. TypeOK /\ LogApplied /\ LogTold /\ Recorded /\ Behind => MemoryIsLog
    <2> SUFFICES ASSUME TypeOK, LogApplied, LogTold, Recorded, Behind PROVE MemoryIsLog
      OBVIOUS
    <2>1. DispatchesAreLogged
      <3>1. DOMAIN attempts = 1..Len(attempts)
        BY DEF TypeOK
      <3> QED
        BY <3>1 DEF LogTold, DispatchesTold, DispatchesAreLogged
    <2>2. phase = "live" => eventCount = Len(events)
      BY DEF LogApplied
    <2>3. reserved = Spent[Len(attempts)]
      BY SpentIs DEF Recorded
    <2> QED
      BY <2>1, <2>2, <2>3 DEF MemoryIsLog, Recorded, Behind
  <1>4. Spec => []MemoryIsLog
    BY <1>1, <1>2, <1>3, BehindKept, TypeCorrect, DispatchedOnce, LogIsTold, PTL DEF Spec
  <1> QED
    BY <1>4, ReplayAccepts, PTL DEF ReplayRebuilds

-----------------------------------------------------------------------------
(* The log is a ledger of attempts.                                        *)

\* While the process serves, what the log says of an attempt is what its memory holds.
LEMMA RecordOfMemory ==
  ASSUME TypeOK, LogApplied, LogTold, ResultsAreLogged, phase = "live", NEW a \in 1..MaxAttempts
  PROVE  OnRecord[a] = IF a \notin 1..Len(attempts) THEN "free"
                       ELSE IF results[a] = None THEN "pending" ELSE results[a]
  <1> DEFINE about == {i \in DOMAIN events : IsResult(i) /\ events[i].attempt = a}
  <1>1. /\ DOMAIN events = 1..eventCount /\ DOMAIN results = 1..Len(attempts)
    BY DEF TypeOK, LogApplied
  <1>2. \A i \in about : a \in 1..Len(attempts) /\ results[a] = events[i].outcome
    BY <1>1 DEF ResultsAreLogged
  <1>3. ASSUME a \in 1..Len(attempts), results[a] # None
        PROVE  about # {}
    BY <1>1, <1>3 DEF ResultsAreLogged
  <1>4. \A i \in about : events[i].outcome # None
    BY <1>1, TakenTyped, NoneAssumption DEF Event, IsResult
  <1>5. (\E i \in DOMAIN events : IsIntent(i) /\ events[i].proposal.attempt = a)
           <=> a \in 1..Len(attempts)
    BY <1>1 DEF LogTold, IntentsTold, AttemptsTold, Number
  <1>6. OnRecord[a] = IF about # {} THEN events[CHOOSE i \in about : TRUE].outcome
                      ELSE IF \E i \in DOMAIN events : IsIntent(i) /\ events[i].proposal.attempt = a
                      THEN "pending" ELSE "free"
    BY DEF OnRecord
  <1>7. CASE about # {}
    <2>1. PICK i \in about : i = CHOOSE j \in about : TRUE
      BY <1>7
    <2>2. OnRecord[a] = events[i].outcome
      BY <1>6, <1>7, <2>1
    <2> HIDE DEF about
    <2> QED
      BY <1>2, <1>4, <2>1, <2>2
  <1>8. CASE about = {}
    <2> HIDE DEF about
    <2> QED
      BY <1>3, <1>5, <1>6, <1>8
  <1> QED
    BY <1>7, <1>8

\* A result or an intent that is linked changes the record of its attempt and no other.
LEMMA RecordLinked ==
  ASSUME TypeOK, NEW e \in Event, Linked(e), NEW c \in 1..MaxAttempts
  PROVE  LET about == {i \in DOMAIN events : IsResult(i) /\ events[i].attempt = c}
             given == \E i \in DOMAIN events : IsIntent(i) /\ events[i].proposal.attempt = c
         IN  /\ e.kind = "result" /\ e.attempt = c /\ about = {} => OnRecord'[c] = e.outcome
             /\ e.kind = "result" /\ e.attempt # c => OnRecord'[c] = OnRecord[c]
             /\ e.kind = "intent" /\ e.proposal.attempt = c /\ about = {} =>
                   OnRecord'[c] = "pending"
             /\ e.kind = "intent" /\ e.proposal.attempt # c => OnRecord'[c] = OnRecord[c]
  <1> DEFINE about == {i \in DOMAIN events : IsResult(i) /\ events[i].attempt = c}
             given == \E i \in DOMAIN events : IsIntent(i) /\ events[i].proposal.attempt = c
             about2 == {i \in DOMAIN events' : events'[i].kind = "result" /\ events'[i].attempt = c}
             given2 == \E i \in DOMAIN events' : /\ events'[i].kind = "intent"
                                                 /\ events'[i].proposal.attempt = c
  <1>1. PICK N \in Nat : N = Len(events) + 1
    BY DEF TypeOK
  <1>2. /\ DOMAIN events' = DOMAIN events \cup {N} /\ N \notin DOMAIN events /\ events'[N] = e
        /\ \A i \in DOMAIN events : events'[i] = events[i]
    <2>1. events' = Append(events, e) /\ events \in Seq(Event)
      BY DEF Linked, TypeOK
    <2> QED
      BY <1>1, <2>1
  <1>3. /\ OnRecord[c] = IF about # {} THEN events[CHOOSE i \in about : TRUE].outcome
                         ELSE IF given THEN "pending" ELSE "free"
        /\ OnRecord'[c] = IF about2 # {} THEN events'[CHOOSE i \in about2 : TRUE].outcome
                          ELSE IF given2 THEN "pending" ELSE "free"
    BY DEF OnRecord, IsResult, IsIntent
  <1>4. about2 = about \cup (IF e.kind = "result" /\ e.attempt = c THEN {N} ELSE {})
    BY <1>2 DEF IsResult
  <1>5. given2 <=> given \/ (e.kind = "intent" /\ e.proposal.attempt = c)
    BY <1>2 DEF IsIntent
  <1>6. \A i \in about : i \in DOMAIN events
    OBVIOUS
  <1> HIDE DEF about, given, about2, given2
  <1>7. ASSUME e.kind = "result", e.attempt = c, about = {}
        PROVE  OnRecord'[c] = e.outcome
    <2>1. about2 = {N}
      BY <1>4, <1>7
    <2>2. (CHOOSE i \in about2 : TRUE) = N
      BY <2>1
    <2> QED
      BY <1>2, <1>3, <2>1, <2>2
  <1>8. ASSUME about2 = about, given2 <=> given
        PROVE  OnRecord'[c] = OnRecord[c]
    <2>1. CASE about # {}
      <3>1. PICK i \in about : i = CHOOSE j \in about : TRUE
        BY <2>1
      <3> QED
        BY <1>2, <1>3, <1>6, <1>8, <2>1, <3>1
    <2>2. CASE about = {}
      BY <1>3, <1>8, <2>2
    <2> QED
      BY <2>1, <2>2
  <1>9. ASSUME e.kind = "intent", e.proposal.attempt = c, about = {}
        PROVE  OnRecord'[c] = "pending"
    BY <1>3, <1>4, <1>5, <1>9
  <1>10. e.kind = "result" /\ e.attempt # c => OnRecord'[c] = OnRecord[c]
    BY <1>4, <1>5, <1>8
  <1>11. e.kind = "intent" /\ e.proposal.attempt # c => OnRecord'[c] = OnRecord[c]
    BY <1>4, <1>5, <1>8
  <1> QED
    BY <1>7, <1>9, <1>10, <1>11 DEF about, given

\* A linked intent grants the next attempt of the ledger.
LEMMA IntentGrants ==
  ASSUME TypeOK, LogApplied, LogTold, ResultsAreLogged, PendingAccounted, phase = "live",
         NEW q \in Proposal, ValidEvent(Intent(q)), Linked(Intent(q)),
         mine' \in {mine, mine \cup {q.attempt}}
  PROVE  q.attempt \in 1..MaxAttempts /\ Ledger!Grant(q.attempt)
  <1>1. PICK n \in 1..MaxAttempts : n = q.attempt
    BY DEF Proposal
  <1>2. /\ n = Len(attempts) + 1 /\ Len(attempts) \in Nat /\ DOMAIN results = 1..Len(attempts)
        /\ ~Blocked
    BY <1>1, ValidIntent DEF Sequence, TypeOK
  <1>3. \A a \in 1..MaxAttempts :
           OnRecord[a] = IF a \notin 1..Len(attempts) THEN "free"
                         ELSE IF results[a] = None THEN "pending" ELSE results[a]
    BY RecordOfMemory
  <1>4. \A a \in 1..Len(attempts) : results[a] # None => results[a] \in Outcomes
    BY <1>2 DEF TypeOK
  <1>5. \A a \in 1..MaxAttempts : OnRecord[a] = "free" <=> a >= n
    BY <1>2, <1>3, <1>4 DEF Outcomes
  <1>6. \A a \in 1..MaxAttempts : OnRecord[a] # "unknown"
    <2>1. \A a \in 1..Len(attempts) : results[a] # "unknown"
      BY <1>2 DEF Blocked, Unknown
    <2> QED
      BY <1>3, <2>1
  <1>7. \A a \in 1..MaxAttempts : OnRecord[a] = "pending" => a \in mine
    <2>1. Pending \subseteq mine
      BY <1>2 DEF Blocked, PendingAccounted
    <2>2. \A a \in 1..MaxAttempts : OnRecord[a] = "pending" => a \in Pending
      BY <1>2, <1>3, <1>4 DEF Pending, Outcomes
    <2> QED
      BY <2>1, <2>2
  <1>8. \A i \in DOMAIN events : IsResult(i) => events[i].attempt \in 1..Len(attempts)
    BY <1>2 DEF ResultsAreLogged, LogApplied, TypeOK
  <1>9. /\ Intent(q) \in Event /\ Intent(q).kind = "intent" /\ Intent(q).proposal.attempt = n
    BY <1>1, EventTypes DEF Intent
  <1>10. ASSUME NEW c \in 1..MaxAttempts
         PROVE  OnRecord'[c] = IF c = n THEN "pending" ELSE OnRecord[c]
    <2>1. c = n => {i \in DOMAIN events : IsResult(i) /\ events[i].attempt = c} = {}
      BY <1>2, <1>8
    <2> QED
      BY <1>9, <2>1, RecordLinked
  <1>11. OnRecord' = [OnRecord EXCEPT ![n] = "pending"]
    <2>1. /\ OnRecord' = [c \in 1..MaxAttempts |-> OnRecord'[c]]
          /\ OnRecord = [c \in 1..MaxAttempts |-> OnRecord[c]]
      BY DEF OnRecord
    <2> QED
      BY <1>10, <2>1
  <1>12. /\ InHand = {c \in mine : OnRecord[c] = "pending"}
         /\ InHand' = {c \in mine' : OnRecord'[c] = "pending"}
         /\ mine \subseteq 1..MaxAttempts /\ mine' \in {mine, mine \cup {n}}
    BY <1>1 DEF InHand, TypeOK
  <1>13. InHand' \in {InHand, InHand \cup {n}}
    BY <1>10, <1>12
  <1>14. Ledger!Are("free") = n..MaxAttempts
    BY <1>5, ConfigAssumption DEF Ledger!Are, Ledger!Attempts
  <1>15. Ledger!Are("unknown") = {}
    BY <1>6 DEF Ledger!Are, Ledger!Attempts
  <1>16. Ledger!Are("pending") \subseteq InHand
    BY <1>7, <1>12 DEF Ledger!Are, Ledger!Attempts
  <1> QED
    BY <1>1, <1>11, <1>13, <1>14, <1>15, <1>16 DEF Ledger!Grant

\* A linked result settles its attempt in the ledger.
LEMMA ResultSettles ==
  ASSUME TypeOK, LogApplied, LogTold, ResultsAreLogged, phase = "live",
         NEW b \in Pending, NEW o \in Outcomes, Linked(Result(b, o)), mine' = mine
  PROVE  b \in 1..MaxAttempts /\ Ledger!Settle(b, o)
  <1>1. /\ b \in 1..Len(attempts) /\ b \in 1..MaxAttempts /\ results[b] = None
        /\ DOMAIN results = 1..Len(attempts) /\ DOMAIN events = 1..eventCount
    BY ConfigAssumption DEF Pending, TypeOK, LogApplied
  <1>2. OnRecord[b] = "pending"
    BY <1>1, RecordOfMemory
  <1>3. {i \in DOMAIN events : IsResult(i) /\ events[i].attempt = b} = {}
    <2>1. \A i \in DOMAIN events : IsResult(i) => events[i].outcome # None
      BY <1>1, TakenTyped, NoneAssumption DEF Event, IsResult
    <2> QED
      BY <1>1, <2>1 DEF ResultsAreLogged
  <1>4. Result(b, o) \in Event /\ Result(b, o).kind = "result" /\ Result(b, o).attempt = b
        /\ Result(b, o).outcome = o
    BY <1>1, EventTypes DEF Result
  <1>5. ASSUME NEW c \in 1..MaxAttempts
        PROVE  OnRecord'[c] = IF c = b THEN o ELSE OnRecord[c]
    BY <1>3, <1>4, RecordLinked
  <1>6. OnRecord' = [OnRecord EXCEPT ![b] = o]
    <2>1. /\ OnRecord' = [c \in 1..MaxAttempts |-> OnRecord'[c]]
          /\ OnRecord = [c \in 1..MaxAttempts |-> OnRecord[c]]
      BY DEF OnRecord
    <2> QED
      BY <1>5, <2>1
  <1>7. /\ InHand = {c \in mine : OnRecord[c] = "pending"}
        /\ InHand' = {c \in mine : OnRecord'[c] = "pending"}
        /\ mine \subseteq 1..MaxAttempts /\ o # "pending"
    BY DEF InHand, TypeOK, Outcomes
  <1>8. InHand' = InHand \ {b}
    BY <1>5, <1>7
  <1> QED
    BY <1>1, <1>2, <1>6, <1>8 DEF Ledger!Settle

\* The scheduler keeps the ledger of attempts that AttemptLedger promises (KeepsLedger):
\* attempts are granted in turn, never beside an unknown outcome or one that is out of
\* hand, and each gets one result, over lost publications, deaths and replays.
THEOREM LedgerKept == Spec => KeepsLedger
  <1>1. Init => Ledger!Init
    <2> SUFFICES ASSUME Init PROVE Ledger!Init
      OBVIOUS
    <2>1. events = <<>> /\ mine = {}
      BY DEF Init
    <2>2. OnRecord = [a \in 1..MaxAttempts |-> "free"]
      BY <2>1 DEF OnRecord
    <2> QED
      BY <2>1, <2>2 DEF Ledger!Init, Ledger!Attempts, InHand
  <1>2. TypeOK /\ LogApplied /\ LogTold /\ MemoryIsLog /\ PendingAccounted /\ [Next]_vars
           => [Ledger!Next]_<<OnRecord, InHand>>
    <2> SUFFICES ASSUME TypeOK, LogApplied, LogTold, MemoryIsLog, PendingAccounted, [Next]_vars
                 PROVE  Ledger!Next
      BY DEF Ledger!Next
    <2>0. ResultsAreLogged
      BY DEF MemoryIsLog
    <2>1. ASSUME UNCHANGED events, mine' \subseteq mine
          PROVE  Ledger!Next
      <3>1. OnRecord' = OnRecord
        BY <2>1 DEF OnRecord, IsResult, IsIntent
      <3> QED
        BY <2>1, <3>1 DEF InHand, Ledger!Next, Ledger!Lose
    <2>2. ASSUME NEW c \in Callers, Reserve(c)
          PROVE  Ledger!Next
      <3>1. PICK q \in Proposal : q = held[c]
        BY <2>2 DEF Reserve, TypeOK
      <3>2. /\ ValidEvent(Intent(q)) /\ phase = "live"
            /\ \/ Linked(Intent(q)) /\ mine' \in {mine, mine \cup {q.attempt}}
               \/ UNCHANGED <<events, mine>>
        BY <2>2, <3>1 DEF Reserve, Published, PublishFails
      <3>3. CASE Linked(Intent(q)) /\ mine' \in {mine, mine \cup {q.attempt}}
        BY <2>0, <3>2, <3>3, IntentGrants DEF Ledger!Next, Ledger!Attempts
      <3> QED
        BY <2>1, <3>2, <3>3
    <2>3. ASSUME NEW a \in 1..MaxAttempts, NEW o \in Outcomes, RecordResult(a, o)
          PROVE  Ledger!Next
      <3>1. /\ a \in Pending /\ phase = "live" /\ mine' = mine
            /\ Linked(Result(a, o)) \/ UNCHANGED events
        BY <2>3, ValidResult DEF RecordResult, Published, PublishFails
      <3>2. CASE Linked(Result(a, o))
        BY <2>0, <3>1, <3>2, ResultSettles DEF Ledger!Next, Ledger!Attempts, Outcomes
      <3> QED
        BY <2>1, <3>1, <3>2
    <2>4. ASSUME NEW c \in Callers, NEW r \in Releases, PlanNext(c, r)
          PROVE  Ledger!Next
      BY <2>1, <2>4 DEF PlanNext
    <2>5. ASSUME NEW c \in Callers, ReserveStale(c)
          PROVE  Ledger!Next
      BY <2>1, <2>5 DEF ReserveStale
    <2>6. CASE Stop \/ Open \/ ReplayEvent \/ FinishOpen \/ UNCHANGED vars
      BY <2>1, <2>6 DEF Stop, Open, ReplayEvent, FinishOpen, vars
    <2> QED
      BY <2>2, <2>3, <2>4, <2>5, <2>6 DEF Next
  <1>3. Spec => []MemoryIsLog
    BY ReplayRestores, PTL DEF ReplayRebuilds
  <1> QED
    BY <1>1, <1>2, <1>3, TypeCorrect, DispatchedOnce, LogIsTold, PendingAlwaysAccounted, PTL
    DEF Spec, KeepsLedger, Ledger!Spec

\* What is on record of an attempt is final once it is an outcome, and while one is
\* unknown no further attempt is granted: both for good, whoever opens the log again.
RecordIsFinal ==
    \A a \in 1..MaxAttempts :
        /\ OnRecord[a] \notin {"free", "pending"} => OnRecord'[a] = OnRecord[a]
        /\ OnRecord[a] = "free" /\ Ledger!Are("unknown") # {} => OnRecord'[a] = "free"

\* Outcomes are final, and an unknown one ends the granting of attempts, over all
\* processes that ever serve the run: a consequence of the ledger alone.
THEOREM OutcomesAreFinal == Spec => [][RecordIsFinal]_<<OnRecord, InHand>>
  <1>1. OnRecord = [a \in 1..MaxAttempts |-> OnRecord[a]]
    BY DEF OnRecord
  <1>2. [Ledger!Next]_<<OnRecord, InHand>> => [RecordIsFinal]_<<OnRecord, InHand>>
    <2> SUFFICES ASSUME Ledger!Next PROVE RecordIsFinal
      OBVIOUS
    <2>1. CASE Ledger!Lose
      BY <2>1 DEF Ledger!Lose, RecordIsFinal
    <2>2. ASSUME NEW b \in 1..MaxAttempts, Ledger!Grant(b)
          PROVE  RecordIsFinal
      <3>1. /\ Ledger!Are("unknown") = {} /\ OnRecord' = [OnRecord EXCEPT ![b] = "pending"]
            /\ Ledger!Are("free") = b..MaxAttempts
        BY <2>2 DEF Ledger!Grant
      <3>2. OnRecord[b] = "free"
        <4>1. b \in Ledger!Are("free")
          BY <3>1, ConfigAssumption
        <4> QED
          BY <4>1 DEF Ledger!Are
      <3> QED
        BY <1>1, <3>1, <3>2 DEF RecordIsFinal
    <2>3. ASSUME NEW b \in 1..MaxAttempts, NEW r, Ledger!Settle(b, r)
          PROVE  RecordIsFinal
      <3>1. OnRecord[b] = "pending" /\ OnRecord' = [OnRecord EXCEPT ![b] = r]
        BY <2>3 DEF Ledger!Settle
      <3> QED
        BY <1>1, <3>1 DEF RecordIsFinal
    <2> QED
      BY <2>1, <2>2, <2>3 DEF Ledger!Next, Ledger!Attempts
  <1> QED
    BY <1>2, LedgerKept, PTL DEF KeepsLedger, Ledger!Spec

-----------------------------------------------------------------------------
(* ReleasedAttempts: the composition keeps the scheduler's specification,  *)
(* and the release of every reservation is the latest.                     *)

\* Releases are numbered without a gap, and none is beyond the training.
Numbered ==
    /\ trained \in Nat /\ released \in 0..trained
    /\ 1..trained \subseteq Releases

\* A caller that compared the plans still holds the lock and the plan under the
\* latest release.
Reserving ==
    /\ at \in [Callers -> {"idle", "prepare", "reserve", "dispatch"}]
    /\ \A c \in Callers : at[c] = "reserve" =>
          /\ lock = c
          /\ released = trained /\ held[c].release = released

-----------------------------------------------------------------------------
\* What the learner may do to the numbers.
LEMMA LearnerSteps ==
  ASSUME Numbered
  PROVE  /\ Commits => Numbered'
         /\ Confirms => Numbered'
         /\ UNCHANGED <<trained, released>> => Numbered'
  BY DEF Numbered, Commits, Confirms, Trains, Publishes

\* The numbers of steps and releases stay without a gap.
LEMMA NumbersKept == ProviderSpec => []Numbered
  <1>1. ProviderInit => Numbered
    BY DEF ProviderInit, Numbered
  <1>2. Numbered /\ [ProviderNext]_all => Numbered'
    <2> SUFFICES ASSUME Numbered, [ProviderNext]_all PROVE Numbered'
      OBVIOUS
    <2>1. CASE TrainNext \/ Publish
      BY <2>1, LearnerSteps DEF TrainNext, Publish
    <2>2. CASE CallFails
      BY <2>2, LearnerSteps DEF CallFails
    <2>3. CASE Die
      BY <2>3, LearnerSteps DEF Die
    <2>4. CASE Enable \/ CallBegins \/ RestoreLearner \/ Reopen \/ UNCHANGED all
      BY <2>4, LearnerSteps DEF Enable, CallBegins, RestoreLearner, Reopen, run, all
    <2>5. ASSUME NEW c \in Callers,
                 \/ Propose(c) \/ Select(c) \/ GiveUp(c) \/ ReserveSelected(c) \/ ReserveRefused(c)
                 \/ RunEnds(c) \/ Dispatch(c) \/ DispatchFails(c)
          PROVE  Numbered'
      BY <2>5, LearnerSteps DEF Propose, Select, GiveUp, ReserveSelected, ReserveRefused,
         RunEnds, Dispatch, DispatchFails, run
    <2>6. ASSUME NEW a \in 1..MaxAttempts, NEW o \in Outcomes, Settle(a, o)
          PROVE  Numbered'
      BY <2>6, LearnerSteps DEF Settle, run
    <2> QED
      BY <2>1, <2>2, <2>3, <2>4, <2>5, <2>6 DEF ProviderNext
  <1> QED
    BY <1>1, <1>2, PTL DEF ProviderSpec

\* Each step of the composition is one of the scheduler's or leaves it alone.
LEMMA SchedulerSteps == Numbered /\ [ProviderNext]_all => [Next]_vars
  <1> SUFFICES ASSUME Numbered, [ProviderNext]_all PROVE [Next]_vars
    OBVIOUS
  <1>1. CASE \/ Enable \/ CallBegins \/ TrainNext \/ Publish \/ CallFails \/ RestoreLearner
             \/ UNCHANGED all
    BY <1>1 DEF Enable, CallBegins, TrainNext, Publish, CallFails, RestoreLearner, all
  <1>2. ASSUME NEW c \in Callers,
               Propose(c) \/ GiveUp(c) \/ RunEnds(c) \/ Dispatch(c) \/ DispatchFails(c)
        PROVE  [Next]_vars
    BY <1>2 DEF Propose, GiveUp, RunEnds, Dispatch, DispatchFails
  <1>3. ASSUME NEW c \in Callers, Select(c)
        PROVE  [Next]_vars
    <2>1. released \in Releases
      BY <1>3 DEF Select, HeadAvailable, Numbered
    <2> QED
      BY <1>3, <2>1 DEF Select, Next
  <1>4. ASSUME NEW c \in Callers, ReserveSelected(c) \/ ReserveRefused(c)
        PROVE  [Next]_vars
    BY <1>4 DEF ReserveSelected, ReserveRefused, Next
  <1>5. ASSUME NEW a \in 1..MaxAttempts, NEW o \in Outcomes, Settle(a, o)
        PROVE  [Next]_vars
    BY <1>5 DEF Settle, Next
  <1>6. CASE Die \/ Reopen
    BY <1>6 DEF Die, Reopen, Next
  <1> QED
    BY <1>1, <1>2, <1>3, <1>4, <1>5, <1>6 DEF ProviderNext

\* The composition is still the scheduler, so that whatever is proved of
\* Matchmaker holds here (module Matchmaker, run ReleasedAttempts).
THEOREM Composes == ProviderSpec => Spec
  <1>1. ProviderInit => Init
    BY DEF ProviderInit
  <1> QED
    BY <1>1, SchedulerSteps, NumbersKept, PTL DEF ProviderSpec, Spec

-----------------------------------------------------------------------------
\* Between the comparison of the plans and the reservation nothing is trained or
\* published, and nobody else takes the lock.
LEMMA ReservingKept == ProviderSpec => []Reserving
  <1>1. ProviderInit => Reserving
    BY DEF ProviderInit, StartCallers, Reserving
  <1>2. TypeOK /\ Numbered /\ Reserving /\ [ProviderNext]_all => Reserving'
    <2> SUFFICES ASSUME TypeOK, Numbered, Reserving, [ProviderNext]_all PROVE Reserving'
      OBVIOUS
    <2> USE LockAssumption DEF Reserving
    <2>1. CASE Enable \/ CallBegins \/ RestoreLearner \/ Reopen \/ UNCHANGED all
      BY <2>1 DEF Enable, CallBegins, Take, RestoreLearner, Reopen, Open, ReplayEvent,
         FinishOpen,
         run, caller, all, vars
    <2>2. CASE TrainNext \/ Publish \/ CallFails
      BY <2>2 DEF TrainNext, Publish, CallFails, caller, vars
    <2>3. CASE Die
      BY <2>3 DEF Die
    <2>4. ASSUME NEW c \in Callers, Propose(c) \/ GiveUp(c) \/ Dispatch(c) \/ DispatchFails(c)
          PROVE  Reserving'
      BY <2>4 DEF Propose, GiveUp, Dispatch, DispatchFails, run, vars
    <2>5. ASSUME NEW c \in Callers, Select(c)
          PROVE  Reserving'
      <3>1. PICK q \in Plan(released) : held' = [held EXCEPT ![c] = q]
        BY <2>5 DEF Select, PlanNext
      <3>2. q.release = released
        BY <3>1 DEF Plan, ProposalFor
      <3>3. held'[c] = q /\ lock' = c /\ released = trained
        BY <2>5, <3>1 DEF Select, TypeOK, HeadAvailable, Take
      <3> QED
        BY <2>5, <3>2, <3>3 DEF Select, Take, run
    <2>6. ASSUME NEW c \in Callers, ReserveSelected(c) \/ ReserveRefused(c)
          PROVE  Reserving'
      <3>1. \A d \in Callers \ {c} : at[d] # "reserve"
        BY <2>6 DEF ReserveSelected, ReserveRefused
      <3> QED
        BY <2>6, <3>1 DEF ReserveSelected, ReserveRefused, run
    <2>7. ASSUME NEW c \in Callers, RunEnds(c)
          PROVE  Reserving'
      BY <2>7 DEF RunEnds, run, vars
    <2>8. ASSUME NEW a \in 1..MaxAttempts, NEW o \in Outcomes, Settle(a, o)
          PROVE  Reserving'
      BY <2>8 DEF Settle, RecordResult, run, caller
    <2> QED
      BY <2>1, <2>2, <2>3, <2>4, <2>5, <2>6, <2>7, <2>8 DEF ProviderNext
  <1>3. ProviderSpec => []TypeOK
    BY Composes, TypeCorrect, PTL
  <1> QED
    BY <1>1, <1>2, <1>3, NumbersKept, PTL DEF ProviderSpec

\* Every intent is logged under the release that is the latest at that moment,
\* with no training step beyond it, also where writing it raises (run
\* ReleasedAttempts).
THEOREM ReservedUnderTheLatest == ProviderSpec => LatestAtReservation
  <1> DEFINE Latest == Len(events') > Len(events) /\ events'[Len(events')].kind = "intent" =>
                          events'[Len(events')].proposal.release = released /\ released = trained
  <1>1. TypeOK /\ Reserving /\ [ProviderNext]_all => [Latest]_all
    <2> SUFFICES ASSUME TypeOK, Reserving, ProviderNext PROVE Latest
      OBVIOUS
    <2>a. Len(events) \in Nat
      BY DEF TypeOK
    <2>1. ASSUME UNCHANGED events PROVE Latest
      BY <2>1, <2>a
    <2>2. ASSUME NEW e, Published(e) \/ PublishFails(e)
          PROVE  events' = events \/ (events' = Append(events, e) /\ events'[Len(events')] = e)
      <3>1. events' = events \/ events' = Append(events, e)
        BY <2>2 DEF Published, PublishFails, Linked
      <3>2. events' = Append(events, e) => events'[Len(events')] = e
        BY DEF TypeOK
      <3> QED
        BY <3>1, <3>2
    <2>3. CASE Enable \/ CallBegins \/ TrainNext \/ Publish \/ CallFails \/ RestoreLearner
      BY <2>3, <2>1 DEF Enable, CallBegins, TrainNext, Publish, CallFails, RestoreLearner, vars
    <2>4. CASE Die \/ Reopen
      BY <2>4, <2>1 DEF Die, Stop, Reopen, Open, ReplayEvent, FinishOpen
    <2>5. ASSUME NEW c \in Callers,
                 \/ Propose(c) \/ Select(c) \/ GiveUp(c) \/ ReserveRefused(c)
                 \/ RunEnds(c) \/ Dispatch(c) \/ DispatchFails(c)
          PROVE  Latest
      BY <2>5, <2>1 DEF Propose, Select, PlanNext, GiveUp, ReserveRefused, ReserveStale,
         RunEnds,
         Dispatch, DispatchFails, vars
    <2>6. ASSUME NEW c \in Callers, ReserveSelected(c)
          PROVE  Latest
      <3>1. Published(Intent(held[c])) \/ PublishFails(Intent(held[c]))
        BY <2>6 DEF ReserveSelected, Reserve
      <3>2. held[c].release = released /\ released = trained
        BY <2>6 DEF ReserveSelected, Reserving
      <3> QED
        BY <3>1, <3>2, <2>1, <2>2 DEF Intent
    <2>7. ASSUME NEW a \in 1..MaxAttempts, NEW o \in Outcomes, Settle(a, o)
          PROVE  Latest
      <3>1. Published(Result(a, o)) \/ PublishFails(Result(a, o))
        BY <2>7 DEF Settle, RecordResult
      <3> QED
        BY <3>1, <2>1, <2>2 DEF Result
    <2> QED
      BY <2>3, <2>4, <2>5, <2>6, <2>7 DEF ProviderNext
  <1>2. ProviderSpec => []TypeOK
    BY Composes, TypeCorrect, PTL
  <1> QED
    BY <1>1, <1>2, ReservingKept, PTL DEF ProviderSpec, LatestAtReservation
-----------------------------------------------------------------------------
(* What is searched is what was reserved.                                  *)

\* The log grows and no dispatch is forgotten.
LEMMA LogGrows ==
  ASSUME TypeOK, [Next]_vars
  PROVE  /\ \A i \in DOMAIN events : i \in DOMAIN events' /\ events'[i] = events[i]
         /\ \A a \in 1..MaxAttempts : sent'[a] >= sent[a]
  <1>1. ASSUME NEW e \in Event, Published(e) \/ PublishFails(e)
        PROVE  \A i \in DOMAIN events : i \in DOMAIN events' /\ events'[i] = events[i]
    <2>1. events' = events \/ events' = Append(events, e)
      BY <1>1 DEF Published, PublishFails, Linked
    <2>2. events' = events => \A i \in DOMAIN events : i \in DOMAIN events' /\ events'[i] = events[i]
      OBVIOUS
    <2>3. events' = Append(events, e) =>
             \A i \in DOMAIN events : i \in DOMAIN events' /\ events'[i] = events[i]
      BY DEF TypeOK
    <2> QED
      BY <2>1, <2>2, <2>3
  <1>2. ASSUME NEW c \in Callers, Reserve(c)
        PROVE  \A a \in 1..MaxAttempts : sent'[a] >= sent[a]
    <2>1. sent' = sent \/ sent' = [sent EXCEPT ![held[c].attempt] = @ + 1]
      BY <1>2 DEF Reserve
    <2>2. sent \in [1..MaxAttempts -> Nat]
      BY DEF TypeOK
    <2>3. ASSUME NEW n, sent' = [sent EXCEPT ![n] = @ + 1]
          PROVE  \A a \in 1..MaxAttempts : sent'[a] >= sent[a]
      BY <2>2, <2>3
    <2>4. sent' = sent => \A a \in 1..MaxAttempts : sent'[a] >= sent[a]
      BY <2>2
    <2> QED
      BY <2>1, <2>3, <2>4
  <1>3. ASSUME NEW c \in Callers, Reserve(c)
        PROVE  \A i \in DOMAIN events : i \in DOMAIN events' /\ events'[i] = events[i]
    BY <1>3, <1>1, EventTypes DEF Reserve, TypeOK
  <1>4. ASSUME NEW a \in 1..MaxAttempts, NEW o \in Outcomes, RecordResult(a, o)
        PROVE  /\ \A i \in DOMAIN events : i \in DOMAIN events' /\ events'[i] = events[i]
               /\ sent' = sent
    BY <1>4, <1>1, EventTypes DEF RecordResult
  <1>7. \A a \in 1..MaxAttempts : sent[a] \in Nat
    BY DEF TypeOK
  <1>5. ASSUME UNCHANGED <<events, sent>>
        PROVE  /\ \A i \in DOMAIN events : i \in DOMAIN events' /\ events'[i] = events[i]
               /\ \A a \in 1..MaxAttempts : sent'[a] >= sent[a]
    BY <1>5, <1>7
  <1>6. CASE \/ \E c \in Callers : (\E r \in Releases : PlanNext(c, r)) \/ ReserveStale(c)
             \/ Stop \/ Open \/ ReplayEvent \/ FinishOpen \/ UNCHANGED vars
    BY <1>6, <1>5 DEF PlanNext, ReserveStale, Stop, Open, ReplayEvent, FinishOpen, vars
  <1> QED
    BY <1>2, <1>3, <1>4, <1>6, <1>7 DEF Next

\* The intent of the proposal is in the log.
Logged(p) == \E i \in DOMAIN events : events[i].kind = "intent" /\ events[i].proposal = p

ProviderType ==
    /\ wanted \in [Callers -> Proposal \cup {None}]
    /\ heads \in [Callers -> Nat \cup {None}]
    /\ sources \in [1..MaxAttempts -> Proposal \cup {None}]
    /\ selections \in [1..MaxAttempts -> Nat \cup {None}]
    /\ searched \subseteq 1..MaxAttempts

\* A caller in the second section has compared its plan with the one it prepared.
Compared(c) ==
    at[c] = "reserve" => heads[c] = released /\ Unreleased(held[c]) = Unreleased(wanted[c])

\* A caller on its way to the search has a logged intent, the head of its
\* release and the source made for it; nobody has searched the attempt yet.
Dispatching(c) ==
    at[c] = "dispatch" =>
        /\ wanted[c] \in Proposal /\ Logged(wanted[c])
        /\ heads[c] = wanted[c].release
        /\ Unreleased(sources[wanted[c].attempt]) = Unreleased(wanted[c])
        /\ sent[wanted[c].attempt] > 0
        /\ wanted[c].attempt \notin searched

\* Two callers never dispatch the same attempt.
Apart(c, d) ==
    at[c] = "dispatch" /\ at[d] = "dispatch" /\ wanted[c].attempt = wanted[d].attempt => c = d

Searched(a) ==
    a \in searched =>
        /\ sent[a] > 0
        /\ \E p \in Proposal :
              /\ Logged(p) /\ p.attempt = a
              /\ selections[a] = p.release
              /\ Unreleased(sources[a]) = Unreleased(p)

Faithful ==
    /\ ProviderType
    /\ \A c \in Callers : Compared(c) /\ Dispatching(c)
    /\ \A c, d \in Callers : Apart(c, d)
    /\ \A a \in 1..MaxAttempts : Searched(a)

\* A step that leaves the provider's records alone, and sends no caller on.
LEMMA RecordsKept ==
  ASSUME Faithful,
         \A i \in DOMAIN events : i \in DOMAIN events' /\ events'[i] = events[i],
         \A a \in 1..MaxAttempts : sent'[a] >= sent[a] /\ sent[a] \in Nat /\ sent'[a] \in Nat,
         ProviderType', UNCHANGED record,
         \A c \in Callers : at'[c] = "reserve" => Compared(c)',
         \A c \in Callers : at'[c] = "dispatch" => at[c] = "dispatch" /\ UNCHANGED <<wanted[c], heads[c]>>
  PROVE  Faithful'
  <1>1. ASSUME NEW p, Logged(p) PROVE Logged(p)'
    BY <1>1 DEF Logged
  <1>2. ASSUME NEW c \in Callers PROVE Dispatching(c)'
    <2>1. wanted[c] \in Proposal => wanted[c].attempt \in 1..MaxAttempts
      BY DEF Proposal
    <2> QED
      BY <1>1, <2>1 DEF Faithful, Dispatching, record
  <1>3. ASSUME NEW a \in 1..MaxAttempts PROVE Searched(a)'
    BY <1>1 DEF Faithful, Searched, record
  <1>4. ASSUME NEW c \in Callers, NEW d \in Callers PROVE Apart(c, d)'
    BY DEF Faithful, Apart
  <1>5. ASSUME NEW c \in Callers PROVE Compared(c)'
    BY DEF Compared
  <1> QED
    BY <1>2, <1>3, <1>4, <1>5 DEF Faithful
\* A reservation that succeeds: a number that was never sent, logged, with the
\* source that was made for it.
LEMMA ReservedOnce ==
  ASSUME TypeOK, TypeOK', DispatchIsDurable', Faithful, NEW c \in Callers, ReserveSelected(c),
         NEW q, q = held[c], sent' # sent
  PROVE  /\ held[c] \in Proposal /\ Logged(q)'
         /\ sent[held[c].attempt] = 0 /\ sent'[held[c].attempt] > 0
         /\ sources' = [sources EXCEPT ![held[c].attempt] = wanted[c]]
  <1>1. held[c] \in Proposal /\ held[c].attempt \in 1..MaxAttempts
    BY DEF ReserveSelected, Reserve, TypeOK, Proposal
  <1>2. Published(Intent(held[c])) /\ sent' = [sent EXCEPT ![held[c].attempt] = @ + 1]
    BY DEF ReserveSelected, Reserve
  <1>3. sent \in [1..MaxAttempts -> Nat]
    BY DEF TypeOK
  <1>4. sent'[held[c].attempt] = sent[held[c].attempt] + 1 /\ sent[held[c].attempt] \in Nat
    BY <1>1, <1>2, <1>3
  <1>5. sent'[held[c].attempt] = 1
    BY <1>1, <1>4 DEF DispatchIsDurable
  <1>6. Logged(q)'
    <2>1. events' = Append(events, Intent(held[c]))
      BY <1>2 DEF Published, Linked
    <2>2. /\ Len(events) + 1 \in DOMAIN events'
          /\ events'[Len(events) + 1] = Intent(held[c])
      BY <2>1 DEF TypeOK
    <2>3. Intent(held[c]).kind = "intent" /\ Intent(held[c]).proposal = q
      BY DEF Intent
    <2> QED
      BY <2>2, <2>3 DEF Logged
  <1> QED
    BY <1>1, <1>4, <1>5, <1>6 DEF ReserveSelected
\* A reservation, also one whose publication fails, keeps the records faithful.
LEMMA ReservationFaithful ==
  ASSUME TypeOK, TypeOK', DispatchIsDurable', Reserving, Faithful,
         NEW c \in Callers, ReserveSelected(c),
         \A i \in DOMAIN events : i \in DOMAIN events' /\ events'[i] = events[i],
         \A a \in 1..MaxAttempts : sent'[a] >= sent[a] /\ sent[a] \in Nat /\ sent'[a] \in Nat
  PROVE  Faithful'
  <1> DEFINE q == held[c]
  <1>1. q \in Proposal /\ q.attempt \in 1..MaxAttempts /\ at[c] = "reserve"
    BY DEF ReserveSelected, Reserve, TypeOK, Proposal
  <1>2. /\ wanted' = [wanted EXCEPT ![c] = q] /\ UNCHANGED <<heads, selections, searched, released>>
        /\ at' = [at EXCEPT ![c] = IF sent' # sent THEN "dispatch" ELSE "idle"]
        /\ \A d \in Callers \ {c} : at'[d] # "reserve"
    BY DEF ReserveSelected, Reserving, run
  <1>3. CASE sent' = sent
    <2>1. ProviderType' /\ UNCHANGED record
      BY <1>1, <1>2, <1>3 DEF ReserveSelected, Faithful, ProviderType, record
    <2>2. \A d \in Callers : at'[d] # "reserve"
      BY <1>2, <1>3 DEF Reserving
    <2>3. \A d \in Callers : at'[d] = "dispatch" => d # c /\ at[d] = "dispatch" /\ UNCHANGED <<wanted[d], heads[d]>>
      BY <1>2, <1>3 DEF Reserving, Faithful, ProviderType
    <2> HIDE DEF q
    <2> QED
      BY <2>1, <2>2, <2>3, RecordsKept
  <1>4. CASE sent' # sent
    <2>1. /\ sent[q.attempt] = 0 /\ sent'[q.attempt] > 0
          /\ sources' = [sources EXCEPT ![q.attempt] = wanted[c]]
      BY <1>4, ReservedOnce
    <2>2. ASSUME NEW r, r = q PROVE Logged(r)'
      BY <1>4, <2>2, ReservedOnce
    <2>3. ASSUME NEW r, Logged(r) PROVE Logged(r)'
      BY <2>3 DEF Logged
    <2>4. heads[c] = q.release /\ Unreleased(q) = Unreleased(wanted[c])
      BY <1>1 DEF Faithful, Compared, Reserving
    <2>5. wanted'[c] = q /\ \A d \in Callers \ {c} : at'[d] = at[d] /\ wanted'[d] = wanted[d]
      BY <1>2 DEF Faithful, ProviderType, Reserving
    <2>6. \A d \in Callers : at'[d] # "reserve"
      BY <1>2, <1>4 DEF Reserving
    <2>7. at'[c] = "dispatch"
      BY <1>2, <1>4 DEF Reserving
    <2> HIDE DEF q
    <2>8. ProviderType'
      BY <1>1, <1>2, <2>1 DEF Faithful, ProviderType
    <2>9. ASSUME NEW d \in Callers PROVE Compared(d)' /\ Dispatching(d)'
      <3>1. CASE d = c
        <4>1. sources'[q.attempt] = wanted[c]
          BY <1>1, <2>1 DEF Faithful, ProviderType
        <4>2. q.attempt \notin searched
          BY <1>1, <2>1 DEF Faithful, Searched
        <4>3. Logged(wanted[c])'
          BY <2>2, <2>5
        <4> QED
          BY <1>1, <1>2, <2>1, <2>4, <2>5, <2>6, <3>1, <4>1, <4>2, <4>3 DEF Compared,
             Dispatching
      <3>2. CASE d # c
        <4> SUFFICES ASSUME at[d] = "dispatch" PROVE Dispatching(d)'
          BY <2>5, <2>6, <3>2 DEF Compared, Dispatching
        <4>1. Dispatching(d) /\ wanted[d].attempt \in 1..MaxAttempts
          BY DEF Faithful, Dispatching, Proposal
        <4>2. wanted[d].attempt # q.attempt
          BY <2>1, <4>1 DEF Dispatching
        <4>3. sources'[wanted[d].attempt] = sources[wanted[d].attempt]
          BY <2>1, <4>1, <4>2 DEF Faithful, ProviderType
        <4>4. Logged(wanted[d])'
          BY <2>3, <2>5, <3>2, <4>1 DEF Dispatching
        <4> QED
          BY <1>2, <2>5, <3>2, <4>1, <4>3, <4>4 DEF Dispatching
      <3> QED
        BY <3>1, <3>2
    <2>10. ASSUME NEW d \in Callers, NEW e \in Callers PROVE Apart(d, e)'
      <3>1. \A x \in Callers : at[x] = "dispatch" => wanted[x].attempt # q.attempt
        BY <2>1 DEF Faithful, Dispatching
      <3> QED
        BY <2>5, <3>1 DEF Faithful, Apart
    <2>11. ASSUME NEW a \in 1..MaxAttempts PROVE Searched(a)'
      <3> SUFFICES ASSUME a \in searched PROVE Searched(a)'
        BY <1>2 DEF Searched
      <3>1. Searched(a) /\ a # q.attempt
        BY <2>1 DEF Faithful, Searched
      <3>2. sources'[a] = sources[a]
        BY <2>1, <3>1 DEF Faithful, ProviderType
      <3> QED
        BY <1>2, <2>3, <3>1, <3>2 DEF Searched
    <2> QED
      BY <2>8, <2>9, <2>10, <2>11 DEF Faithful
  <1> QED
    BY <1>3, <1>4

\* A dispatch, also one whose record fails, keeps the records faithful.
LEMMA DispatchFaithful ==
  ASSUME Faithful, Reserving, NEW c \in Callers, Dispatch(c) \/ DispatchFails(c),
         UNCHANGED <<events, sent>>
  PROVE  Faithful'
  <1> DEFINE n == wanted[c].attempt
  <1>1. /\ at[c] = "dispatch" /\ at' = [at EXCEPT ![c] = "idle"]
        /\ UNCHANGED <<wanted, heads, sources, released, held>>
        /\ selections' = selections \/ selections' = [selections EXCEPT ![n] = heads[c]]
        /\ searched' = searched \/ (Dispatch(c) /\ searched' = searched \cup {n})
    BY DEF Dispatch, DispatchFails, run, vars
  <1>2. n \in 1..MaxAttempts /\ n \notin searched
    BY <1>1 DEF Faithful, Dispatching, Proposal
  <1>3. \A d \in Callers \ {c} : at[d] = "dispatch" => wanted[d].attempt # n
    BY <1>1 DEF Faithful, Apart
  <1>4. ASSUME NEW r PROVE Logged(r)' <=> Logged(r)
    BY DEF Logged
  <1>5. \A d \in Callers : at'[d] = IF d = c THEN "idle" ELSE at[d]
    BY <1>1 DEF Reserving
  <1> HIDE DEF n
  <1>6. ProviderType'
    BY <1>1, <1>2 DEF Faithful, ProviderType
  <1>7. ASSUME NEW d \in Callers PROVE Compared(d)'
    BY <1>1, <1>5 DEF Faithful, Compared
  <1>8. ASSUME NEW d \in Callers PROVE Dispatching(d)'
    BY <1>1, <1>3, <1>4, <1>5 DEF Faithful, Dispatching
  <1>9. ASSUME NEW d \in Callers, NEW e \in Callers PROVE Apart(d, e)'
    BY <1>1, <1>5 DEF Faithful, Apart
  <1>10. ASSUME NEW a \in 1..MaxAttempts PROVE Searched(a)'
    <2>1. CASE a = n
      <3> SUFFICES ASSUME n \in searched' PROVE Searched(a)'
        BY <2>1 DEF Searched
      <3>0. Dispatch(c)
        BY <1>1, <1>2
      <3>1. selections' = [selections EXCEPT ![n] = heads[c]] /\ Dispatching(c)
        BY <3>0 DEF Dispatch, Faithful, n
      <3>2. selections'[n] = heads[c]
        BY <1>2, <3>1 DEF Faithful, ProviderType
      <3>3. /\ wanted[c] \in Proposal /\ Logged(wanted[c]) /\ heads[c] = wanted[c].release
            /\ Unreleased(sources[n]) = Unreleased(wanted[c]) /\ sent[n] > 0
        BY <1>1, <3>1 DEF Dispatching, n
      <3>4. PICK p \in Proposal : p = wanted[c]
        BY <3>3
      <3>5. /\ Logged(p)' /\ p.attempt = n
            /\ selections'[n] = p.release /\ Unreleased(sources'[n]) = Unreleased(p)
        BY <1>1, <1>4, <3>2, <3>3, <3>4 DEF n
      <3> QED
        BY <2>1, <3>3, <3>5 DEF Searched
    <2>2. CASE a # n
      <3> SUFFICES ASSUME a \in searched PROVE Searched(a)'
        BY <1>1, <2>2 DEF Searched
      <3>1. selections'[a] = selections[a]
        BY <1>1, <2>2 DEF Faithful, ProviderType
      <3> QED
        BY <1>1, <1>4, <3>1 DEF Faithful, Searched
    <2> QED
      BY <2>1, <2>2
  <1> QED
    BY <1>6, <1>7, <1>8, <1>9, <1>10 DEF Faithful
\* An attempt is searched only with its selection on disk, under the release it
\* was reserved under and with the source prepared for it, however the callers,
\* the learner and the ends of the process interleave (run ReleasedAttempts).
THEOREM SearchedSafe == ProviderSpec => []SearchedAsReserved
  <1>1. ProviderInit => Faithful
    BY DEF ProviderInit, StartCallers, NoRecord, Faithful, ProviderType, Compared, Dispatching,
       Apart, Searched
  <1>2. /\ TypeOK /\ TypeOK' /\ DispatchIsDurable' /\ Numbered /\ Reserving /\ Reserving'
        /\ Faithful /\ [ProviderNext]_all
        => Faithful'
    <2> SUFFICES ASSUME TypeOK, TypeOK', DispatchIsDurable', Numbered, Reserving, Reserving', Faithful,
                        [ProviderNext]_all
                 PROVE  Faithful'
      OBVIOUS
    <2>1. /\ \A i \in DOMAIN events : i \in DOMAIN events' /\ events'[i] = events[i]
          /\ \A a \in 1..MaxAttempts : sent'[a] >= sent[a] /\ sent[a] \in Nat /\ sent'[a] \in Nat
      <3>1. [Next]_vars
        BY SchedulerSteps
      <3>2. \A a \in 1..MaxAttempts : sent[a] \in Nat /\ sent'[a] \in Nat
        BY DEF TypeOK
      <3> QED
        BY <3>1, <3>2, LogGrows
    <2>2. ProviderType
      BY DEF Faithful
    <2>3. ASSUME UNCHANGED <<at, wanted, heads, held, record>>,
                 released' = released \/ \A c \in Callers : at[c] # "reserve"
          PROVE  Faithful'
      <3>1. ProviderType'
        BY <2>2, <2>3 DEF ProviderType, record
      <3>2. \A c \in Callers : at'[c] = "reserve" => Compared(c)'
        BY <2>3 DEF Faithful, Compared
      <3> QED
        BY <2>1, <2>3, <3>1, <3>2, RecordsKept
    <2>4. CASE Enable \/ CallBegins \/ RestoreLearner \/ Reopen \/ UNCHANGED all
      BY <2>3, <2>4 DEF Enable, CallBegins, RestoreLearner, Reopen, Open, ReplayEvent,
         FinishOpen,
         run, caller, record, all, vars
    <2>5. CASE TrainNext \/ Publish \/ CallFails
      <3>1. \A c \in Callers : at[c] # "reserve"
        BY <2>5, LockAssumption DEF TrainNext, Publish, CallFails, Reserving
      <3> QED
        BY <2>3, <2>5, <3>1 DEF TrainNext, Publish, CallFails, caller, record, vars
    <2>6. CASE Die
      <3>1. ProviderType' /\ UNCHANGED record
        BY <2>2, <2>6 DEF Die, ProviderType, record
      <3>2. \A c \in Callers : at'[c] = "idle"
        BY <2>6 DEF Die
      <3> QED
        BY <2>1, <3>1, <3>2, RecordsKept
    <2>7. ASSUME NEW a \in 1..MaxAttempts, NEW o \in Outcomes, Settle(a, o)
          PROVE  Faithful'
      BY <2>3, <2>7 DEF Settle, RecordResult, run, caller
    <2>8. ASSUME NEW c \in Callers, Propose(c) \/ GiveUp(c) \/ ReserveRefused(c) \/ RunEnds(c)
          PROVE  Faithful'
      <3>1. /\ \A d \in Callers \ {c} : at'[d] = at[d] /\ UNCHANGED <<wanted[d], heads[d], held[d]>>
            /\ at'[c] \in {"idle", "prepare"} /\ UNCHANGED <<released, record>>
        BY <2>2, <2>8 DEF Propose, GiveUp, ReserveRefused, ReserveStale, RunEnds, ProviderType,
           Reserving, TypeOK, run, vars
      <3>2. ProviderType'
        <4>1. CASE Propose(c)
          <5>1. released \in Releases /\ released \in Nat
            BY <4>1 DEF Propose, HeadAvailable, Numbered
          <5>2. \A q \in Plan(released) : q \in Proposal
            BY <5>1, PlanType
          <5> QED
            BY <2>2, <4>1, <5>1, <5>2 DEF Propose, ProviderType, record
        <4>2. CASE GiveUp(c) \/ ReserveRefused(c) \/ RunEnds(c)
          BY <2>2, <4>2 DEF GiveUp, ReserveRefused, RunEnds, ProviderType, record
        <4> QED
          BY <2>8, <4>1, <4>2
      <3>3. \A d \in Callers : at'[d] = "reserve" => Compared(d)'
        BY <3>1 DEF Faithful, Compared
      <3> QED
        BY <2>1, <3>1, <3>2, <3>3, RecordsKept
    <2>9. ASSUME NEW c \in Callers, Select(c)
          PROVE  Faithful'
      <3>1. /\ \A d \in Callers \ {c} : at'[d] = at[d] /\ UNCHANGED <<wanted[d], heads[d], held[d]>>
            /\ at'[c] = "reserve" /\ UNCHANGED <<wanted, released, record>>
        BY <2>2, <2>9 DEF Select, PlanNext, ProviderType, Reserving, TypeOK, run
      <3>2. ProviderType' /\ heads'[c] = released
        BY <2>2, <2>9 DEF Select, ProviderType, Numbered, record
      <3>3. Unreleased(held'[c]) = Unreleased(wanted[c])
        BY <2>9 DEF Select
      <3>4. \A d \in Callers : at'[d] = "reserve" => Compared(d)'
        BY <3>1, <3>2, <3>3 DEF Faithful, Compared
      <3> QED
        BY <2>1, <3>1, <3>2, <3>4, RecordsKept
    <2>10. ASSUME NEW c \in Callers, ReserveSelected(c)
           PROVE  Faithful'
      BY <2>1, <2>10, ReservationFaithful
    <2>11. ASSUME NEW c \in Callers, Dispatch(c) \/ DispatchFails(c)
           PROVE  Faithful'
      BY <2>11, DispatchFaithful DEF Dispatch, DispatchFails, vars
    <2> QED
      BY <2>4, <2>5, <2>6, <2>7, <2>8, <2>9, <2>10, <2>11 DEF ProviderNext
  <1>3. Faithful => SearchedAsReserved
    <2> SUFFICES ASSUME Faithful, NEW a \in searched
                 PROVE  \E i \in DOMAIN events :
                           /\ events[i].kind = "intent" /\ events[i].proposal.attempt = a
                           /\ selections[a] = events[i].proposal.release
                           /\ Unreleased(sources[a]) = Unreleased(events[i].proposal)
      BY DEF SearchedAsReserved
    <2>1. Searched(a)
      BY DEF Faithful, ProviderType
    <2>2. PICK p \in Proposal : /\ Logged(p) /\ p.attempt = a /\ selections[a] = p.release
                                /\ Unreleased(sources[a]) = Unreleased(p)
      BY <2>1 DEF Searched
    <2> QED
      BY <2>2 DEF Logged
  <1>4. ProviderSpec => [](TypeOK /\ DispatchIsDurable)
    BY Composes, TypeCorrect, DispatchedOnce, PTL
  <1> QED
    BY <1>1, <1>2, <1>3, <1>4, NumbersKept, ReservingKept, PTL DEF ProviderSpec
=============================================================================
