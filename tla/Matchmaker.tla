----------------------------- MODULE Matchmaker -----------------------------
(***************************************************************************)
(* The durable scheduler of cpu_runtime/matchmaker.py.  One writer process *)
(* at a time plans attempts on a fixed curriculum, reserves their search   *)
(* budget in an append-only directory of numbered event files, and records *)
(* one terminal result for each attempt.  The directory survives the       *)
(* process; the scheduler's memory is rebuilt from it, file by file, with  *)
(* every event validated again.                                            *)
(*                                                                         *)
(* Hashes that chain the events are abstracted to the event count: a       *)
(* proposal is pinned to the head it was planned at.  Evidence is reduced  *)
(* to the outcome, polarity to a fixed function of problem and sequence.   *)
(***************************************************************************)
EXTENDS Integers, Sequences, FiniteSets

CONSTANTS
    Problems,       \* problem_id of every curriculum problem
    Families,       \* family_id of every family
    FamilyOf,       \* [Problems -> Families]
    Targets,        \* problems with is_target, one per family
    Tie,            \* the seeded hash that breaks ties, [Problems -> Nat]
    Polarity,       \* the seeded polarity, [Problems -> [1..MaxAttempts -> Polarities]]
    Releases,       \* model releases a caller may plan with
    Callers,        \* threads that plan and reserve
    None,           \* no proposal, no result, no verdict
    HistoryWindow, TrustCount, MasteryCount,
    BaseSteps, BudgetMultiplier, CapSteps,
    MaxAttempts, TotalSteps, MaxInflight, MaxWait

Polarities == {"prove", "disprove"}
Outcomes == {"accepted", "exhausted", "unknown"}
Verdicts == {"proved", "disproved"}

ASSUME CurriculumAssumption ==
    /\ IsFiniteSet(Problems) /\ Problems # {}
    /\ FamilyOf \in [Problems -> Families]
    /\ Targets \subseteq Problems
    /\ \A f \in Families : \E p \in Targets : FamilyOf[p] = f
    /\ \A p, q \in Targets : FamilyOf[p] = FamilyOf[q] => p = q
    /\ Tie \in [Problems -> Nat]
    /\ \A p, q \in Problems : Tie[p] = Tie[q] => p = q
    /\ Polarity \in [Problems -> [1..MaxAttempts -> Polarities]]

ASSUME ConfigAssumption ==
    /\ {HistoryWindow, TrustCount, MasteryCount, BaseSteps, BudgetMultiplier,
        CapSteps, MaxAttempts, TotalSteps, MaxInflight, MaxWait}
          \subseteq Nat \ {0}
    /\ TrustCount <= HistoryWindow /\ MasteryCount <= HistoryWindow
    /\ BaseSteps <= CapSteps

ASSUME NoneAssumption == None \notin Outcomes \cup Polarities \cup Verdicts

VARIABLES
    events,       \* durable: the numbered event files
    staging,      \* durable: "clean", or "orphan" when a staged file has no event
    phase,        \* the writer process: down, opening, live, poisoned
    attempts,     \* _attempts: the proposal of each, by sequence number
    results,      \* the result of each attempt, or None
    history,      \* _history: the known outcomes of each problem, oldest first
    lastDispatch, \* _last_dispatch
    families,     \* _families: the verdict that settled a family, or None
    disproved,    \* _disproved
    reserved,     \* _reserved
    eventCount,   \* _event_count, which stands for _head as well
    recovered,    \* _recovered_pending
    held,         \* the proposal each caller holds between plan_next and reserve
    mine,         \* history: attempts whose intent this process was given
    sent,         \* history: how often the intent of an attempt was returned
    passed        \* history: times a problem was overdue and another was chosen

memory == <<attempts, results, history, lastDispatch, families, disproved, reserved,
            eventCount>>
vars == <<events, staging, phase, memory, recovered, held, mine, sent, passed>>

-----------------------------------------------------------------------------
(* Planning: a pure function of the memory and the release asked for.      *)

\* The indices of the results of p that are inside the history window.
Window(p) == {i \in DOMAIN history[p] : i > Len(history[p]) - HistoryWindow}

\* _budget: every exhausted result in the window multiplies, up to the cap.
Budget(p) ==
    LET misses == Cardinality({i \in Window(p) : history[p][i] = "exhausted"})
        grown  == BaseSteps * BudgetMultiplier ^ misses
    IN  IF grown \in BaseSteps..CapSteps THEN grown ELSE CapSteps

\* _priority: 0 for an untrusted or mixed problem, 1 for a mastered or a
\* consistently failing one.
Priority(p) ==
    LET accepted(i) == history[p][i] = "accepted"
        recent == {i \in Window(p) : i > Len(history[p]) - MasteryCount}
        mastered == /\ Cardinality(Window(p)) >= MasteryCount
                    /\ \A i \in recent : accepted(i)
        mixed == /\ \E i \in Window(p) : accepted(i)
                 /\ \E i \in Window(p) : ~accepted(i)
    IN  IF \/ Cardinality(Window(p)) < TrustCount
           \/ ~mastered /\ mixed
        THEN 0 ELSE 1

Pending == {a \in DOMAIN results : results[a] = None}
PendingProblems == {attempts[a].problem : a \in Pending}
Unknown == {a \in DOMAIN results : results[a] = "unknown"}

\* Fault for the checks: an unknown outcome no longer blocks.
BlockedByRecovered == recovered # {}

\* _blocked
Blocked == recovered # {} \/ Unknown # {}

Sequence == Len(attempts) + 1

\* Faults for the checks: a problem in flight, or of a settled family, stays on offer.
AvailableInFlight(p) == p \notin disproved /\ families[FamilyOf[p]] = None
AvailableSettled(p) == p \notin PendingProblems \cup disproved

Available(p) ==
    /\ p \notin PendingProblems
    /\ p \notin disproved
    /\ families[FamilyOf[p]] = None

Affordable(p) == reserved + Budget(p) <= TotalSteps

Candidates == {p \in Problems : Available(p) /\ Affordable(p)}

Overdue(p) == Sequence - 1 - lastDispatch[p] >= MaxWait

\* Fault for the checks: of the overdue problems the youngest dispatch goes first.
KeyYoungestFirst(p) == <<IF Overdue(p) THEN 0 ELSE 1,
                         IF Overdue(p) THEN -lastDispatch[p] ELSE Priority(p),
                         lastDispatch[p],
                         Tie[p]>>

\* The sort key of the candidates: overdue problems first, oldest dispatch
\* first among them; the others by priority, then by oldest dispatch.
Key(p) == <<IF Overdue(p) THEN 0 ELSE 1,
            IF Overdue(p) THEN lastDispatch[p] ELSE Priority(p),
            lastDispatch[p],
            Tie[p]>>

Before(k, l) ==
    \E i \in 1..4 : k[i] < l[i] /\ \A j \in 1..(i - 1) : k[j] = l[j]

Chosen(p) ==
    /\ p \in Candidates
    /\ \A q \in Candidates \ {p} : Before(Key(p), Key(q))

ProposalFor(p, release) ==
    [head     |-> eventCount,
     attempt  |-> Sequence,
     problem  |-> p,
     polarity |-> Polarity[p][Sequence],
     release  |-> release,
     budget   |-> Budget(p)]

\* _plan: the one proposal for this release, or none.  Where _plan raises
\* because the run is blocked there is none either.
Plan(release) ==
    {ProposalFor(p, release) : p \in {q \in Problems :
        /\ ~Blocked
        /\ Cardinality(PendingProblems) < MaxInflight
        /\ Sequence <= MaxAttempts
        /\ Chosen(q)}}

-----------------------------------------------------------------------------
(* Events, their validation and their effect on the memory.                *)

Intent(proposal) == [kind |-> "intent", proposal |-> proposal]
Result(a, outcome) == [kind |-> "result", attempt |-> a, outcome |-> outcome]

\* Fault for the checks: reserve trusts the proposal it was handed.
ValidEventUnplanned(e) ==
    \/ e.kind = "intent"
    \/ e.kind = "result" /\ e.attempt \in Pending /\ e.outcome \in Outcomes

\* _validate_event: an intent must be what planning gives now; a result must
\* be the first one of a known attempt.
ValidEvent(e) ==
    \/ /\ e.kind = "intent"
       /\ e.proposal \in Plan(e.proposal.release)
    \/ /\ e.kind = "result"
       /\ e.attempt \in Pending
       /\ e.outcome \in Outcomes

VerdictOf(proposal) ==
    IF proposal.polarity = "prove" THEN "proved" ELSE "disproved"

\* Fault for the checks: dispatches are dated by event number.
DispatchDatedByEvent(p) == [lastDispatch EXCEPT ![p.problem] = eventCount + 1]

DispatchDated(p) == [lastDispatch EXCEPT ![p.problem] = p.attempt]

ApplyIntent(p) ==
    /\ attempts' = Append(attempts, p)
    /\ results' = Append(results, None)
    /\ lastDispatch' = DispatchDated(p)
    /\ reserved' = reserved + p.budget
    /\ UNCHANGED <<history, families, disproved>>

\* Only a known outcome is mathematical history.
Known(outcome) == outcome # "unknown"

ApplyResult(a, outcome) ==
    LET problem  == attempts[a].problem
        verdict  == VerdictOf(attempts[a])
        accepted == outcome = "accepted"
    IN  /\ results' = [results EXCEPT ![a] = outcome]
        /\ history' = IF Known(outcome)
                      THEN [history EXCEPT ![problem] = Append(@, outcome)] ELSE history
        /\ disproved' = IF accepted /\ verdict = "disproved"
                        THEN disproved \cup {problem} ELSE disproved
        /\ families' = IF accepted /\ problem \in Targets
                       THEN [families EXCEPT ![FamilyOf[problem]] = verdict]
                       ELSE families
        /\ UNCHANGED <<attempts, lastDispatch, reserved>>

\* _apply
Apply(e) ==
    /\ \/ e.kind = "intent" /\ ApplyIntent(e.proposal)
       \/ e.kind = "result" /\ ApplyResult(e.attempt, e.outcome)
    /\ eventCount' = eventCount + 1

PassedBy(e) ==
    IF e.kind = "result" THEN passed
    ELSE [p \in Problems |->
             IF p = e.proposal.problem THEN 0
             ELSE IF p \in Candidates /\ Overdue(p) THEN passed[p] + 1
             ELSE passed[p]]

\* The event file is linked under its number.
Linked(e) ==
    /\ events' = Append(events, e)
    /\ passed' = PassedBy(e)

\* _commit when _publish returns: only then is the event applied.
Published(e) ==
    /\ Linked(e)
    /\ Apply(e)
    /\ UNCHANGED <<phase, staging>>

\* _commit when _publish raises or the process dies in it.  The event may
\* not be on disk, may be staged only, or may be linked; the memory does
\* not take it and the instance refuses further work.
PublishFails(e) ==
    /\ phase' = "poisoned"
    /\ \/ UNCHANGED <<events, staging, passed>>
       \/ staging' = "orphan" /\ UNCHANGED <<events, passed>>
       \/ Linked(e) /\ UNCHANGED staging
    /\ UNCHANGED memory

-----------------------------------------------------------------------------
(* The process.                                                            *)

InitialMemory ==
    /\ attempts = <<>>
    /\ results = <<>>
    /\ history = [p \in Problems |-> <<>>]
    /\ lastDispatch = [p \in Problems |-> 0]
    /\ families = [f \in Families |-> None]
    /\ disproved = {}
    /\ reserved = 0
    /\ eventCount = 0

\* create: an empty events directory and a live writer.
Init ==
    /\ events = <<>>
    /\ staging = "clean"
    /\ phase = "live"
    /\ InitialMemory
    /\ recovered = {}
    /\ held = [c \in Callers |-> None]
    /\ mine = {}
    /\ sent = [a \in 1..MaxAttempts |-> 0]
    /\ passed = [p \in Problems |-> 0]

\* plan_next, under the lock; the caller keeps the proposal and lets go of it.
PlanNext(c, release) ==
    /\ phase = "live"
    /\ held[c] = None
    /\ \E proposal \in Plan(release) : held' = [held EXCEPT ![c] = proposal]
    /\ UNCHANGED <<events, staging, phase, memory, recovered, mine, sent, passed>>

\* reserve: the proposal must still be what planning gives.
Reserve(c) ==
    /\ phase = "live"
    /\ held[c] # None
    /\ ValidEvent(Intent(held[c]))
    /\ held' = [held EXCEPT ![c] = None]
    /\ LET e == Intent(held[c])
           a == held[c].attempt
       IN \/ /\ Published(e)
             /\ mine' = mine \cup {a}
             /\ sent' = [sent EXCEPT ![a] = @ + 1]
          \/ /\ PublishFails(e)
             /\ UNCHANGED <<mine, sent>>
    /\ UNCHANGED recovered

\* reserve of a proposal that is stale by now raises and changes nothing.
ReserveStale(c) ==
    /\ phase = "live"
    /\ held[c] # None
    /\ ~ValidEvent(Intent(held[c]))
    /\ held' = [held EXCEPT ![c] = None]
    /\ UNCHANGED <<events, staging, phase, memory, recovered, mine, sent, passed>>

\* record_result of an attempt without one; this also reconciles an attempt
\* recovered from an earlier process.
RecordResult(a, outcome) ==
    /\ phase = "live"
    /\ ValidEvent(Result(a, outcome))
    /\ LET e == Result(a, outcome)
       IN \/ Published(e) /\ recovered' = recovered \ {a}
          \/ PublishFails(e) /\ UNCHANGED recovered
    /\ UNCHANGED <<held, mine, sent>>

\* close, or the death of the process: the memory and the callers go.
Stop ==
    /\ phase # "down"
    /\ phase' = "down"
    /\ attempts' = <<>>
    /\ results' = <<>>
    /\ history' = [p \in Problems |-> <<>>]
    /\ lastDispatch' = [p \in Problems |-> 0]
    /\ families' = [f \in Families |-> None]
    /\ disproved' = {}
    /\ reserved' = 0
    /\ eventCount' = 0
    /\ recovered' = {}
    /\ held' = [c \in Callers |-> None]
    /\ mine' = {}
    /\ UNCHANGED <<events, staging, sent, passed>>

\* open takes the writer lease and refuses a staged file without its event.
Open ==
    /\ phase = "down"
    /\ staging = "clean"
    /\ phase' = "opening"
    /\ UNCHANGED <<events, staging, memory, recovered, held, mine, sent, passed>>

\* One turn of the loop of open over the event files.
ReplayEvent ==
    /\ phase = "opening"
    /\ eventCount < Len(events)
    /\ ValidEvent(events[eventCount + 1])
    /\ Apply(events[eventCount + 1])
    /\ UNCHANGED <<events, staging, phase, recovered, held, mine, sent, passed>>

\* The end of open: an attempt without a result is not to be sent again.
FinishOpen ==
    /\ phase = "opening"
    /\ eventCount = Len(events)
    /\ phase' = "live"
    /\ recovered' = Pending
    /\ UNCHANGED <<events, staging, memory, held, mine, sent, passed>>

Next ==
    \/ \E c \in Callers : (\E r \in Releases : PlanNext(c, r)) \/ Reserve(c) \/ ReserveStale(c)
    \/ \E a \in 1..MaxAttempts, o \in Outcomes : RecordResult(a, o)
    \/ Stop \/ Open \/ ReplayEvent \/ FinishOpen

Spec == Init /\ [][Next]_vars

-----------------------------------------------------------------------------
(* Types.                                                                  *)

Proposal ==
    [head: Nat, attempt: 1..MaxAttempts, problem: Problems,
     polarity: Polarities, release: Releases, budget: BaseSteps..CapSteps]

Event ==
    [kind: {"intent"}, proposal: Proposal]
        \cup [kind: {"result"}, attempt: 1..MaxAttempts, outcome: Outcomes]

\* Every variable has its type.
TypeOK ==
    /\ events \in Seq(Event)
    /\ staging \in {"clean", "orphan"}
    /\ phase \in {"down", "opening", "live", "poisoned"}
    /\ attempts \in Seq(Proposal) /\ Len(attempts) <= MaxAttempts
    /\ results \in Seq(Outcomes \cup {None}) /\ Len(results) = Len(attempts)
    /\ history \in [Problems -> Seq({"accepted", "exhausted"})]
    /\ lastDispatch \in [Problems -> 0..MaxAttempts]
    /\ families \in [Families -> Verdicts \cup {None}]
    /\ disproved \subseteq Problems
    /\ reserved \in Nat
    /\ eventCount \in Nat
    /\ recovered \subseteq 1..MaxAttempts
    /\ held \in [Callers -> Proposal \cup {None}]
    /\ mine \subseteq 1..MaxAttempts
    /\ sent \in [1..MaxAttempts -> Nat]
    /\ passed \in [Problems -> Nat]

-----------------------------------------------------------------------------
(* What makes the scheduler correct.                                       *)

\* Reservations are never refunded, so the budgets of all admitted attempts
\* stay within total_steps, across restarts too (class docstring of Matchmaker).
BudgetBounded == reserved <= TotalSteps

\* Two attempts on one problem are never in flight together, and no more than
\* max_inflight problems are, whether this process sent the attempts or they
\* were recovered from an earlier one.
InflightDisjoint ==
    /\ \A a, b \in Pending :
          attempts[a].problem = attempts[b].problem => a = b
    /\ Cardinality(PendingProblems) <= MaxInflight

\* The recovered intents together with those of this process account for every
\* attempt without a result once open has finished.
PendingAccounted == phase \in {"live", "poisoned"} => Pending \subseteq mine \cup recovered

\* An intent is handed to a caller only when no attempt has an unknown outcome
\* and every attempt without a result was handed out by this very process: a
\* lost attempt is reconciled first and never overtaken or sent again.
LostWorkFreezesDispatch ==
    [][sent' # sent => Unknown = {} /\ Pending \subseteq mine]_vars

\* An intent a caller was given is in the durable log, and was given once,
\* over all processes that ever served the run.
DispatchIsDurable ==
    \A a \in 1..MaxAttempts :
        sent[a] > 0 =>
            /\ sent[a] = 1
            /\ \E i \in DOMAIN events :
                  events[i].kind = "intent" /\ events[i].proposal.attempt = a

\* What admission must never exceed, over all processes that serve the run: the
\* budget, one attempt in flight for a problem, max_inflight, and one handing
\* out of an intent, after it is in the durable log.
AdmissionWithinLimits == BudgetBounded /\ InflightDisjoint /\ DispatchIsDurable

\* A log that this code wrote is never refused when it is opened again: every
\* event passes the same deterministic planning at replay.
ReopenAccepts ==
    phase = "opening" /\ eventCount < Len(events) => ValidEvent(events[eventCount + 1])

IsIntent(i) == events[i].kind = "intent"
IsResult(i) == events[i].kind = "result"

\* What the memory is to be, of the log prefix it has taken: the intents in it, the
\* attempt a result in it is about, the known results and the attempts of a problem.
Intents == {i \in 1..eventCount : IsIntent(i)}
AttemptOf(i) == attempts[events[i].attempt]
KnownResults(p) == {i \in 1..eventCount : /\ IsResult(i) /\ Known(events[i].outcome)
                                          /\ AttemptOf(i).problem = p}
AcceptedAs(p, verdict) ==
    \E i \in 1..eventCount : /\ IsResult(i) /\ events[i].outcome = "accepted"
                             /\ AttemptOf(i).problem = p
                             /\ VerdictOf(AttemptOf(i)) = verdict

\* The budgets of the first n attempts.
Spent[n \in 0..Len(attempts)] == IF n = 0 THEN 0 ELSE Spent[n - 1] + attempts[n].budget

\* The sequence holds value[i] for each event number i of S, in the order of the log.
Lists(seq, S, value) ==
    /\ Len(seq) = Cardinality(S)
    /\ \A i \in S : seq[Cardinality({j \in S : j <= i})] = value[i]

AttemptsAreLogged == Lists(attempts, Intents, [i \in Intents |-> events[i].proposal])

ResultsAreLogged ==
    /\ \A i \in 1..eventCount : IsResult(i) =>
          events[i].attempt \in DOMAIN results /\ results[events[i].attempt] = events[i].outcome
    /\ \A a \in DOMAIN results : results[a] # None =>
          \E i \in 1..eventCount : IsResult(i) /\ events[i].attempt = a

HistoryIsLogged ==
    \A p \in Problems :
        Lists(history[p], KnownResults(p), [i \in KnownResults(p) |-> events[i].outcome])

DispatchesAreLogged ==
    \A p \in Problems : LET numbers == {a \in DOMAIN attempts : attempts[a].problem = p} IN
        /\ lastDispatch[p] \in numbers \cup {0}
        /\ \A a \in numbers : a <= lastDispatch[p]

VerdictsAreLogged ==
    /\ disproved = {p \in Problems : AcceptedAs(p, "disproved")}
    /\ \A f \in Families, v \in Verdicts :
          families[f] = v <=> \E p \in Targets : FamilyOf[p] = f /\ AcceptedAs(p, v)

\* The scheduler's memory is at every moment what the log prefix it has taken
\* says, told from the log as a whole rather than event by event; and the
\* prefix is the whole log unless the last publication's outcome is unknown.
MemoryIsLog ==
    /\ phase = "live" => eventCount = Len(events)
    /\ phase = "poisoned" => eventCount \in {Len(events), Len(events) - 1}
    /\ AttemptsAreLogged /\ ResultsAreLogged /\ HistoryIsLogged
    /\ DispatchesAreLogged /\ reserved = Spent[Len(attempts)] /\ VerdictsAreLogged

\* Replay rebuilds the memory: what the process holds is what its log says, and
\* reading that log from the start is accepted and gives the same memory.
ReplayRebuilds == MemoryIsLog /\ ReopenAccepts

\* The first accepted target result settles its family for good: no later
\* accepted target result of the family reaches the log, and no intent for the
\* family is written after it.
FamilySettledOnce ==
    \A i, j \in DOMAIN events :
        LET problemOf(e) == LET S == {k \in DOMAIN events : events[k].kind = "intent"
                                          /\ events[k].proposal.attempt = e.attempt}
                            IN  events[CHOOSE k \in S : TRUE].proposal.problem
            settles(e) == /\ e.kind = "result" /\ e.outcome = "accepted"
                          /\ problemOf(e) \in Targets
        IN  i < j /\ settles(events[i]) =>
              LET f == FamilyOf[problemOf(events[i])] IN
              /\ events[j].kind = "intent" => FamilyOf[events[j].proposal.problem] # f
              /\ settles(events[j]) => FamilyOf[problemOf(events[j])] # f

\* What the whole log says of each attempt, and what the live process has in hand.
OnRecord ==
    [a \in 1..MaxAttempts |->
        LET about == {i \in DOMAIN events : IsResult(i) /\ events[i].attempt = a} IN
        IF about # {} THEN events[CHOOSE i \in about : TRUE].outcome
        ELSE IF \E i \in DOMAIN events : IsIntent(i) /\ events[i].proposal.attempt = a
        THEN "pending" ELSE "free"]
InHand == {a \in mine : OnRecord[a] = "pending"}

\* The log is a ledger of attempts: whatever is lost or replayed, an attempt is
\* granted in its turn, beside nothing unknown and nothing out of hand, and gets
\* one result.
Ledger == INSTANCE AttemptLedger WITH ledger <- OnRecord, owned <- InHand
KeepsLedger == Ledger!Spec

\* The starvation guard: between two dispatches of a problem each other problem
\* overtakes it at most once while it is an overdue candidate, and the one that
\* made it overdue not at all.
OverdueNotStarved ==
    \A p \in Problems : passed[p] > 0 => passed[p] <= Cardinality(Problems) - 2
=============================================================================
