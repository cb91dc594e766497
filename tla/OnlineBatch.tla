---------------------------- MODULE OnlineBatch -----------------------------
(***************************************************************************)
(* run_batch of cpu_runtime/online_batch.py: sessions of online training   *)
(* run in parallel, their terminal records, the retirement of their GPU    *)
(* sessions, and the start of the batch again after it stopped anywhere.   *)
(*                                                                         *)
(* A session is seen through the evidence it leaves (module OnlineTTT is   *)
(* one of them): completed_record accepts it as solved or exhausted, or    *)
(* finds it unfinished.  The contents of records and the configuration,    *)
(* which must be the same on every start, are left out.                    *)
(***************************************************************************)
EXTENDS Integers, Sequences, FiniteSets

CONSTANTS
    Sessions,         \* entries of the manifest, by line
    Concurrency,      \* concurrency
    RetireCompleted,  \* retire_completed
    Deaths,           \* bound: how often the process dies
    NoJob             \* no record at hand

\* The steps of the record of one session: its line, then its retirement.
RecordSteps == {"append", "intent", "call", "response", "receipt"}

ASSUME BatchAssumption ==
    /\ Sessions \subseteq Nat
    /\ Concurrency \in 1..32
    /\ RetireCompleted \in BOOLEAN
    /\ Deaths \in Nat
    /\ NoJob \notin Sessions /\ NoJob \notin RecordSteps
    /\ NoJob \notin [session: Sessions, step: RecordSteps]

VARIABLES
    intents,     \* disk: .batch-intents
    evidence,    \* disk: what a session's directory says of it
    lines,       \* disk: terminal records, in the order they were appended
    retirement,  \* disk: .batch-retirements, the files of each session
    resident,    \* GPU: sessions not released
    at,          \* where run_batch is; "down" when no process runs
    recovered, due,     \* complete sessions without a line, without a retirement
    entries,     \* pending: entries not attempted
    running,     \* futures in the pool that are not done
    ended,       \* futures that are done
    done,        \* futures wait() returned, not yet looked at
    job,         \* the record being appended or retired, and the step it is at
    failed,      \* failures is not empty
    ran, sent,   \* history: executions and retirement calls of each session
    deaths

disk == <<intents, evidence, lines, retirement>>
plan == <<recovered, due, entries>>
history == <<ran, sent, deaths>>
pool == <<running, ended, done>>
batchVars == <<disk, resident, at, plan, pool, job, failed, history>>

Retirement == {"intent", "response", "receipt"}
Complete(s) == evidence[s] \in {"solved", "exhausted"}
Recorded == {lines[i] : i \in DOMAIN lines}
First(S) == CHOOSE s \in S : \A t \in S : s <= t

BatchInit ==
    /\ intents = {} /\ evidence = [s \in Sessions |-> "none"]
    /\ lines = <<>> /\ retirement = [s \in Sessions |-> {}]
    /\ resident = {} /\ at = "down"
    /\ recovered = {} /\ due = {} /\ entries = {} /\ running = {} /\ ended = {} /\ done = {}
    /\ job = NoJob /\ failed = FALSE
    /\ ran = [s \in Sessions |-> 0] /\ sent = [s \in Sessions |-> 0] /\ deaths = 0

-----------------------------------------------------------------------------
(* Starting, for the first time or again.                                  *)

Attempted == {s \in Sessions : \/ s \in intents \/ evidence[s] # "none" \/ s \in Recorded
                               \/ RetireCompleted /\ retirement[s] # {}}

\* Every earlier attempt must be complete, and no retirement of unknown outcome.
Startable == \A s \in Attempted :
    Complete(s) /\ (RetireCompleted => retirement[s] \in {{}, Retirement})

\* Fault for the checks: a retirement without a receipt is sent again.
StartAgain ==
    /\ at = "down" /\ \A s \in Attempted : Complete(s)
    /\ at' = "recover"
    /\ recovered' = Attempted \ Recorded
    /\ due' = {s \in Attempted : RetireCompleted /\ "receipt" \notin retirement[s]}
    /\ entries' = Sessions \ Attempted
    /\ failed' = FALSE
    /\ UNCHANGED <<disk, resident, pool, job, history>>

Start ==
    /\ at = "down" /\ Startable
    /\ at' = "recover"
    /\ recovered' = Attempted \ Recorded
    /\ due' = {s \in Attempted : RetireCompleted /\ retirement[s] = {}}
    /\ entries' = Sessions \ Attempted
    /\ failed' = FALSE
    /\ UNCHANGED <<disk, resident, pool, job, history>>

\* Recovered records are appended first, then retirements are caught up.
Recover ==
    /\ at = "recover" /\ job = NoJob
    /\ \/ /\ recovered # {}
          /\ job' = [session |-> First(recovered), step |-> "append"]
          /\ recovered' = recovered \ {First(recovered)} /\ UNCHANGED <<due, at>>
       \/ /\ recovered = {} /\ due # {}
          /\ job' = [session |-> First(due), step |-> "intent"]
          /\ due' = due \ {First(due)} /\ UNCHANGED <<recovered, at>>
       \/ recovered = {} /\ due = {} /\ at' = "submit" /\ UNCHANGED <<recovered, due, job>>
    /\ UNCHANGED <<disk, resident, entries, pool, failed, history>>

-----------------------------------------------------------------------------
(* One record, a file at a time.  Any step may raise, before or after it    *)
(* had its effect.                                                         *)

On(step) == job # NoJob /\ job.step = step
Goes(step) == job' = [job EXCEPT !.step = step] /\ UNCHANGED <<at, failed>>
Finished == job' = NoJob /\ UNCHANGED <<at, failed>>

\* Fault for the checks: an exception while a record is settled ends the loop unnoticed.
RaisesUnnoticed == job' = NoJob /\ UNCHANGED <<at, failed>>

\* An exception: a recovery is blocked, a session that ended is one more failure.
Raises == /\ job' = NoJob
          /\ IF at = "recover" THEN at' = "raise" /\ UNCHANGED failed
                               ELSE failed' = TRUE /\ UNCHANGED at

AppendLine ==
    /\ On("append")
    /\ \/ /\ lines' = Append(lines, job.session)
          /\ IF RetireCompleted /\ at # "recover" THEN Goes("intent") ELSE Finished
       \/ lines' \in {lines, Append(lines, job.session)} /\ Raises
    /\ UNCHANGED <<intents, evidence, retirement, resident, plan, pool, history>>

Wrote(file) == retirement' = [retirement EXCEPT ![job.session] = @ \cup {file}]

WriteRetirement(file, next) ==
    /\ On(file)
    /\ \/ Wrote(file) /\ IF next = NoJob THEN Finished ELSE Goes(next)
       \/ Wrote(file) /\ Raises
       \/ UNCHANGED retirement /\ Raises
    /\ UNCHANGED <<intents, evidence, lines, resident, plan, pool, history>>

\* The only place that calls retire_session; a lost answer leaves both open.
CallRetire ==
    /\ On("call")
    /\ sent' = [sent EXCEPT ![job.session] = @ + 1]
    /\ \/ resident' = resident \ {job.session} /\ Goes("response")
       \/ resident' \in {resident, resident \ {job.session}} /\ Raises
    /\ UNCHANGED <<disk, plan, pool, ran, deaths>>

SaveRecord == \/ AppendLine \/ CallRetire
          \/ WriteRetirement("intent", "call") \/ WriteRetirement("response", "receipt")
          \/ WriteRetirement("receipt", NoJob)

-----------------------------------------------------------------------------
(* The pool.                                                               *)

Busy == Cardinality(running \cup ended)

MaySubmit == ~failed /\ entries # {} /\ Busy < Concurrency

Submit ==
    /\ at = "submit" /\ MaySubmit
    /\ \/ /\ intents' = intents \cup {First(entries)}
          /\ running' = running \cup {First(entries)}
          /\ entries' = entries \ {First(entries)}
          /\ UNCHANGED at
       \/ /\ intents' \in {intents, intents \cup {First(entries)}}
          /\ at' = "raise"
          /\ UNCHANGED <<running, entries>>
    /\ UNCHANGED <<evidence, lines, retirement, resident, recovered, due, ended, done, job,
                   failed, history>>

\* Fault for the checks: sessions are waited for as long as entries are left.
RefilledWaiting ==
    /\ at = "submit" /\ ~MaySubmit
    /\ at' = IF Busy = 0 /\ entries = {} THEN "down" ELSE "wait"
    /\ UNCHANGED <<disk, resident, plan, pool, job, failed, history>>

\* Nothing to submit: wait for a session, or the batch is over.
Refilled ==
    /\ at = "submit" /\ ~MaySubmit
    /\ at' = IF Busy = 0 THEN "down" ELSE "wait"
    /\ UNCHANGED <<disk, resident, plan, pool, job, failed, history>>

\* A pool thread takes up its session: directory, GPU session, search.
Begin(s) ==
    /\ s \in running /\ evidence[s] = "none"
    /\ evidence' = [evidence EXCEPT ![s] = "unfinished"]
    /\ ran' = [ran EXCEPT ![s] = @ + 1]
    /\ resident' \in {resident, resident \cup {s}}
    /\ UNCHANGED <<intents, lines, retirement, at, plan, pool, job, failed, sent, deaths>>

\* The search is over: solved, exhausted, or it failed and leaves no complete evidence.
End(s) ==
    /\ s \in running /\ evidence[s] = "unfinished"
    /\ running' = running \ {s} /\ ended' = ended \cup {s}
    /\ evidence' \in {evidence} \cup
          {[evidence EXCEPT ![s] = e] : e \in IF s \in resident THEN {"solved", "exhausted"} ELSE {}}
    /\ UNCHANGED <<intents, lines, retirement, resident, at, plan, done, job, failed, history>>

Wait ==
    /\ at = "wait" /\ ended # {}
    /\ at' = "settle" /\ done' = ended /\ ended' = {}
    /\ UNCHANGED <<disk, resident, plan, running, job, failed, history>>

\* The session may have raised although its evidence is complete.
Settle(s) ==
    /\ at = "settle" /\ job = NoJob /\ s \in done
    /\ done' = done \ {s}
    /\ \/ Complete(s) /\ job' = [session |-> s, step |-> "append"] /\ UNCHANGED failed
       \/ failed' = TRUE /\ UNCHANGED job
    /\ UNCHANGED <<disk, resident, at, plan, running, ended, history>>

Settled ==
    /\ at = "settle" /\ job = NoJob /\ done = {}
    /\ at' = "submit"
    /\ UNCHANGED <<disk, resident, plan, pool, job, failed, history>>

\* An exception leaves run_batch once the pool has finished what runs.
Escape ==
    /\ at = "raise" /\ running = {}
    /\ at' = "down" /\ ended' = {}
    /\ UNCHANGED <<disk, resident, plan, running, done, job, failed, history>>

\* The process dies, and its threads with it; a session that was running stays
\* unfinished for ever.
BatchDies ==
    /\ at # "down" /\ deaths < Deaths
    /\ at' = "down" /\ running' = {} /\ ended' = {} /\ done' = {} /\ job' = NoJob
    /\ deaths' = deaths + 1
    /\ UNCHANGED <<disk, resident, plan, failed, ran, sent>>

Step == \/ Recover \/ SaveRecord \/ Submit \/ Refilled \/ Wait \/ Settled \/ Escape
        \/ \E s \in Sessions : Begin(s) \/ End(s) \/ Settle(s)

BatchNext == Start \/ Step \/ BatchDies

BatchSpec == BatchInit /\ [][BatchNext]_batchVars

\* The main thread and the threads of the pool go on; a search ends by itself
\* (module OnlineTTT).  Nobody is obliged to start the batch again.
FairBatchSpec == BatchSpec /\ WF_batchVars(Step)

-----------------------------------------------------------------------------
(* What the batch promises, over all its lives.                            *)

\* With retirement a batch never has more sessions on the GPU than places, also
\* when sessions fail, retirements go wrong and the batch is started again.
SessionsWithinConcurrency == RetireCompleted => Cardinality(resident) <= Concurrency

\* Whatever the process had got to when it died or gave up, no session is
\* executed twice and no retirement is sent twice; and a session is given up on
\* the GPU only when its result is complete and its line is in a terminal file,
\* once.
RetiredOnceRecorded ==
    /\ \A s \in Sessions : ran[s] <= 1 /\ sent[s] <= 1
    /\ \A s \in Sessions : sent[s] > 0 => s \in Recorded
    /\ \A s \in Recorded : Complete(s)
    /\ Len(lines) = Cardinality(Recorded)

\* Together: what a batch does outside itself is bounded, over failures, lost
\* answers and all its lives.
BatchEffectsBounded == SessionsWithinConcurrency /\ RetiredOnceRecorded

\* A result that was complete when the batch stopped is not lost: a run that
\* returns without failures has a line for every session it ever attempted.
CleanRunIsComplete ==
    [][at = "submit" /\ at' = "down" /\ ~failed /\ deaths' = deaths
          => Sessions \subseteq Recorded /\ (RetireCompleted => resident = {})]_batchVars

\* Every start of the batch comes to an end.
BatchReturns == at # "down" ~> at = "down"
=============================================================================
