--------------------------- MODULE CollectorBatch ---------------------------
(***************************************************************************)
(* run_collector_batch of cpu_runtime/collector_batch.py: the main thread  *)
(* that plans, dispatches and settles attempts, up to two search threads,  *)
(* one verification thread, and the records they save, over restarts.      *)
(*                                                                         *)
(* The scheduler is seen through its four calls (status, plan_next,        *)
(* reserve, record_result); module Matchmaker is that scheduler in full.   *)
(* Attempts carry the numbers it gives them.  The search, retire and       *)
(* verify callbacks may return anything the code can tell apart or raise,  *)
(* and every write may fail with its record linked or not.                 *)
(***************************************************************************)
EXTENDS Integers, Sequences, FiniteSets

CONSTANTS
    SearchWorkers,  \* search_workers
    MaxPending,     \* max_pending_validation
    MaxInflight,    \* max_inflight of the scheduler
    MaxAttempts,    \* max_attempts of the scheduler
    Faulty,         \* bound: attempts whose callbacks and records may fail
    None

Attempts == 1..MaxAttempts

ASSUME BatchAssumption ==
    /\ SearchWorkers \in 1..2
    /\ MaxPending \in 1..2
    /\ MaxInflight \in 1..4
    /\ MaxAttempts \in Nat
    /\ Faulty \subseteq Attempts
    /\ None \notin Attempts

VARIABLES
    ledger,       \* disk: what the scheduler's log says of each attempt
    files,        \* disk: the records saved for each attempt
    batch,        \* disk: the batch directory
    held,         \* GPU: attempts whose session is not released
    at,           \* where the main thread is
    stop,         \* the stop event
    poisoned,     \* the scheduler refuses after a failed publication
    searches,     \* attempts in a search-stage slot
    queue,        \* attempts waiting for the verifier
    validations,  \* the attempt handed to the verification thread
    todo,         \* search futures the current pass has still to look at
    closing,      \* the attempt being settled, its result and what follows
    step,         \* the call the thread of an attempt is in
    reply,        \* what the last call returned; at last, the future
    asked,        \* history: how often each callback was called
    late,         \* history: attempts this run reserved beside an unknown outcome
    verdict       \* what the last run ended with

disk == <<ledger, files, batch>>
thread == <<step, reply, held, asked>>
stages == <<searches, queue, validations, todo>>
vars == <<ledger, files, batch, held, at, stop, poisoned, searches, queue, validations,
          todo, closing, step, reply, asked, late, verdict>>

-----------------------------------------------------------------------------
(* What the scheduler and the disk say.                                    *)

Reserved == {a \in Attempts : ledger[a] # "free"}
Pending == {a \in Attempts : ledger[a] = "pending"}
Blocked == \E a \in Attempts : ledger[a] = "unknown"
Sequence == Cardinality(Reserved) + 1

\* The records audit_completed wants to find for an attempt with this result.
Evidence(result) ==
    {<<"intent", "reserved">>, <<"retirement", "intent">>, <<"retirement", "released">>,
     <<"retirement", "receipt">>, <<"terminal", result>>}
    \cup IF result = "accepted"
         THEN {<<"search", "solved_candidate">>, <<"validation", "accepted">>}
         ELSE {<<"search", "exhausted">>}

Auditable(a) == ledger[a] \in {"accepted", "exhausted"} /\ Evidence(ledger[a]) \subseteq files[a]

\* Records are written one after the other.  One of the writes may raise, and
\* its record be there all the same.
Writes(a, records) == files' = [files EXCEPT ![a] = @ \cup {records[i] : i \in DOMAIN records}]
WriteRaises(a, records) ==
    /\ a \in Faulty
    /\ \E n \in 0..Len(records) : Writes(a, SubSeq(records, 1, n))

-----------------------------------------------------------------------------
(* execute_search and execute_verification.  Each step is the return of a  *)
(* callback with the records and checks up to the next call: nobody else   *)
(* reads those before the next start.  A phase that fails leads to the     *)
(* diagnostic.                                                             *)

Called(a, callback) == asked' = [asked EXCEPT ![a][callback] = @ + 1]
Goes(a, phase) == step' = [step EXCEPT ![a] = phase]
Returned(a, value) == reply' = [reply EXCEPT ![a] = value]

Search(a) ==
    /\ step[a] = "search"
    /\ Called(a, "search")
    /\ \E outcome \in {"solved_candidate", "exhausted"} :
          LET records == <<<<"search", outcome>>, <<"retirement", "intent">>>> IN
          \/ Writes(a, records) /\ Goes(a, "retire") /\ Returned(a, outcome)
          \/ WriteRaises(a, records) /\ Goes(a, "diagnose") /\ UNCHANGED reply
    /\ UNCHANGED <<held, stop>>

\* search raises, or its response is incomplete or of another attempt.
SearchFails(a) ==
    /\ step[a] = "search"
    /\ Called(a, "search")
    /\ WriteRaises(a, <<<<"search", "incomplete">>>>)
    /\ Goes(a, "diagnose")
    /\ UNCHANGED <<held, reply, stop>>

\* The runtime released the session.
Retire(a) ==
    LET records == <<<<"retirement", "released">>, <<"retirement", "receipt">>>> IN
    /\ step[a] = "retire"
    /\ Called(a, "retire")
    /\ held' = held \ {a}
    /\ \/ Writes(a, records) /\ Goes(a, "done")
       \/ WriteRaises(a, records) /\ Goes(a, "diagnose")
    /\ UNCHANGED <<reply, stop>>

\* validate_retirement refuses the answer.
RefusedRetirement(a) == Goes(a, "diagnose")

\* The answer does not confirm a release, or retire raises with the session
\* released or not.
RetireFails(a) ==
    /\ step[a] = "retire"
    /\ Called(a, "retire")
    /\ held' \in {held, held \ {a}}
    /\ WriteRaises(a, <<<<"retirement", "prepared">>>>)
    /\ RefusedRetirement(a)
    /\ UNCHANGED <<reply, stop>>

\* The verifier may return accepted or unknown.
RightShape(result) == result # "invalid"

\* Fault for the checks: only settling an unknown verification sets stop.
StopsLater(result) == UNCHANGED stop

\* An unknown verification sets stop before the main thread sees it.
StopsIfUnknown(result) == stop' = (stop \/ result = "unknown")

\* The verifier accepts, claims what the scheduler will refuse, says unknown,
\* or returns a result of another shape; or it raises and nothing is written.
Verify(a) ==
    /\ step[a] = "verify"
    /\ Called(a, "verify")
    /\ \E result \in {"accepted", "misclaimed", "unknown", "invalid"} :
          /\ result # "accepted" => a \in Faulty
          /\ Returned(a, result)
          /\ \/ /\ Writes(a, <<<<"validation", result>>>>)
                /\ Goes(a, IF RightShape(result) THEN "done" ELSE "diagnose")
                /\ StopsIfUnknown(result)
             \/ /\ WriteRaises(a, <<<<"validation", result>>>>)
                /\ Goes(a, "diagnose")
                /\ UNCHANGED stop
    /\ UNCHANGED held

\* diagnostic: stop first, then a record nobody reads; if that cannot be
\* written the future raises.
Diagnose(a) ==
    /\ step[a] = "diagnose"
    /\ stop' = TRUE
    /\ Goes(a, "done")
    /\ \E result \in {"unknown", "raised"} : Returned(a, result)
    /\ UNCHANGED <<files, held, asked>>

Thread(a) ==
    /\ \/ Search(a) \/ SearchFails(a) \/ Retire(a) \/ RetireFails(a) \/ Verify(a) \/ Diagnose(a)
    /\ UNCHANGED <<ledger, batch, at, poisoned, stages, closing, late, verdict>>

-----------------------------------------------------------------------------
(* The main thread: settle validations, settle or hand over searches,      *)
(* start the verifier, dispatch, wait, and again.                          *)

\* Fault for the checks: an exception the main thread caught does not stop new
\* dispatch.
FailedUnnoticed(then) == at' = then /\ UNCHANGED stop

\* failed(...): an exception the main thread caught.
Failed(then) == stop' = TRUE /\ at' = then

\* settle is called with this result.  One the scheduler refuses becomes
\* unknown, or raises if the diagnostic cannot be written.
Settles(a, result, then) ==
    LET close(r) == at' = "settle" /\ closing' = [attempt |-> a, result |-> r, then |-> then] IN
    \/ result # "misclaimed" /\ close(result) /\ stop' = (stop \/ result = "unknown")
    \/ result = "misclaimed" /\ close("unknown") /\ stop' = TRUE
    \/ result = "misclaimed" /\ Failed(then) /\ UNCHANGED closing

\* The future of a is done: it raises, or its result is settled.
Closes(a, then) ==
    \/ reply[a] = "raised" /\ Failed(then) /\ UNCHANGED closing
    \/ reply[a] # "raised" /\ Settles(a, reply[a], then)

\* Lines 283-289: the verification future, if it is done.
SettleValidations ==
    /\ at = "validations"
    /\ \/ /\ \A a \in validations : step[a] # "done"
          /\ at' = "searches"
          /\ todo' = searches
          /\ UNCHANGED <<validations, closing, stop>>
       \/ \E a \in validations :
             /\ step[a] = "done"
             /\ validations' = validations \ {a}
             /\ Closes(a, "validations")
             /\ UNCHANGED todo
    /\ UNCHANGED <<disk, thread, late, verdict, poisoned, searches, queue>>

Room == Len(queue) + Cardinality(validations) < MaxPending

\* Lines 291-305: the search futures, in the order of their dispatch.  A
\* candidate stays in its slot while the verifier has no room.
Ready == {a \in todo : step[a] = "done" /\ (reply[a] = "solved_candidate" => Room)}
First(s) == CHOOSE a \in s : \A b \in s : a <= b

Leaves(a) == searches' = searches \ {a}

VisitSearch ==
    /\ at = "searches"
    /\ Ready # {}
    /\ LET a == First(Ready) IN
       /\ todo' = {b \in todo : b > a}
       /\ Leaves(a)
       /\ \/ /\ reply[a] = "solved_candidate"
             /\ queue' = Append(queue, a)
             /\ UNCHANGED <<at, closing, stop>>
          \/ /\ reply[a] # "solved_candidate"
             /\ Closes(a, "searches")
             /\ UNCHANGED queue
    /\ UNCHANGED <<disk, thread, late, verdict, poisoned, validations>>

\* Fault for the checks: nothing is verified any more once stop is set.
VerifierFreeUnlessStopped == queue # <<>> /\ validations = {} /\ ~stop

VerifierFree == queue # <<>> /\ validations = {}

\* Lines 308-310.
StartVerifier ==
    /\ at = "searches"
    /\ Ready = {}
    /\ todo' = {}
    /\ at' = "dispatch"
    /\ IF VerifierFree
       THEN /\ queue' = Tail(queue)
            /\ validations' = {Head(queue)}
            /\ Goes(Head(queue), "verify")
       ELSE UNCHANGED <<queue, validations, step>>
    /\ UNCHANGED <<disk, reply, held, asked, late, verdict, stop, poisoned, searches, closing>>

-----------------------------------------------------------------------------
(* settle, after its checks.                                               *)

\* Fault for the checks: settle leaves the terminal record to a later moment.
TerminalUnsaved == UNCHANGED files

TerminalSaved == Writes(closing.attempt, <<<<"terminal", closing.result>>>>)

\* The terminal record is saved before the scheduler's event.
SettleWrite ==
    /\ at = "settle"
    /\ \/ TerminalSaved /\ at' = "record" /\ UNCHANGED <<closing, stop>>
       \/ /\ WriteRaises(closing.attempt, <<<<"terminal", closing.result>>>>)
          /\ Failed(closing.then)
          /\ closing' = None
    /\ UNCHANGED <<ledger, batch, thread, late, verdict, poisoned, stages>>

\* record_result: the event is published; or that fails, with the event on
\* disk or not, and the scheduler is poisoned; or it was poisoned before.
SettleRecord ==
    /\ at = "record"
    /\ at' = closing.then
    /\ closing' = None
    /\ LET recorded == ledger' = [ledger EXCEPT ![closing.attempt] = closing.result] IN
       \/ ~poisoned /\ recorded /\ UNCHANGED <<poisoned, stop>>
       \/ /\ (recorded /\ ~poisoned) \/ UNCHANGED ledger
          /\ poisoned' = TRUE
          /\ stop' = TRUE
    /\ Goes(closing.attempt, "idle")
    /\ Returned(closing.attempt, None)
    /\ UNCHANGED <<files, batch, held, asked, late, verdict, stages>>

-----------------------------------------------------------------------------
(* Dispatch, lines 312-347, and the end of a pass.                         *)

\* The last status: it raises when the scheduler is poisoned.
Completed == ~stop /\ ~poisoned /\ Pending = {} /\ ~Blocked

\* Lines 349-362: the run is over when nothing is in any stage; else the next
\* pass begins once a future is done or 0.05 s have passed.
PassEnds ==
    LET over == searches = {} /\ validations = {} /\ queue = <<>> IN
    /\ at' = IF over THEN "idle" ELSE "validations"
    /\ verdict' = IF ~over THEN verdict ELSE IF Completed THEN "completed" ELSE "blocked"

\* The loop's condition fails, or plan_next finds nothing to propose (the
\* scheduler may be at its limits or have no problem left).
DispatchEnds ==
    /\ at = "dispatch"
    /\ PassEnds
    /\ UNCHANGED <<disk, thread, late, stop, poisoned, stages, closing>>

MayDispatch == ~stop /\ Cardinality(searches) < SearchWorkers

\* provide_release and plan_next give a proposal, or one of them raises.
PlanAttempt ==
    /\ at = "dispatch"
    /\ MayDispatch
    /\ \/ /\ ~poisoned /\ ~Blocked
          /\ Cardinality(Pending) < MaxInflight /\ Sequence <= MaxAttempts
          /\ at' = "prepare"
          /\ UNCHANGED stop
       \/ Failed("abort")
    /\ UNCHANGED <<disk, thread, late, verdict, poisoned, stages, closing>>

\* prepare_source returns and stop is asked once more, or it raises; a source
\* that reserve then rejects counts with the latter.
Prepare ==
    /\ at = "prepare"
    /\ \/ stop /\ PassEnds /\ UNCHANGED stop
       \/ ~stop /\ at' = "reserve" /\ UNCHANGED <<stop, verdict>>
       \/ Failed("abort") /\ UNCHANGED verdict
    /\ UNCHANGED <<disk, thread, late, poisoned, stages, closing>>

\* History: a thread has ended and left an outcome nobody knows.
OutcomeUnknown == \E a \in Attempts : step[a] = "done" /\ reply[a] \in {"unknown", "raised"}

\* reserve: the intent is published, or the publication fails.  Whatever the
\* threads did since stop was asked goes unnoticed.
Reserve ==
    /\ at = "reserve"
    /\ LET reserved == ledger' = [ledger EXCEPT ![Sequence] = "pending"] IN
       \/ /\ reserved
          /\ at' = "create"
          /\ closing' = [attempt |-> Sequence, result |-> "unknown", then |-> "abort"]
          /\ UNCHANGED <<poisoned, stop>>
       \/ /\ reserved \/ UNCHANGED ledger
          /\ poisoned' = TRUE
          /\ Failed("abort")
          /\ UNCHANGED closing
    /\ late' = IF stop \/ OutcomeUnknown THEN late + 1 ELSE late
    /\ UNCHANGED <<files, batch, thread, verdict, stages>>

\* create_attempt, then the search is submitted and the GPU may have a session.
Submit ==
    /\ at = "create"
    /\ LET a == closing.attempt IN
       /\ Writes(a, <<<<"intent", "reserved">>>>)
       /\ searches' = searches \cup {a}
       /\ held' = held \cup {a}
       /\ Goes(a, "search")
    /\ at' = "dispatch"
    /\ closing' = None
    /\ UNCHANGED <<ledger, batch, reply, asked, late, verdict, stop, poisoned,
                   queue, validations, todo>>

\* create_attempt raises: a diagnostic and settle with the unknown result, or
\* nothing if the diagnostic cannot be written either.
SubmitFails ==
    /\ at = "create"
    /\ WriteRaises(closing.attempt, <<<<"intent", "reserved">>>>)
    /\ stop' = TRUE
    /\ \/ at' = "settle" /\ UNCHANGED closing
       \/ at' = "abort" /\ closing' = None
    /\ UNCHANGED <<ledger, batch, thread, late, verdict, poisoned, stages>>

\* The dispatch-failure record; a failure to write it is passed over.
Abort ==
    /\ at = "abort"
    /\ PassEnds
    /\ batch' \in {batch, "aborted"}
    /\ UNCHANGED <<ledger, files, thread, late, stop, poisoned, stages, closing>>

-----------------------------------------------------------------------------
(* The run as a whole.                                                     *)

\* What a run starts from, and what a death leaves of one.
Fresh ==
    /\ stop' = FALSE
    /\ searches' = {} /\ queue' = <<>> /\ validations' = {} /\ todo' = {}
    /\ closing' = None
    /\ step' = [a \in Attempts |-> "idle"]
    /\ reply' = [a \in Attempts |-> None]
    /\ late' = 0

\* What a start asks of the scheduler.
Startable == ~poisoned /\ Pending = {} /\ ~Blocked

\* audit_completed.
Audit == \A a \in Reserved : Auditable(a)

\* A run starts on a fresh batch directory or on one it can audit.
Start ==
    /\ at = "idle"
    /\ Startable
    /\ Audit
    /\ (batch = "absent" /\ Reserved = {}) \/ batch = "ready"
    /\ batch' = "ready"
    /\ at' = "validations"
    /\ verdict' = None
    /\ Fresh
    /\ UNCHANGED <<ledger, files, held, poisoned, asked>>

\* The batch directory is there, but without its identity, for ever.
CreateFails ==
    /\ at = "idle"
    /\ Startable
    /\ batch = "absent"
    /\ batch' = "broken"
    /\ UNCHANGED <<ledger, files, thread, at, late, verdict, stop, poisoned, stages, closing>>

\* The process dies; the scheduler will be opened again.
Crash ==
    /\ at # "idle" \/ poisoned
    /\ at' = "idle"
    /\ poisoned' = FALSE
    /\ verdict' = "died"
    /\ Fresh
    /\ UNCHANGED <<disk, held, asked>>

Init ==
    /\ ledger = [a \in Attempts |-> "free"]
    /\ files = [a \in Attempts |-> {}]
    /\ batch = "absent"
    /\ held = {}
    /\ at = "idle" /\ stop = FALSE /\ poisoned = FALSE
    /\ searches = {} /\ queue = <<>> /\ validations = {} /\ todo = {}
    /\ closing = None
    /\ step = [a \in Attempts |-> "idle"]
    /\ reply = [a \in Attempts |-> None]
    /\ asked = [a \in Attempts |-> [search |-> 0, retire |-> 0, verify |-> 0]]
    /\ late = 0
    /\ verdict = None

Main ==
    \/ SettleValidations \/ VisitSearch \/ StartVerifier \/ SettleWrite \/ SettleRecord
    \/ PlanAttempt \/ Prepare \/ Reserve \/ Submit \/ SubmitFails \/ Abort \/ DispatchEnds

Next ==
    \/ Main
    \/ \E a \in Attempts : Thread(a)
    \/ Start \/ CreateFails \/ Crash

Spec == Init /\ [][Next]_vars

\* The callbacks return or raise in the end ("adapters must impose their own
\* safe I/O deadlines"), and the executor's threads run.
Fairness ==
    /\ WF_vars(Main)
    /\ \A a \in Attempts : WF_vars(Thread(a))
FairSpec == Spec /\ Fairness

-----------------------------------------------------------------------------
(* Properties.                                                             *)

Results == {"solved_candidate", "exhausted", "accepted", "misclaimed", "unknown", "invalid", "raised"}
Says == Results \cup {"incomplete", "reserved", "intent", "released", "prepared", "receipt"}

\* Every variable keeps its type.
TypeOK ==
    /\ ledger \in [Attempts -> {"free", "pending", "accepted", "exhausted", "unknown"}]
    /\ files \in [Attempts -> SUBSET ({"intent", "search", "retirement", "validation", "terminal"} \X Says)]
    /\ batch \in {"absent", "broken", "ready", "aborted"}
    /\ held \subseteq Attempts
    /\ at \in {"idle", "validations", "searches", "dispatch", "prepare", "reserve", "create",
              "abort", "settle", "record"}
    /\ stop \in BOOLEAN /\ poisoned \in BOOLEAN
    /\ searches \subseteq Attempts /\ queue \in Seq(Attempts)
    /\ validations \subseteq Attempts /\ todo \subseteq Attempts
    /\ closing \in [attempt : Attempts, result : {"accepted", "exhausted", "unknown"},
                    then : {"validations", "searches", "abort"}] \cup {None}
    /\ step \in [Attempts -> {"idle", "search", "retire", "verify", "diagnose", "done"}]
    /\ reply \in [Attempts -> Results \cup {None}]
    /\ asked \in [Attempts -> [search : Nat, retire : Nat, verify : Nat]]
    /\ late \in Nat
    /\ verdict \in {None, "completed", "blocked", "died"}

\* The sessions on the GPU never outnumber the search slots, whatever failed
\* and however often the process was started again: a slot is given back only
\* for a confirmed retirement or after new dispatch has been stopped for good.
SlotsHoldSessions == Cardinality(held) <= SearchWorkers

\* No callback is called twice for an attempt, over all restarts ("each
\* mutation callback is submitted at most once").
CalledOnce == \A a \in Attempts : \A callback \in {"search", "retire", "verify"} : asked[a][callback] <= 1

\* Whatever the scheduler calls accepted or exhausted has its complete chain of
\* records on disk, so the audit of the next start finds nothing missing.
SettledIsAuditable == \A a \in Attempts : ledger[a] \in {"accepted", "exhausted"} => Auditable(a)

\* Once an outcome is unknown, at most one more attempt is reserved: the one
\* whose source was already prepared ("unknowns block new dispatch").
OneLateDispatch == late <= 1

\* What a batch does to the GPU is bounded over all its runs, and over all the
\* threads that may ask for one more thing after something became unknown.
EffectsBounded == SlotsHoldSessions /\ CalledOnce /\ OneLateDispatch

\* Attempts in a stage, and the one that is being created or settled.
InHand ==
    searches \cup {queue[i] : i \in DOMAIN queue} \cup validations
    \cup {a \in Attempts : at \in {"settle", "record", "create"} /\ closing.attempt = a}

\* The executor keeps the scheduler's ledger as the scheduler itself does: it asks
\* for the next attempt only with everything pending in hand and nothing unknown,
\* and settles an attempt once, whatever raises.
Ledger == INSTANCE AttemptLedger WITH owned <- InHand
KeepsLedger == Ledger!Spec

\* Every run comes to its end: existing work drains after a stop, a blocked
\* handover is taken up and no thread waits for ever.
RunEnds == at # "idle" ~> at = "idle"
=============================================================================
