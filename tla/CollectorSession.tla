-------------------------- MODULE CollectorSession --------------------------
(***************************************************************************)
(* One session of the fixed-release collector: run_collector and the       *)
(* CollectorCoordinator of cpu_runtime/verified_collector.py, the Lean     *)
(* process it starts (VerifiedCollector.lean), the observer stream and the *)
(* acknowledgements between the two, and the result Lean leaves.           *)
(*                                                                         *)
(* The tree is seen through what is compared of it: the iteration it is of *)
(* and whether its root is solved.  Selections and backups, which only     *)
(* advance the sequence, prompts, tactics and values are left out; so are  *)
(* the pins and identities, which the collector itself hands to Lean.      *)
(***************************************************************************)
EXTENDS Integers, Sequences, FiniteSets

CONSTANTS
    MaxSteps,     \* reap.max_steps
    Candidates,   \* generations of one iteration
    Absent        \* no such file, or no value yet

Steps == 0..MaxSteps - 1
Ready == -1                                       \* the acknowledgement of the contract
Unreadable == [step |-> -1, solved |-> FALSE]     \* a tree that was cut short

ASSUME CollectorSessionAssumption ==
    /\ MaxSteps \in Nat \ {0} /\ Candidates \in Nat
    /\ Absent \notin Int /\ Absent \notin [step: Int, solved: BOOLEAN]
    /\ Absent \notin {"solved", "exhausted", "failed_unknown"}

VARIABLES
    phase,      \* Lean: "none", "start", "handshake", "search", "wait", "export",
                \* "conclude", "close" or "over"
    step,       \* Lean: the iteration
    asked,      \* Lean: a candidate was generated and is being evaluated
    root,       \* Lean: the root is solved
    proved,     \* Lean: the proof was replayed from the root and checked
    code,       \* the exit code of Lean; of a killed process it is negative
    stream,     \* observer.jsonl: the complete records
    torn,       \* observer.jsonl ends in an incomplete record
    acks,       \* steps with a checkpoint-*.ack.json, and Contract's: collector-ready
    tree,       \* raw_tree.json
    result,     \* result.json
    candidate,  \* proof-candidate.json is written
    report,     \* collector-result.json: its status
    session,    \* GPU: the session exists
    pc,         \* collector: where run_collector is
    cursor,     \* coordinator: sequence, the records accepted
    ready, lastStep,
    pendingAck, \* coordinator: pending_ack
    generated,  \* coordinator: generations without their evaluation
    frame,      \* coordinator: last_checkpoint
    error       \* why the attempt is unknown

lean == <<phase, step, asked, root, proved, code>>
observer == <<stream, torn>>
files == <<tree, result>>
coordinator == <<cursor, ready, lastStep, pendingAck, generated, frame>>
outcome == <<candidate, report, error>>
sessionVars == <<lean, observer, acks, files, session, pc, coordinator, outcome>>

SessionInit ==
    /\ phase = "none" /\ step = 0 /\ asked = FALSE /\ root = FALSE /\ proved = FALSE
    /\ code = Absent
    /\ stream = <<>> /\ torn = FALSE /\ acks = {}
    /\ tree = Absent /\ result = Absent /\ candidate = FALSE /\ report = Absent
    /\ session = FALSE
    /\ pc = "create" /\ cursor = 0 /\ ready = FALSE /\ lastStep = -1
    /\ pendingAck = Absent /\ generated = 0 /\ frame = Absent /\ error = "none"

-----------------------------------------------------------------------------
(* The Lean process.                                                       *)

Record(kind) == [kind |-> kind, step |-> step, solved |-> root]
Emits(kind) == stream' = Append(stream, Record(kind)) /\ UNCHANGED torn
Elsewhere == UNCHANGED <<acks, session, pc, coordinator, outcome>>
Running == phase \notin {"none", "over"}

\* makeObserver, up to the acknowledgement it waits for.
Contract ==
    /\ phase = "start" /\ phase' = "handshake"
    /\ Emits("collector_contract")
    /\ UNCHANGED <<step, asked, root, proved, code, files>> /\ Elsewhere

Handshake ==
    /\ phase = "handshake" /\ Ready \in acks /\ phase' = "search"
    /\ UNCHANGED <<step, asked, root, proved, code, observer, files>> /\ Elsewhere

\* A candidate is generated, then evaluated; an error in between ends the search.
Generate ==
    /\ phase = "search" /\ ~asked /\ asked' = TRUE
    /\ Cardinality({i \in DOMAIN stream : stream[i].kind = "generation" /\ stream[i].step = step})
          < Candidates
    /\ Emits("generation")
    /\ UNCHANGED <<phase, step, root, proved, code, files>> /\ Elsewhere

Evaluate ==
    /\ phase = "search" /\ asked /\ asked' = FALSE
    /\ root' \in {root, TRUE}
    /\ Emits("eval")
    /\ UNCHANGED <<phase, step, proved, code, files>> /\ Elsewhere

Checkpoint ==
    /\ phase = "search" /\ ~asked /\ phase' = "wait"
    /\ Emits("checkpoint")
    /\ UNCHANGED <<step, asked, root, proved, code, files>> /\ Elsewhere

\* The search goes on until the root is solved or the tree or the steps are used up.
TakeAck ==
    /\ phase = "wait" /\ step \in acks
    /\ Emits("checkpoint_ack")
    /\ \/ ~root /\ step + 1 \in Steps /\ phase' = "search" /\ step' = step + 1
       \/ phase' = "export" /\ UNCHANGED step
    /\ UNCHANGED <<asked, root, proved, code, files>> /\ Elsewhere

\* writeRawTree, whatever the search came to.
WriteTree ==
    /\ phase = "export" /\ phase' = "conclude"
    /\ tree' = [step |-> step, solved |-> root]
    /\ UNCHANGED <<step, asked, root, proved, code, observer, result>> /\ Elsewhere

\* An exhausted search writes its result and fails the tactic.
Exhausts ==
    /\ phase = "conclude" /\ ~root
    /\ result' = "exhausted" /\ phase' = "over" /\ code' = 1
    /\ UNCHANGED <<step, asked, root, proved, observer, tree>> /\ Elsewhere

\* The proof is extracted, replayed from the root and checked before it counts.
Solves ==
    /\ phase = "conclude" /\ root
    /\ proved' = TRUE /\ result' = "solved" /\ phase' = "close"
    /\ UNCHANGED <<step, asked, root, code, observer, tree>> /\ Elsewhere

\* The rest of the file passes or not.
Closes ==
    /\ phase = "close" /\ phase' = "over" /\ code' \in {0, 1}
    /\ UNCHANGED <<step, asked, root, proved, observer, files>> /\ Elsewhere

\* Anything raises before there is a result: a request to the model, a barrier
\* whose time is up, the replay of the proof.
Raises ==
    /\ phase \in {"start", "handshake", "search", "wait", "export", "conclude"}
    /\ phase = "handshake" => Ready \notin acks
    /\ phase = "wait" => step \notin acks
    /\ phase' = "over" /\ code' = 1
    /\ result' \in {Absent, "exception"}
    /\ UNCHANGED <<step, asked, root, proved, observer, tree>> /\ Elsewhere

\* The process is killed: whatever it was writing may be cut short.
Dead ==
    /\ phase' = "over" /\ code' = -1
    /\ torn' \in IF phase \in {"start", "search", "wait"} THEN BOOLEAN ELSE {FALSE}
    /\ tree' \in IF phase = "export" THEN {Absent, Unreadable} ELSE {tree}
    /\ result' \in IF phase = "conclude" THEN {Absent, "unreadable"} ELSE {result}
    /\ UNCHANGED <<step, asked, root, proved, stream>>

Killed == Running /\ Dead /\ Elsewhere

-----------------------------------------------------------------------------
(* The collector.                                                          *)

\* The handler: nothing is tried again, and Lean is stopped where it runs.
Fails(why) == error' = why /\ pc' = "stop"

\* The session is created, or nobody knows whether it was.
CreateSession ==
    /\ pc = "create"
    /\ \/ session' = TRUE /\ pc' = "start" /\ UNCHANGED error
       \/ session' \in BOOLEAN /\ Fails("create")
    /\ UNCHANGED <<lean, observer, acks, files, coordinator, candidate, report>>

\* The receipt is saved and checked, Lean started, its process saved.
Start ==
    /\ pc = "start"
    /\ \/ phase' = "start" /\ pc' = "poll" /\ UNCHANGED error
       \/ phase' \in {"none", "start"} /\ Fails("start")
    /\ UNCHANGED <<step, asked, root, proved, code, observer, acks, files, session, coordinator,
                   candidate, report>>

Unread == stream[cursor + 1]

\* The checks of accept.
Valid(r) ==
    /\ ~ready => r.kind = "collector_contract"
    /\ ready => r.kind # "collector_contract"
    /\ pendingAck # Absent => r.kind = "checkpoint_ack" /\ r.step = pendingAck
    /\ pendingAck = Absent => r.kind # "checkpoint_ack"
    /\ r.kind = "eval" => generated = 1
    /\ r.kind = "generation" => generated = 0
    /\ r.kind = "checkpoint" => r.step = lastStep + 1 /\ generated = 0

\* Fault for the checks: the acknowledgement of Lean is not noted.
AdvancesWaiting(r) ==
    /\ cursor' = cursor + 1
    /\ ready' = TRUE
    /\ generated' = generated + (CASE r.kind = "generation" -> 1 [] r.kind = "eval" -> -1 [] OTHER -> 0)
    /\ IF r.kind = "checkpoint" THEN lastStep' = r.step /\ pendingAck' = r.step /\ frame' = r
                                ELSE UNCHANGED <<lastStep, pendingAck, frame>>

\* What an accepted record changes.
Advances(r) ==
    /\ cursor' = cursor + 1
    /\ ready' = TRUE
    /\ generated' = generated + (CASE r.kind = "generation" -> 1 [] r.kind = "eval" -> -1 [] OTHER -> 0)
    /\ pendingAck' = IF r.kind = "checkpoint" THEN r.step ELSE Absent
    /\ IF r.kind = "checkpoint" THEN lastStep' = r.step /\ frame' = r ELSE UNCHANGED <<lastStep, frame>>

AckOf(r) == CASE r.kind = "collector_contract" -> {Ready}
              [] r.kind = "checkpoint" -> {r.step}
              [] OTHER -> {}

\* The acknowledgement is on disk before the record is accepted; writing it may
\* raise, before the file has its name or after.
Accept ==
    /\ pc = "poll" /\ cursor < Len(stream)
    /\ \/ Valid(Unread) /\ acks' = acks \cup AckOf(Unread) /\ Advances(Unread) /\ UNCHANGED <<pc, error>>
       \/ ~Valid(Unread) /\ Fails("protocol") /\ UNCHANGED <<acks, coordinator>>
       \/ /\ Valid(Unread) /\ AckOf(Unread) # {} /\ Fails("acknowledgement")
          /\ acks' \in {acks, acks \cup AckOf(Unread)}
          /\ UNCHANGED coordinator
    /\ UNCHANGED <<lean, observer, files, session, candidate, report>>

\* finish: the stream ended with the acknowledgement of a checkpoint.
Finished == ready /\ frame # Absent /\ pendingAck = Absent /\ generated = 0
            /\ stream[cursor].kind = "checkpoint_ack"

\* Lean is over and what it wrote until then has been accepted.
Exit ==
    /\ pc = "poll" /\ phase = "over" /\ cursor = Len(stream)
    /\ IF ~torn /\ Finished THEN pc' = "classify" /\ UNCHANGED error ELSE Fails("incomplete")
    /\ UNCHANGED <<lean, observer, acks, files, session, coordinator, candidate, report>>

SameTree == tree = [step |-> frame.step, solved |-> frame.solved]

\* Fault for the checks: the result is believed whatever became of the process.
ClassifiedByResult ==
    IF SameTree /\ result \in {"solved", "exhausted"} THEN result ELSE "failed_unknown"

\* classify_terminal
Classified ==
    CASE SameTree /\ code = 0 /\ result = "solved" /\ frame.solved -> "solved"
      [] SameTree /\ code = 1 /\ result = "exhausted" /\ ~frame.solved -> "exhausted"
      [] OTHER -> "failed_unknown"

Classify ==
    /\ pc = "classify"
    /\ CASE Classified = "solved" -> pc' = "propose" /\ UNCHANGED error
         [] Classified = "exhausted" -> pc' = "report" /\ UNCHANGED error
         [] OTHER -> Fails("outcome")
    /\ UNCHANGED <<lean, observer, acks, files, session, coordinator, candidate, report>>

\* The source is as it was, the path is planned and the proof written.  As
\* everywhere in the collector, an interrupt is handled like an error.
Propose ==
    /\ pc = "propose"
    /\ \/ candidate' = TRUE /\ pc' = "report" /\ UNCHANGED error
       \/ candidate' \in BOOLEAN /\ Fails("proof")
    /\ UNCHANGED <<lean, observer, acks, files, session, coordinator, report>>

\* _stop_owned_process
StopLean ==
    /\ pc = "stop" /\ pc' = "report"
    /\ IF Running THEN Dead ELSE UNCHANGED <<lean, observer, files>>
    /\ UNCHANGED <<acks, session, coordinator, outcome>>

Status == IF error # "none" THEN "failed_unknown" ELSE IF candidate THEN "solved" ELSE "exhausted"

\* The report, unless writing it raises.
Report ==
    /\ pc = "report" /\ pc' = "done"
    /\ report' \in {Absent, Status}
    /\ UNCHANGED <<lean, observer, acks, files, session, coordinator, candidate, error>>

\* The collector dies; Lean has a session of its own and lives on.
Die ==
    /\ pc \notin {"done", "dead"} /\ pc' = "dead"
    /\ UNCHANGED <<lean, observer, acks, files, session, coordinator, outcome>>

LeanNext ==
    \/ Contract \/ Handshake \/ Generate \/ Evaluate \/ Checkpoint \/ TakeAck
    \/ WriteTree \/ Exhausts \/ Solves \/ Closes \/ Raises \/ Killed

CollectorNext ==
    CreateSession \/ Start \/ Accept \/ Exit \/ Classify \/ Propose \/ StopLean \/ Report

SessionNext == LeanNext \/ CollectorNext \/ Die

SessionSpec == SessionInit /\ [][SessionNext]_sessionVars

-----------------------------------------------------------------------------
Indices(kind) == {i \in DOMAIN stream : stream[i].kind = kind}
Checked == {stream[i].step : i \in Indices("checkpoint") \cap 1..cursor}

\* Lean and its collector move in step.  Whatever fails, Lean asks the model for
\* nothing before its contract was accepted, nor in an iteration before the
\* checkpoints of all earlier ones were, and claims a proof only of a tree that
\* was accepted; and the collector's checks never fire against the Lean process
\* it started.
SearchIsAudited ==
    /\ phase \in {"search", "wait", "export", "conclude", "close"} =>
          Ready \in acks /\ 0..step - 1 \subseteq acks
    /\ phase = "search" => step \notin acks
    /\ result \in {"solved", "exhausted"} => step \in acks
    /\ error # "protocol"

\* A reported outcome other than unknown is the outcome: Lean ended by itself, it
\* replayed the proof or gave up, and every record of every iteration was accepted.
\* With an unknown outcome nothing of the attempt runs on.
KnownIsTruthful ==
    /\ report \in {"solved", "exhausted"} =>
          /\ phase = "over" /\ code = (IF proved THEN 0 ELSE 1) /\ session
          /\ (report = "solved") <=> candidate
          /\ candidate <=> proved
          /\ cursor = Len(stream) /\ Checked = 0..step
          /\ Cardinality(Indices("generation")) = Cardinality(Indices("eval"))
    /\ candidate => proved
    /\ report = "failed_unknown" => phase \in {"none", "over"}
=============================================================================
