---------------------------- MODULE CourseDriver ----------------------------
(***************************************************************************)
(* The teacher course of experiments/proof-curriculum/runner: a family of  *)
(* lessons learned one after the other (course_driver.py), the exchange of *)
(* proofs with a verifier on another host (verification_exchange.py) and   *)
(* the update from the proof that was found (success_finalization.py).     *)
(*                                                                         *)
(* Commands are called by an operator and hold the family's lock.  Each    *)
(* phase of a lesson is one operation with an intent and a completion on   *)
(* disk; state() recomputes from them what may be done next.  A search is  *)
(* one step here (module OnlineTTT is what happens in it), and of the GPU  *)
(* runtime (module GpuRuntime) the sessions of the family are kept.        *)
(* Lesson l publishes the experience l; source 0 is the initial one.       *)
(***************************************************************************)
EXTENDS Integers, FiniteSets, FiniteSetsExt

CONSTANTS
    Count,       \* lessons of the family, the last one is the target
    MaxUpdates   \* max_updates of a lesson's budget

ASSUME CourseAssumption == Count \in Nat \ {0} /\ MaxUpdates \in Nat \ {0}

Lessons == 1..Count
Phases == {"preflight", "online", "verify", "success-learn", "seal", "publish", "retire"}

VARIABLES
    plan,        \* disk: plan.json, the modes of the course
    ops,         \* disk: ops/<lesson>-<phase>: "none", "open" (an intent) or "done"
    searched,    \* disk: the result of each online operation, or NoResult
    request,     \* disk: lessons whose verification request is saved
    proof,       \* disk: lessons with a proof-check directory
    marker,      \* disk: lessons with a verification-imports marker
    replay,      \* disk: lessons with a success-replay-imports marker
    bundle,      \* the operator's export of each lesson: "none", "exported", "checked"
    session,     \* GPU: session of each lesson: "none", "live", "released", "lost"
    version,     \* GPU: updates of its parameters
    candidate,   \* GPU: version of the snapshot experience-candidate, or -1
    release,     \* GPU: the published experience of each lesson, or NoRelease
    run,         \* the process that holds the lock
    calls        \* history: calls of each phase

disk == <<plan, ops, searched, request, proof, marker, replay>>
gpu == <<session, version, candidate, release>>
vars == <<disk, bundle, gpu, run, calls>>

NoResult == [proved |-> FALSE, version |-> 0, used |-> FALSE, source |-> 0]
NoRelease == [version |-> 0, parent |-> 0]
Idle == [lesson |-> 0, phase |-> "idle", step |-> "top"]
At(l, p, step) == [lesson |-> l, phase |-> p, step |-> step]

Init ==
    /\ plan \in [success: BOOLEAN, external: BOOLEAN, exhausted: {"stop", "continue"}]
    /\ ops = [l \in Lessons |-> [p \in Phases |-> "none"]]
    /\ searched = [l \in Lessons |-> NoResult]
    /\ request = {} /\ proof = {} /\ marker = {} /\ replay = {}
    /\ bundle = [l \in Lessons |-> "none"]
    /\ session = [l \in Lessons |-> "none"] /\ version = [l \in Lessons |-> 0]
    /\ candidate = [l \in Lessons |-> -1] /\ release = [l \in Lessons |-> NoRelease]
    /\ run = Idle
    /\ calls = [l \in Lessons |-> [p \in Phases |-> 0]]

-----------------------------------------------------------------------------
(* state(): what the disk says of each lesson.                             *)

Done(l, p) == ops[l][p] = "done"
Proved(l) == Done(l, "online") /\ searched[l].proved
Trained(l) == searched[l].version + (IF Done(l, "success-learn") THEN 1 ELSE 0)

\* Gates before the retirement.
Ready(l) ==
    /\ Done(l, "online")
    /\ Proved(l) => /\ Done(l, "verify")
                    /\ Done(l, "publish") \/ (~plan.success /\ searched[l].version = 0)

\* Fault for the checks: a lesson is over before its session was retired.
TerminalReady(l) == Ready(l)
Terminal(l) == Ready(l) /\ Done(l, "retire")

Stops(l) == Terminal(l) /\ ~Proved(l) /\ plan.exhausted = "stop"
Stopped == \E l \in Lessons : Stops(l)
Over == Stopped \/ \A l \in Lessons : Terminal(l)
Current(l) == /\ ~Stopped /\ ~Terminal(l)
              /\ \A k \in 1..(l - 1) : Terminal(k)

\* Fault for the checks: a lesson's own publication is its source.
SourceNow(l) == Max({0} \cup {k \in 1..l : Done(k, "publish")})

\* confirmed_source as it was before lesson l.
Source(l) == Max({0} \cup {k \in 1..(l - 1) : Done(k, "publish")})

HalfImported(l) == plan.external /\ Proved(l) /\ ~Done(l, "verify") /\ ((l \in proof) # (l \in marker))
ImportReady(l) == l \in proof /\ l \in marker

\* completion() refuses an operation without its completion.
Unresolved == \E l \in Lessons, p \in Phases : ops[l][p] = "open"

\* Everything else that state() requires of a lesson.
Consistent(l) ==
    /\ ~plan.success => ~Done(l, "success-learn") /\ ~Done(l, "seal")
    /\ Done(l, "success-learn") => Done(l, "verify")
    /\ Done(l, "seal") => Done(l, "success-learn")
    /\ IF Done(l, "online")
       THEN /\ l > 1 => Terminal(l - 1)
            /\ \A k \in 1..(l - 1) : ~Stops(k)
            /\ Done(l, "preflight") /\ searched[l].source = Source(l)
            /\ Proved(l) /\ plan.success /\ Done(l, "publish") => Done(l, "seal")
            /\ Proved(l) /\ ~plan.success /\ searched[l].version = 0 => ~Done(l, "publish")
            /\ ~Proved(l) => \A p \in {"verify", "success-learn", "seal", "publish"} : ~Done(l, p)
            /\ Done(l, "retire") => Ready(l)
       ELSE \A p \in Phases \ {"preflight", "online"} : ~Done(l, p)

Accepted == ~Unresolved /\ \A l \in Lessons : ~HalfImported(l) /\ Consistent(l)

\* A command that finds the lock free and the state accepted.
Starts == run = Idle /\ Accepted

-----------------------------------------------------------------------------
(* Commands without a remote call.                                         *)

\* preflight compiles lesson after lesson; one that fails stays unresolved.
Preflight(l) ==
    /\ Starts /\ ~Done(l, "preflight")
    /\ \A k \in 1..(l - 1) : Done(k, "preflight")
    /\ \E result \in {"done", "open"} : ops' = [ops EXCEPT ![l].preflight = result]
    /\ UNCHANGED <<plan, searched, request, proof, marker, replay, bundle, gpu, run, calls>>

\* active_lesson
Exchanges(l) == Starts /\ plan.external /\ Current(l) /\ Proved(l) /\ ~Done(l, "verify")

\* export_request: the request is saved once; a second export is of the same one.
ExportVerification(l) ==
    /\ Exchanges(l)
    /\ request' = request \cup {l}
    /\ \/ bundle' = [bundle EXCEPT ![l] = "exported"]
       \/ UNCHANGED bundle
    /\ UNCHANGED <<plan, ops, searched, proof, marker, replay, gpu, run, calls>>

\* verify_export, on another host: the proof passes and its package is complete.
VerifyExport(l) ==
    /\ bundle[l] = "exported"
    /\ bundle' = [bundle EXCEPT ![l] = "checked"]
    /\ UNCHANGED <<disk, gpu, run, calls>>

\* import_result: the proof directory is renamed into place, then the marker is
\* written.
ImportProof(l) ==
    /\ Exchanges(l) /\ l \in request /\ bundle[l] = "checked"
    /\ l \notin proof /\ l \notin marker
    /\ proof' = proof \cup {l}
    /\ run' = At(l, "import", "open")
    /\ UNCHANGED <<plan, ops, searched, request, marker, replay, bundle, gpu, calls>>

ImportMarker ==
    /\ run.phase = "import"
    /\ marker' = marker \cup {run.lesson}
    /\ run' = Idle
    /\ UNCHANGED <<plan, ops, searched, request, proof, replay, bundle, gpu, calls>>

\* import_replay: an interrupted one left at most the dataset, which is reused.
ImportReplay(l) ==
    /\ Starts /\ plan.success /\ Current(l)
    /\ Done(l, "verify") /\ ~Done(l, "success-learn") /\ l \notin replay
    /\ replay' = replay \cup {l}
    /\ UNCHANGED <<plan, ops, searched, request, proof, marker, bundle, gpu, run, calls>>

-----------------------------------------------------------------------------
(* run: the phases of the current lesson, then of the next.                *)

Order == <<"online", "verify", "success-learn", "seal", "publish", "retire">>

\* Fault for the checks: a proof is published before it was checked.
WantedUnverified(l, p) ==
    CASE p = "verify" -> FALSE
      [] p \in {"success-learn", "seal"} -> Proved(l) /\ plan.success
      [] p = "publish" -> Proved(l) /\ Trained(l) > 0
      [] OTHER -> TRUE

Wanted(l, p) ==
    CASE p = "verify" -> Proved(l)
      [] p \in {"success-learn", "seal"} -> Proved(l) /\ plan.success
      [] p = "publish" -> Proved(l) /\ Trained(l) > 0
      [] OTHER -> TRUE

\* The first phase of the lesson that is wanted and not complete.
Due(l, p) ==
    \E i \in DOMAIN Order :
        /\ Order[i] = p /\ Wanted(l, p) /\ ~Done(l, p)
        /\ \A j \in 1..(i - 1) : Wanted(l, Order[j]) => Done(l, Order[j])

\* Fault for the checks: the update from the proof is not counted.
AcceptableOnline(l) ==
    /\ candidate[l] = searched[l].version /\ searched[l].source = Source(l)
    /\ plan.success \/ searched[l].used

\* acceptance(): the candidate is of the final version and of the lesson's own
\* source; without the update from the proof, a later generation must have used
\* an update.
Acceptable(l) ==
    /\ candidate[l] = Trained(l) /\ searched[l].source = Source(l)
    /\ plan.success \/ searched[l].used

\* Conditions under which the command returns, or raises, before the intent.
Admitted(l, p) ==
    /\ p = "online" => Done(l, "preflight")
    /\ p = "verify" /\ plan.external => ImportReady(l)
    /\ p = "success-learn" => l \in replay
    /\ p = "publish" => Acceptable(l)

\* perform: the directory and the intent.  A command goes on with the next phase
\* as long as it may, and looks at the state again before every lesson.
Perform(l, p) ==
    /\ run.phase \in {"idle", "run"} /\ ops[l][p] = "none"
    /\ Due(l, p) /\ Current(l) /\ Admitted(l, p)
    /\ (run.phase = "run" /\ run.lesson = l) \/ Accepted
    /\ ops' = [ops EXCEPT ![l][p] = "open"]
    /\ run' = At(l, p, "open")
    /\ UNCHANGED <<plan, searched, request, proof, marker, replay, bundle, gpu, calls>>

\* The operation is complete; the command may return here (max_lessons).
Completes ==
    /\ ops' = [ops EXCEPT ![run.lesson][run.phase] = "done"]
    /\ run' \in {Idle, At(run.lesson, "run", "top")}

\* It raises or the process dies: what was done so far stays.
Leaves == run' = Idle /\ UNCHANGED ops

Calls(p) ==
    /\ run.phase = p /\ run.step = "open"
    /\ calls' = [calls EXCEPT ![run.lesson][p] = @ + 1]
    /\ UNCHANGED <<plan, request, marker, replay, bundle>>

\* create, the search, and the candidate where it is not deferred.
Search ==
    /\ Calls("online")
    /\ \E v \in 0..MaxUpdates, proved, used \in BOOLEAN :
          /\ used => v > 0
          /\ searched' = [searched EXCEPT ![run.lesson] =
                [proved |-> proved, version |-> v, used |-> used, source |-> Source(run.lesson)]]
          /\ version' = [version EXCEPT ![run.lesson] = v]
          /\ candidate' = [candidate EXCEPT ![run.lesson] =
                IF proved /\ v > 0 /\ ~plan.success THEN v ELSE -1]
    /\ session' = [session EXCEPT ![run.lesson] = "live"]
    /\ Completes
    /\ UNCHANGED <<proof, release>>

\* No session, or one that was left in the middle.
SearchFails ==
    /\ Calls("online")
    /\ \/ UNCHANGED <<session, version>>
       \/ /\ session' = [session EXCEPT ![run.lesson] = "live"]
          /\ \E v \in 0..MaxUpdates : version' = [version EXCEPT ![run.lesson] = v]
    /\ Leaves
    /\ UNCHANGED <<searched, proof, candidate, release>>

\* The check of the proof; an imported one is only looked at again.
Verify ==
    /\ Calls("verify")
    /\ \/ proof' = proof \cup {run.lesson} /\ Completes
       \/ proof' \in {proof, proof \cup {run.lesson}} /\ Leaves
    /\ UNCHANGED <<searched, gpu>>

\* A call that may fail before the GPU served it or after; its answer is saved,
\* checked and completes the operation.
Served(l, served) ==
    \/ served /\ (Completes \/ Leaves)
    \/ UNCHANGED gpu /\ Leaves

SuccessLearn ==
    /\ Calls("success-learn")
    /\ Served(run.lesson,
          /\ session[run.lesson] = "live" /\ version[run.lesson] = searched[run.lesson].version
          /\ version' = [version EXCEPT ![run.lesson] = @ + 1]
          /\ UNCHANGED <<session, candidate, release>>)
    /\ UNCHANGED <<searched, proof>>

Seal ==
    /\ Calls("seal")
    /\ Served(run.lesson,
          /\ session[run.lesson] = "live" /\ version[run.lesson] = Trained(run.lesson)
          /\ candidate' = [candidate EXCEPT ![run.lesson] = version[run.lesson]]
          /\ UNCHANGED <<session, version, release>>)
    /\ UNCHANGED <<searched, proof>>

\* The experience is made from the snapshot, whatever became of the session.
Publish ==
    /\ Calls("publish")
    /\ Served(run.lesson,
          /\ candidate[run.lesson] > 0
          /\ release' = [release EXCEPT ![run.lesson] =
                [version |-> candidate[run.lesson], parent |-> searched[run.lesson].source]]
          /\ UNCHANGED <<session, version, candidate>>)
    /\ UNCHANGED <<searched, proof>>

Retire ==
    /\ Calls("retire")
    /\ Served(run.lesson,
          /\ session[run.lesson] = "live" /\ version[run.lesson] = Trained(run.lesson)
          /\ session' = [session EXCEPT ![run.lesson] = "released"]
          /\ UNCHANGED <<version, candidate, release>>)
    /\ UNCHANGED <<searched, proof>>

\* The command returns, raises or dies between two operations or after one of
\* the steps of an import.
Returns == run # Idle /\ run.step = "top" /\ run' = Idle /\ UNCHANGED <<disk, bundle, gpu, calls>>
Dies == run # Idle /\ run.step = "open" /\ run' = Idle /\ UNCHANGED <<disk, bundle, gpu, calls>>

\* The GPU process dies with its sessions; snapshots and experiences stay.
GpuRestarts ==
    /\ \E l \in Lessons : session[l] = "live"
    /\ session' = [l \in Lessons |-> IF session[l] = "live" THEN "lost" ELSE session[l]]
    /\ UNCHANGED <<disk, bundle, version, candidate, release, run, calls>>

-----------------------------------------------------------------------------
Calling == Search \/ SearchFails \/ Verify \/ SuccessLearn \/ Seal \/ Publish \/ Retire
Running == Calling \/ ImportMarker \/ Returns
Command(l) ==
    \/ Preflight(l) \/ ExportVerification(l) \/ VerifyExport(l) \/ ImportProof(l) \/ ImportReplay(l)
    \/ \E p \in Phases : Perform(l, p)

Next == Running \/ Dies \/ GpuRestarts \/ \E l \in Lessons : Command(l)

Spec == Init /\ [][Next]_vars

\* The operator goes on: whatever command is possible again and again is given.
Progress == \E l \in Lessons :
    Preflight(l) \/ ImportProof(l) \/ ImportReplay(l) \/ \E p \in Phases : Perform(l, p)
Exchange == \E l \in Lessons : ExportVerification(l)
Checking == \E l \in Lessons : VerifyExport(l)

FairSpec == Spec /\ WF_vars(Running) /\ SF_vars(Progress) /\ WF_vars(Exchange) /\ WF_vars(Checking)

-----------------------------------------------------------------------------
Published(l) == release[l] # NoRelease

\* Every call is sent at most once in the life of the family, however often its
\* commands are given, fail and die, at most one operation is ever open, and no
\* two lessons have a session on the GPU.
OneThingAtATime ==
    /\ \A l \in Lessons, p \in Phases : calls[l][p] <= 1
    /\ \A l, k \in Lessons, p, q \in Phases :
          ops[l][p] = "open" /\ ops[k][q] = "open" => l = k /\ p = q
    /\ \A l, k \in Lessons : session[l] = "live" /\ session[k] = "live" => l = k

\* What the next lessons inherit: a published experience has a checked proof and
\* all the updates of its lesson, the one from the proof included, and its parent
\* is the last lesson published before it; and the session of a proved lesson
\* that was trained is not given up before that experience exists.
PublishedIsProved ==
    \A l \in Lessons :
        /\ Published(l) =>
              /\ Proved(l) /\ Done(l, "verify") /\ l \in proof
              /\ release[l].version = searched[l].version + (IF plan.success THEN 1 ELSE 0)
              /\ release[l].parent = Max({0} \cup {k \in 1..(l - 1) : Published(k)})
        /\ session[l] = "released" /\ Proved(l) /\ (plan.success \/ searched[l].version > 0) =>
              Published(l)

\* state() fails closed on any record it does not expect.  It refuses nothing the
\* driver itself wrote, but for an operation or an import without its end.
Reconcilable ==
    run = Idle /\ ~Unresolved /\ (\A l \in Lessons : ~HalfImported(l)) => Accepted

\* The only proof that can never be published nor retired: trained, but no later
\* generation used the update, and no update from the proof is planned.
Unpublishable(l) ==
    /\ Current(l) /\ Done(l, "verify") /\ ~plan.success
    /\ searched[l].version > 0 /\ ~searched[l].used

\* While the operator goes on, the course ends, unless an outcome is unknown, an
\* import was cut in two or a trained proof may not be published.
CourseEnds ==
    <>(run = Idle /\ (Over \/ Unresolved \/ \E l \in Lessons : HalfImported(l) \/ Unpublishable(l)))
=============================================================================
