------------------------- MODULE CourseDriverProofs -------------------------
(* Theorems about CourseDriver for families of any length and any budget.  *)
EXTENDS CourseDriver, TLAPS

Modes == [success: BOOLEAN, external: BOOLEAN, exhausted: {"stop", "continue"}]

TypeOK ==
    /\ plan \in Modes
    /\ ops \in [Lessons -> [Phases -> {"none", "open", "done"}]]
    /\ searched = [l \in Lessons |-> searched[l]]
    /\ \A l \in Lessons : /\ searched[l].proved \in BOOLEAN /\ searched[l].used \in BOOLEAN
                          /\ searched[l].version \in Nat
    /\ session \in [Lessons -> {"none", "live", "released", "lost"}]
    /\ version \in [Lessons -> Nat]
    /\ candidate \in [Lessons -> Nat \cup {-1}]
    /\ release = [l \in Lessons |-> release[l]]
    /\ calls \in [Lessons -> [Phases -> Nat]]
    /\ run \in [lesson: Lessons \cup {0}, phase: Phases \cup {"idle", "run", "import"},
                step: {"top", "open"}]
    /\ run.phase # "idle" => run.lesson \in Lessons
    /\ run.step = "open" <=> run.phase \in Phases \cup {"import"}

\* The open operation: the one the process is in, or, with no process, the one
\* that was left without its completion.
OneOpen ==
    /\ run.phase \in Phases => ops[run.lesson][run.phase] = "open"
    /\ run.phase \in {"run", "import"} => ~Unresolved
    /\ \A l, k \in Lessons, p, q \in Phases :
          ops[l][p] = "open" /\ ops[k][q] = "open" => l = k /\ p = q

\* Nothing is called before its intent, nor a second time after it.
CalledOnce ==
    \A l \in Lessons, p \in Phases :
        /\ calls[l][p] <= 1
        /\ ops[l][p] = "none" \/ (run.lesson = l /\ run.phase = p) => calls[l][p] = 0

Base == TypeOK /\ OneOpen /\ CalledOnce

-----------------------------------------------------------------------------
\* Two levels of a table.
LEMMA TableUpdate ==
  ASSUME NEW S, NEW T, NEW V, NEW f \in [S -> [T -> V]], NEW s \in S, NEW t \in T, NEW v \in V
  PROVE  /\ [f EXCEPT ![s][t] = v] \in [S -> [T -> V]]
         /\ \A x \in S, y \in T :
               [f EXCEPT ![s][t] = v][x][y] = IF x = s /\ y = t THEN v ELSE f[x][y]
  OBVIOUS

\* The only ways an operation changes: an intent, a completion, a preflight.
OpSet(l, p, v) ==
    /\ ops' \in [Lessons -> [Phases -> {"none", "open", "done"}]]
    /\ \A k \in Lessons, q \in Phases :
          ops'[k][q] = IF k = l /\ q = p THEN v ELSE ops[k][q]

\* An update of the table of operations is such a change.
LEMMA Intents ==
  ASSUME TypeOK, NEW l \in Lessons, NEW p \in Phases, NEW v \in {"none", "open", "done"},
         ops' = [ops EXCEPT ![l][p] = v]
  PROVE  OpSet(l, p, v)
  <1>1. ops \in [Lessons -> [Phases -> {"none", "open", "done"}]]
    BY DEF TypeOK
  <1>2. /\ [ops EXCEPT ![l][p] = v] \in [Lessons -> [Phases -> {"none", "open", "done"}]]
        /\ \A x \in Lessons, y \in Phases :
              [ops EXCEPT ![l][p] = v][x][y] = IF x = l /\ y = p THEN v ELSE ops[x][y]
    BY <1>1, TableUpdate
  <1> QED
    BY <1>2 DEF OpSet

\* What a call does to the operation it is in.
LEMMA CallEnds ==
  ASSUME TypeOK, NEW p \in Phases, Calls(p), Completes \/ Leaves
  PROVE  /\ run.phase = p /\ run.lesson \in Lessons
         /\ \/ OpSet(run.lesson, p, "done") /\ (run' = Idle \/ run' = At(run.lesson, "run", "top"))
            \/ UNCHANGED ops /\ run' = Idle
         /\ calls' \in [Lessons -> [Phases -> Nat]]
         /\ \A k \in Lessons, q \in Phases :
               calls'[k][q] = IF k = run.lesson /\ q = p THEN calls[k][q] + 1 ELSE calls[k][q]
  <1>1. run.phase = p /\ run.lesson \in Lessons
    BY DEF TypeOK, Calls, Phases
  <1>2. \/ OpSet(run.lesson, p, "done") /\ (run' = Idle \/ run' = At(run.lesson, "run", "top"))
        \/ UNCHANGED ops /\ run' = Idle
    BY <1>1, Intents DEF Completes, Leaves
  <1>3. calls' = [calls EXCEPT ![run.lesson][p] = calls[run.lesson][p] + 1]
    BY DEF Calls
  <1>4. calls \in [Lessons -> [Phases -> Nat]] /\ calls[run.lesson][p] + 1 \in Nat
    BY <1>1 DEF TypeOK
  <1>5. /\ calls' \in [Lessons -> [Phases -> Nat]]
        /\ \A k \in Lessons, q \in Phases :
               calls'[k][q] = IF k = run.lesson /\ q = p THEN calls[k][q] + 1 ELSE calls[k][q]
    BY <1>1, <1>3, <1>4, TableUpdate
  <1> QED
    BY <1>1, <1>2, <1>5

\* The calls other than the search answer about the lesson they were sent for,
\* and change one of the tables of the GPU.
LEMMA CallsType ==
  ASSUME TypeOK, Calling
  PROVE  /\ \E p \in Phases : Calls(p) /\ (Completes \/ Leaves)
         /\ searched' = [l \in Lessons |-> searched'[l]]
         /\ \A l \in Lessons : /\ searched'[l].proved \in BOOLEAN /\ searched'[l].used \in BOOLEAN
                               /\ searched'[l].version \in Nat
         /\ session' \in [Lessons -> {"none", "live", "released", "lost"}]
         /\ version' \in [Lessons -> Nat]
         /\ candidate' \in [Lessons -> Nat \cup {-1}]
         /\ release' = [l \in Lessons |-> release'[l]]
         /\ plan' = plan
  <1> USE CourseAssumption DEF TypeOK
  <1>1. CASE Search
    <2>1. PICK v \in 0..MaxUpdates, proved \in BOOLEAN, used \in BOOLEAN :
             /\ searched' = [searched EXCEPT ![run.lesson] =
                   [proved |-> proved, version |-> v, used |-> used, source |-> Source(run.lesson)]]
             /\ version' = [version EXCEPT ![run.lesson] = v]
             /\ candidate' = [candidate EXCEPT ![run.lesson] =
                   IF proved /\ v > 0 /\ ~plan.success THEN v ELSE -1]
      BY <1>1 DEF Search
    <2>2. v \in Nat /\ run.lesson \in Lessons
      BY <1>1 DEF Search, Calls, Phases
    <2>3. version' \in [Lessons -> Nat] /\ candidate' \in [Lessons -> Nat \cup {-1}]
      BY <2>1, <2>2
    <2>4. /\ searched' = [l \in Lessons |-> searched'[l]]
          /\ \A l \in Lessons : /\ searched'[l].proved \in BOOLEAN /\ searched'[l].used \in BOOLEAN
                                /\ searched'[l].version \in Nat
      BY <2>1, <2>2
    <2> QED
      BY <1>1, <2>3, <2>4 DEF Search, Calls, Phases
  <1>2. CASE SearchFails
    <2>1. session' \in [Lessons -> {"none", "live", "released", "lost"}] /\ version' \in [Lessons -> Nat]
      <3>1. CASE UNCHANGED <<session, version>>
        BY <3>1
      <3>2. CASE /\ session' = [session EXCEPT ![run.lesson] = "live"]
                 /\ \E v \in 0..MaxUpdates : version' = [version EXCEPT ![run.lesson] = v]
        <4>1. session' \in [Lessons -> {"none", "live", "released", "lost"}]
          BY <3>2
        <4>2. PICK v \in 0..MaxUpdates : version' = [version EXCEPT ![run.lesson] = v]
          BY <3>2
        <4>3. v \in Nat /\ version \in [Lessons -> Nat]
          OBVIOUS
        <4> QED
          BY <4>1, <4>2, <4>3
      <3> QED
        BY <1>2, <3>1, <3>2 DEF SearchFails
    <2> QED
      BY <1>2, <2>1 DEF SearchFails, Calls, Phases
  <1>3. CASE Verify
    BY <1>3 DEF Verify, Calls, Phases, gpu
  <1>4. CASE SuccessLearn
    <2>1. version' \in [Lessons -> Nat]
      BY <1>4 DEF SuccessLearn, Served, gpu
    <2> QED
      BY <1>4, <2>1 DEF SuccessLearn, Served, Calls, Phases, gpu
  <1>5. CASE Seal
    <2>1. candidate' \in [Lessons -> Nat \cup {-1}]
      <3>1. CASE candidate' = [candidate EXCEPT ![run.lesson] = version[run.lesson]]
        <4>1. run.lesson \in Lessons
          BY <1>5 DEF Seal, Calls, Phases
        <4>2. version[run.lesson] \in Nat
          BY <4>1
        <4> QED
          BY <3>1, <4>1, <4>2
      <3>2. CASE UNCHANGED candidate
        BY <3>2
      <3> QED
        BY <1>5, <3>1, <3>2 DEF Seal, Served, gpu
    <2>2. UNCHANGED <<session, version, release, searched, plan>>
      BY <1>5 DEF Seal, Served, Calls, gpu
    <2>3. Calls("seal") /\ (Completes \/ Leaves)
      BY <1>5 DEF Seal, Served
    <2> QED
      BY <2>1, <2>2, <2>3 DEF Phases
  <1>6. CASE Publish
    <2>1. release' = [l \in Lessons |-> release'[l]]
      <3>1. ASSUME NEW r, release' = [release EXCEPT ![run.lesson] = r]
            PROVE  release' = [l \in Lessons |-> release'[l]]
        BY <3>1
      <3> QED
        BY <1>6, <3>1 DEF Publish, Served, gpu
    <2>2. UNCHANGED <<session, version, candidate, searched, plan>>
      BY <1>6 DEF Publish, Served, Calls, gpu
    <2>3. Calls("publish") /\ (Completes \/ Leaves)
      BY <1>6 DEF Publish, Served
    <2> QED
      BY <2>1, <2>2, <2>3 DEF Phases
  <1>7. CASE Retire
    <2>1. session' \in [Lessons -> {"none", "live", "released", "lost"}]
      BY <1>7 DEF Retire, Served, gpu
    <2>2. UNCHANGED <<version, candidate, release, searched, plan>>
      BY <1>7 DEF Retire, Served, Calls, gpu
    <2>3. Calls("retire") /\ (Completes \/ Leaves)
      BY <1>7 DEF Retire, Served
    <2> QED
      BY <2>1, <2>2, <2>3 DEF Phases
  <1> QED
    BY <1>1, <1>2, <1>3, <1>4, <1>5, <1>6, <1>7 DEF Calling

\* Types, the single open operation and the single call hold together.
LEMMA BaseHolds == Spec => []Base
  <1>1. Init => Base
    <2> SUFFICES ASSUME Init PROVE Base
      OBVIOUS
    <2>1. TypeOK
      BY DEF Init, TypeOK, Modes, NoResult, NoRelease, Idle, Phases
    <2>2. OneOpen /\ CalledOnce
      BY DEF Init, OneOpen, CalledOnce, Idle, Phases
    <2> QED
      BY <2>1, <2>2 DEF Base
  <1>2. Base /\ [Next]_vars => Base'
    <2> SUFFICES ASSUME TypeOK, OneOpen, CalledOnce, [Next]_vars PROVE TypeOK' /\ OneOpen' /\ CalledOnce'
      BY DEF Base
    <2>1. ASSUME NEW l \in Lessons, Preflight(l)
          PROVE  TypeOK' /\ OneOpen' /\ CalledOnce'
      <3>1. PICK v \in {"done", "open"} : OpSet(l, "preflight", v)
        <4>1. PICK v \in {"done", "open"} : ops' = [ops EXCEPT ![l]["preflight"] = v]
          BY <2>1 DEF Preflight
        <4> QED
          BY <4>1, Intents DEF Phases
      <3>2. run = Idle /\ ~Unresolved /\ UNCHANGED <<run, calls>>
        BY <2>1 DEF Preflight, Starts, Accepted
      <3>3. TypeOK'
        BY <2>1, <3>1 DEF Preflight, TypeOK, OpSet, gpu
      <3>4. OneOpen'
        BY <3>1, <3>2 DEF OneOpen, OpSet, Unresolved, Idle, Phases
      <3>5. CalledOnce'
        BY <3>1, <3>2 DEF CalledOnce, OpSet, Idle, Phases
      <3> QED
        BY <3>3, <3>4, <3>5
    <2>2. ASSUME NEW l \in Lessons, NEW p \in Phases, Perform(l, p)
          PROVE  TypeOK' /\ OneOpen' /\ CalledOnce'
      <3>1. OpSet(l, p, "open") /\ run' = At(l, p, "open") /\ ops[l][p] = "none"
        BY <2>2, Intents DEF Perform
      <3>2. ~Unresolved
        BY <2>2 DEF Perform, Accepted, OneOpen
      <3>3. TypeOK'
        BY <2>2, <3>1 DEF Perform, TypeOK, OpSet, gpu, At, Phases
      <3>4. OneOpen'
        BY <3>1, <3>2 DEF OneOpen, OpSet, Unresolved, At, Phases
      <3>5. CalledOnce'
        BY <2>2, <3>1 DEF Perform, CalledOnce, OpSet, At, TypeOK
      <3> QED
        BY <3>3, <3>4, <3>5
    <2>3. CASE Calling
      <3>1. PICK p \in Phases : Calls(p) /\ (Completes \/ Leaves)
        BY <2>3, CallsType
      <3>2. /\ run.phase = p /\ run.lesson \in Lessons
            /\ \/ OpSet(run.lesson, p, "done") /\ (run' = Idle \/ run' = At(run.lesson, "run", "top"))
               \/ UNCHANGED ops /\ run' = Idle
            /\ calls' \in [Lessons -> [Phases -> Nat]]
            /\ \A k \in Lessons, q \in Phases :
                  calls'[k][q] = IF k = run.lesson /\ q = p THEN calls[k][q] + 1 ELSE calls[k][q]
        BY <3>1, CallEnds
      <3>3. TypeOK'
        BY <2>3, <3>2, CallsType DEF TypeOK, OpSet, Idle, At, Phases
      <3>4. ops[run.lesson][p] = "open"
        BY <3>2 DEF OneOpen
      <3>5. OneOpen'
        <4>1. CASE OpSet(run.lesson, p, "done") /\ (run' = Idle \/ run' = At(run.lesson, "run", "top"))
          <5>1. \A k \in Lessons, q \in Phases : ops'[k][q] # "open"
            <6> SUFFICES ASSUME NEW k \in Lessons, NEW q \in Phases
                         PROVE  ops'[k][q] # "open"
              OBVIOUS
            <6>1. CASE k = run.lesson /\ q = p
              BY <3>1, <3>2, <4>1, <6>1 DEF OpSet
            <6>2. CASE ~(k = run.lesson /\ q = p)
              <7>1. ops'[k][q] = ops[k][q]
                BY <3>1, <3>2, <4>1, <6>2 DEF OpSet
              <7>2. ops[k][q] # "open"
                BY <3>2, <3>4, <6>2 DEF OneOpen
              <7> QED BY <7>1, <7>2
            <6> QED BY <6>1, <6>2
          <5> QED
            BY <4>1, <5>1 DEF OneOpen, Unresolved, Idle, At, Phases
        <4>2. CASE UNCHANGED ops /\ run' = Idle
          BY <4>2 DEF OneOpen, Idle, Phases
        <4> QED
          BY <3>2, <4>1, <4>2
      <3>6. CalledOnce'
        <4> SUFFICES ASSUME NEW k \in Lessons, NEW q \in Phases
                     PROVE  /\ calls'[k][q] <= 1
                            /\ ops'[k][q] = "none" \/ (run'.lesson = k /\ run'.phase = q) =>
                                  calls'[k][q] = 0
          BY DEF CalledOnce
        <4>1. run'.phase \notin Phases
          BY <3>2 DEF Idle, At, Phases
        <4>2. calls[k][q] \in Nat /\ calls[k][q] <= 1
              /\ (ops[k][q] = "none" \/ (run.lesson = k /\ run.phase = q) => calls[k][q] = 0)
          BY DEF CalledOnce, TypeOK
        <4>3. CASE k = run.lesson /\ q = p
          BY <3>1, <3>2, <3>4, <4>1, <4>2, <4>3 DEF OpSet
        <4>4. CASE ~(k = run.lesson /\ q = p)
          <5>1. ops'[k][q] = ops[k][q] /\ calls'[k][q] = calls[k][q]
            BY <3>1, <3>2, <4>4 DEF OpSet
          <5> QED BY <4>1, <4>2, <5>1
        <4> QED BY <4>3, <4>4
      <3> QED
        BY <3>3, <3>5, <3>6
    <2>4. ASSUME UNCHANGED <<ops, calls, searched, plan, gpu>>, run' = Idle \/ run' = run
          PROVE  TypeOK' /\ OneOpen' /\ CalledOnce'
      <3>1. TypeOK'
        BY <2>4 DEF TypeOK, gpu, Idle, Phases
      <3>2. OneOpen' /\ CalledOnce'
        BY <2>4 DEF OneOpen, CalledOnce, Unresolved, Idle, Phases
      <3> QED
        BY <3>1, <3>2
    <2>5. ASSUME NEW l \in Lessons, ImportProof(l)
          PROVE  TypeOK' /\ OneOpen' /\ CalledOnce'
      <3>1. /\ ~Unresolved /\ run' = At(l, "import", "open")
            /\ UNCHANGED <<ops, calls, searched, plan, gpu>>
        BY <2>5 DEF ImportProof, Exchanges, Starts, Accepted
      <3>2. TypeOK'
        BY <3>1 DEF TypeOK, gpu, At, Phases
      <3>3. OneOpen' /\ CalledOnce'
        BY <3>1 DEF OneOpen, CalledOnce, Unresolved, At, Phases
      <3> QED
        BY <3>2, <3>3
    <2>6. CASE ImportMarker \/ Returns \/ Dies \/ UNCHANGED vars
      BY <2>4, <2>6 DEF ImportMarker, Returns, Dies, disk, vars
    <2>7. ASSUME NEW l \in Lessons, ExportVerification(l) \/ VerifyExport(l) \/ ImportReplay(l)
          PROVE  TypeOK' /\ OneOpen' /\ CalledOnce'
      BY <2>4, <2>7 DEF ExportVerification, VerifyExport, ImportReplay, disk
    <2>8. CASE GpuRestarts
      <3>1. TypeOK'
        BY <2>8 DEF GpuRestarts, TypeOK, disk
      <3>2. OneOpen' /\ CalledOnce'
        BY <2>8 DEF GpuRestarts, disk, OneOpen, CalledOnce, Unresolved
      <3> QED
        BY <3>1, <3>2
    <2> QED
      BY <2>1, <2>2, <2>3, <2>5, <2>6, <2>7, <2>8 DEF Next, Running, Command
  <1> QED
    BY <1>1, <1>2, PTL DEF Spec

-----------------------------------------------------------------------------
\* Tables in which only one lesson changes.
Only(l, table, new) == \A k \in Lessons : k # l => new[k] = table[k]

\* What the answer to a call, or its loss, does to the lesson it was sent for.
Answered(l, p) ==
    /\ plan' = plan /\ proof \subseteq proof'
    /\ ops[l][p] = "open" /\ ops'[l][p] \in {"open", "done"}
    /\ \A k \in Lessons, q \in Phases : k # l \/ q # p => ops'[k][q] = ops[k][q]
    /\ Only(l, searched, searched') /\ Only(l, session, session')
    /\ Only(l, candidate, candidate') /\ Only(l, release, release')
    /\ p # "online" => searched'[l] = searched[l]
    /\ p \notin {"online", "seal"} => candidate'[l] = candidate[l]
    /\ p # "publish" => release'[l] = release[l]
    /\ p \notin {"online", "retire"} => session'[l] = session[l]
    /\ p = "online" =>
          /\ session'[l] \in {session[l], "live"}
          /\ ops'[l][p] = "done" => searched'[l].source = Source(l)
    /\ p = "verify" /\ ops'[l][p] = "done" => l \in proof'
    /\ p = "publish" =>
          \/ release'[l] = release[l] /\ ops'[l][p] = "open"
          \/ /\ candidate[l] > 0
             /\ release'[l] = [version |-> candidate[l], parent |-> searched[l].source]
    /\ p = "retire" =>
          \/ session'[l] = session[l] /\ ops'[l][p] = "open"
          \/ session'[l] = "released"

\* Every call is answered in this way.
LEMMA CallsAnswer ==
  ASSUME Base, Calling
  PROVE  \E l \in Lessons, p \in Phases \ {"preflight"} : Answered(l, p)
  <1> DEFINE l == run.lesson
  <1>0. TypeOK /\ OneOpen
    BY DEF Base
  <1>1. ASSUME NEW p \in Phases, Calls(p), Completes \/ Leaves
        PROVE  /\ l \in Lessons /\ plan' = plan
               /\ ops[l][p] = "open" /\ ops'[l][p] \in {"open", "done"}
               /\ Leaves => ops'[l][p] = "open"
               /\ \A k \in Lessons, q \in Phases : k # l \/ q # p => ops'[k][q] = ops[k][q]
    <2>1. /\ run.phase = p /\ l \in Lessons
          /\ \/ OpSet(l, p, "done")
             \/ UNCHANGED ops
      BY <1>0, <1>1, CallEnds
    <2>2. ops[l][p] = "open"
      BY <1>0, <2>1 DEF OneOpen
    <2> QED
      BY <1>1, <2>1, <2>2 DEF OpSet, Leaves, Calls
  <1>2. CASE Search
    <2>1. Calls("online") /\ Completes
      BY <1>2 DEF Search
    <2>2. l \in Lessons
      BY <1>1, <2>1 DEF Phases
    <2>3. PICK v \in 0..MaxUpdates, proved \in BOOLEAN, used \in BOOLEAN :
             /\ searched' = [searched EXCEPT ![run.lesson] =
                   [proved |-> proved, version |-> v, used |-> used, source |-> Source(run.lesson)]]
             /\ candidate' = [candidate EXCEPT ![run.lesson] =
                   IF proved /\ v > 0 /\ ~plan.success THEN v ELSE -1]
      BY <1>2 DEF Search
    <2>4. Only(l, searched, searched') /\ searched'[l].source = Source(l)
      BY <1>0, <2>2, <2>3 DEF Only, TypeOK
    <2>5. Only(l, candidate, candidate')
      BY <1>0, <2>2, <2>3 DEF Only, TypeOK
    <2>6. Only(l, session, session') /\ session'[l] = "live"
      BY <1>0, <1>2, <2>2 DEF Search, Only, TypeOK
    <2>7. UNCHANGED <<release, proof>>
      BY <1>2 DEF Search
    <2>8. Answered(l, "online")
      BY <1>1, <2>1, <2>2, <2>4, <2>5, <2>6, <2>7 DEF Answered, Only, Phases
    <2> QED
      BY <2>2, <2>8 DEF Phases
  <1>3. CASE SearchFails
    <2>1. Calls("online") /\ Leaves
      BY <1>3 DEF SearchFails
    <2>2. l \in Lessons
      BY <1>1, <2>1 DEF Phases
    <2>3. Only(l, session, session') /\ session'[l] \in {session[l], "live"}
      BY <1>0, <1>3, <2>2 DEF SearchFails, Only, TypeOK
    <2>4. UNCHANGED <<searched, proof, candidate, release>>
      BY <1>3 DEF SearchFails
    <2>5. Answered(l, "online")
      BY <1>1, <2>1, <2>2, <2>3, <2>4 DEF Answered, Only, Phases
    <2> QED
      BY <2>2, <2>5 DEF Phases
  <1>4. CASE Verify
    <2>1. Calls("verify") /\ (Completes \/ Leaves)
      BY <1>4 DEF Verify
    <2>2. l \in Lessons
      BY <1>1, <2>1 DEF Phases
    <2>3. UNCHANGED <<searched, gpu>> /\ proof \subseteq proof' /\ (l \in proof' \/ Leaves)
      BY <1>4 DEF Verify
    <2>4. Answered(l, "verify")
      BY <1>1, <2>1, <2>2, <2>3 DEF Answered, Only, Phases, gpu
    <2> QED
      BY <2>2, <2>4 DEF Phases
  <1>5. CASE SuccessLearn
    <2>1. Calls("success-learn") /\ (Completes \/ Leaves)
      BY <1>5 DEF SuccessLearn, Served
    <2>2. l \in Lessons
      BY <1>1, <2>1 DEF Phases
    <2>3. UNCHANGED <<searched, proof, session, candidate, release>>
      BY <1>5 DEF SuccessLearn, Served, gpu
    <2>4. Answered(l, "success-learn")
      BY <1>1, <2>1, <2>2, <2>3 DEF Answered, Only, Phases
    <2> QED
      BY <2>2, <2>4 DEF Phases
  <1>6. CASE Seal
    <2>1. Calls("seal") /\ (Completes \/ Leaves)
      BY <1>6 DEF Seal, Served
    <2>2. l \in Lessons
      BY <1>1, <2>1 DEF Phases
    <2>3. UNCHANGED <<searched, proof, session, release>>
      BY <1>6 DEF Seal, Served, gpu
    <2>4. Only(l, candidate, candidate')
      BY <1>0, <1>6, <2>2 DEF Seal, Served, gpu, Only, TypeOK
    <2>5. Answered(l, "seal")
      BY <1>1, <2>1, <2>2, <2>3, <2>4 DEF Answered, Only, Phases
    <2> QED
      BY <2>2, <2>5 DEF Phases
  <1>7. CASE Publish
    <2>1. Calls("publish") /\ (Completes \/ Leaves)
      BY <1>7 DEF Publish, Served
    <2>2. l \in Lessons
      BY <1>1, <2>1 DEF Phases
    <2>3. UNCHANGED <<searched, proof, session, candidate>>
      BY <1>7 DEF Publish, Served, gpu
    <2>4. \/ UNCHANGED release /\ Leaves
          \/ /\ candidate[l] > 0
             /\ release' = [release EXCEPT ![l] =
                   [version |-> candidate[l], parent |-> searched[l].source]]
      BY <1>7 DEF Publish, Served, gpu
    <2>5. /\ Only(l, release, release')
          /\ \/ release'[l] = release[l] /\ Leaves
             \/ /\ candidate[l] > 0
                /\ release'[l] = [version |-> candidate[l], parent |-> searched[l].source]
      <3>1. release = [k \in Lessons |-> release[k]]
        BY <1>0 DEF TypeOK
      <3> QED
        BY <2>2, <2>4, <3>1 DEF Only
    <2>6. Answered(l, "publish")
      BY <1>1, <2>1, <2>2, <2>3, <2>5 DEF Answered, Only, Phases
    <2> QED
      BY <2>2, <2>6 DEF Phases
  <1>8. CASE Retire
    <2>1. Calls("retire") /\ (Completes \/ Leaves)
      BY <1>8 DEF Retire, Served
    <2>2. l \in Lessons
      BY <1>1, <2>1 DEF Phases
    <2>3. UNCHANGED <<searched, proof, candidate, release>>
      BY <1>8 DEF Retire, Served, gpu
    <2>4. /\ Only(l, session, session')
          /\ \/ session'[l] = session[l] /\ Leaves
             \/ session'[l] = "released"
      BY <1>0, <1>8, <2>2 DEF Retire, Served, gpu, Only, TypeOK
    <2>5. Answered(l, "retire")
      BY <1>1, <2>1, <2>2, <2>3, <2>4 DEF Answered, Only, Phases
    <2> QED
      BY <2>2, <2>5 DEF Phases
  <1> QED
    BY <1>2, <1>3, <1>4, <1>5, <1>6, <1>7, <1>8 DEF Calling

\* Steps in which nothing is called and no intent written.
Quiet ==
    /\ plan' = plan /\ proof \subseteq proof' /\ UNCHANGED <<searched, candidate, release>>
    /\ \A l \in Lessons : session'[l] # session[l] => session[l] = "live" /\ session'[l] = "lost"
    /\ \A l \in Lessons, p \in Phases \ {"preflight"} : ops'[l][p] = ops[l][p]
    /\ \A l \in Lessons : Done(l, "preflight") => Done(l, "preflight")'

\* An intent, and the conditions it was written under.
Begun(l, p) ==
    /\ Due(l, p) /\ Current(l) /\ Admitted(l, p) /\ OpSet(l, p, "open")
    /\ UNCHANGED <<plan, proof, searched, candidate, release, session>>

Kinds ==
    \/ Quiet
    \/ \E l \in Lessons, p \in Phases : Begun(l, p)
    \/ \E l \in Lessons, p \in Phases \ {"preflight"} : Answered(l, p)

\* Every step of the course is of one of these kinds.
LEMMA StepKinds ==
  ASSUME Base, [Next]_vars
  PROVE  Kinds
  <1>0. TypeOK
    BY DEF Base
  <1>1. CASE Calling
    BY <1>1, CallsAnswer DEF Kinds
  <1>2. ASSUME NEW l \in Lessons, NEW p \in Phases, Perform(l, p)
        PROVE  Kinds
    <2>1. Begun(l, p)
      BY <1>0, <1>2, Intents DEF Perform, Begun, gpu
    <2> QED
      BY <2>1 DEF Kinds
  <1>3. ASSUME NEW l \in Lessons, Preflight(l)
        PROVE  Quiet
    <2>1. PICK v \in {"done", "open"} : ops' = [ops EXCEPT ![l]["preflight"] = v]
      BY <1>3 DEF Preflight
    <2>2. OpSet(l, "preflight", v)
      BY <1>0, <2>1, Intents DEF Phases
    <2> QED
      BY <1>3, <2>2 DEF Quiet, OpSet, Preflight, Done, Phases, gpu
  <1>4. CASE GpuRestarts
    BY <1>4 DEF GpuRestarts, Quiet, Done, disk, Kinds
  <1>5. CASE ImportMarker \/ Returns \/ Dies \/ UNCHANGED vars
    BY <1>5 DEF ImportMarker, Returns, Dies, Quiet, Done, vars, disk, gpu, Kinds
  <1>6. ASSUME NEW l \in Lessons,
               ExportVerification(l) \/ VerifyExport(l) \/ ImportProof(l) \/ ImportReplay(l)
        PROVE  Quiet
    BY <1>6 DEF ExportVerification, VerifyExport, ImportProof, ImportReplay, Quiet, Done, disk,
       gpu
  <1> QED
    BY <1>1, <1>2, <1>3, <1>4, <1>5, <1>6 DEF Next, Running, Command, Kinds

\* What is complete when a phase is due.
LEMMA DueOrder ==
  ASSUME NEW l \in Lessons, NEW p \in Phases, Due(l, p)
  PROVE  /\ p # "preflight" /\ ~Done(l, p) /\ Wanted(l, p)
         /\ p # "online" => Done(l, "online")
         /\ p \notin {"online", "verify"} /\ Wanted(l, "verify") => Done(l, "verify")
         /\ p \in {"seal", "publish", "retire"} /\ Wanted(l, "success-learn") => Done(l, "success-learn")
         /\ p \in {"publish", "retire"} /\ Wanted(l, "seal") => Done(l, "seal")
         /\ p = "retire" /\ Wanted(l, "publish") => Done(l, "publish")
  <1>1. PICK i \in 1..6 :
           /\ Order[i] = p /\ Wanted(l, p) /\ ~Done(l, p)
           /\ \A j \in 1..(i - 1) : Wanted(l, Order[j]) => Done(l, Order[j])
    BY DEF Due, Order
  <1>2. /\ Order[1] = "online" /\ Order[2] = "verify" /\ Order[3] = "success-learn"
        /\ Order[4] = "seal" /\ Order[5] = "publish" /\ Order[6] = "retire"
    BY DEF Order
  <1>3. Wanted(l, "online")
    BY DEF Wanted
  <1>4. /\ i > 1 => Done(l, "online")
        /\ i > 2 /\ Wanted(l, "verify") => Done(l, "verify")
        /\ i > 3 /\ Wanted(l, "success-learn") => Done(l, "success-learn")
        /\ i > 4 /\ Wanted(l, "seal") => Done(l, "seal")
        /\ i > 5 /\ Wanted(l, "publish") => Done(l, "publish")
    BY <1>1, <1>2, <1>3
  <1>5. i = 1 \/ i = 2 \/ i = 3 \/ i = 4 \/ i = 5 \/ i = 6
    OBVIOUS
  <1> QED
    BY <1>1, <1>2, <1>4, <1>5

-----------------------------------------------------------------------------
\* The order of the phases of a lesson and of the lessons.
InOrder(l) ==
    /\ \A p \in Phases \ {"preflight", "online"} : ops[l][p] # "none" => Done(l, "online")
    /\ ops[l]["online"] # "none" => \A k \in 1..(l - 1) : Terminal(k)

\* The session of a lesson begins with its search and ends with its retirement.
SessionHeld(l) ==
    /\ session[l] = "live" => ops[l]["online"] # "none" /\ ~Done(l, "retire")
    /\ session[l] = "released" => ops[l]["retire"] # "none"

\* What was true when the intent of a phase was written is true ever after.
Gates(l) ==
    /\ ops[l]["success-learn"] # "none" \/ ops[l]["seal"] # "none" => plan.success
    /\ Done(l, "verify") => l \in proof
    /\ ops[l]["publish"] # "none" =>
          /\ Proved(l) /\ Done(l, "verify")
          /\ plan.success => Done(l, "success-learn") /\ Done(l, "seal")
          /\ candidate[l] = Trained(l) /\ Trained(l) > 0
    /\ ops[l]["retire"] # "none" => Ready(l)

\* Experiences are those of the publish operations.
Releases(l) ==
    /\ Done(l, "publish") => Published(l)
    /\ Published(l) =>
          /\ ops[l]["publish"] # "none"
          /\ release[l] = [version |-> Trained(l), parent |-> searched[l].source]

\* The source of a lesson is settled before it begins.
SourceKept(l) == Done(l, "online") => searched[l].source = Source(l)

\* A phase has a record only behind the records state() requires with it, and a
\* lesson only behind lessons that do not stop the course.
Behind(l) ==
    /\ \A p \in {"verify", "success-learn", "seal"} : ops[l][p] # "none" => Proved(l)
    /\ ops[l]["success-learn"] # "none" => Done(l, "verify")
    /\ ops[l]["seal"] # "none" => Done(l, "success-learn")
    /\ ops[l]["online"] # "none" => Done(l, "preflight") /\ \A k \in 1..(l - 1) : ~Stops(k)

Course ==
    \A l \in Lessons :
        InOrder(l) /\ SessionHeld(l) /\ Gates(l) /\ Releases(l) /\ SourceKept(l) /\ Behind(l)

\* What is complete stays complete, with the result of its search.
LEMMA Kept ==
  ASSUME TypeOK, TypeOK', Kinds, NEW l \in Lessons
  PROVE  /\ plan' = plan
         /\ \A p \in Phases \ {"preflight"} : /\ Done(l, p) => Done(l, p)'
                                              /\ ops[l][p] # "none" => ops'[l][p] # "none"
         /\ Done(l, "preflight") => Done(l, "preflight")'
         /\ Done(l, "online") => searched'[l] = searched[l]
  <1>1. CASE Quiet
    BY <1>1 DEF Quiet, Done, Phases
  <1>2. ASSUME NEW k \in Lessons, NEW p \in Phases, Begun(k, p)
        PROVE  /\ plan' = plan
               /\ \A q \in Phases : /\ Done(l, q) => Done(l, q)'
                                    /\ ops[l][q] # "none" => ops'[l][q] # "none"
               /\ searched'[l] = searched[l]
    BY <1>2, DueOrder DEF Begun, OpSet, Done
  <1>3. ASSUME NEW k \in Lessons, NEW p \in Phases \ {"preflight"}, Answered(k, p)
        PROVE  /\ plan' = plan
               /\ \A q \in Phases : /\ Done(l, q) => Done(l, q)'
                                    /\ ops[l][q] # "none" => ops'[l][q] # "none"
               /\ Done(l, "online") => searched'[l] = searched[l]
    BY <1>3 DEF Answered, Only, Done, Phases
  <1> QED
    BY <1>1, <1>2, <1>3 DEF Kinds, Phases

\* A lesson that is over stays over.
LEMMA TerminalStays ==
  ASSUME TypeOK, TypeOK', Kinds, NEW l \in Lessons, Ready(l)
  PROVE  Ready(l)' /\ (Terminal(l) => Terminal(l)')
  <1>1. Ready(l)'
    BY Kept DEF Ready, Proved, Done, Phases
  <1> QED
    BY <1>1, Kept DEF Terminal, Done, Phases

\* The publication of a lesson that is over is settled.
LEMMA OverPublished ==
  ASSUME TypeOK, NEW l \in Lessons, Gates(l), Terminal(l)
  PROVE  ops[l]["publish"] # "none" => Done(l, "publish")
  <1>1. ops[l]["publish"] # "none" => Proved(l) /\ Trained(l) > 0 /\ Done(l, "online")
    BY DEF Gates, Proved
  <1>2. ~plan.success => ~Done(l, "success-learn")
    BY DEF Gates, Done
  <1>3. searched[l].version \in Nat
    BY DEF TypeOK
  <1> QED
    BY <1>1, <1>2, <1>3 DEF Terminal, Ready, Trained

\* A phase begins when it is due and its lesson is current.
LEMMA OrderKept ==
  ASSUME TypeOK, TypeOK', Course, Kinds, NEW l \in Lessons
  PROVE  InOrder(l)'
  <1>1. /\ \A p \in Phases \ {"preflight", "online"} : ops[l][p] # "none" => Done(l, "online")
        /\ ops[l]["online"] # "none" => \A k \in 1..(l - 1) : Terminal(k)
    BY DEF Course, InOrder
  <1>2. Done(l, "online") => Done(l, "online")'
    BY Kept DEF Phases
  <1>3. ASSUME NEW k \in 1..(l - 1), Terminal(k)
        PROVE  Terminal(k)'
    <2>1. k \in Lessons
      BY CourseAssumption DEF Lessons
    <2> QED
      BY <1>3, <2>1, TerminalStays DEF Terminal
  <1>4. ASSUME NEW p \in Phases \ {"preflight"}, ops[l][p] = "none", ops'[l][p] # "none"
        PROVE  Begun(l, p)
    <2>1. ~Quiet
      BY <1>4 DEF Quiet
    <2>2. ASSUME NEW k \in Lessons, NEW q \in Phases \ {"preflight"}, Answered(k, q)
          PROVE  FALSE
      BY <1>4, <2>2 DEF Answered
    <2>3. PICK k \in Lessons, q \in Phases : Begun(k, q)
      BY <2>1, <2>2 DEF Kinds
    <2>4. k = l /\ q = p
      BY <1>4, <2>3 DEF Begun, OpSet
    <2> QED
      BY <2>3, <2>4
  <1>5. ASSUME NEW p \in Phases \ {"preflight", "online"}, ops'[l][p] # "none"
        PROVE  Done(l, "online")'
    <2>1. CASE ops[l][p] # "none"
      BY <1>1, <1>2, <2>1
    <2>2. CASE ops[l][p] = "none"
      BY <1>2, <1>4, <1>5, <2>2, DueOrder DEF Begun
    <2> QED
      BY <2>1, <2>2
  <1>6. ASSUME ops'[l]["online"] # "none", NEW k \in 1..(l - 1)
        PROVE  Terminal(k)'
    <2>1. CASE ops[l]["online"] # "none"
      BY <1>1, <1>3, <2>1
    <2>2. CASE ops[l]["online"] = "none"
      BY <1>3, <1>4, <1>6, <2>2 DEF Begun, Current, Phases
    <2> QED
      BY <2>1, <2>2
  <1> QED
    BY <1>5, <1>6 DEF InOrder

\* A session is created by a search and given up by a retirement.
LEMMA SessionKept ==
  ASSUME TypeOK, TypeOK', Course, Kinds, NEW l \in Lessons
  PROVE  SessionHeld(l)'
  <1>0. SessionHeld(l) /\ InOrder(l)
    BY DEF Course
  <1>1. CASE Quiet
    BY <1>0, <1>1 DEF Quiet, SessionHeld, Done, Phases
  <1>2. ASSUME NEW k \in Lessons, NEW p \in Phases, Begun(k, p)
        PROVE  SessionHeld(l)'
    BY <1>0, <1>2 DEF Begun, OpSet, SessionHeld, Done, Phases
  <1>3. ASSUME NEW k \in Lessons, NEW p \in Phases \ {"preflight"}, Answered(k, p)
        PROVE  SessionHeld(l)'
    <2>1. CASE k # l
      BY <1>0, <1>3, <2>1 DEF Answered, Only, SessionHeld, Done, Phases
    <2>2. CASE k = l /\ p = "online"
      BY <1>0, <1>3, <2>2 DEF Answered, InOrder, SessionHeld, Done, Phases
    <2>3. CASE k = l /\ p = "retire"
      BY <1>0, <1>3, <2>3 DEF Answered, InOrder, SessionHeld, Done, Phases
    <2>4. CASE k = l /\ p \notin {"online", "retire"}
      BY <1>0, <1>3, <2>4 DEF Answered, SessionHeld, Done, Phases
    <2> QED
      BY <2>1, <2>2, <2>3, <2>4
  <1> QED
    BY <1>1, <1>2, <1>3 DEF Kinds

\* The gates were passed before the intent; nothing they say changes after it.
LEMMA GatesKept ==
  ASSUME TypeOK, TypeOK', Course, Kinds, NEW l \in Lessons
  PROVE  Gates(l)'
  <1>0. Gates(l) /\ InOrder(l)
    BY DEF Course
  <1>1. CASE Quiet
    <2>1. \A p \in Phases \ {"preflight"} : ops'[l][p] = ops[l][p]
      BY <1>1 DEF Quiet
    <2> QED
      BY <1>0, <1>1, <2>1 DEF Quiet, Gates, Ready, Proved, Trained, Done, Phases
  <1>2. ASSUME NEW k \in Lessons, NEW p \in Phases, Begun(k, p)
        PROVE  Gates(l)'
    <2>1. CASE k # l
      BY <1>0, <1>2, <2>1 DEF Begun, OpSet, Gates, Ready, Proved, Trained, Done, Phases
    <2>2. CASE k = l
      <3>1. /\ p \in {"success-learn", "seal"} => Proved(l) /\ plan.success
            /\ p = "publish" => Proved(l) /\ Trained(l) > 0 /\ Acceptable(l)
            /\ Proved(l) => Wanted(l, "verify")
            /\ Proved(l) /\ plan.success => Wanted(l, "success-learn") /\ Wanted(l, "seal")
            /\ Proved(l) /\ Trained(l) > 0 => Wanted(l, "publish")
        BY <1>2, <2>2 DEF Begun, Due, Wanted, Admitted
      <3>2. /\ p # "preflight" /\ ~Done(l, p)
            /\ p \in {"publish", "retire"} /\ Proved(l) =>
                  /\ Done(l, "verify")
                  /\ plan.success => Done(l, "success-learn") /\ Done(l, "seal")
            /\ p # "online" => Done(l, "online")
            /\ p = "retire" /\ Proved(l) /\ Trained(l) > 0 => Done(l, "publish")
        BY <1>2, <2>2, <3>1, DueOrder DEF Begun
      <3>3. \A q \in Phases : ops'[l][q] = IF q = p THEN "open" ELSE ops[l][q]
        BY <1>2, <2>2 DEF Begun, OpSet
      <3>4. UNCHANGED <<plan, proof, searched, candidate>>
        BY <1>2 DEF Begun
      <3>5. searched[l].version \in Nat
        BY DEF TypeOK
      <3>6. ops[l]["success-learn"] # "none" \/ ops[l]["seal"] # "none" \/ p \in {"success-learn", "seal"}
               => plan.success
        BY <1>0, <3>1 DEF Gates
      <3>7. \A q \in Phases : Done(l, q) <=> Done(l, q)'
        BY <3>2, <3>3 DEF Done
      <3>8. (Trained(l) = Trained(l)') /\ (Proved(l) <=> Proved(l)')
        BY <3>4, <3>7 DEF Trained, Proved, Phases
      <3>9. ops'[l]["retire"] # "none" => Ready(l)'
        <4>1. Ready(l) => Ready(l)'
          BY <3>4, <3>7, <3>8 DEF Ready, Phases
        <4>2. p = "retire" => Ready(l)
          BY <3>2, <3>5 DEF Ready, Trained
        <4> QED
          BY <1>0, <3>3, <4>1, <4>2 DEF Gates, Phases
      <3>10. ops'[l]["publish"] # "none" =>
               /\ Proved(l)' /\ Done(l, "verify")'
               /\ plan.success => Done(l, "success-learn")' /\ Done(l, "seal")'
               /\ candidate'[l] = Trained(l)' /\ Trained(l)' > 0
        BY <1>0, <3>1, <3>2, <3>3, <3>4, <3>7, <3>8 DEF Gates, Acceptable, Phases
      <3> QED
        BY <1>0, <3>3, <3>4, <3>6, <3>7, <3>9, <3>10 DEF Gates, Phases
    <2> QED
      BY <2>1, <2>2
  <1>3. ASSUME NEW k \in Lessons, NEW p \in Phases \ {"preflight"}, Answered(k, p)
        PROVE  Gates(l)'
    <2>1. CASE k # l
      BY <1>0, <1>3, <2>1 DEF Answered, Only, Gates, Ready, Proved, Trained, Done, Phases
    <2>2. CASE k = l
      <3>1. /\ plan' = plan /\ proof \subseteq proof' /\ ops[l][p] = "open"
            /\ ops'[l][p] \in {"open", "done"}
            /\ \A q \in Phases : q # p => ops'[l][q] = ops[l][q]
            /\ p = "verify" /\ ops'[l][p] = "done" => l \in proof'
            /\ p \notin {"online", "seal"} => candidate'[l] = candidate[l]
        BY <1>3, <2>2 DEF Answered
      <3>2. \A q \in Phases : q # "preflight" /\ Done(l, q) => Done(l, q)'
        BY Kept
      <3>3. ops'[l]["retire"] # "none" => Ready(l)'
        BY <1>0, <3>1, TerminalStays DEF Gates, Phases
      <3>4. ops[l]["publish"] # "none" =>
               /\ p \notin {"online", "seal", "success-learn", "verify"}
               /\ searched'[l] = searched[l] /\ (Trained(l)' = Trained(l)) /\ Proved(l)'
        <4> SUFFICES ASSUME ops[l]["publish"] # "none"
                     PROVE  /\ p \notin {"online", "seal", "success-learn", "verify"}
                            /\ searched'[l] = searched[l] /\ (Trained(l)' = Trained(l)) /\ Proved(l)'
          OBVIOUS
        <4>1. /\ Done(l, "online") /\ Done(l, "verify")
              /\ plan.success => Done(l, "success-learn") /\ Done(l, "seal")
              /\ ops[l]["success-learn"] # "none" \/ ops[l]["seal"] # "none" => plan.success
          BY <1>0 DEF Gates, Proved
        <4>2. p \notin {"online", "seal", "success-learn", "verify"}
          BY <3>1, <4>1 DEF Done
        <4>3. searched'[l] = searched[l]
          BY <4>1, Kept
        <4>4. Done(l, "success-learn")' <=> Done(l, "success-learn")
          BY <3>1, <4>2 DEF Done, Phases
        <4>5. Proved(l)
          BY <1>0 DEF Gates
        <4> QED
          BY <3>2, <4>2, <4>3, <4>4, <4>5 DEF Trained, Proved, Phases
      <3>5. ops'[l]["publish"] # "none" =>
               /\ Proved(l)' /\ Done(l, "verify")'
               /\ plan.success => Done(l, "success-learn")' /\ Done(l, "seal")'
               /\ candidate'[l] = Trained(l)' /\ Trained(l)' > 0
        BY <1>0, <3>1, <3>2, <3>4 DEF Gates, Phases
      <3>6. Done(l, "verify")' => l \in proof'
        BY <1>0, <3>1 DEF Gates, Done, Phases
      <3>7. ops'[l]["success-learn"] # "none" \/ ops'[l]["seal"] # "none" => plan.success
        BY <1>0, <3>1 DEF Gates, Phases
      <3> QED
        BY <3>1, <3>3, <3>5, <3>6, <3>7 DEF Gates
    <2> QED
      BY <2>1, <2>2
  <1> QED
    BY <1>1, <1>2, <1>3 DEF Kinds

\* Once publish has its intent, the final version of the lesson is settled.
LEMMA TrainedKept ==
  ASSUME TypeOK, TypeOK', Course, Kinds, NEW l \in Lessons, ops[l]["publish"] # "none"
  PROVE  (Trained(l)' = Trained(l)) /\ searched'[l] = searched[l]
  <1>0. Gates(l)
    BY DEF Course
  <1>1. /\ Done(l, "online") /\ (plan.success => Done(l, "success-learn"))
        /\ ops[l]["success-learn"] # "none" => plan.success
    BY <1>0 DEF Gates, Proved
  <1>2. searched'[l] = searched[l] /\ plan' = plan
    BY <1>1, Kept
  <1>3. Done(l, "success-learn") => Done(l, "success-learn")'
    BY Kept DEF Phases
  <1>4. Done(l, "success-learn")' => plan.success
    BY <1>2, GatesKept DEF Gates, Done
  <1>5. Done(l, "success-learn")' <=> Done(l, "success-learn")
    BY <1>1, <1>3, <1>4
  <1> QED
    BY <1>2, <1>5 DEF Trained

\* An experience is made by the one publish operation of its lesson.
LEMMA ReleasesKept ==
  ASSUME TypeOK, TypeOK', Course, Kinds, NEW l \in Lessons
  PROVE  Releases(l)'
  <1>0. Releases(l) /\ Gates(l)
    BY DEF Course
  <1>1. ops[l]["publish"] # "none" => ops'[l]["publish"] # "none"
    BY Kept DEF Phases
  <1>2. CASE release'[l] = release[l] /\ (Done(l, "publish")' => Done(l, "publish"))
    <2>1. Published(l)' <=> Published(l)
      BY <1>2 DEF Published
    <2>2. Published(l) => ops[l]["publish"] # "none"
      BY <1>0 DEF Releases
    <2> QED
      BY <1>0, <1>1, <1>2, <2>1, <2>2, TrainedKept DEF Releases
  <1>3. CASE /\ Answered(l, "publish") /\ candidate[l] > 0
             /\ release'[l] = [version |-> candidate[l], parent |-> searched[l].source]
    <2>1. ops[l]["publish"] # "none" /\ candidate[l] = Trained(l)
      BY <1>0, <1>3 DEF Answered, Gates
    <2>2. release'[l] # NoRelease
      <3>1. release'[l].version # NoRelease.version
        BY <1>3 DEF NoRelease, TypeOK
      <3> QED
        BY <3>1
    <2>3. Published(l)'
      BY <2>2 DEF Published, NoRelease
    <2> QED
      BY <1>1, <1>3, <2>1, <2>3, TrainedKept DEF Releases
  <1>4. CASE Quiet
    BY <1>2, <1>4 DEF Quiet, Done, Phases
  <1>5. ASSUME NEW k \in Lessons, NEW p \in Phases, Begun(k, p)
        PROVE  Releases(l)'
    BY <1>2, <1>5 DEF Begun, OpSet, Done, Phases
  <1>6. ASSUME NEW k \in Lessons, NEW p \in Phases \ {"preflight"}, Answered(k, p)
        PROVE  Releases(l)'
    <2>1. CASE k # l \/ p # "publish"
      BY <1>2, <1>6, <2>1 DEF Answered, Only, Done, Phases
    <2>2. CASE k = l /\ p = "publish"
      BY <1>2, <1>3, <1>6, <2>2 DEF Answered, Done
    <2> QED
      BY <2>1, <2>2
  <1> QED
    BY <1>4, <1>5, <1>6 DEF Kinds

\* No lesson before one that has begun publishes any more.
LEMMA SourceStays ==
  ASSUME TypeOK, TypeOK', Course, Kinds, NEW l \in Lessons, ops[l]["online"] # "none"
  PROVE  Source(l)' = Source(l)
  <1>1. ASSUME NEW k \in 1..(l - 1)
        PROVE  Done(k, "publish")' <=> Done(k, "publish")
    <2>1. k \in Lessons
      BY CourseAssumption DEF Lessons
    <2>2. Terminal(k)
      BY DEF Course, InOrder
    <2>3. Done(k, "publish") => Done(k, "publish")'
      BY <2>1, Kept DEF Phases
    <2>4. ops[k]["publish"] # "none" => Done(k, "publish")
      BY <2>1, <2>2, OverPublished DEF Course
    <2>5. CASE ops[k]["publish"] = "none"
      <3>1. CASE Quiet
        BY <2>1, <2>3, <3>1 DEF Quiet, Done, Phases
      <3>2. ASSUME NEW j \in Lessons, NEW p \in Phases, Begun(j, p)
            PROVE  Done(k, "publish")' => Done(k, "publish")
        BY <2>1, <3>2 DEF Begun, OpSet, Done, Phases
      <3>3. ASSUME NEW j \in Lessons, NEW p \in Phases \ {"preflight"}, Answered(j, p)
            PROVE  Done(k, "publish")' => Done(k, "publish")
        BY <2>1, <2>5, <3>3 DEF Answered, Done, Phases
      <3> QED
        BY <2>3, <3>1, <3>2, <3>3 DEF Kinds
    <2> QED
      BY <2>3, <2>4, <2>5
  <1>2. {k \in 1..(l - 1) : Done(k, "publish")}' = {k \in 1..(l - 1) : Done(k, "publish")}
    BY <1>1
  <1> QED
    BY <1>2 DEF Source

\* The source a lesson was learned from is still the one before it.
LEMMA SourcesKept ==
  ASSUME TypeOK, TypeOK', Course, Kinds, NEW l \in Lessons
  PROVE  SourceKept(l)'
  <1>0. SourceKept(l)
    BY DEF Course
  <1>1. CASE Done(l, "online")
    BY <1>0, <1>1, Kept, SourceStays DEF SourceKept, Done
  <1>2. CASE ~Done(l, "online")
    <2>1. CASE Quiet
      BY <1>2, <2>1 DEF Quiet, SourceKept, Done, Phases
    <2>2. ASSUME NEW k \in Lessons, NEW p \in Phases, Begun(k, p)
          PROVE  SourceKept(l)'
      BY <1>2, <2>2 DEF Begun, OpSet, SourceKept, Done, Phases
    <2>3. ASSUME NEW k \in Lessons, NEW p \in Phases \ {"preflight"}, Answered(k, p)
          PROVE  SourceKept(l)'
      <3>1. CASE k # l \/ p # "online"
        BY <1>2, <2>3, <3>1 DEF Answered, SourceKept, Done, Phases
      <3>2. CASE k = l /\ p = "online"
        BY <2>3, <3>2, SourceStays DEF Answered, SourceKept, Done
      <3> QED
        BY <3>1, <3>2
    <2> QED
      BY <2>1, <2>2, <2>3 DEF Kinds
  <1> QED
    BY <1>1, <1>2

\* A record is written behind those it needs, which stay.
LEMMA BehindKept ==
  ASSUME TypeOK, TypeOK', Course, Kinds, NEW l \in Lessons
  PROVE  Behind(l)'
  <1>0. Behind(l) /\ InOrder(l)
    BY DEF Course
  <1>1. /\ plan' = plan /\ (Proved(l) => Proved(l)')
        /\ \A p \in Phases : Done(l, p) => Done(l, p)'
    BY Kept DEF Proved, Done, Phases
  <1>2. ASSUME NEW k \in 1..(l - 1), Terminal(k), ~Stops(k)
        PROVE  ~Stops(k)'
    <2>1. k \in Lessons
      BY CourseAssumption DEF Lessons
    <2>2. Proved(k) => Proved(k)'
      BY <2>1, Kept DEF Proved, Done, Phases
    <2> QED
      BY <1>1, <1>2, <2>2 DEF Stops
  <1>3. ASSUME NEW p \in Phases \ {"preflight"}, ops[l][p] = "none", ops'[l][p] # "none"
        PROVE  Begun(l, p)
    <2>1. ~Quiet
      BY <1>3 DEF Quiet
    <2>2. ASSUME NEW k \in Lessons, NEW q \in Phases \ {"preflight"}, Answered(k, q)
          PROVE  FALSE
      BY <1>3, <2>2 DEF Answered
    <2>3. PICK k \in Lessons, q \in Phases : Begun(k, q)
      BY <2>1, <2>2 DEF Kinds
    <2>4. k = l /\ q = p
      BY <1>3, <2>3 DEF Begun, OpSet
    <2> QED
      BY <2>3, <2>4
  <1>4. ASSUME NEW p \in {"verify", "success-learn", "seal"}, Begun(l, p)
        PROVE  /\ Proved(l)
               /\ p # "verify" => Done(l, "verify")
               /\ p = "seal" => Done(l, "success-learn")
    <2>1. Wanted(l, p) /\ p \in Phases /\ Due(l, p)
      BY <1>4 DEF Begun, Due, Phases
    <2>2. Proved(l) /\ (p # "verify" => plan.success)
      BY <2>1 DEF Wanted
    <2>3. Wanted(l, "verify") /\ (p # "verify" => Wanted(l, "success-learn"))
      BY <2>2 DEF Wanted
    <2> QED
      BY <2>1, <2>2, <2>3, DueOrder
  <1>5. ASSUME Begun(l, "online")
        PROVE  Done(l, "preflight") /\ \A k \in 1..(l - 1) : Terminal(k) /\ ~Stops(k)
    <2>1. Done(l, "preflight") /\ ~Stopped /\ \A k \in 1..(l - 1) : Terminal(k)
      BY <1>5 DEF Begun, Admitted, Current
    <2>2. \A k \in 1..(l - 1) : k \in Lessons
      BY CourseAssumption DEF Lessons
    <2> QED
      BY <2>1, <2>2 DEF Stopped
  <1>6. ASSUME NEW p \in {"verify", "success-learn", "seal"}, ops'[l][p] # "none"
        PROVE  /\ Proved(l)
               /\ p = "success-learn" => Done(l, "verify")
               /\ p = "seal" => Done(l, "success-learn")
    <2>1. CASE ops[l][p] # "none"
      BY <1>0, <2>1 DEF Behind
    <2>2. CASE ops[l][p] = "none"
      BY <1>3, <1>4, <1>6, <2>2 DEF Phases
    <2> QED
      BY <2>1, <2>2
  <1>7. ASSUME ops'[l]["online"] # "none"
        PROVE  Done(l, "preflight") /\ \A k \in 1..(l - 1) : Terminal(k) /\ ~Stops(k)
    <2>1. CASE ops[l]["online"] # "none"
      BY <1>0, <2>1 DEF Behind, InOrder
    <2>2. CASE ops[l]["online"] = "none"
      BY <1>3, <1>5, <1>7, <2>2 DEF Phases
    <2> QED
      BY <2>1, <2>2
  <1>8. ops'[l]["online"] # "none" => Done(l, "preflight")' /\ \A k \in 1..(l - 1) : ~Stops(k)'
    BY <1>1, <1>2, <1>7 DEF Phases
  <1> QED
    BY <1>1, <1>6, <1>8 DEF Behind, Phases

\* The strengthening of both invariants is inductive.
LEMMA CourseHolds == Spec => [](Base /\ Course)
  <1>1. Init => Course
    <2> SUFFICES ASSUME Init, NEW l \in Lessons
                 PROVE  /\ InOrder(l) /\ SessionHeld(l) /\ Gates(l) /\ Releases(l)
                        /\ SourceKept(l) /\ Behind(l)
      BY DEF Course
    <2>1. /\ \A p \in Phases : ops[l][p] = "none" /\ ~Done(l, p)
          /\ session[l] = "none" /\ ~Published(l)
      BY DEF Init, Done, Published
    <2> QED
      BY <2>1 DEF InOrder, SessionHeld, Gates, Releases, SourceKept, Behind, Phases
  <1>2. Base /\ Base' /\ Course /\ [Next]_vars => Course'
    <2> SUFFICES ASSUME Base, Base', Course, [Next]_vars, NEW l \in Lessons
                 PROVE  /\ InOrder(l)' /\ SessionHeld(l)' /\ Gates(l)' /\ Releases(l)'
                        /\ SourceKept(l)' /\ Behind(l)'
      BY DEF Course
    <2>1. Kinds /\ TypeOK /\ TypeOK'
      BY StepKinds DEF Base
    <2> QED
      BY <2>1, OrderKept, SessionKept, GatesKept, ReleasesKept, SourcesKept, BehindKept
  <1> QED
    BY <1>1, <1>2, BaseHolds, PTL DEF Spec

-----------------------------------------------------------------------------
\* Every call is sent at most once, at most one operation is open, and no two
\* lessons of a family have a session on the GPU, whatever fails or dies.
THEOREM OneThingSafe == Spec => []OneThingAtATime
  <1>1. Base /\ Course => OneThingAtATime
    <2> SUFFICES ASSUME Base, Course
                 PROVE  OneThingAtATime
      OBVIOUS
    <2>1. \A l \in Lessons, p \in Phases : calls[l][p] <= 1
      BY DEF Base, CalledOnce
    <2>2. \A l, k \in Lessons, p, q \in Phases :
             ops[l][p] = "open" /\ ops[k][q] = "open" => l = k /\ p = q
      BY DEF Base, OneOpen
    <2>3. ASSUME NEW l \in Lessons, NEW k \in Lessons, l < k, session[l] = "live", session[k] = "live"
          PROVE  FALSE
      <3>1. Terminal(l)
        BY <2>3, CourseAssumption DEF Course, SessionHeld, InOrder, Lessons
      <3> QED
        BY <2>3, <3>1 DEF Course, SessionHeld, Terminal
    <2>4. ASSUME NEW l \in Lessons, NEW k \in Lessons, session[l] = "live", session[k] = "live"
          PROVE  l = k
      <3>1. l = k \/ l < k \/ k < l
        BY CourseAssumption DEF Lessons
      <3> QED
        BY <2>3, <2>4, <3>1
    <2> QED
      BY <2>1, <2>2, <2>4 DEF OneThingAtATime
  <1> QED
    BY <1>1, CourseHolds, PTL

\* A published experience has its checked proof, all the updates of its lesson
\* and the right parent, and no trained proof loses its session before that.
THEOREM PublishedSafe == Spec => []PublishedIsProved
  <1>1. Base /\ Course => PublishedIsProved
    <2> SUFFICES ASSUME Base, Course, NEW l \in Lessons
                 PROVE  /\ Published(l) =>
                              /\ Proved(l) /\ Done(l, "verify") /\ l \in proof
                              /\ release[l].version = searched[l].version + (IF plan.success THEN 1 ELSE 0)
                              /\ release[l].parent = Max({0} \cup {k \in 1..(l - 1) : Published(k)})
                        /\ session[l] = "released" /\ Proved(l) /\ (plan.success \/ searched[l].version > 0)
                              => Published(l)
      BY DEF PublishedIsProved
    <2>0. /\ InOrder(l) /\ SessionHeld(l) /\ Gates(l) /\ Releases(l) /\ SourceKept(l)
          /\ TypeOK /\ searched[l].version \in Nat
      BY DEF Course, Base, TypeOK
    <2>1. ASSUME Published(l)
          PROVE  /\ Proved(l) /\ Done(l, "verify") /\ l \in proof
                 /\ release[l].version = searched[l].version + (IF plan.success THEN 1 ELSE 0)
                 /\ release[l].parent = Max({0} \cup {k \in 1..(l - 1) : Published(k)})
      <3>1. /\ ops[l]["publish"] # "none"
            /\ release[l] = [version |-> Trained(l), parent |-> searched[l].source]
        BY <2>0, <2>1 DEF Releases
      <3>2. /\ Proved(l) /\ Done(l, "verify") /\ l \in proof
            /\ plan.success <=> Done(l, "success-learn")
        BY <2>0, <3>1 DEF Gates, Done
      <3>3. release[l].version = searched[l].version + (IF plan.success THEN 1 ELSE 0)
        BY <3>1, <3>2 DEF Trained
      <3>4. release[l].parent = Source(l)
        BY <2>0, <3>1, <3>2 DEF SourceKept, Proved
      <3>5. ASSUME NEW k \in 1..(l - 1)
            PROVE  Done(k, "publish") <=> Published(k)
        <4>1. k \in Lessons
          BY CourseAssumption DEF Lessons
        <4>2. Terminal(k)
          BY <2>0, <3>2 DEF InOrder, Proved, Done
        <4>3. Releases(k) /\ Gates(k)
          BY <4>1 DEF Course
        <4> QED
          BY <2>0, <4>1, <4>2, <4>3, OverPublished DEF Releases
      <3>6. {k \in 1..(l - 1) : Done(k, "publish")} = {k \in 1..(l - 1) : Published(k)}
        BY <3>5
      <3> QED
        BY <3>2, <3>3, <3>4, <3>6 DEF Source
    <2>2. ASSUME session[l] = "released", Proved(l), plan.success \/ searched[l].version > 0
          PROVE  Published(l)
      <3>1. Ready(l)
        BY <2>0, <2>2 DEF SessionHeld, Gates
      <3>2. Done(l, "publish")
        BY <2>0, <2>2, <3>1 DEF Ready
      <3> QED
        BY <2>0, <3>2 DEF Releases
    <2> QED
      BY <2>1, <2>2
  <1> QED
    BY <1>1, CourseHolds, PTL

\* Of what the driver itself wrote, state() refuses only an operation or an import
\* without its end, however many lessons there are.
THEOREM ReconcilableSafe == Spec => []Reconcilable
  <1>1. Base /\ Course => Reconcilable
    <2> SUFFICES ASSUME Base, Course, NEW l \in Lessons
                 PROVE  Consistent(l)
      BY DEF Reconcilable, Accepted
    <2>1. /\ InOrder(l) /\ Gates(l) /\ SourceKept(l) /\ Behind(l) /\ searched[l].version \in Nat
      BY DEF Course, Base, TypeOK
    <2>2. \A p \in Phases : Done(l, p) => ops[l][p] # "none"
      BY DEF Done
    <2>3. /\ ~plan.success => ~Done(l, "success-learn") /\ ~Done(l, "seal")
          /\ Done(l, "success-learn") => Done(l, "verify")
          /\ Done(l, "seal") => Done(l, "success-learn")
      BY <2>1, <2>2 DEF Gates, Behind, Phases
    <2>4. ASSUME Done(l, "online")
          PROVE  /\ l > 1 => Terminal(l - 1)
                 /\ \A k \in 1..(l - 1) : ~Stops(k)
                 /\ Done(l, "preflight") /\ searched[l].source = Source(l)
      <3>1. \A k \in 1..(l - 1) : Terminal(k) /\ ~Stops(k)
        BY <2>1, <2>2, <2>4 DEF InOrder, Behind, Phases
      <3>2. l > 1 => l - 1 \in 1..(l - 1)
        BY CourseAssumption DEF Lessons
      <3> QED
        BY <2>1, <2>2, <2>4, <3>1, <3>2 DEF Behind, SourceKept, Phases
    <2>5. /\ Proved(l) /\ plan.success /\ Done(l, "publish") => Done(l, "seal")
          /\ Proved(l) /\ ~plan.success /\ searched[l].version = 0 => ~Done(l, "publish")
          /\ Done(l, "retire") => Ready(l)
      BY <2>1, <2>2, <2>3 DEF Gates, Trained, Phases
    <2>6. ~Proved(l) => \A p \in {"verify", "success-learn", "seal", "publish"} : ~Done(l, p)
      BY <2>1, <2>2 DEF Gates, Behind, Phases
    <2>7. ~Done(l, "online") => \A p \in Phases \ {"preflight", "online"} : ~Done(l, p)
      BY <2>1, <2>2 DEF InOrder
    <2> QED
      BY <2>3, <2>4, <2>5, <2>6, <2>7 DEF Consistent
  <1> QED
    BY <1>1, CourseHolds, PTL
=============================================================================
