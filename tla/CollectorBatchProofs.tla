------------------------ MODULE CollectorBatchProofs ------------------------
(***************************************************************************)
(* What CollectorBatch does to the GPU is bounded, and what it settles can *)
(* be audited, for any number of attempts, failures and restarts.          *)
(***************************************************************************)
EXTENDS CollectorBatch, SequenceTheorems, FiniteSetTheorems, WellFoundedInduction, TLAPS

-----------------------------------------------------------------------------
(* What the threads and restarts of a batch may do to an attempt.          *)

Queued == {queue[i] : i \in DOMAIN queue}
Staged == searches \cup Queued \cup validations

\* The attempt being settled or created.
Closing == at \in {"settle", "record", "create"}
Closings == [attempt : Attempts, result : {"accepted", "exhausted", "unknown"},
             then : {"validations", "searches", "abort"}]

\* An attempt is in one stage at a time.
OnePlace ==
    /\ \A i, j \in DOMAIN queue : queue[i] = queue[j] => i = j
    /\ searches \cap Queued = {} /\ searches \cap validations = {} /\ Queued \cap validations = {}
    /\ todo \subseteq searches

\* The scheduler hands out its attempts in order, and stages hold reserved ones.
InOrder ==
    /\ Reserved = 1..Cardinality(Reserved)
    /\ Staged \subseteq Reserved
    /\ Closing => closing.attempt \in Reserved
    /\ at \in {"prepare", "reserve"} => Cardinality(Reserved) < MaxAttempts

\* A thread is where the stage of its attempt says, and so is what it returned.
Staging(a) ==
    /\ step[a] \in {"search", "retire"} => a \in searches
    /\ step[a] = "verify" => a \in validations
    /\ step[a] = "diagnose" => a \in searches \cup validations
    /\ a \in Queued => step[a] = "done" /\ reply[a] = "solved_candidate"
    /\ step[a] = "retire" => reply[a] \in {"solved_candidate", "exhausted"}
    /\ a \in searches /\ step[a] = "done" =>
          reply[a] \in {"solved_candidate", "exhausted", "unknown", "raised"}
    /\ a \in validations /\ step[a] = "done" =>
          reply[a] \in {"accepted", "misclaimed", "unknown", "raised"}
    /\ step[a] = "done" /\ reply[a] \in {"unknown", "raised"} => stop

\* What an attempt was asked for, and what it may still be asked for.
AskedOnce(a) ==
    /\ asked[a].search <= 1 /\ asked[a].retire <= 1 /\ asked[a].verify <= 1
    /\ ledger[a] = "free" \/ (at = "create" /\ closing.attempt = a) =>
          asked[a].search = 0 /\ asked[a].retire = 0 /\ asked[a].verify = 0 /\ a \notin held
    /\ step[a] = "search" => asked[a].search = 0 /\ asked[a].retire = 0
    /\ step[a] = "retire" => asked[a].retire = 0
    /\ a \in searches \cup Queued \/ step[a] = "verify" => asked[a].verify = 0

\* The records of a search that ended, before any verification.
SearchEvidence(outcome) ==
    {<<"intent", "reserved">>, <<"retirement", "intent">>, <<"retirement", "released">>,
     <<"retirement", "receipt">>, <<"search", outcome>>}

\* The records of an attempt grow with its stages, and with those of its search its
\* session is off the GPU.
Evident(a) ==
    /\ a \in Staged => <<"intent", "reserved">> \in files[a]
    /\ step[a] = "retire" => <<"search", reply[a]>> \in files[a] /\ <<"retirement", "intent">> \in files[a]
    /\ a \in searches /\ step[a] = "done" /\ reply[a] \in {"solved_candidate", "exhausted"} =>
          SearchEvidence(reply[a]) \subseteq files[a] /\ a \notin held
    /\ a \in Queued \cup validations =>
          SearchEvidence("solved_candidate") \subseteq files[a] /\ a \notin held
    /\ a \in validations /\ step[a] = "done" /\ reply[a] = "accepted" =>
          <<"validation", "accepted">> \in files[a]
    /\ a \in held => ledger[a] \in {"pending", "unknown"}
    /\ ledger[a] \in {"accepted", "exhausted"} => Auditable(a)

\* The attempt being settled has left the stages with the records of its result.
Closed ==
    /\ Closing => closing \in Closings /\ closing.attempt \notin Staged
    /\ at = "create" => /\ closing.result = "unknown" /\ closing.then = "abort"
                         /\ ledger[closing.attempt] = "pending"
    /\ Closing /\ closing.result # "unknown" =>
          /\ closing.attempt \notin held
          /\ Evidence(closing.result) \ {<<"terminal", closing.result>>} \subseteq files[closing.attempt]
          /\ at = "record" => Evidence(closing.result) \subseteq files[closing.attempt]

\* Unless new dispatch was stopped for good a session on the GPU is in its slot, and
\* there is a slot for the attempt that is being dispatched.
HeldKnown ==
    /\ at # "idle" /\ ~stop => held \subseteq searches
    /\ at \in {"prepare", "reserve", "create"} =>
          held \subseteq searches /\ Cardinality(searches) < SearchWorkers
    /\ Cardinality(held) <= SearchWorkers

\* A late reservation was made with stop set, and is the last of its run.
LateOnce == late <= 1 /\ (late = 1 => stop /\ at \notin {"prepare", "reserve"})

AttemptsOK == \A a \in Attempts : Staging(a) /\ AskedOnce(a) /\ Evident(a)

ExecInv == OnePlace /\ InOrder /\ AttemptsOK /\ Closed /\ HeldKnown /\ LateOnce

\* Any non-empty set of natural numbers has a least member.
LEMMA LeastExists ==
    ASSUME NEW S \in SUBSET Nat, S # {}
    PROVE  \E r \in S : \A s \in S : r <= s
<1>1. PICK r \in S : \A s \in S : ~ (<<s, r>> \in OpToRel(<, Nat))
  BY WFMin, NatLessThanWellFounded
<1>2. ASSUME NEW s \in S
      PROVE  r <= s
  <2>1. s \in Nat /\ r \in Nat
    OBVIOUS
  <2>2. <<s, r>> \in Nat \X Nat /\ ~ (s < r)
    BY <1>1, <2>1 DEF OpToRel
  <2> QED BY <2>1, <2>2
<1> QED BY <1>2

\* The records an attempt may have on disk.
Sayings == {"intent", "search", "retirement", "validation", "terminal"} \X Says

\* Records are added to those of one attempt, all of them unless a write raises.
LEMMA ExecWritten ==
  ASSUME files \in [Attempts -> SUBSET Sayings], NEW a \in Attempts, NEW recs \in Seq(Sayings),
         Writes(a, recs) \/ WriteRaises(a, recs)
  PROVE  /\ files' \in [Attempts -> SUBSET Sayings]
         /\ files[a] \subseteq files'[a]
         /\ \A b \in Attempts : b # a => files'[b] = files[b]
         /\ Writes(a, recs) => \A i \in 1..Len(recs) : recs[i] \in files'[a]
  <1>1. ASSUME NEW seq \in Seq(Sayings), Writes(a, seq)
        PROVE  /\ files' \in [Attempts -> SUBSET Sayings]
               /\ files[a] \subseteq files'[a]
               /\ \A b \in Attempts : b # a => files'[b] = files[b]
               /\ \A i \in 1..Len(seq) : seq[i] \in files'[a]
    <2> DEFINE new == {seq[i] : i \in DOMAIN seq}
    <2>1. new \subseteq Sayings /\ \A i \in 1..Len(seq) : seq[i] \in new
      OBVIOUS
    <2>2. files' = [files EXCEPT ![a] = files[a] \cup new]
      BY <1>1 DEF Writes
    <2> HIDE DEF new
    <2> QED
      BY <2>1, <2>2
  <1>2. CASE Writes(a, recs)
    BY <1>1, <1>2
  <1>3. CASE WriteRaises(a, recs) /\ ~ Writes(a, recs)
    <2>1. PICK n \in 0..Len(recs) : Writes(a, SubSeq(recs, 1, n))
      BY <1>3 DEF WriteRaises
    <2>2. \A i \in 1..n : recs[i] \in Sayings
      OBVIOUS
    <2>3. SubSeq(recs, 1, n) \in Seq(Sayings)
      BY <2>2, SubSeqProperties
    <2> QED
      BY <1>1, <1>3, <2>1, <2>3
  <1> QED
    BY <1>2, <1>3

\* A callback is counted, those of other attempts and the others of this one are not.
LEMMA CalledType ==
  ASSUME asked \in [Attempts -> [search : Nat, retire : Nat, verify : Nat]],
         NEW a \in Attempts, NEW callback \in {"search", "retire", "verify"}, Called(a, callback)
  PROVE  /\ asked' \in [Attempts -> [search : Nat, retire : Nat, verify : Nat]]
         /\ \A b \in Attempts : b # a => asked'[b] = asked[b]
         /\ asked'[a].search = IF callback = "search" THEN asked[a].search + 1 ELSE asked[a].search
         /\ asked'[a].retire = IF callback = "retire" THEN asked[a].retire + 1 ELSE asked[a].retire
         /\ asked'[a].verify = IF callback = "verify" THEN asked[a].verify + 1 ELSE asked[a].verify
  <1>1. asked[a] \in [search : Nat, retire : Nat, verify : Nat]
    OBVIOUS
  <1>2. asked' = [asked EXCEPT ![a] = [asked[a] EXCEPT ![callback] = asked[a][callback] + 1]]
    BY DEF Called
  <1>3. CASE callback = "search"
    BY <1>1, <1>2, <1>3
  <1>4. CASE callback = "retire"
    BY <1>1, <1>2, <1>4
  <1>5. CASE callback = "verify"
    BY <1>1, <1>2, <1>5
  <1> QED
    BY <1>3, <1>4, <1>5

\* An attempt joins the queue at its end.
LEMMA QueuedMore ==
  ASSUME queue \in Seq(Attempts), NEW a \in Attempts, queue' = Append(queue, a)
  PROVE  /\ queue' \in Seq(Attempts) /\ Queued' = Queued \cup {a}
         /\ OnePlace /\ a \notin Queued =>
               \A i, j \in DOMAIN queue' : queue'[i] = queue'[j] => i = j
  <1>1. /\ DOMAIN queue' = DOMAIN queue \cup {Len(queue) + 1} /\ queue'[Len(queue) + 1] = a
        /\ \A i \in DOMAIN queue : queue'[i] = queue[i]
        /\ queue' \in Seq(Attempts)
    OBVIOUS
  <1>2. Queued' = Queued \cup {a}
    BY <1>1 DEF Queued
  <1>3. ASSUME OnePlace, a \notin Queued, NEW i \in DOMAIN queue', NEW j \in DOMAIN queue',
               queue'[i] = queue'[j]
        PROVE  i = j
    BY <1>1, <1>3 DEF OnePlace, Queued
  <1> QED
    BY <1>1, <1>2, <1>3

\* The head leaves the queue, in which it was once.
LEMMA QueuedLess ==
  ASSUME queue \in Seq(Attempts), OnePlace, queue # <<>>, queue' = Tail(queue)
  PROVE  /\ queue' \in Seq(Attempts) /\ Head(queue) \in Queued /\ Head(queue) \in Attempts
         /\ Queued' = Queued \ {Head(queue)}
         /\ \A i, j \in DOMAIN queue' : queue'[i] = queue'[j] => i = j
  <1>1. /\ Head(queue) = queue[1] /\ 1 \in DOMAIN queue /\ DOMAIN queue = 1..Len(queue)
        /\ DOMAIN queue' = 1..Len(queue) - 1 /\ queue' \in Seq(Attempts) /\ Len(queue) \in Nat
        /\ \A i \in 1..Len(queue) - 1 : queue'[i] = queue[i + 1]
    BY HeadTailProperties
  <1>2. \A i, j \in DOMAIN queue : queue[i] = queue[j] => i = j
    BY DEF OnePlace
  <1>3. \A i, j \in DOMAIN queue' : queue'[i] = queue'[j] => i = j
    BY <1>1, <1>2
  <1>4. ASSUME NEW b \in Queued' PROVE b \in Queued \ {Head(queue)}
    <2>1. PICK i \in DOMAIN queue' : b = queue'[i]
      BY DEF Queued
    <2>2. i + 1 \in DOMAIN queue /\ b = queue[i + 1] /\ i + 1 # 1
      BY <1>1, <2>1
    <2> QED
      BY <1>1, <1>2, <2>2 DEF Queued
  <1>5. ASSUME NEW b \in Queued, b # Head(queue) PROVE b \in Queued'
    <2>1. PICK i \in DOMAIN queue : b = queue[i]
      BY DEF Queued
    <2>2. i - 1 \in DOMAIN queue' /\ b = queue'[i - 1]
      BY <1>1, <1>5, <2>1
    <2> QED
      BY <2>2 DEF Queued
  <1>6. Head(queue) \in Queued
    BY <1>1 DEF Queued
  <1> QED
    BY <1>1, <1>3, <1>4, <1>5, <1>6

\* A queue that is left alone holds the same attempts.
LEMMA SameQueued == UNCHANGED queue => UNCHANGED Queued
  BY DEF Queued

\* First picks a member.
LEMMA FirstOf == ASSUME NEW S, S \subseteq Attempts, S # {} PROVE First(S) \in S
  <1>1. S \in SUBSET Nat
    BY BatchAssumption DEF Attempts
  <1>2. \E s \in S : \A t \in S : s <= t
    BY <1>1, LeastExists
  <1> QED
    BY <1>2 DEF First

\* What a thread may do to anything but its own attempt: stop the dispatch.
LEMMA ThreadFrame ==
  ASSUME TypeOK, NEW a \in Attempts, Thread(a)
  PROVE  /\ UNCHANGED <<ledger, batch, at, poisoned, searches, queue, validations, todo, closing>>
         /\ UNCHANGED <<late, verdict>> /\ stop' \in BOOLEAN /\ (stop => stop')
         /\ files' \in [Attempts -> SUBSET Sayings] /\ files[a] \subseteq files'[a]
         /\ held' \subseteq held /\ held \subseteq held' \cup {a}
         /\ asked' \in [Attempts -> [search : Nat, retire : Nat, verify : Nat]]
         /\ step' \in [Attempts -> {"idle", "search", "retire", "verify", "diagnose", "done"}]
         /\ reply' \in [Attempts -> Results \cup {None}]
         /\ \A b \in Attempts : b # a =>
               /\ files'[b] = files[b] /\ asked'[b] = asked[b]
               /\ step'[b] = step[b] /\ reply'[b] = reply[b]
  <1> USE DEF TypeOK, Results
  <1>0. /\ UNCHANGED <<ledger, batch, at, poisoned, searches, queue, validations, todo, closing>>
        /\ UNCHANGED <<late, verdict>> /\ files \in [Attempts -> SUBSET Sayings]
    BY DEF Thread, stages, Sayings
  <1>1. CASE Search(a)
    <2>1. PICK outcome \in {"solved_candidate", "exhausted"} :
             LET recs == <<<<"search", outcome>>, <<"retirement", "intent">>>> IN
             \/ Writes(a, recs) /\ Goes(a, "retire") /\ Returned(a, outcome)
             \/ WriteRaises(a, recs) /\ Goes(a, "diagnose") /\ UNCHANGED reply
      BY <1>1 DEF Search
    <2>2. <<<<"search", outcome>>, <<"retirement", "intent">>>> \in Seq(Sayings)
      BY DEF Sayings, Says
    <2>3. /\ files' \in [Attempts -> SUBSET Sayings] /\ files[a] \subseteq files'[a]
          /\ \A b \in Attempts : b # a => files'[b] = files[b]
      BY <1>0, <2>1, <2>2, ExecWritten
    <2>4. /\ asked' \in [Attempts -> [search : Nat, retire : Nat, verify : Nat]]
          /\ \A b \in Attempts : b # a => asked'[b] = asked[b]
      BY <1>1, CalledType DEF Search
    <2>5. /\ step' \in [Attempts -> {"idle", "search", "retire", "verify", "diagnose", "done"}]
          /\ reply' \in [Attempts -> Results \cup {None}]
          /\ \A b \in Attempts : b # a => step'[b] = step[b] /\ reply'[b] = reply[b]
      BY <2>1 DEF Goes, Returned
    <2> QED
      BY <1>0, <1>1, <2>3, <2>4, <2>5 DEF Search
  <1>2. CASE SearchFails(a)
    <2>2. <<<<"search", "incomplete">>>> \in Seq(Sayings)
      BY DEF Sayings, Says
    <2>3. /\ files' \in [Attempts -> SUBSET Sayings] /\ files[a] \subseteq files'[a]
          /\ \A b \in Attempts : b # a => files'[b] = files[b]
      BY <1>0, <1>2, <2>2, ExecWritten DEF SearchFails
    <2>4. /\ asked' \in [Attempts -> [search : Nat, retire : Nat, verify : Nat]]
          /\ \A b \in Attempts : b # a => asked'[b] = asked[b]
      BY <1>2, CalledType DEF SearchFails
    <2>5. /\ step' \in [Attempts -> {"idle", "search", "retire", "verify", "diagnose", "done"}]
          /\ reply' \in [Attempts -> Results \cup {None}]
          /\ \A b \in Attempts : b # a => step'[b] = step[b] /\ reply'[b] = reply[b]
      BY <1>2 DEF Goes, SearchFails
    <2> QED
      BY <1>0, <1>2, <2>3, <2>4, <2>5 DEF SearchFails
  <1>3. CASE Retire(a)
    <2>1. LET recs == <<<<"retirement", "released">>, <<"retirement", "receipt">>>> IN
          \/ Writes(a, recs) /\ Goes(a, "done")
          \/ WriteRaises(a, recs) /\ Goes(a, "diagnose")
      BY <1>3 DEF Retire
    <2>2. <<<<"retirement", "released">>, <<"retirement", "receipt">>>> \in Seq(Sayings)
      BY DEF Sayings, Says
    <2>3. /\ files' \in [Attempts -> SUBSET Sayings] /\ files[a] \subseteq files'[a]
          /\ \A b \in Attempts : b # a => files'[b] = files[b]
      BY <1>0, <2>1, <2>2, ExecWritten
    <2>4. /\ asked' \in [Attempts -> [search : Nat, retire : Nat, verify : Nat]]
          /\ \A b \in Attempts : b # a => asked'[b] = asked[b]
      BY <1>3, CalledType DEF Retire
    <2>5. /\ step' \in [Attempts -> {"idle", "search", "retire", "verify", "diagnose", "done"}]
          /\ UNCHANGED reply
          /\ \A b \in Attempts : b # a => step'[b] = step[b]
      BY <1>3, <2>1 DEF Goes, Retire
    <2> QED
      BY <1>0, <1>3, <2>3, <2>4, <2>5 DEF Retire
  <1>4. CASE RetireFails(a)
    <2>2. <<<<"retirement", "prepared">>>> \in Seq(Sayings)
      BY DEF Sayings, Says
    <2>3. /\ files' \in [Attempts -> SUBSET Sayings] /\ files[a] \subseteq files'[a]
          /\ \A b \in Attempts : b # a => files'[b] = files[b]
      BY <1>0, <1>4, <2>2, ExecWritten DEF RetireFails
    <2>4. /\ asked' \in [Attempts -> [search : Nat, retire : Nat, verify : Nat]]
          /\ \A b \in Attempts : b # a => asked'[b] = asked[b]
      BY <1>4, CalledType DEF RetireFails
    <2>5. /\ step' \in [Attempts -> {"idle", "search", "retire", "verify", "diagnose", "done"}]
          /\ UNCHANGED reply
          /\ \A b \in Attempts : b # a => step'[b] = step[b]
      BY <1>4 DEF Goes, RetireFails, RefusedRetirement
    <2> QED
      BY <1>0, <1>4, <2>3, <2>4, <2>5 DEF RetireFails
  <1>5. CASE Verify(a)
    <2>1. PICK result \in {"accepted", "misclaimed", "unknown", "invalid"} :
             /\ Returned(a, result)
             /\ \/ /\ Writes(a, <<<<"validation", result>>>>)
                   /\ Goes(a, IF RightShape(result) THEN "done" ELSE "diagnose")
                   /\ StopsIfUnknown(result)
                \/ /\ WriteRaises(a, <<<<"validation", result>>>>)
                   /\ Goes(a, "diagnose")
                   /\ UNCHANGED stop
      BY <1>5 DEF Verify
    <2>2. <<<<"validation", result>>>> \in Seq(Sayings)
      BY DEF Sayings, Says
    <2>3. /\ files' \in [Attempts -> SUBSET Sayings] /\ files[a] \subseteq files'[a]
          /\ \A b \in Attempts : b # a => files'[b] = files[b]
      BY <1>0, <2>1, <2>2, ExecWritten
    <2>4. /\ asked' \in [Attempts -> [search : Nat, retire : Nat, verify : Nat]]
          /\ \A b \in Attempts : b # a => asked'[b] = asked[b]
      BY <1>5, CalledType DEF Verify
    <2>5. /\ step' \in [Attempts -> {"idle", "search", "retire", "verify", "diagnose", "done"}]
          /\ reply' \in [Attempts -> Results \cup {None}]
          /\ \A b \in Attempts : b # a => step'[b] = step[b] /\ reply'[b] = reply[b]
      BY <2>1 DEF Goes, Returned
    <2>6. stop' \in BOOLEAN /\ (stop => stop') /\ UNCHANGED held
      <3>1. UNCHANGED stop \/ stop' = (stop \/ result = "unknown")
        BY <2>1 DEF StopsIfUnknown
      <3>2. stop \in {TRUE, FALSE} /\ (stop \/ result = "unknown") \in {TRUE, FALSE}
        OBVIOUS
      <3>3. stop' \in {TRUE, FALSE} /\ (stop => stop')
        BY <3>1, <3>2
      <3> QED
        BY <1>5, <3>3 DEF Verify
    <2> QED
      BY <1>0, <2>3, <2>4, <2>5, <2>6
  <1>6. CASE Diagnose(a)
    <2>1. /\ step' \in [Attempts -> {"idle", "search", "retire", "verify", "diagnose", "done"}]
          /\ reply' \in [Attempts -> Results \cup {None}]
          /\ \A b \in Attempts : b # a => step'[b] = step[b] /\ reply'[b] = reply[b]
      BY <1>6 DEF Goes, Returned, Diagnose
    <2> QED
      BY <1>0, <1>6, <2>1 DEF Diagnose
  <1> QED
    BY <1>1, <1>2, <1>3, <1>4, <1>5, <1>6 DEF Thread

\* The invariant after a step of a thread, but for what concerns its own attempt.
LEMMA ThreadKeeps ==
  ASSUME TypeOK, ExecInv, NEW a \in Attempts, Thread(a),
         (Staging(a) /\ AskedOnce(a) /\ Evident(a))'
  PROVE  ExecInv'
  <1> USE DEF TypeOK
  <1>1. /\ UNCHANGED <<ledger, at, searches, queue, validations, todo, closing, late>>
        /\ stop' \in BOOLEAN /\ (stop => stop')
        /\ files[a] \subseteq files'[a] /\ held' \subseteq held /\ held \subseteq held' \cup {a}
        /\ \A b \in Attempts : b # a =>
              /\ files'[b] = files[b] /\ asked'[b] = asked[b]
              /\ step'[b] = step[b] /\ reply'[b] = reply[b]
    BY ThreadFrame
  <1>2. UNCHANGED <<Queued, Staged, Closing, Reserved>>
    BY <1>1, SameQueued DEF Staged, Closing, Reserved
  <1>3. OnePlace' /\ InOrder' /\ LateOnce'
    BY <1>1, <1>2 DEF ExecInv, OnePlace, InOrder, LateOnce
  <1>4. AttemptsOK'
    <2> SUFFICES ASSUME NEW b \in Attempts, b # a
                 PROVE  (Staging(b) /\ AskedOnce(b) /\ Evident(b))'
      BY DEF AttemptsOK
    <2>1. Staging(b) /\ AskedOnce(b) /\ Evident(b)
      BY DEF ExecInv, AttemptsOK
    <2>2. b \in held <=> b \in held'
      BY <1>1
    <2>3. /\ files'[b] = files[b] /\ asked'[b] = asked[b]
          /\ step'[b] = step[b] /\ reply'[b] = reply[b]
      BY <1>1
    <2>4. Staging(b)'
      BY <1>1, <1>2, <2>1, <2>2, <2>3 DEF Staging
    <2>5. AskedOnce(b)'
      BY <1>1, <1>2, <2>1, <2>2, <2>3 DEF AskedOnce
    <2>6. Evident(b)'
      BY <1>1, <1>2, <2>1, <2>2, <2>3 DEF Evident, Auditable
    <2> QED
      BY <2>4, <2>5, <2>6
  <1>5. Closed'
    <2>1. \A b \in Attempts : files[b] \subseteq files'[b]
      BY <1>1
    <2> QED
      BY <1>1, <1>2, <2>1 DEF ExecInv, Closed, Closings
  <1>6. HeldKnown'
    <2>1. Cardinality(held') <= SearchWorkers
      <3>1. IsFiniteSet(Attempts)
        BY FS_Interval, BatchAssumption DEF Attempts
      <3>2. IsFiniteSet(held)
        BY <3>1, FS_Subset
      <3>3. Cardinality(held') <= Cardinality(held) /\ Cardinality(held') \in Nat /\ Cardinality(held) \in Nat
        BY <1>1, <3>2, FS_Subset, FS_CardinalityType
      <3> QED
        BY <3>3, BatchAssumption DEF ExecInv, HeldKnown
    <2> QED
      BY <1>1, <2>1 DEF ExecInv, HeldKnown
  <1> QED
    BY <1>3, <1>4, <1>5, <1>6 DEF ExecInv

\* A search returned, or failed.
LEMMA ExecSearch ==
  ASSUME TypeOK, ExecInv, NEW a \in Attempts, Thread(a), Search(a) \/ SearchFails(a)
  PROVE  ExecInv'
  <1> USE DEF TypeOK
  <1>1. /\ UNCHANGED <<ledger, at, searches, queue, validations, closing, held>>
        /\ files[a] \subseteq files'[a]
    BY ThreadFrame DEF Search, SearchFails
  <1>2. UNCHANGED <<Queued, Staged>>
    BY <1>1, SameQueued DEF Staged
  <1>3. Staging(a) /\ AskedOnce(a) /\ Evident(a) /\ step[a] = "search"
    BY DEF ExecInv, AttemptsOK, Search, SearchFails
  <1>4. a \in searches /\ a \notin Queued /\ a \notin validations
    BY <1>3 DEF Staging, ExecInv, OnePlace
  <1>5. /\ asked'[a].search = asked[a].search + 1 /\ asked'[a].retire = asked[a].retire
        /\ asked'[a].verify = asked[a].verify
        /\ asked[a].search = 0 /\ asked[a].retire = 0 /\ asked[a].verify = 0
    BY <1>3, <1>4, CalledType DEF Search, SearchFails, AskedOnce
  <1>6. ~ (ledger[a] = "free" \/ (at = "create" /\ closing.attempt = a))
    BY <1>4 DEF ExecInv, InOrder, Closed, Closing, Staged, Reserved
  <1>7. AskedOnce(a)'
    <2>1. step'[a] \in {"retire", "diagnose"}
      BY DEF Search, SearchFails, Goes
    <2> QED
      BY <1>1, <1>2, <1>5, <1>6, <2>1 DEF AskedOnce
  <1>8. \/ step'[a] = "diagnose"
        \/ /\ step'[a] = "retire" /\ reply'[a] \in {"solved_candidate", "exhausted"}
           /\ <<"search", reply'[a]>> \in files'[a] /\ <<"retirement", "intent">> \in files'[a]
    <2>1. CASE SearchFails(a)
      BY <2>1 DEF SearchFails, Goes
    <2>2. CASE Search(a)
      <3>1. PICK outcome \in {"solved_candidate", "exhausted"} :
               LET recs == <<<<"search", outcome>>, <<"retirement", "intent">>>> IN
               \/ Writes(a, recs) /\ Goes(a, "retire") /\ Returned(a, outcome)
               \/ WriteRaises(a, recs) /\ Goes(a, "diagnose") /\ UNCHANGED reply
        BY <2>2 DEF Search
      <3> DEFINE recs == <<<<"search", outcome>>, <<"retirement", "intent">>>>
      <3>2. recs \in Seq(Sayings) /\ Len(recs) = 2
            /\ recs[1] = <<"search", outcome>> /\ recs[2] = <<"retirement", "intent">>
        BY DEF Sayings, Says, Results
      <3>3. \/ Goes(a, "diagnose")
            \/ Writes(a, recs) /\ Goes(a, "retire") /\ Returned(a, outcome)
        BY <3>1
      <3> HIDE DEF recs
      <3>4. files \in [Attempts -> SUBSET Sayings]
        BY DEF Sayings
      <3>5. ASSUME Writes(a, recs)
            PROVE  <<"search", outcome>> \in files'[a] /\ <<"retirement", "intent">> \in files'[a]
        <4>1. \A i \in 1..Len(recs) : recs[i] \in files'[a]
          BY <3>2, <3>4, <3>5, ExecWritten
        <4>2. recs[1] \in files'[a] /\ recs[2] \in files'[a]
          <5>1. 1 \in 1..Len(recs) /\ 2 \in 1..Len(recs)
            BY <3>2
          <5> QED
            BY <4>1, <5>1
        <4> QED
          BY <3>2, <4>2, Zenon
      <3> QED
        BY <3>3, <3>5 DEF Goes, Returned
    <2> QED
      BY <2>1, <2>2
  <1>9. Staging(a)'
    BY <1>1, <1>2, <1>4, <1>8 DEF Staging
  <1>10. Evident(a)'
    BY <1>1, <1>2, <1>3, <1>4, <1>8 DEF Evident, Auditable
  <1> QED
    BY <1>7, <1>9, <1>10, ThreadKeeps

\* A session was released, or nobody knows whether it was.
LEMMA ExecRetire ==
  ASSUME TypeOK, ExecInv, NEW a \in Attempts, Thread(a), Retire(a) \/ RetireFails(a)
  PROVE  ExecInv'
  <1> USE DEF TypeOK
  <1>1. /\ UNCHANGED <<ledger, at, searches, queue, validations, closing, reply>>
        /\ files[a] \subseteq files'[a] /\ held' \subseteq held
    BY ThreadFrame DEF Retire, RetireFails
  <1>2. UNCHANGED <<Queued, Staged>>
    BY <1>1, SameQueued DEF Staged
  <1>3. Staging(a) /\ AskedOnce(a) /\ Evident(a) /\ step[a] = "retire"
    BY DEF ExecInv, AttemptsOK, Retire, RetireFails
  <1>4. a \in searches /\ a \notin Queued /\ a \notin validations /\ reply[a] \in {"solved_candidate", "exhausted"}
    BY <1>3 DEF Staging, ExecInv, OnePlace
  <1>5. /\ asked'[a].retire = asked[a].retire + 1 /\ asked'[a].search = asked[a].search
        /\ asked'[a].verify = asked[a].verify
        /\ asked[a].search <= 1 /\ asked[a].retire = 0 /\ asked[a].verify = 0
    BY <1>3, <1>4, CalledType DEF Retire, RetireFails, AskedOnce
  <1>6. ~ (ledger[a] = "free" \/ (at = "create" /\ closing.attempt = a))
    BY <1>4 DEF ExecInv, InOrder, Closed, Closing, Staged, Reserved
  <1>7. AskedOnce(a)'
    <2>1. step'[a] \in {"done", "diagnose"}
      BY DEF Retire, RetireFails, RefusedRetirement, Goes
    <2> QED
      BY <1>1, <1>2, <1>5, <1>6, <2>1 DEF AskedOnce
  <1>8. \/ step'[a] = "diagnose"
        \/ /\ step'[a] = "done" /\ a \notin held'
           /\ <<"retirement", "released">> \in files'[a] /\ <<"retirement", "receipt">> \in files'[a]
    <2>1. CASE RetireFails(a)
      BY <2>1 DEF RetireFails, RefusedRetirement, Goes
    <2>2. CASE Retire(a)
      <3> DEFINE recs == <<<<"retirement", "released">>, <<"retirement", "receipt">>>>
      <3>2. recs \in Seq(Sayings) /\ Len(recs) = 2
            /\ recs[1] = <<"retirement", "released">> /\ recs[2] = <<"retirement", "receipt">>
        BY DEF Sayings, Says
      <3>3. /\ a \notin held'
            /\ \/ Goes(a, "diagnose")
               \/ Writes(a, recs) /\ Goes(a, "done")
        BY <2>2 DEF Retire
      <3> HIDE DEF recs
      <3>4. files \in [Attempts -> SUBSET Sayings]
        BY DEF Sayings
      <3>5. ASSUME Writes(a, recs)
            PROVE  <<"retirement", "released">> \in files'[a] /\ <<"retirement", "receipt">> \in files'[a]
        <4>1. \A i \in 1..Len(recs) : recs[i] \in files'[a]
          BY <3>2, <3>4, <3>5, ExecWritten
        <4>2. recs[1] \in files'[a] /\ recs[2] \in files'[a]
          <5>1. 1 \in 1..Len(recs) /\ 2 \in 1..Len(recs)
            BY <3>2
          <5> QED
            BY <4>1, <5>1
        <4> QED
          BY <3>2, <4>2, Zenon
      <3> QED
        BY <3>3, <3>5 DEF Goes
    <2> QED
      BY <2>1, <2>2
  <1>9. Staging(a)'
    BY <1>1, <1>2, <1>4, <1>8 DEF Staging
  <1>10. Evident(a)'
    <2>1. /\ <<"search", reply[a]>> \in files'[a] /\ <<"retirement", "intent">> \in files'[a]
          /\ <<"intent", "reserved">> \in files'[a]
      BY <1>1, <1>3, <1>4 DEF Evident, Staged
    <2>2. step'[a] = "done" => SearchEvidence(reply'[a]) \subseteq files'[a] /\ a \notin held'
      BY <1>1, <1>8, <2>1 DEF SearchEvidence
    <2> QED
      BY <1>1, <1>2, <1>3, <1>4, <1>8, <2>1, <2>2 DEF Evident, Auditable
  <1> QED
    BY <1>7, <1>9, <1>10, ThreadKeeps

\* A verification returned.
LEMMA ExecVerify ==
  ASSUME TypeOK, ExecInv, NEW a \in Attempts, Thread(a), Verify(a)
  PROVE  ExecInv'
  <1> USE DEF TypeOK
  <1>1. /\ UNCHANGED <<ledger, at, searches, queue, validations, closing, held>>
        /\ files[a] \subseteq files'[a]
    BY ThreadFrame DEF Verify
  <1>2. UNCHANGED <<Queued, Staged>>
    BY <1>1, SameQueued DEF Staged
  <1>3. Staging(a) /\ AskedOnce(a) /\ Evident(a) /\ step[a] = "verify"
    BY DEF ExecInv, AttemptsOK, Verify
  <1>4. a \in validations /\ a \notin Queued /\ a \notin searches
    BY <1>3 DEF Staging, ExecInv, OnePlace
  <1>5. /\ asked'[a].verify = asked[a].verify + 1 /\ asked'[a].search = asked[a].search
        /\ asked'[a].retire = asked[a].retire
        /\ asked[a].search <= 1 /\ asked[a].retire <= 1 /\ asked[a].verify = 0
    BY <1>3, <1>4, CalledType DEF Verify, AskedOnce
  <1>6. ~ (ledger[a] = "free" \/ (at = "create" /\ closing.attempt = a))
    BY <1>4 DEF ExecInv, InOrder, Closed, Closing, Staged, Reserved
  <1>7. PICK result \in {"accepted", "misclaimed", "unknown", "invalid"} :
           /\ Returned(a, result)
           /\ \/ /\ Writes(a, <<<<"validation", result>>>>)
                 /\ Goes(a, IF RightShape(result) THEN "done" ELSE "diagnose")
                 /\ StopsIfUnknown(result)
              \/ Goes(a, "diagnose")
    BY DEF Verify
  <1>8. AskedOnce(a)'
    <2>1. step'[a] \in {"done", "diagnose"}
      BY <1>7 DEF Goes
    <2> QED
      BY <1>1, <1>2, <1>4, <1>5, <1>6, <2>1 DEF AskedOnce
  <1>9. reply'[a] = result
    BY <1>7 DEF Returned
  <1>10. \/ step'[a] = "diagnose"
         \/ /\ step'[a] = "done" /\ result # "invalid" /\ <<"validation", result>> \in files'[a]
            /\ result = "unknown" => stop'
    <2>1. <<<<"validation", result>>>> \in Seq(Sayings) /\ Len(<<<<"validation", result>>>>) = 1
          /\ <<<<"validation", result>>>>[1] = <<"validation", result>>
      BY DEF Sayings, Says, Results
    <2>2. files \in [Attempts -> SUBSET Sayings]
      BY DEF Sayings
    <2> DEFINE recs == <<<<"validation", result>>>>
    <2>3. ASSUME Writes(a, recs) PROVE <<"validation", result>> \in files'[a]
      <3>1. recs \in Seq(Sayings) /\ Len(recs) = 1 /\ recs[1] = <<"validation", result>>
        BY <2>1
      <3> HIDE DEF recs
      <3>2. \A i \in 1..Len(recs) : recs[i] \in files'[a]
        BY <2>2, <2>3, <3>1, ExecWritten
      <3>3. recs[1] \in files'[a]
        <4>1. 1 \in 1..Len(recs)
          BY <3>1
        <4> QED
          BY <3>2, <4>1
      <3> QED
        BY <3>1, <3>3, Zenon
    <2>4. StopsIfUnknown(result) => (result = "unknown" => stop')
      BY DEF StopsIfUnknown
    <2> QED
      BY <1>7, <2>3, <2>4 DEF Goes, RightShape
  <1>11. Staging(a)'
    BY <1>1, <1>2, <1>4, <1>9, <1>10 DEF Staging
  <1>12. Evident(a)'
    BY <1>1, <1>2, <1>3, <1>4, <1>9, <1>10 DEF Evident, Auditable
  <1> QED
    BY <1>8, <1>11, <1>12, ThreadKeeps

\* A phase that failed stopped the dispatch.
LEMMA ExecDiagnose ==
  ASSUME TypeOK, ExecInv, NEW a \in Attempts, Thread(a), Diagnose(a)
  PROVE  ExecInv'
  <1> USE DEF TypeOK
  <1>1. /\ UNCHANGED <<ledger, at, searches, queue, validations, closing, held, files, asked>>
        /\ stop' = TRUE
    BY ThreadFrame DEF Diagnose
  <1>2. UNCHANGED <<Queued, Staged>>
    BY <1>1, SameQueued DEF Staged
  <1>3. Staging(a) /\ AskedOnce(a) /\ Evident(a) /\ step[a] = "diagnose"
    BY DEF ExecInv, AttemptsOK, Diagnose
  <1>4. a \notin Queued
    BY <1>3 DEF Staging
  <1>5. step'[a] = "done" /\ reply'[a] \in {"unknown", "raised"}
    BY DEF Diagnose, Goes, Returned
  <1>6. Staging(a)' /\ AskedOnce(a)'
    BY <1>1, <1>2, <1>3, <1>4, <1>5 DEF Staging, AskedOnce
  <1>7. Evident(a)'
    BY <1>1, <1>2, <1>3, <1>4, <1>5 DEF Evident, Auditable
  <1> QED
    BY <1>6, <1>7, ThreadKeeps

\* The records a settled attempt needs before the terminal one are those of its search
\* and of its verification.
LEMMA EvidenceOf ==
  /\ Evidence("accepted") \ {<<"terminal", "accepted">>}
        \subseteq SearchEvidence("solved_candidate") \cup {<<"validation", "accepted">>}
  /\ Evidence("exhausted") \ {<<"terminal", "exhausted">>} \subseteq SearchEvidence("exhausted")
  <1>1. \A x : x \in Evidence("accepted") => \/ x = <<"terminal", "accepted">>
                                             \/ x \in SearchEvidence("solved_candidate")
                                             \/ x = <<"validation", "accepted">>
    BY DEF Evidence, SearchEvidence
  <1>2. \A x : x \in Evidence("exhausted") => \/ x = <<"terminal", "exhausted">>
                                              \/ x \in SearchEvidence("exhausted")
    BY DEF Evidence, SearchEvidence
  <1> QED
    BY <1>1, <1>2

\* The invariant after a step of the main thread in which attempts leave stages and
\* none enters one.
LEMMA AttemptsStay ==
  ASSUME TypeOK, ExecInv, UNCHANGED <<ledger, files, held, asked, step, reply>>,
         stop => stop', at' # "create",
         searches' \subseteq searches, Queued' \subseteq Queued, validations' \subseteq validations,
         \A b \in searches \ searches' : step[b] = "done",
         \A b \in validations \ validations' : step[b] = "done"
  PROVE  AttemptsOK' /\ Staged' \subseteq Staged
  <1>1. Staged' \subseteq Staged
    BY DEF Staged
  <1>2. ASSUME NEW b \in Attempts PROVE (Staging(b) /\ AskedOnce(b) /\ Evident(b))'
    <2>1. Staging(b) /\ AskedOnce(b) /\ Evident(b)
      BY DEF ExecInv, AttemptsOK
    <2>2. Staging(b)'
      BY <2>1 DEF Staging
    <2>3. AskedOnce(b)'
      BY <2>1 DEF AskedOnce
    <2>4. Evident(b)'
      BY <1>1, <2>1 DEF Evident, Auditable
    <2> QED
      BY <2>2, <2>3, <2>4
  <1> QED
    BY <1>1, <1>2 DEF AttemptsOK

\* What becomes of an attempt whose future is done.
LEMMA CloseOut ==
  ASSUME TypeOK, NEW a \in Attempts, NEW next \in {"validations", "searches"}, Closes(a, next),
         reply[a] \in {"accepted", "exhausted", "misclaimed", "unknown", "raised"}
  PROVE  /\ stop' \in BOOLEAN /\ (stop => stop')
         /\ \/ at' = next /\ UNCHANGED closing
            \/ /\ at' = "settle" /\ closing' \in Closings /\ closing'.attempt = a
               /\ closing'.result # "unknown" => closing'.result = reply[a]
  <1>1. CASE reply[a] = "raised"
    BY <1>1 DEF Closes, Failed
  <1>2. CASE reply[a] = "misclaimed"
    <2>1. \/ at' = next /\ stop' = TRUE /\ UNCHANGED closing
          \/ /\ at' = "settle" /\ stop' = TRUE
             /\ closing' = [attempt |-> a, result |-> "unknown", then |-> next]
      BY <1>2 DEF Closes, Settles, Failed
    <2>2. CASE at' = next /\ stop' = TRUE /\ UNCHANGED closing
      BY <2>2
    <2>3. CASE /\ at' = "settle" /\ stop' = TRUE
               /\ closing' = [attempt |-> a, result |-> "unknown", then |-> next]
      BY <2>3 DEF Closings
    <2> QED
      BY <2>1, <2>2, <2>3
  <1>3. CASE reply[a] \in {"accepted", "exhausted", "unknown"}
    <2>1. /\ at' = "settle" /\ stop' = (stop \/ reply[a] = "unknown")
          /\ closing' = [attempt |-> a, result |-> reply[a], then |-> next]
      BY <1>3 DEF Closes, Settles
    <2>2. closing' \in Closings /\ closing'.attempt = a /\ closing'.result = reply[a]
      BY <1>3, <2>1 DEF Closings
    <2>3. stop' \in BOOLEAN /\ (stop => stop')
      BY <2>1 DEF TypeOK
    <2> QED
      BY <2>1, <2>2, <2>3
  <1> QED
    BY <1>1, <1>2, <1>3

\* A verification is settled.
LEMMA ExecSettleValidations ==
  ASSUME TypeOK, ExecInv, SettleValidations
  PROVE  TypeOK' /\ ExecInv'
  <1>1. /\ UNCHANGED <<ledger, files, batch, step, reply, held, asked, late, verdict, poisoned>>
        /\ UNCHANGED <<searches, queue, Queued, Reserved>> /\ at = "validations"
    BY SameQueued DEF SettleValidations, disk, thread, Reserved
  <1>2. CASE at' = "searches" /\ todo' = searches /\ UNCHANGED <<validations, closing, stop>>
    <2>1. TypeOK'
      BY <1>1, <1>2 DEF TypeOK
    <2>2. AttemptsOK' /\ Staged' \subseteq Staged
      BY <1>1, <1>2, AttemptsStay
    <2>3. OnePlace' /\ InOrder'
      BY <1>1, <1>2, <2>2 DEF ExecInv, OnePlace, InOrder, Closing
    <2>4. Closed' /\ HeldKnown' /\ LateOnce'
      BY <1>1, <1>2 DEF ExecInv, Closed, Closing, HeldKnown, LateOnce
    <2> QED
      BY <2>1, <2>2, <2>3, <2>4 DEF ExecInv
  <1>3. ASSUME NEW a \in validations, step[a] = "done", validations' = validations \ {a},
               Closes(a, "validations"), UNCHANGED todo
        PROVE  TypeOK' /\ ExecInv'
    <2>0. a \in Attempts
      BY DEF TypeOK
    <2>1. Staging(a) /\ Evident(a) /\ a \notin searches /\ a \notin Queued /\ a \in Reserved
      BY <2>0 DEF ExecInv, AttemptsOK, OnePlace, InOrder, Staged
    <2>2. reply[a] \in {"accepted", "misclaimed", "unknown", "raised"}
      BY <1>3, <2>1 DEF Staging
    <2>3. /\ stop' \in BOOLEAN /\ (stop => stop')
          /\ \/ at' = "validations" /\ UNCHANGED closing
             \/ /\ at' = "settle" /\ closing' \in Closings /\ closing'.attempt = a
                /\ closing'.result # "unknown" => closing'.result = reply[a]
      BY <1>3, <2>0, <2>2, CloseOut
    <2>4. TypeOK'
      BY <1>1, <1>3, <2>3 DEF TypeOK, Closings
    <2>5. AttemptsOK' /\ Staged' \subseteq Staged
      BY <1>1, <1>3, <2>3, AttemptsStay
    <2>6. a \notin Staged'
      BY <1>1, <1>3, <2>1 DEF Staged
    <2>7. OnePlace' /\ InOrder'
      BY <1>1, <1>3, <2>1, <2>3, <2>5 DEF ExecInv, OnePlace, InOrder, Closing
    <2>8. Closed'
      <3>1. at' = "settle" /\ closing'.result # "unknown" =>
               /\ closing'.result = "accepted" /\ a \notin held
               /\ Evidence("accepted") \ {<<"terminal", "accepted">>} \subseteq files[a]
        <4>1. at' = "settle" /\ closing'.result # "unknown" => reply[a] = "accepted" /\ closing'.result = "accepted"
          BY <2>2, <2>3 DEF Closings
        <4>2. SearchEvidence("solved_candidate") \subseteq files[a] /\ a \notin held
          BY <2>1 DEF Evident
        <4>3. reply[a] = "accepted" => <<"validation", "accepted">> \in files[a]
          BY <1>3, <2>1 DEF Evident
        <4> QED
          BY <4>1, <4>2, <4>3, EvidenceOf
      <3> QED
        BY <1>1, <2>3, <2>6, <3>1 DEF Closed, Closing
    <2>9. HeldKnown' /\ LateOnce'
      BY <1>1, <2>3 DEF ExecInv, HeldKnown, LateOnce
    <2> QED
      BY <2>4, <2>5, <2>7, <2>8, <2>9 DEF ExecInv
  <1> QED
    BY <1>2, <1>3 DEF SettleValidations

\* A search is settled, or its candidate handed over.
LEMMA ExecVisit ==
  ASSUME TypeOK, ExecInv, VisitSearch
  PROVE  TypeOK' /\ ExecInv'
  <1>0. PICK a : a = First(Ready)
    OBVIOUS
  <1>1. /\ UNCHANGED <<ledger, files, batch, step, reply, held, asked, late, verdict, poisoned>>
        /\ UNCHANGED <<validations, Reserved>> /\ at = "searches"
        /\ searches' = searches \ {a} /\ todo' = {b \in todo : b > a}
    BY <1>0 DEF VisitSearch, disk, thread, Reserved, Leaves
  <1>2. a \in todo /\ step[a] = "done"
    <2>1. Ready \subseteq todo /\ Ready \subseteq Attempts /\ Ready # {}
      BY DEF Ready, TypeOK, VisitSearch
    <2>2. a \in Ready
      BY <1>0, <2>1, FirstOf
    <2> QED
      BY <1>0, <2>2 DEF Ready
  <1>3. \/ reply[a] = "solved_candidate" /\ queue' = Append(queue, a) /\ UNCHANGED <<at, closing, stop>>
        \/ reply[a] # "solved_candidate" /\ Closes(a, "searches") /\ UNCHANGED queue
    BY <1>0 DEF VisitSearch
  <1>4. a \in searches /\ a \in Attempts
    BY <1>2 DEF ExecInv, OnePlace, TypeOK
  <1>5. /\ Staging(a) /\ Evident(a) /\ AskedOnce(a) /\ a \notin validations /\ a \notin Queued /\ a \in Reserved
        /\ reply[a] \in {"solved_candidate", "exhausted", "unknown", "raised"}
        /\ reply[a] \in {"unknown", "raised"} => stop
        /\ reply[a] \in {"solved_candidate", "exhausted"} =>
              SearchEvidence(reply[a]) \subseteq files[a] /\ a \notin held
    BY <1>2, <1>4 DEF ExecInv, AttemptsOK, OnePlace, InOrder, Staged, Staging, Evident
  <1>6. /\ searches' \subseteq Attempts /\ todo' \subseteq Attempts /\ todo' \subseteq searches'
        /\ searches' \subseteq searches
    <2>1. \A b \in todo : b \in Int /\ b \in Attempts /\ b \in searches
      BY DEF TypeOK, ExecInv, OnePlace, Attempts
    <2>2. a \notin todo' /\ todo' \subseteq todo
      BY <1>1, <1>2, <2>1
    <2> QED
      BY <1>1, <2>1, <2>2 DEF TypeOK
  <1>7. stop => stop'
    <2>1. Closes(a, "searches") /\ reply[a] # "solved_candidate" => (stop => stop')
      BY <1>4, <1>5, CloseOut
    <2> QED
      BY <1>3, <2>1
  <1>8. HeldKnown'
    <2>1. at' \notin {"prepare", "reserve", "create", "idle"}
      BY <1>1, <1>3, <1>4, <1>5, CloseOut
    <2>2. held \subseteq searches /\ ~stop => a \notin held
      BY <1>5
    <2> QED
      BY <1>1, <1>7, <2>1, <2>2 DEF ExecInv, HeldKnown
  <1>9. CASE reply[a] = "solved_candidate" /\ queue' = Append(queue, a) /\ UNCHANGED <<at, closing, stop>>
    <2>1. /\ queue' \in Seq(Attempts) /\ Queued' = Queued \cup {a}
          /\ \A i, j \in DOMAIN queue' : queue'[i] = queue'[j] => i = j
      BY <1>4, <1>5, <1>9, QueuedMore DEF TypeOK, ExecInv
    <2>2. TypeOK'
      BY <1>1, <1>6, <1>9, <2>1 DEF TypeOK
    <2>3. Staged' = Staged
      BY <1>1, <1>4, <2>1 DEF Staged
    <2>4. OnePlace' /\ InOrder'
      BY <1>1, <1>5, <1>6, <1>9, <2>1, <2>3 DEF ExecInv, OnePlace, InOrder, Closing
    <2>5. Closed' /\ LateOnce'
      BY <1>1, <1>9 DEF ExecInv, Closed, Closing, LateOnce
    <2>6. AttemptsOK'
      <3> SUFFICES ASSUME NEW b \in Attempts PROVE (Staging(b) /\ AskedOnce(b) /\ Evident(b))'
        BY DEF AttemptsOK
      <3>1. Staging(b) /\ AskedOnce(b) /\ Evident(b)
        BY DEF ExecInv, AttemptsOK
      <3>2. CASE b # a
        <4>1. Staging(b)' /\ AskedOnce(b)'
          BY <1>1, <1>9, <2>1, <3>1, <3>2 DEF Staging, AskedOnce
        <4>2. Evident(b)'
          BY <1>1, <1>9, <2>1, <2>3, <3>1, <3>2 DEF Evident, Auditable
        <4> QED
          BY <4>1, <4>2
      <3>3. CASE b = a
        <4>1. Staging(b)' /\ AskedOnce(b)'
          BY <1>1, <1>2, <1>4, <1>5, <1>9, <2>1, <3>3 DEF Staging, AskedOnce
        <4>2. Evident(b)'
          BY <1>1, <1>2, <1>4, <1>5, <1>9, <2>1, <2>3, <3>3 DEF Evident, Auditable
        <4> QED
          BY <4>1, <4>2
      <3> QED
        BY <3>2, <3>3
    <2> QED
      BY <1>8, <2>2, <2>4, <2>5, <2>6 DEF ExecInv
  <1>10. CASE reply[a] # "solved_candidate" /\ Closes(a, "searches") /\ UNCHANGED queue
    <2>1. /\ stop' \in BOOLEAN
          /\ \/ at' = "searches" /\ UNCHANGED closing
             \/ /\ at' = "settle" /\ closing' \in Closings /\ closing'.attempt = a
                /\ closing'.result # "unknown" => closing'.result = reply[a]
      BY <1>4, <1>5, <1>10, CloseOut
    <2>2. UNCHANGED Queued
      BY <1>10, SameQueued
    <2>3. TypeOK'
      BY <1>1, <1>6, <1>10, <2>1 DEF TypeOK, Closings
    <2>4. AttemptsOK' /\ Staged' \subseteq Staged
      BY <1>1, <1>2, <1>7, <2>1, <2>2, AttemptsStay
    <2>5. a \notin Staged'
      BY <1>1, <1>5, <2>2 DEF Staged
    <2>6. OnePlace' /\ InOrder'
      BY <1>1, <1>5, <1>6, <1>10, <2>1, <2>2, <2>4 DEF ExecInv, OnePlace, InOrder, Closing
    <2>7. Closed'
      <3>1. at' = "settle" /\ closing'.result # "unknown" =>
               /\ closing'.result = "exhausted" /\ a \notin held
               /\ Evidence("exhausted") \ {<<"terminal", "exhausted">>} \subseteq files[a]
        <4>1. at' = "settle" /\ closing'.result # "unknown" => reply[a] = "exhausted" /\ closing'.result = "exhausted"
          BY <1>5, <1>10, <2>1 DEF Closings
        <4> QED
          BY <1>5, <4>1, EvidenceOf
      <3> QED
        BY <1>1, <2>1, <2>5, <3>1 DEF Closed, Closing
    <2>8. LateOnce'
      BY <1>1, <1>7, <2>1 DEF ExecInv, LateOnce
    <2> QED
      BY <1>8, <2>3, <2>4, <2>6, <2>7, <2>8 DEF ExecInv
  <1> QED
    BY <1>3, <1>9, <1>10

\* The verifier takes the head of the queue, and the pass goes on to dispatch.
LEMMA ExecStartVerifier ==
  ASSUME TypeOK, ExecInv, StartVerifier
  PROVE  TypeOK' /\ ExecInv'
  <1>1. /\ UNCHANGED <<ledger, files, batch, reply, held, asked, late, verdict, stop, poisoned>>
        /\ UNCHANGED <<searches, closing, Reserved>> /\ at = "searches" /\ at' = "dispatch" /\ todo' = {}
    BY DEF StartVerifier, disk, Reserved
  <1>2. HeldKnown' /\ LateOnce' /\ Closed'
    BY <1>1 DEF ExecInv, HeldKnown, LateOnce, Closed, Closing
  <1>3. CASE UNCHANGED <<queue, validations, step>>
    <2>1. TypeOK'
      BY <1>1, <1>3 DEF TypeOK
    <2>2. AttemptsOK' /\ Staged' \subseteq Staged /\ Queued' = Queued
      BY <1>1, <1>3, AttemptsStay, SameQueued
    <2>3. OnePlace' /\ InOrder'
      BY <1>1, <1>3, <2>2 DEF ExecInv, OnePlace, InOrder, Closing
    <2> QED
      BY <1>2, <2>1, <2>2, <2>3 DEF ExecInv
  <1>4. ASSUME queue # <<>>, validations = {}, queue' = Tail(queue), validations' = {Head(queue)},
               Goes(Head(queue), "verify")
        PROVE  TypeOK' /\ ExecInv'
    <2>0. PICK a : a = Head(queue)
      OBVIOUS
    <2>1. /\ queue' \in Seq(Attempts) /\ a \in Queued /\ a \in Attempts
          /\ Queued' = Queued \ {a}
          /\ \A i, j \in DOMAIN queue' : queue'[i] = queue'[j] => i = j
      BY <1>4, <2>0, QueuedLess DEF TypeOK, ExecInv
    <2>2. validations' = {a} /\ step' = [step EXCEPT ![a] = "verify"]
      BY <1>4, <2>0 DEF Goes
    <2>3. TypeOK'
      BY <1>1, <2>1, <2>2 DEF TypeOK
    <2>4. Staged' = Staged
      BY <1>1, <1>4, <2>1, <2>2 DEF Staged
    <2>5. OnePlace' /\ InOrder'
      BY <1>1, <2>1, <2>2, <2>4 DEF ExecInv, OnePlace, InOrder, Closing
    <2>6. AttemptsOK'
      <3> SUFFICES ASSUME NEW b \in Attempts PROVE (Staging(b) /\ AskedOnce(b) /\ Evident(b))'
        BY DEF AttemptsOK
      <3>1. Staging(b) /\ AskedOnce(b) /\ Evident(b)
        BY DEF ExecInv, AttemptsOK
      <3>2. CASE b # a
        <4>0. step'[b] = step[b] /\ (b \in Queued' <=> b \in Queued) /\ b \notin validations /\ b \notin validations'
          BY <1>4, <2>1, <2>2, <3>2 DEF TypeOK
        <4>1. Staging(b)'
          BY <1>1, <3>1, <4>0 DEF Staging
        <4>2. AskedOnce(b)'
          BY <1>1, <3>1, <4>0 DEF AskedOnce
        <4>3. Evident(b)'
          BY <1>1, <2>4, <3>1, <4>0 DEF Evident, Auditable
        <4> QED
          BY <4>1, <4>2, <4>3
      <3>3. CASE b = a
        <4>0. /\ step'[b] = "verify" /\ b \in Queued /\ b \notin Queued' /\ b \in validations'
              /\ b \notin searches
          BY <2>1, <2>2, <3>3 DEF TypeOK, ExecInv, OnePlace
        <4>1. Staging(b)'
          BY <1>1, <4>0 DEF Staging
        <4>2. AskedOnce(b)'
          BY <1>1, <3>1, <4>0 DEF AskedOnce
        <4>3. Evident(b)'
          BY <1>1, <2>4, <3>1, <4>0 DEF Evident, Auditable
        <4> QED
          BY <4>1, <4>2, <4>3
      <3> QED
        BY <3>2, <3>3
    <2> QED
      BY <1>2, <2>3, <2>5, <2>6 DEF ExecInv
  <1> QED
    BY <1>3, <1>4 DEF StartVerifier, VerifierFree

\* The terminal record of the attempt being settled is written, or that fails.
LEMMA ExecSettleWrite ==
  ASSUME TypeOK, ExecInv, SettleWrite
  PROVE  TypeOK' /\ ExecInv'
  <1>1. /\ UNCHANGED <<ledger, batch, step, reply, held, asked, late, verdict, poisoned>>
        /\ UNCHANGED <<searches, queue, validations, todo, Queued, Staged, Reserved>> /\ at = "settle"
    BY SameQueued DEF SettleWrite, thread, stages, Reserved, Staged
  <1>0. PICK a, result : a = closing.attempt /\ result = closing.result
    OBVIOUS
  <1>2. /\ closing \in Closings /\ a \in Attempts /\ a \notin Staged /\ a \in Reserved
        /\ result \in {"accepted", "exhausted", "unknown"}
        /\ closing.then \in {"validations", "searches", "abort"}
    BY <1>0, <1>1 DEF ExecInv, Closed, Closing, InOrder, Closings
  <1> DEFINE recs == <<<<"terminal", result>>>>
  <1>3. recs \in Seq(Sayings) /\ Len(recs) = 1 /\ recs[1] = <<"terminal", result>>
    BY <1>2 DEF Sayings, Says, Results
  <1>4. Writes(a, recs) \/ WriteRaises(a, recs)
    BY <1>0 DEF SettleWrite, TerminalSaved
  <1>5. \/ Writes(a, recs) /\ at' = "record" /\ UNCHANGED <<closing, stop>>
        \/ stop' = TRUE /\ at' = closing.then /\ closing' = None
    BY <1>0 DEF SettleWrite, TerminalSaved, Failed
  <1> HIDE DEF recs
  <1>6. files \in [Attempts -> SUBSET Sayings]
    BY DEF TypeOK, Sayings
  <1>7. /\ files' \in [Attempts -> SUBSET Sayings] /\ files[a] \subseteq files'[a]
        /\ \A b \in Attempts : b # a => files'[b] = files[b]
        /\ Writes(a, recs) => \A i \in 1..Len(recs) : recs[i] \in files'[a]
    BY <1>2, <1>3, <1>4, <1>6, ExecWritten
  <1>8. TypeOK'
    BY <1>1, <1>2, <1>5, <1>7 DEF TypeOK, Sayings
  <1>9. \A b \in Attempts : files[b] \subseteq files'[b]
    BY <1>7
  <1>10. OnePlace' /\ InOrder' /\ LateOnce' /\ HeldKnown'
    BY <1>1, <1>2, <1>5 DEF ExecInv, OnePlace, InOrder, Closing, LateOnce, HeldKnown
  <1>11. AttemptsOK'
    <2> SUFFICES ASSUME NEW b \in Attempts PROVE (Staging(b) /\ AskedOnce(b) /\ Evident(b))'
      BY DEF AttemptsOK
    <2>1. Staging(b) /\ AskedOnce(b) /\ Evident(b)
      BY DEF ExecInv, AttemptsOK
    <2>2. Staging(b)'
      BY <1>1, <1>5, <2>1 DEF Staging
    <2>3. AskedOnce(b)'
      BY <1>1, <1>2, <1>5, <2>1 DEF AskedOnce
    <2>4. Evident(b)'
      BY <1>1, <1>9, <2>1 DEF Evident, Auditable
    <2> QED
      BY <2>2, <2>3, <2>4
  <1>12. Closed'
    <2>1. CASE stop' = TRUE /\ at' = closing.then /\ closing' = None
      BY <1>2, <2>1 DEF Closed, Closing
    <2>2. CASE Writes(a, recs) /\ at' = "record" /\ UNCHANGED <<closing, stop>>
      <3>1. <<"terminal", result>> \in files'[a]
        <4>1. recs[1] \in files'[a]
          BY <1>3, <1>7, <2>2
        <4> QED
          BY <1>3, <4>1, Zenon
      <3>2. result # "unknown" =>
               a \notin held /\ Evidence(result) \ {<<"terminal", result>>} \subseteq files[a]
        BY <1>0, <1>1 DEF ExecInv, Closed, Closing
      <3>3. result # "unknown" => Evidence(result) \subseteq files'[a]
        BY <1>7, <3>1, <3>2
      <3> QED
        BY <1>0, <1>1, <1>2, <2>2, <3>2, <3>3 DEF Closed, Closing
    <2> QED
      BY <1>5, <2>1, <2>2
  <1> QED
    BY <1>8, <1>10, <1>11, <1>12 DEF ExecInv

\* The result is recorded, or not: the attempt leaves the main thread.
LEMMA ExecSettleRecord ==
  ASSUME TypeOK, ExecInv, SettleRecord
  PROVE  TypeOK' /\ ExecInv'
  <1>1. /\ UNCHANGED <<files, batch, held, asked, late, verdict>>
        /\ UNCHANGED <<searches, queue, validations, todo, Queued, Staged>> /\ at = "record"
        /\ closing' = None
    BY SameQueued DEF SettleRecord, stages, Staged
  <1>0. PICK a, result : a = closing.attempt /\ result = closing.result
    OBVIOUS
  <1>2. /\ closing \in Closings /\ a \in Attempts /\ a \notin Staged /\ a \in Reserved
        /\ result \in {"accepted", "exhausted", "unknown"}
        /\ at' \in {"validations", "searches", "abort"}
        /\ result # "unknown" => a \notin held /\ Evidence(result) \subseteq files[a]
    BY <1>0, <1>1 DEF ExecInv, Closed, Closing, InOrder, Closings, SettleRecord
  <1>3. ledger' = [ledger EXCEPT ![a] = result] \/ UNCHANGED ledger
    BY <1>0 DEF SettleRecord
  <1>4. /\ step' = [step EXCEPT ![a] = "idle"] /\ reply' = [reply EXCEPT ![a] = None]
        /\ UNCHANGED <<poisoned, stop>> \/ (poisoned' = TRUE /\ stop' = TRUE)
    BY <1>0 DEF SettleRecord, Goes, Returned
  <1>5. TypeOK'
    BY <1>1, <1>2, <1>3, <1>4 DEF TypeOK
  <1>6. Reserved' = Reserved
    BY <1>2, <1>3 DEF Reserved, TypeOK
  <1>7. OnePlace' /\ InOrder' /\ LateOnce' /\ HeldKnown' /\ Closed'
    BY <1>1, <1>2, <1>4, <1>6 DEF ExecInv, OnePlace, InOrder, Closing, LateOnce, HeldKnown,
       Closed
  <1>8. AttemptsOK'
    <2> SUFFICES ASSUME NEW b \in Attempts PROVE (Staging(b) /\ AskedOnce(b) /\ Evident(b))'
      BY DEF AttemptsOK
    <2>1. Staging(b) /\ AskedOnce(b) /\ Evident(b)
      BY DEF ExecInv, AttemptsOK
    <2>2. CASE b # a
      <3>0. step'[b] = step[b] /\ reply'[b] = reply[b] /\ ledger'[b] = ledger[b]
        BY <1>2, <1>3, <1>4, <2>2 DEF TypeOK
      <3>1. Staging(b)'
        BY <1>1, <1>4, <2>1, <3>0 DEF Staging
      <3>2. AskedOnce(b)'
        BY <1>1, <1>2, <2>1, <3>0 DEF AskedOnce
      <3>3. Evident(b)'
        BY <1>1, <2>1, <3>0 DEF Evident, Auditable
      <3> QED
        BY <3>1, <3>2, <3>3
    <2>3. CASE b = a
      <3>0. /\ step'[b] = "idle" /\ ledger'[b] \in {ledger[b], result} /\ b \notin Staged
            /\ b \notin searches /\ b \notin Queued /\ b \notin validations
        BY <1>2, <1>3, <1>4, <2>3 DEF TypeOK, Staged
      <3>1. Staging(b)'
        BY <1>1, <3>0 DEF Staging
      <3>2. AskedOnce(b)'
        <4>1. ledger'[b] # "free" /\ at' # "create"
          BY <1>2, <2>3, <3>0 DEF Reserved
        <4> QED
          BY <1>1, <2>1, <3>0, <4>1 DEF AskedOnce
      <3>3. Evident(b)'
        <4>1. CASE ledger'[b] = ledger[b]
          BY <1>1, <2>1, <3>0, <4>1 DEF Evident, Auditable
        <4>2. CASE ledger'[b] = result
          BY <1>1, <1>2, <2>3, <3>0, <4>2 DEF Evident, Auditable
        <4> QED
          BY <3>0, <4>1, <4>2
      <3> QED
        BY <3>1, <3>2, <3>3
    <2> QED
      BY <2>2, <2>3
  <1> QED
    BY <1>5, <1>7, <1>8 DEF ExecInv

\* The main thread goes from one place of the dispatch loop to another.
LEMMA OnlyMoves ==
  ASSUME TypeOK, ExecInv,
         UNCHANGED <<ledger, files, held, step, reply, asked, late, poisoned, searches, queue,
                     validations, todo, closing>>,
         batch' \in {"absent", "broken", "ready", "aborted"},
         verdict' \in {None, "completed", "blocked", "died"},
         stop' \in BOOLEAN, stop => stop',
         at \in {"dispatch", "prepare", "abort"},
         \/ at' \in {"idle", "validations", "abort"}
         \/ at' = "prepare" /\ ~stop /\ MayDispatch /\ Sequence <= MaxAttempts
         \/ at' = "reserve" /\ at = "prepare" /\ ~stop
  PROVE  TypeOK' /\ ExecInv'
  <1>1. UNCHANGED <<Queued, Staged, Reserved>>
    BY SameQueued DEF Staged, Reserved
  <1>2. TypeOK'
    BY DEF TypeOK
  <1>3. AttemptsOK' /\ OnePlace' /\ Closed'
    BY <1>1, AttemptsStay DEF ExecInv, OnePlace, Closed, Closing
  <1>4. IsFiniteSet(Reserved) /\ Cardinality(Reserved) \in Nat
    <2>1. IsFiniteSet(Attempts) /\ Reserved \subseteq Attempts
      BY FS_Interval, BatchAssumption DEF Attempts, Reserved
    <2>2. IsFiniteSet(Reserved)
      BY <2>1, FS_Subset
    <2> QED
      BY <2>2, FS_CardinalityType
  <1>5. at' \in {"prepare", "reserve"} =>
           /\ Cardinality(Reserved) < MaxAttempts
           /\ ~stop /\ held \subseteq searches /\ Cardinality(searches) < SearchWorkers
    <2>1. at' = "prepare" =>
             Cardinality(Reserved) < MaxAttempts /\ ~stop /\ Cardinality(searches) < SearchWorkers
      BY <1>4, BatchAssumption DEF Sequence, MayDispatch
    <2>2. at' \in {"prepare", "reserve"} => at # "idle" /\ ~stop
      OBVIOUS
    <2> QED
      BY <2>1, <2>2 DEF ExecInv, HeldKnown, InOrder
  <1>6. InOrder' /\ HeldKnown' /\ LateOnce'
    BY <1>1, <1>5 DEF ExecInv, InOrder, HeldKnown, LateOnce, Closing
  <1> QED
    BY <1>2, <1>3, <1>6 DEF ExecInv

\* A proposal is made and its source prepared, or the dispatch ends here.
LEMMA ExecDispatch ==
  ASSUME TypeOK, ExecInv, DispatchEnds \/ PlanAttempt \/ Prepare \/ Abort
  PROVE  TypeOK' /\ ExecInv'
  <1>1. ASSUME PassEnds
        PROVE  at' \in {"idle", "validations"} /\ verdict' \in {None, "completed", "blocked", "died"}
    BY <1>1 DEF PassEnds, TypeOK
  <1>2. /\ UNCHANGED <<ledger, files, held, step, reply, asked, late, poisoned, searches, queue>>
        /\ UNCHANGED <<validations, todo, closing>>
        /\ at \in {"dispatch", "prepare", "abort"}
        /\ batch' \in {"absent", "broken", "ready", "aborted"}
    BY DEF DispatchEnds, PlanAttempt, Prepare, Abort, disk, thread, stages, TypeOK
  <1>3. stop' \in BOOLEAN /\ (stop => stop')
    BY DEF DispatchEnds, PlanAttempt, Prepare, Abort, Failed, TypeOK
  <1>4. verdict' \in {None, "completed", "blocked", "died"}
    BY <1>1 DEF DispatchEnds, PlanAttempt, Prepare, Abort, TypeOK
  <1>5. \/ at' \in {"idle", "validations", "abort"}
        \/ at' = "prepare" /\ ~stop /\ MayDispatch /\ Sequence <= MaxAttempts
        \/ at' = "reserve" /\ at = "prepare" /\ ~stop
    BY <1>1 DEF DispatchEnds, PlanAttempt, Prepare, Abort, Failed, MayDispatch
  <1> QED
    BY <1>2, <1>3, <1>4, <1>5, OnlyMoves

\* What the scheduler gives out next is free, and then the last of those reserved.
LEMMA NextAttempt ==
  ASSUME TypeOK, ExecInv, Cardinality(Reserved) < MaxAttempts,
         NEW s, s = Sequence
  PROVE  /\ s \in Attempts /\ s \notin Reserved /\ ledger[s] = "free"
         /\ ledger' = [ledger EXCEPT ![s] = "pending"] =>
               Reserved' = Reserved \cup {s} /\ Reserved' = 1..Cardinality(Reserved')
  <1>1. IsFiniteSet(Reserved) /\ Cardinality(Reserved) \in Nat
    <2>1. IsFiniteSet(Attempts) /\ Reserved \subseteq Attempts
      BY FS_Interval, BatchAssumption DEF Attempts, Reserved
    <2>2. IsFiniteSet(Reserved)
      BY <2>1, FS_Subset
    <2> QED
      BY <2>2, FS_CardinalityType
  <1>2. PICK n : n = Cardinality(Reserved)
    OBVIOUS
  <1>3. n \in Nat /\ s = n + 1 /\ n < MaxAttempts /\ Reserved = 1..n
    BY <1>1, <1>2 DEF Sequence, ExecInv, InOrder
  <1>4. s \in Attempts /\ s \notin Reserved /\ ledger[s] = "free"
    <2>1. s \in Attempts /\ s \notin Reserved
      BY <1>3, BatchAssumption DEF Attempts
    <2> QED
      BY <2>1 DEF Reserved
  <1>5. ASSUME ledger' = [ledger EXCEPT ![s] = "pending"]
        PROVE  Reserved' = Reserved \cup {s} /\ Reserved' = 1..Cardinality(Reserved')
    <2>1. Reserved' = Reserved \cup {s}
      BY <1>4, <1>5 DEF Reserved, TypeOK
    <2>2. Cardinality(Reserved') = n + 1
      BY <1>1, <1>2, <1>4, <2>1, FS_AddElement
    <2>3. Reserved' = 1..(n + 1)
      BY <1>3, <2>1
    <2> QED
      BY <2>1, <2>2, <2>3
  <1> QED
    BY <1>4, <1>5

\* The next attempt is reserved, or may be.
LEMMA ExecReserve ==
  ASSUME TypeOK, ExecInv, Reserve
  PROVE  TypeOK' /\ ExecInv'
  <1>0. PICK s : s = Sequence
    OBVIOUS
  <1>1. /\ UNCHANGED <<files, batch, held, step, reply, asked, verdict>> /\ at = "reserve"
        /\ UNCHANGED <<searches, queue, validations, todo, Queued, Staged>>
        /\ late' = IF stop \/ OutcomeUnknown THEN late + 1 ELSE late
    BY SameQueued DEF Reserve, thread, stages, Staged
  <1>2. \/ /\ ledger' = [ledger EXCEPT ![s] = "pending"] /\ at' = "create"
           /\ closing' = [attempt |-> s, result |-> "unknown", then |-> "abort"]
           /\ UNCHANGED <<poisoned, stop>>
        \/ /\ ledger' = [ledger EXCEPT ![s] = "pending"] \/ UNCHANGED ledger
           /\ at' = "abort" /\ stop' = TRUE /\ poisoned' = TRUE /\ UNCHANGED closing
    BY <1>0 DEF Reserve, Failed
  <1>3. /\ s \in Attempts /\ s \notin Reserved /\ ledger[s] = "free" /\ s \notin Staged
        /\ ledger' = [ledger EXCEPT ![s] = "pending"] =>
              Reserved' = Reserved \cup {s} /\ Reserved' = 1..Cardinality(Reserved')
    <2>1. Cardinality(Reserved) < MaxAttempts /\ Staged \subseteq Reserved
      BY <1>1 DEF ExecInv, InOrder
    <2> QED
      BY <1>0, <2>1, NextAttempt
  <1>4. UNCHANGED ledger => UNCHANGED Reserved
    BY DEF Reserved
  <1>5. /\ late' \in Nat /\ late' <= 1 /\ (late' = 1 => stop')
        /\ stop' \in BOOLEAN /\ (stop => stop')
    <2>1. OutcomeUnknown => stop
      BY DEF OutcomeUnknown, ExecInv, AttemptsOK, Staging
    <2>2. late \in Nat /\ late <= 1 /\ late # 1
      BY <1>1 DEF ExecInv, LateOnce, TypeOK
    <2>3. stop' \in BOOLEAN /\ (stop => stop')
      BY <1>2 DEF TypeOK
    <2> QED
      BY <1>1, <2>1, <2>2, <2>3
  <1>6. TypeOK'
    <2>1. closing' \in Closings \/ UNCHANGED closing
      BY <1>2, <1>3 DEF Closings
    <2>2. ledger' \in [Attempts -> {"free", "pending", "accepted", "exhausted", "unknown"}]
      BY <1>2, <1>3 DEF TypeOK
    <2>3. at' \in {"create", "abort"} /\ poisoned' \in BOOLEAN
      BY <1>2 DEF TypeOK
    <2> QED
      BY <1>1, <1>5, <2>1, <2>2, <2>3 DEF TypeOK, Closings
  <1>7. OnePlace'
    BY <1>1 DEF ExecInv, OnePlace
  <1>8. InOrder'
    <2>1. Reserved \subseteq Reserved' /\ Reserved' = 1..Cardinality(Reserved')
      BY <1>2, <1>3, <1>4 DEF ExecInv, InOrder
    <2>2. CASE at' = "create"
      BY <1>1, <1>2, <1>3, <2>1, <2>2 DEF ExecInv, InOrder
    <2>3. CASE at' = "abort"
      BY <1>1, <2>1, <2>3 DEF ExecInv, InOrder, Closing
    <2> QED
      BY <1>2, <2>2, <2>3
  <1>9. Closed'
    <2>1. CASE at' = "create"
      <3>1. /\ closing' = [attempt |-> s, result |-> "unknown", then |-> "abort"]
            /\ ledger' = [ledger EXCEPT ![s] = "pending"]
        BY <1>2, <2>1
      <3>2. closing' \in Closings /\ ledger'[s] = "pending"
        BY <1>3, <3>1 DEF Closings, TypeOK
      <3> QED
        BY <1>1, <1>3, <2>1, <3>1, <3>2 DEF Closed, Closing
    <2>2. CASE at' = "abort"
      BY <2>2 DEF Closed, Closing
    <2> QED
      BY <1>2, <2>1, <2>2
  <1>10. HeldKnown' /\ LateOnce'
    BY <1>1, <1>2, <1>5 DEF ExecInv, HeldKnown, LateOnce
  <1>11. AttemptsOK'
    <2> SUFFICES ASSUME NEW b \in Attempts PROVE (Staging(b) /\ AskedOnce(b) /\ Evident(b))'
      BY DEF AttemptsOK
    <2>1. Staging(b) /\ AskedOnce(b) /\ Evident(b)
      BY DEF ExecInv, AttemptsOK
    <2>2. Staging(b)'
      BY <1>1, <1>5, <2>1 DEF Staging
    <2>3. CASE b # s
      <3>0. ledger'[b] = ledger[b] /\ (at' = "create" => closing'.attempt # b)
        BY <1>2, <1>3, <2>3 DEF TypeOK
      <3>1. AskedOnce(b)'
        BY <1>1, <2>1, <3>0 DEF AskedOnce
      <3>2. Evident(b)'
        BY <1>1, <2>1, <3>0 DEF Evident, Auditable
      <3> QED
        BY <2>2, <3>1, <3>2
    <2>4. CASE b = s
      <3>0. ledger'[b] \in {"free", "pending"} /\ ledger[b] = "free"
        BY <1>2, <1>3, <2>4 DEF TypeOK
      <3>1. AskedOnce(b)'
        BY <1>1, <2>1, <3>0 DEF AskedOnce
      <3>2. Evident(b)'
        BY <1>1, <2>1, <3>0 DEF Evident, Auditable
      <3> QED
        BY <2>2, <3>1, <3>2
    <2> QED
      BY <2>3, <2>4
  <1> QED
    BY <1>6, <1>7, <1>8, <1>9, <1>10, <1>11 DEF ExecInv

\* The search is submitted: the session takes the slot that was there for it.
LEMMA ExecSubmit ==
  ASSUME TypeOK, ExecInv, Submit
  PROVE  TypeOK' /\ ExecInv'
  <1>0. PICK a : a = closing.attempt
    OBVIOUS
  <1> DEFINE recs == <<<<"intent", "reserved">>>>
  <1>1. /\ UNCHANGED <<ledger, batch, reply, asked, late, verdict, stop, poisoned>>
        /\ UNCHANGED <<queue, validations, todo, Queued, Reserved>>
        /\ at = "create" /\ at' = "dispatch" /\ closing' = None
        /\ Writes(a, recs) /\ searches' = searches \cup {a} /\ held' = held \cup {a}
        /\ step' = [step EXCEPT ![a] = "search"]
    BY <1>0, SameQueued DEF Submit, Goes, Reserved
  <1>2. recs \in Seq(Sayings) /\ Len(recs) = 1 /\ recs[1] = <<"intent", "reserved">>
    BY DEF Sayings, Says
  <1> HIDE DEF recs
  <1>3. /\ a \in Attempts /\ a \notin Staged /\ a \in Reserved /\ ledger[a] = "pending"
        /\ a \notin searches /\ a \notin Queued /\ a \notin validations
    BY <1>0, <1>1 DEF ExecInv, Closed, Closing, InOrder, Closings, Staged
  <1>4. files \in [Attempts -> SUBSET Sayings]
    BY DEF TypeOK, Sayings
  <1>5. /\ files' \in [Attempts -> SUBSET Sayings] /\ files[a] \subseteq files'[a]
        /\ \A b \in Attempts : b # a => files'[b] = files[b]
        /\ \A i \in 1..Len(recs) : recs[i] \in files'[a]
    BY <1>1, <1>2, <1>3, <1>4, ExecWritten
  <1>6. <<"intent", "reserved">> \in files'[a]
    <2>1. recs[1] \in files'[a]
      BY <1>2, <1>5
    <2> QED
      BY <1>2, <2>1, Zenon
  <1>7. TypeOK'
    BY <1>1, <1>3, <1>5 DEF TypeOK, Sayings
  <1>8. Staged' = Staged \cup {a}
    BY <1>1 DEF Staged
  <1>9. OnePlace' /\ InOrder' /\ Closed' /\ LateOnce'
    BY <1>1, <1>3, <1>8 DEF ExecInv, OnePlace, InOrder, Closing, Closed, LateOnce
  <1>10. HeldKnown'
    <2>1. held \subseteq searches /\ Cardinality(searches) < SearchWorkers
      BY <1>1 DEF ExecInv, HeldKnown
    <2>2. IsFiniteSet(Attempts)
      BY FS_Interval, BatchAssumption DEF Attempts
    <2>3. IsFiniteSet(searches)
      BY <2>2, FS_Subset DEF TypeOK
    <2>4. Cardinality(searches') = Cardinality(searches) + 1 /\ IsFiniteSet(searches')
      BY <1>1, <1>3, <2>3, FS_AddElement
    <2>5. Cardinality(searches) \in Nat
      BY <2>3, FS_CardinalityType
    <2>6. held' \subseteq searches'
      BY <1>1, <2>1
    <2>7. Cardinality(held') <= Cardinality(searches') /\ IsFiniteSet(held')
      BY <2>4, <2>6, FS_Subset
    <2>8. Cardinality(held') \in Nat
      BY <2>7, FS_CardinalityType
    <2>9. Cardinality(held') <= SearchWorkers
      BY <2>1, <2>4, <2>5, <2>7, <2>8, BatchAssumption
    <2> QED
      BY <1>1, <2>6, <2>9 DEF HeldKnown
  <1>11. AttemptsOK'
    <2> SUFFICES ASSUME NEW b \in Attempts PROVE (Staging(b) /\ AskedOnce(b) /\ Evident(b))'
      BY DEF AttemptsOK
    <2>1. Staging(b) /\ AskedOnce(b) /\ Evident(b)
      BY DEF ExecInv, AttemptsOK
    <2>2. CASE b # a
      <3>0. /\ step'[b] = step[b] /\ files'[b] = files[b] /\ (b \in Staged' <=> b \in Staged)
            /\ (b \in held' <=> b \in held) /\ (b \in searches' <=> b \in searches)
        BY <1>1, <1>3, <1>5, <1>8, <2>2 DEF TypeOK
      <3>1. Staging(b)'
        BY <1>1, <2>1, <3>0 DEF Staging
      <3>2. AskedOnce(b)'
        BY <1>1, <2>1, <3>0 DEF AskedOnce
      <3>3. Evident(b)'
        BY <1>1, <2>1, <3>0 DEF Evident, Auditable
      <3> QED
        BY <3>1, <3>2, <3>3
    <2>3. CASE b = a
      <3>0. step'[b] = "search" /\ b \in searches' /\ b \notin Queued' /\ b \notin validations'
        BY <1>1, <1>3, <2>3 DEF TypeOK
      <3>1. Staging(b)'
        BY <3>0 DEF Staging
      <3>2. AskedOnce(b)'
        <4>1. asked[b].search = 0 /\ asked[b].retire = 0 /\ asked[b].verify = 0
          BY <1>0, <1>1, <2>1, <2>3 DEF AskedOnce
        <4> QED
          BY <1>1, <1>3, <2>3, <3>0, <4>1 DEF AskedOnce
      <3>3. Evident(b)'
        BY <1>1, <1>3, <1>6, <2>3, <3>0 DEF Evident
      <3> QED
        BY <3>1, <3>2, <3>3
    <2> QED
      BY <2>2, <2>3
  <1> QED
    BY <1>7, <1>9, <1>10, <1>11 DEF ExecInv

\* The records of a new attempt cannot be written: the attempt is settled as unknown.
LEMMA ExecSubmitFails ==
  ASSUME TypeOK, ExecInv, SubmitFails
  PROVE  TypeOK' /\ ExecInv'
  <1>0. PICK a : a = closing.attempt
    OBVIOUS
  <1> DEFINE recs == <<<<"intent", "reserved">>>>
  <1>1. /\ UNCHANGED <<ledger, batch, step, reply, held, asked, late, verdict, poisoned>>
        /\ UNCHANGED <<searches, queue, validations, todo, Queued, Staged, Reserved>>
        /\ at = "create" /\ stop' = TRUE /\ WriteRaises(a, recs)
        /\ (at' = "settle" /\ UNCHANGED closing) \/ (at' = "abort" /\ closing' = None)
    BY <1>0, SameQueued DEF SubmitFails, thread, stages, Reserved, Staged
  <1>2. recs \in Seq(Sayings)
    BY DEF Sayings, Says
  <1> HIDE DEF recs
  <1>3. a \in Attempts /\ closing.result = "unknown" /\ closing \in Closings
    BY <1>0, <1>1 DEF ExecInv, Closed, Closing, Closings
  <1>4. files \in [Attempts -> SUBSET Sayings]
    BY DEF TypeOK, Sayings
  <1>5. /\ files' \in [Attempts -> SUBSET Sayings] /\ files[a] \subseteq files'[a]
        /\ \A b \in Attempts : b # a => files'[b] = files[b]
    BY <1>1, <1>2, <1>3, <1>4, ExecWritten
  <1>6. \A b \in Attempts : files[b] \subseteq files'[b]
    BY <1>5
  <1>7. TypeOK'
    BY <1>1, <1>5 DEF TypeOK, Sayings
  <1>8. OnePlace' /\ InOrder' /\ LateOnce' /\ HeldKnown' /\ Closed'
    BY <1>1, <1>3 DEF ExecInv, OnePlace, InOrder, Closing, LateOnce, HeldKnown, Closed
  <1>9. AttemptsOK'
    <2> SUFFICES ASSUME NEW b \in Attempts PROVE (Staging(b) /\ AskedOnce(b) /\ Evident(b))'
      BY DEF AttemptsOK
    <2>1. Staging(b) /\ AskedOnce(b) /\ Evident(b)
      BY DEF ExecInv, AttemptsOK
    <2>2. Staging(b)'
      BY <1>1, <2>1 DEF Staging
    <2>3. AskedOnce(b)'
      BY <1>1, <2>1 DEF AskedOnce
    <2>4. Evident(b)'
      BY <1>1, <1>6, <2>1 DEF Evident, Auditable
    <2> QED
      BY <2>2, <2>3, <2>4
  <1> QED
    BY <1>7, <1>8, <1>9 DEF ExecInv

\* A start finds the GPU without a session, and a death leaves only what is on disk.
LEMMA ExecFresh ==
  ASSUME TypeOK, ExecInv, Fresh, UNCHANGED <<ledger, files, held, asked>>,
         batch' \in {"absent", "broken", "ready", "aborted"},
         verdict' \in {None, "completed", "blocked", "died"}, poisoned' \in BOOLEAN,
         at' = "idle" \/ (at' = "validations" /\ held = {})
  PROVE  TypeOK' /\ ExecInv'
  <1>1. /\ stop' = FALSE /\ searches' = {} /\ queue' = <<>> /\ validations' = {} /\ todo' = {}
        /\ closing' = None /\ late' = 0
        /\ step' = [b \in Attempts |-> "idle"] /\ reply' = [b \in Attempts |-> None]
    BY DEF Fresh
  <1>2. Queued' = {} /\ Staged' = {} /\ Reserved' = Reserved /\ ~ Closing'
    BY <1>1 DEF Queued, Staged, Reserved, Closing
  <1>3. TypeOK'
    <2>1. /\ step' \in [Attempts -> {"idle", "search", "retire", "verify", "diagnose", "done"}]
          /\ reply' \in [Attempts -> Results \cup {None}]
      BY <1>1
    <2>2. queue' \in Seq(Attempts) /\ searches' \subseteq Attempts /\ validations' \subseteq Attempts
          /\ todo' \subseteq Attempts /\ stop' \in BOOLEAN /\ late' \in Nat
      BY <1>1, EmptySeq
    <2> QED
      BY <1>1, <2>1, <2>2 DEF TypeOK
  <1>4. OnePlace' /\ InOrder' /\ Closed' /\ LateOnce' /\ HeldKnown'
    BY <1>1, <1>2 DEF ExecInv, OnePlace, InOrder, Closed, LateOnce, HeldKnown
  <1>5. AttemptsOK'
    <2> SUFFICES ASSUME NEW b \in Attempts PROVE (Staging(b) /\ AskedOnce(b) /\ Evident(b))'
      BY DEF AttemptsOK
    <2>1. Staging(b) /\ AskedOnce(b) /\ Evident(b)
      BY DEF ExecInv, AttemptsOK
    <2>2. step'[b] = "idle"
      BY <1>1
    <2>3. Staging(b)'
      BY <1>1, <1>2, <2>2 DEF Staging
    <2>4. AskedOnce(b)'
      BY <1>1, <1>2, <2>1, <2>2 DEF AskedOnce
    <2>5. Evident(b)'
      BY <1>1, <1>2, <2>1, <2>2 DEF Evident, Auditable
    <2> QED
      BY <2>3, <2>4, <2>5
  <1> QED
    BY <1>3, <1>4, <1>5 DEF ExecInv

\* A run starts, cannot start, or dies.
LEMMA ExecRuns ==
  ASSUME TypeOK, ExecInv, Start \/ CreateFails \/ Crash
  PROVE  TypeOK' /\ ExecInv'
  <1>1. CASE Start
    <2>1. held = {}
      <3>1. ASSUME NEW b \in held PROVE FALSE
        <4>1. b \in Attempts /\ Evident(b)
          BY DEF TypeOK, ExecInv, AttemptsOK
        <4> QED
          BY <1>1, <4>1 DEF Evident, Start, Startable, Pending, Blocked
      <3> QED
        BY <3>1
    <2> QED
      BY <1>1, <2>1, ExecFresh DEF Start, TypeOK
  <1>2. CASE Crash
    BY <1>2, ExecFresh DEF Crash, disk, TypeOK
  <1>3. CASE CreateFails
    <2>1. /\ UNCHANGED <<ledger, files, held, step, reply, asked, at, late, verdict, stop, poisoned>>
          /\ UNCHANGED <<searches, queue, validations, todo, closing, Queued, Staged, Reserved>>
          /\ at = "idle" /\ batch' = "broken"
      BY <1>3, SameQueued DEF CreateFails, thread, stages, Reserved, Staged
    <2>2. TypeOK'
      BY <2>1 DEF TypeOK
    <2>3. OnePlace' /\ InOrder' /\ Closed' /\ LateOnce' /\ HeldKnown' /\ AttemptsOK'
      BY <2>1, AttemptsStay DEF ExecInv, OnePlace, InOrder, Closing, Closed, LateOnce, HeldKnown
    <2> QED
      BY <2>2, <2>3 DEF ExecInv
  <1> QED
    BY <1>1, <1>2, <1>3

\* A step of a thread.
LEMMA ExecThread ==
  ASSUME TypeOK, ExecInv, NEW a \in Attempts, Thread(a)
  PROVE  TypeOK' /\ ExecInv'
  <1>1. TypeOK'
    <2>1. held' \subseteq Attempts
      BY ThreadFrame DEF TypeOK
    <2>2. /\ UNCHANGED <<ledger, batch, at, poisoned, searches, queue, validations, todo, closing>>
          /\ UNCHANGED <<late, verdict>> /\ stop' \in BOOLEAN
          /\ files' \in [Attempts -> SUBSET Sayings]
          /\ asked' \in [Attempts -> [search : Nat, retire : Nat, verify : Nat]]
          /\ step' \in [Attempts -> {"idle", "search", "retire", "verify", "diagnose", "done"}]
          /\ reply' \in [Attempts -> Results \cup {None}]
      BY ThreadFrame
    <2> QED
      BY <2>1, <2>2 DEF TypeOK, Sayings
  <1>2. ExecInv'
    BY ExecSearch, ExecRetire, ExecVerify, ExecDiagnose DEF Thread
  <1> QED
    BY <1>1, <1>2

\* A step that changes nothing.
LEMMA ExecStutters == ASSUME TypeOK, ExecInv, UNCHANGED vars PROVE TypeOK' /\ ExecInv'
  <1>1. /\ UNCHANGED <<ledger, files, batch, held, step, reply, asked, at, late, verdict, stop>>
        /\ UNCHANGED <<poisoned, searches, queue, validations, todo, closing>>
        /\ UNCHANGED <<Queued, Staged, Reserved>>
    BY SameQueued DEF vars, Reserved, Staged
  <1>2. TypeOK'
    BY <1>1 DEF TypeOK
  <1>3. AttemptsOK'
    <2> SUFFICES ASSUME NEW b \in Attempts PROVE (Staging(b) /\ AskedOnce(b) /\ Evident(b))'
      BY DEF AttemptsOK
    <2>1. Staging(b) /\ AskedOnce(b) /\ Evident(b)
      BY DEF ExecInv, AttemptsOK
    <2> QED
      BY <1>1, <2>1 DEF Staging, AskedOnce, Evident, Auditable
  <1>4. OnePlace' /\ InOrder' /\ Closed' /\ LateOnce' /\ HeldKnown'
    BY <1>1 DEF ExecInv, OnePlace, InOrder, Closing, Closed, LateOnce, HeldKnown
  <1> QED
    BY <1>2, <1>3, <1>4 DEF ExecInv

\* The invariant is inductive.
LEMMA ExecInductive ==
  Spec => [](TypeOK /\ ExecInv)
  <1>1. Init => TypeOK /\ ExecInv
    <2> SUFFICES ASSUME Init PROVE TypeOK /\ ExecInv
      OBVIOUS
    <2>1. TypeOK
      <3>1. /\ step \in [Attempts -> {"idle", "search", "retire", "verify", "diagnose", "done"}]
            /\ reply \in [Attempts -> Results \cup {None}]
            /\ ledger \in [Attempts -> {"free", "pending", "accepted", "exhausted", "unknown"}]
        BY DEF Init
      <3>2. asked \in [Attempts -> [search : Nat, retire : Nat, verify : Nat]]
        BY DEF Init
      <3>3. files \in [Attempts -> SUBSET Sayings]
        BY DEF Init
      <3>4. queue \in Seq(Attempts) /\ late \in Nat /\ stop \in BOOLEAN /\ poisoned \in BOOLEAN
        BY EmptySeq DEF Init
      <3> QED
        BY <3>1, <3>2, <3>3, <3>4 DEF Init, TypeOK, Sayings
    <2>2. Queued = {} /\ Staged = {} /\ ~ Closing
      BY DEF Init, Queued, Staged, Closing
    <2>3. Reserved = {} /\ Cardinality(Reserved) = 0 /\ Cardinality(held) = 0
      <3>1. Reserved = {} /\ held = {}
        BY DEF Init, Reserved
      <3> QED
        BY <3>1, FS_EmptySet
    <2>4. OnePlace /\ InOrder /\ Closed /\ LateOnce /\ HeldKnown
      BY <2>2, <2>3, BatchAssumption DEF Init, OnePlace, InOrder, Closed, LateOnce, HeldKnown
    <2>5. AttemptsOK
      <3> SUFFICES ASSUME NEW b \in Attempts PROVE Staging(b) /\ AskedOnce(b) /\ Evident(b)
        BY DEF AttemptsOK
      <3>1. step[b] = "idle" /\ ledger[b] = "free" /\ searches = {} /\ validations = {} /\ held = {}
        BY DEF Init
      <3>2. Staging(b)
        BY <2>2, <3>1 DEF Staging
      <3>3. asked[b] = [search |-> 0, retire |-> 0, verify |-> 0]
        BY DEF Init
      <3>4. AskedOnce(b)
        BY <2>2, <3>1, <3>3 DEF AskedOnce
      <3>5. Evident(b)
        BY <2>2, <3>1 DEF Evident
      <3> QED
        BY <3>2, <3>4, <3>5
    <2> QED
      BY <2>1, <2>4, <2>5 DEF ExecInv
  <1>2. TypeOK /\ ExecInv /\ [Next]_vars => (TypeOK /\ ExecInv)'
    <2> SUFFICES ASSUME TypeOK, ExecInv, [Next]_vars PROVE (TypeOK /\ ExecInv)'
      OBVIOUS
    <2>1. CASE Main
      BY <2>1, ExecSettleValidations, ExecVisit, ExecStartVerifier, ExecSettleWrite,
         ExecSettleRecord, ExecDispatch, ExecReserve, ExecSubmit, ExecSubmitFails DEF Main
    <2>2. CASE \E a \in Attempts : Thread(a)
      BY <2>2, ExecThread
    <2>3. CASE Start \/ CreateFails \/ Crash
      BY <2>3, ExecRuns
    <2>4. CASE UNCHANGED vars
      BY <2>4, ExecStutters
    <2> QED
      BY <2>1, <2>2, <2>3, <2>4 DEF Next
  <1> QED
    BY <1>1, <1>2, PTL DEF Spec

\* The executor never holds more sessions than it has slots, calls no callback twice for
\* an attempt over all restarts, and reserves at most one attempt beside an unknown outcome.
THEOREM ExecEffects == Spec => []EffectsBounded
  <1>1. TypeOK /\ ExecInv => EffectsBounded
    <2> SUFFICES ASSUME TypeOK, ExecInv PROVE EffectsBounded
      OBVIOUS
    <2>1. SlotsHoldSessions
      BY DEF ExecInv, HeldKnown, SlotsHoldSessions
    <2>2. CalledOnce
      <3> SUFFICES ASSUME NEW b \in Attempts, NEW callback \in {"search", "retire", "verify"}
                   PROVE  asked[b][callback] <= 1
        BY DEF CalledOnce
      <3>1. asked[b].search <= 1 /\ asked[b].retire <= 1 /\ asked[b].verify <= 1
        BY DEF ExecInv, AttemptsOK, AskedOnce
      <3> QED
        BY <3>1
    <2>3. OneLateDispatch
      BY DEF ExecInv, LateOnce, OneLateDispatch
    <2> QED
      BY <2>1, <2>2, <2>3 DEF EffectsBounded
  <1> QED
    BY <1>1, ExecInductive, PTL

\* Whatever the scheduler calls settled can be audited by the next start.
THEOREM ExecAudit == Spec => []SettledIsAuditable
  <1>1. TypeOK /\ ExecInv => SettledIsAuditable
    BY DEF ExecInv, AttemptsOK, Evident, SettledIsAuditable
  <1> QED
    BY <1>1, ExecInductive, PTL

-----------------------------------------------------------------------------
(* The executor and the ledger of attempts.                                *)

\* Attempts in hand are pending, and unless new dispatch was stopped for good the
\* pending ones are in hand; a planned attempt finds nothing unknown either.
LedgerInHand ==
    /\ \A a \in InHand : ledger[a] = "pending"
    /\ at # "idle" /\ ~stop => Pending \subseteq InHand
    /\ at \in {"prepare", "reserve"} => Pending \subseteq InHand /\ ~Blocked

\* The attempts in hand, of the stages and of what is closing.
LEMMA HandOf ==
  ASSUME TypeOK, ExecInv
  PROVE  /\ InHand = Staged \cup (IF Closing THEN {closing.attempt} ELSE {})
         /\ Closing => closing.attempt \in Attempts /\ closing.attempt \notin Staged
  <1>1. Closing => closing.attempt \in Attempts /\ closing.attempt \notin Staged
    BY DEF ExecInv, Closed, Closings
  <1> QED
    BY <1>1 DEF InHand, Staged, Queued, Closing

\* A step that neither touches the ledger nor takes anything in hand.
LEMMA HandLost ==
  ASSUME UNCHANGED ledger, InHand' \subseteq InHand
  PROVE  Ledger!Next
  BY DEF Ledger!Next, Ledger!Lose

\* Such a step keeps what is in hand pending, and all of it in hand unless it stops
\* new dispatch.
LEMMA HandKept ==
  ASSUME TypeOK, LedgerInHand, UNCHANGED ledger, InHand' \subseteq InHand,
         at = "idle" => at' = "idle", InHand' = InHand \/ stop', stop => stop',
         at' \in {"prepare", "reserve"} =>
            (at \in {"prepare", "reserve"} \/ (~stop /\ ~Blocked)) /\ InHand' = InHand
  PROVE  LedgerInHand' /\ Ledger!Next
  <1>1. Pending' = Pending /\ (Blocked' <=> Blocked)
    BY DEF Pending, Blocked
  <1>2. \A a \in InHand' : ledger'[a] = "pending"
    BY DEF LedgerInHand
  <1>3. at' # "idle" /\ ~stop' => Pending' \subseteq InHand'
    BY <1>1 DEF LedgerInHand
  <1>4. at' \in {"prepare", "reserve"} => Pending' \subseteq InHand' /\ ~Blocked'
    BY <1>1 DEF LedgerInHand
  <1> QED
    BY <1>2, <1>3, <1>4, HandLost DEF LedgerInHand

\* The attempts in hand after a step, by its stages and what is closing.
LEMMA HandAfter ==
  InHand' = Staged' \cup {b \in Attempts : Closing' /\ closing'.attempt = b}
  BY DEF InHand, Staged, Queued, Closing

\* A future that is done puts its attempt under closing, or stops new dispatch.
LEMMA HandCloses ==
  ASSUME NEW a, NEW next \in {"validations", "searches"}, Closes(a, next)
  PROVE  \/ at' = next /\ stop'
         \/ at' = "settle" /\ closing'.attempt = a
  BY DEF Closes, Settles, Failed

\* Settling a verification keeps its attempt in hand unless that stops new dispatch.
LEMMA HandValidations ==
  ASSUME TypeOK, ExecInv, LedgerInHand, SettleValidations
  PROVE  LedgerInHand' /\ Ledger!Next
  <1>1. /\ UNCHANGED <<ledger, searches, queue, Queued>> /\ at = "validations"
        /\ InHand = Staged
    BY SameQueued, HandOf DEF SettleValidations, disk, Closing
  <1>2. CASE at' = "searches" /\ UNCHANGED <<validations, stop>>
    <2>1. InHand' = InHand
      BY <1>1, <1>2, HandAfter DEF Staged, Closing
    <2> QED
      BY <1>1, <1>2, <2>1, HandKept
  <1>3. ASSUME NEW a \in validations, validations' = validations \ {a}, Closes(a, "validations")
        PROVE  LedgerInHand' /\ Ledger!Next
    <2>1. \/ at' = "validations" /\ stop'
          \/ at' = "settle" /\ closing'.attempt = a
      BY <1>3, HandCloses
    <2>2. a \in Attempts /\ a \in InHand
      BY <1>1 DEF TypeOK, Staged
    <2>3. InHand' \subseteq InHand /\ (at' = "settle" => InHand' = InHand)
      BY <1>1, <1>3, <2>1, <2>2, HandAfter DEF Staged, Closing
    <2>4. stop => stop'
      BY <1>3 DEF Closes, Settles, Failed
    <2> QED
      BY <1>1, <2>1, <2>3, <2>4, HandKept
  <1> QED
    BY <1>2, <1>3 DEF SettleValidations

\* So does settling a search; one with a candidate moves to the queue.
LEMMA HandVisit ==
  ASSUME TypeOK, ExecInv, LedgerInHand, VisitSearch
  PROVE  LedgerInHand' /\ Ledger!Next
  <1>0. PICK a : a = First(Ready)
    OBVIOUS
  <1>1. /\ UNCHANGED <<ledger, validations>> /\ at = "searches" /\ searches' = searches \ {a}
        /\ InHand = Staged
    BY <1>0, HandOf DEF VisitSearch, disk, Leaves, Closing
  <1>2. a \in searches /\ a \in Attempts /\ a \notin Queued
    <2>1. Ready \subseteq todo /\ Ready \subseteq Attempts /\ Ready # {}
      BY DEF Ready, TypeOK, VisitSearch
    <2>2. a \in Ready
      BY <1>0, <2>1, FirstOf
    <2> QED
      BY <2>1, <2>2 DEF ExecInv, OnePlace, TypeOK
  <1>3. CASE queue' = Append(queue, a) /\ UNCHANGED <<at, closing, stop>>
    <2>1. Queued' = Queued \cup {a}
      BY <1>2, <1>3, QueuedMore DEF TypeOK
    <2>2. InHand' = InHand
      BY <1>1, <1>2, <1>3, <2>1, HandAfter DEF Staged, Closing
    <2> QED
      BY <1>1, <1>3, <2>2, HandKept
  <1>4. CASE Closes(a, "searches") /\ UNCHANGED queue
    <2>1. \/ at' = "searches" /\ stop'
          \/ at' = "settle" /\ closing'.attempt = a
      BY <1>4, HandCloses
    <2>2. InHand' \subseteq InHand /\ (at' = "settle" => InHand' = InHand)
      BY <1>1, <1>2, <1>4, <2>1, SameQueued, HandAfter DEF Staged, Closing
    <2>3. stop => stop'
      BY <1>4 DEF Closes, Settles, Failed
    <2> QED
      BY <1>1, <2>1, <2>2, <2>3, HandKept
  <1> QED
    BY <1>0, <1>3, <1>4 DEF VisitSearch

\* The verifier takes its attempt from the queue.
LEMMA HandVerifier ==
  ASSUME TypeOK, ExecInv, LedgerInHand, StartVerifier
  PROVE  LedgerInHand' /\ Ledger!Next
  <1>1. /\ UNCHANGED <<ledger, searches, stop>> /\ at = "searches" /\ at' = "dispatch"
        /\ InHand = Staged /\ InHand' = Staged'
    BY HandOf, HandAfter DEF StartVerifier, disk, Closing
  <1>2. CASE UNCHANGED <<queue, validations>>
    BY <1>1, <1>2, SameQueued, HandKept DEF Staged
  <1>3. CASE queue # <<>> /\ validations = {} /\ queue' = Tail(queue) /\ validations' = {Head(queue)}
    <2>1. Head(queue) \in Queued /\ Queued' = Queued \ {Head(queue)}
      BY <1>3, QueuedLess DEF TypeOK, ExecInv
    <2>2. InHand' = InHand
      BY <1>1, <1>3, <2>1 DEF Staged
    <2> QED
      BY <1>1, <2>2, HandKept
  <1> QED
    BY <1>2, <1>3 DEF StartVerifier, VerifierFree

\* A terminal record that cannot be written drops the attempt and stops new dispatch.
LEMMA HandWrite ==
  ASSUME TypeOK, ExecInv, LedgerInHand, SettleWrite
  PROVE  LedgerInHand' /\ Ledger!Next
  <1>1. /\ UNCHANGED <<ledger, Staged>> /\ at = "settle"
    BY SameQueued DEF SettleWrite, stages, Staged
  <1>2. closing.then \in {"validations", "searches", "abort"}
    BY <1>1 DEF ExecInv, Closed, Closing, Closings
  <1>3. \/ at' = "record" /\ UNCHANGED <<closing, stop>>
        \/ stop' /\ at' \in {"validations", "searches", "abort"}
    BY <1>2 DEF SettleWrite, Failed
  <1>4. InHand' \subseteq InHand /\ (at' = "record" => InHand' = InHand)
    BY <1>1, <1>3, HandAfter DEF InHand, Staged, Queued, Closing
  <1> QED
    BY <1>1, <1>3, <1>4, HandKept

\* The result is recorded and the attempt let go; if that failed no other will be asked for.
LEMMA HandRecord ==
  ASSUME TypeOK, ExecInv, LedgerInHand, SettleRecord
  PROVE  LedgerInHand' /\ Ledger!Next
  <1>0. PICK a, result : a = closing.attempt /\ result = closing.result
    OBVIOUS
  <1>1. /\ UNCHANGED Staged /\ at = "record" /\ (stop => stop')
    BY SameQueued DEF SettleRecord, stages, Staged
  <1>2. /\ a \in Attempts /\ a \notin Staged /\ InHand = Staged \cup {a}
        /\ result \in {"accepted", "exhausted", "unknown"}
        /\ closing.then \in {"validations", "searches", "abort"}
    BY <1>0, <1>1, HandOf DEF ExecInv, Closed, Closing, Closings
  <1>3. at' \in {"validations", "searches", "abort"}
    BY <1>2 DEF SettleRecord
  <1>4. InHand' = InHand \ {a}
    BY <1>1, <1>2, <1>3, HandAfter DEF Closing
  <1>5. CASE ledger' = [ledger EXCEPT ![a] = result]
    <2>1. ledger[a] = "pending"
      BY <1>2 DEF LedgerInHand
    <2>2. /\ \A b \in Attempts : b # a => ledger'[b] = ledger[b]
          /\ ledger'[a] # "pending"
      BY <1>2, <1>5 DEF TypeOK
    <2>3. Ledger!Settle(a, result)
      BY <1>4, <1>5, <2>1 DEF Ledger!Settle
    <2>4. Pending' = Pending \ {a}
      BY <1>2, <2>2 DEF Pending
    <2>5. InHand' \subseteq Attempts
      BY <1>2, <1>4 DEF ExecInv, InOrder, Reserved
    <2>6. \A b \in InHand' : ledger'[b] = "pending"
      BY <1>4, <2>2, <2>5 DEF LedgerInHand
    <2>7. at' # "idle" /\ ~stop' => Pending' \subseteq InHand'
      BY <1>1, <1>4, <2>4 DEF LedgerInHand
    <2>8. a \in Ledger!Attempts
      BY <1>2 DEF Attempts, Ledger!Attempts
    <2> QED
      BY <1>2, <1>3, <2>3, <2>6, <2>7, <2>8 DEF LedgerInHand, Ledger!Next
  <1>6. CASE stop' /\ UNCHANGED ledger
    BY <1>1, <1>3, <1>4, <1>6, HandKept
  <1> QED
    BY <1>0, <1>5, <1>6 DEF SettleRecord

\* Planning and preparing leave everything where it is; a plan asks the scheduler first.
LEMMA HandDispatch ==
  ASSUME TypeOK, ExecInv, LedgerInHand, DispatchEnds \/ PlanAttempt \/ Prepare \/ Abort
  PROVE  LedgerInHand' /\ Ledger!Next
  <1>1. /\ UNCHANGED <<ledger, Staged>> /\ at \in {"dispatch", "prepare", "abort"} /\ (stop => stop')
    BY SameQueued DEF DispatchEnds, PlanAttempt, Prepare, Abort, disk, stages, Staged, Failed
  <1>2. \/ at' \in {"idle", "validations", "abort"}
        \/ at' = "prepare" /\ ~stop /\ ~Blocked
        \/ at' = "reserve" /\ at = "prepare"
    BY DEF DispatchEnds, PlanAttempt, Prepare, Abort, PassEnds, Failed, MayDispatch
  <1>3. InHand' = InHand
    BY <1>1, <1>2, HandOf, HandAfter DEF Closing
  <1> QED
    BY <1>1, <1>2, <1>3, HandKept

\* The next attempt is reserved with everything pending in hand, and is then in hand too
\* unless the reservation was refused.
LEMMA HandReserve ==
  ASSUME TypeOK, ExecInv, LedgerInHand, Reserve
  PROVE  LedgerInHand' /\ Ledger!Next
  <1>0. PICK s : s = Sequence
    OBVIOUS
  <1>1. UNCHANGED Staged /\ at = "reserve" /\ InHand = Staged
    BY SameQueued, HandOf DEF Reserve, stages, Staged, Closing
  <1>2. \/ /\ ledger' = [ledger EXCEPT ![s] = "pending"] /\ at' = "create"
           /\ closing'.attempt = s
        \/ /\ ledger' = [ledger EXCEPT ![s] = "pending"] \/ UNCHANGED ledger
           /\ at' = "abort" /\ stop'
    BY <1>0 DEF Reserve, Failed
  <1>3. s \in Attempts /\ ledger[s] = "free" /\ Cardinality(Reserved) < MaxAttempts
    BY <1>0, <1>1, NextAttempt DEF ExecInv, InOrder
  <1>4. /\ at' = "create" => InHand' = InHand \cup {s}
        /\ at' = "abort" => InHand' = InHand
    BY <1>1, <1>2, <1>3, HandAfter DEF Closing
  <1>5. CASE ledger' = [ledger EXCEPT ![s] = "pending"]
    <2>1. Ledger!Are("free") = s..MaxAttempts
      <3>1. PICK n : n = Cardinality(Reserved)
        OBVIOUS
      <3>2. n \in Nat /\ s = n + 1 /\ Reserved = 1..n
        <4>1. IsFiniteSet(Attempts) /\ Reserved \subseteq Attempts
          BY FS_Interval, BatchAssumption DEF Attempts, Reserved
        <4>2. Cardinality(Reserved) \in Nat
          BY <4>1, FS_Subset, FS_CardinalityType
        <4> QED
          BY <1>0, <3>1, <4>2 DEF Sequence, ExecInv, InOrder
      <3>3. Ledger!Are("free") = Attempts \ Reserved
        BY DEF Ledger!Are, Ledger!Attempts, Attempts, Reserved
      <3>4. (1..MaxAttempts) \ (1..n) = s..MaxAttempts
        <4>1. (1..MaxAttempts) \ (1..n) \subseteq s..MaxAttempts
          BY <3>2, BatchAssumption
        <4>2. s..MaxAttempts \subseteq (1..MaxAttempts) \ (1..n)
          BY <3>2, BatchAssumption
        <4> QED
          BY <4>1, <4>2
      <3> QED
        BY <3>2, <3>3, <3>4 DEF Attempts
    <2>2. /\ Ledger!Are("unknown") = {} /\ Ledger!Are("pending") \subseteq InHand
      BY <1>1 DEF LedgerInHand, Blocked, Pending, Ledger!Are, Ledger!Attempts, Attempts
    <2>3. Ledger!Next
      <3>1. Ledger!Grant(s)
        BY <1>2, <1>4, <1>5, <2>1, <2>2 DEF Ledger!Grant
      <3> QED
        BY <1>3, <3>1 DEF Ledger!Next, Ledger!Attempts, Attempts
    <2>4. /\ \A b \in Attempts : b # s => ledger'[b] = ledger[b]
          /\ ledger'[s] = "pending"
      BY <1>3, <1>5 DEF TypeOK
    <2>5. Pending' = Pending \cup {s} /\ Pending \subseteq InHand /\ InHand \subseteq Attempts
      BY <1>1, <1>3, <2>4 DEF Pending, LedgerInHand, ExecInv, InOrder, Reserved
    <2>6. \A b \in InHand' : ledger'[b] = "pending"
      BY <1>2, <1>4, <2>4, <2>5 DEF LedgerInHand
    <2> QED
      BY <1>2, <1>4, <2>3, <2>5, <2>6 DEF LedgerInHand
  <1>6. CASE UNCHANGED ledger /\ at' = "abort" /\ stop'
    BY <1>1, <1>4, <1>6, HandKept
  <1> QED
    BY <1>2, <1>5, <1>6

\* The attempt that was being created is in a search slot.
LEMMA HandSubmit ==
  ASSUME TypeOK, ExecInv, LedgerInHand, Submit
  PROVE  LedgerInHand' /\ Ledger!Next
  <1>1. /\ UNCHANGED <<ledger, stop, Queued, validations>> /\ at = "create" /\ at' = "dispatch"
        /\ searches' = searches \cup {closing.attempt}
    BY SameQueued DEF Submit
  <1>2. InHand = Staged \cup {closing.attempt}
    BY <1>1, HandOf DEF Closing
  <1>3. InHand' = InHand
    BY <1>1, <1>2, HandAfter DEF Staged, Closing
  <1> QED
    BY <1>1, <1>3, HandKept

\* An attempt that could not be created is settled as unknown, or dropped.
LEMMA HandSubmitFails ==
  ASSUME TypeOK, ExecInv, LedgerInHand, SubmitFails
  PROVE  LedgerInHand' /\ Ledger!Next
  <1>1. /\ UNCHANGED <<ledger, Staged>> /\ at = "create" /\ stop'
        /\ \/ at' = "settle" /\ UNCHANGED closing
           \/ at' = "abort"
    BY SameQueued DEF SubmitFails, stages, Staged
  <1>2. InHand' \subseteq InHand
    BY <1>1, HandAfter DEF InHand, Staged, Queued, Closing
  <1> QED
    BY <1>1, <1>2, HandKept

\* A run starts with nothing pending, and its death leaves nothing in hand.
LEMMA HandRuns ==
  ASSUME TypeOK, ExecInv, LedgerInHand, Start \/ CreateFails \/ Crash
  PROVE  LedgerInHand' /\ Ledger!Next
  <1>1. CASE CreateFails
    <2>1. UNCHANGED <<ledger, Staged, at, stop, closing>> /\ at = "idle"
      BY <1>1, SameQueued DEF CreateFails, stages, Staged
    <2>2. InHand' = InHand
      BY <2>1, HandAfter, HandOf DEF Closing
    <2> QED
      BY <2>1, <2>2, HandKept
  <1>2. CASE Start \/ Crash
    <2>1. UNCHANGED ledger /\ at' \in {"validations", "idle"}
      BY <1>2 DEF Start, Crash, disk
    <2>2. Queued' = {} /\ searches' = {} /\ validations' = {}
      BY <1>2 DEF Start, Crash, Fresh, Queued
    <2>3. InHand' = {}
      BY <2>1, <2>2, HandAfter DEF Staged, Closing
    <2>4. at' # "idle" => Pending' = {}
      BY <1>2, <2>1 DEF Start, Startable, Crash, Pending
    <2> QED
      BY <2>1, <2>3, <2>4, HandLost DEF LedgerInHand
  <1> QED
    BY <1>1, <1>2

\* Every step of the executor is one of the ledger, and keeps what is in hand pending.
LEMMA HandStep ==
  ASSUME TypeOK, ExecInv, LedgerInHand, [Next]_vars
  PROVE  LedgerInHand' /\ [Ledger!Next]_<<ledger, InHand>>
  <1>1. CASE Main
    BY <1>1, HandValidations, HandVisit, HandVerifier, HandWrite, HandRecord, HandDispatch,
       HandReserve, HandSubmit, HandSubmitFails DEF Main
  <1>2. ASSUME UNCHANGED <<ledger, at, closing, searches, queue, validations>>, stop => stop'
        PROVE  LedgerInHand' /\ [Ledger!Next]_<<ledger, InHand>>
    <2>1. InHand' = InHand
      BY <1>2 DEF InHand
    <2>2. at' \in {"prepare", "reserve"} => at \in {"prepare", "reserve"}
      BY <1>2
    <2> QED
      BY <1>2, <2>1, <2>2, HandKept
  <1>3. CASE \E a \in Attempts : Thread(a)
    BY <1>2, <1>3, ThreadFrame
  <1>4. CASE Start \/ CreateFails \/ Crash
    BY <1>4, HandRuns
  <1>5. CASE UNCHANGED vars
    BY <1>2, <1>5 DEF vars
  <1> QED
    BY <1>1, <1>3, <1>4, <1>5 DEF Next

\* The executor keeps the ledger of attempts as its scheduler promises it: the next
\* number is granted with everything pending in hand and nothing unknown, and each
\* attempt gets one result, whatever raises and wherever a run dies.
THEOREM BatchLedgerKept == Spec => KeepsLedger
  <1>1. Init => LedgerInHand /\ Ledger!Init
    <2> SUFFICES ASSUME Init PROVE LedgerInHand /\ Ledger!Init
      OBVIOUS
    <2>1. InHand = {}
      BY DEF Init, InHand
    <2> QED
      BY <2>1 DEF Init, LedgerInHand, Ledger!Init, Ledger!Attempts, Attempts
  <1>2. TypeOK /\ ExecInv /\ LedgerInHand /\ [Next]_vars =>
           LedgerInHand' /\ [Ledger!Next]_<<ledger, InHand>>
    BY HandStep
  <1> QED
    BY <1>1, <1>2, ExecInductive, PTL DEF Spec, KeepsLedger, Ledger!Spec
=============================================================================
