------------------------- MODULE CollectorProofs -------------------------
(***************************************************************************)
(* The replica router keeps its promises for any number of replicas and    *)
(* threads; a session of the collector is audited, and what it reports is  *)
(* true, for any number of iterations and candidates.                      *)
(***************************************************************************)
EXTENDS ReplicaRouter, CollectorSession, SequenceTheorems, FiniteSetTheorems, WellFoundedInduction,
        TLAPS

-----------------------------------------------------------------------------
(* The first free replica.                                                 *)

LEMMA LeastExists ==
    ASSUME NEW S \in SUBSET Nat, S # {}
    PROVE  \E r \in S : \A s \in S : r <= s
<1>1. PICK r \in S : \A s \in S : ~ (<<s, r>> \in OpToRel(<, Nat))
  BY WFMin, NatLessThanWellFounded
<1>2. ASSUME NEW s \in S
      PROVE  r <= s
  <2>1. s \in Nat /\ r \in Nat
    OBVIOUS
  <2>2. <<s, r>> \in Nat \X Nat /\ ~ (s < r)
    BY <1>1, <2>1 DEF OpToRel
  <2> QED BY <2>1, <2>2
<1> QED BY <1>2

LEMMA FirstFreeIsFree ==
    ASSUME Free # {}
    PROVE  FirstFree \in Free
<1>1. Free \subseteq Nat
  BY RouterAssumption DEF Free, Replicas
<1>2. \E r \in Free : \A s \in Free : r <= s
  BY <1>1, LeastExists
<1> QED BY <1>2 DEF FirstFree

-----------------------------------------------------------------------------
(* The inductive invariant.                                                *)

Occupies(c) == doing[c] \in {"search", "fail", "retire", "release"}

\* What the place of a thread says of its attempt.
CallerInv(c) ==
    /\ doing[c] # "idle" => about[c] \in Attempts /\ router # "none"
    /\ Occupies(c) => active[about[c]] # None
    /\ doing[c] = "search" => about[c] \notin answered
    /\ doing[c] = "fail" => about[c] \notin answered \/ about[c] \in retiring
    /\ doing[c] \in {"retire", "release"} => about[c] \in retiring
    /\ doing[c] = "retire" =>
          called[about[c]]["retire"] = 0 /\ "intent" \in records[about[c]]
    /\ doing[c] = "release" => sessions[about[c]] = None

CallersInv == \A c \in Callers : CallerInv(c)

\* An attempt is in the hands of one thread.
AloneInv ==
    \A c, d \in Callers :
        Occupies(c) /\ Occupies(d) /\ about[c] = about[d] => c = d

MemoryInv ==
    /\ router = "none" => routes = {}
    /\ \A a, b \in Attempts : active[a] # None /\ active[a] = active[b] => a = b
    /\ retiring \subseteq answered

\* Nothing is known of an attempt without a directory.
DiskInv ==
    /\ pool # "ready" => router = "none" /\ folders = {}
    /\ orphans \subseteq folders /\ answered \subseteq folders
    /\ \A a \in Attempts \ folders :
          /\ records[a] = {} /\ sessions[a] = None
          /\ called[a]["search"] = 0 /\ called[a]["retire"] = 0

OnceInv ==
    /\ SubmittedOnce
    /\ \A a \in Attempts : called[a]["retire"] > 0 => "intent" \in records[a]

\* A session without a retirement on disk is where the router thinks it is.
SessionInv ==
    \A a \in Attempts : sessions[a] # None =>
        /\ "retirement" \notin records[a]
        /\ router # "none" => active[a] = sessions[a]

\* A router that is not blocked has written exactly what it did.
HealthyInv ==
    router = "open" /\ ~blocked =>
        /\ routes = folders /\ orphans = {}
        /\ \A a \in folders :
              IF active[a] = None THEN records[a] = Complete
              ELSE /\ "route" \in records[a]
                   /\ records[a] \subseteq {"route", "search", "intent"}
                   /\ "search" \in records[a] <=> a \in answered
                   /\ "intent" \in records[a] <=> a \in retiring

IInv == /\ TypeOK /\ CallersInv /\ AloneInv /\ MemoryInv
        /\ DiskInv /\ OnceInv /\ SessionInv /\ HealthyInv

\* What a write may do, whether it raises or not.
LEMMA Written ==
    ASSUME TypeOK, NEW a \in Attempts, NEW name \in Complete \cup {"unknown"},
           WriteRaises(a, name)
    PROVE  /\ records' \in [Attempts -> SUBSET (Complete \cup {"unknown"})]
           /\ \A b \in Attempts \ {a} : records'[b] = records[b]
           /\ records[a] \subseteq records'[a] /\ records'[a] \subseteq records[a] \cup {name}
           /\ orphans' \subseteq orphans \cup {a}
<1>1. CASE Writes(a, name)
  BY <1>1 DEF Writes, TypeOK
<1>2. CASE UNCHANGED records /\ orphans' \subseteq orphans \cup {a}
  BY <1>2 DEF TypeOK
<1> QED BY <1>1, <1>2 DEF WriteRaises

\* What is known of a thread stays true while others move.
LEMMA CallerKept ==
    ASSUME NEW d \in Callers, CallerInv(d),
           doing'[d] = doing[d], about'[d] = about[d],
           router # "none" => router' # "none",
           Occupies(d) =>
              /\ active'[about[d]] = active[about[d]]
              /\ about[d] \in answered' <=> about[d] \in answered
              /\ retiring \subseteq retiring'
              /\ called'[about[d]]["retire"] = called[about[d]]["retire"]
              /\ records[about[d]] \subseteq records'[about[d]]
              /\ sessions'[about[d]] \in {sessions[about[d]], None}
    PROVE  CallerInv(d)'
BY DEF CallerInv, Occupies

LEMMA InitInv == Init => IInv
<1> SUFFICES ASSUME Init
             PROVE  IInv
  OBVIOUS
<1>1. TypeOK
  BY DEF Init, TypeOK
<1>2. CallersInv /\ AloneInv /\ MemoryInv
  BY DEF Init, CallersInv, CallerInv, AloneInv, MemoryInv, Occupies
<1>3. DiskInv /\ OnceInv /\ SessionInv /\ HealthyInv
  BY DEF Init, DiskInv, OnceInv, SubmittedOnce, SessionInv, HealthyInv
<1> QED BY <1>1, <1>2, <1>3 DEF IInv

LEMMA SearchBeginsStep ==
    ASSUME IInv, NEW c \in Callers, NEW a \in Attempts, SearchBegins(c, a)
    PROVE  IInv'
<1>1. TypeOK'
  BY DEF IInv, SearchBegins, Busy, TypeOK, disk, memory, history
<1>2. CallersInv'
  BY DEF IInv, SearchBegins, Busy, TypeOK, CallersInv, CallerInv, disk, memory,
         history, Occupies
<1>3. AloneInv'
  BY DEF IInv, SearchBegins, Busy, AloneInv, Occupies
<1>4. MemoryInv'
  BY DEF IInv, SearchBegins, MemoryInv, memory, history
<1>5. DiskInv'
  BY DEF IInv, SearchBegins, DiskInv, disk, history
<1>6. OnceInv'
  BY DEF IInv, SearchBegins, disk, history, OnceInv, SubmittedOnce
<1>7. SessionInv'
  BY DEF IInv, SearchBegins, disk, memory, SessionInv
<1>8. HealthyInv'
  BY DEF IInv, SearchBegins, disk, memory, history, HealthyInv
<1> QED BY <1>1, <1>2, <1>3, <1>4, <1>5, <1>6, <1>7, <1>8 DEF IInv

LEMMA RefusedStep ==
    ASSUME IInv, NEW c \in Callers, Refused(c)
    PROVE  IInv'
<1>1. TypeOK'
  BY DEF IInv, Refused, Busy, Returns, TypeOK, disk, memory, history
<1>2. CallersInv'
  BY DEF IInv, Refused, Busy, Returns, TypeOK, CallersInv, CallerInv, disk,
         memory, history, Occupies
<1>3. AloneInv'
  BY DEF IInv, Refused, Busy, Returns, AloneInv, Occupies
<1>4. MemoryInv'
  BY DEF IInv, Refused, MemoryInv, memory, history
<1>5. DiskInv'
  BY DEF IInv, Refused, CallersInv, CallerInv, DiskInv, disk, history
<1>6. OnceInv'
  BY DEF IInv, Refused, disk, history, OnceInv, SubmittedOnce
<1>7. SessionInv'
  BY DEF IInv, Refused, disk, memory, SessionInv
<1>8. HealthyInv'
  BY DEF IInv, Refused, disk, memory, history, HealthyInv
<1> QED BY <1>1, <1>2, <1>3, <1>4, <1>5, <1>6, <1>7, <1>8 DEF IInv

LEMMA AdmitStep ==
    ASSUME IInv, NEW c \in Callers, Admit(c)
    PROVE  IInv'
<1> DEFINE a == about[c]
<1>1. a \in Attempts /\ router = "open" /\ a \notin routes /\ a \notin folders
  BY DEF IInv, Admit, MayAdmit, CallersInv, CallerInv
<1>2. FirstFree \in Replicas /\ \A b \in Attempts : active[b] # FirstFree
  BY FirstFreeIsFree DEF Admit, MayAdmit, Free, Occupied
<1>3. FirstFree # None
  BY <1>2, RouterAssumption
<1>4. /\ records' = [records EXCEPT ![a] = @ \cup {"route"}]
      /\ folders' = folders \cup {a} /\ routes' = routes \cup {a}
      /\ active' = [active EXCEPT ![a] = FirstFree]
      /\ sessions' = [sessions EXCEPT ![a] = FirstFree]
      /\ doing' = [doing EXCEPT ![c] = "search"]
      /\ UNCHANGED <<pool, router, blocked, retiring, answered, orphans, about>>
  BY DEF Admit, Writes, Goes
<1>5. called' = [called EXCEPT ![a]["search"] = @ + 1]
  BY DEF Admit
<1>6. called' \in [Attempts -> [search : Nat, retire : Nat]]
  BY <1>1, <1>5 DEF IInv, TypeOK
<1>7. /\ called'[a]["search"] = called[a]["search"] + 1
      /\ called'[a]["retire"] = called[a]["retire"]
      /\ \A b \in Attempts \ {a} : called'[b] = called[b]
  BY <1>1, <1>5 DEF IInv, TypeOK
<1>8. called[a]["search"] = 0 /\ called[a]["retire"] = 0 /\ records[a] = {} /\ a \notin answered
  BY <1>1 DEF IInv, DiskInv
<1>9. records'[a] = {"route"} /\ \A b \in Attempts \ {a} : records'[b] = records[b]
  BY <1>1, <1>4, <1>8 DEF IInv, TypeOK
<1>10. active[a] = None
  BY <1>1 DEF IInv, TypeOK
<1>11. TypeOK'
  <2>1. routes' \subseteq folders' /\ retiring' \subseteq routes'
    BY <1>4 DEF IInv, TypeOK
  <2>2. records' \in [Attempts -> SUBSET (Complete \cup {"unknown"})]
    BY <1>1, <1>4 DEF IInv, TypeOK, Complete
  <2>3. /\ active' \in [Attempts -> Replicas \cup {None}]
        /\ sessions' \in [Attempts -> Replicas \cup {None}]
    BY <1>2, <1>4 DEF IInv, TypeOK
  <2>4. \A b \in Attempts : active'[b] # None => b \in routes' /\ "route" \in records'[b]
    BY <1>4, <1>9 DEF IInv, TypeOK
  <2>5. doing' \in [Callers -> {"idle", "admit", "search", "fail", "retire", "release"}]
    BY <1>4 DEF IInv, TypeOK
  <2> QED BY <1>1, <1>4, <1>6, <2>1, <2>2, <2>3, <2>4, <2>5 DEF IInv, TypeOK
<1>12. CallersInv'
  <2>1. CallerInv(c)'
    BY <1>1, <1>3, <1>4, <1>8 DEF IInv, TypeOK, Occupies, CallerInv
  <2>2. ASSUME NEW d \in Callers \ {c}
        PROVE  CallerInv(d)'
    <3>1. doing'[d] = doing[d] /\ about'[d] = about[d] /\ CallerInv(d)
      BY <1>4 DEF IInv, TypeOK, CallersInv
    <3>2. Occupies(d) => about[d] \in Attempts \ {a}
      BY <1>10, <3>1 DEF Occupies, CallerInv
    <3> QED BY <1>4, <1>7, <1>9, <3>1, <3>2, CallerKept DEF IInv, TypeOK
  <2> QED BY <2>1, <2>2 DEF CallersInv
<1>13. AloneInv'
  BY DEF IInv, Admit, Goes, TypeOK, CallersInv, CallerInv, AloneInv, Occupies
<1>14. MemoryInv'
  <2>1. \A b, d \in Attempts : active'[b] # None /\ active'[b] = active'[d] => b = d
    BY <1>1, <1>2, <1>4 DEF IInv, TypeOK, MemoryInv
  <2> QED BY <1>1, <1>4, <2>1 DEF IInv, MemoryInv
<1>15. DiskInv'
  BY DEF IInv, Admit, Writes, DiskInv
<1>16. OnceInv'
  <2> SUFFICES ASSUME NEW b \in Attempts
               PROVE  /\ called'[b]["search"] <= 1 /\ called'[b]["retire"] <= 1
                      /\ called'[b]["retire"] > 0 => "intent" \in records'[b]
    BY DEF OnceInv, SubmittedOnce
  <2>1. CASE b = a
    <3>1. called'[a]["search"] = 1 /\ called'[a]["retire"] = 0
      BY <1>7, <1>8
    <3> QED BY <2>1, <3>1
  <2>2. CASE b # a
    BY <1>7, <1>9, <2>2 DEF IInv, OnceInv, SubmittedOnce
  <2> QED BY <2>1, <2>2
<1>17. SessionInv'
  <2> SUFFICES ASSUME NEW b \in Attempts, sessions'[b] # None
               PROVE  "retirement" \notin records'[b] /\ active'[b] = sessions'[b]
    BY DEF SessionInv
  <2>1. CASE b = a
    BY <1>1, <1>4, <1>9, <2>1 DEF IInv, TypeOK
  <2>2. CASE b # a
    BY <1>1, <1>4, <1>9, <2>2 DEF IInv, TypeOK, SessionInv
  <2> QED BY <2>1, <2>2
<1>18. HealthyInv'
  <2>1. ~ blocked => routes = folders /\ orphans = {}
    BY <1>1 DEF IInv, HealthyInv
  <2>2. ASSUME ~ blocked, NEW b \in folders'
        PROVE  IF active'[b] = None THEN records'[b] = Complete
               ELSE /\ "route" \in records'[b]
                    /\ records'[b] \subseteq {"route", "search", "intent"}
                    /\ "search" \in records'[b] <=> b \in answered
                    /\ "intent" \in records'[b] <=> b \in retiring
    <3>1. CASE b = a
      <4>1. active'[a] = FirstFree /\ a \notin retiring
        BY <1>1, <1>4 DEF IInv, TypeOK
      <4> QED BY <1>3, <1>8, <1>9, <3>1, <4>1
    <3>2. CASE b # a
      BY <1>1, <1>4, <1>9, <2>2, <3>2 DEF IInv, TypeOK, HealthyInv
    <3> QED BY <3>1, <3>2
  <2> QED BY <1>4, <2>1, <2>2 DEF HealthyInv
<1> QED BY <1>11, <1>12, <1>13, <1>14, <1>15, <1>16, <1>17, <1>18 DEF IInv

LEMMA AdmitFailsStep ==
    ASSUME IInv, NEW c \in Callers, AdmitFails(c)
    PROVE  IInv'
<1>1. TypeOK'
  BY DEF IInv, AdmitFails, WriteRaises, Writes, NotAdmitted, Busy, Returns,
         TypeOK, CallersInv, CallerInv, DiskInv, history, Complete
<1>2. CallersInv'
  BY DEF IInv, AdmitFails, WriteRaises, Writes, NotAdmitted, Busy, Returns,
         TypeOK, CallersInv, CallerInv, history, Occupies
<1>3. AloneInv'
  BY DEF IInv, AdmitFails, Busy, Returns, AloneInv, Occupies
<1>4. MemoryInv'
  BY DEF IInv, AdmitFails, NotAdmitted, MemoryInv, history
<1>5. DiskInv'
  BY DEF IInv, AdmitFails, WriteRaises, Writes, TypeOK, CallersInv, CallerInv,
         DiskInv, history
<1>6. OnceInv'
  BY DEF IInv, AdmitFails, WriteRaises, Writes, TypeOK, history, OnceInv,
         SubmittedOnce
<1>7. SessionInv'
  BY DEF IInv, AdmitFails, WriteRaises, Writes, NotAdmitted, TypeOK, SessionInv,
         Complete
<1>8. HealthyInv'
  BY DEF IInv, AdmitFails, NotAdmitted, HealthyInv
<1> QED BY <1>1, <1>2, <1>3, <1>4, <1>5, <1>6, <1>7, <1>8 DEF IInv

LEMMA SearchStep ==
    ASSUME IInv, NEW c \in Callers, Search(c)
    PROVE  IInv'
<1> DEFINE a == about[c]
<1>1. /\ a \in Attempts /\ doing[c] = "search" /\ a \notin answered
      /\ active[a] # None /\ router # "none"
  BY DEF IInv, Search, CallersInv, CallerInv, Occupies
<1>2. WriteRaises(a, "search")
  BY DEF Search, WriteRaises
<1>3. /\ records' \in [Attempts -> SUBSET (Complete \cup {"unknown"})]
      /\ \A b \in Attempts \ {a} : records'[b] = records[b]
      /\ records[a] \subseteq records'[a] /\ records'[a] \subseteq records[a] \cup {"search"}
      /\ orphans' \subseteq orphans \cup {a}
  BY <1>1, <1>2, Written DEF IInv, Complete
<1>4. /\ about' \in [Callers -> Attempts \cup {None}]
      /\ \/ /\ Writes(a, "search") /\ answered' = answered \cup {a}
            /\ doing' = [doing EXCEPT ![c] = "idle"] /\ UNCHANGED blocked
            /\ about' = [about EXCEPT ![c] = None]
         \/ /\ doing' = [doing EXCEPT ![c] = "fail"] /\ blocked' = TRUE
            /\ UNCHANGED <<answered, about>>
      /\ UNCHANGED <<pool, folders, sessions, router, routes, active, retiring, called>>
  BY DEF Search, Busy, Returns, Goes, IInv, TypeOK
<1>5. TypeOK'
  <2>1. doing' \in [Callers -> {"idle", "admit", "search", "fail", "retire", "release"}]
    BY <1>4 DEF IInv, TypeOK
  <2>2. orphans' \subseteq Attempts /\ answered' \subseteq Attempts /\ blocked' \in BOOLEAN
    BY <1>1, <1>3, <1>4 DEF IInv, TypeOK
  <2>3. \A b \in Attempts : records[b] \subseteq records'[b]
    BY <1>3
  <2> QED BY <1>3, <1>4, <2>1, <2>2, <2>3 DEF IInv, TypeOK
<1>6. CallersInv'
  <2>1. CallerInv(c)'
    BY <1>1, <1>4 DEF IInv, TypeOK, Occupies, CallerInv
  <2>2. ASSUME NEW d \in Callers \ {c}
        PROVE  CallerInv(d)'
    <3>1. doing'[d] = doing[d] /\ about'[d] = about[d] /\ CallerInv(d)
      BY <1>4 DEF IInv, TypeOK, CallersInv
    <3>2. Occupies(d) => about[d] \in Attempts \ {a}
      BY <1>1, <3>1 DEF IInv, AloneInv, Occupies, CallerInv
    <3> QED BY <1>1, <1>3, <1>4, <3>1, <3>2, CallerKept DEF IInv, TypeOK
  <2> QED BY <2>1, <2>2 DEF CallersInv
<1>7. AloneInv'
  BY DEF IInv, Search, Busy, Returns, Goes, TypeOK, AloneInv, Occupies
<1>8. MemoryInv'
  BY DEF IInv, Search, MemoryInv
<1>9. DiskInv'
  <2>1. a \in folders
    BY <1>1 DEF IInv, TypeOK
  <2> QED BY <1>1, <1>3, <1>4, <2>1 DEF IInv, DiskInv
<1>10. OnceInv'
  BY DEF IInv, Search, Writes, WriteRaises, TypeOK, OnceInv, SubmittedOnce
<1>11. SessionInv'
  BY <1>3, <1>4 DEF IInv, SessionInv
<1>12. HealthyInv'
  BY DEF IInv, Search, Writes, TypeOK, HealthyInv, Complete
<1> QED BY <1>5, <1>6, <1>7, <1>8, <1>9, <1>10, <1>11, <1>12 DEF IInv

LEMMA SearchFailsStep ==
    ASSUME IInv, NEW c \in Callers, SearchFails(c)
    PROVE  IInv'
<1>1. TypeOK'
  BY DEF IInv, SearchFails, Goes, TypeOK, disk, memory, history
<1>2. CallersInv'
  BY DEF IInv, SearchFails, Goes, TypeOK, CallersInv, CallerInv, disk, memory,
         history, Occupies
<1>3. AloneInv'
  BY DEF IInv, SearchFails, Goes, AloneInv, Occupies
<1>4. MemoryInv'
  BY DEF IInv, SearchFails, MemoryInv, memory, history
<1>5. DiskInv'
  BY DEF IInv, SearchFails, TypeOK, CallersInv, CallerInv, DiskInv, disk, history
<1>6. OnceInv'
  BY DEF IInv, SearchFails, disk, history, OnceInv, SubmittedOnce
<1>7. SessionInv'
  BY DEF IInv, SearchFails, TypeOK, disk, memory, SessionInv
<1>8. HealthyInv'
  BY DEF IInv, SearchFails, disk, memory, history, HealthyInv
<1> QED BY <1>1, <1>2, <1>3, <1>4, <1>5, <1>6, <1>7, <1>8 DEF IInv

LEMMA FailStep ==
    ASSUME IInv, NEW c \in Callers, Fail(c)
    PROVE  IInv'
<1> DEFINE a == about[c]
<1>1. a \in Attempts /\ doing[c] = "fail" /\ active[a] # None
  BY DEF IInv, Fail, CallersInv, CallerInv, Occupies
<1>2. WriteRaises(a, "unknown")
  BY DEF Fail
<1>3. /\ records' \in [Attempts -> SUBSET (Complete \cup {"unknown"})]
      /\ \A b \in Attempts \ {a} : records'[b] = records[b]
      /\ records[a] \subseteq records'[a] /\ records'[a] \subseteq records[a] \cup {"unknown"}
      /\ orphans' \subseteq orphans \cup {a}
  BY <1>1, <1>2, Written DEF IInv, Complete
<1>4. TypeOK'
  <2>1. \A b \in Attempts : records[b] \subseteq records'[b]
    BY <1>3
  <2> QED BY <1>1, <1>3, <2>1 DEF IInv, TypeOK, Fail, Busy, Returns, history
<1>5. CallersInv'
  BY DEF IInv, Fail, WriteRaises, Writes, Busy, Returns, TypeOK, CallersInv,
         CallerInv, MemoryInv, history, Occupies
<1>6. AloneInv'
  BY DEF IInv, Fail, Busy, Returns, TypeOK, AloneInv, Occupies
<1>7. MemoryInv'
  BY DEF IInv, Fail, MemoryInv, history
<1>8. DiskInv'
  <2>1. a \in folders
    BY <1>1 DEF IInv, TypeOK
  <2> QED BY <1>1, <1>3, <2>1 DEF IInv, DiskInv, Fail, history
<1>9. OnceInv'
  BY DEF IInv, Fail, WriteRaises, Writes, TypeOK, history, OnceInv, SubmittedOnce
<1>10. SessionInv'
  BY DEF IInv, Fail, WriteRaises, Writes, TypeOK, SessionInv
<1>11. HealthyInv'
  BY DEF IInv, Fail, HealthyInv
<1> QED BY <1>4, <1>5, <1>6, <1>7, <1>8, <1>9, <1>10, <1>11 DEF IInv

LEMMA RetireBeginsStep ==
    ASSUME IInv, NEW c \in Callers, NEW a \in Attempts, RetireBegins(c, a)
    PROVE  IInv'
<1>1. /\ doing[c] = "idle" /\ router = "open" /\ active[a] # None
      /\ a \in answered /\ a \notin retiring /\ retiring' = retiring \cup {a}
  BY DEF RetireBegins, MayRetire
<1>2. WriteRaises(a, "intent")
  BY DEF RetireBegins, WriteRaises
<1>3. /\ records' \in [Attempts -> SUBSET (Complete \cup {"unknown"})]
      /\ \A b \in Attempts \ {a} : records'[b] = records[b]
      /\ records[a] \subseteq records'[a] /\ records'[a] \subseteq records[a] \cup {"intent"}
      /\ orphans' \subseteq orphans \cup {a}
  BY <1>1, <1>2, Written DEF IInv, Complete
<1>4. /\ \/ /\ Writes(a, "intent") /\ UNCHANGED blocked
            /\ doing' = [doing EXCEPT ![c] = "retire"] /\ about' = [about EXCEPT ![c] = a]
         \/ blocked' = TRUE /\ UNCHANGED <<doing, about>>
      /\ UNCHANGED <<pool, folders, sessions, router, routes, active, answered, called>>
  BY DEF RetireBegins, Busy, calls, history
<1>5. \A d \in Callers : Occupies(d) => about[d] # a
  BY <1>1 DEF IInv, CallersInv, CallerInv, Occupies
<1>6. TypeOK'
  <2>1. \A b \in Attempts : records[b] \subseteq records'[b]
    BY <1>3
  <2>2. doing' \in [Callers -> {"idle", "admit", "search", "fail", "retire", "release"}]
    BY <1>4 DEF IInv, TypeOK
  <2>3. about' \in [Callers -> Attempts \cup {None}]
    BY <1>4 DEF IInv, TypeOK
  <2>4. retiring' \subseteq routes' /\ orphans' \subseteq Attempts /\ blocked' \in BOOLEAN
    BY <1>1, <1>3, <1>4 DEF IInv, TypeOK
  <2> QED BY <1>3, <1>4, <2>1, <2>2, <2>3, <2>4 DEF IInv, TypeOK
<1>7. CallersInv'
  <2>1. CallerInv(c)'
    <3>1. CASE doing' = doing /\ about' = about
      BY <1>1, <3>1 DEF CallerInv, Occupies
    <3>2. CASE /\ Writes(a, "intent")
               /\ doing' = [doing EXCEPT ![c] = "retire"] /\ about' = [about EXCEPT ![c] = a]
      <4>1. "intent" \notin records[a] /\ "intent" \in records'[a]
        BY <3>2 DEF Writes, IInv, TypeOK
      <4>2. called[a]["retire"] = 0
        BY <4>1 DEF IInv, OnceInv, TypeOK
      <4>3. doing'[c] = "retire" /\ about'[c] = a
        BY <3>2 DEF IInv, TypeOK
      <4> QED BY <1>1, <1>4, <4>1, <4>2, <4>3 DEF CallerInv, Occupies
    <3> QED BY <1>4, <3>1, <3>2
  <2>2. ASSUME NEW d \in Callers \ {c}
        PROVE  CallerInv(d)'
    <3>1. doing'[d] = doing[d] /\ about'[d] = about[d] /\ CallerInv(d)
      BY <1>4 DEF IInv, TypeOK, CallersInv
    <3>2. Occupies(d) => about[d] \in Attempts \ {a}
      BY <1>5, <3>1 DEF Occupies, CallerInv
    <3> QED BY <1>1, <1>3, <1>4, <3>1, <3>2, CallerKept DEF IInv, TypeOK
  <2> QED BY <2>1, <2>2 DEF CallersInv
<1>8. AloneInv'
  BY DEF IInv, RetireBegins, MayRetire, Busy, TypeOK, CallersInv, CallerInv,
         calls, AloneInv, Occupies
<1>9. MemoryInv'
  BY DEF IInv, RetireBegins, MemoryInv, history
<1>10. DiskInv'
  BY DEF IInv, RetireBegins, Writes, WriteRaises, TypeOK, DiskInv, history
<1>11. OnceInv'
  BY DEF IInv, RetireBegins, Writes, WriteRaises, TypeOK, history, OnceInv,
         SubmittedOnce
<1>12. SessionInv'
  BY DEF IInv, RetireBegins, Writes, WriteRaises, TypeOK, SessionInv
<1>13. HealthyInv'
  BY DEF IInv, RetireBegins, MayRetire, Writes, TypeOK, history, HealthyInv
<1> QED BY <1>6, <1>7, <1>8, <1>9, <1>10, <1>11, <1>12, <1>13 DEF IInv

LEMMA RetireStep ==
    ASSUME IInv, NEW c \in Callers, Retire(c)
    PROVE  IInv'
<1> DEFINE a == about[c]
<1>1. a \in Attempts /\ doing[c] = "retire" /\ active[a] # None /\ a \in retiring
  BY DEF IInv, Retire, CallersInv, CallerInv, Occupies
<1>2. called' = [called EXCEPT ![a]["retire"] = @ + 1]
  BY DEF Retire
<1>3. called' \in [Attempts -> [search : Nat, retire : Nat]]
  BY <1>1, <1>2 DEF IInv, TypeOK
<1>4. \A b \in Attempts \ {a} : called'[b] = called[b]
  BY <1>1, <1>2 DEF IInv, TypeOK
<1>5. /\ \/ doing' = [doing EXCEPT ![c] = "release"] /\ sessions' = [sessions EXCEPT ![a] = None]
         \/ /\ doing' = [doing EXCEPT ![c] = "fail"]
            /\ sessions' \in {sessions, [sessions EXCEPT ![a] = None]}
      /\ UNCHANGED <<pool, folders, records, orphans, router, blocked, routes, active, retiring>>
      /\ UNCHANGED <<about, answered>>
  BY DEF Retire, Unconfirmed, Goes, disk, memory
<1>6. TypeOK'
  <2>1. doing' \in [Callers -> {"idle", "admit", "search", "fail", "retire", "release"}]
    BY <1>5 DEF IInv, TypeOK
  <2>2. sessions' \in [Attempts -> Replicas \cup {None}]
    BY <1>5 DEF IInv, TypeOK
  <2> QED BY <1>3, <1>5, <2>1, <2>2 DEF IInv, TypeOK
<1>7. CallersInv'
  <2>1. CallerInv(c)'
    <3>1. CASE doing' = [doing EXCEPT ![c] = "release"] /\ sessions' = [sessions EXCEPT ![a] = None]
      <4>1. doing'[c] = "release" /\ sessions'[a] = None /\ doing[c] # "idle"
        BY <1>1, <3>1 DEF IInv, TypeOK
      <4> QED BY <1>1, <1>5, <4>1 DEF IInv, CallersInv, CallerInv, Occupies
    <3>2. CASE doing' = [doing EXCEPT ![c] = "fail"]
      <4>1. doing'[c] = "fail" /\ doing[c] # "idle"
        BY <1>1, <3>2 DEF IInv, TypeOK
      <4> QED BY <1>1, <1>5, <4>1 DEF IInv, CallersInv, CallerInv, Occupies
    <3> QED BY <1>5, <3>1, <3>2
  <2>2. ASSUME NEW d \in Callers \ {c}
        PROVE  CallerInv(d)'
    <3>1. doing'[d] = doing[d] /\ about'[d] = about[d] /\ CallerInv(d)
      BY <1>5 DEF IInv, TypeOK, CallersInv
    <3>2. Occupies(d) => about[d] \in Attempts \ {a}
      BY <1>1, <3>1 DEF IInv, AloneInv, Occupies, CallerInv
    <3> QED BY <1>1, <1>4, <1>5, <3>1, <3>2, CallerKept DEF IInv, TypeOK
  <2> QED BY <2>1, <2>2 DEF CallersInv
<1>8. AloneInv'
  BY DEF IInv, Retire, Unconfirmed, Goes, TypeOK, AloneInv, Occupies
<1>9. MemoryInv'
  BY DEF IInv, Retire, MemoryInv, memory
<1>10. DiskInv'
  BY DEF IInv, Retire, TypeOK, CallersInv, CallerInv, DiskInv, disk
<1>11. OnceInv'
  BY DEF IInv, Retire, CallersInv, CallerInv, disk, OnceInv, SubmittedOnce
<1>12. SessionInv'
  BY DEF IInv, Retire, TypeOK, disk, memory, SessionInv
<1>13. HealthyInv'
  BY DEF IInv, Retire, disk, memory, HealthyInv
<1> QED BY <1>6, <1>7, <1>8, <1>9, <1>10, <1>11, <1>12, <1>13 DEF IInv

LEMMA ReleaseStep ==
    ASSUME IInv, NEW c \in Callers, Release(c)
    PROVE  IInv'
<1> DEFINE a == about[c]
<1>1. /\ a \in Attempts /\ doing[c] = "release" /\ active[a] # None
      /\ a \in retiring /\ sessions[a] = None /\ router # "none"
  BY DEF IInv, Release, CallersInv, CallerInv, Occupies
<1>2. WriteRaises(a, "retirement")
  BY DEF Release, WriteRaises
<1>3. /\ records' \in [Attempts -> SUBSET (Complete \cup {"unknown"})]
      /\ \A b \in Attempts \ {a} : records'[b] = records[b]
      /\ records[a] \subseteq records'[a] /\ records'[a] \subseteq records[a] \cup {"retirement"}
      /\ orphans' \subseteq orphans \cup {a}
  BY <1>1, <1>2, Written DEF IInv, Complete
<1>4. /\ \/ /\ Writes(a, "retirement") /\ active' = [active EXCEPT ![a] = None]
            /\ doing' = [doing EXCEPT ![c] = "idle"] /\ about' = [about EXCEPT ![c] = None]
            /\ UNCHANGED blocked
         \/ /\ doing' = [doing EXCEPT ![c] = "fail"] /\ blocked' = TRUE
            /\ UNCHANGED <<active, about>>
      /\ UNCHANGED <<pool, folders, sessions, router, routes, retiring, answered, called>>
  BY DEF Release, Busy, Returns, Goes, history
<1>5. TypeOK'
  <2>1. \A b \in Attempts : records[b] \subseteq records'[b]
    BY <1>3
  <2>2. doing' \in [Callers -> {"idle", "admit", "search", "fail", "retire", "release"}]
    BY <1>4 DEF IInv, TypeOK
  <2>3. about' \in [Callers -> Attempts \cup {None}]
    BY <1>4 DEF IInv, TypeOK
  <2>4. active' \in [Attempts -> Replicas \cup {None}]
    BY <1>4 DEF IInv, TypeOK
  <2>5. \A b \in Attempts : active'[b] # None => b \in routes' /\ "route" \in records'[b]
    BY <1>4, <2>1 DEF IInv, TypeOK
  <2> QED BY <1>1, <1>3, <1>4, <2>2, <2>3, <2>4, <2>5 DEF IInv, TypeOK
<1>6. CallersInv'
  <2>1. CallerInv(c)'
    <3>1. CASE doing' = [doing EXCEPT ![c] = "idle"]
      BY <3>1 DEF IInv, TypeOK, CallerInv, Occupies
    <3>2. CASE doing' = [doing EXCEPT ![c] = "fail"] /\ UNCHANGED <<active, about>>
      <4>1. doing'[c] = "fail"
        BY <3>2 DEF IInv, TypeOK
      <4> QED BY <1>1, <1>4, <3>2, <4>1 DEF CallerInv, Occupies
    <3> QED BY <1>4, <3>1, <3>2
  <2>2. ASSUME NEW d \in Callers \ {c}
        PROVE  CallerInv(d)'
    <3>1. doing'[d] = doing[d] /\ about'[d] = about[d] /\ CallerInv(d)
      BY <1>4 DEF IInv, TypeOK, CallersInv
    <3>2. Occupies(d) => about[d] \in Attempts \ {a}
      BY <1>1, <3>1 DEF IInv, AloneInv, Occupies, CallerInv
    <3> QED BY <1>1, <1>3, <1>4, <3>1, <3>2, CallerKept DEF IInv, TypeOK
  <2> QED BY <2>1, <2>2 DEF CallersInv
<1>7. AloneInv'
  BY DEF IInv, Release, Busy, Returns, Goes, TypeOK, AloneInv, Occupies
<1>8. MemoryInv'
  BY DEF IInv, Release, TypeOK, MemoryInv, history
<1>9. DiskInv'
  BY DEF IInv, Release, Writes, WriteRaises, TypeOK, CallersInv, CallerInv,
         DiskInv, history
<1>10. OnceInv'
  BY DEF IInv, Release, Writes, WriteRaises, TypeOK, CallersInv, MemoryInv,
         history, OnceInv, SubmittedOnce
<1>11. SessionInv'
  BY DEF IInv, Release, Writes, WriteRaises, TypeOK, CallersInv, CallerInv,
         SessionInv
<1>12. HealthyInv'
  BY DEF IInv, Release, Writes, TypeOK, CallersInv, CallerInv, MemoryInv, history,
         HealthyInv, Complete
<1> QED BY <1>5, <1>6, <1>7, <1>8, <1>9, <1>10, <1>11, <1>12 DEF IInv

LEMMA CreateStep ==
    ASSUME IInv, Create
    PROVE  IInv'
<1>1. TypeOK'
  BY DEF IInv, Create, NoRoutes, TypeOK, calls, history
<1>2. CallersInv'
  BY DEF IInv, Create, CallersInv, CallerInv, calls, Occupies
<1>3. AloneInv'
  BY DEF IInv, Create, calls, AloneInv, Occupies
<1>4. MemoryInv'
  BY DEF IInv, Create, NoRoutes, MemoryInv
<1>5. DiskInv'
  BY DEF IInv, Create, DiskInv, history
<1>6. OnceInv'
  BY DEF IInv, Create, history, OnceInv, SubmittedOnce
<1>7. SessionInv'
  BY DEF IInv, Create, DiskInv, SessionInv
<1>8. HealthyInv'
  BY DEF IInv, Create, DiskInv, HealthyInv
<1> QED BY <1>1, <1>2, <1>3, <1>4, <1>5, <1>6, <1>7, <1>8 DEF IInv

LEMMA RestoreStep ==
    ASSUME IInv, Restore
    PROVE  IInv'
<1>1. TypeOK'
  BY DEF IInv, Restore, NoRoutes, TypeOK, disk, calls, history
<1>2. CallersInv'
  BY DEF IInv, Restore, CallersInv, CallerInv, calls, Occupies
<1>3. AloneInv'
  BY DEF IInv, Restore, calls, AloneInv, Occupies
<1>4. MemoryInv'
  BY DEF IInv, Restore, NoRoutes, MemoryInv
<1>5. DiskInv'
  BY DEF IInv, Restore, DiskInv, disk, history
<1>6. OnceInv'
  BY DEF IInv, Restore, disk, history, OnceInv, SubmittedOnce
<1>7. SessionInv'
  BY DEF IInv, Restore, Restorable, Settled, DiskInv, SessionInv, Complete
<1>8. HealthyInv'
  BY DEF IInv, Restore, NoRoutes, Restorable, Settled, TypeOK, DiskInv, disk,
         HealthyInv
<1> QED BY <1>1, <1>2, <1>3, <1>4, <1>5, <1>6, <1>7, <1>8 DEF IInv

LEMMA CloseStep ==
    ASSUME IInv, Close
    PROVE  IInv'
<1>1. TypeOK'
  BY DEF IInv, Close, TypeOK, disk, calls, history
<1>2. CallersInv'
  BY DEF IInv, Close, CallersInv, CallerInv, disk, calls, history, Occupies
<1>3. AloneInv'
  BY DEF IInv, Close, calls, AloneInv, Occupies
<1>4. MemoryInv'
  BY DEF IInv, Close, MemoryInv, history
<1>5. DiskInv'
  BY DEF IInv, Close, DiskInv, disk, history
<1>6. OnceInv'
  BY DEF IInv, Close, disk, history, OnceInv, SubmittedOnce
<1>7. SessionInv'
  BY DEF IInv, Close, disk, SessionInv
<1>8. HealthyInv'
  BY DEF IInv, Close, HealthyInv
<1> QED BY <1>1, <1>2, <1>3, <1>4, <1>5, <1>6, <1>7, <1>8 DEF IInv

LEMMA EndsStep ==
    ASSUME IInv, Ends
    PROVE  IInv'
<1>1. TypeOK'
  BY DEF IInv, Ends, NoRoutes, TypeOK, disk, history
<1>2. CallersInv'
  BY DEF IInv, Ends, CallersInv, CallerInv, Occupies
<1>3. AloneInv'
  BY DEF IInv, Ends, AloneInv, Occupies
<1>4. MemoryInv'
  BY DEF IInv, Ends, NoRoutes, MemoryInv
<1>5. DiskInv'
  BY DEF IInv, Ends, DiskInv, disk, history
<1>6. OnceInv'
  BY DEF IInv, Ends, disk, history, OnceInv, SubmittedOnce
<1>7. SessionInv'
  BY DEF IInv, Ends, disk, SessionInv
<1>8. HealthyInv'
  BY DEF IInv, Ends, HealthyInv
<1> QED BY <1>1, <1>2, <1>3, <1>4, <1>5, <1>6, <1>7, <1>8 DEF IInv

LEMMA StutterInv == ASSUME IInv, UNCHANGED vars PROVE IInv'
<1>1. TypeOK' /\ CallersInv' /\ AloneInv' /\ MemoryInv'
  BY DEF IInv, vars, disk, memory, calls, history, TypeOK, CallersInv, CallerInv,
         AloneInv, MemoryInv, Occupies
<1>2. DiskInv' /\ OnceInv' /\ SessionInv' /\ HealthyInv'
  BY DEF IInv, vars, disk, memory, calls, history, DiskInv, OnceInv, SubmittedOnce,
         SessionInv, HealthyInv
<1> QED BY <1>1, <1>2 DEF IInv

LEMMA StepInv == IInv /\ [Next]_vars => IInv'
<1> SUFFICES ASSUME IInv, [Next]_vars
             PROVE  IInv'
  OBVIOUS
<1>1. ASSUME NEW c \in Callers, NEW a \in Attempts, SearchBegins(c, a) \/ RetireBegins(c, a)
      PROVE  IInv'
  BY <1>1, SearchBeginsStep, RetireBeginsStep
<1>2. ASSUME NEW c \in Callers,
             \/ Refused(c) \/ Admit(c) \/ AdmitFails(c) \/ Search(c) \/ SearchFails(c)
             \/ Retire(c) \/ Release(c) \/ Fail(c)
      PROVE  IInv'
  BY <1>2, RefusedStep, AdmitStep, AdmitFailsStep, SearchStep, SearchFailsStep,
     RetireStep, ReleaseStep, FailStep
<1>3. CASE Create \/ Restore \/ Close \/ Ends
  BY <1>3, CreateStep, RestoreStep, CloseStep, EndsStep
<1>4. CASE UNCHANGED vars
  BY <1>4, StutterInv
<1> QED BY <1>1, <1>2, <1>3, <1>4 DEF Next

-----------------------------------------------------------------------------
(* The theorems.                                                           *)

\* The inductive invariant holds.
THEOREM Invariant == Spec => []IInv
BY InitInv, StepInv, PTL DEF Spec

\* Every variable of the router keeps its type (what __init__, search and retire
\* assign).
THEOREM TypeCorrect == Spec => []TypeOK
<1>1. IInv => TypeOK
  BY DEF IInv
<1> QED BY <1>1, Invariant, PTL

\* No attempt is searched twice and no retirement is sent twice, by whichever
\* threads and over all lives of the pool (search and retire of ReplicaCollector).
THEOREM NeverSubmittedTwice == Spec => []SubmittedOnce
<1>1. IInv => SubmittedOnce
  BY DEF IInv, OnceInv
<1> QED BY <1>1, Invariant, PTL

\* What a router that is not blocked and has nothing under way wrote can be
\* opened again (_restore accepts what search and retire write).
THEOREM QuietRouterReopens == Spec => []QuietCanReopen
<1>1. IInv => QuietCanReopen
  BY DEF IInv, TypeOK, HealthyInv, QuietCanReopen, Restorable, Settled
<1> QED BY <1>1, Invariant, PTL

\* Only Admit calls the search callback.
LEMMA OthersDoNotSearch ==
    ASSUME IInv, [Next]_vars, \A c \in Callers : ~ Admit(c), NEW a \in Attempts
    PROVE  called'[a]["search"] = called[a]["search"]
<1>1. ASSUME NEW c \in Callers, Retire(c)
      PROVE  called'[a]["search"] = called[a]["search"]
  <2>1. called' = [called EXCEPT ![about[c]]["retire"] = @ + 1]
    BY <1>1 DEF Retire
  <2> QED BY <2>1 DEF IInv, TypeOK
<1>2. CASE UNCHANGED called
  BY <1>2
<1>3. ASSUME NEW c \in Callers, NEW b \in Attempts, SearchBegins(c, b) \/ RetireBegins(c, b)
      PROVE  UNCHANGED called
  BY <1>3 DEF SearchBegins, RetireBegins, history
<1>4. ASSUME NEW c \in Callers,
             Refused(c) \/ AdmitFails(c) \/ Search(c) \/ SearchFails(c) \/ Release(c) \/ Fail(c)
      PROVE  UNCHANGED called
  BY <1>4 DEF Refused, AdmitFails, Search, SearchFails, Release, Fail, history
<1>5. CASE Create \/ Restore \/ Close \/ Ends \/ UNCHANGED vars
  BY <1>5 DEF Create, Restore, Close, Ends, vars, history
<1> QED BY <1>1, <1>2, <1>3, <1>4, <1>5 DEF Next

\* Once an unknown outcome is on disk, no search is called any more (the blocked
\* flag and the checks of _restore together).
THEOREM UnknownNeverOvertaken == Spec => UnknownStopsDispatch
<1>1. ASSUME IInv, [Next]_vars, NEW a \in Attempts, called'[a]["search"] # called[a]["search"]
      PROVE  orphans = {} /\ \A b \in Attempts : "unknown" \notin records[b]
  <2>1. PICK c \in Callers : Admit(c)
    BY <1>1, OthersDoNotSearch
  <2>2. router = "open" /\ ~blocked
    BY <2>1 DEF Admit, MayAdmit
  <2>3. orphans = {} /\ \A b \in folders : "unknown" \notin records[b]
    BY <1>1, <2>2 DEF IInv, HealthyInv, Complete
  <2>4. \A b \in Attempts \ folders : records[b] = {}
    BY <1>1 DEF IInv, DiskInv
  <2> QED BY <2>3, <2>4
<1>2. IInv /\ [Next]_vars =>
        [\A a \in Attempts :
           called'[a]["search"] # called[a]["search"] =>
              orphans = {} /\ \A b \in Attempts : "unknown" \notin records[b]]_vars
  BY <1>1
<1> QED BY <1>2, Invariant, PTL DEF Spec, UnknownStopsDispatch

\* Both of search and retire: no call is made twice, and no search is called once
\* an unknown outcome is on disk.
THEOREM DispatchedOnce == Spec => DispatchesOnce
BY NeverSubmittedTwice, UnknownNeverOvertaken, PTL DEF DispatchesOnce

-----------------------------------------------------------------------------
(* The router gives out sessions as SessionSlots does.                     *)

Holders == [r \in Replicas |-> {a \in Attempts : sessions[a] = r}]
Used == {a \in Attempts : called[a]["search"] > 0}

LEMMA SlotsInit == Init => Slots!Init
<1> SUFFICES ASSUME Init
             PROVE  Slots!Init
  OBVIOUS
<1>1. \A r \in Replicas : {a \in Attempts : sessions[a] = r} = {}
  BY RouterAssumption DEF Init
<1>2. {a \in Attempts : called[a]["search"] > 0} = {}
  BY DEF Init
<1> QED BY <1>1, <1>2 DEF Slots!Init

\* Admission grants the first free replica.
LEMMA AdmitGrants ==
    ASSUME IInv, NEW c \in Callers, Admit(c)
    PROVE  Slots!Next
<1> DEFINE a == about[c]
           r == FirstFree
<1>1. a \in Attempts /\ router = "open" /\ a \notin folders
  BY DEF IInv, Admit, MayAdmit, CallersInv, CallerInv
<1>2. r \in Replicas /\ r # None /\ \A b \in Attempts : active[b] # r
  BY FirstFreeIsFree, RouterAssumption DEF Admit, MayAdmit, Free, Occupied
<1>3. /\ sessions' = [sessions EXCEPT ![a] = r]
      /\ called' = [called EXCEPT ![a]["search"] = @ + 1]
  BY DEF Admit
<1>4. sessions[a] = None /\ called[a]["search"] = 0
  BY <1>1 DEF IInv, DiskInv
<1>5. \A b \in Attempts : sessions[b] # r
  BY <1>1, <1>2 DEF IInv, SessionInv
<1> HIDE DEF r
<1>6. a \notin Used /\ Used' = Used \cup {a}
  <2>1. called'[a]["search"] = 1 /\ \A b \in Attempts \ {a} : called'[b] = called[b]
    BY <1>1, <1>3, <1>4 DEF IInv, TypeOK
  <2> QED BY <1>1, <1>4, <2>1 DEF Used
<1>7. Holders[r] = {} /\ Holders' = [Holders EXCEPT ![r] = {a}]
  <2>1. Holders[r] = {}
    BY <1>2, <1>5 DEF Holders
  <2>2. ASSUME NEW s \in Replicas
        PROVE  {b \in Attempts : sessions'[b] = s} =
                 IF s = r THEN {a} ELSE {b \in Attempts : sessions[b] = s}
    <3>1. sessions'[a] = r /\ \A b \in Attempts \ {a} : sessions'[b] = sessions[b]
      BY <1>1, <1>3 DEF IInv, TypeOK
    <3>2. sessions[a] # s
      BY <1>4, RouterAssumption
    <3> QED BY <1>1, <1>5, <3>1, <3>2
  <2> QED BY <2>1, <2>2 DEF Holders
<1> QED BY <1>1, <1>2, <1>6, <1>7 DEF Slots!Next, Slots!Grant, Holders, Used

\* Where a session goes, a slot is returned.
LEMMA GoneReturns ==
    ASSUME IInv, NEW a \in Attempts, sessions' = [sessions EXCEPT ![a] = None],
           \A b \in Attempts : called'[b]["search"] = called[b]["search"]
    PROVE  [Slots!Next]_<<Holders, Used>>
<1>1. Used' = Used
  BY DEF Used
<1>2. sessions'[a] = None /\ \A b \in Attempts \ {a} : sessions'[b] = sessions[b]
  BY DEF IInv, TypeOK
<1>3. CASE sessions[a] = None
  <2>1. \A s \in Replicas : {b \in Attempts : sessions'[b] = s} = {b \in Attempts : sessions[b] = s}
    BY <1>2, <1>3
  <2> QED BY <1>1, <2>1 DEF Holders
<1>4. CASE sessions[a] # None
  <2> DEFINE r == sessions[a]
  <2>1. r \in Replicas /\ a \in Holders[r]
    BY <1>4 DEF IInv, TypeOK, Holders
  <2>2. ASSUME NEW s \in Replicas
        PROVE  {b \in Attempts : sessions'[b] = s} =
                 IF s = r THEN {b \in Attempts : sessions[b] = s} \ {a}
                 ELSE {b \in Attempts : sessions[b] = s}
    BY <1>2, RouterAssumption
  <2> HIDE DEF r
  <2>3. Holders' = [Holders EXCEPT ![r] = @ \ {a}]
    <3>1. Holders' = [s \in Replicas |-> {b \in Attempts : sessions'[b] = s}]
      BY DEF Holders
    <3>2. [Holders EXCEPT ![r] = @ \ {a}] =
            [s \in Replicas |-> IF s = r THEN {b \in Attempts : sessions[b] = s} \ {a}
                               ELSE {b \in Attempts : sessions[b] = s}]
      BY <2>1 DEF Holders
    <3> QED BY <2>2, <3>1, <3>2, Zenon
  <2> QED BY <1>1, <2>1, <2>3 DEF Slots!Next, Slots!Return, Holders, Used
<1> QED BY <1>3, <1>4

\* Only search and retire tell anything about a session.
LEMMA OthersKeepSessions ==
    ASSUME [Next]_vars,
           \A c \in Callers : ~ Admit(c) /\ ~ Retire(c) /\ ~ SearchFails(c)
    PROVE  UNCHANGED <<sessions, called>>
<1>1. ASSUME NEW c \in Callers, NEW b \in Attempts, SearchBegins(c, b) \/ RetireBegins(c, b)
      PROVE  UNCHANGED <<sessions, called>>
  BY <1>1 DEF SearchBegins, RetireBegins, history
<1>2. ASSUME NEW c \in Callers,
             Refused(c) \/ AdmitFails(c) \/ Search(c) \/ Release(c) \/ Fail(c)
      PROVE  UNCHANGED <<sessions, called>>
  BY <1>2 DEF Refused, AdmitFails, Search, Release, Fail, history
<1>3. CASE Create \/ Restore \/ Close \/ Ends \/ UNCHANGED vars
  BY <1>3 DEF Create, Restore, Close, Ends, vars, history
<1> QED BY <1>1, <1>2, <1>3 DEF Next

LEMMA SlotsStep == IInv /\ [Next]_vars => [Slots!Next]_<<Holders, Used>>
<1> SUFFICES ASSUME IInv, [Next]_vars
             PROVE  [Slots!Next]_<<Holders, Used>>
  OBVIOUS
<1>1. ASSUME NEW c \in Callers, Admit(c)
      PROVE  Slots!Next
  BY <1>1, AdmitGrants
<1>2. ASSUME NEW c \in Callers, Retire(c) \/ SearchFails(c)
      PROVE  [Slots!Next]_<<Holders, Used>>
  <2>1. doing[c] # "admit" /\ about[c] \in Attempts
    BY <1>2 DEF Retire, SearchFails, IInv, CallersInv, CallerInv
  <2>2. \A b \in Attempts : called'[b]["search"] = called[b]["search"]
    <3>1. CASE SearchFails(c)
      BY <3>1 DEF SearchFails, history
    <3>2. CASE Retire(c)
      <4>1. called' = [called EXCEPT ![about[c]]["retire"] = @ + 1]
        BY <3>2 DEF Retire
      <4> QED BY <4>1 DEF IInv, TypeOK
    <3> QED BY <1>2, <3>1, <3>2
  <2>3. sessions' = sessions \/ sessions' = [sessions EXCEPT ![about[c]] = None]
    BY <1>2 DEF Retire, SearchFails
  <2>4. CASE sessions' = sessions
    BY <2>2, <2>4 DEF Holders, Used
  <2>5. CASE sessions' = [sessions EXCEPT ![about[c]] = None]
    BY <2>1, <2>2, <2>5, GoneReturns
  <2> QED BY <2>3, <2>4, <2>5
<1>3. CASE UNCHANGED <<sessions, called>>
  BY <1>3 DEF Holders, Used
<1> QED BY <1>1, <1>2, <1>3, OthersKeepSessions

\* One session for an attempt in its life, one for a replica at a time: the router
\* implements SessionSlots for any number of attempts, threads and replicas.
THEOREM SlotsKept == Spec => KeepsSlots
<1>1. Init => Slots!Init
  BY SlotsInit
<1>2. IInv /\ [Next]_vars => [Slots!Next]_<<Holders, Used>>
  BY SlotsStep
<1> QED BY <1>1, <1>2, Invariant, PTL DEF Spec, KeepsSlots, Slots!Spec, Holders, Used

-----------------------------------------------------------------------------
(* CollectorSession: a record is valid where its predecessor allows it.    *)

Kinds == {"collector_contract", "generation", "eval", "checkpoint", "checkpoint_ack"}
Recorded == [kind : Kinds, step : Nat, solved : BOOLEAN]

\* Every variable keeps its type.
SessionType ==
    /\ phase \in {"none", "start", "handshake", "search", "wait", "export", "conclude", "close", "over"}
    /\ step \in Nat /\ asked \in BOOLEAN /\ root \in BOOLEAN /\ proved \in BOOLEAN
    /\ code \in {Absent, -1, 0, 1}
    /\ stream \in Seq(Recorded) /\ torn \in BOOLEAN /\ acks \subseteq Int
    /\ tree \in [step : Int, solved : BOOLEAN] \cup {Absent}
    /\ result \in {Absent, "solved", "exhausted", "exception", "unreadable"}
    /\ candidate \in BOOLEAN /\ report \in {Absent, "failed_unknown", "solved", "exhausted"}
    /\ session \in BOOLEAN
    /\ pc \in {"create", "start", "poll", "classify", "propose", "stop", "report", "done", "dead"}
    /\ cursor \in Nat /\ ready \in BOOLEAN /\ lastStep \in Int /\ pendingAck \in Nat \cup {Absent}
    /\ generated \in Int /\ frame \in Recorded \cup {Absent}
    /\ error \in {"none", "create", "start", "protocol", "acknowledgement", "incomplete",
                  "outcome", "proof"}

Last == stream[Len(stream)]

\* The iteration Lean is in after a record, and what may follow it.
Current(r) == IF r.kind = "checkpoint_ack" THEN r.step + 1 ELSE r.step
Follows(r, s) ==
    /\ s.step = Current(r) /\ s.kind # "collector_contract"
    /\ r.kind = "generation" <=> s.kind = "eval"
    /\ r.kind = "checkpoint" <=> s.kind = "checkpoint_ack"
    /\ s.kind = "checkpoint_ack" => s.solved = r.solved

\* The last iteration with a checkpoint, up to a record.
Reached(r) == IF r.kind \in {"checkpoint", "checkpoint_ack"} THEN r.step ELSE r.step - 1
CheckpointSteps == {stream[i].step : i \in Indices("checkpoint")}

\* The stream is a run of Lean's search.
Streamed ==
    /\ stream # <<>> => stream[1].kind = "collector_contract" /\ stream[1].step = 0
    /\ \A i \in DOMAIN stream :
          /\ stream[i].step <= step
          /\ i + 1 \in DOMAIN stream => Follows(stream[i], stream[i + 1])
    /\ CheckpointSteps = IF stream = <<>> THEN {} ELSE 0..Reached(Last)
    /\ IsFiniteSet(Indices("generation")) /\ IsFiniteSet(Indices("eval"))
    /\ Cardinality(Indices("generation")) =
          Cardinality(Indices("eval")) + IF stream # <<>> /\ Last.kind = "generation" THEN 1 ELSE 0

\* Where Lean is after its last record.
Searches ==
    /\ phase \in {"none", "start"} => stream = <<>> /\ step = 0 /\ ~asked
    /\ phase = "handshake" => Last.kind = "collector_contract" /\ step = 0 /\ ~asked
    /\ phase \in {"handshake", "search"} =>
          /\ stream # <<>> /\ Current(Last) = step /\ Last.kind # "checkpoint"
          /\ asked <=> Last.kind = "generation"
    /\ phase = "wait" => stream # <<>> /\ ~asked /\ Last = Record("checkpoint")
    /\ phase \in {"export", "conclude", "close"} =>
          stream # <<>> /\ Last = Record("checkpoint_ack")

\* The coordinator knows what the last accepted record says.
Reading ==
    /\ cursor <= Len(stream)
    /\ cursor = 0 => ~ready /\ lastStep = -1 /\ pendingAck = Absent /\ generated = 0
    /\ cursor > 0 =>
          LET r == stream[cursor] IN
          /\ ready /\ lastStep = Reached(r)
          /\ pendingAck = IF r.kind = "checkpoint" THEN r.step ELSE Absent
          /\ generated = IF r.kind = "generation" THEN 1 ELSE 0
          /\ r.kind \in {"checkpoint", "checkpoint_ack"} =>
                frame = [kind |-> "checkpoint", step |-> r.step, solved |-> r.solved]

\* What is acknowledged was checked, and Lean goes on only with what is acknowledged.
Barred ==
    /\ acks \subseteq {Ready} \cup CheckpointSteps
    /\ phase \in {"search", "wait", "export", "conclude", "close"} =>
          Ready \in acks /\ 0..step - 1 \subseteq acks
    /\ phase \in {"export", "conclude", "close"} => step \in acks
    /\ result \in {"solved", "exhausted"} => step \in acks

\* The files Lean leaves.
Left ==
    /\ tree # Absent => /\ phase \in {"conclude", "close", "over"}
                      /\ stream # <<>> /\ Last.kind = "checkpoint_ack" /\ Last.step = step
                      /\ tree \in {Unreadable, [step |-> step, solved |-> root]}
    /\ result # Absent => phase \in {"close", "over"}
    /\ proved <=> result = "solved"

\* Where the collector is, and what it knows there.
Collecting ==
    /\ pc \in {"create", "start"} => phase = "none"
    /\ pc \in {"report", "done"} => phase \in {"none", "over"}
    /\ pc \in {"create", "start", "poll", "classify", "propose"} => error = "none" /\ ~candidate
    /\ pc \in {"start", "poll", "classify", "propose"} => session
    /\ error # "protocol" /\ (pc = "stop" => error # "none")
    /\ pc \in {"classify", "propose"} \/ (pc \in {"report", "done"} /\ error = "none") =>
          /\ phase = "over" /\ cursor = Len(stream) /\ cursor > 0 /\ session
          /\ stream[cursor].kind = "checkpoint_ack"
    /\ pc = "propose" => Classified = "solved"
    /\ pc \in {"report", "done"} /\ error = "none" =>
          Classified = IF candidate THEN "solved" ELSE "exhausted"
    /\ candidate => proved
    /\ report # Absent => pc = "done" /\ report = Status

CollectorInv == Streamed /\ Searches /\ Reading /\ Barred /\ Left /\ Collecting

\* What is said of the stream stays true while nothing is appended.
LEMMA SameStream ==
  UNCHANGED stream =>
    UNCHANGED <<Last, CheckpointSteps, Indices("generation"), Indices("eval")>>
  BY DEF Last, CheckpointSteps, Indices

\* The records of the stream are records.
LEMMA RecordsType ==
  ASSUME SessionType
  PROVE  /\ \A kind \in Kinds : Record(kind) \in Recorded
         /\ \A i \in DOMAIN stream : stream[i] \in Recorded
         /\ stream # <<>> => Len(stream) \in DOMAIN stream /\ Last \in Recorded
         /\ Len(stream) \in Nat /\ DOMAIN stream = 1..Len(stream)
         /\ stream = <<>> <=> Len(stream) = 0
  <1>1. \A kind \in Kinds : Record(kind) \in Recorded
    BY DEF SessionType, Record, Recorded
  <1>2. /\ Len(stream) \in Nat /\ DOMAIN stream = 1..Len(stream)
        /\ stream = <<>> <=> Len(stream) = 0
        /\ \A i \in DOMAIN stream : stream[i] \in Recorded
    BY EmptySeq DEF SessionType
  <1> QED
    BY <1>1, <1>2 DEF Last

\* A record that follows the last one makes a longer stream.
LEMMA Appended ==
  ASSUME SessionType, Streamed, NEW kind \in Kinds, stream' = Append(stream, Record(kind)),
         step' \in Nat, step <= step',
         stream = <<>> => kind = "collector_contract" /\ step = 0,
         stream # <<>> => Follows(Last, Record(kind))
  PROVE  /\ Streamed' /\ Last' = Record(kind) /\ stream' # <<>> /\ Len(stream') = Len(stream) + 1
         /\ \A i \in DOMAIN stream : stream'[i] = stream[i]
         /\ CheckpointSteps \subseteq CheckpointSteps'
  <1>0. PICK r, n : r = Record(kind) /\ n = Len(stream)
    OBVIOUS
  <1>1. /\ r \in Recorded /\ r.kind = kind /\ r.step = step /\ step \in Nat /\ n \in Nat
        /\ stream \in Seq(Recorded) /\ DOMAIN stream = 1..n
        /\ \A i \in DOMAIN stream : stream[i] \in Recorded
        /\ stream = <<>> <=> n = 0
        /\ stream # <<>> => Last \in Recorded /\ Last = stream[n]
    BY <1>0, RecordsType DEF SessionType, Record, Last
  <1>2. /\ stream' \in Seq(Recorded) /\ Len(stream') = n + 1 /\ DOMAIN stream' = 1..(n + 1)
        /\ stream'[n + 1] = r /\ \A i \in 1..n : stream'[i] = stream[i]
        /\ stream' # <<>>
    BY <1>0, <1>1
  <1>3. Last' = r
    BY <1>2 DEF Last
  <1>4. stream # <<>> => Follows(Last, r)
    BY <1>0
  <1>5. stream'[1].kind = "collector_contract" /\ stream'[1].step = 0
    <2>1. CASE n = 0
      BY <1>1, <1>2, <2>1
    <2>2. CASE n # 0
      BY <1>1, <1>2, <2>2 DEF Streamed
    <2> QED
      BY <2>1, <2>2
  <1>6. ASSUME NEW i \in DOMAIN stream'
        PROVE  /\ stream'[i].step <= step'
               /\ i + 1 \in DOMAIN stream' => Follows(stream'[i], stream'[i + 1])
    <2>1. CASE i = n + 1
      <3>1. stream'[i] = r /\ r.step <= step' /\ i + 1 \notin DOMAIN stream'
        BY <1>1, <1>2, <2>1
      <3>2. stream'[i].step <= step'
        BY <3>1
      <3> QED
        BY <3>1, <3>2
    <2>2. CASE i \in 1..n
      <3>1. stream'[i] = stream[i] /\ stream[i].step <= step /\ stream[i] \in Recorded
        BY <1>1, <1>2, <2>2 DEF Streamed
      <3>2. stream[i].step \in Nat
        BY <3>1 DEF Recorded
      <3>3. CASE i = n
        BY <1>1, <1>2, <1>4, <2>2, <3>1, <3>2, <3>3
      <3>4. CASE i # n
        <4>1. i + 1 \in DOMAIN stream /\ stream'[i + 1] = stream[i + 1]
          BY <1>1, <1>2, <2>2, <3>4
        <4>2. Follows(stream[i], stream[i + 1])
          BY <1>1, <2>2, <4>1 DEF Streamed
        <4> QED
          BY <1>1, <3>1, <3>2, <4>1, <4>2
      <3> QED
        BY <3>3, <3>4
    <2> QED
      BY <1>1, <1>2, <2>1, <2>2
  <1>7. ASSUME NEW k \in Kinds
        PROVE  /\ Indices(k)' = IF k = kind THEN Indices(k) \cup {n + 1} ELSE Indices(k)
               /\ n + 1 \notin Indices(k)
    BY <1>1, <1>2 DEF Indices
  <1>8. CheckpointSteps' = IF kind = "checkpoint" THEN CheckpointSteps \cup {step} ELSE CheckpointSteps
    <2>1. Indices("checkpoint")' =
             IF kind = "checkpoint" THEN Indices("checkpoint") \cup {n + 1} ELSE Indices("checkpoint")
      BY <1>7 DEF Kinds
    <2>2. \A i \in Indices("checkpoint") : i \in 1..n /\ stream'[i] = stream[i]
      BY <1>1, <1>2 DEF Indices
    <2>3. stream'[n + 1].step = step
      BY <1>1, <1>2
    <2> HIDE DEF Indices
    <2> QED
      BY <2>1, <2>2, <2>3 DEF CheckpointSteps
  <1>9. CheckpointSteps' = 0..Reached(r)
    <2>1. CASE stream = <<>>
      BY <1>1, <1>8, <2>1 DEF Streamed, Reached
    <2>2. CASE stream # <<>>
      <3>1. CheckpointSteps = 0..Reached(Last) /\ Last.step \in Nat /\ Last.kind \in Kinds
        BY <1>1, <2>2 DEF Streamed, Recorded
      <3>2. kind = "checkpoint" => Reached(r) = Reached(Last) + 1 /\ step = Reached(r)
        BY <1>1, <1>4, <2>2, <3>1 DEF Follows, Current, Reached, Kinds
      <3>3. kind # "checkpoint" => Reached(r) = Reached(Last)
        BY <1>1, <1>4, <2>2, <3>1 DEF Follows, Current, Reached, Kinds
      <3>4. PICK m : m = Reached(Last)
        OBVIOUS
      <3>5. m \in Int /\ m >= -1
        BY <3>1, <3>4 DEF Reached
      <3>6. CASE kind = "checkpoint"
        <4>1. CheckpointSteps' = 0..m \cup {m + 1} /\ Reached(r) = m + 1
          BY <1>8, <3>1, <3>2, <3>4, <3>6
        <4>2. 0..m \cup {m + 1} = 0..(m + 1)
          BY <3>5
        <4> QED
          BY <4>1, <4>2
      <3>7. CASE kind # "checkpoint"
        BY <1>8, <3>1, <3>3, <3>7
      <3> QED
        BY <3>6, <3>7
    <2> QED
      BY <2>1, <2>2
  <1>10. /\ IsFiniteSet(Indices("generation"))' /\ IsFiniteSet(Indices("eval"))'
         /\ Cardinality(Indices("generation"))' =
               Cardinality(Indices("eval"))' + IF kind = "generation" THEN 1 ELSE 0
    <2>1. /\ Indices("generation")' = IF kind = "generation" THEN Indices("generation") \cup {n + 1}
                                                              ELSE Indices("generation")
          /\ Indices("eval")' = IF kind = "eval" THEN Indices("eval") \cup {n + 1} ELSE Indices("eval")
          /\ n + 1 \notin Indices("generation") /\ n + 1 \notin Indices("eval")
      BY <1>7 DEF Kinds
    <2>2. /\ IsFiniteSet(Indices("generation")) /\ IsFiniteSet(Indices("eval"))
          /\ Cardinality(Indices("generation")) =
                Cardinality(Indices("eval")) + IF stream # <<>> /\ Last.kind = "generation" THEN 1 ELSE 0
      BY DEF Streamed
    <2>3. kind = "eval" <=> (stream # <<>> /\ Last.kind = "generation")
      BY <1>1, <1>4 DEF Follows
    <2>4. PICK G, E : G = Indices("generation") /\ E = Indices("eval")
      OBVIOUS
    <2>5. PICK g, e : g = Cardinality(G) /\ e = Cardinality(E)
      OBVIOUS
    <2>6. /\ IsFiniteSet(G) /\ IsFiniteSet(E) /\ n + 1 \notin G /\ n + 1 \notin E
          /\ g \in Nat /\ e \in Nat /\ g = e + IF kind = "eval" THEN 1 ELSE 0
      BY <2>1, <2>2, <2>3, <2>4, <2>5, FS_CardinalityType
    <2>7. /\ IsFiniteSet(G \cup {n + 1}) /\ Cardinality(G \cup {n + 1}) = g + 1
          /\ IsFiniteSet(E \cup {n + 1}) /\ Cardinality(E \cup {n + 1}) = e + 1
      BY <2>5, <2>6, FS_AddElement
    <2>8. PICK GN, EN : GN = Indices("generation")' /\ EN = Indices("eval")'
      OBVIOUS
    <2>9. /\ GN = IF kind = "generation" THEN G \cup {n + 1} ELSE G
          /\ EN = IF kind = "eval" THEN E \cup {n + 1} ELSE E
      BY <2>1, <2>4, <2>8
    <2>10. /\ IsFiniteSet(GN) /\ IsFiniteSet(EN)
           /\ Cardinality(GN) = Cardinality(EN) + IF kind = "generation" THEN 1 ELSE 0
      <3>1. CASE kind = "generation"
        <4>1. GN = G \cup {n + 1} /\ EN = E /\ g = e
          BY <2>6, <2>9, <3>1
        <4> QED
          BY <2>5, <2>6, <2>7, <3>1, <4>1
      <3>2. CASE kind = "eval"
        <4>1. GN = G /\ EN = E \cup {n + 1} /\ g = e + 1
          BY <2>6, <2>9, <3>2
        <4>2. IsFiniteSet(EN) /\ Cardinality(EN) = e + 1
          BY <2>7, <4>1
        <4>3. IsFiniteSet(GN) /\ Cardinality(GN) = g
          BY <2>5, <2>6, <4>1
        <4> QED
          BY <2>6, <3>2, <4>1, <4>2, <4>3
      <3>3. CASE kind \notin {"generation", "eval"}
        <4>1. GN = G /\ EN = E /\ g = e
          BY <2>6, <2>9, <3>3
        <4> QED
          BY <2>5, <2>6, <3>3, <4>1
      <3> QED
        BY <3>1, <3>2, <3>3
    <2> QED
      BY <2>8, <2>10
  <1>11. Streamed'
    <2>1. /\ stream' # <<>> => stream'[1].kind = "collector_contract" /\ stream'[1].step = 0
          /\ \A i \in DOMAIN stream' : /\ stream'[i].step <= step'
                                       /\ i + 1 \in DOMAIN stream' => Follows(stream'[i], stream'[i + 1])
      BY <1>5, <1>6
    <2>2. (CheckpointSteps = IF stream = <<>> THEN {} ELSE 0..Reached(Last))'
      BY <1>2, <1>3, <1>9 DEF Reached
    <2>3. (Cardinality(Indices("generation")) =
             Cardinality(Indices("eval")) + IF stream # <<>> /\ Last.kind = "generation" THEN 1 ELSE 0)'
      BY <1>1, <1>2, <1>3, <1>10
    <2> HIDE DEF Indices, CheckpointSteps
    <2> QED
      BY <1>10, <2>1, <2>2, <2>3 DEF Streamed, Follows, Current
  <1> QED
    BY <1>0, <1>1, <1>2, <1>3, <1>8, <1>11

\* The coordinator's view of what it accepted is not changed by Lean.
LEMMA LeanReads ==
  ASSUME SessionType, Reading, UNCHANGED coordinator, Len(stream') \in Nat, Len(stream) <= Len(stream'),
         \A i \in DOMAIN stream : stream'[i] = stream[i]
  PROVE  Reading'
  <1>1. /\ UNCHANGED <<cursor, ready, lastStep, pendingAck, generated, frame>>
        /\ cursor \in Nat /\ Len(stream) \in Nat /\ DOMAIN stream = 1..Len(stream)
    BY DEF coordinator, SessionType
  <1>2. cursor > 0 => stream'[cursor] = stream[cursor]
    BY <1>1 DEF Reading
  <1>3. cursor' <= Len(stream')
    BY <1>1 DEF Reading
  <1> QED
    BY <1>1, <1>2, <1>3 DEF Reading, Reached

\* While Lean runs the collector does not conclude anything.
LEMMA LeanCollects ==
  ASSUME SessionType, Collecting, phase \notin {"none", "over"},
         UNCHANGED <<pc, error, candidate, session, report>>, proved => proved'
  PROVE  Collecting'
  BY DEF Collecting, Status

\* A stream nothing is appended to stays a run of the search.
LEMMA StreamStays == ASSUME Streamed, UNCHANGED <<stream, step>> PROVE Streamed'
  <1>1. UNCHANGED <<Last, CheckpointSteps, Indices("generation"), Indices("eval")>>
    BY SameStream
  <1>2. /\ stream' # <<>> => stream'[1].kind = "collector_contract" /\ stream'[1].step = 0
        /\ \A i \in DOMAIN stream' :
              /\ stream'[i].step <= step'
              /\ i + 1 \in DOMAIN stream' => Follows(stream'[i], stream'[i + 1])
    BY DEF Streamed
  <1>3. /\ CheckpointSteps' = IF stream' = <<>> THEN {} ELSE 0..Reached(Last')
        /\ IsFiniteSet(Indices("generation")') /\ IsFiniteSet(Indices("eval")')
        /\ Cardinality(Indices("generation")') =
              Cardinality(Indices("eval")') + IF stream' # <<>> /\ Last'.kind = "generation" THEN 1 ELSE 0
    BY <1>1 DEF Streamed
  <1> QED
    BY <1>2, <1>3 DEF Streamed, Follows, Current, Reached

\* A step that records and accepts nothing leaves the stream and its reader as they are.
LEMMA LeanSilent ==
  ASSUME SessionType, Streamed, Reading, UNCHANGED <<stream, step, coordinator>>
  PROVE  Streamed' /\ Reading'
  <1>1. Streamed'
    BY StreamStays
  <1>2. Reading'
    BY RecordsType, LeanReads
  <1> QED
    BY <1>1, <1>2

\* Lean's steps keep everybody's types.
LEMMA LeanTypes == ASSUME SessionType, LeanNext PROVE SessionType'
  <1>1. /\ UNCHANGED <<acks, session, pc, cursor, ready, lastStep, pendingAck, generated, frame>>
        /\ UNCHANGED <<candidate, report, error>>
    BY DEF LeanNext, Contract, Handshake, Generate, Evaluate, Checkpoint, TakeAck, WriteTree,
       Exhausts,
       Solves, Closes, Raises, Killed, Elsewhere, coordinator, outcome
  <1>2. stream' \in Seq(Recorded)
    <2>1. UNCHANGED stream \/ \E kind \in Kinds : stream' = Append(stream, Record(kind))
      BY DEF LeanNext, Contract, Handshake, Generate, Evaluate, Checkpoint, TakeAck, WriteTree,
         Exhausts,
         Solves, Closes, Raises, Killed, Dead, Emits, observer, Kinds
    <2> QED
      BY <2>1, RecordsType DEF SessionType
  <1>3. /\ phase' \in {"none", "start", "handshake", "search", "wait", "export", "conclude", "close", "over"}
        /\ code' \in {Absent, -1, 0, 1}
    BY DEF LeanNext, Contract, Handshake, Generate, Evaluate, Checkpoint, TakeAck, WriteTree,
       Exhausts,
       Solves, Closes, Raises, Killed, Dead, SessionType
  <1>4. step' \in Nat /\ asked' \in BOOLEAN /\ root' \in BOOLEAN /\ proved' \in BOOLEAN
    <2>1. step' \in {step, step + 1}
      BY DEF LeanNext, Contract, Handshake, Generate, Evaluate, Checkpoint, TakeAck, WriteTree,
         Exhausts, Solves, Closes, Raises, Killed, Dead
    <2>2. asked' \in {asked, TRUE, FALSE} /\ proved' \in {proved, TRUE}
      BY DEF LeanNext, Contract, Handshake, Generate, Evaluate, Checkpoint, TakeAck, WriteTree,
         Exhausts, Solves, Closes, Raises, Killed, Dead
    <2>3. root' \in {root, TRUE}
      BY DEF LeanNext, Contract, Handshake, Generate, Evaluate, Checkpoint, TakeAck, WriteTree,
         Exhausts, Solves, Closes, Raises, Killed, Dead
    <2>4. step' \in Nat
      BY <2>1 DEF SessionType
    <2>5. asked \in {TRUE, FALSE} /\ root \in {TRUE, FALSE} /\ proved \in {TRUE, FALSE}
      BY DEF SessionType
    <2>6. asked' \in {TRUE, FALSE} /\ root' \in {TRUE, FALSE} /\ proved' \in {TRUE, FALSE}
      BY <2>2, <2>3, <2>5
    <2> QED
      BY <2>4, <2>6
  <1>5. torn' \in BOOLEAN /\ result' \in {Absent, "solved", "exhausted", "exception", "unreadable"}
    BY DEF LeanNext, Contract, Handshake, Generate, Evaluate, Checkpoint, TakeAck, WriteTree,
       Exhausts,
       Solves, Closes, Raises, Killed, Dead, Emits, SessionType, observer, files
  <1>6. tree' \in [step : Int, solved : BOOLEAN] \cup {Absent}
    <2>1. \/ UNCHANGED tree \/ tree' \in {Absent, Unreadable} \/ tree' = [step |-> step, solved |-> root]
      BY DEF LeanNext, Contract, Handshake, Generate, Evaluate, Checkpoint, TakeAck, WriteTree,
         Exhausts,
         Solves, Closes, Raises, Killed, Dead, files
    <2>2. Unreadable \in [step : Int, solved : BOOLEAN]
      BY DEF Unreadable
    <2>3. [step |-> step, solved |-> root] \in [step : Int, solved : BOOLEAN]
      BY DEF SessionType
    <2>4. tree \in [step : Int, solved : BOOLEAN] \cup {Absent}
      BY DEF SessionType
    <2> QED
      BY <2>1, <2>2, <2>3, <2>4
  <1> QED
    BY <1>1, <1>2, <1>3, <1>4, <1>5, <1>6 DEF SessionType

\* A step in which Lean appends a record.
LEMMA LeanRecords ==
  ASSUME SessionType, CollectorInv, NEW kind \in Kinds, stream' = Append(stream, Record(kind)),
         step' \in {step, step + 1}, Elsewhere, UNCHANGED <<proved, code, files>>,
         phase \in {"start", "search", "wait"}, stream = <<>> => kind = "collector_contract",
         stream # <<>> => Follows(Last, Record(kind))
  PROVE  /\ Streamed' /\ Reading' /\ Collecting' /\ acks' \subseteq {Ready} \cup CheckpointSteps'
         /\ Last' = Record(kind) /\ stream' # <<>> /\ Left'
  <1>1. /\ UNCHANGED <<acks, session, pc, coordinator, candidate, report, error, tree, result>>
        /\ step \in Nat /\ step' \in Nat /\ step <= step' /\ Len(stream) \in Nat
    BY DEF Elsewhere, outcome, files, SessionType
  <1>2. stream = <<>> => step = 0
    BY DEF CollectorInv, Searches, Streamed
  <1>3. /\ Streamed' /\ Last' = Record(kind) /\ stream' # <<>> /\ Len(stream') = Len(stream) + 1
        /\ \A i \in DOMAIN stream : stream'[i] = stream[i]
        /\ CheckpointSteps \subseteq CheckpointSteps'
    BY <1>1, <1>2, Appended DEF CollectorInv
  <1>4. Reading'
    BY <1>1, <1>3, LeanReads DEF CollectorInv
  <1>5. Collecting'
    BY <1>1, LeanCollects DEF CollectorInv
  <1>6. Left'
    BY <1>1 DEF CollectorInv, Left
  <1> QED
    BY <1>1, <1>3, <1>4, <1>5, <1>6 DEF CollectorInv, Barred

\* Contract.
LEMMA SessionContract == ASSUME SessionType, CollectorInv, Contract PROVE CollectorInv'
  <1>1. /\ stream' = Append(stream, Record("collector_contract")) /\ UNCHANGED <<step, proved, code, files>>
        /\ phase = "start" /\ phase' = "handshake" /\ UNCHANGED <<asked, root, acks, result>>
        /\ stream = <<>> /\ step = 0 /\ ~asked /\ Elsewhere
    BY DEF Contract, Emits, Elsewhere, CollectorInv, Searches, files
  <1>2. /\ Streamed' /\ Reading' /\ Collecting' /\ acks' \subseteq {Ready} \cup CheckpointSteps'
        /\ Last' = Record("collector_contract") /\ stream' # <<>> /\ Left'
    BY <1>1, LeanRecords DEF Kinds
  <1>3. Last'.kind = "collector_contract" /\ Last'.step = 0
    BY <1>1, <1>2 DEF Record
  <1>4. Searches'
    BY <1>1, <1>2, <1>3 DEF Searches, Current
  <1>5. Barred'
    BY <1>1, <1>2 DEF CollectorInv, Barred
  <1> QED
    BY <1>2, <1>4, <1>5 DEF CollectorInv

\* A generation, or its evaluation.
LEMMA SessionCandidate == ASSUME SessionType, CollectorInv, Generate \/ Evaluate PROVE CollectorInv'
  <1>1. PICK kind \in Kinds :
           /\ kind = IF asked THEN "eval" ELSE "generation"
           /\ stream' = Append(stream, Record(kind)) /\ asked' = ~asked
    BY DEF Generate, Evaluate, Emits, Kinds, SessionType
  <1>2. /\ UNCHANGED <<step, proved, code, files, acks, result, phase>> /\ phase = "search" /\ Elsewhere
    BY DEF Generate, Evaluate, Elsewhere, files
  <1>3. /\ stream # <<>> /\ Current(Last) = step /\ Last.kind # "checkpoint"
        /\ asked <=> Last.kind = "generation"
    BY <1>2 DEF CollectorInv, Searches
  <1>4. Record(kind).kind = kind /\ Record(kind).step = step
    BY DEF Record
  <1>5. Follows(Last, Record(kind))
    BY <1>1, <1>3, <1>4 DEF Follows
  <1>6. /\ Streamed' /\ Reading' /\ Collecting' /\ acks' \subseteq {Ready} \cup CheckpointSteps'
        /\ Last' = Record(kind) /\ stream' # <<>> /\ Left'
    BY <1>1, <1>2, <1>3, <1>5, LeanRecords
  <1>7. Searches'
    <2>1. Last'.kind = kind /\ Last'.step = step
      BY <1>4, <1>6
    <2>2. asked' <=> kind = "generation"
      BY <1>1 DEF SessionType
    <2> QED
      BY <1>1, <1>2, <1>6, <2>1, <2>2 DEF Searches, Current
  <1>8. Barred'
    BY <1>2, <1>6 DEF CollectorInv, Barred
  <1> QED
    BY <1>6, <1>7, <1>8 DEF CollectorInv

\* Checkpoint.
LEMMA SessionCheckpoint == ASSUME SessionType, CollectorInv, Checkpoint PROVE CollectorInv'
  <1>1. /\ stream' = Append(stream, Record("checkpoint")) /\ UNCHANGED <<step, proved, code, files>>
        /\ phase = "search" /\ phase' = "wait" /\ UNCHANGED <<asked, root, acks, result>> /\ ~asked
        /\ Elsewhere
    BY DEF Checkpoint, Emits, Elsewhere, files
  <1>2. /\ stream # <<>> /\ Current(Last) = step /\ Last.kind # "checkpoint" /\ Last.kind # "generation"
    BY <1>1 DEF CollectorInv, Searches
  <1>3. Follows(Last, Record("checkpoint"))
    BY <1>2 DEF Follows, Record
  <1>4. /\ Streamed' /\ Reading' /\ Collecting' /\ acks' \subseteq {Ready} \cup CheckpointSteps'
        /\ Last' = Record("checkpoint") /\ stream' # <<>> /\ Left'
    BY <1>1, <1>2, <1>3, LeanRecords DEF Kinds
  <1>5. Searches'
    BY <1>1, <1>4 DEF Searches, Record
  <1>6. Barred'
    BY <1>1, <1>4 DEF CollectorInv, Barred
  <1> QED
    BY <1>4, <1>5, <1>6 DEF CollectorInv

\* The acknowledgement is taken up: the next iteration begins, or the search is over.
LEMMA SessionTakeAck == ASSUME SessionType, CollectorInv, TakeAck PROVE CollectorInv'
  <1>1. /\ stream' = Append(stream, Record("checkpoint_ack")) /\ UNCHANGED <<proved, code, files>>
        /\ phase = "wait" /\ UNCHANGED <<asked, root, acks, result>> /\ step \in acks /\ Elsewhere
        /\ \/ phase' = "search" /\ step' = step + 1
           \/ phase' = "export" /\ step' = step
    BY DEF TakeAck, Emits, Elsewhere, files
  <1>2. stream # <<>> /\ ~asked /\ Last = Record("checkpoint")
    BY <1>1 DEF CollectorInv, Searches
  <1>3. Follows(Last, Record("checkpoint_ack"))
    BY <1>2 DEF Follows, Record, Current
  <1>4. /\ Streamed' /\ Reading' /\ Collecting' /\ acks' \subseteq {Ready} \cup CheckpointSteps'
        /\ Last' = Record("checkpoint_ack") /\ stream' # <<>> /\ Left'
    BY <1>1, <1>2, <1>3, LeanRecords DEF Kinds
  <1>5. Last'.kind = "checkpoint_ack" /\ Last'.step = step /\ Last'.solved = root
    BY <1>4 DEF Record
  <1>6. Searches'
    <2>1. CASE phase' = "search" /\ step' = step + 1
      BY <1>1, <1>2, <1>4, <1>5, <2>1 DEF Searches, Current
    <2>2. CASE phase' = "export" /\ step' = step
      <3>1. (Last = Record("checkpoint_ack"))'
        BY <1>1, <1>4, <2>2 DEF Record
      <3> QED
        BY <1>4, <2>2, <3>1 DEF Searches
    <2> QED
      BY <1>1, <2>1, <2>2
  <1>7. Barred'
    <2>1. Ready \in acks /\ 0..step - 1 \subseteq acks /\ step \in acks /\ step \in Nat
      BY <1>1 DEF CollectorInv, Barred, SessionType
    <2>2. 0..step \subseteq acks
      BY <2>1
    <2>3. Ready \in acks' /\ 0..step' - 1 \subseteq acks' /\ (step' = step => step' \in acks')
      BY <1>1, <2>1, <2>2
    <2>4. result \notin {"solved", "exhausted"}
      BY <1>1, CollectorSessionAssumption DEF CollectorInv, Left
    <2> QED
      BY <1>1, <1>4, <2>3, <2>4 DEF Barred
  <1> QED
    BY <1>4, <1>6, <1>7 DEF CollectorInv

\* Lean goes on without a record: the handshake, the end of its search, an error.
LEMMA SessionEnds ==
  ASSUME SessionType, CollectorInv,
         Handshake \/ WriteTree \/ Exhausts \/ Solves \/ Closes \/ Raises
  PROVE  CollectorInv'
  <1>1. /\ UNCHANGED <<step, asked, root, stream, torn, coordinator, acks>>
        /\ UNCHANGED <<pc, error, candidate, session, report>>
        /\ phase \notin {"none", "over"} /\ (proved => proved')
    BY DEF Handshake, WriteTree, Exhausts, Solves, Closes, Raises, Elsewhere, observer, outcome
  <1>2. Streamed' /\ Reading' /\ Collecting'
    BY <1>1, LeanSilent, LeanCollects DEF CollectorInv
  <1>3. UNCHANGED <<Last, CheckpointSteps>>
    BY <1>1, SameStream
  <1>4. UNCHANGED <<Record("checkpoint"), Record("checkpoint_ack")>>
    BY <1>1 DEF Record
  <1>5. Searches'
    <2>1. \/ phase = "handshake" /\ phase' = "search"
          \/ phase' = "over"
          \/ phase \in {"export", "conclude", "close"} /\ phase' \in {"conclude", "close"}
      BY DEF Handshake, WriteTree, Exhausts, Solves, Closes, Raises
    <2> QED
      BY <1>1, <1>3, <1>4, <2>1 DEF CollectorInv, Searches, Current
  <1>6. Barred'
    <2>1. CASE Handshake
      <3>1. step = 0 /\ 0..step - 1 = {}
        BY <2>1 DEF Handshake, CollectorInv, Searches
      <3> QED
        BY <1>1, <1>3, <2>1, <3>1 DEF CollectorInv, Barred, Handshake, files
    <2>2. CASE WriteTree \/ Solves \/ Closes
      BY <1>1, <1>3, <2>2 DEF CollectorInv, Barred, WriteTree, Solves, Closes, files
    <2>3. CASE Exhausts
      BY <1>1, <1>3, <2>3 DEF CollectorInv, Barred, Exhausts
    <2>4. CASE Raises
      BY <1>1, <1>3, <2>4, CollectorSessionAssumption DEF CollectorInv, Barred, Raises
    <2> QED
      BY <2>1, <2>2, <2>3, <2>4
  <1>7. Left'
    <2>1. CASE WriteTree
      <3>1. /\ tree' = [step |-> step, solved |-> root] /\ phase = "export" /\ phase' = "conclude"
            /\ UNCHANGED <<proved, result>>
        BY <2>1 DEF WriteTree
      <3>2. stream # <<>> /\ Last.kind = "checkpoint_ack" /\ Last.step = step
        BY <3>1 DEF CollectorInv, Searches, Record
      <3>3. result = Absent /\ (proved <=> result = "solved")
        BY <3>1 DEF CollectorInv, Left
      <3> QED
        BY <1>1, <1>3, <3>1, <3>2, <3>3 DEF Left
    <2>2. CASE Exhausts \/ Solves \/ Raises
      <3>1. /\ UNCHANGED tree /\ phase \notin {"close", "over"} /\ phase' \in {"close", "over"}
            /\ phase # "none"
            /\ phase' = "over" \/ phase = "conclude"
            /\ \/ proved' = TRUE /\ result' = "solved"
               \/ UNCHANGED proved /\ result' \in {"exhausted", "exception", Absent}
        BY <2>2 DEF Exhausts, Solves, Raises
      <3>2. ~proved
        BY <3>1, CollectorSessionAssumption DEF CollectorInv, Left
      <3>3. proved' <=> result' = "solved"
        BY <3>1, <3>2, CollectorSessionAssumption
      <3> QED
        BY <1>1, <1>3, <3>1, <3>3 DEF CollectorInv, Left
    <2>3. CASE Handshake \/ Closes
      BY <1>1, <1>3, <2>3 DEF CollectorInv, Left, Handshake, Closes, files
    <2> QED
      BY <2>1, <2>2, <2>3
  <1> QED
    BY <1>2, <1>5, <1>6, <1>7 DEF CollectorInv

\* What the death of a running process leaves behind.
LEMMA SessionDead ==
  ASSUME SessionType, CollectorInv, Dead, phase \notin {"none", "over"}, UNCHANGED <<coordinator, acks>>
  PROVE  Streamed' /\ Searches' /\ Reading' /\ Barred' /\ Left' /\ phase' = "over" /\ UNCHANGED proved
  <1>1. /\ UNCHANGED <<step, asked, root, proved, stream>> /\ phase' = "over"
        /\ tree' \in {tree, Absent, Unreadable} /\ (phase # "export" => tree' = tree)
        /\ result' \in {result, Absent, "unreadable"} /\ (phase # "conclude" => result' = result)
    BY DEF Dead
  <1>2. Streamed' /\ Reading'
    BY <1>1, LeanSilent DEF CollectorInv
  <1>3. UNCHANGED <<Last, CheckpointSteps>>
    BY <1>1, SameStream
  <1>4. Searches'
    BY <1>1 DEF Searches
  <1>5. Barred'
    BY <1>1, <1>3, CollectorSessionAssumption DEF CollectorInv, Barred
  <1>6. Left'
    <2>1. phase = "conclude" => ~proved
      BY CollectorSessionAssumption DEF CollectorInv, Left
    <2>2. proved' <=> result' = "solved"
      BY <1>1, <2>1, CollectorSessionAssumption DEF CollectorInv, Left
    <2>3. phase = "export" => stream # <<>> /\ Last.kind = "checkpoint_ack" /\ Last.step = step
      BY DEF CollectorInv, Searches, Record
    <2> QED
      BY <1>1, <1>3, <2>2, <2>3 DEF CollectorInv, Left
  <1> QED
    BY <1>1, <1>2, <1>4, <1>5, <1>6

\* A step of Lean.
LEMMA SessionLean == ASSUME SessionType, CollectorInv, LeanNext PROVE CollectorInv'
  <1>1. CASE Killed
    <2>1. /\ UNCHANGED <<coordinator, acks, pc, error, candidate, session, report>>
          /\ phase \notin {"none", "over"} /\ Dead
      BY <1>1 DEF Killed, Elsewhere, outcome, Running
    <2>2. Streamed' /\ Searches' /\ Reading' /\ Barred' /\ Left' /\ UNCHANGED proved
      BY <2>1, SessionDead
    <2>3. Collecting'
      BY <2>1, <2>2, LeanCollects DEF CollectorInv
    <2> QED
      BY <2>2, <2>3 DEF CollectorInv
  <1> QED
    BY <1>1, SessionContract, SessionCandidate, SessionCheckpoint, SessionTakeAck,
       SessionEnds DEF LeanNext

\* The coordinator accepts every record of the Lean process it started: the checks
\* of accept hold of the record it reads.
LEMMA UnreadIsValid ==
  ASSUME SessionType, CollectorInv, cursor < Len(stream)
  PROVE  /\ Unread \in Recorded /\ cursor + 1 \in DOMAIN stream /\ Valid(Unread)
         /\ cursor = 0 => Unread.kind = "collector_contract" /\ Unread.step = 0
         /\ cursor > 0 => stream[cursor] \in Recorded /\ Follows(stream[cursor], Unread)
  <1>1. PICK u : u = Unread
    OBVIOUS
  <1>2. /\ cursor \in Nat /\ cursor + 1 \in DOMAIN stream /\ u \in Recorded /\ u = stream[cursor + 1]
        /\ cursor > 0 => cursor \in DOMAIN stream /\ stream[cursor] \in Recorded
        /\ stream # <<>>
    BY <1>1, RecordsType DEF SessionType, Unread
  <1>3. cursor = 0 => u.kind = "collector_contract" /\ u.step = 0
    BY <1>2 DEF CollectorInv, Streamed
  <1>4. cursor > 0 => Follows(stream[cursor], u)
    BY <1>2 DEF CollectorInv, Streamed
  <1>5. Valid(u)
    <2>1. CASE cursor = 0
      BY <1>3, <2>1 DEF Valid, CollectorInv, Reading
    <2>2. CASE cursor > 0
      <3>1. PICK r : r = stream[cursor]
        OBVIOUS
      <3>2. /\ r \in Recorded /\ Follows(r, u)
            /\ ready /\ lastStep = Reached(r)
            /\ pendingAck = IF r.kind = "checkpoint" THEN r.step ELSE Absent
            /\ generated = IF r.kind = "generation" THEN 1 ELSE 0
        BY <1>2, <1>4, <2>2, <3>1 DEF CollectorInv, Reading
      <3>3. /\ r.step \in Nat /\ u.step \in Nat /\ r.step # Absent
            /\ pendingAck # Absent <=> r.kind = "checkpoint"
        BY <1>2, <3>2, CollectorSessionAssumption DEF Recorded
      <3>4. u.kind = "checkpoint" => u.step = lastStep + 1 /\ generated = 0
        BY <3>2, <3>3 DEF Follows, Current, Reached
      <3> QED
        BY <3>2, <3>3, <3>4 DEF Valid, Follows, Current
    <2> QED
      BY <1>2, <2>1, <2>2
  <1> QED
    BY <1>1, <1>2, <1>3, <1>4, <1>5

\* What the coordinator knows is what the record it accepted last says.
LEMMA AdvancedReads ==
  ASSUME SessionType, CollectorInv, cursor < Len(stream), Advances(Unread), UNCHANGED stream
  PROVE  Reading'
  <1>0. PICK u : u = Unread
    OBVIOUS
  <1>1. /\ u \in Recorded /\ cursor + 1 \in DOMAIN stream /\ u = stream[cursor + 1]
        /\ cursor = 0 => u.kind = "collector_contract" /\ u.step = 0
        /\ cursor > 0 => stream[cursor] \in Recorded /\ Follows(stream[cursor], u)
    BY <1>0, UnreadIsValid DEF Unread
  <1>2. /\ cursor' = cursor + 1 /\ ready' = TRUE /\ stream'[cursor'] = u
        /\ cursor \in Nat /\ cursor' > 0 /\ cursor' <= Len(stream')
    BY <1>0, <1>1, RecordsType DEF Advances, SessionType
  <1>3. u.kind \in Kinds /\ u.step \in Nat /\ u.solved \in BOOLEAN
    BY <1>1 DEF Recorded
  <1>4. pendingAck' = IF u.kind = "checkpoint" THEN u.step ELSE Absent
    BY <1>0 DEF Advances
  <1>5. generated' = IF u.kind = "generation" THEN 1 ELSE 0
    <2>1. generated' = generated + IF u.kind = "generation" THEN 1 ELSE IF u.kind = "eval" THEN -1 ELSE 0
      BY <1>0 DEF Advances
    <2>2. CASE cursor = 0
      BY <1>1, <2>1, <2>2 DEF CollectorInv, Reading
    <2>3. CASE cursor > 0
      <3>1. generated = IF u.kind = "eval" THEN 1 ELSE 0
        BY <1>1, <2>3 DEF CollectorInv, Reading, Follows
      <3> QED
        BY <2>1, <3>1
    <2> QED
      BY <1>2, <2>2, <2>3
  <1>6. lastStep' = Reached(u)
    <2>1. IF u.kind = "checkpoint" THEN lastStep' = u.step ELSE lastStep' = lastStep
      BY <1>0 DEF Advances
    <2>2. CASE cursor = 0
      BY <1>1, <2>1, <2>2 DEF CollectorInv, Reading, Reached
    <2>3. CASE cursor > 0
      <3>1. PICK r : r = stream[cursor]
        OBVIOUS
      <3>2. r \in Recorded /\ Follows(r, u) /\ lastStep = Reached(r)
        BY <1>1, <2>3, <3>1 DEF CollectorInv, Reading
      <3>3. r.step \in Nat
        BY <3>2 DEF Recorded
      <3> QED
        BY <1>3, <2>1, <3>2, <3>3 DEF Follows, Current, Reached
    <2> QED
      BY <1>2, <2>2, <2>3
  <1>7. u.kind \in {"checkpoint", "checkpoint_ack"} =>
          frame' = [kind |-> "checkpoint", step |-> u.step, solved |-> u.solved]
    <2>1. CASE u.kind = "checkpoint"
      <3>1. frame' = u
        BY <1>0, <2>1 DEF Advances
      <3>2. u = [kind |-> "checkpoint", step |-> u.step, solved |-> u.solved]
        BY <1>1, <2>1 DEF Recorded
      <3> QED
        BY <3>1, <3>2
    <2>2. CASE u.kind = "checkpoint_ack"
      <3>1. frame' = frame
        BY <1>0, <2>2 DEF Advances
      <3>2. cursor > 0
        BY <1>1, <1>2, <2>2
      <3>3. PICK r : r = stream[cursor]
        OBVIOUS
      <3>4. r.kind = "checkpoint" /\ u.step = r.step /\ u.solved = r.solved
        BY <1>1, <2>2, <3>2, <3>3 DEF Follows, Current
      <3>5. frame = [kind |-> "checkpoint", step |-> r.step, solved |-> r.solved]
        BY <3>2, <3>3, <3>4 DEF CollectorInv, Reading
      <3> QED
        BY <3>1, <3>4, <3>5
    <2> QED
      BY <2>1, <2>2
  <1>8. (cursor > 0 =>
          LET r == stream[cursor] IN
          /\ ready /\ lastStep = Reached(r)
          /\ pendingAck = IF r.kind = "checkpoint" THEN r.step ELSE Absent
          /\ generated = IF r.kind = "generation" THEN 1 ELSE 0
          /\ r.kind \in {"checkpoint", "checkpoint_ack"} =>
                frame = [kind |-> "checkpoint", step |-> r.step, solved |-> r.solved])'
    BY <1>2, <1>4, <1>5, <1>6, <1>7 DEF Reached
  <1>9. (cursor = 0 => ~ready /\ lastStep = -1 /\ pendingAck = Absent /\ generated = 0)'
    BY <1>2
  <1> QED
    BY <1>2, <1>8, <1>9 DEF Reading

\* The collector's steps keep everybody's types.
LEMMA CollectorTypes == ASSUME SessionType, CollectorInv, CollectorNext \/ Die PROVE SessionType'
  <1>1. UNCHANGED <<step, asked, root, proved, stream>>
    BY DEF CollectorNext, CreateSession, Start, Accept, Exit, Classify, Propose, StopLean,
       Report, Die, Dead,
       lean, observer
  <1>2. /\ phase' \in {phase, "none", "start", "over"} /\ code' \in {code, -1} /\ torn' \in BOOLEAN
        /\ tree' \in {tree, Absent, Unreadable} /\ result' \in {result, Absent, "unreadable"}
    BY DEF CollectorNext, CreateSession, Start, Accept, Exit, Classify, Propose, StopLean,
       Report, Die, Dead,
       lean, observer, files, SessionType
  <1>3. Unreadable \in [step : Int, solved : BOOLEAN]
    BY DEF Unreadable
  <1>4. /\ tree' \in [step : Int, solved : BOOLEAN] \cup {Absent}
        /\ result' \in {Absent, "solved", "exhausted", "exception", "unreadable"}
        /\ code' \in {Absent, -1, 0, 1}
        /\ phase' \in {"none", "start", "handshake", "search", "wait", "export", "conclude", "close", "over"}
    BY <1>2, <1>3 DEF SessionType
  <1>5. /\ acks' \subseteq Int /\ cursor' \in Nat /\ lastStep' \in Int /\ pendingAck' \in Nat \cup {Absent}
        /\ generated' \in Int /\ frame' \in Recorded \cup {Absent}
    <2>1. CASE Accept
      <3>1. /\ Unread \in Recorded /\ Unread.step \in Nat
        BY <2>1, UnreadIsValid DEF Accept, Recorded
      <3>2. acks' \subseteq Int
        <4>1. AckOf(Unread) \subseteq Int
          BY <3>1 DEF AckOf, Ready
        <4>2. acks' \in {acks, acks \cup AckOf(Unread)}
          BY <2>1 DEF Accept
        <4> QED
          BY <4>1, <4>2 DEF SessionType
      <3>3. UNCHANGED coordinator \/ Advances(Unread)
        BY <2>1 DEF Accept
      <3> QED
        BY <3>1, <3>2, <3>3 DEF coordinator, Advances, SessionType
    <2>2. CASE ~Accept
      BY <2>2 DEF CollectorNext, CreateSession, Start, Exit, Classify, Propose, StopLean,
         Report, Die,
         coordinator, SessionType
    <2> QED
      BY <2>1, <2>2
  <1>6. ready' \in BOOLEAN /\ candidate' \in BOOLEAN /\ session' \in BOOLEAN
    <2>1. ready' \in {ready, TRUE}
      BY DEF CollectorNext, CreateSession, Start, Accept, Advances, Exit, Classify, Propose,
         StopLean, Report,
         Die, coordinator
    <2>2. candidate' \in {candidate, TRUE, FALSE} /\ session' \in {session, TRUE, FALSE}
      BY DEF CollectorNext, CreateSession, Start, Accept, Exit, Classify, Propose, StopLean,
         Report, Die,
         outcome
    <2>3. ready \in {TRUE, FALSE} /\ candidate \in {TRUE, FALSE} /\ session \in {TRUE, FALSE}
      BY DEF SessionType
    <2>4. ready' \in {TRUE, FALSE} /\ candidate' \in {TRUE, FALSE} /\ session' \in {TRUE, FALSE}
      BY <2>1, <2>2, <2>3
    <2> QED
      BY <2>4
  <1>7. /\ report' \in {Absent, "failed_unknown", "solved", "exhausted"}
        /\ pc' \in {"create", "start", "poll", "classify", "propose", "stop", "report", "done", "dead"}
        /\ error' \in {"none", "create", "start", "protocol", "acknowledgement", "incomplete", "outcome", "proof"}
    BY DEF CollectorNext, CreateSession, Start, Accept, Exit, Classify, Propose, StopLean,
       Report, Die,
       outcome, Fails, Status, SessionType
  <1> QED
    BY <1>1, <1>2, <1>4, <1>5, <1>6, <1>7 DEF SessionType

\* The coordinator accepts a record, or cannot acknowledge it.
LEMMA SessionAccept == ASSUME SessionType, CollectorInv, Accept PROVE CollectorInv'
  <1>1. /\ UNCHANGED <<step, asked, root, proved, phase, code, stream, torn, tree, result>>
        /\ UNCHANGED <<session, candidate, report>> /\ pc = "poll" /\ cursor < Len(stream)
    BY DEF Accept, lean, observer, files
  <1>2. /\ Unread \in Recorded /\ cursor + 1 \in DOMAIN stream /\ Valid(Unread)
    BY <1>1, UnreadIsValid
  <1>3. UNCHANGED <<Last, CheckpointSteps, Record("checkpoint"), Record("checkpoint_ack")>>
    BY <1>1, SameStream DEF Record
  <1>4. Streamed'
    BY <1>1, StreamStays DEF CollectorInv
  <1>5. Searches'
    BY <1>1, <1>3 DEF CollectorInv, Searches, Current
  <1>6. Reading'
    <2>1. CASE Advances(Unread)
      BY <1>1, <2>1, AdvancedReads
    <2>2. CASE UNCHANGED coordinator
      <3>1. Len(stream') \in Nat /\ Len(stream) <= Len(stream')
        BY <1>1, RecordsType
      <3> QED
        BY <1>1, <2>2, <3>1, LeanReads DEF CollectorInv
    <2> QED
      BY <2>1, <2>2 DEF Accept
  <1>7. Barred'
    <2>1. AckOf(Unread) \subseteq {Ready} \cup CheckpointSteps
      <3>1. Unread.kind = "checkpoint" => Unread.step \in CheckpointSteps
        BY <1>2 DEF CheckpointSteps, Indices, Unread
      <3> QED
        BY <3>1 DEF AckOf
    <2>2. acks' \in {acks, acks \cup AckOf(Unread)}
      BY DEF Accept
    <2>3. acks \subseteq acks' /\ acks' \subseteq {Ready} \cup CheckpointSteps
      BY <2>1, <2>2 DEF CollectorInv, Barred
    <2> QED
      BY <1>1, <1>3, <2>3 DEF CollectorInv, Barred
  <1>8. Left'
    BY <1>1, <1>3 DEF CollectorInv, Left
  <1>9. Collecting'
    <2>1. error = "none" /\ ~candidate /\ report = Absent /\ session
      BY <1>1 DEF CollectorInv, Collecting
    <2>2. \/ UNCHANGED <<pc, error>>
          \/ pc' = "stop" /\ error' = "acknowledgement"
      BY <1>2 DEF Accept, Fails
    <2> QED
      BY <1>1, <2>1, <2>2 DEF Collecting
  <1> QED
    BY <1>4, <1>5, <1>6, <1>7, <1>8, <1>9 DEF CollectorInv

\* The collector starts Lean, judges it, reports or dies.
LEMMA SessionCollects ==
  ASSUME SessionType, CollectorInv,
         CreateSession \/ Start \/ Exit \/ Classify \/ Propose \/ Report \/ Die
  PROVE  CollectorInv'
  <1>1. UNCHANGED <<step, asked, root, proved, code, stream, torn, acks, tree, result, coordinator>>
    BY DEF CreateSession, Start, Exit, Classify, Propose, Report, Die, lean, observer, files
  <1>2. UNCHANGED phase \/ (Start /\ phase = "none" /\ phase' = "start")
    BY DEF CreateSession, Start, Exit, Classify, Propose, Report, Die, lean, CollectorInv,
       Collecting
  <1>3. Streamed' /\ Reading'
    BY <1>1, LeanSilent DEF CollectorInv
  <1>4. UNCHANGED <<Last, CheckpointSteps, Record("checkpoint"), Record("checkpoint_ack")>>
    BY <1>1, SameStream DEF Record
  <1>5. Searches'
    BY <1>1, <1>2, <1>4 DEF CollectorInv, Searches, Current
  <1>6. Barred'
    BY <1>1, <1>2, <1>4 DEF CollectorInv, Barred
  <1>7. Left'
    BY <1>1, <1>2, <1>4 DEF CollectorInv, Left
  <1>8. UNCHANGED <<cursor, frame, ready, pendingAck, generated, SameTree, Classified>>
    BY <1>1 DEF coordinator, SameTree, Classified
  <1>9. UNCHANGED <<phase, Len(stream), stream[cursor]>> \/ Start
    BY <1>1, <1>2, <1>8
  <1>10. Collecting'
    <2>1. CASE CreateSession
      BY <1>8, <1>9, <2>1 DEF CollectorInv, Collecting, CreateSession, Fails, lean
    <2>2. CASE Start
      BY <1>8, <2>2 DEF CollectorInv, Collecting, Start, Fails
    <2>3. CASE Exit
      <3>1. /\ UNCHANGED <<phase, candidate, report, session>> /\ pc = "poll" /\ error = "none" /\ ~candidate
            /\ session /\ report = Absent /\ phase = "over" /\ cursor = Len(stream)
        BY <2>3 DEF Exit, lean, CollectorInv, Collecting
      <3>2. CASE ~torn /\ Finished
        <4>1. pc' = "classify" /\ UNCHANGED error
          BY <2>3, <3>2 DEF Exit
        <4>2. stream[cursor].kind = "checkpoint_ack" /\ cursor > 0
          <5>1. ready /\ stream[cursor].kind = "checkpoint_ack"
            BY <3>2 DEF Finished
          <5>2. cursor > 0
            BY <5>1 DEF CollectorInv, Reading, SessionType
          <5> QED
            BY <5>1, <5>2
        <4> QED
          BY <1>1, <1>8, <3>1, <4>1, <4>2 DEF Collecting
      <3>3. CASE ~(~torn /\ Finished)
        <4>1. pc' = "stop" /\ error' = "incomplete"
          BY <2>3, <3>3 DEF Exit, Fails
        <4> QED
          BY <1>1, <1>8, <3>1, <4>1 DEF Collecting
      <3> QED
        BY <3>2, <3>3
    <2>4. CASE Classify
      <3>1. /\ UNCHANGED <<phase, candidate, report, session>> /\ pc = "classify" /\ error = "none" /\ ~candidate
            /\ session /\ report = Absent /\ phase = "over" /\ cursor = Len(stream) /\ cursor > 0
            /\ stream[cursor].kind = "checkpoint_ack"
        BY <2>4 DEF Classify, lean, CollectorInv, Collecting
      <3>2. \/ Classified = "solved" /\ pc' = "propose" /\ UNCHANGED error
            \/ Classified = "exhausted" /\ pc' = "report" /\ UNCHANGED error
            \/ pc' = "stop" /\ error' = "outcome"
        BY <2>4 DEF Classify, Fails
      <3> QED
        BY <1>1, <1>8, <3>1, <3>2 DEF Collecting
    <2>5. CASE Propose
      <3>1. /\ UNCHANGED <<phase, report, session>> /\ pc = "propose" /\ error = "none"
            /\ session /\ report = Absent /\ phase = "over" /\ cursor = Len(stream) /\ cursor > 0
            /\ stream[cursor].kind = "checkpoint_ack" /\ Classified = "solved"
        BY <2>5 DEF Propose, lean, CollectorInv, Collecting
      <3>2. \/ candidate' = TRUE /\ pc' = "report" /\ UNCHANGED error
            \/ pc' = "stop" /\ error' = "proof"
        BY <2>5 DEF Propose, Fails
      <3>3. proved
        <4>1. result = "solved"
          BY <3>1 DEF Classified
        <4> QED
          BY <4>1 DEF CollectorInv, Left
      <3> QED
        BY <1>1, <1>8, <3>1, <3>2, <3>3 DEF Collecting
    <2>6. CASE Report
      BY <1>1, <1>8, <2>6 DEF CollectorInv, Collecting, Report, Status, lean
    <2>7. CASE Die
      BY <1>1, <1>8, <2>7 DEF CollectorInv, Collecting, Die, outcome
    <2> QED
      BY <2>1, <2>2, <2>3, <2>4, <2>5, <2>6, <2>7
  <1> QED
    BY <1>3, <1>5, <1>6, <1>7, <1>10 DEF CollectorInv

\* The handler stops Lean where it runs.
LEMMA SessionStop == ASSUME SessionType, CollectorInv, StopLean PROVE CollectorInv'
  <1>1. /\ UNCHANGED <<acks, session, coordinator, candidate, report, error>> /\ pc = "stop" /\ pc' = "report"
    BY DEF StopLean, outcome
  <1>2. /\ Streamed' /\ Searches' /\ Reading' /\ Barred' /\ Left' /\ UNCHANGED proved
        /\ phase' \in {"none", "over"}
    <2>1. CASE Running
      BY <1>1, <2>1, SessionDead DEF StopLean, Running
    <2>2. CASE ~Running
      <3>1. UNCHANGED <<phase, step, asked, root, proved, code, stream, torn, tree, result>>
            /\ phase \in {"none", "over"}
        BY <2>2 DEF StopLean, lean, observer, files, Running
      <3>2. UNCHANGED <<Last, CheckpointSteps, Record("checkpoint"), Record("checkpoint_ack")>>
        BY <3>1, SameStream DEF Record
      <3>3. Streamed' /\ Reading'
        BY <1>1, <3>1, LeanSilent DEF CollectorInv
      <3>4. Searches'
        BY <3>1, <3>2 DEF CollectorInv, Searches, Current
      <3>5. Barred' /\ Left'
        BY <1>1, <3>1, <3>2 DEF CollectorInv, Barred, Left
      <3> QED
        BY <3>1, <3>3, <3>4, <3>5
    <2> QED
      BY <2>1, <2>2
  <1>3. error # "none" /\ error # "protocol" /\ report = Absent /\ (candidate => proved)
    BY <1>1 DEF CollectorInv, Collecting
  <1>4. Collecting'
    BY <1>1, <1>2, <1>3 DEF Collecting
  <1> QED
    BY <1>2, <1>4 DEF CollectorInv

\* The records say so from the first state on.
LEMMA SessionStarts == ASSUME SessionInit PROVE SessionType /\ CollectorInv
  <1>1. SessionType
    <2>1. stream \in Seq(Recorded)
      BY EmptySeq DEF SessionInit
    <2>2. /\ asked \in BOOLEAN /\ root \in BOOLEAN /\ proved \in BOOLEAN /\ torn \in BOOLEAN
          /\ candidate \in BOOLEAN /\ session \in BOOLEAN /\ ready \in BOOLEAN
      BY DEF SessionInit
    <2>3. /\ phase = "none" /\ step = 0 /\ code = Absent /\ acks = {} /\ tree = Absent /\ result = Absent
          /\ report = Absent /\ pc = "create" /\ cursor = 0 /\ lastStep = -1 /\ pendingAck = Absent
          /\ generated = 0 /\ frame = Absent /\ error = "none"
      BY DEF SessionInit
    <2> QED
      BY <2>1, <2>2, <2>3 DEF SessionType
  <1>2. Streamed
    <2>1. CheckpointSteps = {} /\ Indices("generation") = {} /\ Indices("eval") = {}
      BY DEF SessionInit, CheckpointSteps, Indices
    <2>2. IsFiniteSet({}) /\ Cardinality({}) = 0
      BY FS_EmptySet
    <2>3. stream = <<>> /\ DOMAIN stream = {}
      BY DEF SessionInit
    <2>4. /\ IsFiniteSet(Indices("generation")) /\ IsFiniteSet(Indices("eval"))
          /\ Cardinality(Indices("generation")) = 0 /\ Cardinality(Indices("eval")) = 0
      BY <2>1, <2>2
    <2> QED
      BY <2>1, <2>3, <2>4 DEF Streamed
  <1>3. Searches /\ Barred /\ Left
    BY CollectorSessionAssumption DEF SessionInit, Searches, Barred, Left
  <1>4. Reading
    BY DEF SessionInit, Reading
  <1>5. Collecting
    BY DEF SessionInit, Collecting
  <1> QED
    BY <1>1, <1>2, <1>3, <1>4, <1>5 DEF CollectorInv

\* Nothing changes, and nothing of it is lost.
LEMMA SessionRests ==
  ASSUME SessionType, CollectorInv, UNCHANGED sessionVars
  PROVE  SessionType' /\ CollectorInv'
  <1>1. /\ UNCHANGED <<phase, step, asked, root, proved, code, stream, torn, acks, tree, result>>
        /\ UNCHANGED <<candidate, report, error, session, pc, coordinator>>
        /\ UNCHANGED <<cursor, ready, lastStep, pendingAck, generated, frame>>
    BY DEF sessionVars, lean, observer, files, outcome, coordinator
  <1>2. SessionType'
    BY <1>1 DEF SessionType
  <1>3. UNCHANGED <<Last, CheckpointSteps, Record("checkpoint"), Record("checkpoint_ack")>>
    BY <1>1, SameStream DEF Record
  <1>4. Streamed' /\ Reading'
    BY <1>1, LeanSilent DEF CollectorInv
  <1>5. Searches' /\ Barred' /\ Left'
    BY <1>1, <1>3 DEF CollectorInv, Searches, Barred, Left, Current
  <1>6. Collecting'
    BY <1>1 DEF CollectorInv, Collecting, Status, Classified, SameTree
  <1> QED
    BY <1>2, <1>4, <1>5, <1>6 DEF CollectorInv

\* The inductive invariant of a session.
LEMMA SessionInductive == SessionSpec => [](SessionType /\ CollectorInv)
  <1>1. SessionInit => SessionType /\ CollectorInv
    BY SessionStarts
  <1>2. SessionType /\ CollectorInv /\ [SessionNext]_sessionVars => SessionType' /\ CollectorInv'
    <2> SUFFICES ASSUME SessionType, CollectorInv, [SessionNext]_sessionVars
                 PROVE  SessionType' /\ CollectorInv'
      OBVIOUS
    <2>1. CASE LeanNext
      BY <2>1, LeanTypes, SessionLean
    <2>2. CASE CollectorNext \/ Die
      BY <2>2, CollectorTypes, SessionAccept, SessionCollects, SessionStop DEF CollectorNext
    <2>3. CASE UNCHANGED sessionVars
      BY <2>3, SessionRests
    <2> QED
      BY <2>1, <2>2, <2>3 DEF SessionNext
  <1> QED
    BY <1>1, <1>2, PTL DEF SessionSpec

\* What the invariant says of the search.
LEMMA AuditedSearch == ASSUME SessionType, CollectorInv PROVE SearchIsAudited
  <1>1. phase = "search" => step \notin acks
    <2> SUFFICES ASSUME phase = "search" PROVE step \notin acks
      OBVIOUS
    <2>1. /\ stream # <<>> /\ Current(Last) = step /\ Last.kind # "checkpoint"
          /\ CheckpointSteps = 0..Reached(Last) /\ step \in Nat
      BY DEF CollectorInv, Searches, Streamed, SessionType
    <2>2. Last.step \in Nat
      BY <2>1, RecordsType DEF Recorded
    <2>3. Reached(Last) = step - 1
      BY <2>1, <2>2 DEF Reached, Current
    <2>4. step \notin {Ready} \cup CheckpointSteps
      BY <2>1, <2>3 DEF Ready
    <2> QED
      BY <2>4 DEF CollectorInv, Barred
  <1> QED
    BY <1>1 DEF SearchIsAudited, CollectorInv, Barred, Collecting

\* Lean searches only behind the acknowledgements of its collector, whose checks never
\* refuse a record of the process it started.
THEOREM SearchAudited == SessionSpec => []SearchIsAudited
  BY AuditedSearch, SessionInductive, PTL

\* What the invariant says of a reported outcome.
LEMMA TruthfulReport == ASSUME SessionType, CollectorInv PROVE KnownIsTruthful
  <1>1. candidate => proved
    BY DEF CollectorInv, Collecting
  <1>2. report = "failed_unknown" => phase \in {"none", "over"}
    BY CollectorSessionAssumption DEF CollectorInv, Collecting
  <1>3. ASSUME report \in {"solved", "exhausted"}
        PROVE  /\ phase = "over" /\ code = (IF proved THEN 0 ELSE 1) /\ session
               /\ (report = "solved") <=> candidate
               /\ candidate <=> proved
               /\ cursor = Len(stream) /\ Checked = 0..step
               /\ Cardinality(Indices("generation")) = Cardinality(Indices("eval"))
    <2>1. pc = "done" /\ report = Status
      BY <1>3, CollectorSessionAssumption DEF CollectorInv, Collecting
    <2>2. error = "none" /\ report = IF candidate THEN "solved" ELSE "exhausted"
      BY <1>3, <2>1 DEF Status
    <2>3. /\ phase = "over" /\ cursor = Len(stream) /\ cursor > 0 /\ session
          /\ stream[cursor].kind = "checkpoint_ack"
          /\ Classified = IF candidate THEN "solved" ELSE "exhausted"
      BY <2>1, <2>2 DEF CollectorInv, Collecting
    <2>4. /\ SameTree
          /\ candidate => code = 0 /\ result = "solved"
          /\ ~candidate => code = 1 /\ result = "exhausted"
      BY <2>3 DEF Classified
    <2>5. candidate <=> proved
      BY <2>4 DEF CollectorInv, Left
    <2>6. stream # <<>> /\ Last = stream[cursor] /\ Last \in Recorded
      BY <2>3, RecordsType DEF Last
    <2>7. Last.step = step
      <3>1. tree # Absent
        BY <2>4, CollectorSessionAssumption, <2>3, <2>6 DEF SameTree, CollectorInv, Reading,
           Recorded
      <3> QED
        BY <3>1 DEF CollectorInv, Left
    <2>8. Reached(Last) = step
      BY <2>3, <2>6, <2>7 DEF Reached
    <2>9. Checked = 0..step
      <3>1. Indices("checkpoint") \cap 1..cursor = Indices("checkpoint")
        BY <2>3, RecordsType DEF Indices
      <3>2. Checked = CheckpointSteps
        BY <3>1 DEF Checked, CheckpointSteps
      <3> QED
        BY <2>6, <2>8, <3>2 DEF CollectorInv, Streamed
    <2>10. Cardinality(Indices("generation")) = Cardinality(Indices("eval"))
      <3>1. Last.kind # "generation"
        BY <2>3, <2>6
      <3>2. Cardinality(Indices("generation")) = Cardinality(Indices("eval")) + 0
        BY <3>1 DEF CollectorInv, Streamed
      <3>3. Cardinality(Indices("eval")) \in Nat
        BY FS_CardinalityType DEF CollectorInv, Streamed
      <3> QED
        BY <3>2, <3>3
    <2> QED
      BY <2>2, <2>3, <2>4, <2>5, <2>9, <2>10, <1>3
  <1> QED
    BY <1>1, <1>2, <1>3 DEF KnownIsTruthful

\* A reported outcome is what became of the search, of which every record was accepted.
THEOREM KnownTruthful == SessionSpec => []KnownIsTruthful
  BY TruthfulReport, SessionInductive, PTL

=============================================================================
