--------------------------- MODULE ReplicaRouter ---------------------------
(***************************************************************************)
(* ReplicaCollector of cpu_runtime/replica_collector.py: attempts are      *)
(* routed to a few independent GPU processes with room for one session     *)
(* each.  Threads call search and retire; the lock is held for admission   *)
(* and for writing records, never during a callback.  The records of a     *)
(* pool outlive the router, which is opened again on them or refuses to.   *)
(*                                                                         *)
(* Pins are left out: an intent stands for its attempt, a response for the *)
(* attempt it answers, and a release is valid or the call is never made.   *)
(* A session is on the GPU from the moment its callback is called.         *)
(***************************************************************************)
EXTENDS Integers, FiniteSets

CONSTANTS
    Attempts,   \* attempt_id of reserved intents
    ReplicaCount, \* the code demands two
    Callers,    \* threads
    None

\* The endpoints in their order.
Replicas == 1..ReplicaCount

ASSUME RouterAssumption ==
    /\ IsFiniteSet(Attempts) /\ None \notin Attempts
    /\ ReplicaCount \in Nat
    /\ None \notin Replicas

VARIABLES
    pool,      \* disk: absent, broken (no pool.json), ready
    folders,   \* disk: attempts with a directory
    records,   \* disk: the records in it
    orphans,   \* disk: directories with a staged file that no record equals
    sessions,  \* GPU: the replica that may have a session of the attempt
    router,    \* none, open, closed
    blocked,
    routes,    \* attempts with a route
    active,    \* the replica an attempt occupies
    retiring,
    doing,     \* what each caller is in the middle of
    about,     \* the attempt of that call
    answered,  \* history: attempts whose search returned
    called     \* history: how often the callback and the client were called

disk == <<pool, folders, records, orphans>>
memory == <<router, blocked, routes, active, retiring>>
calls == <<doing, about>>
history == <<answered, called>>
vars == <<disk, sessions, memory, calls, history>>

-----------------------------------------------------------------------------
(* Records.                                                                *)

Complete == {"route", "search", "intent", "retirement"}

\* No record is written over another.
Writes(a, name) ==
    /\ router = "open"
    /\ name \notin records[a]
    /\ records' = [records EXCEPT ![a] = @ \cup {name}]
    /\ UNCHANGED orphans

\* A write raises: the record is linked all the same, or a staged file is left,
\* or nothing; after close the directory cannot be reached any more.
WriteRaises(a, name) ==
    \/ Writes(a, name)
    \/ router = "open" /\ orphans' = orphans \cup {a} /\ UNCHANGED records
    \/ UNCHANGED <<records, orphans>>

Busy(c, what, a) ==
    /\ doing' = [doing EXCEPT ![c] = what]
    /\ about' = [about EXCEPT ![c] = a]
Returns(c) == Busy(c, "idle", None)
Goes(c, what) == doing' = [doing EXCEPT ![c] = what] /\ UNCHANGED about

-----------------------------------------------------------------------------
(* search.                                                                 *)

\* The release is validated before the lock is taken.
SearchBegins(c, a) ==
    /\ doing[c] = "idle"
    /\ router # "none"
    /\ Busy(c, "admit", a)
    /\ UNCHANGED <<disk, sessions, memory, history>>

Occupied == {active[a] : a \in Attempts}

\* Fault for the checks: a replica counts as free while its session is retired.
FreeOrRetiring == Replicas \ {active[a] : a \in Attempts \ retiring}

Free == Replicas \ Occupied
FirstFree == CHOOSE r \in Free : \A s \in Free : r <= s

\* Fault for the checks: what another attempt left unknown is not asked about.
MayAdmitUnblocked(a) == router = "open" /\ a \notin routes /\ Free # {}

MayAdmit(a) ==
    /\ router = "open" /\ ~blocked
    /\ a \notin routes
    /\ Free # {}

Refused(c) ==
    /\ doing[c] = "admit"
    /\ ~MayAdmit(about[c])
    /\ Returns(c)
    /\ UNCHANGED <<disk, sessions, memory, history>>

\* The route is on disk before the callback is called.
Admit(c) ==
    LET a == about[c] IN
    /\ doing[c] = "admit"
    /\ MayAdmit(a)
    /\ a \notin folders
    /\ folders' = folders \cup {a}
    /\ Writes(a, "route")
    /\ routes' = routes \cup {a}
    /\ active' = [active EXCEPT ![a] = FirstFree]
    /\ sessions' = [sessions EXCEPT ![a] = FirstFree]
    /\ called' = [called EXCEPT ![a]["search"] = @ + 1]
    /\ Goes(c, "search")
    /\ UNCHANGED <<pool, router, blocked, retiring, answered>>

\* Fault for the checks: only what happens after admission blocks the router.
NotAdmittedUnnoticed(a) == UNCHANGED <<blocked, routes, active>>

NotAdmitted(a) == blocked' = TRUE /\ UNCHANGED <<routes, active>>

\* The directory cannot be made, or its route not written.
AdmitFails(c) ==
    LET a == about[c] IN
    /\ doing[c] = "admit"
    /\ MayAdmit(a)
    /\ \/ UNCHANGED <<folders, records, orphans>>
       \/ a \notin folders /\ folders' = folders \cup {a} /\ WriteRaises(a, "route")
    /\ NotAdmitted(a)
    /\ Returns(c)
    /\ UNCHANGED <<pool, sessions, router, retiring, history>>

\* The callback has returned a known response; it is recorded.
Search(c) ==
    LET a == about[c] IN
    /\ doing[c] = "search"
    /\ \/ /\ Writes(a, "search")
          /\ answered' = answered \cup {a}
          /\ Returns(c)
          /\ UNCHANGED blocked
       \/ /\ WriteRaises(a, "search")
          /\ blocked' = TRUE
          /\ Goes(c, "fail")
          /\ UNCHANGED answered
    /\ UNCHANGED <<pool, folders, sessions, router, routes, active, retiring, called>>

\* It raises, or what it returns is not known; there is a session or there is not.
SearchFails(c) ==
    /\ doing[c] = "search"
    /\ sessions' \in {sessions, [sessions EXCEPT ![about[c]] = None]}
    /\ Goes(c, "fail")
    /\ UNCHANGED <<disk, memory, history>>

\* _fail, which takes the lock again.
Fail(c) ==
    /\ doing[c] = "fail"
    /\ blocked' = TRUE
    /\ WriteRaises(about[c], "unknown")
    /\ Returns(c)
    /\ UNCHANGED <<pool, folders, sessions, router, routes, active, retiring, history>>

-----------------------------------------------------------------------------
(* retire.                                                                 *)

MayRetire(a) ==
    /\ router = "open"
    /\ active[a] # None
    /\ a \notin retiring
    /\ "search" \in records[a]

\* The caller passes the response that search returned.  A request that cannot
\* be recorded is not sent, and nothing says so but the missing record.
RetireBegins(c, a) ==
    /\ doing[c] = "idle"
    /\ a \in answered
    /\ MayRetire(a)
    /\ retiring' = retiring \cup {a}
    /\ \/ Writes(a, "intent") /\ Busy(c, "retire", a) /\ UNCHANGED blocked
       \/ WriteRaises(a, "intent") /\ blocked' = TRUE /\ UNCHANGED calls
    /\ UNCHANGED <<pool, folders, sessions, router, routes, active, history>>

Unconfirmed(c) == Goes(c, "fail")

\* The GPU process answers with a receipt of the release; or the call fails, or
\* its answer confirms nothing, with the session released or not.
Retire(c) ==
    LET a == about[c] IN
    /\ doing[c] = "retire"
    /\ called' = [called EXCEPT ![a]["retire"] = @ + 1]
    /\ LET gone == [sessions EXCEPT ![a] = None] IN
       \/ sessions' = gone /\ Goes(c, "release")
       \/ sessions' \in {sessions, gone} /\ Unconfirmed(c)
    /\ UNCHANGED <<disk, memory, answered>>

\* The replica is free once the receipt is on disk.
Release(c) ==
    LET a == about[c] IN
    /\ doing[c] = "release"
    /\ \/ /\ Writes(a, "retirement")
          /\ active' = [active EXCEPT ![a] = None]
          /\ Returns(c)
          /\ UNCHANGED blocked
       \/ /\ WriteRaises(a, "retirement")
          /\ blocked' = TRUE
          /\ Goes(c, "fail")
          /\ UNCHANGED active
    /\ UNCHANGED <<pool, folders, sessions, router, routes, retiring, history>>

-----------------------------------------------------------------------------
(* The life of a router.                                                   *)

NoRoutes ==
    /\ blocked' = FALSE
    /\ active' = [a \in Attempts |-> None]
    /\ retiring' = {}

Create ==
    /\ router = "none" /\ pool = "absent"
    /\ \/ pool' = "ready" /\ router' = "open"
       \/ pool' \in {"broken", "ready"} /\ UNCHANGED router
    /\ routes' = {}
    /\ NoRoutes
    /\ UNCHANGED <<folders, records, orphans, sessions, calls, history>>

\* _audit_staging with the records that follow from each other.
Settled(a) == records[a] = Complete /\ a \notin orphans

Restorable == \A a \in folders : Settled(a)

Restore ==
    /\ router = "none" /\ pool = "ready"
    /\ Restorable
    /\ router' = "open"
    /\ routes' = folders
    /\ NoRoutes
    /\ UNCHANGED <<disk, sessions, calls, history>>

Close ==
    /\ router = "open"
    /\ router' = "closed"
    /\ UNCHANGED <<disk, sessions, blocked, routes, active, retiring, calls, history>>

\* The process ends, in the middle of anything; a request it has sent was either
\* carried out by then or is not.
Ends ==
    /\ router # "none"
    /\ router' = "none"
    /\ routes' = {}
    /\ NoRoutes
    /\ doing' = [c \in Callers |-> "idle"]
    /\ about' = [c \in Callers |-> None]
    /\ UNCHANGED <<disk, sessions, history>>

Init ==
    /\ pool = "absent" /\ folders = {} /\ orphans = {}
    /\ records = [a \in Attempts |-> {}]
    /\ sessions = [a \in Attempts |-> None]
    /\ router = "none" /\ blocked = FALSE
    /\ routes = {} /\ retiring = {}
    /\ active = [a \in Attempts |-> None]
    /\ doing = [c \in Callers |-> "idle"]
    /\ about = [c \in Callers |-> None]
    /\ answered = {}
    /\ called = [a \in Attempts |-> [search |-> 0, retire |-> 0]]

Next ==
    \/ \E c \in Callers :
          \/ \E a \in Attempts : SearchBegins(c, a) \/ RetireBegins(c, a)
          \/ Refused(c) \/ Admit(c) \/ AdmitFails(c) \/ Search(c) \/ SearchFails(c)
          \/ Retire(c) \/ Release(c) \/ Fail(c)
    \/ Create \/ Restore \/ Close \/ Ends

Spec == Init /\ [][Next]_vars

-----------------------------------------------------------------------------
(* Properties.                                                             *)

\* Every variable keeps its type, and an attempt that occupies a replica has its
\* route in memory and on disk.
TypeOK ==
    /\ pool \in {"absent", "broken", "ready"}
    /\ folders \subseteq Attempts /\ orphans \subseteq Attempts
    /\ records \in [Attempts -> SUBSET (Complete \cup {"unknown"})]
    /\ sessions \in [Attempts -> Replicas \cup {None}]
    /\ router \in {"none", "open", "closed"}
    /\ blocked \in BOOLEAN
    /\ routes \subseteq folders /\ retiring \subseteq routes
    /\ active \in [Attempts -> Replicas \cup {None}]
    /\ \A a \in Attempts : active[a] # None => a \in routes /\ "route" \in records[a]
    /\ doing \in [Callers -> {"idle", "admit", "search", "fail", "retire", "release"}]
    /\ about \in [Callers -> Attempts \cup {None}]
    /\ answered \subseteq Attempts
    /\ called \in [Attempts -> [search : Nat, retire : Nat]]

\* "retry_or_failover": False.  An attempt is searched once and its retirement is
\* sent once, by whichever threads and over all lives of the pool.
SubmittedOnce == \A a \in Attempts : called[a]["search"] <= 1 /\ called[a]["retire"] <= 1

\* "router closed/unknown; no new dispatch": once the disk tells of an outcome
\* that is not known, no attempt is searched any more, in this life or a later one.
UnknownStopsDispatch ==
    [][\A a \in Attempts :
          called'[a]["search"] # called[a]["search"] =>
              orphans = {} /\ \A b \in Attempts : "unknown" \notin records[b]]_vars

\* No call is made twice, and none follows an unknown outcome.
DispatchesOnce == []SubmittedOnce /\ UnknownStopsDispatch

\* A router that is not blocked and has no attempt under way could be opened
\* again on what it wrote: its memory and its records agree.
QuietCanReopen ==
    (/\ router = "open" /\ ~blocked
     /\ \A a \in Attempts : active[a] = None)
    => routes = folders /\ Restorable

Slots == INSTANCE SessionSlots WITH
    Slots <- Replicas,
    holders <- [r \in Replicas |-> {a \in Attempts : sessions[a] = r}],
    used <- {a \in Attempts : called[a]["search"] > 0}

\* "per_endpoint_capacity": 1.  An attempt has one session in its life, and no
\* replica is given a second session while it may have a first, whatever failed
\* and however often the pool was opened again.
KeepsSlots == Slots!Spec
=============================================================================
