-------------------------- MODULE ReleasedAttempts --------------------------
(***************************************************************************)
(* Reservation under the latest published release: the provider of         *)
(* cpu_runtime/released_attempts.py and the dispatch of                    *)
(* cpu_runtime/collector_batch.py that calls it, over the scheduler of     *)
(* Matchmaker, which this module extends, and a learner of the same        *)
(* process, of which it sees what ReleaseLine promises.                    *)
(*                                                                         *)
(* The learner trains and publishes under its lock; the provider takes the *)
(* lock twice and prepares the source of the attempt in between.  Releases *)
(* are numbered by the training step they were extracted from.             *)
(***************************************************************************)
EXTENDS Matchmaker

ASSUME ReleasesAssumption == Releases \subseteq Nat \ {0}
ASSUME LockAssumption == "learner" \notin Callers /\ None \notin Callers \cup {"learner"}

VARIABLES
    trained,     \* disk: committed training steps
    released,    \* disk: how many of them are published
    strict,      \* disk: release heads are required
    unresolved,  \* disk: a training or publication intent has no counterpart
    learner,     \* the owning coordinator: "live", "blocked" or "gone"
    lock,        \* who holds its lock: "learner", a caller, or None
    at,          \* where each caller is in a dispatch
    wanted,      \* the proposal each caller prepares its source for, then its intent
    heads,       \* the head each caller read last
    sources,     \* the proposal the source of each reserved attempt was made for
    selections,  \* disk: publication-selection.json of each attempt, or None
    searched     \* history: attempts whose search was submitted

run == <<trained, released, strict, unresolved, learner>>
caller == <<at, wanted, heads>>
record == <<sources, selections, searched>>
all == <<vars, run, lock, caller, record>>

NoRecord == [a \in 1..MaxAttempts |-> None]

StartCallers ==
    /\ at = [c \in Callers |-> "idle"]
    /\ wanted = [c \in Callers |-> None]
    /\ heads = [c \in Callers |-> None]

ProviderInit ==
    /\ Init
    /\ trained = 0 /\ released = 0 /\ strict = FALSE
    /\ unresolved = FALSE /\ learner = "live" /\ lock = None
    /\ StartCallers
    /\ sources = NoRecord /\ selections = NoRecord /\ searched = {}

-----------------------------------------------------------------------------
(* The learner's thread.  Each call holds the lock from end to end.        *)

Take(who) == lock = None /\ lock' = who
Free == lock' = None

Enable ==
    /\ learner = "live" /\ lock = None
    /\ trained = 0 /\ strict' = TRUE
    /\ UNCHANGED <<vars, trained, released, unresolved, learner, lock, caller, record>>

Trains == learner = "live" /\ (strict => released = trained) /\ trained + 1 \in Releases
Publishes == learner = "live" /\ strict /\ released < trained

Commits == Trains /\ trained' = trained + 1 /\ UNCHANGED <<released, strict>>
Confirms == Publishes /\ released' = released + 1 /\ UNCHANGED <<trained, strict>>

CallBegins ==
    /\ Trains \/ Publishes
    /\ Take("learner")
    /\ UNCHANGED <<vars, run, caller, record>>

\* train_next; train_next_and_publish keeps the lock and goes on to publish.
TrainNext ==
    /\ lock = "learner" /\ Commits
    /\ lock' \in {"learner", None}
    /\ UNCHANGED <<vars, unresolved, learner, caller, record>>

Publish ==
    /\ lock = "learner" /\ Confirms
    /\ Free
    /\ UNCHANGED <<vars, unresolved, learner, caller, record>>

\* The step or the publication raises, before or after it is on disk.
CallFails ==
    /\ lock = "learner"
    /\ \/ (Commits \/ Confirms) /\ UNCHANGED unresolved
       \/ unresolved' \in BOOLEAN /\ UNCHANGED <<trained, released, strict>>
    /\ learner' = "blocked"
    /\ Free
    /\ UNCHANGED <<vars, caller, record>>

-----------------------------------------------------------------------------
(* The provider.                                                           *)

\* available_head: the learner is live and its last step is published.
HeadAvailable == learner = "live" /\ strict /\ released > 0 /\ released = trained

\* The first section: the head, and a proposal under it that is not reserved.
Propose(c) ==
    /\ at[c] = "idle" /\ lock = None /\ phase = "live"
    /\ HeadAvailable
    /\ \E proposal \in Plan(released) : wanted' = [wanted EXCEPT ![c] = proposal]
    /\ heads' = [heads EXCEPT ![c] = released]
    /\ at' = [at EXCEPT ![c] = "prepare"]
    /\ UNCHANGED <<vars, run, lock, record>>

\* A proposal but for its release.
Unreleased(proposal) == [proposal EXCEPT !.release = 0]

GoesOn(c) == at[c] = "prepare" /\ phase = "live"

\* Fault for the checks: the head of the first section is taken for the latest.
SelectOld(c) ==
    /\ GoesOn(c) /\ Take(c)
    /\ PlanNext(c, heads[c])
    /\ Unreleased(held'[c]) = Unreleased(wanted[c])
    /\ at' = [at EXCEPT ![c] = "reserve"]
    /\ UNCHANGED <<run, wanted, heads, record>>

\* Fault for the checks: nobody compares the plan with the one prepared for.
SelectAny(c) ==
    /\ GoesOn(c) /\ Take(c)
    /\ HeadAvailable
    /\ PlanNext(c, released)
    /\ heads' = [heads EXCEPT ![c] = released]
    /\ at' = [at EXCEPT ![c] = "reserve"]
    /\ UNCHANGED <<run, wanted, record>>

\* The second section, as far as the comparison: but for the release, the plan
\* is the one the source was prepared for.
Select(c) ==
    /\ GoesOn(c) /\ Take(c)
    /\ HeadAvailable
    /\ PlanNext(c, released)
    /\ Unreleased(held'[c]) = Unreleased(wanted[c])
    /\ heads' = [heads EXCEPT ![c] = released]
    /\ at' = [at EXCEPT ![c] = "reserve"]
    /\ UNCHANGED <<run, wanted, record>>

\* Asked to stop, without a head, or with another plan: nothing is reserved.
GiveUp(c) ==
    /\ at[c] = "prepare" /\ lock = None
    /\ at' = [at EXCEPT ![c] = "idle"] /\ wanted' = [wanted EXCEPT ![c] = None]
    /\ UNCHANGED <<vars, run, lock, heads, record>>

\* The second section, reserve.  Where the publication of the intent fails, the
\* caller has no intent and no selection.
ReserveSelected(c) ==
    /\ at[c] = "reserve" /\ lock = c
    /\ Reserve(c)
    /\ Free
    /\ at' = [at EXCEPT ![c] = IF sent' # sent THEN "dispatch" ELSE "idle"]
    /\ sources' = IF sent' # sent THEN [sources EXCEPT ![held[c].attempt] = wanted[c]]
                  ELSE sources
    /\ wanted' = [wanted EXCEPT ![c] = held[c]]
    /\ UNCHANGED <<run, heads, selections, searched>>

\* Another caller reserved meanwhile, or left the instance poisoned.
ReserveRefused(c) ==
    /\ at[c] = "reserve" /\ lock = c
    /\ ReserveStale(c)
    /\ Free
    /\ at' = [at EXCEPT ![c] = "idle"] /\ wanted' = [wanted EXCEPT ![c] = None]
    /\ UNCHANGED <<run, heads, record>>

RunEnds(c) ==
    /\ phase = "poisoned" /\ at[c] # "idle"
    /\ at' = [at EXCEPT ![c] = "idle"] /\ lock' = IF lock = c THEN None ELSE lock
    /\ UNCHANGED <<vars, run, wanted, heads, record>>

-----------------------------------------------------------------------------
(* The dispatch of the collector.                                          *)

\* The attempt's directory and the selection are saved, then it is searched.
Dispatch(c) ==
    /\ at[c] = "dispatch"
    /\ selections' = [selections EXCEPT ![wanted[c].attempt] = heads[c]]
    /\ searched' = searched \cup {wanted[c].attempt}
    /\ at' = [at EXCEPT ![c] = "idle"]
    /\ UNCHANGED <<vars, run, lock, wanted, heads, sources>>

\* A record cannot be saved: the attempt stays pending, or is settled unknown.
DispatchFails(c) ==
    /\ at[c] = "dispatch"
    /\ \/ selections' = [selections EXCEPT ![wanted[c].attempt] = heads[c]]
       \/ UNCHANGED selections
    /\ at' = [at EXCEPT ![c] = "idle"]
    /\ UNCHANGED <<vars, run, lock, wanted, heads, sources, searched>>

\* Only a search has an outcome; an attempt that cannot be dispatched is unknown.
Settle(a, outcome) ==
    /\ outcome # "unknown" => a \in searched
    /\ \A c \in Callers : at[c] = "dispatch" => wanted[c].attempt # a
    /\ RecordResult(a, outcome)
    /\ UNCHANGED <<run, lock, caller, record>>

-----------------------------------------------------------------------------
(* The process: scheduler, learner and callers go together.                *)

Die ==
    /\ Stop
    /\ learner' = "gone" /\ lock' = None
    /\ \/ UNCHANGED <<trained, released, strict, unresolved>>
       \/ lock = "learner" /\ (Commits \/ Confirms) /\ UNCHANGED unresolved
       \/ lock = "learner" /\ unresolved' = TRUE /\ UNCHANGED <<trained, released, strict>>
    /\ at' = [c \in Callers |-> "idle"]
    /\ wanted' = [c \in Callers |-> None]
    /\ heads' = [c \in Callers |-> None]
    /\ UNCHANGED record

\* restore refuses a run with an unresolved intent.
RestoreLearner ==
    /\ learner = "gone" /\ ~unresolved
    /\ learner' = "live"
    /\ UNCHANGED <<vars, trained, released, strict, unresolved, lock, caller, record>>

Reopen ==
    /\ Open \/ ReplayEvent \/ FinishOpen
    /\ UNCHANGED <<run, lock, caller, record>>

ProviderNext ==
    \/ Enable \/ CallBegins \/ TrainNext \/ Publish \/ CallFails
    \/ \E c \in Callers :
          \/ Propose(c) \/ Select(c) \/ GiveUp(c) \/ ReserveSelected(c) \/ ReserveRefused(c)
          \/ RunEnds(c) \/ Dispatch(c) \/ DispatchFails(c)
    \/ \E a \in 1..MaxAttempts, o \in Outcomes : Settle(a, o)
    \/ Die \/ RestoreLearner \/ Reopen

ProviderSpec == ProviderInit /\ [][ProviderNext]_all

-----------------------------------------------------------------------------
(* What the provider is for.                                               *)

\* However long a source took to prepare, and whatever was trained or published
\* meanwhile, an intent reaches the log under the release that is the latest at
\* that moment, and with no training step beyond it.
LatestAtReservation ==
    [][Len(events') > Len(events) /\ events'[Len(events')].kind = "intent" =>
          events'[Len(events')].proposal.release = released /\ released = trained]_all

\* An attempt is searched only with its selection on disk, which names the head
\* of the release it was reserved under, and with the source prepared for that
\* very attempt, problem, polarity and budget.
SearchedAsReserved ==
    \A a \in searched : \E i \in DOMAIN events :
        /\ events[i].kind = "intent" /\ events[i].proposal.attempt = a
        /\ selections[a] = events[i].proposal.release
        /\ Unreleased(sources[a]) = Unreleased(events[i].proposal)
=============================================================================
