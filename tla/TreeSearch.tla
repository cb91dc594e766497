----------------------------- MODULE TreeSearch -----------------------------
(***************************************************************************)
(* The search for one proof: reap's Monte-Carlo search over an AND/OR tree *)
(* (Reap/Tactic/TreeSearch.lean), with the training observer and the       *)
(* refresh of selection values that two patches of this repository add.    *)
(*                                                                         *)
(* An OR node is a proof state to run tactics in, an AND node a state of   *)
(* independent goals with a child focused on each.  An iteration walks     *)
(* down by the scores of the children, asks the model about the node it    *)
(* ends in, runs the tactics proposed and backs a value up.  Scores are    *)
(* left open: any child may be best, and any OR node may be due another    *)
(* sample.  A value is abstracted to the versions of the model it was      *)
(* made from; what a tactic does to a goal is a constant.                  *)
(***************************************************************************)
EXTENDS Integers, Sequences, FiniteSets

CONSTANTS
    Goals,
    Tactics,
    Results,     \* what a tactic makes of a goal: the goals left, or None
    Coupled,     \* goals that contain metavariables
    Unsound,     \* tactics whose proof the kernel rejects at the end
    Start,       \* the goals of the theorem
    None,
    MaxNodes, MaxSteps,
    Width,       \* bound: tactics run after one answer of the policy
    MaxVersion   \* bound: updates of the model during the search

ASSUME TacticAssumption ==
    /\ Coupled \subseteq Goals /\ Unsound \subseteq Tactics
    /\ None \notin Tactics
    /\ \A t \in Tactics, g \in Goals : Results[t][g] \in Seq(Goals) \cup {None}

ASSUME SearchAssumption ==
    /\ Start \in Seq(Goals) /\ Start # <<>>
    /\ MaxNodes \in Nat \ {0} /\ MaxSteps \in Nat \ {0} /\ Width \in Nat /\ MaxVersion \in Nat

VARIABLES
    nodes,    \* the tree; a child is behind its parent
    path,     \* the nodes from the root to the one the search is at
    phase,
    tried,    \* tactics run at that node
    carried,  \* what the value handed to the parent was made from
    step,
    version,  \* selectionVersion
    fresh,    \* the selection values of a refresh under way
    cursor    \* the node it is at

refresh == <<fresh, cursor>>
vars == <<nodes, path, phase, tried, carried, step, version, fresh, cursor>>

-----------------------------------------------------------------------------
(* Nodes and edges.                                                        *)

\* used: the models behind valueSum; sel: those behind selectionValue?, a set of at
\* most one such set.
Node(goals, kind, focused) ==
    [goals |-> goals, kind |-> kind, focused |-> focused, solved |-> goals = <<>>,
     visits |-> 0, evals |-> 0, used |-> {}, sel |-> {}, kids |-> <<>>]

\* An edge to a focused child has no tactic.
Edge(t, n) == [tactic |-> t, node |-> n, visits |-> 0]

Kid(n, k) == nodes[n].kids[k].node
KidsOf(n) == {Kid(n, k) : k \in DOMAIN nodes[n].kids}

Here == path[Len(path)]
Parent == path[Len(path) - 1]
Ancestors == {nodes[path[i]].goals : i \in DOMAIN path}

\* childKindAfterTactic: several goals split if none can influence another.
KindAfter(goals) ==
    IF Len(goals) > 1 /\ \A i \in DOMAIN goals : goals[i] \notin Coupled THEN "and" ELSE "or"

\* pushChildT, and pushFocusChildren behind an AND child.
Pushed(n, t, goals) ==
    LET new == Len(nodes) + 1
        kind == KindAfter(goals)
        focus == IF kind = "and" THEN DOMAIN goals ELSE {}
        child == [Node(goals, kind, nodes[n].focused) EXCEPT
                     !.kids = [i \in focus |-> Edge(None, new + i)]]
    IN  Append([nodes EXCEPT ![n].kids = Append(@, Edge(t, new))], child)
            \o [i \in focus |-> Node(<<goals[i]>>, "or", TRUE)]

\* Fault for the checks: one solved goal of several is taken for the proof.
NodeSolvedAny(tree, n) ==
    \/ tree[n].solved
    \/ \E k \in DOMAIN tree[n].kids : tree[tree[n].kids[k].node].solved

NodeSolved(tree, n) ==
    LET kids == tree[n].kids
        done == {k \in DOMAIN kids : tree[kids[k].node].solved}
    IN  \/ tree[n].solved
        \/ tree[n].kind = "or" /\ done # {}
        \/ tree[n].kind = "and" /\ kids # <<>> /\ done = DOMAIN kids

-----------------------------------------------------------------------------
(* Selection.                                                              *)

\* Fault for the checks: a goal already proved keeps its score.
OpenKidsScored(n) == DOMAIN nodes[n].kids

\* The children that may score best: at an AND node those not solved.
OpenKids(n) ==
    {k \in DOMAIN nodes[n].kids : nodes[n].kind = "and" => ~nodes[Kid(n, k)].solved}

\* One level of reapMCTSStep on its way down.
Select(k) ==
    /\ phase = "select"
    /\ k \in OpenKids(Here)
    /\ path' = Append(path, Kid(Here, k))
    /\ UNCHANGED <<nodes, phase, tried, carried, step, version, refresh>>

\* The descent ends: visitNode asks for a value and tactics at an OR node.  At an
\* AND node that has no open child it returns the value the node has.
Visit ==
    /\ phase = "select"
    /\ nodes[Here].kind = "and" => OpenKids(Here) = {}
    /\ IF nodes[Here].kind = "and"
       THEN phase' = "backup" /\ carried' = nodes[Here].used /\ UNCHANGED nodes
       ELSE LET from == IF nodes[Here].goals = <<>> THEN {} ELSE {version} IN
            /\ nodes' = [nodes EXCEPT ![Here].used = @ \cup from, ![Here].visits = @ + 1,
                                      ![Here].evals = @ + 1]
            /\ phase' = "expand" /\ carried' = from
    /\ UNCHANGED <<path, tried, step, version, refresh>>

-----------------------------------------------------------------------------
(* Expansion: the rest of visitNode.                                       *)

\* A tactic works on the first goal and leaves the others.
After(goals, t) == Results[t][Head(goals)] \o Tail(goals)

\* The tactics of the path.
Script ==
    {t \in Tactics : \E i \in 2..Len(path) : \E k \in DOMAIN nodes[path[i - 1]].kids :
        Kid(path[i - 1], k) = path[i] /\ nodes[path[i - 1]].kids[k].tactic = t}

\* evalTacticStr: a proof that is complete is checked at once, unless it is only
\* the proof of a focused goal.
Runs(t) ==
    LET goals == nodes[Here].goals IN
    /\ goals # <<>>
    /\ Results[t][Head(goals)] # None
    /\ After(goals, t) = <<>> /\ ~nodes[Here].focused =>
          (Script \cup {t}) \cap Unsound = {}

\* The first child made by the same tactic or with the same state.
Twin(n, t, goals) ==
    LET same == {k \in DOMAIN nodes[n].kids :
                    nodes[n].kids[k].tactic = t \/ nodes[Kid(n, k)].goals = goals}
    IN  {k \in same : \A j \in same : k <= j}

\* updateDuplicateChild.
Merged(n, k, goals) ==
    LET c == Kid(n, k) IN
    [nodes EXCEPT ![c].solved = @ \/ goals = <<>>,
                  ![n].solved = @ \/ nodes[c].solved \/ goals = <<>>]

\* A tactic that ran: its state is new, known, or on the path already.
Try(t) ==
    LET goals == After(nodes[Here].goals, t) IN
    /\ phase = "expand" /\ tried < Width
    /\ Runs(t)
    /\ tried' = tried + 1
    /\ IF goals \in Ancestors THEN UNCHANGED nodes
       ELSE nodes' = IF Twin(Here, t, goals) = {} THEN Pushed(Here, t, goals)
                     ELSE Merged(Here, CHOOSE k \in Twin(Here, t, goals) : TRUE, goals)
    /\ UNCHANGED <<path, phase, carried, step, version, refresh>>

\* refreshNodeSolved ends the visit.  Tactics that are rejected, fail or time out
\* leave no trace.
EndVisit ==
    /\ phase = "expand"
    /\ nodes' = [nodes EXCEPT ![Here].solved = NodeSolved(nodes, Here)]
    /\ phase' = "backup" /\ tried' = 0
    /\ UNCHANGED <<path, carried, step, version, refresh>>

-----------------------------------------------------------------------------
(* Backup.                                                                 *)

\* updateEdge.
Traversed(kids, c) ==
    [k \in DOMAIN kids |->
        IF kids[k].node = c THEN [kids[k] EXCEPT !.visits = @ + 1] ELSE kids[k]]

\* updateEdge and updateNode on the way up from c to n.
BackedUp(n, c) ==
    [nodes EXCEPT ![n].kids = Traversed(@, c), ![n].visits = @ + 1, ![n].used = @ \cup carried,
                  ![n].solved = NodeSolved(nodes, n)]

\* The children behind the value of an AND node.
Behind(n) == {c \in KidsOf(n) : ~nodes[c].solved /\ nodes[c].visits > 0}

Backup ==
    /\ phase = "backup" /\ Len(path) > 1
    /\ nodes' = BackedUp(Parent, Here)
    /\ carried' = IF nodes[Parent].kind = "or" THEN carried
                  ELSE UNION {nodes[c].used : c \in Behind(Parent)}
    /\ path' = SubSeq(path, 1, Len(path) - 1)
    /\ UNCHANGED <<phase, tried, step, version, refresh>>

-----------------------------------------------------------------------------
(* The end of an iteration.                                                *)

\* The iteration is over and its checkpoint is observed.
AtBarrier == phase = "backup" /\ Len(path) = 1

\* The nodes a refresh gives a value.
Refreshed == {n \in DOMAIN nodes : ~nodes[n].solved /\ nodes[n].visits > 0}

\* The models behind selectionValue of node n.
SelectionModels(n) ==
    IF nodes[n].solved \/ nodes[n].sel = {} THEN nodes[n].used ELSE UNION nodes[n].sel

\* step + 1, and the condition of the loop.
Onward ==
    /\ step' = step + 1
    /\ phase' = IF Len(nodes) <= MaxNodes /\ step + 1 < MaxSteps THEN "select" ELSE "exhausted"
    /\ carried' = {}
    /\ UNCHANGED <<path, tried>>

Continue ==
    /\ AtBarrier /\ ~nodes[1].solved
    /\ Onward
    /\ UNCHANGED <<nodes, version, refresh>>

Solve ==
    /\ AtBarrier /\ nodes[1].solved
    /\ phase' = "solved"
    /\ UNCHANGED <<nodes, path, tried, carried, step, version, refresh>>

\* "requires the append-only Reap tree topology".
AppendOnly == \A n \in DOMAIN nodes : KidsOf(n) \subseteq n + 1..Len(nodes)

\* The version read at the barrier is one more: refreshSelectionValues.
StartRefresh ==
    /\ AtBarrier /\ ~nodes[1].solved
    /\ version < MaxVersion
    /\ AppendOnly
    /\ phase' = "refresh"
    /\ fresh' = [n \in DOMAIN nodes |-> nodes[n].sel]
    /\ cursor' = Len(nodes)
    /\ UNCHANGED <<nodes, path, tried, carried, step, version>>

\* "unsolved refresh node has no goals; refusing to change proof state".
RefreshRefuses(n) == n \in Refreshed /\ nodes[n].kind = "or" /\ nodes[n].goals = <<>>

\* Fault for the checks: an AND node is given the best of the old values.
FreshModelsOld(n) ==
    IF nodes[n].kind = "or" THEN {version + 1} ELSE UNION {SelectionModels(c) : c \in Behind(n)}

\* The model is asked about an OR node; an AND node takes the least new value of
\* its children.
FreshModels(n) ==
    IF nodes[n].kind = "or" THEN {version + 1} ELSE UNION UNION {fresh[c] : c \in Behind(n)}

\* From the last node to the first.
RefreshNode ==
    /\ phase = "refresh" /\ cursor > 0
    /\ ~RefreshRefuses(cursor)
    /\ fresh' = IF cursor \in Refreshed THEN [fresh EXCEPT ![cursor] = {FreshModels(cursor)}] ELSE fresh
    /\ cursor' = cursor - 1
    /\ UNCHANGED <<nodes, path, phase, tried, carried, step, version>>

\* All values are replaced together.
Adopt ==
    /\ phase = "refresh" /\ cursor = 0
    /\ nodes' = [n \in DOMAIN nodes |-> [nodes[n] EXCEPT !.sel = fresh[n]]]
    /\ version' = version + 1
    /\ fresh' = <<>>
    /\ Onward
    /\ UNCHANGED cursor

\* The model, the observer or the reader of the version raises.
Raise ==
    /\ phase \in {"select", "expand", "backup", "refresh"}
    /\ phase' = "failed"
    /\ UNCHANGED <<nodes, path, tried, carried, step, version, refresh>>

-----------------------------------------------------------------------------
(* Replay: replaySolvedNode from the root, and checkProof.                 *)

\* The children of n the replay goes on with.
Taken(n) ==
    LET solved == {k \in DOMAIN nodes[n].kids : nodes[Kid(n, k)].solved} IN
    IF nodes[n].goals = <<>> THEN {}
    ELSE IF nodes[n].kind = "or" THEN {k \in solved : \A j \in solved : k <= j}
    ELSE DOMAIN nodes[n].kids

Walk ==
    LET walk[n \in DOMAIN nodes] == {n} \cup UNION {walk[Kid(n, k)] : k \in Taken(n)}
    IN  walk[1]

\* The replay never stands before a goal without a solved child.
ReplayCloses ==
    \A n \in Walk :
        /\ nodes[n].goals # <<>> => Taken(n) # {}
        /\ \A k \in Taken(n) : nodes[Kid(n, k)].solved

Replayed == UNION {{nodes[n].kids[k].tactic : k \in Taken(n)} : n \in Walk}

\* A tactic may also run out of heartbeats now that did not before.
Replay ==
    /\ phase = "solved"
    /\ phase' \in {"rejected"} \cup
          IF ReplayCloses /\ Replayed \cap Unsound = {} THEN {"proved"} ELSE {}
    /\ UNCHANGED <<nodes, path, tried, carried, step, version, refresh>>

-----------------------------------------------------------------------------
Init ==
    /\ nodes = <<Node(Start, "or", FALSE)>>
    /\ path = <<1>>
    /\ phase = "select"
    /\ tried = 0
    /\ carried = {}
    /\ step = 0
    /\ version = 0
    /\ fresh = <<>> /\ cursor = 0

Next ==
    \/ \E k \in 1..Len(nodes) : Select(k)
    \/ Visit \/ EndVisit \/ Backup
    \/ \E t \in Tactics : Try(t)
    \/ Continue \/ StartRefresh \/ RefreshNode \/ Adopt
    \/ Solve \/ Replay \/ Raise

Spec == Init /\ [][Next]_vars

-----------------------------------------------------------------------------
(* What the search promises.                                               *)

EdgeType == [tactic: Tactics \cup {None}, node: Nat, visits: Nat]
NodeType ==
    [goals: Seq(Goals), kind: {"or", "and"}, focused: BOOLEAN, solved: BOOLEAN,
     visits: Nat, evals: Nat, used: SUBSET Nat, sel: SUBSET SUBSET Nat,
     kids: Seq(EdgeType)]

\* Every variable has its type, and a child is behind its parent.
TypeOK ==
    /\ nodes \in Seq(NodeType) /\ nodes # <<>>
    /\ path \in Seq(DOMAIN nodes) /\ path # <<>> /\ path[1] = 1
    /\ phase \in {"select", "expand", "backup", "refresh", "solved", "proved", "rejected",
                 "exhausted", "failed"}
    /\ tried \in 0..Width /\ carried \subseteq Nat
    /\ step \in 0..MaxSteps /\ version \in 0..MaxVersion
    /\ AppendOnly
    /\ phase = "refresh" => fresh \in [DOMAIN nodes -> SUBSET SUBSET Nat] /\ cursor \in 0..Len(nodes)

\* The tree holds a proof of node n: by tactics down to no goal, of every goal
\* where the goals were split.
Provable ==
    LET provable[n \in DOMAIN nodes] ==
            \/ nodes[n].goals = <<>>
            \/ nodes[n].kind = "or" /\ \E c \in KidsOf(n) : provable[c]
            \/ nodes[n].kind = "and" /\ \A c \in KidsOf(n) : provable[c]
    IN  provable

EdgeVisits(n) ==
    LET kids == nodes[n].kids
        sum[k \in 0..Len(kids)] == IF k = 0 THEN 0 ELSE sum[k - 1] + kids[k].visits
    IN  sum[Len(kids)]

\* What a checkpoint says of the tree is true.  A node is marked solved exactly if
\* the tree holds a proof of it, also where children were merged; a solved root
\* can be replayed, and without a split the kernel has seen the proof already.
\* Every iteration is one visit of the root, and every visit of a node one of its
\* evaluations or of its edges, as the coordinator assumes who trains on them.
CheckpointIsTruthful ==
    AtBarrier =>
        /\ \A n \in DOMAIN nodes : nodes[n].solved = Provable[n]
        /\ nodes[1].solved =>
              /\ ReplayCloses
              /\ (\A n \in Walk : nodes[n].kind = "or") => Replayed \cap Unsound = {}
        /\ nodes[1].visits = step + 1
        /\ \A n \in DOMAIN nodes :
              /\ nodes[n].visits = nodes[n].evals + EdgeVisits(n)
              /\ \A k \in DOMAIN nodes[n].kids : nodes[n].kids[k].visits = nodes[Kid(n, k)].visits

\* No evaluation is spent on what is proved: the search only ever walks through
\* nodes that are open, and at an AND node it always finds a goal to go on with.
SearchesOpenWork ==
    phase = "select" =>
        /\ \A i \in DOMAIN path : ~nodes[path[i]].solved
        /\ nodes[Here].kind = "and" => OpenKids(Here) # {}

\* After an update the search is led by the new model alone: no value of an open
\* node that selection may compare was made from answers of an earlier version,
\* and the refresh does not refuse a tree the search can build.
SelectionIsCurrent ==
    phase \in {"select", "expand", "backup"} =>
        /\ AppendOnly
        /\ \A n \in Refreshed : SelectionModels(n) \subseteq {version} /\ ~RefreshRefuses(n)
=============================================================================
