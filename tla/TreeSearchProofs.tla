-------------------------- MODULE TreeSearchProofs --------------------------
(***************************************************************************)
(* Proofs about the tree search, for any tactics, any goals and any bounds *)
(* on the search.  A flag tells of the children of a node, and it is       *)
(* brought up to date on the way up: the invariant says which flags may be *)
(* behind at each moment, that the tree is one, and how far the values of  *)
(* an earlier model reach.  A second invariant, the books, is about what a *)
(* checkpoint says: the visits counted, and the proofs the kernel has seen.*)
(***************************************************************************)
EXTENDS TreeSearch, SequenceTheorems, WellFoundedInduction, TLAPS

-----------------------------------------------------------------------------
(* The invariant.  What it says of a tree alone takes the tree as argument. *)

KidAt(tree, n, k) == tree[n].kids[k].node

Forward(tree) ==
    \A n \in DOMAIN tree : \A k \in DOMAIN tree[n].kids : KidAt(tree, n, k) \in n + 1..Len(tree)

OneParent(tree) ==
    \A n, m \in DOMAIN tree : \A k \in DOMAIN tree[n].kids, j \in DOMAIN tree[m].kids :
        KidAt(tree, n, k) = KidAt(tree, m, j) => n = m

Split(tree) == \A n \in DOMAIN tree : tree[n].kind = "and" => tree[n].kids # <<>>

\* An edge is a step of its tactic.
EdgesAreSteps(tree) ==
    \A n \in DOMAIN tree : \A k \in DOMAIN tree[n].kids :
        tree[n].kids[k].tactic # None =>
            tree[KidAt(tree, n, k)].goals = After(tree[n].goals, tree[n].kids[k].tactic)

Shape(tree) == Forward(tree) /\ OneParent(tree) /\ Split(tree) /\ EdgesAreSteps(tree)

\* What a flag stands for.
Supported(tree, n) ==
    \/ tree[n].goals = <<>>
    \/ tree[n].kind = "or" /\ \E k \in DOMAIN tree[n].kids : tree[KidAt(tree, n, k)].solved
    \/ tree[n].kind = "and" /\ \A k \in DOMAIN tree[n].kids : tree[KidAt(tree, n, k)].solved

Sound(tree) ==
    \A n \in DOMAIN tree :
        /\ tree[n].solved => Supported(tree, n)
        /\ tree[n].goals = <<>> => tree[n].solved

\* The path is one of the tree, and the nodes the search will come back to are open.
Steps(tree, p) ==
    \A i \in DOMAIN p : i > 1 =>
        \E k \in DOMAIN tree[p[i - 1]].kids : KidAt(tree, p[i - 1], k) = p[i]

Rising(p) == \A i, j \in DOMAIN p : i < j => p[i] < p[j]

Walking ==
    /\ Steps(nodes, path) /\ Rising(path)
    /\ phase = "expand" => nodes[Here].kind = "or"
    /\ phase \in {"expand", "backup"} =>
          \A i \in DOMAIN path : i < Len(path) => ~nodes[path[i]].solved
    /\ phase = "refresh" => Len(path) = 1 /\ ~nodes[1].solved /\ version < MaxVersion
    /\ phase \in {"select", "expand", "backup", "refresh"} => step < MaxSteps

\* The places of the path whose flags wait for the search to come back to them.
Due(i) ==
    \/ phase = "expand" /\ i >= Len(path) - 1
    \/ phase = "backup" /\ i = Len(path) - 1

FlagsComplete ==
    phase \in {"select", "expand", "backup", "refresh"} =>
        \A n \in DOMAIN nodes : Supported(nodes, n) =>
            nodes[n].solved \/ \E i \in DOMAIN path : path[i] = n /\ Due(i)

\* Where a value of a node may come from: an answer of an earlier version is behind
\* a refreshed value, and so are the values above it.
Valued(tree, v) ==
    \A n \in DOMAIN tree :
        /\ ~tree[n].solved /\ tree[n].sel = {} => tree[n].used \subseteq {v}
        /\ ~tree[n].solved => UNION tree[n].sel \subseteq {v}
        /\ tree[n].visits = 0 => tree[n].used = {} /\ tree[n].sel = {}

RefreshedAbove(tree) ==
    \A n \in DOMAIN tree : \A k \in DOMAIN tree[n].kids :
        tree[KidAt(tree, n, k)].sel # {} => tree[n].sel # {} \/ tree[n].solved

VisitedAbove ==
    \A n \in DOMAIN nodes : \A k \in DOMAIN nodes[n].kids :
        nodes[KidAt(nodes, n, k)].visits > 0 =>
            \/ nodes[n].visits > 0
            \/ phase \in {"expand", "backup"} /\ \E i \in DOMAIN path : i < Len(path) /\ path[i] = n

Searching == phase \in {"select", "expand", "backup", "refresh"}

Values ==
    /\ RefreshedAbove(nodes)
    /\ Searching => Valued(nodes, version) /\ VisitedAbove
    /\ phase \in {"expand", "backup"} =>
          (carried \subseteq {version} \/ nodes[Here].sel # {}) /\ nodes[Here].visits > 0
    /\ phase = "refresh" =>
          \A n \in DOMAIN nodes :
              IF n > cursor /\ n \in Refreshed
              THEN fresh[n] # {} /\ UNION fresh[n] \subseteq {version + 1}
              ELSE fresh[n] = nodes[n].sel

IInv ==
    /\ TypeOK
    /\ Shape(nodes) /\ Sound(nodes)
    /\ Walking /\ FlagsComplete /\ SearchesOpenWork
    /\ Values

-----------------------------------------------------------------------------
(* Trees.                                                                  *)

\* One node of a tree is replaced.
LEMMA Replaced ==
    ASSUME NEW tree \in Seq(NodeType), NEW n \in DOMAIN tree, NEW r \in NodeType
    PROVE  /\ [tree EXCEPT ![n] = r] \in Seq(NodeType)
           /\ Len([tree EXCEPT ![n] = r]) = Len(tree)
           /\ \A m \in DOMAIN tree : [tree EXCEPT ![n] = r][m] = IF m = n THEN r ELSE tree[m]
  OBVIOUS

\* The nodes have the goals, the kind and the edges they had.
SameShape(old, new) ==
    /\ Len(new) = Len(old)
    /\ \A n \in DOMAIN old :
          /\ new[n].goals = old[n].goals /\ new[n].kind = old[n].kind
          /\ Len(new[n].kids) = Len(old[n].kids)
          /\ \A k \in DOMAIN old[n].kids :
                /\ new[n].kids[k].node = old[n].kids[k].node
                /\ new[n].kids[k].tactic = old[n].kids[k].tactic

\* The parts of a node.
LEMMA NodeFacts ==
    ASSUME NEW tree \in Seq(NodeType), NEW n \in DOMAIN tree
    PROVE  /\ n \in 1..Len(tree) /\ Len(tree) \in Nat
           /\ tree[n] \in NodeType
           /\ tree[n].kids \in Seq(EdgeType) /\ DOMAIN tree[n].kids = 1..Len(tree[n].kids)
           /\ Len(tree[n].kids) \in Nat
           /\ \A k \in DOMAIN tree[n].kids : tree[n].kids[k] \in EdgeType /\ KidAt(tree, n, k) \in Nat
  <1>1. n \in 1..Len(tree) /\ Len(tree) \in Nat /\ tree[n] \in NodeType
    OBVIOUS
  <1>2. tree[n].kids \in Seq(EdgeType)
    BY <1>1 DEF NodeType
  <1>3. \A k \in DOMAIN tree[n].kids : tree[n].kids[k] \in EdgeType
    BY <1>2
  <1>4. DOMAIN tree[n].kids = 1..Len(tree[n].kids) /\ Len(tree[n].kids) \in Nat
    BY <1>2
  <1> QED
    BY <1>1, <1>2, <1>3, <1>4 DEF KidAt, EdgeType

\* Marks and counts change nothing of the shape.
LEMMA ShapeKept ==
    ASSUME NEW old \in Seq(NodeType), NEW new \in Seq(NodeType),
           SameShape(old, new), Shape(old)
    PROVE  /\ Shape(new)
           /\ DOMAIN new = DOMAIN old
           /\ \A n \in DOMAIN old :
                 /\ DOMAIN new[n].kids = DOMAIN old[n].kids
                 /\ \A k \in DOMAIN old[n].kids : KidAt(new, n, k) = KidAt(old, n, k)
  <1>1. DOMAIN new = DOMAIN old
    BY DEF SameShape
  <1>2. \A n \in DOMAIN old :
            /\ DOMAIN new[n].kids = DOMAIN old[n].kids
            /\ \A k \in DOMAIN old[n].kids : KidAt(new, n, k) = KidAt(old, n, k)
    BY <1>1, NodeFacts DEF SameShape, KidAt
  <1>3. Forward(new)
    BY <1>1, <1>2 DEF Shape, Forward, SameShape
  <1>4. OneParent(new)
    BY <1>1, <1>2 DEF Shape, OneParent
  <1>5. Split(new)
    <2> SUFFICES ASSUME NEW n \in DOMAIN new, new[n].kind = "and"
                 PROVE  new[n].kids # <<>>
      BY DEF Split
    <2>1. old[n].kids # <<>> /\ Len(new[n].kids) = Len(old[n].kids)
      BY <1>1 DEF Shape, Split, SameShape
    <2>2. Len(old[n].kids) # 0
      BY <2>1, <1>1, NodeFacts
    <2> QED
      BY <2>1, <2>2
  <1>6. EdgesAreSteps(new)
    <2> SUFFICES ASSUME NEW n \in DOMAIN new, NEW k \in DOMAIN new[n].kids,
                        new[n].kids[k].tactic # None
                 PROVE  new[KidAt(new, n, k)].goals = After(new[n].goals, new[n].kids[k].tactic)
      BY DEF EdgesAreSteps
    <2>1. new[n].kids[k].tactic = old[n].kids[k].tactic /\ new[n].goals = old[n].goals
      BY <1>1, <1>2 DEF SameShape
    <2>2. KidAt(old, n, k) \in DOMAIN old
      BY <1>1, <1>2, NodeFacts DEF Shape, Forward
    <2>3. new[KidAt(new, n, k)].goals = old[KidAt(old, n, k)].goals
      BY <2>2, <1>1, <1>2 DEF SameShape
    <2> QED
      BY <2>1, <2>3, <1>1, <1>2 DEF Shape, EdgesAreSteps
  <1> QED
    BY <1>1, <1>2, <1>3, <1>4, <1>5, <1>6 DEF Shape

\* A path of the tree stays one.
LEMMA StepsKept ==
    ASSUME NEW old \in Seq(NodeType), NEW new \in Seq(NodeType),
           SameShape(old, new), Shape(old),
           NEW p \in Seq(DOMAIN old), Steps(old, p)
    PROVE  Steps(new, p)
  <1> SUFFICES ASSUME NEW i \in DOMAIN p, i > 1
               PROVE  \E k \in DOMAIN new[p[i - 1]].kids : KidAt(new, p[i - 1], k) = p[i]
    BY DEF Steps
  <1>1. p[i - 1] \in DOMAIN old
    OBVIOUS
  <1>2. PICK k \in DOMAIN old[p[i - 1]].kids : KidAt(old, p[i - 1], k) = p[i]
    BY DEF Steps
  <1> QED
    BY <1>1, <1>2, ShapeKept

\* The node a path comes from is the only one with an edge to the next.
LEMMA OnlyParent ==
    ASSUME NEW tree \in Seq(NodeType), Shape(tree), NEW p \in Seq(DOMAIN tree),
           p # <<>>, p[1] = 1, Steps(tree, p),
           NEW i \in DOMAIN p, NEW n \in DOMAIN tree, NEW k \in DOMAIN tree[n].kids,
           KidAt(tree, n, k) = p[i]
    PROVE  i > 1 /\ n = p[i - 1]
  <1>1. i # 1
    BY NodeFacts DEF Shape, Forward
  <1>2. i > 1 /\ p[i - 1] \in DOMAIN tree
    BY <1>1
  <1>3. PICK j \in DOMAIN tree[p[i - 1]].kids : KidAt(tree, p[i - 1], j) = p[i]
    BY <1>2 DEF Steps
  <1> QED
    BY <1>2, <1>3 DEF Shape, OneParent

-----------------------------------------------------------------------------
(* Flags.                                                                  *)

\* What the flags of the children support stays supported when flags are added.
LEMMA SupportGrows ==
    ASSUME NEW old \in Seq(NodeType), NEW new \in Seq(NodeType),
           SameShape(old, new), Shape(old),
           \A m \in DOMAIN old : old[m].solved => new[m].solved,
           NEW n \in DOMAIN old, Supported(old, n)
    PROVE  Supported(new, n)
  <1>1. \A k \in DOMAIN old[n].kids : KidAt(old, n, k) \in DOMAIN old
    BY NodeFacts DEF Shape, Forward
  <1>2. new[n].goals = old[n].goals /\ new[n].kind = old[n].kind
    BY DEF SameShape
  <1>3. DOMAIN new[n].kids = DOMAIN old[n].kids
        /\ \A k \in DOMAIN old[n].kids : KidAt(new, n, k) = KidAt(old, n, k)
    BY ShapeKept
  <1>4. \A k \in DOMAIN old[n].kids :
            old[KidAt(old, n, k)].solved => new[KidAt(new, n, k)].solved
    BY <1>1, <1>3
  <1>5. CASE old[n].goals = <<>>
    BY <1>2, <1>5 DEF Supported
  <1>6. CASE old[n].kind = "or" /\ \E k \in DOMAIN old[n].kids : old[KidAt(old, n, k)].solved
    BY <1>2, <1>3, <1>4, <1>6, Zenon DEF Supported
  <1>7. CASE old[n].kind = "and" /\ \A k \in DOMAIN old[n].kids : old[KidAt(old, n, k)].solved
    BY <1>2, <1>3, <1>4, <1>7, Zenon DEF Supported
  <1> QED
    BY <1>5, <1>6, <1>7 DEF Supported

\* A node that gains support has gained it from a child whose flag changed.
LEMMA SupportLocal ==
    ASSUME NEW old \in Seq(NodeType), NEW new \in Seq(NodeType),
           SameShape(old, new), Shape(old),
           NEW n \in DOMAIN old, Supported(new, n)
    PROVE  \/ Supported(old, n)
           \/ \E k \in DOMAIN old[n].kids :
                 new[KidAt(old, n, k)].solved # old[KidAt(old, n, k)].solved
  <1> SUFFICES ASSUME \A k \in DOMAIN old[n].kids :
                          new[KidAt(old, n, k)].solved = old[KidAt(old, n, k)].solved
               PROVE  Supported(old, n)
    OBVIOUS
  <1>1. \A k \in DOMAIN old[n].kids : KidAt(old, n, k) \in DOMAIN old
    BY NodeFacts DEF Shape, Forward
  <1>2. new[n].goals = old[n].goals /\ new[n].kind = old[n].kind
    BY DEF SameShape
  <1>3. DOMAIN new[n].kids = DOMAIN old[n].kids
        /\ \A k \in DOMAIN old[n].kids : KidAt(new, n, k) = KidAt(old, n, k)
    BY ShapeKept
  <1>4. \A k \in DOMAIN old[n].kids :
            old[KidAt(old, n, k)].solved = new[KidAt(new, n, k)].solved
    BY <1>1, <1>3
  <1>5. CASE new[n].goals = <<>>
    BY <1>2, <1>5 DEF Supported
  <1>6. CASE new[n].kind = "or" /\ \E k \in DOMAIN new[n].kids : new[KidAt(new, n, k)].solved
    BY <1>2, <1>3, <1>4, <1>6, Zenon DEF Supported
  <1>7. CASE new[n].kind = "and" /\ \A k \in DOMAIN new[n].kids : new[KidAt(new, n, k)].solved
    BY <1>2, <1>3, <1>4, <1>7, Zenon DEF Supported
  <1> QED
    BY <1>5, <1>6, <1>7 DEF Supported

\* Flags that are added with their support are sound.
LEMMA SoundKept ==
    ASSUME NEW old \in Seq(NodeType), NEW new \in Seq(NodeType),
           SameShape(old, new), Shape(old), Sound(old),
           \A m \in DOMAIN old : old[m].solved => new[m].solved,
           \A m \in DOMAIN old : new[m].solved => old[m].solved \/ Supported(old, m)
    PROVE  Sound(new)
  <1> SUFFICES ASSUME NEW n \in DOMAIN new
               PROVE  (new[n].solved => Supported(new, n)) /\ (new[n].goals = <<>> => new[n].solved)
    BY DEF Sound
  <1>1. n \in DOMAIN old
    BY ShapeKept
  <1>2. new[n].solved => Supported(old, n)
    BY <1>1 DEF Sound
  <1>3. new[n].solved => Supported(new, n)
    BY <1>1, <1>2, SupportGrows
  <1>4. new[n].goals = <<>> => new[n].solved
    BY <1>1 DEF Sound, SameShape
  <1> QED
    BY <1>3, <1>4

\* nodeSolved reads off the children what they support.
LEMMA NodeSolvedIsSupport ==
    ASSUME NEW tree \in Seq(NodeType), Shape(tree), Sound(tree), NEW n \in DOMAIN tree
    PROVE  NodeSolved(tree, n) <=> Supported(tree, n)
  <1>1. tree[n].kind \in {"or", "and"} /\ tree[n].solved \in BOOLEAN
    BY NodeFacts DEF NodeType
  <1>2. tree[n].kind = "and" => tree[n].kids # <<>>
    BY DEF Shape, Split
  <1>3. tree[n].solved => Supported(tree, n)
    BY DEF Sound
  <1>4. tree[n].goals = <<>> => tree[n].solved
    BY DEF Sound
  <1>5. {k \in DOMAIN tree[n].kids : tree[KidAt(tree, n, k)].solved} # {}
            <=> \E k \in DOMAIN tree[n].kids : tree[KidAt(tree, n, k)].solved
    OBVIOUS
  <1>6. {k \in DOMAIN tree[n].kids : tree[KidAt(tree, n, k)].solved} = DOMAIN tree[n].kids
            <=> \A k \in DOMAIN tree[n].kids : tree[KidAt(tree, n, k)].solved
    BY Zenon
  <1> QED
    BY <1>1, <1>2, <1>3, <1>4, <1>5, <1>6 DEF NodeSolved, Supported, KidAt

-----------------------------------------------------------------------------
(* Growth.                                                                 *)

\* A function on an initial segment is a sequence.
LEMMA Listed ==
    ASSUME NEW S, NEW f \in Nat, NEW g \in [1..f -> S]
    PROVE  g \in Seq(S) /\ Len(g) = f /\ DOMAIN g = 1..f
  OBVIOUS

\* A sequence is continued with one element and then with others.
LEMMA Continued ==
    ASSUME NEW S, NEW s \in Seq(S), NEW x \in S, NEW r \in Seq(S)
    PROVE  /\ Append(s, x) \o r \in Seq(S)
           /\ Len(Append(s, x) \o r) = Len(s) + 1 + Len(r)
           /\ \A m \in 1..Len(s) : (Append(s, x) \o r)[m] = s[m]
           /\ (Append(s, x) \o r)[Len(s) + 1] = x
           /\ \A i \in 1..Len(r) : (Append(s, x) \o r)[Len(s) + 1 + i] = r[i]
  <1>1. Append(s, x) \in Seq(S) /\ Len(Append(s, x)) = Len(s) + 1
        /\ Len(s) \in Nat /\ Len(r) \in Nat
    OBVIOUS
  <1>2. \A m \in 1..Len(s) + 1 : Append(s, x)[m] = IF m = Len(s) + 1 THEN x ELSE s[m]
    OBVIOUS
  <1> QED
    BY <1>1, <1>2

\* A new node.
LEMMA NewNode ==
    ASSUME NEW goals \in Seq(Goals), NEW kind \in {"or", "and"}, NEW focused \in BOOLEAN,
           NEW kids \in Seq(EdgeType)
    PROVE  [Node(goals, kind, focused) EXCEPT !.kids = kids] \in NodeType
  BY DEF Node, NodeType

\* A tree grows: one edge more at n, a node, and behind it one for each goal if these
\* were split.
Growth(old, new, n, t, goals) ==
    /\ new \in Seq(NodeType) /\ Len(new) \in Nat /\ Len(new) > Len(old)
    /\ \A m \in 1..Len(old) : m # n => new[m] = old[m]
    /\ new[n] = [old[n] EXCEPT !.kids = Append(@, Edge(t, Len(old) + 1))]
    /\ new[Len(old) + 1].goals = goals /\ new[Len(old) + 1].kind = KindAfter(goals)
    /\ new[Len(old) + 1].focused = old[n].focused
    /\ \A m \in Len(old) + 1..Len(new) :
          /\ new[m].solved <=> new[m].goals = <<>>
          /\ new[m].visits = 0 /\ new[m].evals = 0 /\ new[m].used = {} /\ new[m].sel = {}
    /\ \A k \in DOMAIN new[Len(old) + 1].kids :
          /\ new[Len(old) + 1].kids[k].node = Len(old) + 1 + k
          /\ new[Len(old) + 1].kids[k].tactic = None /\ new[Len(old) + 1].kids[k].visits = 0
          /\ Len(old) + 1 + k <= Len(new)
    /\ new[Len(old) + 1].kind = "and" => new[Len(old) + 1].kids # <<>>
    /\ new[Len(old) + 1].kind = "or" => new[Len(old) + 1].kids = <<>>
    /\ \A m \in Len(old) + 2..Len(new) :
          new[m].kids = <<>> /\ new[m].kind = "or" /\ new[m].goals # <<>>

\* A tactic that creates a child lets the tree grow.
LEMMA Grown ==
    ASSUME NEW n \in DOMAIN nodes, nodes \in Seq(NodeType), NEW t \in Tactics,
           NEW goals \in Seq(Goals)
    PROVE  Growth(nodes, Pushed(n, t, goals), n, t, goals)
  <1> DEFINE L == Len(nodes)
             kind == KindAfter(goals)
             focus == IF kind = "and" THEN DOMAIN goals ELSE {}
             f == IF kind = "and" THEN Len(goals) ELSE 0
             edges == [i \in focus |-> Edge(None, L + 1 + i)]
             child == [Node(goals, kind, nodes[n].focused) EXCEPT !.kids = edges]
             parent == [nodes[n] EXCEPT !.kids = Append(@, Edge(t, L + 1))]
             old == [nodes EXCEPT ![n] = parent]
             behind == [i \in focus |-> Node(<<goals[i]>>, "or", TRUE)]
             new == Append(old, child) \o behind
  <1>1. L \in Nat /\ f \in Nat /\ focus = 1..f /\ kind \in {"or", "and"} /\ n \in 1..L
    BY DEF KindAfter
  <1>16. (kind = "and" => f > 0) /\ (kind = "or" => f = 0)
    BY DEF KindAfter
  <1> HIDE DEF kind, f
  <1>2. edges \in Seq(EdgeType) /\ Len(edges) = f /\ \A i \in 1..f : edges[i] = Edge(None, L + 1 + i)
    <2>1. \A i \in 1..f : Edge(None, L + 1 + i) \in EdgeType
      BY <1>1 DEF Edge, EdgeType
    <2>2. edges \in [1..f -> EdgeType]
      BY <1>1, <2>1
    <2>3. \A i \in 1..f : edges[i] = Edge(None, L + 1 + i)
      BY <1>1
    <2> HIDE DEF edges
    <2> QED
      BY <1>1, <2>2, <2>3, Listed
  <1>3. child \in NodeType
    <2>1. nodes[n].focused \in BOOLEAN
      BY NodeFacts DEF NodeType
    <2> HIDE DEF edges, kind
    <2> QED
      BY <1>1, <1>2, <2>1, NewNode
  <1>4. parent \in NodeType
    <2>1. Edge(t, L + 1) \in EdgeType
      BY <1>1 DEF Edge, EdgeType
    <2>2. Append(nodes[n].kids, Edge(t, L + 1)) \in Seq(EdgeType)
      BY <2>1, NodeFacts
    <2>3. nodes[n] \in NodeType
      BY NodeFacts
    <2> QED
      BY <2>2, <2>3 DEF NodeType
  <1>5. old \in Seq(NodeType) /\ Len(old) = L
        /\ \A m \in 1..L : old[m] = IF m = n THEN parent ELSE nodes[m]
    BY <1>4, Replaced
  <1>6. behind \in Seq(NodeType) /\ Len(behind) = f
        /\ \A i \in 1..f : behind[i] = Node(<<goals[i]>>, "or", TRUE)
    <2>1. \A i \in 1..f : Node(<<goals[i]>>, "or", TRUE) \in NodeType
      BY <1>1 DEF Node, NodeType
    <2>2. behind \in [1..f -> NodeType]
      BY <1>1, <2>1
    <2>3. \A i \in 1..f : behind[i] = Node(<<goals[i]>>, "or", TRUE)
      BY <1>1
    <2> HIDE DEF behind
    <2> QED
      BY <1>1, <2>2, <2>3, Listed
  <1>7. /\ new \in Seq(NodeType) /\ Len(new) = L + 1 + f
        /\ \A m \in 1..L : new[m] = old[m]
        /\ new[L + 1] = child
        /\ \A i \in 1..f : new[L + 1 + i] = behind[i]
    <2> HIDE DEF old, child, behind
    <2>0. old \in Seq(NodeType) /\ child \in NodeType /\ behind \in Seq(NodeType)
      BY <1>3, <1>5, <1>6
    <2>1. /\ new \in Seq(NodeType) /\ Len(new) = Len(old) + 1 + Len(behind)
          /\ \A m \in 1..Len(old) : new[m] = old[m]
          /\ new[Len(old) + 1] = child
          /\ \A i \in 1..Len(behind) : new[Len(old) + 1 + i] = behind[i]
      BY ONLY <2>0, Continued
    <2> HIDE DEF new
    <2> QED
      BY <1>5, <1>6, <2>1, Zenon
  <1>8. \A m \in 1..L : new[m] = IF m = n THEN parent ELSE nodes[m]
    <2> HIDE DEF old, child, behind, new, parent
    <2> QED
      BY <1>5, <1>7
  <1>9. new[L + 1] = child
    BY <1>7
  <1>10. \A i \in 1..f : new[L + 1 + i] = Node(<<goals[i]>>, "or", TRUE)
    <2> HIDE DEF old, child, behind, new, parent
    <2> QED
      BY <1>6, <1>7
  <1>11. \A m \in L + 2..Len(new) : \E i \in 1..f : m = L + 1 + i
    <2> SUFFICES ASSUME NEW m \in L + 2..Len(new)  PROVE m - (L + 1) \in 1..f /\ m = L + 1 + (m - (L + 1))
      OBVIOUS
    <2> QED
      BY <1>1, <1>7
  <1>12. Pushed(n, t, goals) = new
    BY DEF Pushed, kind
  <1>13. \A m \in L + 2..Len(new) :
            /\ new[m].kids = <<>> /\ new[m].kind = "or" /\ new[m].goals # <<>> /\ ~new[m].solved
            /\ new[m].visits = 0 /\ new[m].evals = 0 /\ new[m].used = {} /\ new[m].sel = {}
    BY <1>10, <1>11 DEF Node
  <1>14. /\ child.goals = goals /\ child.kind = kind /\ child.kids = edges
         /\ (child.solved <=> goals = <<>>) /\ child.visits = 0 /\ child.evals = 0
         /\ child.used = {} /\ child.sel = {} /\ child.focused = nodes[n].focused
    BY DEF Node
  <1>15. \A i \in 1..f : edges[i].node = L + 1 + i /\ edges[i].tactic = None /\ edges[i].visits = 0
    BY <1>2 DEF Edge
  <1>17. \A m \in L + 1..Len(new) : m = L + 1 \/ m \in L + 2..Len(new)
    BY <1>1, <1>7
  <1>18. DOMAIN edges = 1..f /\ (f = 0 => edges = <<>>)
    BY <1>2
  <1>19. \A m \in L + 1..Len(new) :
            /\ (new[m].solved <=> new[m].goals = <<>>)
            /\ new[m].visits = 0 /\ new[m].evals = 0 /\ new[m].used = {} /\ new[m].sel = {}
    <2> HIDE DEF new, child
    <2> QED
      BY <1>9, <1>13, <1>14, <1>17
  <1>20. new[n] = parent /\ \A m \in 1..L : m # n => new[m] = nodes[m]
    <2> HIDE DEF new, parent
    <2> QED
      BY <1>1, <1>8
  <1>21. Len(new) \in Nat /\ Len(new) > L /\ \A i \in 1..f : L + 1 + i <= Len(new)
    <2> HIDE DEF new
    <2> QED
      BY <1>1, <1>7
  <1>22. new[L + 1].kind = "and" => new[L + 1].kids # <<>>
    <2>1. edges = <<>> => f = 0
      BY <1>2
    <2> HIDE DEF new, child, edges
    <2> QED
      BY <1>1, <1>9, <1>14, <1>16, <2>1
  <1>23. new[L + 1].kind = "or" => new[L + 1].kids = <<>>
    <2> HIDE DEF new, child, edges, kind
    <2> QED
      BY <1>9, <1>14, <1>16, <1>18
  <1>24. \A k \in DOMAIN new[L + 1].kids :
            /\ new[L + 1].kids[k].node = L + 1 + k /\ new[L + 1].kids[k].tactic = None
            /\ new[L + 1].kids[k].visits = 0 /\ L + 1 + k <= Len(new)
    <2> HIDE DEF new, child, edges
    <2> QED
      BY <1>9, <1>14, <1>15, <1>18, <1>21
  <1>25. new[L + 1].goals = goals /\ new[L + 1].kind = KindAfter(goals)
         /\ new[L + 1].focused = nodes[n].focused
    <2> HIDE DEF new, child, edges
    <2> QED
      BY <1>9, <1>14 DEF kind
  <1> HIDE DEF child, old, behind, new, edges
  <1>26. Growth(nodes, new, n, t, goals)
    BY <1>7, <1>13, <1>19, <1>20, <1>21, <1>22, <1>23, <1>24, <1>25, Zenon DEF Growth
  <1> QED
    BY <1>12, <1>26

\* What there was stays; the edges are those there were, the new one, and those
\* behind it.
Extends(old, new, n, t) ==
    /\ DOMAIN old \subseteq DOMAIN new /\ Len(old) \in Nat /\ DOMAIN old = 1..Len(old)
    /\ \A m \in DOMAIN old :
          /\ new[m].goals = old[m].goals /\ new[m].kind = old[m].kind
          /\ new[m].solved = old[m].solved /\ new[m].visits = old[m].visits
          /\ new[m].evals = old[m].evals /\ new[m].focused = old[m].focused
          /\ new[m].used = old[m].used /\ new[m].sel = old[m].sel
          /\ DOMAIN old[m].kids \subseteq DOMAIN new[m].kids
          /\ \A k \in DOMAIN old[m].kids : new[m].kids[k] = old[m].kids[k]
    /\ \A m \in DOMAIN new : \A k \in DOMAIN new[m].kids :
          \/ m \in DOMAIN old /\ k \in DOMAIN old[m].kids
          \/ m = n /\ new[m].kids[k].node = Len(old) + 1 /\ new[m].kids[k].tactic = t
          \/ /\ m = Len(old) + 1 /\ new[m].kids[k].tactic = None /\ k \in Nat \ {0}
             /\ new[m].kids[k].node = Len(old) + 1 + k /\ Len(old) + 1 + k <= Len(new)

\* A grown tree extends the one it has grown from.
LEMMA GrownEdges ==
    ASSUME NEW old \in Seq(NodeType), NEW new, NEW n \in DOMAIN old, NEW t \in Tactics, NEW goals,
           Growth(old, new, n, t, goals)
    PROVE  Extends(old, new, n, t)
  <1> DEFINE L == Len(old)
  <1>1. L \in Nat /\ DOMAIN old = 1..L /\ Len(new) \in Nat /\ Len(new) > L /\ DOMAIN new = 1..Len(new)
    BY DEF Growth
  <1>2. old[n] \in NodeType /\ old[n].kids \in Seq(EdgeType)
        /\ DOMAIN old[n].kids = 1..Len(old[n].kids) /\ Len(old[n].kids) \in Nat
    BY NodeFacts
  <1>3. /\ new[n].goals = old[n].goals /\ new[n].kind = old[n].kind
        /\ new[n].solved = old[n].solved /\ new[n].visits = old[n].visits
        /\ new[n].evals = old[n].evals /\ new[n].focused = old[n].focused
        /\ new[n].used = old[n].used /\ new[n].sel = old[n].sel
        /\ new[n].kids = Append(old[n].kids, Edge(t, L + 1))
    BY <1>2 DEF Growth, NodeType
  <1>4. /\ DOMAIN new[n].kids = 1..Len(old[n].kids) + 1
        /\ \A k \in DOMAIN old[n].kids : new[n].kids[k] = old[n].kids[k]
        /\ new[n].kids[Len(old[n].kids) + 1] = Edge(t, L + 1)
    <2>1. Edge(t, L + 1) \in EdgeType
      BY <1>1 DEF Edge, EdgeType
    <2> QED
      BY <1>2, <1>3, <2>1
  <1>5. \A m \in DOMAIN old : m # n => new[m] = old[m]
    BY <1>1 DEF Growth
  <1>6. DOMAIN new[L + 1].kids \subseteq Nat \ {0}
    <2>1. L + 1 \in DOMAIN new
      BY <1>1
    <2>2. new \in Seq(NodeType)
      BY DEF Growth
    <2> QED
      BY <2>1, <2>2, NodeFacts
  <1>7. \A m \in DOMAIN new : m \in DOMAIN old \/ m = L + 1 \/ m \in L + 2..Len(new)
    BY <1>1
  <1>8. \A m \in L + 2..Len(new) : new[m].kids = <<>>
    BY DEF Growth
  <1>9. \A k \in DOMAIN new[L + 1].kids :
            /\ k \in Nat \ {0} /\ L + 1 + k <= Len(new)
            /\ new[L + 1].kids[k].node = L + 1 + k /\ new[L + 1].kids[k].tactic = None
    <2>1. \A k \in DOMAIN new[L + 1].kids :
            /\ new[L + 1].kids[k].node = L + 1 + k /\ new[L + 1].kids[k].tactic = None
            /\ L + 1 + k <= Len(new)
      BY DEF Growth
    <2> QED
      BY <1>6, <2>1
  <1>10. \A k \in DOMAIN new[n].kids :
            \/ k \in DOMAIN old[n].kids
            \/ new[n].kids[k].node = L + 1 /\ new[n].kids[k].tactic = t
    BY <1>2, <1>4 DEF Edge
  <1>11. ASSUME NEW m \in DOMAIN old
         PROVE  /\ new[m].goals = old[m].goals /\ new[m].kind = old[m].kind
                /\ new[m].solved = old[m].solved /\ new[m].visits = old[m].visits
                /\ new[m].evals = old[m].evals /\ new[m].focused = old[m].focused
                /\ new[m].used = old[m].used /\ new[m].sel = old[m].sel
                /\ DOMAIN old[m].kids \subseteq DOMAIN new[m].kids
                /\ \A k \in DOMAIN old[m].kids : new[m].kids[k] = old[m].kids[k]
    <2>1. DOMAIN old[n].kids \subseteq DOMAIN new[n].kids
      BY <1>2, <1>4
    <2>2. CASE m = n
      BY <1>3, <1>4, <2>1, <2>2
    <2>3. CASE m # n
      BY <1>5, <2>3
    <2> QED
      BY <2>2, <2>3
  <1>12. ASSUME NEW m \in DOMAIN new, NEW k \in DOMAIN new[m].kids
         PROVE  \/ m \in DOMAIN old /\ k \in DOMAIN old[m].kids
                \/ m = n /\ new[m].kids[k].node = L + 1 /\ new[m].kids[k].tactic = t
                \/ /\ m = L + 1 /\ new[m].kids[k].tactic = None /\ k \in Nat \ {0}
                   /\ new[m].kids[k].node = L + 1 + k /\ L + 1 + k <= Len(new)
    <2>1. CASE m \in DOMAIN old /\ m # n
      BY <1>5, <2>1
    <2>2. CASE m = n
      BY <1>10, <2>2
    <2>3. CASE m = L + 1
      BY <1>9, <2>3
    <2>4. CASE m \in L + 2..Len(new)
      BY <1>8, <2>4
    <2> QED
      BY <1>7, <2>1, <2>2, <2>3, <2>4
  <1>13. DOMAIN old \subseteq DOMAIN new
    BY <1>1
  <1> QED
    BY <1>1, <1>11, <1>12, <1>13 DEF Extends

\* A grown tree is a tree.
LEMMA GrownShape ==
    ASSUME NEW old \in Seq(NodeType), NEW new, NEW n \in DOMAIN old, NEW t \in Tactics, NEW goals,
           Growth(old, new, n, t, goals), goals = After(old[n].goals, t), Shape(old)
    PROVE  Shape(new)
  <1> DEFINE L == Len(old)
  <1>1. /\ new \in Seq(NodeType) /\ DOMAIN new = 1..Len(new) /\ Len(new) \in Nat /\ Len(new) > L
        /\ L \in Nat /\ DOMAIN old = 1..L
    BY GrownEdges DEF Growth, Extends
  <1>2. Forward(new)
    <2> SUFFICES ASSUME NEW m \in DOMAIN new, NEW k \in DOMAIN new[m].kids
                 PROVE  KidAt(new, m, k) \in m + 1..Len(new)
      BY DEF Forward
    <2>1. CASE m \in DOMAIN old /\ k \in DOMAIN old[m].kids
      <3>1. new[m].kids[k].node = old[m].kids[k].node
        BY <2>1, GrownEdges DEF Extends
      <3>2. old[m].kids[k].node \in m + 1..L
        BY <2>1 DEF Shape, Forward, KidAt
      <3> QED
        BY <1>1, <2>1, <3>1, <3>2 DEF KidAt
    <2>2. CASE m = n /\ new[m].kids[k].node = L + 1
      BY <1>1, <2>2 DEF KidAt
    <2>3. CASE m = L + 1 /\ k \in Nat \ {0} /\ new[m].kids[k].node = L + 1 + k
               /\ L + 1 + k <= Len(new)
      BY <1>1, <2>3 DEF KidAt
    <2> QED
      BY <2>1, <2>2, <2>3, GrownEdges DEF Extends
  <1>3. OneParent(new)
    <2> SUFFICES ASSUME NEW m \in DOMAIN new, NEW o \in DOMAIN new,
                        NEW k \in DOMAIN new[m].kids, NEW j \in DOMAIN new[o].kids,
                        KidAt(new, m, k) = KidAt(new, o, j)
                 PROVE  m = o
      BY DEF OneParent
    <2> DEFINE Old(x, y) == x \in DOMAIN old /\ y \in DOMAIN old[x].kids
               Mid(x, y) == x = n /\ new[x].kids[y].node = L + 1
               End(x, y) == x = L + 1 /\ new[x].kids[y].node > L + 1
    <2>1. Old(m, k) \/ Mid(m, k) \/ End(m, k)
      <3>1. CASE m = L + 1 /\ k \in Nat \ {0} /\ new[m].kids[k].node = L + 1 + k
        BY <3>1, <1>1
      <3> QED
        BY <3>1, GrownEdges DEF Extends
    <2>2. Old(o, j) \/ Mid(o, j) \/ End(o, j)
      <3>1. CASE o = L + 1 /\ j \in Nat \ {0} /\ new[o].kids[j].node = L + 1 + j
        BY <3>1, <1>1
      <3> QED
        BY <3>1, GrownEdges DEF Extends
    <2>3. Old(m, k) => KidAt(new, m, k) = KidAt(old, m, k) /\ KidAt(new, m, k) <= L
                       /\ KidAt(new, m, k) \in Nat
      <3> SUFFICES ASSUME Old(m, k)
                   PROVE  KidAt(new, m, k) = KidAt(old, m, k) /\ KidAt(new, m, k) <= L
                          /\ KidAt(new, m, k) \in Nat
        OBVIOUS
      <3>1. KidAt(old, m, k) \in m + 1..L /\ m \in Nat
        BY <1>1 DEF Shape, Forward
      <3>2. KidAt(new, m, k) = KidAt(old, m, k)
        BY GrownEdges DEF KidAt, Extends
      <3> QED
        BY <1>1, <3>1, <3>2
    <2>4. Old(o, j) => KidAt(new, o, j) = KidAt(old, o, j) /\ KidAt(new, o, j) <= L
                       /\ KidAt(new, o, j) \in Nat
      <3> SUFFICES ASSUME Old(o, j)
                   PROVE  KidAt(new, o, j) = KidAt(old, o, j) /\ KidAt(new, o, j) <= L
                          /\ KidAt(new, o, j) \in Nat
        OBVIOUS
      <3>1. KidAt(old, o, j) \in o + 1..L /\ o \in Nat
        BY <1>1 DEF Shape, Forward
      <3>2. KidAt(new, o, j) = KidAt(old, o, j)
        BY GrownEdges DEF KidAt, Extends
      <3> QED
        BY <1>1, <3>1, <3>2
    <2>5. CASE Old(m, k) /\ Old(o, j)
      BY <2>3, <2>4, <2>5 DEF Shape, OneParent
    <2>6. CASE ~Old(m, k) \/ ~Old(o, j)
      BY <1>1, <2>1, <2>2, <2>3, <2>4, <2>6 DEF KidAt
    <2> QED
      BY <2>5, <2>6
  <1>4. Split(new)
    <2> SUFFICES ASSUME NEW m \in DOMAIN new, new[m].kind = "and"
                 PROVE  new[m].kids # <<>>
      BY DEF Split
    <2>1. CASE m \in DOMAIN old
      <3>1. old[m].kids # <<>>
        BY <2>1, GrownEdges DEF Shape, Split, Extends
      <3>2. 1 \in DOMAIN old[m].kids
        BY <2>1, <3>1, NodeFacts
      <3>3. 1 \in DOMAIN new[m].kids
        BY <2>1, <3>2, GrownEdges DEF Extends
      <3> QED
        BY <3>3
    <2>2. CASE m = L + 1
      BY <2>2 DEF Growth
    <2>3. CASE m \in L + 2..Len(new)
      BY <2>3 DEF Growth
    <2> QED
      BY <1>1, <2>1, <2>2, <2>3
  <1>5. EdgesAreSteps(new)
    <2> SUFFICES ASSUME NEW m \in DOMAIN new, NEW k \in DOMAIN new[m].kids,
                        new[m].kids[k].tactic # None
                 PROVE  new[KidAt(new, m, k)].goals = After(new[m].goals, new[m].kids[k].tactic)
      BY DEF EdgesAreSteps
    <2>1. CASE m \in DOMAIN old /\ k \in DOMAIN old[m].kids
      <3>1. new[m].kids[k] = old[m].kids[k] /\ new[m].goals = old[m].goals
        BY <2>1, GrownEdges DEF Extends
      <3>2. KidAt(old, m, k) \in DOMAIN old
        BY <1>1, <2>1 DEF Shape, Forward
      <3>3. new[KidAt(old, m, k)].goals = old[KidAt(old, m, k)].goals
        BY <3>2, GrownEdges DEF Extends
      <3>4. old[KidAt(old, m, k)].goals = After(old[m].goals, old[m].kids[k].tactic)
        BY <2>1, <3>1 DEF Shape, EdgesAreSteps
      <3> QED
        BY <3>1, <3>3, <3>4 DEF KidAt
    <2>2. CASE m = n /\ new[m].kids[k].node = L + 1 /\ new[m].kids[k].tactic = t
      <3>1. new[L + 1].goals = After(old[n].goals, t) /\ new[n].goals = old[n].goals
        BY GrownEdges DEF Growth, Extends
      <3> QED
        BY <2>2, <3>1 DEF KidAt
    <2> QED
      BY <2>1, <2>2, GrownEdges DEF Extends
  <1> QED
    BY <1>2, <1>3, <1>4, <1>5 DEF Shape

\* A path of a tree is one of the grown tree.
LEMMA StepsGrown ==
    ASSUME NEW old \in Seq(NodeType), NEW new, NEW n \in DOMAIN old, NEW t \in Tactics, NEW goals,
           Growth(old, new, n, t, goals), NEW p \in Seq(DOMAIN old), Steps(old, p)
    PROVE  Steps(new, p)
  <1> SUFFICES ASSUME NEW i \in DOMAIN p, i > 1
               PROVE  \E k \in DOMAIN new[p[i - 1]].kids : KidAt(new, p[i - 1], k) = p[i]
    BY DEF Steps
  <1>1. p[i - 1] \in DOMAIN old
    OBVIOUS
  <1>2. PICK k \in DOMAIN old[p[i - 1]].kids : KidAt(old, p[i - 1], k) = p[i]
    BY DEF Steps
  <1>3. k \in DOMAIN new[p[i - 1]].kids /\ new[p[i - 1]].kids[k] = old[p[i - 1]].kids[k]
    BY <1>1, <1>2, GrownEdges DEF Extends
  <1> QED
    BY <1>2, <1>3 DEF KidAt

\* Growth gives support at the node it happens at, and to no other.
LEMMA GrownSupport ==
    ASSUME NEW old \in Seq(NodeType), NEW new, NEW n \in DOMAIN old, NEW t \in Tactics, NEW goals,
           Growth(old, new, n, t, goals), Shape(old),
           NEW m \in DOMAIN new, Supported(new, m)
    PROVE  new[m].solved \/ m = n \/ (m \in DOMAIN old /\ Supported(old, m))
  <1> DEFINE L == Len(old)
  <1>1. /\ DOMAIN new = 1..Len(new) /\ Len(new) \in Nat /\ Len(new) > L
        /\ L \in Nat /\ DOMAIN old = 1..L
    BY GrownEdges DEF Growth, Extends
  <1>2. CASE m \in DOMAIN old /\ m # n
    <2> SUFFICES Supported(old, m)
      BY <1>2
    <2>1. new[m] = old[m]
      BY <1>1, <1>2 DEF Growth
    <2>2. \A k \in DOMAIN old[m].kids : KidAt(old, m, k) \in DOMAIN old
      BY <1>1, <1>2 DEF Shape, Forward
    <2>3. \A k \in DOMAIN old[m].kids :
            KidAt(new, m, k) = KidAt(old, m, k)
            /\ new[KidAt(old, m, k)].solved = old[KidAt(old, m, k)].solved
      BY <2>1, <2>2, GrownEdges DEF KidAt, Extends
    <2>4. CASE old[m].goals = <<>>
      BY <2>4 DEF Supported
    <2>5. CASE old[m].kind = "or" /\ \E k \in DOMAIN old[m].kids : new[KidAt(new, m, k)].solved
      BY <2>3, <2>5 DEF Supported
    <2>6. CASE old[m].kind = "and" /\ \A k \in DOMAIN old[m].kids : new[KidAt(new, m, k)].solved
      BY <2>3, <2>6 DEF Supported
    <2> QED
      BY <2>1, <2>4, <2>5, <2>6 DEF Supported
  <1>3. CASE m = L + 1
    <2>1. new[m].kind = "or" => new[m].kids = <<>>
      BY <1>3 DEF Growth
    <2>2. new[m].kind = "and" => ~(\A k \in DOMAIN new[m].kids : new[KidAt(new, m, k)].solved)
      <3> SUFFICES ASSUME new[m].kind = "and"
                   PROVE  1 \in DOMAIN new[m].kids /\ ~new[KidAt(new, m, 1)].solved
        BY Zenon
      <3>1. new[m].kids # <<>>
        BY <1>3 DEF Growth
      <3>2. new \in Seq(NodeType)
        BY DEF Growth
      <3>3. 1 \in DOMAIN new[m].kids
        BY <3>1, <3>2, NodeFacts
      <3>4. KidAt(new, m, 1) = L + 2
        <4>1. new[m].kids[1].node = L + 1 + 1
          BY <1>3, <3>3 DEF Growth
        <4> QED
          BY <1>1, <4>1 DEF KidAt
      <3>5. L + 2 \in L + 2..Len(new) /\ L + 2 \in L + 1..Len(new)
        <4>1. L + 1 + 1 <= Len(new)
          BY <1>3, <3>3 DEF Growth
        <4> QED
          BY <1>1, <4>1
      <3> HIDE DEF L
      <3>6. (new[L + 2].solved <=> new[L + 2].goals = <<>>) /\ new[L + 2].goals # <<>>
        BY <3>5 DEF Growth, L
      <3> QED
        BY <3>3, <3>4, <3>6
    <2>3. new[m].goals = <<>> => new[m].solved
      <3>1. m \in L + 1..Len(new)
        BY <1>1, <1>3
      <3> QED
        BY <3>1 DEF Growth
    <2> QED
      BY <2>1, <2>2, <2>3 DEF Supported
  <1>4. CASE m \in L + 2..Len(new)
    <2>1. new[m].kids = <<>> /\ new[m].kind = "or" /\ new[m].goals # <<>>
      BY <1>4 DEF Growth
    <2> QED
      BY <2>1 DEF Supported
  <1> QED
    BY <1>1, <1>2, <1>3, <1>4

\* Growth at an OR node keeps the flags sound.
LEMMA GrownSound ==
    ASSUME NEW old \in Seq(NodeType), NEW new, NEW n \in DOMAIN old, NEW t \in Tactics, NEW goals,
           Growth(old, new, n, t, goals), Shape(old), Sound(old), old[n].kind = "or"
    PROVE  Sound(new)
  <1> DEFINE L == Len(old)
  <1>1. /\ DOMAIN new = 1..Len(new) /\ Len(new) \in Nat /\ Len(new) > L
        /\ L \in Nat /\ DOMAIN old = 1..L
    BY GrownEdges DEF Growth, Extends
  <1> SUFFICES ASSUME NEW m \in DOMAIN new
               PROVE  /\ new[m].solved => Supported(new, m)
                      /\ new[m].goals = <<>> => new[m].solved
    BY DEF Sound
  <1>2. CASE m \in DOMAIN old
    <2>1. /\ new[m].solved = old[m].solved /\ new[m].goals = old[m].goals
          /\ new[m].kind = old[m].kind
      BY <1>2, GrownEdges DEF Extends
    <2>2. \A k \in DOMAIN old[m].kids :
              /\ k \in DOMAIN new[m].kids /\ KidAt(new, m, k) = KidAt(old, m, k)
              /\ new[KidAt(new, m, k)].solved = old[KidAt(old, m, k)].solved
      <3>1. \A k \in DOMAIN old[m].kids : KidAt(old, m, k) \in DOMAIN old
        BY <1>1, <1>2 DEF Shape, Forward
      <3> QED
        BY <1>2, <3>1, GrownEdges DEF KidAt, Extends
    <2>3. m # n => new[m] = old[m]
      BY <1>1, <1>2 DEF Growth
    <2>4. old[m].solved => Supported(old, m)
      BY <1>2 DEF Sound
    <2>5. Supported(old, m) => Supported(new, m)
      <3>1. CASE m = n
        BY <2>1, <2>2, <3>1, Zenon DEF Supported
      <3>2. CASE m # n
        BY <2>1, <2>2, <2>3, <3>2, Zenon DEF Supported
      <3> QED
        BY <3>1, <3>2
    <2>6. old[m].goals = <<>> => old[m].solved
      BY <1>2 DEF Sound
    <2> QED
      BY <2>1, <2>4, <2>5, <2>6
  <1>3. CASE m \in L + 1..Len(new)
    BY <1>3 DEF Growth, Supported
  <1> QED
    BY <1>1, <1>2, <1>3

-----------------------------------------------------------------------------
(* The steps that leave the tree alone.                                    *)

\* The path and the node the search is at.
LEMMA PathFacts ==
    ASSUME TypeOK
    PROVE  /\ nodes \in Seq(NodeType) /\ DOMAIN nodes = 1..Len(nodes) /\ Len(nodes) \in Nat
           /\ 1 \in DOMAIN nodes
           /\ path \in Seq(DOMAIN nodes) /\ DOMAIN path = 1..Len(path)
           /\ Len(path) \in Nat /\ Len(path) >= 1 /\ path[1] = 1
           /\ \A i \in DOMAIN path : path[i] \in DOMAIN nodes
           /\ Here \in DOMAIN nodes /\ Here = path[Len(path)] /\ Len(path) \in DOMAIN path
           /\ Forward(nodes)
  BY DEF TypeOK, Here, AppendOnly, Forward, KidsOf, Kid, KidAt

\* Where no flag is behind, an open node has open children only, and one at least
\* if it was split.
LEMMA OpenNode ==
    ASSUME TypeOK, Shape(nodes), FlagsComplete,
           phase \in {"select", "expand", "backup", "refresh"},
           \A i \in DOMAIN path : ~Due(i),
           NEW n \in DOMAIN nodes, ~nodes[n].solved
    PROVE  /\ ~Supported(nodes, n)
           /\ nodes[n].kind = "or" => \A k \in DOMAIN nodes[n].kids : ~nodes[Kid(n, k)].solved
           /\ nodes[n].kind = "and" => OpenKids(n) # {}
  <1>1. ~Supported(nodes, n)
    BY DEF FlagsComplete
  <1> QED
    BY <1>1 DEF Supported, OpenKids, Kid, KidAt

\* Where the search is, the node above is the only one with that child.
LEMMA Above ==
    ASSUME TypeOK, Shape(nodes), Steps(nodes, path),
           NEW n \in DOMAIN nodes, NEW k \in DOMAIN nodes[n].kids, KidAt(nodes, n, k) = Here
    PROVE  Len(path) > 1 /\ Len(path) - 1 \in DOMAIN path /\ n = Parent
  <1>1. Len(path) \in DOMAIN path /\ KidAt(nodes, n, k) = path[Len(path)] /\ path # <<>>
        /\ path \in Seq(DOMAIN nodes) /\ path[1] = 1 /\ nodes \in Seq(NodeType)
        /\ Len(path) \in Nat /\ DOMAIN path = 1..Len(path)
    BY PathFacts DEF TypeOK
  <1>2. Len(path) > 1 /\ n = path[Len(path) - 1]
    BY <1>1, OnlyParent
  <1> QED
    BY <1>1, <1>2 DEF Parent

\* The first state.
LEMMA Initially ==
    ASSUME Init
    PROVE  IInv
  <1>1. Start \in Seq(Goals) /\ Start # <<>>
    BY SearchAssumption
  <1>2. nodes = <<Node(Start, "or", FALSE)>> /\ path = <<1>> /\ phase = "select"
        /\ tried = 0 /\ carried = {} /\ step = 0 /\ version = 0
    BY DEF Init
  <1>3. Node(Start, "or", FALSE) \in NodeType
    BY <1>1 DEF Node, NodeType
  <1>4. nodes \in Seq(NodeType) /\ Len(nodes) = 1 /\ DOMAIN nodes = {1}
    <2> DEFINE root == Node(Start, "or", FALSE)
    <2> HIDE DEF root
    <2>1. nodes = <<root>> /\ root \in NodeType
      BY <1>2, <1>3 DEF root
    <2> QED
      BY <2>1
  <1>5. /\ nodes[1].kids = <<>> /\ nodes[1].kind = "or" /\ nodes[1].goals # <<>>
        /\ ~nodes[1].solved /\ nodes[1].used = {} /\ nodes[1].sel = {} /\ nodes[1].visits = 0
    BY <1>1, <1>2 DEF Node
  <1>6. path \in Seq(DOMAIN nodes) /\ Len(path) = 1 /\ DOMAIN path = {1} /\ path[1] = 1
    BY <1>2, <1>4
  <1>7. \A n \in DOMAIN nodes : DOMAIN nodes[n].kids = {}
    BY <1>4, <1>5
  <1>8. TypeOK
    <2>1. AppendOnly
      BY <1>7 DEF AppendOnly, KidsOf
    <2>2. 0 \in 0..Width /\ 0 \in 0..MaxSteps /\ 0 \in 0..MaxVersion
      BY SearchAssumption
    <2>3. nodes # <<>> /\ path # <<>>
      BY <1>2
    <2> QED
      BY <1>2, <1>4, <1>6, <2>1, <2>2, <2>3 DEF TypeOK
  <1>9. Shape(nodes)
    BY <1>4, <1>5, <1>7 DEF Shape, Forward, OneParent, Split, EdgesAreSteps
  <1>10. Sound(nodes) /\ FlagsComplete
    BY <1>4, <1>5, <1>7 DEF Sound, FlagsComplete, Supported
  <1>11. Walking
    BY <1>2, <1>6, SearchAssumption DEF Walking, Steps, Rising
  <1>12. SearchesOpenWork
    BY <1>2, <1>5, <1>6 DEF SearchesOpenWork, Here
  <1>13. Values
    BY <1>2, <1>4, <1>5, <1>7 DEF Values, RefreshedAbove, Valued, VisitedAbove
  <1> QED
    BY <1>8, <1>9, <1>10, <1>11, <1>12, <1>13 DEF IInv

\* Down to a child: it is open, and so is a goal below it if it was split.
LEMMA SelectStep ==
    ASSUME IInv, NEW k \in 1..Len(nodes), Select(k)
    PROVE  IInv'
  <1> DEFINE c == Kid(Here, k)
  <1>1. TypeOK /\ Shape(nodes) /\ Sound(nodes) /\ Walking /\ FlagsComplete
        /\ SearchesOpenWork /\ Values
    BY DEF IInv
  <1>2. phase = "select" /\ k \in OpenKids(Here) /\ path' = Append(path, c)
        /\ UNCHANGED <<nodes, phase, tried, carried, step, version, fresh, cursor>>
    BY DEF Select, refresh
  <1>3. k \in DOMAIN nodes[Here].kids /\ (nodes[Here].kind = "and" => ~nodes[c].solved)
    BY <1>2 DEF OpenKids
  <1>4. Here \in DOMAIN nodes /\ ~nodes[Here].solved
    BY <1>1, <1>2, PathFacts DEF SearchesOpenWork
  <1>5. c \in DOMAIN nodes
    BY <1>1, <1>3, <1>4, PathFacts DEF Forward, Kid, KidAt
  <1>6. /\ path' \in Seq(DOMAIN nodes) /\ Len(path') = Len(path) + 1
        /\ DOMAIN path' = 1..Len(path) + 1
        /\ \A i \in DOMAIN path : path'[i] = path[i]
        /\ path'[Len(path) + 1] = c
    BY <1>1, <1>2, <1>5, PathFacts
  <1>7. Here' = c
    BY <1>6 DEF Here
  <1>8. \A i \in DOMAIN path : ~Due(i)
    BY <1>2 DEF Due
  <1>9. ~nodes[c].solved
    <2>1. nodes[Here].kind \in {"or", "and"}
      BY <1>1, <1>4, PathFacts, NodeFacts DEF NodeType
    <2> QED
      BY <1>1, <1>2, <1>3, <1>4, <1>8, <2>1, OpenNode
  <1>10. TypeOK'
    <2>1. path' \in Seq(DOMAIN nodes) /\ path' # <<>> /\ path'[1] = 1
      <3>1. 1 \in DOMAIN path /\ path[1] = 1 /\ Len(path') > 0
        BY <1>1, <1>6, PathFacts
      <3> QED
        BY <1>6, <3>1
    <2>2. AppendOnly'
      BY <1>1, <1>2 DEF TypeOK, AppendOnly, KidsOf, Kid, KidAt
    <2> QED
      BY <1>1, <1>2, <2>1, <2>2 DEF TypeOK
  <1>11. Steps(nodes, path')
    <2> SUFFICES ASSUME NEW i \in DOMAIN path', i > 1
                 PROVE  \E j \in DOMAIN nodes[path'[i - 1]].kids : KidAt(nodes, path'[i - 1], j) = path'[i]
      BY DEF Steps
    <2>1. CASE i \in DOMAIN path
      <3>1. i - 1 \in DOMAIN path
        BY <1>1, <2>1, PathFacts
      <3> QED
        BY <1>1, <1>6, <2>1, <3>1 DEF Walking, Steps
    <2>2. CASE i = Len(path) + 1
      <3>1. i - 1 = Len(path) /\ Len(path) \in DOMAIN path /\ Here = path[Len(path)]
        BY <1>1, <2>2, PathFacts
      <3>2. path'[i - 1] = Here /\ path'[i] = c
        BY <1>6, <2>2, <3>1, Zenon
      <3> QED
        BY <1>3, <3>2 DEF Kid, KidAt
    <2> QED
      BY <1>1, <1>6, <2>1, <2>2, PathFacts
  <1>12. Walking'
    <2>1. \A i \in DOMAIN path : path[i] \in Nat /\ path[i] <= Here
      BY <1>1, PathFacts DEF Walking, Rising
    <2>2. c > Here /\ c \in Nat
      BY <1>1, <1>3, <1>4, PathFacts DEF Forward, Kid, KidAt
    <2>3. \A i \in DOMAIN path' : i \in DOMAIN path \/ i = Len(path) + 1
      BY <1>1, <1>6, PathFacts
    <2>4. Rising(path')
      <3> SUFFICES ASSUME NEW i \in DOMAIN path', NEW j \in DOMAIN path', i < j
                   PROVE  path'[i] < path'[j]
        BY DEF Rising
      <3>1. i \in DOMAIN path
        BY <1>1, <1>6, <2>3, PathFacts
      <3>2. Here \in Nat
        BY <1>1, PathFacts
      <3>3. CASE j \in DOMAIN path
        BY <1>1, <1>6, <3>1, <3>3 DEF Walking, Rising
      <3>4. CASE j = Len(path) + 1
        BY <1>6, <2>1, <2>2, <3>1, <3>2, <3>4
      <3> QED
        BY <2>3, <3>3, <3>4
    <2> QED
      BY <1>1, <1>2, <1>11, <2>4 DEF Walking
  <1>13. FlagsComplete'
    BY <1>1, <1>2, <1>8 DEF FlagsComplete
  <1>14. SearchesOpenWork'
    <2>1. \A i \in DOMAIN path' : ~nodes[path'[i]].solved
      BY <1>1, <1>2, <1>6, <1>9, PathFacts DEF SearchesOpenWork
    <2>2. nodes[c].kind = "and" => OpenKids(c) # {}
      BY <1>1, <1>2, <1>5, <1>8, <1>9, OpenNode
    <2>3. nodes'[Here'].kind = "and" => OpenKids(Here)' # {}
      BY <1>2, <1>7, <2>2 DEF OpenKids, Kid
    <2> QED
      BY <1>2, <2>1, <2>3 DEF SearchesOpenWork
  <1>15. Values'
    BY <1>1, <1>2 DEF Values, Searching, VisitedAbove
  <1> QED
    BY <1>1, <1>2, <1>10, <1>12, <1>13, <1>14, <1>15 DEF IInv

\* Between two iterations no flag is behind.
LEMMA Barrier ==
    ASSUME IInv, AtBarrier \/ phase = "refresh"
    PROVE  /\ Len(path) = 1 /\ DOMAIN path = {1} /\ path[1] = 1 /\ Here = 1
           /\ 1 \in DOMAIN nodes
           /\ phase \in {"backup", "refresh"} /\ step < MaxSteps
           /\ \A i \in DOMAIN path : ~Due(i)
  <1>1. Len(path) = 1 /\ phase \in {"backup", "refresh"} /\ step < MaxSteps
    BY DEF IInv, Walking, AtBarrier
  <1>2. DOMAIN path = {1} /\ path[1] = 1 /\ Here = 1 /\ 1 \in DOMAIN nodes
    BY <1>1, PathFacts DEF IInv, Here
  <1> QED
    BY <1>1, <1>2 DEF Due

\* A root that is still open can be gone on from.
LEMMA RootOpen ==
    ASSUME IInv, AtBarrier \/ phase = "refresh", ~nodes[1].solved
    PROVE  nodes[1].kind = "and" => OpenKids(1) # {}
  BY Barrier, OpenNode DEF IInv

\* On to the next iteration with the values there are.
LEMMA ContinueStep ==
    ASSUME IInv, Continue
    PROVE  IInv'
  <1>1. TypeOK /\ Shape(nodes) /\ Sound(nodes) /\ Walking /\ FlagsComplete
        /\ SearchesOpenWork /\ Values
    BY DEF IInv
  <1>2. AtBarrier /\ ~nodes[1].solved /\ step' = step + 1 /\ carried' = {}
        /\ phase' \in {"select", "exhausted"} /\ (phase' = "select" => step + 1 < MaxSteps)
        /\ UNCHANGED <<nodes, path, tried, version, fresh, cursor>>
    BY DEF Continue, Onward, refresh
  <1>3. phase = "backup" /\ Len(path) = 1 /\ DOMAIN path = {1} /\ path[1] = 1 /\ step < MaxSteps
    BY <1>2, Barrier DEF AtBarrier
  <1>4. TypeOK'
    <2>1. step + 1 \in 0..MaxSteps
      BY <1>1, <1>3, SearchAssumption DEF TypeOK
    <2> QED
      BY <1>1, <1>2, <2>1 DEF TypeOK, AppendOnly, KidsOf, Kid
  <1>5. Walking'
    BY <1>1, <1>2 DEF Walking
  <1>6. FlagsComplete'
    BY <1>1, <1>2, <1>3, Barrier DEF FlagsComplete
  <1>7. SearchesOpenWork'
    BY <1>2, <1>3, RootOpen DEF SearchesOpenWork, Here, OpenKids, Kid
  <1>8. Values'
    BY <1>1, <1>2, <1>3 DEF Values, Searching, VisitedAbove
  <1> QED
    BY <1>1, <1>2, <1>4, <1>5, <1>6, <1>7, <1>8 DEF IInv

\* A refresh starts with the values there are.
LEMMA StartRefreshStep ==
    ASSUME IInv, StartRefresh
    PROVE  IInv'
  <1>1. TypeOK /\ Shape(nodes) /\ Sound(nodes) /\ Walking /\ FlagsComplete
        /\ SearchesOpenWork /\ Values
    BY DEF IInv
  <1>2. AtBarrier /\ ~nodes[1].solved /\ version < MaxVersion /\ phase' = "refresh"
        /\ fresh' = [n \in DOMAIN nodes |-> nodes[n].sel] /\ cursor' = Len(nodes)
        /\ UNCHANGED <<nodes, path, tried, carried, step, version>>
    BY DEF StartRefresh
  <1>3. phase = "backup" /\ Len(path) = 1 /\ DOMAIN path = {1} /\ path[1] = 1 /\ step < MaxSteps
    BY <1>2, Barrier DEF AtBarrier
  <1>4. TypeOK'
    <2>1. fresh' \in [DOMAIN nodes -> SUBSET SUBSET Nat]
      BY <1>1, <1>2, PathFacts, NodeFacts DEF NodeType
    <2>2. cursor' \in 0..Len(nodes)
      BY <1>1, <1>2, PathFacts
    <2> QED
      BY <1>1, <1>2, <2>1, <2>2 DEF TypeOK, AppendOnly, KidsOf, Kid
  <1>5. Walking'
    BY <1>1, <1>2, <1>3 DEF Walking
  <1>6. FlagsComplete'
    BY <1>1, <1>2, <1>3, Barrier DEF FlagsComplete
  <1>7. SearchesOpenWork'
    BY <1>2 DEF SearchesOpenWork
  <1>8. VisitedAbove'
    BY <1>1, <1>2, <1>3 DEF Values, Searching, VisitedAbove
  <1>9. \A n \in DOMAIN nodes : ~(n > Len(nodes)) /\ fresh'[n] = nodes[n].sel
    BY <1>1, <1>2, PathFacts
  <1>10. Values'
    BY <1>1, <1>2, <1>3, <1>8, <1>9 DEF Values, Searching
  <1> QED
    BY <1>1, <1>2, <1>4, <1>5, <1>6, <1>7, <1>10 DEF IInv

\* One node of a refresh: its value is made from the new answers alone.
LEMMA RefreshNodeStep ==
    ASSUME IInv, RefreshNode
    PROVE  IInv'
  <1>1. TypeOK /\ Shape(nodes) /\ Sound(nodes) /\ Walking /\ FlagsComplete
        /\ SearchesOpenWork /\ Values
    BY DEF IInv
  <1>2. phase = "refresh" /\ cursor > 0 /\ cursor' = cursor - 1
        /\ fresh' = (IF cursor \in Refreshed THEN [fresh EXCEPT ![cursor] = {FreshModels(cursor)}] ELSE fresh)
        /\ UNCHANGED <<nodes, path, phase, tried, carried, step, version>>
    BY DEF RefreshNode
  <1>3. cursor \in DOMAIN nodes /\ fresh \in [DOMAIN nodes -> SUBSET SUBSET Nat] /\ version \in Nat
        /\ cursor \in Nat
    BY <1>1, <1>2, PathFacts DEF TypeOK
  <1>4. \A c \in Behind(cursor) : c \in DOMAIN nodes /\ c > cursor /\ c \in Refreshed
    <2> SUFFICES ASSUME NEW k \in DOMAIN nodes[cursor].kids
                 PROVE  Kid(cursor, k) \in cursor + 1..Len(nodes)
      BY <1>1, <1>3, PathFacts DEF Behind, KidsOf, Refreshed
    <2> QED
      BY <1>1, <1>3 DEF Shape, Forward, Kid, KidAt
  <1>5. \A n \in DOMAIN nodes :
            IF n > cursor /\ n \in Refreshed
            THEN fresh[n] # {} /\ UNION fresh[n] \subseteq {version + 1}
            ELSE fresh[n] = nodes[n].sel
    BY <1>1, <1>2 DEF Values
  <1>6. FreshModels(cursor) \subseteq {version + 1}
    <2>1. \A c \in Behind(cursor) : UNION fresh[c] \subseteq {version + 1}
      BY <1>4, <1>5
    <2>2. UNION UNION {fresh[c] : c \in Behind(cursor)} \subseteq {version + 1}
      BY <2>1
    <2> QED
      BY <2>2 DEF FreshModels
  <1>7. TypeOK'
    <2>1. FreshModels(cursor) \in SUBSET Nat
      BY <1>3, <1>6
    <2>2. fresh' \in [DOMAIN nodes -> SUBSET SUBSET Nat]
      BY <1>2, <1>3, <2>1
    <2>3. cursor' \in 0..Len(nodes)
      BY <1>1, <1>2, <1>3, PathFacts
    <2> QED
      BY <1>1, <1>2, <2>2, <2>3 DEF TypeOK, AppendOnly, KidsOf, Kid
  <1>8. \A n \in DOMAIN nodes :
            IF n > cursor' /\ n \in Refreshed
            THEN fresh'[n] # {} /\ UNION fresh'[n] \subseteq {version + 1}
            ELSE fresh'[n] = nodes[n].sel
    <2> SUFFICES ASSUME NEW n \in DOMAIN nodes
                 PROVE  IF n > cursor' /\ n \in Refreshed
                        THEN fresh'[n] # {} /\ UNION fresh'[n] \subseteq {version + 1}
                        ELSE fresh'[n] = nodes[n].sel
      OBVIOUS
    <2>1. CASE n = cursor /\ n \in Refreshed
      <3>1. fresh'[n] = {FreshModels(cursor)}
        BY <1>2, <1>3, <2>1
      <3>2. n > cursor'
        BY <1>2, <1>3, <2>1
      <3> QED
        BY <1>6, <2>1, <3>1, <3>2
    <2>2. CASE n # cursor \/ n \notin Refreshed
      <3>1. fresh'[n] = fresh[n]
        BY <1>2, <1>3, <2>2
      <3>2. n \in Refreshed => (n > cursor' <=> n > cursor)
        BY <1>1, <1>2, <1>3, <2>2, PathFacts
      <3> QED
        BY <1>5, <3>1, <3>2
    <2> QED
      BY <2>1, <2>2
  <1>9. Refreshed' = Refreshed
    BY <1>2 DEF Refreshed
  <1>10. VisitedAbove'
    BY <1>1, <1>2 DEF Values, Searching, VisitedAbove
  <1>11. Values'
    BY <1>1, <1>2, <1>8, <1>9, <1>10 DEF Values, Searching
  <1>12. Walking'
    BY <1>1, <1>2 DEF Walking
  <1>13. FlagsComplete'
    BY <1>1, <1>2 DEF FlagsComplete, Due
  <1>14. SearchesOpenWork'
    BY <1>2 DEF SearchesOpenWork
  <1> QED
    BY <1>1, <1>2, <1>7, <1>11, <1>12, <1>13, <1>14 DEF IInv

\* The search is over, or a proof is replayed.
LEMMA EndStep ==
    ASSUME IInv, Solve \/ Replay \/ Raise
    PROVE  IInv'
  <1>1. TypeOK /\ Shape(nodes) /\ Sound(nodes) /\ Walking /\ FlagsComplete
        /\ SearchesOpenWork /\ Values
    BY DEF IInv
  <1>2. phase' \in {"solved", "proved", "rejected", "failed"}
        /\ UNCHANGED <<nodes, path, tried, carried, step, version, fresh, cursor>>
    BY DEF Solve, Replay, Raise, refresh
  <1>3. TypeOK'
    BY <1>1, <1>2 DEF TypeOK, AppendOnly, KidsOf, Kid
  <1>4. Walking' /\ FlagsComplete' /\ SearchesOpenWork'
    BY <1>1, <1>2 DEF Walking, FlagsComplete, SearchesOpenWork
  <1>5. Values'
    BY <1>1, <1>2 DEF Values, Searching
  <1> QED
    BY <1>1, <1>2, <1>3, <1>4, <1>5 DEF IInv

-----------------------------------------------------------------------------
(* The steps that change nodes.                                            *)

\* A refresh that got through replaces all values together.
LEMMA AdoptStep ==
    ASSUME IInv, Adopt
    PROVE  IInv'
  <1>1. TypeOK /\ Shape(nodes) /\ Sound(nodes) /\ Walking /\ FlagsComplete
        /\ SearchesOpenWork /\ Values
    BY DEF IInv
  <1>2. phase = "refresh" /\ cursor = 0 /\ step' = step + 1 /\ carried' = {}
        /\ phase' \in {"select", "exhausted"} /\ (phase' = "select" => step + 1 < MaxSteps)
        /\ nodes' = [n \in DOMAIN nodes |-> [nodes[n] EXCEPT !.sel = fresh[n]]]
        /\ version' = version + 1 /\ UNCHANGED <<path, tried, cursor>>
    BY DEF Adopt, Onward
  <1>3. Len(path) = 1 /\ DOMAIN path = {1} /\ path[1] = 1 /\ step < MaxSteps
        /\ ~nodes[1].solved /\ version < MaxVersion /\ 1 \in DOMAIN nodes
    BY <1>1, <1>2, Barrier DEF Walking
  <1>4. DOMAIN nodes = 1..Len(nodes) /\ Len(nodes) \in Nat /\ nodes \in Seq(NodeType)
        /\ fresh \in [DOMAIN nodes -> SUBSET SUBSET Nat] /\ version \in Nat
    BY <1>1, <1>2, PathFacts DEF TypeOK
  <1>5. \A n \in DOMAIN nodes :
            /\ nodes'[n] \in NodeType
            /\ nodes'[n].goals = nodes[n].goals /\ nodes'[n].kind = nodes[n].kind
            /\ nodes'[n].kids = nodes[n].kids /\ nodes'[n].solved = nodes[n].solved
            /\ nodes'[n].visits = nodes[n].visits /\ nodes'[n].used = nodes[n].used
            /\ nodes'[n].sel = fresh[n]
    <2> SUFFICES ASSUME NEW n \in DOMAIN nodes
                 PROVE  LET r == [nodes[n] EXCEPT !.sel = fresh[n]] IN
                        /\ r \in NodeType
                        /\ r.goals = nodes[n].goals /\ r.kind = nodes[n].kind
                        /\ r.kids = nodes[n].kids /\ r.solved = nodes[n].solved
                        /\ r.visits = nodes[n].visits /\ r.used = nodes[n].used
                        /\ r.sel = fresh[n]
      BY <1>2
    <2>1. nodes[n] \in NodeType /\ fresh[n] \in SUBSET SUBSET Nat
      BY <1>4
    <2> QED
      BY <2>1 DEF NodeType
  <1>6. nodes' \in Seq(NodeType) /\ Len(nodes') = Len(nodes) /\ DOMAIN nodes' = DOMAIN nodes
    <2>1. nodes' \in [1..Len(nodes) -> NodeType]
      BY <1>2, <1>4, <1>5
    <2> QED
      BY <1>4, <2>1, Listed
  <1>7. SameShape(nodes, nodes')
    BY <1>5, <1>6 DEF SameShape
  <1>8. Shape(nodes') /\ \A n \in DOMAIN nodes : \A k \in DOMAIN nodes[n].kids :
            KidAt(nodes', n, k) = KidAt(nodes, n, k) /\ KidAt(nodes, n, k) \in DOMAIN nodes
    <2>1. \A n \in DOMAIN nodes : \A k \in DOMAIN nodes[n].kids : KidAt(nodes, n, k) \in DOMAIN nodes
      BY <1>1, <1>4 DEF Shape, Forward
    <2> QED
      BY <1>1, <1>4, <1>6, <1>7, <2>1, ShapeKept
  <1>9. Sound(nodes')
    BY <1>1, <1>4, <1>5, <1>6, <1>7, SoundKept
  <1>10. \A n \in DOMAIN nodes : Supported(nodes', n) => nodes[n].solved
    <2> SUFFICES ASSUME NEW n \in DOMAIN nodes, Supported(nodes', n)
                 PROVE  nodes[n].solved
      OBVIOUS
    <2>1. Supported(nodes, n)
      BY <1>1, <1>4, <1>5, <1>6, <1>7, <1>8, SupportLocal
    <2> QED
      BY <1>1, <1>2, <2>1, Barrier DEF FlagsComplete
  <1>11. TypeOK'
    <2>1. step + 1 \in 0..MaxSteps /\ version + 1 \in 0..MaxVersion
      BY <1>1, <1>3, SearchAssumption DEF TypeOK
    <2>2. AppendOnly'
      BY <1>6, <1>8 DEF AppendOnly, KidsOf, Kid, Shape, Forward, KidAt
    <2> QED
      BY <1>1, <1>2, <1>6, <2>1, <2>2 DEF TypeOK
  <1>12. Walking'
    BY <1>1, <1>2, <1>3 DEF Walking, Steps
  <1>13. FlagsComplete'
    BY <1>5, <1>6, <1>10 DEF FlagsComplete
  <1>14. SearchesOpenWork'
    <2>1. nodes[1].kind = "and" => \E k \in DOMAIN nodes[1].kids : ~nodes[KidAt(nodes, 1, k)].solved
      BY <1>2, <1>3, RootOpen DEF OpenKids, Kid, KidAt
    <2>2. Here' = 1
      BY <1>2, <1>3 DEF Here
    <2>3. nodes'[1].kind = "and" =>
              \E k \in DOMAIN nodes'[1].kids : ~nodes'[KidAt(nodes', 1, k)].solved
      BY <1>3, <1>5, <1>8, <2>1
    <2>4. nodes'[Here'].kind = "and" => OpenKids(Here)' # {}
      BY <2>2, <2>3 DEF OpenKids, Kid, KidAt
    <2> QED
      BY <1>2, <1>3, <1>5, <2>4 DEF SearchesOpenWork
  <1>15. \A n \in DOMAIN nodes :
            IF n \in Refreshed THEN fresh[n] # {} /\ UNION fresh[n] \subseteq {version + 1}
            ELSE fresh[n] = nodes[n].sel
    BY <1>1, <1>2, <1>4 DEF Values
  <1>16. Valued(nodes', version')
    <2> SUFFICES ASSUME NEW n \in DOMAIN nodes
                 PROVE  /\ ~nodes'[n].solved /\ nodes'[n].sel = {} => nodes'[n].used \subseteq {version + 1}
                        /\ ~nodes'[n].solved => UNION nodes'[n].sel \subseteq {version + 1}
                        /\ nodes'[n].visits = 0 => nodes'[n].used = {} /\ nodes'[n].sel = {}
      BY <1>2, <1>6 DEF Valued
    <2>1. nodes[n].visits \in Nat
      BY <1>4, NodeFacts DEF NodeType
    <2>2. nodes[n].visits = 0 => nodes[n].used = {} /\ nodes[n].sel = {}
      BY <1>1, <1>2 DEF Values, Searching, Valued
    <2>3. n \in Refreshed <=> ~nodes[n].solved /\ nodes[n].visits > 0
      BY DEF Refreshed
    <2>4. CASE n \in Refreshed
      BY <1>5, <1>15, <2>1, <2>3, <2>4
    <2>5. CASE n \notin Refreshed
      <3>1. nodes'[n].sel = nodes[n].sel
        BY <1>5, <1>15, <2>5
      <3> QED
        BY <1>5, <2>1, <2>2, <2>3, <2>5, <3>1
    <2> QED
      BY <2>4, <2>5
  <1>17. RefreshedAbove(nodes') /\ VisitedAbove'
    <2> SUFFICES ASSUME NEW n \in DOMAIN nodes, NEW k \in DOMAIN nodes[n].kids
                 PROVE  LET c == KidAt(nodes, n, k) IN
                        /\ fresh[c] # {} => fresh[n] # {} \/ nodes[n].solved
                        /\ nodes[c].visits > 0 => nodes[n].visits > 0
      BY <1>5, <1>6, <1>8 DEF RefreshedAbove, VisitedAbove
    <2> DEFINE c == KidAt(nodes, n, k)
    <2>1. c \in DOMAIN nodes
      BY <1>8
    <2>2. nodes[c].visits > 0 => nodes[n].visits > 0
      BY <1>1, <1>2 DEF Values, Searching, VisitedAbove
    <2>3. nodes[c].sel # {} => nodes[n].sel # {} \/ nodes[n].solved
      BY <1>1 DEF Values, RefreshedAbove
    <2> HIDE DEF c
    <2>4. fresh[c] # {} => fresh[n] # {} \/ nodes[n].solved
      BY <1>15, <2>1, <2>2, <2>3 DEF Refreshed
    <2> QED
      BY <2>2, <2>4 DEF c
  <1>18. Values'
    BY <1>2, <1>16, <1>17 DEF Values
  <1> QED
    BY <1>8, <1>9, <1>11, <1>12, <1>13, <1>14, <1>18 DEF IInv

\* The model is asked about the node the search ended in, which is an OR node: one
\* that was split has an open goal to go on with.
LEMMA VisitStep ==
    ASSUME IInv, Visit
    PROVE  IInv'
  <1>1. TypeOK /\ Shape(nodes) /\ Sound(nodes) /\ Walking /\ FlagsComplete
        /\ SearchesOpenWork /\ Values
    BY DEF IInv
  <1>2. phase = "select" /\ (nodes[Here].kind = "and" => OpenKids(Here) = {})
        /\ UNCHANGED <<path, tried, step, version, fresh, cursor>>
    BY DEF Visit, refresh
  <1>3. Here \in DOMAIN nodes /\ nodes[Here].kind = "or" /\ ~nodes[Here].solved
    <2>1. Here \in DOMAIN nodes /\ nodes[Here].kind \in {"or", "and"}
      BY <1>1, PathFacts, NodeFacts DEF NodeType
    <2>2. nodes[Here].kind # "and" /\ ~nodes[Here].solved
      BY <1>1, <1>2, PathFacts DEF SearchesOpenWork
    <2> QED
      BY <2>1, <2>2
  <1> DEFINE from == IF nodes[Here].goals = <<>> THEN {} ELSE {version}
             r == [nodes[Here] EXCEPT !.used = @ \cup from, !.visits = @ + 1, !.evals = @ + 1]
  <1>4. phase' = "expand" /\ carried' = from
        /\ nodes' = [nodes EXCEPT ![Here].used = @ \cup from, ![Here].visits = @ + 1,
                                  ![Here].evals = @ + 1]
    BY <1>3 DEF Visit
  <1>5. nodes' = [nodes EXCEPT ![Here] = r]
    BY <1>1, <1>3, <1>4, PathFacts
  <1>6. /\ r \in NodeType /\ r.goals = nodes[Here].goals /\ r.kind = nodes[Here].kind
        /\ r.kids = nodes[Here].kids /\ r.solved = nodes[Here].solved
        /\ r.sel = nodes[Here].sel /\ r.used = nodes[Here].used \cup from /\ r.visits > 0
    <2>1. nodes[Here] \in NodeType
      BY <1>1, <1>3, PathFacts
    <2>2. from \subseteq {version} /\ version \in Nat
      BY <1>1 DEF TypeOK
    <2> HIDE DEF from
    <2>3. /\ nodes[Here].visits \in Nat /\ nodes[Here].evals \in Nat
          /\ nodes[Here].used \cup from \in SUBSET Nat
      BY <2>1, <2>2 DEF NodeType
    <2>4. nodes[Here].visits + 1 \in Nat /\ nodes[Here].visits + 1 > 0 /\ nodes[Here].evals + 1 \in Nat
      BY <2>3
    <2> QED
      BY <2>1, <2>3, <2>4 DEF NodeType
  <1> HIDE DEF r
  <1>7. nodes \in Seq(NodeType) /\ nodes' \in Seq(NodeType) /\ Len(nodes') = Len(nodes)
        /\ DOMAIN nodes' = DOMAIN nodes
        /\ \A m \in DOMAIN nodes : nodes'[m] = IF m = Here THEN r ELSE nodes[m]
    BY <1>1, <1>3, <1>5, <1>6, PathFacts, Replaced
  <1>8. SameShape(nodes, nodes')
    BY <1>6, <1>7 DEF SameShape
  <1>9. \A m \in DOMAIN nodes : nodes'[m].solved = nodes[m].solved
    BY <1>6, <1>7
  <1>10. Shape(nodes') /\ \A n \in DOMAIN nodes : \A k \in DOMAIN nodes[n].kids :
            KidAt(nodes', n, k) = KidAt(nodes, n, k) /\ KidAt(nodes, n, k) \in DOMAIN nodes
    <2>1. \A n \in DOMAIN nodes : \A k \in DOMAIN nodes[n].kids : KidAt(nodes, n, k) \in DOMAIN nodes
      BY <1>1, PathFacts, NodeFacts DEF Shape, Forward
    <2> QED
      BY <1>1, <1>7, <1>8, <2>1, ShapeKept
  <1>11. Sound(nodes')
    BY <1>1, <1>7, <1>8, <1>9, SoundKept
  <1>12. TypeOK'
    <2>1. AppendOnly'
      BY <1>7, <1>10 DEF AppendOnly, KidsOf, Kid, Shape, Forward, KidAt
    <2>2. carried' \subseteq Nat
      BY <1>1, <1>4 DEF TypeOK
    <2> QED
      BY <1>1, <1>2, <1>4, <1>7, <2>1, <2>2 DEF TypeOK
  <1>13. Walking'
    <2>1. Steps(nodes', path)
      BY <1>1, <1>7, <1>8, PathFacts, StepsKept DEF Walking
    <2>2. Here' = Here /\ nodes'[Here].kind = "or"
      BY <1>2, <1>3, <1>6, <1>7 DEF Here
    <2>3. \A i \in DOMAIN path : ~nodes'[path[i]].solved
      BY <1>1, <1>2, <1>9, PathFacts DEF SearchesOpenWork
    <2> QED
      BY <1>1, <1>2, <1>4, <2>1, <2>2, <2>3 DEF Walking
  <1>14. \A n \in DOMAIN nodes : Supported(nodes', n) => nodes[n].solved
    <2> SUFFICES ASSUME NEW n \in DOMAIN nodes, Supported(nodes', n)
                 PROVE  nodes[n].solved
      OBVIOUS
    <2>1. Supported(nodes, n)
      BY <1>1, <1>7, <1>8, <1>9, <1>10, SupportLocal
    <2> QED
      BY <1>1, <1>2, <2>1 DEF FlagsComplete, Due
  <1>15. FlagsComplete'
    BY <1>7, <1>9, <1>14 DEF FlagsComplete
  <1>16. SearchesOpenWork'
    BY <1>4 DEF SearchesOpenWork
  <1>17. RefreshedAbove(nodes')
    <2> SUFFICES ASSUME NEW n \in DOMAIN nodes, NEW k \in DOMAIN nodes[n].kids
                 PROVE  nodes'[KidAt(nodes, n, k)].sel # {} => nodes'[n].sel # {} \/ nodes'[n].solved
      BY <1>6, <1>7, <1>10 DEF RefreshedAbove
    <2> QED
      BY <1>1, <1>6, <1>7, <1>9, <1>10 DEF Values, RefreshedAbove
  <1>18. Valued(nodes', version')
    <2> SUFFICES ASSUME NEW n \in DOMAIN nodes
                 PROVE  /\ ~nodes'[n].solved /\ nodes'[n].sel = {} => nodes'[n].used \subseteq {version}
                        /\ ~nodes'[n].solved => UNION nodes'[n].sel \subseteq {version}
                        /\ nodes'[n].visits = 0 => nodes'[n].used = {} /\ nodes'[n].sel = {}
      BY <1>2, <1>7 DEF Valued
    <2>1. /\ ~nodes[n].solved /\ nodes[n].sel = {} => nodes[n].used \subseteq {version}
          /\ ~nodes[n].solved => UNION nodes[n].sel \subseteq {version}
          /\ nodes[n].visits = 0 => nodes[n].used = {} /\ nodes[n].sel = {}
      BY <1>1, <1>2 DEF Values, Searching, Valued
    <2> QED
      BY <1>6, <1>7, <2>1
  <1>19. VisitedAbove'
    <2>0. \A n \in DOMAIN nodes : DOMAIN nodes'[n].kids = DOMAIN nodes[n].kids
      BY <1>6, <1>7
    <2> SUFFICES ASSUME NEW n \in DOMAIN nodes, NEW k \in DOMAIN nodes[n].kids,
                        nodes'[KidAt(nodes', n, k)].visits > 0
                 PROVE  \/ nodes'[n].visits > 0
                        \/ \E i \in DOMAIN path : i < Len(path) /\ path[i] = n
      BY <1>2, <1>4, <1>7, <2>0 DEF VisitedAbove
    <2>1. CASE KidAt(nodes, n, k) = Here
      <3>1. Len(path) > 1 /\ Len(path) - 1 \in DOMAIN path /\ n = Parent
        BY <1>1, <2>1, Above DEF Walking
      <3> QED
        BY <3>1 DEF Parent
    <2>2. CASE KidAt(nodes, n, k) # Here
      BY <1>1, <1>2, <1>6, <1>7, <1>10, <2>2 DEF Values, Searching, VisitedAbove
    <2> QED
      BY <2>1, <2>2
  <1>20. Values'
    <2>1. carried' \subseteq {version}
      BY <1>4
    <2>2. Here' = Here /\ nodes'[Here].visits > 0
      BY <1>2, <1>3, <1>6, <1>7 DEF Here
    <2> QED
      BY <1>2, <1>4, <1>17, <1>18, <1>19, <2>1, <2>2 DEF Values
  <1> QED
    BY <1>10, <1>11, <1>12, <1>13, <1>15, <1>16, <1>20 DEF IInv

\* A visit ends with the flag of the node it was at.
LEMMA EndVisitStep ==
    ASSUME IInv, EndVisit
    PROVE  IInv'
  <1>1. TypeOK /\ Shape(nodes) /\ Sound(nodes) /\ Walking /\ FlagsComplete
        /\ SearchesOpenWork /\ Values
    BY DEF IInv
  <1>2. phase = "expand" /\ phase' = "backup" /\ tried' = 0
        /\ nodes' = [nodes EXCEPT ![Here].solved = NodeSolved(nodes, Here)]
        /\ UNCHANGED <<path, carried, step, version, fresh, cursor>>
    BY DEF EndVisit, refresh
  <1> DEFINE r == [nodes[Here] EXCEPT !.solved = NodeSolved(nodes, Here)]
  <1>3. Here \in DOMAIN nodes
    BY <1>1, PathFacts
  <1>4. NodeSolved(nodes, Here) <=> Supported(nodes, Here)
    BY <1>1, <1>3, PathFacts, NodeSolvedIsSupport
  <1>5. NodeSolved(nodes, Here) \in BOOLEAN
    BY DEF NodeSolved
  <1>6. /\ r \in NodeType /\ r.goals = nodes[Here].goals /\ r.kind = nodes[Here].kind
        /\ r.kids = nodes[Here].kids /\ (r.solved <=> Supported(nodes, Here))
        /\ r.sel = nodes[Here].sel /\ r.used = nodes[Here].used /\ r.visits = nodes[Here].visits
    <2>1. nodes[Here] \in NodeType
      BY <1>1, <1>3, PathFacts
    <2> DEFINE x == NodeSolved(nodes, Here)
    <2>2. x \in BOOLEAN /\ (x <=> Supported(nodes, Here))
      BY <1>4, <1>5
    <2> HIDE DEF x
    <2>3. /\ [nodes[Here] EXCEPT !.solved = x] \in NodeType
          /\ [nodes[Here] EXCEPT !.solved = x].solved = x
      BY <2>1, <2>2 DEF NodeType
    <2>4. LET q == [nodes[Here] EXCEPT !.solved = x] IN
          /\ q.goals = nodes[Here].goals /\ q.kind = nodes[Here].kind /\ q.kids = nodes[Here].kids
          /\ q.sel = nodes[Here].sel /\ q.used = nodes[Here].used /\ q.visits = nodes[Here].visits
      BY <2>1 DEF NodeType
    <2> QED
      BY <2>2, <2>3, <2>4 DEF x
  <1>7. nodes' = [nodes EXCEPT ![Here] = r]
    BY <1>2
  <1> HIDE DEF r
  <1>8. nodes \in Seq(NodeType) /\ nodes' \in Seq(NodeType) /\ Len(nodes') = Len(nodes)
        /\ DOMAIN nodes' = DOMAIN nodes
        /\ \A m \in DOMAIN nodes : nodes'[m] = IF m = Here THEN r ELSE nodes[m]
    BY <1>1, <1>3, <1>6, <1>7, PathFacts, Replaced
  <1>9. SameShape(nodes, nodes')
    BY <1>6, <1>8 DEF SameShape
  <1>10. /\ \A m \in DOMAIN nodes : nodes[m].solved => nodes'[m].solved
         /\ \A m \in DOMAIN nodes : nodes'[m].solved => nodes[m].solved \/ Supported(nodes, m)
         /\ \A m \in DOMAIN nodes : m # Here => nodes'[m].solved = nodes[m].solved
    BY <1>1, <1>6, <1>8 DEF Sound
  <1>11. Shape(nodes') /\ \A n \in DOMAIN nodes : DOMAIN nodes'[n].kids = DOMAIN nodes[n].kids
            /\ \A k \in DOMAIN nodes[n].kids :
               KidAt(nodes', n, k) = KidAt(nodes, n, k) /\ KidAt(nodes, n, k) \in DOMAIN nodes
    <2>1. \A n \in DOMAIN nodes : \A k \in DOMAIN nodes[n].kids : KidAt(nodes, n, k) \in DOMAIN nodes
      BY <1>1, PathFacts, NodeFacts DEF Shape, Forward
    <2> QED
      BY <1>1, <1>8, <1>9, <2>1, ShapeKept
  <1>12. Sound(nodes')
    BY <1>1, <1>8, <1>9, <1>10, SoundKept
  <1>13. TypeOK'
    <2>1. AppendOnly'
      BY <1>8, <1>11 DEF AppendOnly, KidsOf, Kid, Shape, Forward, KidAt
    <2>2. 0 \in 0..Width
      BY SearchAssumption
    <2> QED
      BY <1>1, <1>2, <1>8, <2>1, <2>2 DEF TypeOK
  <1>14. Walking'
    <2>1. Steps(nodes', path)
      BY <1>1, <1>8, <1>9, PathFacts, StepsKept DEF Walking
    <2>2. ASSUME NEW i \in DOMAIN path, i < Len(path)
          PROVE  ~nodes'[path[i]].solved
      <3>1. path[i] # Here /\ path[i] \in DOMAIN nodes
        BY <1>1, <2>2, PathFacts DEF Walking, Rising
      <3> QED
        BY <1>1, <1>2, <1>10, <2>2, <3>1 DEF Walking
    <2> QED
      BY <1>1, <1>2, <2>1, <2>2 DEF Walking
  <1>15. FlagsComplete'
    <2> SUFFICES ASSUME NEW n \in DOMAIN nodes, Supported(nodes', n), ~nodes'[n].solved
                 PROVE  \E i \in DOMAIN path : path[i] = n /\ i = Len(path) - 1
      BY <1>2, <1>8 DEF FlagsComplete, Due
    <2>1. CASE Supported(nodes, n)
      <3>1. n # Here /\ ~nodes[n].solved
        BY <1>6, <1>8, <1>10, <2>1
      <3>2. PICK i \in DOMAIN path : path[i] = n /\ Due(i)
        BY <1>1, <1>2, <2>1, <3>1 DEF FlagsComplete
      <3>3. i # Len(path)
        BY <1>1, <3>1, <3>2, PathFacts
      <3>4. i >= Len(path) - 1
        BY <1>2, <3>2 DEF Due
      <3>5. i \in 1..Len(path) /\ Len(path) \in Nat
        BY <1>1, PathFacts
      <3>6. i = Len(path) - 1
        BY <3>3, <3>4, <3>5
      <3> QED
        BY <3>2, <3>6
    <2>2. CASE \E k \in DOMAIN nodes[n].kids :
                   nodes'[KidAt(nodes, n, k)].solved # nodes[KidAt(nodes, n, k)].solved
      <3>1. PICK k \in DOMAIN nodes[n].kids : KidAt(nodes, n, k) = Here
        BY <1>10, <1>11, <2>2
      <3>2. Len(path) > 1 /\ Len(path) - 1 \in DOMAIN path /\ n = Parent
        BY <1>1, <3>1, Above DEF Walking
      <3> QED
        BY <3>2 DEF Parent
    <2> QED
      BY <1>1, <1>8, <1>9, <2>1, <2>2, SupportLocal
  <1>16. SearchesOpenWork'
    BY <1>2 DEF SearchesOpenWork
  <1>17. \A m \in DOMAIN nodes :
            /\ nodes'[m].sel = nodes[m].sel /\ nodes'[m].used = nodes[m].used
            /\ nodes'[m].visits = nodes[m].visits
    BY <1>6, <1>8
  <1>18. RefreshedAbove(nodes')
    BY <1>1, <1>8, <1>10, <1>11, <1>17 DEF Values, RefreshedAbove
  <1>19. Valued(nodes', version')
    BY <1>1, <1>2, <1>8, <1>10, <1>17 DEF Values, Searching, Valued
  <1>20. VisitedAbove'
    <2> SUFFICES ASSUME NEW n \in DOMAIN nodes, NEW k \in DOMAIN nodes[n].kids,
                        nodes'[KidAt(nodes', n, k)].visits > 0
                 PROVE  \/ nodes'[n].visits > 0
                        \/ \E i \in DOMAIN path : i < Len(path) /\ path[i] = n
      BY <1>2, <1>8, <1>11 DEF VisitedAbove
    <2>1. KidAt(nodes', n, k) = KidAt(nodes, n, k) /\ KidAt(nodes, n, k) \in DOMAIN nodes
      BY <1>11
    <2>2. nodes[KidAt(nodes, n, k)].visits > 0
      BY <1>17, <2>1
    <2>3. \/ nodes[n].visits > 0
          \/ \E i \in DOMAIN path : i < Len(path) /\ path[i] = n
      BY <1>1, <1>2, <2>2 DEF Values, Searching, VisitedAbove
    <2> QED
      BY <1>17, <2>3
  <1>21. Values'
    <2>1. Here' = Here
      BY <1>2 DEF Here
    <2> QED
      BY <1>1, <1>2, <1>3, <1>17, <1>18, <1>19, <1>20, <2>1 DEF Values
  <1> QED
    BY <1>11, <1>12, <1>13, <1>14, <1>15, <1>16, <1>21 DEF IInv

\* updateEdge keeps the edges.
LEMMA TraversedFacts ==
    ASSUME NEW kids \in Seq(EdgeType), NEW c
    PROVE  /\ Traversed(kids, c) \in Seq(EdgeType) /\ Len(Traversed(kids, c)) = Len(kids)
           /\ DOMAIN Traversed(kids, c) = DOMAIN kids
           /\ \A k \in DOMAIN kids :
                 /\ Traversed(kids, c)[k].node = kids[k].node
                 /\ Traversed(kids, c)[k].tactic = kids[k].tactic
  <1> DEFINE e(k) == IF kids[k].node = c THEN [kids[k] EXCEPT !.visits = @ + 1] ELSE kids[k]
  <1>1. \A k \in DOMAIN kids :
            e(k) \in EdgeType /\ e(k).node = kids[k].node /\ e(k).tactic = kids[k].tactic
    <2> SUFFICES ASSUME NEW k \in DOMAIN kids
                 PROVE  e(k) \in EdgeType /\ e(k).node = kids[k].node /\ e(k).tactic = kids[k].tactic
      OBVIOUS
    <2>1. kids[k] \in EdgeType
      OBVIOUS
    <2> DEFINE x == kids[k]
    <2>2. x \in EdgeType /\ x.visits \in Nat /\ x.visits + 1 \in Nat
      BY <2>1 DEF EdgeType
    <2> HIDE DEF x
    <2>3. LET y == [x EXCEPT !.visits = @ + 1] IN
          y \in EdgeType /\ y.node = x.node /\ y.tactic = x.tactic
      BY <2>2 DEF EdgeType
    <2> QED
      BY <2>2, <2>3 DEF x
  <1>2. Traversed(kids, c) = [k \in DOMAIN kids |-> e(k)] /\ DOMAIN kids = 1..Len(kids)
        /\ Len(kids) \in Nat
    BY DEF Traversed
  <1> HIDE DEF e
  <1>3. Traversed(kids, c) \in [1..Len(kids) -> EdgeType]
        /\ \A k \in DOMAIN kids : Traversed(kids, c)[k] = e(k)
    BY <1>1, <1>2
  <1> QED
    BY <1>1, <1>2, <1>3, Listed

\* One level of backup: the flag of the parent is up to date, and a value that is
\* not new comes to a node that has been refreshed.
LEMMA BackupStep ==
    ASSUME IInv, Backup
    PROVE  IInv'
  <1> DEFINE p == Parent
             c == Here
             L == Len(path)
  <1>1. TypeOK /\ Shape(nodes) /\ Sound(nodes) /\ Walking /\ FlagsComplete
        /\ SearchesOpenWork /\ Values
    BY DEF IInv
  <1>2. phase = "backup" /\ L > 1 /\ nodes' = BackedUp(p, c)
        /\ carried' = (IF nodes[p].kind = "or" THEN carried ELSE UNION {nodes[m].used : m \in Behind(p)})
        /\ path' = SubSeq(path, 1, L - 1)
        /\ UNCHANGED <<phase, tried, step, version, fresh, cursor>>
    BY DEF Backup, refresh
  <1>3. L \in Nat /\ DOMAIN path = 1..L /\ L \in DOMAIN path /\ L - 1 \in DOMAIN path
        /\ p = path[L - 1] /\ c = path[L] /\ p \in DOMAIN nodes /\ c \in DOMAIN nodes
    BY <1>1, <1>2, PathFacts DEF Parent
  <1>4. ~nodes[p].solved
    BY <1>1, <1>2, <1>3 DEF Walking
  <1>5. PICK kc \in DOMAIN nodes[p].kids : KidAt(nodes, p, kc) = c
    BY <1>1, <1>2, <1>3 DEF Walking, Steps
  <1>6. /\ path' \in Seq(DOMAIN nodes) /\ Len(path') = L - 1 /\ DOMAIN path' = 1..L - 1
        /\ \A i \in 1..L - 1 : path'[i] = path[i] /\ i \in DOMAIN path
        /\ path' # <<>> /\ path'[1] = 1
    <2>1. L - 1 \in Nat /\ 1 <= L - 1 /\ L - 1 <= L
      BY <1>2, <1>3
    <2>2. path \in Seq(DOMAIN nodes) /\ path[1] = 1
      BY <1>1, PathFacts
    <2> HIDE DEF L
    <2>3. \A i \in 1..L - 1 : i \in DOMAIN path
      BY <1>3, <2>1
    <2>4. \A i \in 1..L - 1 : path[i] \in DOMAIN nodes
      BY <2>2, <2>3
    <2>5. SubSeq(path, 1, L - 1) \in Seq(DOMAIN nodes) /\ Len(SubSeq(path, 1, L - 1)) = L - 1
          /\ \A i \in 1..L - 1 : SubSeq(path, 1, L - 1)[i] = path[i]
      BY <2>1, <2>2, <2>3, SubSeqProperties
    <2>6. /\ path' \in Seq(DOMAIN nodes) /\ Len(path') = L - 1 /\ DOMAIN path' = 1..L - 1
          /\ \A i \in 1..L - 1 : path'[i] = path[i]
      BY <1>2, <2>1, <2>5
    <2>7. path' # <<>> /\ path'[1] = 1
      BY <2>1, <2>2, <2>6
    <2> QED
      BY <2>3, <2>6, <2>7
  <1>7. Here' = p
    BY <1>2, <1>3, <1>6 DEF Here
  <1> DEFINE s == NodeSolved(nodes, p)
             kids == Traversed(nodes[p].kids, c)
             r == [nodes[p] EXCEPT !.kids = kids, !.visits = @ + 1, !.used = @ \cup carried, !.solved = s]
  <1>8. s \in BOOLEAN /\ (s <=> Supported(nodes, p))
    BY <1>1, <1>3, PathFacts, NodeSolvedIsSupport DEF NodeSolved
  <1>9. nodes' = [nodes EXCEPT ![p] = r]
    BY <1>2 DEF BackedUp
  <1>10. /\ kids \in Seq(EdgeType) /\ Len(kids) = Len(nodes[p].kids)
         /\ DOMAIN kids = DOMAIN nodes[p].kids
         /\ \A k \in DOMAIN nodes[p].kids :
               kids[k].node = nodes[p].kids[k].node /\ kids[k].tactic = nodes[p].kids[k].tactic
    BY <1>1, <1>3, PathFacts, NodeFacts, TraversedFacts
  <1> HIDE DEF s, kids
  <1>11. /\ r \in NodeType /\ r.goals = nodes[p].goals /\ r.kind = nodes[p].kind
         /\ r.kids = kids /\ r.solved = s /\ r.sel = nodes[p].sel
         /\ r.used = nodes[p].used \cup carried /\ r.visits > 0
    <2>1. nodes[p] \in NodeType
      BY <1>1, <1>3, PathFacts
    <2>2. nodes[p].visits \in Nat /\ nodes[p].used \cup carried \in SUBSET Nat
      BY <1>1, <2>1 DEF TypeOK, NodeType
    <2>3. nodes[p].visits + 1 \in Nat /\ nodes[p].visits + 1 > 0
      BY <2>2
    <2> HIDE DEF p
    <2> QED
      BY <1>8, <1>10, <2>1, <2>2, <2>3 DEF NodeType
  <1> HIDE DEF r, p, c
  <1>12. nodes \in Seq(NodeType) /\ nodes' \in Seq(NodeType) /\ Len(nodes') = Len(nodes)
         /\ DOMAIN nodes' = DOMAIN nodes
         /\ \A m \in DOMAIN nodes : nodes'[m] = IF m = p THEN r ELSE nodes[m]
    BY <1>1, <1>3, <1>9, <1>11, PathFacts, Replaced
  <1>13. SameShape(nodes, nodes')
    BY <1>10, <1>11, <1>12 DEF SameShape
  <1>14. /\ \A m \in DOMAIN nodes : nodes[m].solved => nodes'[m].solved
         /\ \A m \in DOMAIN nodes : nodes'[m].solved => nodes[m].solved \/ Supported(nodes, m)
         /\ \A m \in DOMAIN nodes : m # p => nodes'[m].solved = nodes[m].solved
    BY <1>4, <1>8, <1>11, <1>12
  <1>15. Shape(nodes') /\ \A n \in DOMAIN nodes : DOMAIN nodes'[n].kids = DOMAIN nodes[n].kids
            /\ \A k \in DOMAIN nodes[n].kids :
               KidAt(nodes', n, k) = KidAt(nodes, n, k) /\ KidAt(nodes, n, k) \in DOMAIN nodes
    <2>1. \A n \in DOMAIN nodes : \A k \in DOMAIN nodes[n].kids : KidAt(nodes, n, k) \in DOMAIN nodes
      BY <1>1, PathFacts, NodeFacts DEF Shape, Forward
    <2> QED
      BY <1>1, <1>12, <1>13, <2>1, ShapeKept
  <1>16. Sound(nodes')
    BY <1>1, <1>12, <1>13, <1>14, SoundKept
  <1>17. TypeOK'
    <2>1. AppendOnly'
      BY <1>12, <1>15 DEF AppendOnly, KidsOf, Kid, Shape, Forward, KidAt
    <2>2. carried' \subseteq Nat
      <3>1. \A m \in Behind(p) : nodes[m].used \subseteq Nat
        <4> SUFFICES ASSUME NEW m \in Behind(p)  PROVE nodes[m].used \subseteq Nat
          OBVIOUS
        <4>1. m \in DOMAIN nodes
          BY <1>3, <1>15 DEF Behind, KidsOf, Kid, KidAt
        <4> QED
          BY <1>12, <4>1, NodeFacts DEF NodeType
      <3>2. UNION {nodes[m].used : m \in Behind(p)} \subseteq Nat
        BY <3>1
      <3> QED
        BY <1>1, <1>2, <3>2 DEF TypeOK
    <2> QED
      BY <1>1, <1>2, <1>6, <1>12, <2>1, <2>2 DEF TypeOK
  <1>18. ASSUME NEW n \in DOMAIN nodes, NEW k \in DOMAIN nodes[n].kids, KidAt(nodes, n, k) = p
         PROVE  \E i \in DOMAIN path' : path'[i] = n /\ i = L - 2
    <2>1. nodes \in Seq(NodeType) /\ path \in Seq(DOMAIN nodes) /\ path # <<>> /\ path[1] = 1
          /\ Steps(nodes, path) /\ Shape(nodes)
      BY <1>1, <1>12, PathFacts DEF TypeOK, Walking
    <2>2. L - 1 > 1 /\ n = path[(L - 1) - 1]
      <3>1. L - 1 \in DOMAIN path /\ KidAt(nodes, n, k) = path[L - 1]
        BY <1>3, <1>18 DEF p
      <3> HIDE DEF L
      <3> QED
        BY <2>1, <3>1, OnlyParent
    <2>3. (L - 1) - 1 = L - 2 /\ L - 2 \in DOMAIN path' /\ L - 2 \in 1..L - 1
      BY <1>3, <1>6, <2>2
    <2> QED
      BY <1>6, <2>2, <2>3
  <1>19. Walking'
    <2>1. Steps(nodes, path')
      <3> SUFFICES ASSUME NEW i \in DOMAIN path', i > 1
                   PROVE  \E j \in DOMAIN nodes[path'[i - 1]].kids : KidAt(nodes, path'[i - 1], j) = path'[i]
        BY DEF Steps
      <3>1. i \in 1..L - 1 /\ i - 1 \in 1..L - 1 /\ i \in DOMAIN path
        BY <1>3, <1>6
      <3>2. path'[i] = path[i] /\ path'[i - 1] = path[i - 1]
        BY <1>6, <3>1
      <3> QED
        BY <1>1, <3>1, <3>2 DEF Walking, Steps
    <2>2. Steps(nodes', path')
      BY <1>1, <1>6, <1>12, <1>13, <2>1, StepsKept
    <2>3. Rising(path')
      BY <1>1, <1>6 DEF Walking, Rising
    <2>4. ASSUME NEW i \in DOMAIN path', i < L - 1
          PROVE  ~nodes'[path'[i]].solved
      <3>1. i \in DOMAIN path /\ path'[i] = path[i] /\ i < L
        BY <1>3, <1>6, <2>4
      <3>2. path[i] < path[L - 1] /\ path[i] \in DOMAIN nodes
        BY <1>1, <1>3, <2>4, <3>1, PathFacts DEF Walking, Rising
      <3>3. path[i] # p
        BY <1>1, <1>3, <3>2, PathFacts
      <3> QED
        BY <1>1, <1>2, <1>14, <3>1, <3>2, <3>3 DEF Walking
    <2> QED
      BY <1>1, <1>2, <1>6, <2>2, <2>3, <2>4 DEF Walking
  <1>20. FlagsComplete'
    <2> SUFFICES ASSUME NEW n \in DOMAIN nodes, Supported(nodes', n), ~nodes'[n].solved
                 PROVE  \E i \in DOMAIN path' : path'[i] = n /\ i = L - 2
      <3>1. \A i : (i = Len(path') - 1 <=> i = L - 2)
        BY <1>3, <1>6
      <3> QED
        BY <1>2, <1>12, <3>1 DEF FlagsComplete, Due
    <2>1. CASE Supported(nodes, n)
      <3>1. n # p /\ ~nodes[n].solved
        BY <1>8, <1>11, <1>12, <1>14, <2>1
      <3>2. PICK i \in DOMAIN path : path[i] = n /\ Due(i)
        BY <1>1, <1>2, <2>1, <3>1 DEF FlagsComplete
      <3>3. i = L - 1
        BY <1>2, <3>2 DEF Due
      <3> QED
        BY <1>3, <3>1, <3>2, <3>3
    <2>2. CASE \E k \in DOMAIN nodes[n].kids :
                   nodes'[KidAt(nodes, n, k)].solved # nodes[KidAt(nodes, n, k)].solved
      <3>1. PICK k \in DOMAIN nodes[n].kids : KidAt(nodes, n, k) = p
        BY <1>14, <1>15, <2>2
      <3> QED
        BY <1>18, <3>1
    <2> QED
      BY <1>1, <1>12, <1>13, <2>1, <2>2, SupportLocal
  <1>21. SearchesOpenWork'
    BY <1>2 DEF SearchesOpenWork
  <1>22. \A m \in DOMAIN nodes :
            /\ nodes'[m].sel = nodes[m].sel
            /\ m # p => nodes'[m].used = nodes[m].used /\ nodes'[m].visits = nodes[m].visits
    BY <1>11, <1>12
  <1>23. /\ \A n \in DOMAIN nodes :
               /\ ~nodes[n].solved /\ nodes[n].sel = {} => nodes[n].used \subseteq {version}
               /\ ~nodes[n].solved => UNION nodes[n].sel \subseteq {version}
               /\ nodes[n].visits = 0 => nodes[n].used = {} /\ nodes[n].sel = {}
         /\ \A k \in DOMAIN nodes[p].kids :
               nodes[KidAt(nodes, p, k)].sel # {} => nodes[p].sel # {}
         /\ carried \subseteq {version} \/ nodes[c].sel # {}
    BY <1>1, <1>2, <1>3, <1>4 DEF Values, RefreshedAbove, Searching, Valued, c
  <1>24. carried \subseteq {version} \/ nodes[p].sel # {}
    BY <1>5, <1>23
  <1>25. carried' \subseteq {version} \/ nodes[p].sel # {}
    <2> SUFFICES ASSUME nodes[p].kind # "or", nodes[p].sel = {}
                 PROVE  UNION {nodes[m].used : m \in Behind(p)} \subseteq {version}
      BY <1>2, <1>24
    <2>1. \A m \in Behind(p) : nodes[m].used \subseteq {version}
      <3> SUFFICES ASSUME NEW m \in Behind(p)  PROVE nodes[m].used \subseteq {version}
        OBVIOUS
      <3>1. PICK k \in DOMAIN nodes[p].kids : m = KidAt(nodes, p, k)
        BY DEF Behind, KidsOf, Kid, KidAt
      <3>2. ~nodes[m].solved /\ m \in DOMAIN nodes
        BY <1>3, <1>15, <3>1 DEF Behind
      <3> QED
        BY <1>23, <3>1, <3>2
    <2> QED
      BY <2>1
  <1>26. RefreshedAbove(nodes')
    BY <1>1, <1>12, <1>14, <1>15, <1>22 DEF Values, RefreshedAbove
  <1>27. Valued(nodes', version')
    <2> SUFFICES ASSUME NEW n \in DOMAIN nodes
                 PROVE  /\ ~nodes'[n].solved /\ nodes'[n].sel = {} => nodes'[n].used \subseteq {version}
                        /\ ~nodes'[n].solved => UNION nodes'[n].sel \subseteq {version}
                        /\ nodes'[n].visits = 0 => nodes'[n].used = {} /\ nodes'[n].sel = {}
      BY <1>2, <1>12 DEF Valued
    <2>1. CASE n = p
      BY <1>4, <1>11, <1>12, <1>23, <1>24, <2>1
    <2>2. CASE n # p
      BY <1>14, <1>22, <1>23, <2>2
    <2> QED
      BY <2>1, <2>2
  <1>28. VisitedAbove'
    <2> SUFFICES ASSUME NEW n \in DOMAIN nodes, NEW k \in DOMAIN nodes[n].kids,
                        nodes'[KidAt(nodes, n, k)].visits > 0
                 PROVE  \/ nodes'[n].visits > 0
                        \/ \E i \in DOMAIN path' : i < L - 1 /\ path'[i] = n
      BY <1>2, <1>6, <1>12, <1>15 DEF VisitedAbove
    <2>1. CASE KidAt(nodes, n, k) = p
      BY <1>3, <1>18, <2>1
    <2>2. CASE n = p
      BY <1>11, <1>12, <2>2
    <2>3. CASE KidAt(nodes, n, k) # p /\ n # p
      <3>1. nodes[KidAt(nodes, n, k)].visits > 0 /\ nodes'[n].visits = nodes[n].visits
        BY <1>15, <1>22, <2>3
      <3>2. nodes[n].visits > 0 \/ \E i \in DOMAIN path : i < L /\ path[i] = n
        BY <1>1, <1>2, <3>1 DEF Values, Searching, VisitedAbove
      <3>3. ASSUME NEW i \in DOMAIN path, i < L, path[i] = n
            PROVE  i \in DOMAIN path' /\ i < L - 1 /\ path'[i] = n
        <4>1. i # L - 1
          BY <1>3, <2>3, <3>3
        <4>2. i \in 1..L - 1 /\ i < L - 1
          BY <1>3, <3>3, <4>1
        <4> QED
          BY <1>6, <3>3, <4>2
      <3> QED
        BY <3>1, <3>2, <3>3
    <2> QED
      BY <2>1, <2>2, <2>3
  <1>29. Values'
    <2>1. nodes'[p].sel = nodes[p].sel /\ nodes'[p].visits > 0
      BY <1>3, <1>11, <1>12
    <2> QED
      BY <1>2, <1>7, <1>25, <1>26, <1>27, <1>28, <2>1 DEF Values
  <1> QED
    BY <1>15, <1>16, <1>17, <1>19, <1>20, <1>21, <1>29 DEF IInv

\* What a tactic leaves is a state again.
LEMMA AfterIsState ==
    ASSUME TypeOK, NEW t \in Tactics, Runs(t)
    PROVE  After(nodes[Here].goals, t) \in Seq(Goals)
  <1> DEFINE goals == nodes[Here].goals
  <1>1. goals \in Seq(Goals) /\ goals # <<>> /\ Results[t][Head(goals)] # None
    BY PathFacts, NodeFacts DEF Runs, NodeType
  <1> HIDE DEF goals
  <1>2. Head(goals) \in Goals /\ Tail(goals) \in Seq(Goals)
    BY <1>1
  <1>3. Results[t][Head(goals)] \in Seq(Goals)
    BY <1>1, <1>2, TacticAssumption
  <1>4. Results[t][Head(goals)] \o Tail(goals) \in Seq(Goals)
    BY <1>2, <1>3
  <1> QED
    BY <1>4 DEF After, goals

\* A new child.
LEMMA GrowStep ==
    ASSUME IInv, phase = "expand", NEW t \in Tactics, Runs(t),
           nodes' = Pushed(Here, t, After(nodes[Here].goals, t)),
           tried' \in 0..Width,
           UNCHANGED <<path, phase, carried, step, version, fresh, cursor>>
    PROVE  IInv'
  <1> DEFINE n == Here
             goals == After(nodes[n].goals, t)
             L == Len(nodes)
  <1>1. TypeOK /\ Shape(nodes) /\ Sound(nodes) /\ Walking /\ FlagsComplete
        /\ SearchesOpenWork /\ Values
    BY DEF IInv
  <1>2. n \in DOMAIN nodes /\ nodes[n].kind = "or" /\ nodes \in Seq(NodeType) /\ L \in Nat
        /\ DOMAIN nodes = 1..L
    BY <1>1, PathFacts DEF Walking
  <1>3. Growth(nodes, nodes', n, t, goals)
    BY <1>1, <1>2, AfterIsState, Grown
  <1>4. nodes' \in Seq(NodeType) /\ Len(nodes') \in Nat /\ Len(nodes') > L /\ DOMAIN nodes' = 1..Len(nodes')
    BY <1>3 DEF Growth
  <1>5. Shape(nodes') /\ Sound(nodes')
    BY <1>1, <1>2, <1>3, GrownShape, GrownSound
  <1> HIDE DEF goals
  <1>6. DOMAIN nodes \subseteq DOMAIN nodes'
    BY <1>2, <1>4
  <1> HIDE DEF n
  <1>19. /\ \A m \in DOMAIN nodes :
               /\ nodes'[m].goals = nodes[m].goals /\ nodes'[m].kind = nodes[m].kind
               /\ nodes'[m].solved = nodes[m].solved /\ nodes'[m].visits = nodes[m].visits
               /\ nodes'[m].used = nodes[m].used /\ nodes'[m].sel = nodes[m].sel
               /\ DOMAIN nodes[m].kids \subseteq DOMAIN nodes'[m].kids
               /\ \A k \in DOMAIN nodes[m].kids : nodes'[m].kids[k] = nodes[m].kids[k]
         /\ \A m \in DOMAIN nodes' : \A k \in DOMAIN nodes'[m].kids :
               \/ m \in DOMAIN nodes /\ k \in DOMAIN nodes[m].kids
               \/ m = n /\ nodes'[m].kids[k].node = L + 1 /\ nodes'[m].kids[k].tactic = t
               \/ /\ m = L + 1 /\ nodes'[m].kids[k].tactic = None /\ k \in Nat \ {0}
                  /\ nodes'[m].kids[k].node = L + 1 + k /\ L + 1 + k <= Len(nodes')
    <2>1. Extends(nodes, nodes', n, t)
      BY <1>2, <1>3, GrownEdges
    <2> QED
      BY <2>1, Zenon DEF Extends
  <1>7. \A m \in DOMAIN nodes :
            /\ nodes'[m].kind = nodes[m].kind /\ nodes'[m].solved = nodes[m].solved
            /\ nodes'[m].visits = nodes[m].visits
            /\ nodes'[m].used = nodes[m].used /\ nodes'[m].sel = nodes[m].sel
    BY <1>19
  <1>8. \A m \in DOMAIN nodes' : m \notin DOMAIN nodes =>
            nodes'[m].visits = 0 /\ nodes'[m].used = {} /\ nodes'[m].sel = {}
    <2>1. \A m \in L + 1..Len(nodes') :
            nodes'[m].visits = 0 /\ nodes'[m].used = {} /\ nodes'[m].sel = {}
      BY <1>3 DEF Growth
    <2> QED
      BY <1>2, <1>4, <2>1
  <1>9. \A m \in DOMAIN nodes' : \A k \in DOMAIN nodes'[m].kids :
            \/ /\ m \in DOMAIN nodes /\ k \in DOMAIN nodes[m].kids
               /\ KidAt(nodes', m, k) = KidAt(nodes, m, k) /\ KidAt(nodes, m, k) \in DOMAIN nodes
            \/ KidAt(nodes', m, k) \in DOMAIN nodes' /\ KidAt(nodes', m, k) \notin DOMAIN nodes
    <2> SUFFICES ASSUME NEW m \in DOMAIN nodes', NEW k \in DOMAIN nodes'[m].kids
                 PROVE  \/ /\ m \in DOMAIN nodes /\ k \in DOMAIN nodes[m].kids
                           /\ KidAt(nodes', m, k) = KidAt(nodes, m, k) /\ KidAt(nodes, m, k) \in DOMAIN nodes
                        \/ KidAt(nodes', m, k) \in DOMAIN nodes' /\ KidAt(nodes', m, k) \notin DOMAIN nodes
      OBVIOUS
    <2>1. CASE m \in DOMAIN nodes /\ k \in DOMAIN nodes[m].kids
      <3>1. KidAt(nodes', m, k) = KidAt(nodes, m, k)
        BY <1>19, <2>1 DEF KidAt
      <3>2. KidAt(nodes, m, k) \in DOMAIN nodes
        BY <1>1, <1>2, <2>1 DEF Shape, Forward
      <3> QED
        BY <2>1, <3>1, <3>2
    <2>2. CASE nodes'[m].kids[k].node = L + 1
      BY <1>2, <1>4, <2>2 DEF KidAt
    <2>3. CASE k \in Nat \ {0} /\ nodes'[m].kids[k].node = L + 1 + k /\ L + 1 + k <= Len(nodes')
      BY <1>2, <1>4, <2>3 DEF KidAt
    <2> QED
      BY <1>19, <2>1, <2>2, <2>3
  <1>10. path \in Seq(DOMAIN nodes) /\ path \in Seq(DOMAIN nodes') /\ Here' = n
         /\ \A i \in DOMAIN path : path[i] \in DOMAIN nodes
    BY <1>1, <1>6, PathFacts DEF Here, n
  <1>11. TypeOK'
    <2>1. AppendOnly'
      BY <1>5 DEF AppendOnly, KidsOf, Kid, Shape, Forward, KidAt
    <2>2. nodes' # <<>>
      BY <1>2, <1>4
    <2> QED
      BY <1>1, <1>4, <1>10, <2>1, <2>2 DEF TypeOK
  <1>12. Walking'
    <2>1. Steps(nodes', path)
      BY <1>1, <1>2, <1>3, <1>10, StepsGrown DEF Walking
    <2> QED
      BY <1>1, <1>2, <1>7, <1>10, <2>1 DEF Walking, n
  <1>13. FlagsComplete'
    <2> SUFFICES ASSUME NEW m \in DOMAIN nodes', Supported(nodes', m), ~nodes'[m].solved
                 PROVE  \E i \in DOMAIN path : path[i] = m /\ i >= Len(path) - 1
      BY DEF FlagsComplete, Due
    <2>1. m = n \/ (m \in DOMAIN nodes /\ Supported(nodes, m))
      BY <1>1, <1>2, <1>3, GrownSupport
    <2>2. CASE m = n
      BY <1>1, <2>2, PathFacts DEF n
    <2>3. CASE m \in DOMAIN nodes /\ Supported(nodes, m)
      BY <1>1, <1>7, <2>3 DEF FlagsComplete, Due
    <2> QED
      BY <2>1, <2>2, <2>3
  <1>14. RefreshedAbove(nodes')
    <2> SUFFICES ASSUME NEW m \in DOMAIN nodes', NEW k \in DOMAIN nodes'[m].kids,
                        nodes'[KidAt(nodes', m, k)].sel # {}
                 PROVE  nodes'[m].sel # {} \/ nodes'[m].solved
      BY DEF RefreshedAbove
    <2>1. /\ m \in DOMAIN nodes /\ k \in DOMAIN nodes[m].kids
          /\ KidAt(nodes', m, k) = KidAt(nodes, m, k) /\ KidAt(nodes, m, k) \in DOMAIN nodes
      BY <1>8, <1>9
    <2> QED
      BY <1>1, <1>7, <2>1 DEF Values, RefreshedAbove
  <1>15. Valued(nodes', version')
    <2>1. Valued(nodes, version)
      BY <1>1 DEF Values, Searching
    <2> QED
      BY <1>7, <1>8, <2>1 DEF Valued
  <1>16. VisitedAbove'
    <2> SUFFICES ASSUME NEW m \in DOMAIN nodes', NEW k \in DOMAIN nodes'[m].kids,
                        nodes'[KidAt(nodes', m, k)].visits > 0
                 PROVE  \/ nodes'[m].visits > 0
                        \/ \E i \in DOMAIN path : i < Len(path) /\ path[i] = m
      BY DEF VisitedAbove
    <2>1. /\ m \in DOMAIN nodes /\ k \in DOMAIN nodes[m].kids
          /\ KidAt(nodes', m, k) = KidAt(nodes, m, k) /\ KidAt(nodes, m, k) \in DOMAIN nodes
      BY <1>8, <1>9
    <2> QED
      BY <1>1, <1>7, <2>1 DEF Values, Searching, VisitedAbove
  <1>17. Values'
    BY <1>1, <1>2, <1>7, <1>10, <1>14, <1>15, <1>16 DEF Values, n
  <1>18. SearchesOpenWork'
    BY DEF SearchesOpenWork
  <1> QED
    BY <1>5, <1>11, <1>12, <1>13, <1>17, <1>18 DEF IInv

\* A child that is there already.
LEMMA MergeStep ==
    ASSUME IInv, phase = "expand", NEW t \in Tactics, Runs(t),
           NEW k \in Twin(Here, t, After(nodes[Here].goals, t)),
           nodes' = Merged(Here, k, After(nodes[Here].goals, t)),
           tried' \in 0..Width,
           UNCHANGED <<path, phase, carried, step, version, fresh, cursor>>
    PROVE  IInv'
  <1> DEFINE n == Here
             goals == After(nodes[n].goals, t)
             c == Kid(n, k)
  <1>1. TypeOK /\ Shape(nodes) /\ Sound(nodes) /\ Walking /\ FlagsComplete
        /\ SearchesOpenWork /\ Values
    BY DEF IInv
  <1>2. n \in DOMAIN nodes /\ nodes[n].kind = "or" /\ nodes \in Seq(NodeType)
    BY <1>1, PathFacts DEF Walking
  <1>3. k \in DOMAIN nodes[n].kids /\ (nodes[n].kids[k].tactic = t \/ nodes[c].goals = goals)
    BY DEF Twin
  <1>4. c \in DOMAIN nodes /\ c # n
    BY <1>1, <1>2, <1>3, PathFacts DEF Shape, Forward, Kid, KidAt
  <1>5. nodes[c].goals = goals
    BY <1>1, <1>2, <1>3, TacticAssumption DEF Shape, EdgesAreSteps, Kid, KidAt
  <1> DEFINE x == nodes[c].solved \/ goals = <<>>
             y == nodes[n].solved \/ nodes[c].solved \/ goals = <<>>
             rc == [nodes[c] EXCEPT !.solved = x]
             rn == [nodes[n] EXCEPT !.solved = y]
             mid == [nodes EXCEPT ![c] = rc]
  <1>6. nodes' = [mid EXCEPT ![n] = rn]
    BY <1>4 DEF Merged
  <1>7. x \in BOOLEAN /\ y \in BOOLEAN /\ (x <=> nodes[c].solved)
        /\ (y => nodes[n].solved \/ Supported(nodes, n)) /\ (nodes[n].solved => y)
    <2>1. goals = <<>> => nodes[c].solved
      BY <1>1, <1>4, <1>5 DEF Sound
    <2>2. nodes[c].solved => Supported(nodes, n)
      BY <1>2, <1>3 DEF Supported, Kid, KidAt
    <2> QED
      BY <2>1, <2>2
  <1> HIDE DEF x, y, goals, c, n
  <1>8. /\ rc \in NodeType /\ rc.goals = nodes[c].goals /\ rc.kind = nodes[c].kind
        /\ rc.kids = nodes[c].kids /\ rc.solved = x /\ rc.sel = nodes[c].sel
        /\ rc.used = nodes[c].used /\ rc.visits = nodes[c].visits
        /\ rn \in NodeType /\ rn.goals = nodes[n].goals /\ rn.kind = nodes[n].kind
        /\ rn.kids = nodes[n].kids /\ rn.solved = y /\ rn.sel = nodes[n].sel
        /\ rn.used = nodes[n].used /\ rn.visits = nodes[n].visits
    <2>1. nodes[c] \in NodeType /\ nodes[n] \in NodeType
      BY <1>2, <1>4
    <2> QED
      BY <1>7, <2>1 DEF NodeType
  <1> HIDE DEF rc, rn
  <1>9. mid \in Seq(NodeType) /\ Len(mid) = Len(nodes) /\ DOMAIN mid = DOMAIN nodes
        /\ \A m \in DOMAIN nodes : mid[m] = IF m = c THEN rc ELSE nodes[m]
    BY <1>2, <1>4, <1>8, Replaced
  <1> HIDE DEF mid
  <1>10. nodes' \in Seq(NodeType) /\ Len(nodes') = Len(nodes) /\ DOMAIN nodes' = DOMAIN nodes
         /\ \A m \in DOMAIN nodes :
               nodes'[m] = IF m = n THEN rn ELSE IF m = c THEN rc ELSE nodes[m]
    <2>1. nodes' \in Seq(NodeType) /\ Len(nodes') = Len(mid)
          /\ \A m \in DOMAIN mid : nodes'[m] = IF m = n THEN rn ELSE mid[m]
      BY <1>2, <1>6, <1>8, <1>9, Replaced
    <2> QED
      BY <1>4, <1>9, <2>1
  <1>11. SameShape(nodes, nodes')
    BY <1>8, <1>10 DEF SameShape
  <1>12. /\ \A m \in DOMAIN nodes : nodes[m].solved => nodes'[m].solved
         /\ \A m \in DOMAIN nodes : nodes'[m].solved => nodes[m].solved \/ Supported(nodes, m)
         /\ \A m \in DOMAIN nodes : m # n => (nodes'[m].solved <=> nodes[m].solved)
    BY <1>7, <1>8, <1>10
  <1>13. \A m \in DOMAIN nodes : m # n => nodes'[m].solved = nodes[m].solved
    <2>1. \A m \in DOMAIN nodes : nodes[m].solved \in BOOLEAN /\ nodes'[m].solved \in BOOLEAN
      BY <1>2, <1>10, NodeFacts DEF NodeType
    <2> QED
      BY <1>12, <2>1
  <1>14. Shape(nodes') /\ \A m \in DOMAIN nodes : DOMAIN nodes'[m].kids = DOMAIN nodes[m].kids
            /\ \A j \in DOMAIN nodes[m].kids :
               KidAt(nodes', m, j) = KidAt(nodes, m, j) /\ KidAt(nodes, m, j) \in DOMAIN nodes
    <2>1. \A m \in DOMAIN nodes : \A j \in DOMAIN nodes[m].kids : KidAt(nodes, m, j) \in DOMAIN nodes
      BY <1>1, PathFacts, NodeFacts DEF Shape, Forward
    <2> QED
      BY <1>1, <1>2, <1>10, <1>11, <2>1, ShapeKept
  <1>15. Sound(nodes')
    BY <1>1, <1>2, <1>10, <1>11, <1>12, SoundKept
  <1>16. TypeOK'
    <2>1. AppendOnly'
      BY <1>10, <1>14 DEF AppendOnly, KidsOf, Kid, Shape, Forward, KidAt
    <2> QED
      BY <1>1, <1>10, <2>1 DEF TypeOK
  <1>17. Here' = Here /\ n = path[Len(path)] /\ Len(path) \in DOMAIN path /\ Len(path) \in Nat
    BY <1>1, PathFacts DEF Here, n
  <1>18. Walking'
    <2>1. Steps(nodes', path)
      BY <1>1, <1>2, <1>10, <1>11, PathFacts, StepsKept DEF Walking
    <2>2. ASSUME NEW i \in DOMAIN path, i < Len(path)
          PROVE  ~nodes'[path[i]].solved
      <3>1. path[i] # n /\ path[i] \in DOMAIN nodes
        BY <1>1, <1>17, <2>2, PathFacts DEF Walking, Rising
      <3> QED
        BY <1>1, <1>12, <2>2, <3>1 DEF Walking
    <2>3. nodes'[Here].kind = "or"
      BY <1>2, <1>8, <1>10 DEF n
    <2> QED
      BY <1>1, <1>17, <2>1, <2>2, <2>3 DEF Walking
  <1>19. FlagsComplete'
    <2> SUFFICES ASSUME NEW m \in DOMAIN nodes, Supported(nodes', m), ~nodes'[m].solved
                 PROVE  \E i \in DOMAIN path : path[i] = m /\ i >= Len(path) - 1
      BY <1>10 DEF FlagsComplete, Due
    <2>1. CASE Supported(nodes, m)
      BY <1>1, <1>12, <2>1 DEF FlagsComplete, Due
    <2>2. CASE \E j \in DOMAIN nodes[m].kids :
                   nodes'[KidAt(nodes, m, j)].solved # nodes[KidAt(nodes, m, j)].solved
      <3>1. PICK j \in DOMAIN nodes[m].kids : KidAt(nodes, m, j) = Here
        BY <1>13, <1>14, <2>2 DEF n
      <3>2. Len(path) > 1 /\ Len(path) - 1 \in DOMAIN path /\ m = Parent
        BY <1>1, <3>1, Above DEF Walking
      <3>3. Len(path) - 1 >= Len(path) - 1
        BY <1>17
      <3> QED
        BY <3>2, <3>3 DEF Parent
    <2> QED
      BY <1>1, <1>2, <1>10, <1>11, <2>1, <2>2, SupportLocal
  <1>20. SearchesOpenWork'
    BY DEF SearchesOpenWork
  <1>21. \A m \in DOMAIN nodes :
            /\ nodes'[m].sel = nodes[m].sel /\ nodes'[m].used = nodes[m].used
            /\ nodes'[m].visits = nodes[m].visits
    BY <1>8, <1>10
  <1>22. RefreshedAbove(nodes')
    BY <1>1, <1>10, <1>12, <1>14, <1>21 DEF Values, RefreshedAbove
  <1>23. Valued(nodes', version')
    BY <1>1, <1>10, <1>12, <1>21 DEF Values, Searching, Valued
  <1>24. VisitedAbove'
    <2> SUFFICES ASSUME NEW m \in DOMAIN nodes, NEW j \in DOMAIN nodes[m].kids,
                        nodes'[KidAt(nodes', m, j)].visits > 0
                 PROVE  \/ nodes'[m].visits > 0
                        \/ \E i \in DOMAIN path : i < Len(path) /\ path[i] = m
      BY <1>10, <1>14 DEF VisitedAbove
    <2> QED
      BY <1>1, <1>14, <1>21 DEF Values, Searching, VisitedAbove
  <1>25. Values'
    BY <1>1, <1>2, <1>17, <1>21, <1>22, <1>23, <1>24 DEF Values, n
  <1> QED
    BY <1>14, <1>15, <1>16, <1>18, <1>19, <1>20, <1>25 DEF IInv

\* A tactic that ran.
LEMMA TryStep ==
    ASSUME IInv, NEW t \in Tactics, Try(t)
    PROVE  IInv'
  <1> DEFINE goals == After(nodes[Here].goals, t)
  <1>1. TypeOK /\ Shape(nodes) /\ Sound(nodes) /\ Walking /\ FlagsComplete
        /\ SearchesOpenWork /\ Values
    BY DEF IInv
  <1>2. phase = "expand" /\ Runs(t) /\ tried < Width /\ tried' = tried + 1
        /\ UNCHANGED <<path, phase, carried, step, version, fresh, cursor>>
    BY DEF Try, refresh
  <1>3. tried' \in 0..Width
    BY <1>1, <1>2, SearchAssumption DEF TypeOK
  <1>4. CASE goals \in Ancestors
    <2>1. nodes' = nodes
      BY <1>4 DEF Try
    <2>2. TypeOK'
      BY <1>1, <1>2, <1>3, <2>1 DEF TypeOK, AppendOnly, KidsOf, Kid
    <2>3. Walking' /\ FlagsComplete' /\ SearchesOpenWork'
      BY <1>1, <1>2, <2>1 DEF Walking, FlagsComplete, Due, SearchesOpenWork, Here
    <2>4. VisitedAbove'
      BY <1>1, <1>2, <2>1 DEF Values, Searching, VisitedAbove
    <2>5. Values'
      BY <1>1, <1>2, <2>1, <2>4 DEF Values, Searching, Here
    <2> QED
      BY <1>1, <2>1, <2>2, <2>3, <2>5 DEF IInv
  <1>5. CASE goals \notin Ancestors /\ Twin(Here, t, goals) = {}
    <2>1. nodes' = Pushed(Here, t, goals)
      BY <1>5 DEF Try
    <2> QED
      BY <1>2, <1>3, <2>1, GrowStep
  <1>6. CASE goals \notin Ancestors /\ Twin(Here, t, goals) # {}
    <2> DEFINE k == CHOOSE k \in Twin(Here, t, goals) : TRUE
    <2>1. nodes' = Merged(Here, k, goals) /\ k \in Twin(Here, t, goals)
      BY <1>6 DEF Try
    <2> HIDE DEF k
    <2> QED
      BY <1>2, <1>3, <2>1, MergeStep
  <1> QED
    BY <1>4, <1>5, <1>6

-----------------------------------------------------------------------------
(* The results.                                                            *)

\* Every step keeps the invariant.
LEMMA NextKeeps ==
    ASSUME IInv, [Next]_vars
    PROVE  IInv'
  <1>1. CASE UNCHANGED vars
    <2>1. UNCHANGED <<nodes, path, phase, tried, carried, step, version, fresh, cursor>>
      BY <1>1 DEF vars
    <2>2. TypeOK' /\ Walking' /\ FlagsComplete' /\ SearchesOpenWork'
      BY <2>1 DEF IInv, TypeOK, AppendOnly, KidsOf, Kid, Walking, FlagsComplete, Due,
                  SearchesOpenWork, Here, OpenKids
    <2>3. Values'
      BY <2>1 DEF IInv, Values, Searching, VisitedAbove, Here, Refreshed
    <2> QED
      BY <2>1, <2>2, <2>3 DEF IInv
  <1>2. CASE Next
    BY <1>2, SelectStep, VisitStep, TryStep, EndVisitStep, BackupStep, ContinueStep,
       StartRefreshStep, RefreshNodeStep, AdoptStep, EndStep DEF Next
  <1> QED
    BY <1>1, <1>2

\* The invariant holds throughout.
LEMMA Invariant == Spec => []IInv
  BY Initially, NextKeeps, PTL DEF Spec

\* Type correctness.
THEOREM TypeCorrect == Spec => []TypeOK
  <1>1. IInv => TypeOK
    BY DEF IInv
  <1> QED
    BY Invariant, <1>1, PTL

\* The search only walks through open nodes, and at a state that was split it always
\* finds a goal to go on with (reapMCTSStep, computePUCTScores).
THEOREM OpenWork == Spec => []SearchesOpenWork
  <1>1. IInv => SearchesOpenWork
    BY DEF IInv
  <1> QED
    BY Invariant, <1>1, PTL

\* After an update the new model alone leads the search, and the tree can be
\* refreshed (refreshSelectionValues).
THEOREM CurrentSelection == Spec => []SelectionIsCurrent
  <1>1. ASSUME IInv
        PROVE  SelectionIsCurrent
    <2> SUFFICES ASSUME phase \in {"select", "expand", "backup"}, NEW n \in Refreshed
                 PROVE  SelectionModels(n) \subseteq {version} /\ ~RefreshRefuses(n)
      BY <1>1 DEF SelectionIsCurrent, IInv, TypeOK
    <2>1. n \in DOMAIN nodes /\ ~nodes[n].solved
      BY DEF Refreshed
    <2>2. /\ nodes[n].sel = {} => nodes[n].used \subseteq {version}
          /\ UNION nodes[n].sel \subseteq {version}
      BY <1>1, <2>1 DEF IInv, Values, Searching, Valued
    <2>3. nodes[n].goals # <<>>
      BY <1>1, <2>1 DEF IInv, Sound
    <2> QED
      BY <2>1, <2>2, <2>3 DEF SelectionModels, RefreshRefuses
  <1> QED
    BY Invariant, <1>1, PTL

\* At a checkpoint a node is marked solved exactly if it has no goal left, a child
\* that is solved, or goals that were split and are all solved.
FlagsAgree ==
    AtBarrier => \A n \in DOMAIN nodes : nodes[n].solved <=> Supported(nodes, n)

\* The flags of a checkpoint agree with each other (nodeSolved, refreshNodeSolved,
\* updateNode, updateDuplicateChild).
THEOREM AgreedFlags == Spec => []FlagsAgree
  <1>1. ASSUME IInv, AtBarrier
        PROVE  \A n \in DOMAIN nodes : nodes[n].solved <=> Supported(nodes, n)
    <2>1. phase = "backup" /\ \A i \in DOMAIN path : ~Due(i)
      BY <1>1, Barrier DEF AtBarrier
    <2> QED
      BY <1>1, <2>1 DEF IInv, Sound, FlagsComplete
  <1>2. IInv => FlagsAgree
    BY <1>1 DEF FlagsAgree
  <1> QED
    BY Invariant, <1>2, PTL

-----------------------------------------------------------------------------
(* What the books of a checkpoint need.                                    *)

\* Focus is handed down where the goals are not split.
Focus(tree) ==
    /\ ~tree[1].focused
    /\ \A n \in DOMAIN tree : tree[n].kind = "or" =>
          \A k \in DOMAIN tree[n].kids : tree[KidAt(tree, n, k)].focused = tree[n].focused

OneEdge(tree) ==
    \A n \in DOMAIN tree : \A k, j \in DOMAIN tree[n].kids :
        KidAt(tree, n, k) = KidAt(tree, n, j) => k = j

\* S is closed towards the root, and no tactic inside is one the kernel rejects.
Sealed(tree, S) ==
    \A n \in DOMAIN tree : \A k \in DOMAIN tree[n].kids :
        KidAt(tree, n, k) \in S => n \in S /\ tree[n].kids[k].tactic \notin Unsound

\* The kernel has seen a proof that is not one of a focused goal.
Certified(tree) ==
    \A n \in DOMAIN tree : tree[n].goals = <<>> /\ ~tree[n].focused =>
        \E S \in SUBSET DOMAIN tree : n \in S /\ Sealed(tree, S)

\* v is the sum of the visits of the edges: w has the partial sums.
Sums(kids, w) ==
    /\ w[0] = 0
    /\ \A k \in 1..Len(kids) : w[k] = w[k - 1] + kids[k].visits

Tally(kids, v) == \E w \in [0..Len(kids) -> Nat] : Sums(kids, w) /\ w[Len(kids)] = v

Counted(tree) ==
    \A n \in DOMAIN tree : \E v \in Nat : Tally(tree[n].kids, v) /\ tree[n].visits = tree[n].evals + v

\* The visit that the edge to node c has still to be told of.
Owed(c) == IF phase \in {"expand", "backup"} /\ c = Here THEN 1 ELSE 0

EdgesTally ==
    \A n \in DOMAIN nodes : \A k \in DOMAIN nodes[n].kids :
        nodes[KidAt(nodes, n, k)].visits = nodes[n].kids[k].visits + Owed(KidAt(nodes, n, k))

RootVisited == phase = "refresh" \/ (phase \in {"expand", "backup"} /\ Len(path) = 1)

RootTally == nodes[1].visits = step + IF RootVisited THEN 1 ELSE 0

Books ==
    /\ Focus(nodes) /\ OneEdge(nodes) /\ Certified(nodes) /\ Counted(nodes)
    /\ Searching => EdgesTally /\ RootTally

-----------------------------------------------------------------------------
(* Sums.                                                                   *)

\* Edges nobody has taken.
LEMMA TallyNone ==
    ASSUME NEW kids \in Seq(EdgeType), \A k \in 1..Len(kids) : kids[k].visits = 0
    PROVE  Tally(kids, 0)
  <1> DEFINE w == [k \in 0..Len(kids) |-> 0]
  <1>1. Len(kids) \in Nat
    OBVIOUS
  <1>2. w \in [0..Len(kids) -> Nat] /\ w[Len(kids)] = 0
    BY <1>1
  <1>3. Sums(kids, w)
    <2>1. \A k \in 1..Len(kids) : w[k] = 0 /\ w[k - 1] = 0
      BY <1>1
    <2>2. w[0] = 0
      BY <1>1
    <2> HIDE DEF w
    <2> QED
      BY <2>1, <2>2 DEF Sums
  <1> HIDE DEF w
  <1> QED
    BY <1>2, <1>3 DEF Tally

\* A new edge.
LEMMA TallyAppended ==
    ASSUME NEW kids \in Seq(EdgeType), NEW e \in EdgeType, e.visits = 0, NEW v, Tally(kids, v)
    PROVE  Tally(Append(kids, e), v)
  <1> DEFINE L == Len(kids)
  <1>1. PICK w \in [0..L -> Nat] : Sums(kids, w) /\ w[L] = v
    BY DEF Tally
  <1> DEFINE x == [k \in 0..L + 1 |-> IF k = L + 1 THEN w[L] ELSE w[k]]
             more == Append(kids, e)
  <1>2. L \in Nat /\ Len(more) = L + 1 /\ more[L + 1] = e /\ \A k \in 1..L : more[k] = kids[k]
    OBVIOUS
  <1>3. x \in [0..L + 1 -> Nat] /\ x[L + 1] = v /\ x[L] = v /\ x[0] = w[0]
        /\ \A k \in 1..L : x[k] = w[k] /\ x[k - 1] = w[k - 1]
    <2>1. \A k \in 0..L : k \in 0..L + 1 /\ k # L + 1
      BY <1>2
    <2>2. \A k \in 0..L : x[k] = w[k]
      BY <2>1
    <2>3. x[L + 1] = w[L] /\ w[L] \in Nat
      BY <1>2
    <2>4. x \in [0..L + 1 -> Nat]
      BY <1>2, <2>3
    <2>5. \A k \in 1..L : k \in 0..L /\ k - 1 \in 0..L
      BY <1>2
    <2>6. 0 \in 0..L /\ L \in 0..L
      BY <1>2
    <2> HIDE DEF x
    <2> QED
      BY <1>1, <2>2, <2>3, <2>4, <2>5, <2>6
  <1>4. Sums(more, x)
    <2>1. w[0] = 0 /\ \A k \in 1..L : w[k] = w[k - 1] + kids[k].visits
      BY <1>1 DEF Sums
    <2> SUFFICES ASSUME NEW k \in 1..L + 1
                 PROVE  x[k] = x[k - 1] + more[k].visits
      BY <1>2, <1>3, <2>1 DEF Sums
    <2>2. v \in Nat
      BY <1>1, <1>2
    <2> HIDE DEF x, more
    <2>3. CASE k = L + 1
      <3>1. k - 1 = L
        BY <1>2, <2>3
      <3> QED
        BY <1>2, <1>3, <2>2, <2>3, <3>1
    <2>4. CASE k \in 1..L
      BY <1>2, <1>3, <2>1, <2>4
    <2> QED
      BY <1>2, <2>3, <2>4
  <1> HIDE DEF x, more
  <1>5. Tally(more, v)
    BY <1>2, <1>3, <1>4 DEF Tally
  <1> QED
    BY <1>5 DEF more

\* updateEdge counts one visit more.
LEMMA TallyTraversed ==
    ASSUME NEW kids \in Seq(EdgeType), NEW j \in DOMAIN kids, NEW c, kids[j].node = c,
           \A k \in DOMAIN kids : kids[k].node = c => k = j,
           NEW v \in Nat, Tally(kids, v)
    PROVE  Tally(Traversed(kids, c), v + 1)
  <1> DEFINE L == Len(kids)
             more == Traversed(kids, c)
             plus(k) == IF k >= j THEN 1 ELSE 0
  <1>1. PICK w \in [0..L -> Nat] : Sums(kids, w) /\ w[L] = v
    BY DEF Tally
  <1>2. L \in Nat /\ DOMAIN kids = 1..L /\ j \in 1..L
    OBVIOUS
  <1>3. Len(more) = L
    BY TraversedFacts
  <1>4. ASSUME NEW k \in 1..L
        PROVE  /\ more[k].visits = kids[k].visits + IF k = j THEN 1 ELSE 0
               /\ kids[k].visits \in Nat
    <2>1. kids[k] \in EdgeType
      BY <1>2
    <2>2. more[k] = IF kids[k].node = c THEN [kids[k] EXCEPT !.visits = @ + 1] ELSE kids[k]
      BY <1>2 DEF Traversed
    <2>3. kids[k].node = c <=> k = j
      BY <1>2
    <2> DEFINE e == kids[k]
    <2>4. e \in EdgeType
      BY <2>1
    <2> HIDE DEF e
    <2>5. e.visits \in Nat /\ [e EXCEPT !.visits = @ + 1].visits = e.visits + 1
      BY <2>4 DEF EdgeType
    <2> HIDE DEF more
    <2> QED
      BY <2>2, <2>3, <2>5 DEF e
  <1> DEFINE x == [k \in 0..L |-> w[k] + plus(k)]
  <1>5. x \in [0..L -> Nat] /\ \A k \in 0..L : x[k] = w[k] + plus(k)
    BY <1>2
  <1>6. x[L] = v + 1
    BY <1>1, <1>2, <1>5
  <1>7. Sums(more, x)
    <2>1. w[0] = 0 /\ \A k \in 1..L : w[k] = w[k - 1] + kids[k].visits
      BY <1>1 DEF Sums
    <2>2. x[0] = 0
      BY <1>2, <1>5, <2>1
    <2> HIDE DEF x, more
    <2>3. ASSUME NEW k \in 1..L
          PROVE  x[k] = x[k - 1] + more[k].visits
      <3>1. k \in 0..L /\ k - 1 \in 0..L /\ k - 1 \in Nat /\ k \in Nat
        BY <1>2
      <3>2. w[k] = w[k - 1] + kids[k].visits /\ w[k - 1] \in Nat /\ kids[k].visits \in Nat
        BY <1>4, <2>1, <3>1
      <3>3. x[k] = w[k] + plus(k) /\ x[k - 1] = w[k - 1] + plus(k - 1)
        BY <1>5, <3>1
      <3>4. plus(k) = plus(k - 1) + IF k = j THEN 1 ELSE 0
        BY <1>2, <3>1
      <3>5. plus(k - 1) \in Nat
        OBVIOUS
      <3>6. more[k].visits = kids[k].visits + IF k = j THEN 1 ELSE 0
        BY <1>4
      <3> HIDE DEF plus
      <3> QED
        BY <3>2, <3>3, <3>4, <3>5, <3>6
    <2> QED
      BY <1>3, <2>2, <2>3 DEF Sums
  <1> HIDE DEF x, more
  <1>8. Tally(more, v + 1)
    BY <1>3, <1>5, <1>6, <1>7 DEF Tally
  <1> QED
    BY <1>8 DEF more

\* A set of numbers has a least one.
LEMMA LeastExists ==
    ASSUME NEW S \in SUBSET Nat, S # {}
    PROVE  \E r \in S : \A s \in S : r <= s
  <1>1. PICK r \in S : \A s \in S : ~(<<s, r>> \in OpToRel(<, Nat))
    BY WFMin, NatLessThanWellFounded
  <1>2. ASSUME NEW s \in S
        PROVE  r <= s
    <2>1. s \in Nat /\ r \in Nat
      OBVIOUS
    <2>2. <<s, r>> \in Nat \X Nat /\ ~(s < r)
      BY <1>1, <2>1 DEF OpToRel
    <2> QED
      BY <2>1, <2>2
  <1> QED
    BY <1>2

\* A bounded set of numbers has a greatest one.
LEMMA GreatestExists ==
    ASSUME NEW L \in Nat, NEW S \in SUBSET (1..L), S # {}
    PROVE  \E r \in S : \A s \in S : s <= r
  <1> DEFINE T == {L - s : s \in S}
  <1>1. T \in SUBSET Nat /\ T # {}
    <2>1. \A s \in S : L - s \in Nat
      OBVIOUS
    <2> QED
      BY <2>1
  <1>2. PICK t \in T : \A u \in T : t <= u
    BY <1>1, LeastExists
  <1>3. PICK r \in S : t = L - r
    OBVIOUS
  <1>4. \A s \in S : L - r <= L - s
    BY <1>2, <1>3
  <1> QED
    BY <1>4

\* The sum the specification takes is the one the partial sums lead to.
LEMMA TallyIs ==
    ASSUME nodes \in Seq(NodeType), NEW n \in DOMAIN nodes, NEW v, Tally(nodes[n].kids, v)
    PROVE  EdgeVisits(n) = v
  <1> DEFINE kids == nodes[n].kids
             L == Len(kids)
             body(f, k) == IF k = 0 THEN 0 ELSE f[k - 1] + kids[k].visits
             sum == CHOOSE f : f = [k \in 0..L |-> body(f, k)]
  <1>1. L \in Nat /\ \A k \in 1..L : kids[k].visits \in Nat
    <2>1. \A k \in 1..L : kids[k] \in EdgeType
      BY NodeFacts
    <2>2. L \in Nat
      BY NodeFacts
    <2> QED
      BY <2>1, <2>2 DEF EdgeType
  <1>2. PICK w \in [0..L -> Nat] : Sums(kids, w) /\ w[L] = v
    BY DEF Tally
  <1>3. w = [k \in 0..L |-> body(w, k)]
    <2>1. \A k \in 0..L : w[k] = body(w, k)
      BY <1>1, <1>2 DEF Sums
    <2> QED
      BY <2>1
  <1>4. sum = [k \in 0..L |-> body(sum, k)]
    BY <1>3
  <1>5. EdgeVisits(n) = sum[L]
    BY DEF EdgeVisits
  <1> HIDE DEF sum
  <1>6. \A k \in 0..L : sum[k] = body(sum, k)
    BY <1>4
  <1> HIDE DEF kids, L
  <1>7. \A k \in 0..L : sum[k] = w[k]
    <2> DEFINE Bad == {k \in 0..L : sum[k] # w[k]}
    <2> SUFFICES ASSUME Bad # {}  PROVE FALSE
      OBVIOUS
    <2>1. Bad \in SUBSET Nat
      BY <1>1
    <2>2. PICK k \in Bad : \A j \in Bad : k <= j
      BY <2>1, LeastExists
    <2>3. k \in 0..L /\ sum[k] # w[k]
      OBVIOUS
    <2>4. k # 0
      BY <1>2, <1>6, <2>3 DEF Sums
    <2>5. k - 1 \in 0..L /\ k \in 1..L /\ ~(k <= k - 1)
      BY <1>1, <2>3, <2>4
    <2>6. sum[k - 1] = w[k - 1]
      BY <2>2, <2>5
    <2>7. w[k] = w[k - 1] + kids[k].visits
      BY <1>2, <2>5 DEF Sums, L
    <2>8. sum[k] = sum[k - 1] + kids[k].visits
      BY <1>6, <2>3, <2>4
    <2> QED
      BY <2>3, <2>6, <2>7, <2>8
  <1> QED
    BY <1>1, <1>2, <1>5, <1>7

-----------------------------------------------------------------------------
(* Steps and the books.                                                    *)

\* The nodes have what the books are kept of, but for the visits.
SameBooks(old, new) ==
    /\ Len(new) = Len(old)
    /\ \A n \in DOMAIN old :
          /\ new[n].goals = old[n].goals /\ new[n].kind = old[n].kind
          /\ new[n].focused = old[n].focused
          /\ Len(new[n].kids) = Len(old[n].kids)
          /\ \A k \in DOMAIN old[n].kids :
                /\ new[n].kids[k].node = old[n].kids[k].node
                /\ new[n].kids[k].tactic = old[n].kids[k].tactic

\* Such steps keep what is said of focus and of edges, and what the kernel has seen.
LEMMA SealsKept ==
    ASSUME NEW old \in Seq(NodeType), NEW new \in Seq(NodeType), old # <<>>,
           SameBooks(old, new), Shape(old), Focus(old), OneEdge(old), Certified(old)
    PROVE  Focus(new) /\ OneEdge(new) /\ Certified(new)
  <1>1. DOMAIN new = DOMAIN old /\ 1 \in DOMAIN old
    BY DEF SameBooks
  <1>2. SameShape(old, new)
    BY DEF SameBooks, SameShape
  <1>3. \A n \in DOMAIN old :
           /\ DOMAIN new[n].kids = DOMAIN old[n].kids
           /\ \A k \in DOMAIN old[n].kids :
                 /\ KidAt(new, n, k) = KidAt(old, n, k) /\ KidAt(old, n, k) \in DOMAIN old
                 /\ new[n].kids[k].tactic = old[n].kids[k].tactic
    <2>1. \A n \in DOMAIN old : \A k \in DOMAIN old[n].kids : KidAt(old, n, k) \in DOMAIN old
      BY NodeFacts DEF Shape, Forward
    <2> QED
      BY <1>2, <2>1, ShapeKept DEF SameBooks
  <1>4. Focus(new)
    BY <1>1, <1>3 DEF Focus, SameBooks
  <1>5. OneEdge(new)
    BY <1>1, <1>3 DEF OneEdge
  <1>6. ASSUME NEW S, Sealed(old, S)
        PROVE  Sealed(new, S)
    BY <1>1, <1>3, <1>6 DEF Sealed
  <1>7. Certified(new)
    <2> SUFFICES ASSUME NEW n \in DOMAIN new, new[n].goals = <<>>, ~new[n].focused
                 PROVE  \E S \in SUBSET DOMAIN new : n \in S /\ Sealed(new, S)
      BY DEF Certified
    <2>1. old[n].goals = <<>> /\ ~old[n].focused /\ n \in DOMAIN old
      BY <1>1 DEF SameBooks
    <2>2. PICK S \in SUBSET DOMAIN old : n \in S /\ Sealed(old, S)
      BY <2>1 DEF Certified
    <2> QED
      BY <1>1, <1>6, <2>2
  <1> QED
    BY <1>4, <1>5, <1>7

\* Nothing is counted.
SameCounts(old, new) ==
    /\ SameBooks(old, new)
    /\ \A n \in DOMAIN old :
          new[n].visits = old[n].visits /\ new[n].evals = old[n].evals /\ new[n].kids = old[n].kids

\* Steps that count nothing keep the sums.
LEMMA CountsKept ==
    ASSUME NEW old \in Seq(NodeType), NEW new \in Seq(NodeType),
           SameCounts(old, new), Counted(old)
    PROVE  Counted(new)
  <1>1. DOMAIN new = DOMAIN old
    BY DEF SameCounts, SameBooks
  <1> QED
    BY <1>1 DEF SameCounts, Counted

\* A child is a node, and never the root.
LEMMA ChildFacts ==
    ASSUME IInv
    PROVE  /\ nodes \in Seq(NodeType) /\ nodes # <<>> /\ 1 \in DOMAIN nodes
           /\ \A n \in DOMAIN nodes : \A k \in DOMAIN nodes[n].kids :
                 KidAt(nodes, n, k) \in DOMAIN nodes /\ KidAt(nodes, n, k) # 1
  <1>1. nodes \in Seq(NodeType) /\ nodes # <<>> /\ DOMAIN nodes = 1..Len(nodes) /\ 1 \in DOMAIN nodes
        /\ Len(nodes) \in Nat /\ Forward(nodes)
    BY PathFacts DEF IInv, TypeOK
  <1> QED
    BY <1>1 DEF Forward

\* Nothing is owed while a path is chosen or the values are refreshed, nor at the end
\* of an iteration.
LEMMA NothingOwed ==
    ASSUME IInv, phase \in {"select", "refresh"} \/ AtBarrier
    PROVE  \A n \in DOMAIN nodes : \A k \in DOMAIN nodes[n].kids : Owed(KidAt(nodes, n, k)) = 0
  <1>1. CASE phase \in {"select", "refresh"}
    BY <1>1 DEF Owed
  <1>2. CASE AtBarrier
    BY <1>2, Barrier, ChildFacts DEF Owed
  <1> QED
    BY <1>1, <1>2

\* The steps that leave the nodes alone.
LEMMA StillBooks ==
    ASSUME IInv, Books, UNCHANGED nodes,
           \/ phase = "select" /\ phase' = "select" /\ step' = step
           \/ AtBarrier /\ phase' \in {"select", "exhausted"} /\ step' = step + 1 
           \/ AtBarrier /\ phase' = "refresh" /\ step' = step
           \/ phase' \in {"solved", "proved", "rejected", "failed"}
           \/ UNCHANGED <<phase, path, step>>
    PROVE  Books'
  <1>1. Focus(nodes') /\ OneEdge(nodes') /\ Certified(nodes') /\ Counted(nodes')
    BY DEF Books
  <1> SUFFICES ASSUME Searching'
               PROVE  EdgesTally' /\ RootTally'
    BY <1>1 DEF Books
  <1>2. CASE UNCHANGED <<phase, path, step>>
    BY <1>2 DEF Books, Searching, EdgesTally, Owed, Here, RootTally, RootVisited
  <1>3. CASE \/ phase = "select" /\ phase' = "select" /\ step' = step
             \/ AtBarrier /\ phase' = "select" /\ step' = step + 1
             \/ AtBarrier /\ phase' = "refresh" /\ step' = step
    <2>1. Searching /\ EdgesTally /\ RootTally
      BY <1>3 DEF Books, Searching, AtBarrier
    <2>2. \A c : Owed(c)' = 0
      BY <1>3 DEF Owed
    <2>3. \A n \in DOMAIN nodes : \A k \in DOMAIN nodes[n].kids : Owed(KidAt(nodes, n, k)) = 0
      BY <1>3, NothingOwed
    <2>4. \A n \in DOMAIN nodes : \A k \in DOMAIN nodes[n].kids :
              nodes[KidAt(nodes, n, k)].visits = nodes[n].kids[k].visits + 0
      BY <2>1, <2>3 DEF EdgesTally
    <2>5. EdgesTally'
      BY <2>2, <2>4 DEF EdgesTally
    <2>6. step \in Nat
      BY DEF IInv, TypeOK
    <2>7. RootTally'
      BY <1>3, <2>1, <2>6 DEF RootTally, RootVisited, AtBarrier
    <2> QED
      BY <2>5, <2>7
  <1> QED
    BY <1>2, <1>3 DEF Searching

\* The steps that count nothing.
LEMMA FlagBooks ==
    ASSUME IInv, nodes' \in Seq(NodeType), Books, SameCounts(nodes, nodes'), path' = path,
           \/ phase = "expand" /\ phase' \in {"expand", "backup"} /\ step' = step
           \/ phase = "refresh" /\ phase' \in {"select", "exhausted"} /\ step' = step + 1
    PROVE  Books'
  <1>1. nodes \in Seq(NodeType) /\ nodes # <<>> /\ Shape(nodes) /\ 1 \in DOMAIN nodes
    BY ChildFacts DEF IInv
  <1>2. SameBooks(nodes, nodes') /\ DOMAIN nodes' = DOMAIN nodes
    BY <1>1 DEF SameCounts, SameBooks
  <1>3. Focus(nodes') /\ OneEdge(nodes') /\ Certified(nodes') /\ Counted(nodes')
    BY <1>1, <1>2, SealsKept, CountsKept DEF Books
  <1> SUFFICES ASSUME Searching'
               PROVE  EdgesTally' /\ RootTally'
    BY <1>3 DEF Books
  <1>4. Searching /\ EdgesTally /\ RootTally
    BY DEF Books, Searching
  <1>5. \A n \in DOMAIN nodes : nodes'[n].visits = nodes[n].visits /\ nodes'[n].kids = nodes[n].kids
    BY DEF SameCounts
  <1>6. \A n \in DOMAIN nodes : \A k \in DOMAIN nodes[n].kids :
            KidAt(nodes', n, k) = KidAt(nodes, n, k) /\ KidAt(nodes, n, k) \in DOMAIN nodes
    BY <1>5, ChildFacts DEF KidAt
  <1>7. \A c : Owed(c)' = Owed(c)
    <2>1. CASE phase = "expand" /\ phase' \in {"expand", "backup"}
      <3>1. Here' = Here
        BY DEF Here
      <3> QED
        BY <2>1, <3>1 DEF Owed
    <2>2. CASE phase = "refresh" /\ phase' = "select"
      BY <2>2 DEF Owed
    <2> QED
      BY <2>1, <2>2 DEF Searching
  <1>8. EdgesTally'
    <2> SUFFICES ASSUME NEW n \in DOMAIN nodes', NEW k \in DOMAIN nodes'[n].kids,
                        NEW c, c = KidAt(nodes', n, k)
                 PROVE  nodes'[c].visits = nodes'[n].kids[k].visits + Owed(c)'
      BY DEF EdgesTally, Owed
    <2>1. n \in DOMAIN nodes /\ k \in DOMAIN nodes[n].kids
      BY <1>2, <1>5
    <2>2. c = KidAt(nodes, n, k) /\ c \in DOMAIN nodes
      BY <1>6, <2>1
    <2>3. nodes[c].visits = nodes[n].kids[k].visits + Owed(c)
      BY <1>4, <2>1, <2>2 DEF EdgesTally
    <2>4. nodes'[c].visits = nodes[c].visits /\ nodes'[n].kids = nodes[n].kids
      BY <1>5, <2>1, <2>2
    <2> QED
      BY <1>7, <2>3, <2>4
  <1>9. RootTally'
    <2>1. nodes'[1].visits = nodes[1].visits
      BY <1>1, <1>5
    <2>2. step \in Nat
      BY DEF IInv, TypeOK
    <2> QED
      BY <1>4, <2>1, <2>2 DEF RootTally, RootVisited, Searching
  <1> QED
    BY <1>8, <1>9

\* A visit: one evaluation more, which the edge to the node is not told of yet.
LEMMA VisitBooks ==
    ASSUME IInv, IInv', Books, Visit
    PROVE  Books'
  <1> DEFINE h == Here
  <1>1. TypeOK /\ SearchesOpenWork /\ Shape(nodes) /\ nodes \in Seq(NodeType) /\ nodes # <<>>
        /\ 1 \in DOMAIN nodes /\ nodes' \in Seq(NodeType) /\ Walking
    BY ChildFacts DEF IInv, TypeOK
  <1>2. phase = "select" /\ h \in DOMAIN nodes /\ nodes[h].kind = "or"
    <2>1. phase = "select" /\ (nodes[h].kind = "and" => OpenKids(h) = {})
      BY DEF Visit
    <2>2. h \in DOMAIN nodes /\ nodes[h].kind \in {"or", "and"}
      BY <1>1, PathFacts, NodeFacts DEF NodeType
    <2>3. nodes[h].kind # "and"
      BY <1>1, <2>1 DEF SearchesOpenWork
    <2> QED
      BY <2>1, <2>2, <2>3
  <1> DEFINE from == IF nodes[h].goals = <<>> THEN {} ELSE {version}
             r == [nodes[h] EXCEPT !.used = @ \cup from, !.visits = @ + 1, !.evals = @ + 1]
  <1>3. phase' = "expand" /\ nodes' = [nodes EXCEPT ![h] = r] /\ path' = path /\ step' = step
    BY <1>2, PathFacts DEF Visit
  <1>4. /\ r.goals = nodes[h].goals /\ r.kind = nodes[h].kind /\ r.focused = nodes[h].focused
        /\ r.kids = nodes[h].kids /\ r.visits = nodes[h].visits + 1 /\ r.evals = nodes[h].evals + 1
        /\ nodes[h].visits \in Nat /\ nodes[h].evals \in Nat
    <2>1. nodes[h] \in NodeType
      BY <1>1, <1>2
    <2> HIDE DEF h, from
    <2> QED
      BY <2>1 DEF NodeType
  <1> HIDE DEF r
  <1>5. DOMAIN nodes' = DOMAIN nodes /\ Len(nodes') = Len(nodes)
        /\ \A m \in DOMAIN nodes : nodes'[m] = IF m = h THEN r ELSE nodes[m]
    BY <1>1, <1>2, <1>3
  <1>6. SameBooks(nodes, nodes') /\ \A m \in DOMAIN nodes : nodes'[m].kids = nodes[m].kids
    BY <1>4, <1>5 DEF SameBooks
  <1>7. Focus(nodes') /\ OneEdge(nodes') /\ Certified(nodes')
    BY <1>1, <1>6, SealsKept DEF Books
  <1> HIDE DEF h
  <1>8. Counted(nodes')
    <2> SUFFICES ASSUME NEW n \in DOMAIN nodes
                 PROVE  \E v \in Nat : Tally(nodes'[n].kids, v) /\ nodes'[n].visits = nodes'[n].evals + v
      BY <1>5 DEF Counted
    <2>1. PICK v \in Nat : Tally(nodes[n].kids, v) /\ nodes[n].visits = nodes[n].evals + v
      BY DEF Books, Counted
    <2>2. nodes'[n].visits = nodes'[n].evals + v
      <3>1. CASE n = h
        <4>1. nodes'[n].visits = nodes[n].visits + 1 /\ nodes'[n].evals = nodes[n].evals + 1
              /\ nodes[n].evals \in Nat
          BY <1>4, <1>5, <3>1
        <4> QED
          BY <2>1, <4>1
      <3>2. CASE n # h
        <4>1. nodes'[n] = nodes[n]
          BY <1>5, <3>2
        <4> QED
          BY <2>1, <4>1
      <3> QED
        BY <3>1, <3>2
    <2> QED
      BY <1>6, <2>1, <2>2
  <1>9. EdgesTally /\ RootTally
    BY <1>2 DEF Books, Searching
  <1>10. EdgesTally'
    <2> SUFFICES ASSUME NEW n \in DOMAIN nodes, NEW k \in DOMAIN nodes[n].kids,
                        NEW c, c = KidAt(nodes', n, k)
                 PROVE  nodes'[c].visits = nodes'[n].kids[k].visits + Owed(c)'
      BY <1>5, <1>6 DEF EdgesTally, Owed
    <2>1. KidAt(nodes, n, k) = c /\ c \in DOMAIN nodes /\ nodes'[n].kids[k] = nodes[n].kids[k]
      BY <1>6, ChildFacts DEF KidAt
    <2>2. nodes[c].visits = nodes[n].kids[k].visits + Owed(c) /\ Owed(c) = 0
      BY <1>2, <1>9, <2>1 DEF EdgesTally, Owed
    <2>3. Owed(c)' = IF c = h THEN 1 ELSE 0
      <3>1. Here' = h
        BY <1>3 DEF Here, h
      <3> QED
        BY <1>3, <3>1 DEF Owed
    <2>4. nodes[n].kids[k].visits \in Nat
      BY <1>1, NodeFacts DEF EdgeType
    <2>5. nodes'[c].visits = IF c = h THEN nodes[c].visits + 1 ELSE nodes[c].visits
      BY <1>4, <1>5, <2>1
    <2> QED
      BY <2>1, <2>2, <2>3, <2>4, <2>5
  <1>11. RootTally'
    <2>1. h = 1 <=> Len(path) = 1
      <3>1. 1 \in DOMAIN path /\ Len(path) \in DOMAIN path /\ path[1] = 1 /\ h = path[Len(path)]
            /\ Len(path) \in Nat /\ Len(path) >= 1
        BY <1>1, PathFacts DEF h
      <3>2. Len(path) > 1 => 1 < h
        BY <1>1, <3>1 DEF Walking, Rising
      <3> QED
        BY <3>1, <3>2
    <2>2. nodes[1].visits = step /\ step \in Nat
      BY <1>1, <1>2, <1>9 DEF RootTally, RootVisited, TypeOK
    <2>3. nodes'[1].visits = IF h = 1 THEN step + 1 ELSE step
      BY <1>1, <1>4, <1>5, <2>2
    <2> QED
      BY <1>3, <2>1, <2>2, <2>3 DEF RootTally, RootVisited
  <1> QED
    BY <1>7, <1>8, <1>10, <1>11 DEF Books

\* The visits of the edges behind updateEdge.
LEMMA TraversedVisits ==
    ASSUME NEW kids \in Seq(EdgeType), NEW c, NEW k \in DOMAIN kids
    PROVE  Traversed(kids, c)[k].visits = kids[k].visits + IF kids[k].node = c THEN 1 ELSE 0
  <1>1. kids[k] \in EdgeType
    OBVIOUS
  <1>2. Traversed(kids, c)[k] = IF kids[k].node = c THEN [kids[k] EXCEPT !.visits = @ + 1] ELSE kids[k]
    BY DEF Traversed
  <1> DEFINE e == kids[k]
  <1>3. e \in EdgeType
    BY <1>1
  <1> HIDE DEF e
  <1>4. e.visits \in Nat /\ [e EXCEPT !.visits = @ + 1].visits = e.visits + 1
    BY <1>3 DEF EdgeType
  <1> QED
    BY <1>2, <1>4 DEF e

\* One level of backup: the edge is told of the visit, and the one above owes it.
LEMMA BackupBooks ==
    ASSUME IInv, IInv', Books, Backup
    PROVE  Books'
  <1> DEFINE p == Parent
             c == Here
             L == Len(path)
             kids == Traversed(nodes[p].kids, c)
             r == [nodes[p] EXCEPT !.kids = kids, !.visits = @ + 1, !.used = @ \cup carried,
                                   !.solved = NodeSolved(nodes, p)]
  <1>1. TypeOK /\ Shape(nodes) /\ nodes \in Seq(NodeType) /\ nodes # <<>>
        /\ 1 \in DOMAIN nodes /\ nodes' \in Seq(NodeType) /\ Walking
    BY ChildFacts DEF IInv, TypeOK
  <1>2. phase = "backup" /\ phase' = "backup" /\ L > 1 /\ step' = step
        /\ path' = SubSeq(path, 1, L - 1) /\ nodes' = [nodes EXCEPT ![p] = r]
    BY DEF Backup, BackedUp
  <1>3. L \in Nat /\ DOMAIN path = 1..L /\ L \in DOMAIN path /\ L - 1 \in DOMAIN path
        /\ p = path[L - 1] /\ c = path[L] /\ p \in DOMAIN nodes /\ c \in DOMAIN nodes
    BY <1>1, <1>2, PathFacts DEF Parent
  <1>4. PICK kc \in DOMAIN nodes[p].kids : KidAt(nodes, p, kc) = c
    BY <1>1, <1>2, <1>3 DEF Walking, Steps
  <1>5. Len(path') = L - 1 /\ Here' = p
    <2>1. path' \in Seq(Nat) /\ path' # <<>>
      BY <1>1, <1>2, PathFacts, SubSeqProperties
    <2>2. Len(path') = L - 1 /\ path'[L - 1] = path[L - 1]
      BY <1>1, <1>2, <1>3, PathFacts, SubSeqProperties
    <2> QED
      BY <1>3, <2>2 DEF Here
  <1>6. /\ kids \in Seq(EdgeType) /\ Len(kids) = Len(nodes[p].kids)
        /\ DOMAIN kids = DOMAIN nodes[p].kids
        /\ \A k \in DOMAIN nodes[p].kids :
              /\ kids[k].node = nodes[p].kids[k].node /\ kids[k].tactic = nodes[p].kids[k].tactic
              /\ kids[k].visits = nodes[p].kids[k].visits + IF KidAt(nodes, p, k) = c THEN 1 ELSE 0
    <2>1. nodes[p].kids \in Seq(EdgeType)
      BY <1>1, <1>3, NodeFacts
    <2>2. \A k \in DOMAIN nodes[p].kids :
             kids[k].visits = nodes[p].kids[k].visits + IF nodes[p].kids[k].node = c THEN 1 ELSE 0
      BY <2>1, TraversedVisits
    <2> HIDE DEF p, c
    <2> QED
      BY <2>1, <2>2, TraversedFacts DEF KidAt
  <1>7. \A v \in Nat : Tally(nodes[p].kids, v) => Tally(kids, v + 1)
    <2>1. nodes[p].kids \in Seq(EdgeType) /\ nodes[p].kids[kc].node = c
      BY <1>1, <1>3, <1>4, NodeFacts DEF KidAt
    <2>2. \A k \in DOMAIN nodes[p].kids : nodes[p].kids[k].node = c => k = kc
      BY <1>3, <1>4 DEF Books, OneEdge, KidAt
    <2> HIDE DEF p, c
    <2> QED
      BY <2>1, <2>2, TallyTraversed
  <1> HIDE DEF kids
  <1>8. /\ r.goals = nodes[p].goals /\ r.kind = nodes[p].kind /\ r.focused = nodes[p].focused
        /\ r.kids = kids /\ r.visits = nodes[p].visits + 1 /\ r.evals = nodes[p].evals
        /\ nodes[p].visits \in Nat /\ nodes[p].evals \in Nat
    <2>1. nodes[p] \in NodeType
      BY <1>1, <1>3
    <2> HIDE DEF p
    <2> QED
      BY <2>1 DEF NodeType
  <1> HIDE DEF r, p, c, L
  <1>9. DOMAIN nodes' = DOMAIN nodes /\ Len(nodes') = Len(nodes)
        /\ \A m \in DOMAIN nodes : nodes'[m] = IF m = p THEN r ELSE nodes[m]
    BY <1>1, <1>2, <1>3
  <1>10. SameBooks(nodes, nodes')
    BY <1>6, <1>8, <1>9 DEF SameBooks
  <1>11. Focus(nodes') /\ OneEdge(nodes') /\ Certified(nodes')
    BY <1>1, <1>10, SealsKept DEF Books
  <1>12. Counted(nodes')
    <2> SUFFICES ASSUME NEW n \in DOMAIN nodes
                 PROVE  \E v \in Nat : Tally(nodes'[n].kids, v) /\ nodes'[n].visits = nodes'[n].evals + v
      BY <1>9 DEF Counted
    <2>1. PICK v \in Nat : Tally(nodes[n].kids, v) /\ nodes[n].visits = nodes[n].evals + v
      BY DEF Books, Counted
    <2>2. CASE n = p
      <3>1. Tally(r.kids, v + 1) /\ r.visits = r.evals + (v + 1) /\ v + 1 \in Nat
        BY <1>7, <1>8, <2>1, <2>2
      <3> QED
        BY <1>9, <2>2, <3>1
    <2>3. CASE n # p
      BY <1>9, <2>1, <2>3
    <2> QED
      BY <2>2, <2>3
  <1>13. EdgesTally /\ RootTally
    BY <1>2 DEF Books, Searching
  <1>14. c # p /\ (p = 1 <=> L - 1 = 1)
    <2>1. p < c /\ p \in Nat /\ c \in Nat
      BY <1>1, <1>2, <1>3, PathFacts DEF Walking, Rising
    <2>2. 1 \in DOMAIN path /\ path[1] = 1
      BY <1>1, PathFacts
    <2>3. L - 1 > 1 => 1 < p
      BY <1>1, <1>3, <2>2 DEF Walking, Rising
    <2> QED
      BY <1>2, <1>3, <2>1, <2>2, <2>3
  <1>15. EdgesTally'
    <2> SUFFICES ASSUME NEW n \in DOMAIN nodes, NEW k \in DOMAIN nodes[n].kids,
                        NEW d, d = KidAt(nodes', n, k)
                 PROVE  nodes'[d].visits = nodes'[n].kids[k].visits + Owed(d)'
      BY <1>6, <1>8, <1>9 DEF EdgesTally, Owed
    <2>1. KidAt(nodes, n, k) = d /\ d \in DOMAIN nodes
      BY <1>6, <1>8, <1>9, ChildFacts DEF KidAt
    <2>2. nodes[d].visits = nodes[n].kids[k].visits + Owed(d)
      BY <1>13, <2>1 DEF EdgesTally
    <2>3. Owed(d) = (IF d = c THEN 1 ELSE 0) /\ Owed(d)' = (IF d = p THEN 1 ELSE 0)
      BY <1>2, <1>5 DEF Owed, c
    <2>4. nodes[n].kids[k].visits \in Nat
      BY <1>1, NodeFacts DEF EdgeType
    <2>5. nodes'[d].visits = IF d = p THEN nodes[d].visits + 1 ELSE nodes[d].visits
      BY <1>8, <1>9, <2>1
    <2>6. d = c => n = p
      <3> SUFFICES ASSUME d = c  PROVE n = p
        OBVIOUS
      <3> QED
        BY <1>1, <1>3, <1>4, <2>1 DEF Shape, OneParent
    <2>7. nodes'[n].kids[k].visits = nodes[n].kids[k].visits + IF d = c THEN 1 ELSE 0
      <3>1. CASE n = p
        BY <1>6, <1>8, <1>9, <2>1, <3>1
      <3>2. CASE n # p
        BY <1>9, <2>4, <2>6, <3>2
      <3> QED
        BY <3>1, <3>2
    <2> QED
      BY <1>14, <2>2, <2>3, <2>4, <2>5, <2>7
  <1>16. RootTally'
    <2>1. nodes[1].visits = step /\ step \in Nat
      BY <1>1, <1>2, <1>13 DEF RootTally, RootVisited, TypeOK, L
    <2>2. nodes'[1].visits = IF p = 1 THEN step + 1 ELSE step
      BY <1>1, <1>8, <1>9, <2>1
    <2>3. RootVisited' <=> p = 1
      BY <1>2, <1>5, <1>14 DEF RootVisited
    <2> QED
      BY <1>2, <2>1, <2>2, <2>3 DEF RootTally
  <1> QED
    BY <1>11, <1>12, <1>15, <1>16 DEF Books

\* Growth adds one edge at n, and it is told of no visit.
LEMMA GrownKids ==
    ASSUME NEW old \in Seq(NodeType), NEW new, NEW n \in DOMAIN old, NEW t \in Tactics, NEW goals,
           Growth(old, new, n, t, goals)
    PROVE  LET e == Edge(t, Len(old) + 1) IN
           /\ e \in EdgeType /\ e.visits = 0
           /\ new[n].kids = Append(old[n].kids, e)
           /\ DOMAIN new[n].kids = 1..Len(old[n].kids) + 1
           /\ DOMAIN old[n].kids = 1..Len(old[n].kids) /\ Len(old[n].kids) \in Nat
  <1>1. Edge(t, Len(old) + 1) \in EdgeType /\ Edge(t, Len(old) + 1).visits = 0
    BY DEF Edge, EdgeType
  <1>2. old[n] \in NodeType /\ old[n].kids \in Seq(EdgeType)
        /\ DOMAIN old[n].kids = 1..Len(old[n].kids) /\ Len(old[n].kids) \in Nat
    BY NodeFacts
  <1>3. new[n].kids = Append(old[n].kids, Edge(t, Len(old) + 1))
    BY <1>2 DEF Growth, NodeType
  <1>4. DOMAIN new[n].kids = 1..Len(old[n].kids) + 1
    BY <1>1, <1>2, <1>3
  <1> QED
    BY <1>1, <1>2, <1>3, <1>4

\* Growth hands the focus down.
LEMMA GrownFocus ==
    ASSUME NEW old \in Seq(NodeType), old # <<>>, NEW new, NEW n \in DOMAIN old, NEW t \in Tactics,
           NEW goals, Growth(old, new, n, t, goals), Shape(old), Focus(old)
    PROVE  Focus(new)
  <1> DEFINE L == Len(old)
  <1>1. L \in Nat /\ DOMAIN old = 1..L /\ 1 \in DOMAIN old
    OBVIOUS
  <1>2. ~new[1].focused
    BY <1>1, GrownEdges DEF Focus, Extends
  <1>3. ASSUME NEW m \in DOMAIN new, new[m].kind = "or", NEW k \in DOMAIN new[m].kids
        PROVE  new[KidAt(new, m, k)].focused = new[m].focused
    <2>1. CASE m \in DOMAIN old /\ k \in DOMAIN old[m].kids
      <3>1. new[m].kids[k] = old[m].kids[k] /\ new[m].focused = old[m].focused
            /\ new[m].kind = old[m].kind
        BY <2>1, GrownEdges DEF Extends
      <3>2. KidAt(old, m, k) \in DOMAIN old
        BY <1>1, <2>1 DEF Shape, Forward
      <3>3. new[KidAt(old, m, k)].focused = old[KidAt(old, m, k)].focused
        BY <3>2, GrownEdges DEF Extends
      <3> QED
        BY <1>3, <2>1, <3>1, <3>3 DEF Focus, KidAt
    <2>2. CASE m = n /\ new[m].kids[k].node = L + 1
      <3>1. new[n].focused = old[n].focused
        BY GrownEdges DEF Extends
      <3>2. new[L + 1].focused = old[n].focused
        BY DEF Growth
      <3> QED
        BY <2>2, <3>1, <3>2 DEF KidAt
    <2>3. CASE m = L + 1
      BY <1>3, <2>3 DEF Growth
    <2> QED
      BY <2>1, <2>2, <2>3, GrownEdges DEF Extends
  <1> QED
    BY <1>2, <1>3 DEF Focus

\* Growth adds no second edge to a node.
LEMMA GrownOneEdge ==
    ASSUME NEW old \in Seq(NodeType), NEW new, NEW n \in DOMAIN old, NEW t \in Tactics,
           NEW goals, Growth(old, new, n, t, goals), Shape(old), OneEdge(old)
    PROVE  OneEdge(new)
  <1> DEFINE L == Len(old)
  <1>1. L \in Nat /\ DOMAIN old = 1..L
    OBVIOUS
  <1>2. \A m \in DOMAIN old : \A k \in DOMAIN old[m].kids :
            KidAt(new, m, k) = KidAt(old, m, k) /\ KidAt(old, m, k) \in 1..L
    <2>1. \A m \in DOMAIN old : \A k \in DOMAIN old[m].kids : KidAt(old, m, k) \in 1..L
      BY <1>1 DEF Shape, Forward
    <2> QED
      BY <2>1, GrownEdges DEF Extends, KidAt
  <1>3. \A k \in DOMAIN new[n].kids :
            k \in DOMAIN old[n].kids \/ (k = Len(old[n].kids) + 1 /\ KidAt(new, n, k) = L + 1)
    <2> SUFFICES ASSUME NEW k \in DOMAIN new[n].kids, k \notin DOMAIN old[n].kids
                 PROVE  k = Len(old[n].kids) + 1 /\ KidAt(new, n, k) = L + 1
      OBVIOUS
    <2>1. k = Len(old[n].kids) + 1
      BY GrownKids
    <2>2. n # L + 1
      BY <1>1
    <2>3. new[n].kids[k].node = L + 1
      BY <2>2, GrownEdges DEF Extends
    <2> QED
      BY <2>1, <2>3 DEF KidAt
  <1> SUFFICES ASSUME NEW m \in DOMAIN new, NEW k \in DOMAIN new[m].kids,
                      NEW j \in DOMAIN new[m].kids, KidAt(new, m, k) = KidAt(new, m, j)
               PROVE  k = j
    BY DEF OneEdge
  <1>4. CASE m \in DOMAIN old /\ k \in DOMAIN old[m].kids /\ j \in DOMAIN old[m].kids
    BY <1>2, <1>4 DEF OneEdge
  <1>5. CASE m = n /\ ~(k \in DOMAIN old[n].kids /\ j \in DOMAIN old[n].kids)
    <2>1. \A i \in DOMAIN old[n].kids : KidAt(new, n, i) # L + 1
      BY <1>1, <1>2
    <2>2. \A i \in DOMAIN new[n].kids : KidAt(new, n, i) = L + 1 => i = Len(old[n].kids) + 1
      BY <1>3, <2>1
    <2>3. KidAt(new, n, k) = L + 1 \/ KidAt(new, n, j) = L + 1
      BY <1>3, <1>5
    <2>4. KidAt(new, n, k) = L + 1 /\ KidAt(new, n, j) = L + 1
      BY <1>5, <2>3
    <2> QED
      BY <1>5, <2>2, <2>4
  <1>6. CASE m = L + 1
    <2>1. m \notin DOMAIN old /\ m # n
      BY <1>1, <1>6
    <2>2. k \in Nat /\ new[m].kids[k].node = L + 1 + k /\ j \in Nat /\ new[m].kids[j].node = L + 1 + j
      BY <2>1, GrownEdges DEF Extends
    <2>3. L + 1 + k = L + 1 + j
      BY <2>2 DEF KidAt
    <2> HIDE DEF L
    <2> QED
      BY <1>1, <2>2, <2>3
  <1>7. \A i \in DOMAIN new[m].kids :
            (m \in DOMAIN old /\ i \in DOMAIN old[m].kids) \/ m = n \/ m = L + 1
    BY GrownEdges DEF Extends
  <1>8. CASE m = n
    BY <1>4, <1>5, <1>8
  <1>9. CASE m # n /\ m # L + 1
    BY <1>4, <1>7, <1>9
  <1> QED
    BY <1>6, <1>8, <1>9

\* Growth counts nothing.
LEMMA GrownCounted ==
    ASSUME NEW old \in Seq(NodeType), NEW new, NEW n \in DOMAIN old, NEW t \in Tactics,
           NEW goals, Growth(old, new, n, t, goals), Counted(old)
    PROVE  Counted(new)
  <1> DEFINE L == Len(old)
  <1>1. L \in Nat /\ DOMAIN old = 1..L /\ new \in Seq(NodeType) /\ DOMAIN new = 1..Len(new)
        /\ Len(new) \in Nat /\ Len(new) > L
    BY DEF Growth
  <1> SUFFICES ASSUME NEW m \in DOMAIN new
               PROVE  \E v \in Nat : Tally(new[m].kids, v) /\ new[m].visits = new[m].evals + v
    BY DEF Counted
  <1>2. CASE m \in DOMAIN old
    <2>1. PICK v \in Nat : Tally(old[m].kids, v) /\ old[m].visits = old[m].evals + v
      BY <1>2 DEF Counted
    <2>2. new[m].visits = old[m].visits /\ new[m].evals = old[m].evals
      BY <1>2, GrownEdges DEF Extends
    <2>3. CASE m = n
      <3>1. old[n].kids \in Seq(EdgeType)
        BY NodeFacts
      <3>2. Tally(Append(old[n].kids, Edge(t, L + 1)), v)
        BY <2>1, <2>3, <3>1, GrownKids, TallyAppended
      <3>3. Tally(new[m].kids, v)
        BY <2>3, <3>2, GrownKids
      <3> QED
        BY <2>1, <2>2, <3>3
    <2>4. CASE m # n
      <3>1. new[m] = old[m]
        BY <1>1, <1>2, <2>4 DEF Growth
      <3> QED
        BY <2>1, <3>1
    <2> QED
      BY <2>3, <2>4
  <1>3. CASE m \in L + 1..Len(new)
    <2>1. new[m].visits = 0 /\ new[m].evals = 0
      BY <1>3 DEF Growth
    <2>2. new[m].kids \in Seq(EdgeType) /\ DOMAIN new[m].kids = 1..Len(new[m].kids)
      BY <1>1, NodeFacts
    <2>3. \A k \in 1..Len(new[m].kids) : new[m].kids[k].visits = 0
      <3>1. CASE m = L + 1
        BY <2>2, <3>1 DEF Growth
      <3>2. CASE m \in L + 2..Len(new)
        <4>1. new[m].kids = <<>>
          BY <3>2 DEF Growth
        <4> QED
          BY <4>1
      <3> QED
        BY <1>1, <1>3, <3>1, <3>2
    <2>4. Tally(new[m].kids, 0)
      BY <2>2, <2>3, TallyNone
    <2> QED
      BY <2>1, <2>4
  <1> QED
    BY <1>1, <1>2, <1>3

\* The path is sealed: what leads into it is its own script.
LEMMA PathSealed ==
    ASSUME IInv
    PROVE  \A n \in DOMAIN nodes : \A k \in DOMAIN nodes[n].kids : \A i \in DOMAIN path :
              KidAt(nodes, n, k) = path[i] =>
                 /\ \E j \in DOMAIN path : path[j] = n
                 /\ nodes[n].kids[k].tactic \in Script \cup {None}
  <1> SUFFICES ASSUME NEW n \in DOMAIN nodes, NEW k \in DOMAIN nodes[n].kids, NEW i \in DOMAIN path,
                      KidAt(nodes, n, k) = path[i]
               PROVE  /\ \E j \in DOMAIN path : path[j] = n
                      /\ nodes[n].kids[k].tactic \in Script \cup {None}
    OBVIOUS
  <1>1. TypeOK /\ Shape(nodes) /\ Steps(nodes, path) /\ nodes \in Seq(NodeType)
        /\ path \in Seq(DOMAIN nodes) /\ path # <<>> /\ path[1] = 1
        /\ Len(path) \in Nat /\ DOMAIN path = 1..Len(path)
    BY PathFacts DEF IInv, Walking, TypeOK
  <1>2. i > 1 /\ n = path[i - 1]
    BY <1>1, OnlyParent
  <1>3. i \in 2..Len(path) /\ i - 1 \in DOMAIN path
    BY <1>1, <1>2
  <1>4. nodes[n].kids[k].tactic \in Tactics \cup {None}
    BY <1>1, NodeFacts DEF EdgeType
  <1>5. ASSUME nodes[n].kids[k].tactic \in Tactics
        PROVE  nodes[n].kids[k].tactic \in Script
    <2>1. k \in DOMAIN nodes[path[i - 1]].kids /\ Kid(path[i - 1], k) = path[i]
          /\ nodes[path[i - 1]].kids[k].tactic = nodes[n].kids[k].tactic
      BY <1>2 DEF Kid, KidAt
    <2> QED
      BY <1>3, <1>5, <2>1 DEF Script
  <1> QED
    BY <1>2, <1>3, <1>4, <1>5

\* A new child: the kernel has seen the proof if it is one.
LEMMA GrowBooks ==
    ASSUME IInv, IInv', Books, phase = "expand", NEW t \in Tactics, Runs(t),
           nodes' = Pushed(Here, t, After(nodes[Here].goals, t)),
           UNCHANGED <<path, phase, step>>
    PROVE  Books'
  <1> DEFINE n == Here
             goals == After(nodes[n].goals, t)
             L == Len(nodes)
  <1>1. TypeOK /\ Shape(nodes) /\ nodes \in Seq(NodeType) /\ nodes # <<>> /\ L \in Nat
        /\ DOMAIN nodes = 1..L /\ 1 \in DOMAIN nodes /\ n \in DOMAIN nodes /\ nodes[n].kind = "or"
    BY ChildFacts, PathFacts DEF IInv, Walking
  <1>2. Growth(nodes, nodes', n, t, goals)
    BY <1>1, AfterIsState, Grown
  <1>3. Extends(nodes, nodes', n, t)
    BY <1>1, <1>2, GrownEdges
  <1>4. Runs(t) /\ (goals = <<>> /\ ~nodes[n].focused => (Script \cup {t}) \cap Unsound = {})
    BY DEF Runs
  <1>5. n \in {path[i] : i \in DOMAIN path} /\ {path[i] : i \in DOMAIN path} \subseteq DOMAIN nodes
    BY <1>1, PathFacts
  <1> HIDE DEF goals, n
  <1>6. Focus(nodes') /\ OneEdge(nodes') /\ Counted(nodes')
    BY <1>1, <1>2, GrownFocus, GrownOneEdge, GrownCounted DEF Books
  <1>7. DOMAIN nodes' = 1..Len(nodes') /\ Len(nodes') \in Nat /\ Len(nodes') > L
        /\ DOMAIN nodes \subseteq DOMAIN nodes'
    BY <1>1, <1>2 DEF Growth
  <1>8. ASSUME NEW m \in DOMAIN nodes', NEW k \in DOMAIN nodes'[m].kids
        PROVE  \/ /\ m \in DOMAIN nodes /\ k \in DOMAIN nodes[m].kids
                  /\ nodes'[m].kids[k] = nodes[m].kids[k]
                  /\ KidAt(nodes', m, k) = KidAt(nodes, m, k) /\ KidAt(nodes, m, k) \in DOMAIN nodes
               \/ m = n /\ KidAt(nodes', m, k) = L + 1 /\ nodes'[m].kids[k].tactic = t
                  /\ nodes'[m].kids[k].visits = 0
               \/ KidAt(nodes', m, k) \in L + 2..Len(nodes') /\ nodes'[m].kids[k].visits = 0
    <2>1. CASE m \in DOMAIN nodes /\ k \in DOMAIN nodes[m].kids
      BY <1>3, <2>1, ChildFacts DEF Extends, KidAt
    <2>2. CASE m = n /\ k \notin DOMAIN nodes[n].kids
      <3>1. n # L + 1
        BY <1>1
      <3>2. nodes'[m].kids[k].node = L + 1 /\ nodes'[m].kids[k].tactic = t
        BY <1>3, <2>2, <3>1 DEF Extends
      <3>3. nodes'[m].kids[k].visits = 0
        BY <1>1, <1>2, <2>2, GrownKids
      <3> QED
        BY <2>2, <3>2, <3>3 DEF KidAt
    <2>3. CASE m = L + 1
      <3>1. m \notin DOMAIN nodes /\ m # n
        BY <1>1, <2>3
      <3>2. k \in Nat \ {0} /\ nodes'[m].kids[k].node = L + 1 + k /\ L + 1 + k <= Len(nodes')
        BY <1>3, <3>1 DEF Extends
      <3>3. nodes'[m].kids[k].visits = 0
        BY <1>2, <2>3 DEF Growth
      <3> QED
        BY <1>1, <1>7, <3>2, <3>3 DEF KidAt
    <2>4. (m \in DOMAIN nodes /\ k \in DOMAIN nodes[m].kids) \/ m = n \/ m = L + 1
      BY <1>3 DEF Extends
    <2> QED
      BY <1>1, <2>1, <2>2, <2>3, <2>4
  <1>9. Certified(nodes')
    <2> SUFFICES ASSUME NEW m \in DOMAIN nodes', nodes'[m].goals = <<>>, ~nodes'[m].focused
                 PROVE  \E S \in SUBSET DOMAIN nodes' : m \in S /\ Sealed(nodes', S)
      BY DEF Certified
    <2>1. CASE m \in DOMAIN nodes
      <3>1. nodes[m].goals = <<>> /\ ~nodes[m].focused
        BY <1>3, <2>1 DEF Extends
      <3>2. PICK S \in SUBSET DOMAIN nodes : m \in S /\ Sealed(nodes, S)
        BY <2>1, <3>1 DEF Books, Certified
      <3>3. L + 1 \notin S /\ \A q \in L + 2..Len(nodes') : q \notin S
        BY <1>1, <1>7
      <3>4. Sealed(nodes', S)
        BY <1>8, <3>2, <3>3 DEF Sealed
      <3> QED
        BY <1>7, <3>2, <3>4
    <2>2. CASE m = L + 1
      <3> DEFINE S == {path[i] : i \in DOMAIN path} \cup {L + 1}
      <3>1. goals = <<>> /\ ~nodes[n].focused
        BY <1>2, <2>2 DEF Growth
      <3>2. t \notin Unsound /\ Script \cap Unsound = {} /\ None \notin Unsound
        BY <1>4, <3>1, TacticAssumption
      <3>3. Sealed(nodes', S)
        <4> SUFFICES ASSUME NEW q \in DOMAIN nodes', NEW k \in DOMAIN nodes'[q].kids,
                            KidAt(nodes', q, k) \in S
                     PROVE  q \in S /\ nodes'[q].kids[k].tactic \notin Unsound
          BY DEF Sealed
        <4>1. CASE q = n /\ nodes'[q].kids[k].tactic = t
          BY <1>5, <3>2, <4>1
        <4>2. CASE /\ q \in DOMAIN nodes /\ k \in DOMAIN nodes[q].kids
                   /\ nodes'[q].kids[k] = nodes[q].kids[k]
                   /\ KidAt(nodes', q, k) = KidAt(nodes, q, k) /\ KidAt(nodes, q, k) \in DOMAIN nodes
          <5>1. KidAt(nodes, q, k) # L + 1
            BY <1>1, <4>2
          <5>2. PICK i \in DOMAIN path : KidAt(nodes, q, k) = path[i]
            BY <4>2, <5>1
          <5>3. /\ \E j \in DOMAIN path : path[j] = q
                /\ nodes[q].kids[k].tactic \in Script \cup {None}
            BY <4>2, <5>2, PathSealed
          <5> QED
            BY <3>2, <4>2, <5>3
        <4>3. CASE KidAt(nodes', q, k) \in L + 2..Len(nodes')
          BY <1>1, <1>5, <4>3
        <4> QED
          BY <1>8, <4>1, <4>2, <4>3
      <3>4. S \in SUBSET DOMAIN nodes' /\ m \in S
        BY <1>1, <1>5, <1>7, <2>2
      <3> QED
        BY <3>3, <3>4
    <2>3. CASE m \in L + 2..Len(nodes')
      BY <1>2, <2>3 DEF Growth
    <2> QED
      BY <1>1, <1>7, <2>1, <2>2, <2>3
  <1>10. EdgesTally /\ RootTally
    BY DEF Books, Searching
  <1>11. Here' = n /\ \A c : Owed(c)' = Owed(c)
    <2>1. Here' = n
      BY DEF Here, n
    <2> QED
      BY <2>1 DEF Owed, n
  <1>12. EdgesTally'
    <2> SUFFICES ASSUME NEW m \in DOMAIN nodes', NEW k \in DOMAIN nodes'[m].kids,
                        NEW d, d = KidAt(nodes', m, k)
                 PROVE  nodes'[d].visits = nodes'[m].kids[k].visits + Owed(d)
      BY <1>11 DEF EdgesTally
    <2>1. CASE /\ m \in DOMAIN nodes /\ k \in DOMAIN nodes[m].kids
               /\ nodes'[m].kids[k] = nodes[m].kids[k]
               /\ KidAt(nodes', m, k) = KidAt(nodes, m, k) /\ KidAt(nodes, m, k) \in DOMAIN nodes
      <3>1. nodes[d].visits = nodes[m].kids[k].visits + Owed(d)
        BY <1>10, <2>1 DEF EdgesTally
      <3>2. nodes'[d].visits = nodes[d].visits
        BY <1>3, <2>1 DEF Extends
      <3> QED
        BY <2>1, <3>1, <3>2
    <2>2. CASE d \in L + 1..Len(nodes') /\ nodes'[m].kids[k].visits = 0
      <3>1. nodes'[d].visits = 0
        BY <1>2, <2>2 DEF Growth
      <3>2. d # n
        BY <1>1, <2>2
      <3>3. Owed(d) = 0
        BY <3>2 DEF Owed, n
      <3> QED
        BY <2>2, <3>1, <3>3
    <2>3. L + 1 \in L + 1..Len(nodes') /\ \A q \in L + 2..Len(nodes') : q \in L + 1..Len(nodes')
      BY <1>1, <1>7
    <2> QED
      BY <1>8, <2>1, <2>2, <2>3
  <1>13. RootTally'
    <2>1. nodes'[1].visits = nodes[1].visits
      BY <1>1, <1>3 DEF Extends
    <2> QED
      BY <1>10, <2>1 DEF RootTally, RootVisited
  <1> QED
    BY <1>6, <1>9, <1>12, <1>13 DEF Books

\* Every step keeps the books.
LEMMA NextBooks ==
    ASSUME IInv, IInv', Books, [Next]_vars
    PROVE  Books'
  <1>0. nodes' \in Seq(NodeType) /\ nodes \in Seq(NodeType)
    BY DEF IInv, TypeOK
  <1>1. CASE UNCHANGED vars
    BY <1>1, StillBooks DEF vars
  <1>2. ASSUME NEW k \in 1..Len(nodes), Select(k)
        PROVE  Books'
    BY <1>2, StillBooks DEF Select
  <1>3. CASE Continue
    <2>1. AtBarrier /\ phase' \in {"select", "exhausted"} /\ step' = step + 1 /\ UNCHANGED nodes
      BY <1>3 DEF Continue, Onward
    <2> QED
      BY <2>1, StillBooks
  <1>4. CASE StartRefresh
    <2>1. AtBarrier /\ phase' = "refresh" /\ step' = step /\ UNCHANGED nodes
      BY <1>4 DEF StartRefresh
    <2> QED
      BY <2>1, StillBooks
  <1>5. CASE RefreshNode
    BY <1>5, StillBooks DEF RefreshNode
  <1>6. CASE Solve \/ Replay \/ Raise
    <2>1. phase' \in {"solved", "proved", "rejected", "failed"} /\ UNCHANGED nodes
      BY <1>6 DEF Solve, Replay, Raise
    <2> QED
      BY <2>1, StillBooks
  <1>7. CASE Adopt
    <2>1. phase = "refresh" /\ phase' \in {"select", "exhausted"} /\ step' = step + 1 /\ path' = path
          /\ nodes' = [n \in DOMAIN nodes |-> [nodes[n] EXCEPT !.sel = fresh[n]]]
      BY <1>7 DEF Adopt, Onward
    <2>2. SameCounts(nodes, nodes')
      <3>1. \A n \in DOMAIN nodes :
               /\ nodes'[n].goals = nodes[n].goals /\ nodes'[n].kind = nodes[n].kind
               /\ nodes'[n].focused = nodes[n].focused /\ nodes'[n].visits = nodes[n].visits
               /\ nodes'[n].evals = nodes[n].evals /\ nodes'[n].kids = nodes[n].kids
        <4> SUFFICES ASSUME NEW n \in DOMAIN nodes
                     PROVE  LET r == [nodes[n] EXCEPT !.sel = fresh[n]] IN
                            /\ r.goals = nodes[n].goals /\ r.kind = nodes[n].kind
                            /\ r.focused = nodes[n].focused /\ r.visits = nodes[n].visits
                            /\ r.evals = nodes[n].evals /\ r.kids = nodes[n].kids
          BY <2>1
        <4>1. nodes[n] \in NodeType
          BY <1>0
        <4> QED
          BY <4>1 DEF NodeType
      <3>2. Len(nodes') = Len(nodes)
        <4>1. DOMAIN nodes' = DOMAIN nodes
          BY <2>1
        <4> QED
          BY <1>0, <4>1
      <3> QED
        BY <3>1, <3>2 DEF SameCounts, SameBooks
    <2> QED
      BY <1>0, <2>1, <2>2, FlagBooks
  <1>8. CASE Visit
    BY <1>8, VisitBooks
  <1>9. CASE Backup
    BY <1>9, BackupBooks
  <1>10. ASSUME NEW n \in DOMAIN nodes, NEW x, NEW y,
                nodes' = [nodes EXCEPT ![n].solved = x] \/ \E c \in DOMAIN nodes : c # n /\
                    nodes' = [[nodes EXCEPT ![c].solved = y] EXCEPT ![n].solved = x]
         PROVE  SameCounts(nodes, nodes')
    <2>1. \A m \in DOMAIN nodes :
             /\ nodes'[m].goals = nodes[m].goals /\ nodes'[m].kind = nodes[m].kind
             /\ nodes'[m].focused = nodes[m].focused /\ nodes'[m].visits = nodes[m].visits
             /\ nodes'[m].evals = nodes[m].evals /\ nodes'[m].kids = nodes[m].kids
      <3> SUFFICES ASSUME NEW m \in DOMAIN nodes
                   PROVE  /\ nodes'[m].goals = nodes[m].goals /\ nodes'[m].kind = nodes[m].kind
                          /\ nodes'[m].focused = nodes[m].focused /\ nodes'[m].visits = nodes[m].visits
                          /\ nodes'[m].evals = nodes[m].evals /\ nodes'[m].kids = nodes[m].kids
        OBVIOUS
      <3>1. nodes[m] \in NodeType
        BY <1>0
      <3>2. nodes'[m] = nodes[m] \/ nodes'[m] = [nodes[m] EXCEPT !.solved = x]
            \/ nodes'[m] = [nodes[m] EXCEPT !.solved = y]
        BY <1>10
      <3> QED
        BY <3>1, <3>2 DEF NodeType
    <2>2. Len(nodes') = Len(nodes)
      <3>1. DOMAIN nodes' = DOMAIN nodes
        BY <1>10
      <3> QED
        BY <1>0, <3>1
    <2> QED
      BY <2>1, <2>2 DEF SameCounts, SameBooks
  <1>11. CASE EndVisit
    <2>1. phase = "expand" /\ phase' = "backup" /\ step' = step /\ path' = path
          /\ nodes' = [nodes EXCEPT ![Here].solved = NodeSolved(nodes, Here)]
      BY <1>11 DEF EndVisit
    <2>2. Here \in DOMAIN nodes
      BY PathFacts DEF IInv
    <2>3. SameCounts(nodes, nodes')
      BY <2>1, <2>2, <1>10
    <2> QED
      BY <1>0, <2>1, <2>3, FlagBooks
  <1>12. ASSUME NEW t \in Tactics, Try(t)
         PROVE  Books'
    <2> DEFINE goals == After(nodes[Here].goals, t)
    <2>1. phase = "expand" /\ Runs(t) /\ UNCHANGED <<path, phase, step>>
      BY <1>12 DEF Try
    <2>2. CASE goals \in Ancestors
      <3>1. UNCHANGED nodes
        BY <1>12, <2>2 DEF Try
      <3> QED
        BY <2>1, <3>1, StillBooks
    <2>3. CASE goals \notin Ancestors /\ Twin(Here, t, goals) = {}
      <3>1. nodes' = Pushed(Here, t, goals)
        BY <1>12, <2>3 DEF Try
      <3> QED
        BY <2>1, <3>1, GrowBooks
    <2>4. CASE goals \notin Ancestors /\ Twin(Here, t, goals) # {}
      <3> DEFINE k == CHOOSE k \in Twin(Here, t, goals) : TRUE
                 c == Kid(Here, k)
      <3>1. nodes' = Merged(Here, k, goals) /\ k \in Twin(Here, t, goals)
        BY <1>12, <2>4 DEF Try
      <3>2. Here \in DOMAIN nodes /\ k \in DOMAIN nodes[Here].kids
        BY <3>1, PathFacts DEF IInv, Twin
      <3> HIDE DEF k
      <3>3. c \in DOMAIN nodes /\ c # Here
        <4>1. Forward(nodes) /\ DOMAIN nodes = 1..Len(nodes) /\ Len(nodes) \in Nat
          BY PathFacts DEF IInv
        <4> QED
          BY <3>2, <4>1 DEF Forward, Kid, KidAt
      <3> HIDE DEF goals, c
      <3>4. nodes' = [[nodes EXCEPT ![c].solved = nodes[c].solved \/ goals = <<>>] EXCEPT
                         ![Here].solved = nodes[Here].solved \/ nodes[c].solved \/ goals = <<>>]
        BY <3>1, <3>2, <3>3 DEF Merged, c
      <3>5. SameCounts(nodes, nodes')
        BY <3>2, <3>3, <3>4, <1>10
      <3> QED
        BY <1>0, <2>1, <3>5, FlagBooks
    <2> QED
      BY <2>2, <2>3, <2>4
  <1> QED
    BY <1>1, <1>2, <1>3, <1>4, <1>5, <1>6, <1>7, <1>8, <1>9, <1>11, <1>12 DEF Next

\* The first books.
LEMMA FirstBooks ==
    ASSUME Init
    PROVE  Books
  <1>1. nodes = <<Node(Start, "or", FALSE)>> /\ phase = "select" /\ step = 0
    BY DEF Init
  <1>2. nodes \in Seq(NodeType)
    BY Initially DEF IInv, TypeOK
  <1>3. DOMAIN nodes = {1}
    BY <1>1
  <1>4. nodes[1].kids = <<>> /\ nodes[1].goals # <<>> /\ ~nodes[1].focused /\ nodes[1].visits = 0
        /\ nodes[1].evals = 0
    BY <1>1, SearchAssumption DEF Node
  <1>5. DOMAIN nodes[1].kids = {} /\ nodes[1].kids \in Seq(EdgeType) /\ Len(nodes[1].kids) = 0
    BY <1>2, <1>3, <1>4, NodeFacts
  <1>6. Tally(nodes[1].kids, 0)
    BY <1>5, TallyNone
  <1>7. Counted(nodes)
    BY <1>3, <1>4, <1>6 DEF Counted
  <1>8. Focus(nodes) /\ OneEdge(nodes) /\ Certified(nodes)
    BY <1>3, <1>4, <1>5 DEF Focus, OneEdge, Certified
  <1>9. EdgesTally
    BY <1>3, <1>5 DEF EdgesTally
  <1>10. RootTally
    <2>1. phase = "select" /\ step = 0
      BY <1>1
    <2> QED
      BY <1>4, <2>1 DEF RootTally, RootVisited
  <1> QED
    BY <1>7, <1>8, <1>9, <1>10 DEF Books

\* The books are kept throughout.
LEMMA BooksKept == Spec => [](IInv /\ Books)
  <1>1. Init => IInv /\ Books
    BY Initially, FirstBooks
  <1>2. IInv /\ Books /\ [Next]_vars => (IInv /\ Books)'
    BY NextKeeps, NextBooks
  <1> QED
    BY <1>1, <1>2, PTL DEF Spec

-----------------------------------------------------------------------------
(* The checkpoint.                                                         *)

\* Where the flags agree they are the only ones that do, and stand for proofs: of two
\* answers that differ, the last node they differ at has children they agree on.
LEMMA FlagsAreProofs ==
    ASSUME nodes \in Seq(NodeType), Shape(nodes),
           \A n \in DOMAIN nodes : nodes[n].solved <=> Supported(nodes, n)
    PROVE  \A n \in DOMAIN nodes : nodes[n].solved = Provable[n]
  <1> DEFINE body(f, n) == \/ nodes[n].goals = <<>>
                           \/ nodes[n].kind = "or" /\ \E c \in KidsOf(n) : f[c]
                           \/ nodes[n].kind = "and" /\ \A c \in KidsOf(n) : f[c]
             provable == CHOOSE f : f = [n \in DOMAIN nodes |-> body(f, n)]
             flags == [n \in DOMAIN nodes |-> nodes[n].solved]
  <1>1. /\ DOMAIN nodes = 1..Len(nodes) /\ Len(nodes) \in Nat
        /\ \A n \in DOMAIN nodes : nodes[n].solved \in BOOLEAN
        /\ \A n \in DOMAIN nodes : KidsOf(n) \subseteq n + 1..Len(nodes)
    <2>1. \A n \in DOMAIN nodes : nodes[n].solved \in BOOLEAN
      BY NodeFacts DEF NodeType
    <2>2. \A n \in DOMAIN nodes : KidsOf(n) \subseteq n + 1..Len(nodes)
      BY DEF Shape, Forward, KidsOf, Kid, KidAt
    <2> QED
      BY <2>1, <2>2
  <1>2. \A n \in DOMAIN nodes : \A c \in KidsOf(n) : c \in DOMAIN nodes /\ c > n
    BY <1>1
  <1>3. flags = [n \in DOMAIN nodes |-> body(flags, n)]
    <2> SUFFICES ASSUME NEW n \in DOMAIN nodes
                 PROVE  nodes[n].solved = body(flags, n)
      OBVIOUS
    <2>1. \A c \in KidsOf(n) : flags[c] = nodes[c].solved
      BY <1>2
    <2>2. (\E c \in KidsOf(n) : flags[c]) <=> \E k \in DOMAIN nodes[n].kids : nodes[KidAt(nodes, n, k)].solved
      BY <2>1, Zenon DEF KidsOf, Kid, KidAt
    <2>3. (\A c \in KidsOf(n) : flags[c]) <=> \A k \in DOMAIN nodes[n].kids : nodes[KidAt(nodes, n, k)].solved
      BY <2>1, Zenon DEF KidsOf, Kid, KidAt
    <2> HIDE DEF flags
    <2>4. nodes[n].solved <=> body(flags, n)
      BY <2>2, <2>3 DEF Supported
    <2>5. nodes[n].solved \in BOOLEAN /\ body(flags, n) \in BOOLEAN
      BY <1>1
    <2> QED
      BY <2>4, <2>5
  <1>4. provable = [n \in DOMAIN nodes |-> body(provable, n)]
    BY <1>3
  <1>5. Provable = provable
    BY DEF Provable
  <1> HIDE DEF provable
  <1>6. \A n \in DOMAIN nodes : provable[n] = body(provable, n) /\ flags[n] = body(flags, n)
    BY <1>3, <1>4
  <1>7. \A n \in DOMAIN nodes : provable[n] = flags[n]
    <2> DEFINE Bad == {n \in DOMAIN nodes : provable[n] # flags[n]}
    <2> SUFFICES ASSUME Bad # {}  PROVE FALSE
      OBVIOUS
    <2>1. Bad \in SUBSET (1..Len(nodes))
      BY <1>1
    <2>2. PICK n \in Bad : \A m \in Bad : m <= n
      BY <1>1, <2>1, GreatestExists
    <2>3. n \in DOMAIN nodes /\ provable[n] # flags[n]
      OBVIOUS
    <2>4. \A c \in KidsOf(n) : provable[c] = flags[c]
      <3> SUFFICES ASSUME NEW c \in KidsOf(n), c \in Bad  PROVE FALSE
        BY <1>2, <2>3
      <3> QED
        BY <1>1, <1>2, <2>2, <2>3
    <2>5. body(provable, n) = body(flags, n)
      <3> HIDE DEF flags, Bad
      <3>1. (\E c \in KidsOf(n) : provable[c]) = (\E c \in KidsOf(n) : flags[c])
        BY <2>4, Zenon
      <3>2. (\A c \in KidsOf(n) : provable[c]) = (\A c \in KidsOf(n) : flags[c])
        BY <2>4, Zenon
      <3> QED
        BY <3>1, <3>2
    <2> QED
      BY <1>6, <2>3, <2>5
  <1> QED
    BY <1>5, <1>7

\* The nodes the replay walks through behind each node.
Walks ==
    LET walk[n \in DOMAIN nodes] == {n} \cup UNION {walk[Kid(n, k)] : k \in Taken(n)}
    IN  walk

\* T is closed under what the replay does next.
Carried(T) == \A n \in T : \A k \in Taken(n) : Kid(n, k) \in T

\* The replay only takes children there are.
LEMMA TakenFacts ==
    ASSUME nodes \in Seq(NodeType), Shape(nodes)
    PROVE  /\ DOMAIN nodes = 1..Len(nodes) /\ Len(nodes) \in Nat
           /\ \A n \in DOMAIN nodes : \A k \in Taken(n) :
                 k \in DOMAIN nodes[n].kids /\ Kid(n, k) \in DOMAIN nodes /\ Kid(n, k) > n
  <1>1. DOMAIN nodes = 1..Len(nodes) /\ Len(nodes) \in Nat
    OBVIOUS
  <1>2. ASSUME NEW n \in DOMAIN nodes, NEW k \in Taken(n)
        PROVE  k \in DOMAIN nodes[n].kids
    BY <1>2 DEF Taken
  <1>3. \A n \in DOMAIN nodes : \A k \in DOMAIN nodes[n].kids : Kid(n, k) \in n + 1..Len(nodes)
    BY DEF Shape, Forward, Kid, KidAt
  <1> QED
    BY <1>1, <1>2, <1>3

\* There is such a walk: from each node, what every closed set around it holds.
LEMMA WalkIs ==
    ASSUME nodes \in Seq(NodeType), Shape(nodes)
    PROVE  /\ \A n \in DOMAIN nodes : Walks[n] = {n} \cup UNION {Walks[Kid(n, k)] : k \in Taken(n)}
           /\ Walk = Walks[1]
  <1> DEFINE D == DOMAIN nodes
             Around(n) == {T \in SUBSET D : n \in T /\ Carried(T)}
             w == [n \in D |-> {m \in D : \A T \in Around(n) : m \in T}]
             body(f, n) == {n} \cup UNION {f[Kid(n, k)] : k \in Taken(n)}
             walk == CHOOSE f : f = [n \in D |-> body(f, n)]
  <1>1. \A n \in D : \A k \in Taken(n) : Kid(n, k) \in D
    BY TakenFacts
  <1>2. ASSUME NEW n \in D
        PROVE  w[n] = body(w, n)
    <2>0. \A q \in D : \A m : m \in w[q] <=> m \in D /\ \A T \in Around(q) : m \in T
      OBVIOUS
    <2> HIDE DEF w
    <2>1. n \in w[n]
      BY <2>0
    <2>2. ASSUME NEW k \in Taken(n), NEW m \in w[Kid(n, k)]
          PROVE  m \in w[n]
      <3>1. Kid(n, k) \in D
        BY <1>1
      <3>2. \A T \in Around(n) : T \in Around(Kid(n, k))
        BY DEF Carried
      <3> QED
        BY <2>0, <3>1, <3>2
    <2>3. body(w, n) \in SUBSET D
      <3>1. \A k \in Taken(n) : w[Kid(n, k)] \subseteq D
        BY <1>1, <2>0
      <3> QED
        BY <3>1
    <2>4. Carried(body(w, n))
      <3> SUFFICES ASSUME NEW q \in body(w, n), NEW j \in Taken(q)
                   PROVE  Kid(q, j) \in body(w, n)
        BY DEF Carried
      <3>0. q \in D
        BY <2>3
      <3>1. CASE q = n
        <4>1. Kid(n, j) \in w[Kid(n, j)]
          BY <1>1, <2>0, <3>1
        <4> QED
          BY <3>1, <4>1
      <3>2. CASE \E k \in Taken(n) : q \in w[Kid(n, k)]
        <4>1. PICK k \in Taken(n) : q \in w[Kid(n, k)]
          BY <3>2
        <4>2. Kid(n, k) \in D /\ Kid(q, j) \in D
          BY <1>1, <3>0
        <4>3. \A T \in Around(Kid(n, k)) : Kid(q, j) \in T
          BY <2>0, <4>1, <4>2 DEF Carried
        <4>4. Kid(q, j) \in w[Kid(n, k)]
          BY <2>0, <4>2, <4>3
        <4> QED
          BY <4>4
      <3> QED
        BY <3>1, <3>2
    <2>5. n \in body(w, n)
      OBVIOUS
    <2>6. body(w, n) \in Around(n)
      <3> HIDE DEF body
      <3> QED
        BY <2>3, <2>4, <2>5
    <2>7. w[n] \subseteq body(w, n)
      <3> HIDE DEF body, Around
      <3> QED
        BY <2>0, <2>6
    <2>8. body(w, n) \subseteq w[n]
      BY <2>1, <2>2
    <2> QED
      BY <2>7, <2>8
  <1>3. w = [n \in D |-> body(w, n)]
    <2>1. w = [n \in D |-> w[n]]
      OBVIOUS
    <2> HIDE DEF w, body
    <2> QED
      BY <1>2, <2>1
  <1> HIDE DEF w
  <1>4. walk = [n \in D |-> body(walk, n)]
    BY <1>3
  <1>5. Walks = walk /\ Walk = walk[1]
    BY DEF Walks, Walk
  <1> HIDE DEF walk
  <1>6. \A n \in D : walk[n] = body(walk, n)
    BY <1>4
  <1> QED
    BY <1>5, <1>6

\* The walk goes on with what the replay takes.
LEMMA WalkCloses ==
    ASSUME nodes \in Seq(NodeType), Shape(nodes)
    PROVE  \A n \in DOMAIN nodes : n \in Walks[n] /\ Carried(Walks[n])
  <1>1. \A n \in DOMAIN nodes :
           /\ n \in Walks[n]
           /\ \A k \in Taken(n) : Walks[Kid(n, k)] \subseteq Walks[n]
           /\ \A m \in Walks[n] : m = n \/ \E k \in Taken(n) : m \in Walks[Kid(n, k)]
    BY WalkIs
  <1>2. /\ DOMAIN nodes = 1..Len(nodes) /\ Len(nodes) \in Nat
        /\ \A n \in DOMAIN nodes : \A k \in Taken(n) :
              Kid(n, k) \in DOMAIN nodes /\ Kid(n, k) > n
    BY TakenFacts
  <1> DEFINE Bad == {n \in DOMAIN nodes : ~Carried(Walks[n])}
  <1>3. ASSUME Bad # {}  PROVE FALSE
    <2>1. Bad \in SUBSET (1..Len(nodes))
      BY <1>2
    <2>2. PICK n \in Bad : \A m \in Bad : m <= n
      BY <1>2, <1>3, <2>1, GreatestExists
    <2>3. n \in DOMAIN nodes /\ ~Carried(Walks[n])
      OBVIOUS
    <2>4. PICK m \in Walks[n] : \E k \in Taken(m) : Kid(m, k) \notin Walks[n]
      BY <2>3 DEF Carried
    <2>5. PICK k \in Taken(m) : Kid(m, k) \notin Walks[n]
      BY <2>4
    <2>6. CASE m = n
      <3>1. Kid(n, k) \in DOMAIN nodes /\ Kid(n, k) \in Walks[Kid(n, k)]
        BY <1>1, <1>2, <2>3, <2>5, <2>6
      <3> QED
        BY <1>1, <2>3, <2>5, <2>6, <3>1
    <2>7. ASSUME NEW j \in Taken(n), m \in Walks[Kid(n, j)]
          PROVE  FALSE
      <3>1. Kid(n, j) \in DOMAIN nodes /\ Kid(n, j) > n
        BY <1>2, <2>3, <2>7
      <3>2. Kid(n, j) \notin Bad
        <4> SUFFICES ASSUME Kid(n, j) \in Bad  PROVE FALSE
          OBVIOUS
        <4>1. Kid(n, j) <= n
          BY <2>2
        <4>2. n \in Nat /\ Kid(n, j) \in Nat
          BY <1>2, <2>3, <3>1
        <4> QED
          BY <3>1, <4>1, <4>2
      <3>3. Kid(m, k) \in Walks[Kid(n, j)]
        BY <2>5, <2>7, <3>1, <3>2 DEF Carried
      <3> QED
        BY <1>1, <2>3, <2>5, <2>7, <3>3
    <2> QED
      BY <1>1, <2>3, <2>6, <2>7
  <1> QED
    BY <1>1, <1>3

\* The walk stays where each of its steps stays.
LEMMA WalkStays ==
    ASSUME nodes \in Seq(NodeType), Shape(nodes), NEW T \in SUBSET DOMAIN nodes, Carried(T)
    PROVE  \A n \in T : Walks[n] \subseteq T
  <1>1. \A n \in DOMAIN nodes :
           \A m \in Walks[n] : m = n \/ \E k \in Taken(n) : m \in Walks[Kid(n, k)]
    BY WalkIs
  <1>2. /\ DOMAIN nodes = 1..Len(nodes) /\ Len(nodes) \in Nat
        /\ \A n \in DOMAIN nodes : \A k \in Taken(n) :
              Kid(n, k) \in DOMAIN nodes /\ Kid(n, k) > n
    BY TakenFacts
  <1> DEFINE Bad == {n \in T : ~(Walks[n] \subseteq T)}
  <1>3. ASSUME Bad # {}  PROVE FALSE
    <2>1. Bad \in SUBSET (1..Len(nodes))
      BY <1>2
    <2>2. PICK n \in Bad : \A m \in Bad : m <= n
      BY <1>2, <1>3, <2>1, GreatestExists
    <2>3. n \in T /\ n \in DOMAIN nodes
      OBVIOUS
    <2>4. PICK m \in Walks[n] : m \notin T
      OBVIOUS
    <2>5. PICK k \in Taken(n) : m \in Walks[Kid(n, k)]
      BY <1>1, <2>3, <2>4
    <2>6. Kid(n, k) \in T /\ Kid(n, k) > n
      BY <1>2, <2>3, <2>5 DEF Carried
    <2>7. Kid(n, k) \in Bad
      BY <2>4, <2>5, <2>6
    <2>8. Kid(n, k) <= n /\ n \in Nat /\ Kid(n, k) \in Nat
      BY <1>2, <2>1, <2>2, <2>3, <2>7
    <2> QED
      BY <2>6, <2>8
  <1> QED
    BY <1>3

\* Flags that agree can be replayed: a solved node has something to go on with, and
\* goes on with solved nodes.
LEMMA SolvedGoesOn ==
    ASSUME nodes \in Seq(NodeType), Shape(nodes),
           \A n \in DOMAIN nodes : nodes[n].solved <=> Supported(nodes, n),
           NEW n \in DOMAIN nodes, nodes[n].solved
    PROVE  /\ nodes[n].goals # <<>> => Taken(n) # {}
           /\ \A k \in Taken(n) : nodes[Kid(n, k)].solved
  <1>1. CASE nodes[n].goals = <<>>
    BY <1>1 DEF Taken
  <1>2. CASE nodes[n].goals # <<>> /\ nodes[n].kind = "or"
    <2> DEFINE done == {k \in DOMAIN nodes[n].kids : nodes[Kid(n, k)].solved}
    <2>1. done \in SUBSET Nat
      BY NodeFacts
    <2>2. done # {}
      BY <1>2 DEF Supported, Kid, KidAt
    <2>3. \E k \in done : \A j \in done : k <= j
      BY <2>1, <2>2, LeastExists
    <2>4. Taken(n) = {k \in done : \A j \in done : k <= j}
      BY <1>2 DEF Taken
    <2> QED
      BY <2>3, <2>4
  <1>3. CASE nodes[n].goals # <<>> /\ nodes[n].kind = "and"
    <2>1. nodes[n].kids # <<>> /\ DOMAIN nodes[n].kids # {}
      <3>1. nodes[n].kids # <<>>
        BY <1>3 DEF Shape, Split
      <3> DEFINE kids == nodes[n].kids
      <3>2. kids \in Seq(EdgeType)
        BY NodeFacts
      <3> HIDE DEF kids
      <3>3. kids # <<>> => 1 \in DOMAIN kids
        BY <3>2
      <3> QED
        BY <3>1, <3>3 DEF kids
    <2>2. Taken(n) = DOMAIN nodes[n].kids
      BY <1>3 DEF Taken
    <2>3. \A k \in DOMAIN nodes[n].kids : nodes[KidAt(nodes, n, k)].solved
      BY <1>3 DEF Supported
    <2> QED
      BY <2>1, <2>2, <2>3 DEF Kid, KidAt
  <1>4. nodes[n].kind \in {"or", "and"}
    BY NodeFacts DEF NodeType
  <1> QED
    BY <1>1, <1>2, <1>3, <1>4

\* Nothing the kernel rejects is replayed where no goals were split: the walk ends in
\* a proof the kernel has seen, and all of the walk leads to it.
LEMMA ReplayIsCertified ==
    ASSUME nodes \in Seq(NodeType), Shape(nodes), 1 \in DOMAIN nodes,
           \A n \in DOMAIN nodes : nodes[n].solved <=> Supported(nodes, n),
           Focus(nodes), Certified(nodes), nodes[1].solved,
           \A n \in Walk : nodes[n].kind = "or"
    PROVE  Replayed \cap Unsound = {}
  <1> DEFINE T == {n \in DOMAIN nodes : nodes[n].solved}
             U == {n \in Walk : ~nodes[n].focused}
  <1>1. /\ DOMAIN nodes = 1..Len(nodes) /\ Len(nodes) \in Nat
        /\ \A n \in DOMAIN nodes : \A k \in Taken(n) :
              k \in DOMAIN nodes[n].kids /\ Kid(n, k) \in DOMAIN nodes /\ Kid(n, k) > n
    BY TakenFacts
  <1>2. Carried(T) /\ T \in SUBSET DOMAIN nodes /\ 1 \in T
    BY <1>1, SolvedGoesOn DEF Carried
  <1>3. Walk \subseteq T
    <2> HIDE DEF T
    <2>1. Walks[1] \subseteq T
      BY <1>2, WalkStays
    <2> QED
      BY <2>1, WalkIs
  <1>4. Carried(Walk) /\ 1 \in Walk
    BY WalkIs, WalkCloses
  <1>5. Carried(U) /\ U \in SUBSET DOMAIN nodes /\ 1 \in U
    <2>1. \A n \in U : \A k \in Taken(n) : ~nodes[Kid(n, k)].focused
      <3> SUFFICES ASSUME NEW n \in U, NEW k \in Taken(n)
                   PROVE  ~nodes[Kid(n, k)].focused
        OBVIOUS
      <3>1. n \in DOMAIN nodes /\ nodes[n].kind = "or" /\ ~nodes[n].focused
        BY <1>3
      <3>2. k \in DOMAIN nodes[n].kids
        BY <1>1, <3>1
      <3> QED
        BY <3>1, <3>2 DEF Focus, Kid, KidAt
    <2>2. Carried(U)
      BY <1>4, <2>1 DEF Carried
    <2>3. U \in SUBSET DOMAIN nodes
      BY <1>3
    <2>4. 1 \in U
      BY <1>4 DEF Focus
    <2> QED
      BY <2>2, <2>3, <2>4
  <1>6. Walk \subseteq U
    <2> HIDE DEF U
    <2>1. Walks[1] \subseteq U
      BY <1>5, WalkStays
    <2> QED
      BY <2>1, WalkIs
  <1> DEFINE Ends(n) == \E m \in DOMAIN nodes :
                           /\ nodes[m].goals = <<>> /\ ~nodes[m].focused
                           /\ \A S \in SUBSET DOMAIN nodes : m \in S /\ Sealed(nodes, S) => n \in S
             Bad == {n \in Walk : ~Ends(n)}
  <1>7. ASSUME Bad # {}  PROVE FALSE
    <2>1. Bad \in SUBSET (1..Len(nodes))
      BY <1>1, <1>3
    <2>2. PICK n \in Bad : \A m \in Bad : m <= n
      BY <1>1, <1>7, <2>1, GreatestExists
    <2>3. n \in Walk /\ ~Ends(n) /\ n \in DOMAIN nodes /\ nodes[n].solved /\ ~nodes[n].focused
      BY <1>3, <1>6
    <2>4. nodes[n].goals # <<>>
      BY <2>3
    <2>5. PICK k \in Taken(n) : TRUE
      BY <2>3, <2>4, SolvedGoesOn
    <2>6. Kid(n, k) \in Walk /\ Kid(n, k) \in DOMAIN nodes /\ Kid(n, k) > n /\ k \in DOMAIN nodes[n].kids
      BY <1>1, <1>4, <2>3, <2>5 DEF Carried
    <2>7. Ends(Kid(n, k))
      <3> SUFFICES ASSUME Kid(n, k) \in Bad  PROVE FALSE
        BY <2>6
      <3>1. Kid(n, k) <= n /\ n \in Nat /\ Kid(n, k) \in Nat
        BY <1>1, <2>2, <2>3, <2>6
      <3> QED
        BY <2>6, <3>1
    <2>8. PICK m \in DOMAIN nodes :
             /\ nodes[m].goals = <<>> /\ ~nodes[m].focused
             /\ \A S \in SUBSET DOMAIN nodes : m \in S /\ Sealed(nodes, S) => Kid(n, k) \in S
      BY <2>7
    <2>9. \A S \in SUBSET DOMAIN nodes : m \in S /\ Sealed(nodes, S) => n \in S
      BY <2>3, <2>6, <2>8 DEF Sealed, Kid, KidAt
    <2> QED
      BY <2>3, <2>8, <2>9
  <1>8. ASSUME NEW n \in Walk, NEW k \in Taken(n)
        PROVE  nodes[n].kids[k].tactic \notin Unsound
    <2>1. Kid(n, k) \in Walk /\ n \in DOMAIN nodes /\ k \in DOMAIN nodes[n].kids
      BY <1>1, <1>3, <1>4, <1>8 DEF Carried
    <2>2. PICK m \in DOMAIN nodes :
             /\ nodes[m].goals = <<>> /\ ~nodes[m].focused
             /\ \A S \in SUBSET DOMAIN nodes : m \in S /\ Sealed(nodes, S) => Kid(n, k) \in S
      BY <1>7, <2>1
    <2>3. PICK S \in SUBSET DOMAIN nodes : m \in S /\ Sealed(nodes, S)
      BY <2>2 DEF Certified
    <2>4. Kid(n, k) \in S
      BY <2>2, <2>3
    <2> QED
      BY <2>1, <2>3, <2>4 DEF Sealed, Kid, KidAt
  <1> QED
    BY <1>8 DEF Replayed

\* What a checkpoint says of the tree is true: the flags stand for proofs, a solved
\* root can be replayed, and the visits are those of the evaluations and the edges
\* (nodeSolved, updateDuplicateChild, replaySolvedNode, updateEdge, updateNode).
THEOREM TruthfulCheckpoint == Spec => []CheckpointIsTruthful
  <1>1. ASSUME IInv, Books
        PROVE  CheckpointIsTruthful
    <2> SUFFICES ASSUME AtBarrier
                 PROVE  /\ \A n \in DOMAIN nodes : nodes[n].solved = Provable[n]
                        /\ nodes[1].solved =>
                              /\ ReplayCloses
                              /\ (\A n \in Walk : nodes[n].kind = "or") => Replayed \cap Unsound = {}
                        /\ nodes[1].visits = step + 1
                        /\ \A n \in DOMAIN nodes :
                              /\ nodes[n].visits = nodes[n].evals + EdgeVisits(n)
                              /\ \A k \in DOMAIN nodes[n].kids :
                                    nodes[n].kids[k].visits = nodes[Kid(n, k)].visits
      BY DEF CheckpointIsTruthful
    <2>1. nodes \in Seq(NodeType) /\ Shape(nodes) /\ 1 \in DOMAIN nodes
      BY <1>1, ChildFacts DEF IInv
    <2>2. \A n \in DOMAIN nodes : nodes[n].solved <=> Supported(nodes, n)
      <3>1. phase = "backup" /\ \A i \in DOMAIN path : ~Due(i)
        BY <1>1, Barrier DEF AtBarrier
      <3> QED
        BY <1>1, <3>1 DEF IInv, Sound, FlagsComplete
    <2>3. \A n \in DOMAIN nodes : nodes[n].solved = Provable[n]
      BY <2>1, <2>2, FlagsAreProofs
    <2>4. ASSUME nodes[1].solved
          PROVE  ReplayCloses
      <3> DEFINE T == {n \in DOMAIN nodes : nodes[n].solved}
      <3>1. Carried(T) /\ T \in SUBSET DOMAIN nodes /\ 1 \in T
        BY <2>1, <2>2, <2>4, TakenFacts, SolvedGoesOn DEF Carried
      <3>2. Walk \subseteq T
        <4> HIDE DEF T
        <4>1. Walks[1] \subseteq T
          BY <2>1, <3>1, WalkStays
        <4> QED
          BY <2>1, <4>1, WalkIs
      <3>3. \A n \in Walk : n \in DOMAIN nodes /\ nodes[n].solved
        BY <3>2
      <3> QED
        BY <2>1, <2>2, <3>3, SolvedGoesOn DEF ReplayCloses
    <2>5. ASSUME nodes[1].solved, \A n \in Walk : nodes[n].kind = "or"
          PROVE  Replayed \cap Unsound = {}
      BY <1>1, <2>1, <2>2, <2>5, ReplayIsCertified DEF Books
    <2>6. EdgesTally /\ RootTally
      BY <1>1 DEF Books, Searching, AtBarrier
    <2>7. nodes[1].visits = step + 1
      BY <2>6 DEF RootTally, RootVisited, AtBarrier
    <2>8. ASSUME NEW n \in DOMAIN nodes
          PROVE  nodes[n].visits = nodes[n].evals + EdgeVisits(n)
      <3>1. PICK v \in Nat : Tally(nodes[n].kids, v) /\ nodes[n].visits = nodes[n].evals + v
        BY <1>1 DEF Books, Counted
      <3>2. EdgeVisits(n) = v
        BY <2>1, <3>1, TallyIs
      <3> QED
        BY <3>1, <3>2
    <2>9. ASSUME NEW n \in DOMAIN nodes, NEW k \in DOMAIN nodes[n].kids
          PROVE  nodes[n].kids[k].visits = nodes[Kid(n, k)].visits
      <3>1. nodes[KidAt(nodes, n, k)].visits = nodes[n].kids[k].visits + 0
        BY <1>1, <2>6, NothingOwed DEF EdgesTally
      <3>2. nodes[n].kids[k].visits \in Nat
        BY <2>1, NodeFacts DEF EdgeType
      <3> QED
        BY <3>1, <3>2 DEF Kid, KidAt
    <2> QED
      BY <2>3, <2>4, <2>5, <2>7, <2>8, <2>9
  <1>2. IInv /\ Books => CheckpointIsTruthful
    BY <1>1
  <1> QED
    BY BooksKept, <1>2, PTL
=============================================================================
