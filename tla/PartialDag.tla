----------------------------- MODULE PartialDag -----------------------------
(***************************************************************************)
(* percy::partial_dag once initialize() has run: the per-vertex tables the *)
(* engines read.  A graph g is the sequence "vertices"; g[v] lists the     *)
(* fanins of vertex v, 0 standing for an ignored fanin.  Vertices are      *)
(* numbered from 1, so a fanin value names its vertex directly (the code   *)
(* subtracts one).  Leaves (primary inputs) come first, the root last.     *)
(***************************************************************************)
EXTENDS Integers, Sequences, FiniteSets, SequencesExt

Vertices(g) == DOMAIN g
Root(g) == Len(g)

(* The fanins of v that are not ignored, without their order. *)
Fanins(g, v) == {g[v][k] : k \in DOMAIN g[v]} \ {0}

(* initialize_num_children *)
NumChildren(g, v) == Cardinality({k \in DOMAIN g[v] : g[v][k] # 0})
IsLeaf(g, v) == NumChildren(g, v) = 0
Gates(g) == {v \in Vertices(g) : ~IsLeaf(g, v)}

(* Mutant: only the first fanin makes a parent. *)
MutParents(g, v) == {w \in Vertices(g) : g[w][1] = v}

(* construct_parents; the list repeats a parent that uses v twice, which   *)
(* no reader of it can tell.                                               *)
Parents(g, v) == {w \in Vertices(g) : v \in Fanins(g, w)}

(* The sets of vertices that hold the fanins of their members. *)
FaninClosedSets(g) ==
  {S \in SUBSET Vertices(g) : \A w \in S : Fanins(g, w) \subseteq S}

(* Everything a recursive walk down the fanins from v visits: the least of *)
(* these sets that holds v.                                                *)
Cones(g) ==
  LET closed == FaninClosedSets(g)
  IN  [v \in Vertices(g) |->
         {u \in Vertices(g) : \A S \in closed : v \in S => u \in S}]

(* Mutant: the fanin is taken for the index of its vertex. *)
MutMinimalIndices(g) == [v \in Vertices(g) |-> Min(Cones(g)[v]) - 1]

(* initialize_minimal_indices: the least index the walk from v meets. *)
MinimalIndices(g) == [v \in Vertices(g) |-> Min(Cones(g)[v])]

(* initialize_cois: the walk from v appends every gate it meets, each time *)
(* it meets it.  The table of the lists' lengths, which is all that is     *)
(* read of them.                                                           *)
CoiSizes(g) ==
  LET size[v \in Vertices(g)] ==
        IF IsLeaf(g, v) THEN 0
        ELSE 1 + MapThenSumSet(LAMBDA k : IF g[v][k] = 0 THEN 0 ELSE size[g[v][k]],
                               DOMAIN g[v])
  IN  size

(* Mutant: the fanins still name what they named before the insertions. *)
MutAddPINodes(h) ==
  LET slots == {s \in (DOMAIN h) \X (1 .. Len(h[1])) : h[s[1]][s[2]] = 0}
  IN  [v \in 1 .. Cardinality(slots) |-> [k \in 1 .. Len(h[1]) |-> 0]] \o h

(* add_PI_nodes on the gates h of a generated graph.  Every ignored fanin  *)
(* gets an input vertex of its own, inserted in front of all others, so    *)
(* the first one met ends up last; the pair of inputs a vertex begins with *)
(* is put in order.                                                        *)
AddPINodes(h) ==
  LET slots == {s \in (DOMAIN h) \X (1 .. Len(h[1])) : h[s[1]][s[2]] = 0}
      pis == Cardinality(slots)
      met(i, k) == Cardinality({s \in slots : s[1] < i \/ (s[1] = i /\ s[2] <= k)})
      input(i, k) == IF h[i][k] = 0 THEN pis + 1 - met(i, k) ELSE pis + h[i][k]
      inputs(i) == h[i][1] = 0 /\ h[i][2] = 0
      slot(i, k) == IF inputs(i) /\ k <= 2 THEN 3 - k ELSE k
  IN  [v \in 1 .. pis |-> [k \in 1 .. Len(h[1]) |-> 0]]
      \o [i \in DOMAIN h |-> [k \in DOMAIN h[i] |-> input(i, slot(i, k))]]

(* The fanins of a vertex, sorted: equal ones cannot be told apart. *)
Descending(s) ==
  LET p == CHOOSE q \in [DOMAIN s -> DOMAIN s] :
             /\ Range(q) = DOMAIN s
             /\ \A k \in 2 .. Len(s) : s[q[k - 1]] >= s[q[k]]
  IN  [k \in DOMAIN s |-> s[p[k]]]

(* make_canonical: the fanins of every vertex in descending order. *)
Canonical(g) == [v \in Vertices(g) |-> Descending(g[v])]
=============================================================================
