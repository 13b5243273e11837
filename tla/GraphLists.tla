----------------------------- MODULE GraphLists -----------------------------
(***************************************************************************)
(* What is made of the graphs the generator reports: the callback that     *)
(* keeps one graph of each kind (pd_generate_nonisomorphic and the other   *)
(* pd_ and pd3_ functions around the searches), the filters and the file   *)
(* of such a list, and generate_dags of the experiments, which corrects    *)
(* the lists by hand and turns their graphs into those the engines run on. *)
(***************************************************************************)
EXTENDS DagGenerator, PartialDag

VARIABLES
  kept,       \* the vector "dags" of the callback, for the present size
  generated,  \* the list of generate_dags
  stage       \* "search", "corrected" (the size is in the list), "initialized"

listVars == <<kept, generated, stage>>

(* Only lists of two-fanin graphs are made. *)
Listing == fanin = 2 /\ genType = "NOREAPPLY"

-----------------------------------------------------------------------------
(* The digraph a graph is for nauty: an arc from every internal fanin. *)
Arcs(g) == {a \in (DOMAIN g) \X (DOMAIN g) : a[1] \in Range(g[a[2]])}

Degree(g, v) ==
  <<Cardinality(Range(g[v]) \ {0}), Cardinality({w \in DOMAIN g : v \in Range(g[w])})>>

(* Isomorphic graphs have equally many vertices of every degree, which     *)
(* settles most pairs.                                                     *)
SameDegrees(g, h) ==
  \A d \in {Degree(g, v) : v \in DOMAIN g} :
    Cardinality({v \in DOMAIN g : Degree(g, v) = d})
      = Cardinality({v \in DOMAIN h : Degree(h, v) = d})

(* What the renamings of n vertices make of an arc, with their n: for the  *)
(* numbers of vertices of the graphs the callback gets.                    *)
Renamings ==
  UNION {{<<n, [a \in (1 .. n) \X (1 .. n) |-> <<p[a[1]], p[a[2]]>>]>> :
            p \in {q \in [1 .. n -> 1 .. n] : IsInjective(q)}} :
         n \in UNION {1 .. MaxVertices(f, "NOREAPPLY") : f \in FaninCounts}}

(* Mutant: the arcs of one graph are looked for in the other only. *)
MutIsomorphic(g, h) ==
  LET from == Arcs(g)  to == Arcs(h)
  IN  \E r \in Renamings : r[1] = Len(g) /\ \A a \in from : r[2][a] \in to

(* Equal canonical representations: some renaming takes the arcs of g to   *)
(* those of h.                                                             *)
Isomorphic(g, h) ==
  LET from == Arcs(g)  to == Arcs(h)
  IN  /\ Cardinality(from) = Cardinality(to) /\ SameDegrees(g, h)
      /\ \E r \in Renamings : r[1] = Len(g) /\ \A a \in from : r[2][a] \in to

(* "Already have an isomorphic representative", or the graph is new. *)
Keep(list, g) == IF \E n \in DOMAIN list : Isomorphic(list[n], g) THEN list ELSE Append(list, g)

(* pd_filter_isomorphic_fast: a graph goes if an earlier one, kept or not, *)
(* is isomorphic to it.                                                    *)
FilterFast(list) ==
  LET iso == {i \in DOMAIN list : \E j \in 1 .. i - 1 : Isomorphic(list[i], list[j])}
  IN  [n \in 1 .. Len(list) - Cardinality(iso) |->
         list[CHOOSE i \in DOMAIN list \ iso : Cardinality((1 .. i) \ iso) = n]]

(* nr_pi_fanins *)
NrPiFanins(g) == Cardinality({s \in (DOMAIN g) \X (1 .. Len(g[1])) : g[s[1]][s[2]] = 0})

(* trees_generate_filtered: the fanins are counted by the vertex they name,*)
(* and no count but that of the inputs may exceed one.                     *)
KeptAsTree(g) ==
  \A i \in 1 .. Len(g) - 1 :
    Cardinality({s \in (DOMAIN g) \X (1 .. Len(g[1])) : g[s[1]][s[2]] = i}) <= 1

-----------------------------------------------------------------------------
(* write_partial_dag: the number of vertices, then their fanins. *)
Written(g) == <<Len(g)>> \o FlattenSeq(g)
WrittenFile(list) == FlattenSeq([n \in DOMAIN list |-> Written(list[n])])

(* Mutant: a vertex of three fanins is read as one of two. *)
MutReadDags(file) ==
  LET read[p \in Nat \ {0}] ==
        IF p > Len(file) THEN <<>>
        ELSE LET n == file[p]
             IN  <<[v \in 1 .. n |-> [k \in 1 .. 2 |-> file[p + 2 * (v - 1) + k]]]>>
                 \o read[p + 2 * n + 1]
  IN  read[1]

(* read_partial_dags and read_partial_dag3s, from place p of the file on *)
ReadDags(file) ==
  LET read[p \in Nat \ {0}] ==
        IF p > Len(file) THEN <<>>
        ELSE LET n == file[p]
             IN  <<[v \in 1 .. n |-> [k \in 1 .. fanin |-> file[p + fanin * (v - 1) + k]]]>>
                 \o read[p + fanin * n + 1]
  IN  read[1]

-----------------------------------------------------------------------------
(* The graph of six vertices that stays, and how many graphs of the other  *)
(* sizes are popped.                                                       *)
OnlyOfSix == <<<<0, 0>>, <<0, 0>>, <<0, 1>>, <<0, 1>>, <<2, 3>>, <<4, 5>>>>
Pops == [n \in 1 .. 5 |-> CASE n = 3 -> 2 [] n = 4 -> 8 [] n = 5 -> 40 [] OTHER -> 0]

Popped(n, list) == SubSeq(list, 1, Len(list) - Pops[n])

(* "Adding missing structure", made from the last graph of the list. *)
Added(n, list) ==
  CASE n = 1 -> <<Last(list)>>
    [] n = 4 -> <<[Last(list) EXCEPT ![3][2] = 0]>>
    [] n = 6 -> <<[OnlyOfSix EXCEPT ![5][1] = 0, ![4][2] = @ + 2, ![3] = <<@[1] + 1, @[2] + 1>>]>>
    [] OTHER -> <<>>

Corrected(n, list) ==
  (IF n = 6 THEN SelectSeq(list, LAMBDA g : g = OnlyOfSix) ELSE Popped(n, list))
    \o Added(n, list)

(* get_longest_path: edges between gates, down from vertex v. *)
LongestPath(g, v) ==
  LET path[u \in DOMAIN g] == Max({0} \cup {1 + path[w] : w \in Range(g[u]) \ {0}})
  IN  path[v]

(* filtering_rules *)
FilteredOut(g) ==
  /\ Len(g) > 2
  /\ 0 \in Range(g[Root(g)]) \/ LongestPath(g, Root(g)) > Len(g) \div 2

(* Mutant: a gate takes the first gate instead of the third. *)
MutHeuristicAdded(n, list) ==
  CASE n = 1 -> <<Last(list)>>
    [] n = 4 -> <<<<<<0, 0>>, <<0, 1>>, <<1, 0>>, <<2, 3>>>>>>
    [] n = 6 -> <<<<<<0, 0>>, <<0, 0>>, <<1, 2>>, <<0, 1>>, <<0, 3>>, <<4, 5>>>>>>
    [] OTHER -> <<>>

(* One size of generate_dags_heuristics, which prints its list and ends    *)
(* the process: no graph is popped, and the missing ones are spelled out.  *)
HeuristicAdded(n, list) ==
  CASE n = 1 -> <<Last(list)>>
    [] n = 4 -> <<<<<<0, 0>>, <<0, 1>>, <<1, 0>>, <<2, 3>>>>>>
    [] n = 6 -> <<<<<<0, 0>>, <<0, 0>>, <<1, 2>>, <<0, 3>>, <<0, 3>>, <<4, 5>>>>>>
    [] OTHER -> <<>>

HeuristicList(n, list) ==
  LET left == SelectSeq(list, LAMBDA g : ~FilteredOut(g)) IN left \o HeuristicAdded(n, left)

(* Mutant: the vertex is looked for at the place it was met. *)
MutInsertInput(w, i, k, nr, moved) ==
  LET longer == <<[l \in DOMAIN w[1] |-> 0]>> \o w
      raised == [j \in DOMAIN longer |->
                   IF j <= nr + 1 THEN longer[j]
                   ELSE [l \in DOMAIN longer[j] |->
                           IF longer[j][l] > 0 THEN longer[j][l] + 1 ELSE 0]]
  IN  [raised EXCEPT ![i + 1][k] = 1]

(* One step of the inner loops of add_PI_nodes: the k-th fanin of the      *)
(* vertex met at place i gets an input in front of all others.  The place  *)
(* is not adjusted; "moved" (added[i]) says by how much the vertex has.    *)
InsertInput(w, i, k, nr, moved) ==
  LET longer == <<[l \in DOMAIN w[1] |-> 0]>> \o w
      raised == [j \in DOMAIN longer |->
                   IF j <= nr + 1 THEN longer[j]
                   ELSE [l \in DOMAIN longer[j] |->
                           IF longer[j][l] > 0 THEN longer[j][l] + 1 ELSE 0]]
  IN  [raised EXCEPT ![i + moved + 1][k] = 1]

(* How far the loops have come: the list, the place and the fanin they     *)
(* look at, the inputs inserted so far, and those of them at this place.   *)
Progress ==
  [list : Seq(Seq(Nat)), place : Nat \ {0}, slot : Nat \ {0}, nr : Nat, moved : Nat]

(* One turn of the inner loop, or its end: the next place is behind all    *)
(* inputs inserted so far.                                                 *)
NextTurn(p) ==
  IF p.slot > Len(p.list[p.place])
  THEN [p EXCEPT !.place = Max({@, p.nr}) + 1, !.slot = 1, !.moved = 0]
  ELSE IF p.list[p.place][p.slot] # 0 THEN [p EXCEPT !.slot = @ + 1]
  ELSE [p EXCEPT !.list = InsertInput(@, p.place, p.slot, p.nr, p.moved),
                 !.slot = @ + 1, !.nr = @ + 1, !.moved = @ + 1]

(* The loops over the vertices of h. *)
InsertInputs(h) ==
  LET loop[p \in Progress] == IF p.place > Len(p.list) THEN p.list ELSE loop[NextTurn(p)]
  IN  loop[[list |-> h, place |-> 1, slot |-> 1, nr |-> 0, moved |-> 0]]

(* The last pass over the vertices: a pair of inputs in front is swapped   *)
(* where the fanins are not ascending.                                     *)
SwapInputs(w) ==
  [v \in DOMAIN w |->
     IF /\ \E k \in 1 .. Len(w[v]) - 1 : w[v][k] > w[v][k + 1]
        /\ IsLeaf(w, w[v][1]) /\ IsLeaf(w, w[v][2])
     THEN [w[v] EXCEPT ![1] = w[v][2], ![2] = w[v][1]]
     ELSE w[v]]

InsertedInPlace(h) == SwapInputs(InsertInputs(h))

-----------------------------------------------------------------------------
(* The walk down the fanins that initialize_cois, initialize_minimal_      *)
(* indices and initialize_dfs_sequence make: a vertex as often as it has   *)
(* paths from v.                                                           *)
Walk(g, v) ==
  LET walk[u \in DOMAIN g] ==
        <<u>> \o FlattenSeq([k \in DOMAIN g[u] |-> IF g[u][k] = 0 THEN <<>> ELSE walk[g[u][k]]])
  IN  walk[v]

(* Mutant: every visit is recorded. *)
MutDfsSequence(g) == Walk(g, Root(g))

(* initialize_dfs_sequence: a vertex when the walk first meets it. *)
DfsSequence(g) ==
  FoldLeft(LAMBDA seen, v : IF v \in Range(seen) THEN seen ELSE Append(seen, v),
           <<>>, Walk(g, Root(g)))

(* add_PI_nodes and initialize *)
Initialized(h) == [vertices |-> Canonical(AddPINodes(h)), gates |-> Len(h)]

-----------------------------------------------------------------------------
ListInit == Init /\ kept = <<>> /\ generated = <<>> /\ stage = "search"

(* The search between two callbacks. *)
Search == (Choose \/ Exhausted \/ Reject) /\ UNCHANGED listVars

(* A graph is found and goes through the callback. *)
Report ==
  /\ Accept
  /\ kept' = IF genType = "NOREAPPLY" THEN Keep(kept, steps) ELSE kept
  /\ UNCHANGED <<generated, stage>>

(* One size of generate_dags. *)
Correct ==
  /\ calls = <<>> /\ stage = "search"
  /\ generated' = IF Listing THEN generated \o Corrected(nrVertices, kept) ELSE generated
  /\ stage' = "corrected"
  /\ UNCHANGED <<vars, kept>>

NextList ==
  /\ stage = "corrected"
  /\ NextSize
  /\ kept' = <<>> /\ stage' = "search"
  /\ UNCHANGED generated

(* The first graph, a single input, gets no inputs of its own. *)
Initialize ==
  /\ stage = "corrected" /\ AtMaximum
  /\ generated' = [n \in DOMAIN generated |->
                     IF n = 1 THEN [vertices |-> generated[1], gates |-> 0]
                     ELSE Initialized(generated[n])]
  /\ stage' = "initialized"
  /\ UNCHANGED <<vars, kept>>

ListDone == stage = "initialized" /\ UNCHANGED <<vars, listVars>>

ListNext == Search \/ Report \/ Correct \/ NextList \/ Initialize \/ ListDone

(* One thread, as in the generator. *)
ListSpec ==
  ListInit /\ [][ListNext]_<<vars, listVars>> /\ WF_<<vars, listVars>>(ListNext)

-----------------------------------------------------------------------------
SearchDone == calls = <<>> /\ stage = "search" /\ genType = "NOREAPPLY"

(* The callback, which compares a graph with those kept, and the filter of *)
(* the whole list afterwards, which compares it with all before it, leave  *)
(* the same graphs.                                                        *)
FiltersAgree == SearchDone /\ nrVertices <= 5 => FilterFast(dags) = kept

(* "Delete DAG if it is not a tree": counting the fanins keeps just the    *)
(* reported graphs that have as many inputs as a tree of their size.       *)
TreesAreKept ==
  SearchDone => \A n \in DOMAIN dags :
    KeptAsTree(dags[n]) <=> NrPiFanins(dags[n]) = (fanin - 1) * nrVertices + 1

(* What a file of one list is read back as. *)
FileReadsBack == SearchDone => ReadDags(WrittenFile(kept)) = kept

(* "Adding missing structure": the list is long enough for all the         *)
(* corrections, which find what they look for, and no graph they add is    *)
(* isomorphic to one the search reported (the second gate apart).          *)
AddedAreMissing ==
  SearchDone /\ Listing =>
    /\ nrVertices \in DOMAIN Pops => Len(kept) > Pops[nrVertices]
    /\ nrVertices = 6 => OnlyOfSix \in Range(kept)
    /\ nrVertices > 1 => \A g \in Range(Added(nrVertices, kept)) :
         \A n \in DOMAIN dags : ~Isomorphic(dags[n], g)

(* Both lists add the same structures where the search missed one, and     *)
(* apart from the first one, which is wanted twice, the list of            *)
(* generate_dags_heuristics has no structure twice.                        *)
ListsAddTheSame ==
  SearchDone /\ Listing =>
    LET list == HeuristicList(nrVertices, kept)
        added == HeuristicAdded(nrVertices, kept)
    IN  /\ Len(added) = Len(Added(nrVertices, kept))
        /\ \A n \in DOMAIN added : Isomorphic(added[n], Added(nrVertices, kept)[n])
        /\ nrVertices > 1 =>
             \A n \in DOMAIN list : \A m \in 1 .. n - 1 : ~Isomorphic(list[m], list[n])

(* The loop of add_PI_nodes, which inserts vertices into the list it walks *)
(* over, gives every ignored fanin the input AddPINodes says.              *)
InsertionAsDefined ==
  SearchDone => \A n \in DOMAIN dags : InsertedInPlace(dags[n]) = AddPINodes(dags[n])

(* What the engines take for granted of a graph: inputs in front, one for  *)
(* each fanin; fanins below their vertex, ignored ones last; no vertex     *)
(* beside the root without a parent.                                       *)
FitsEngines(d) ==
  LET g == d.vertices
  IN  \A v \in Vertices(g) :
        /\ IsLeaf(g, v) <=> v <= Len(g) - d.gates
        /\ \A k \in DOMAIN g[v] :
             g[v][k] < v /\ (g[v][k] # 0 <=> k <= NumChildren(g, v))
        /\ v # Root(g) => Parents(g, v) # {}
        /\ IsLeaf(g, v) => Cardinality(Parents(g, v)) <= 1

(* Every graph the searches report, over two fanins and over three, fits   *)
(* the engines once add_PI_nodes and initialize have completed it.         *)
ReportedFitEngines ==
  SearchDone => \A n \in DOMAIN dags : FitsEngines(Initialized(dags[n]))

(* generate_dags hands the engines graphs they can run on, those corrected *)
(* by hand and the first, which stays as it is, among them; the            *)
(* minimal index of the root is 0 (test "get_minimal_index"); the tables   *)
(* of PartialDag are what the recursive walks find; the sequence of the    *)
(* test "dfs vector" has every vertex once.                                *)
ListFitsEngines ==
  stage = "initialized" => \A n \in DOMAIN generated :
    LET g == generated[n].vertices
    IN  /\ FitsEngines(generated[n])
        /\ MinimalIndices(g)[Root(g)] = 1
        /\ \A v \in Vertices(g) :
             /\ Cones(g)[v] = Range(Walk(g, v))
             /\ CoiSizes(g)[v] = Len(SelectSeq(Walk(g, v), LAMBDA u : ~IsLeaf(g, u)))
        /\ IsInjective(DfsSequence(g)) /\ Range(DfsSequence(g)) = Vertices(g)
        /\ \A i \in 2 .. Len(g) : \E j \in 1 .. i - 1 :
             DfsSequence(g)[j] \in Parents(g, DfsSequence(g)[i])

(* Every list gets finished. *)
ListsDone == <>(stage = "initialized")
=============================================================================
