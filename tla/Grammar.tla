------------------------------- MODULE Grammar -------------------------------
(***************************************************************************)
(* The grammar of the formulas: class grammar and the attributes of its    *)
(* symbols, and what the engines read off an assignment a of symbols to    *)
(* the vertices of a graph g.  Symbols are their indexes in the grammar,   *)
(* numbered from 1; truth tables are sets of minterms.                     *)
(***************************************************************************)
EXTENDS PartialDag

CONSTANTS
  Arity,                \* num_children of every symbol, a sequence
  Commutative,          \* symbols with that attribute
  Idempotent,           \* symbols with that attribute
  RootSymbols,          \* get_root_nodes_indexes()
  Minterms,             \* the input combinations of a truth table
  NodeOperation(_, _)   \* node_operation of a symbol on its children's tables

Symbols == DOMAIN Arity
Tables == SUBSET Minterms

ASSUME SymbolAssumption ==
  /\ Arity \in Seq(0 .. 2)
  /\ Commutative \subseteq Symbols /\ Idempotent \subseteq Symbols
  /\ \A s \in Commutative \cup Idempotent : Arity[s] = 2

ASSUME OperationAssumption ==
  \A s \in Symbols : \A tables \in [1 .. Arity[s] -> Tables] :
    NodeOperation(s, tables) \in Tables

(* The symbols vertex v may carry: those with as many children as it has   *)
(* fanins, for the last vertex only those that may be a root.              *)
PossibleAssignments(g) ==
  [v \in Vertices(g) |->
     {s \in Symbols : /\ Arity[s] = NumChildren(g, v)
                      /\ v = Root(g) => s \in RootSymbols}]

(* The truth table of v from those of its fanins. *)
TableAt(g, a, tables, v) ==
  NodeOperation(a[v], [k \in 1 .. NumChildren(g, v) |-> tables[g[v][k]]])

(* The function an assignment gives every vertex. *)
Simulate(g, a) ==
  LET table[v \in Vertices(g)] == TableAt(g, a, table, v)
  IN  table

(* The positions at which v has a leaf for a fanin. *)
LeafInputs(g, v) == {k \in DOMAIN g[v] : g[v][k] # 0 /\ IsLeaf(g, g[v][k])}

(* The two tests on the leaves below one vertex: their symbols, in fanin   *)
(* order, are not sorted, respectively not unique.                         *)
SwappedInputs(g, a, v) ==
  /\ a[v] \in Commutative
  /\ \E j, k \in LeafInputs(g, v) : j < k /\ a[g[v][j]] > a[g[v][k]]

RepeatedInput(g, a, v) ==
  /\ a[v] \in Idempotent
  /\ \E j, k \in LeafInputs(g, v) : j # k /\ a[g[v][j]] = a[g[v][k]]
=============================================================================
