------------------------------ MODULE Pruning ------------------------------
(***************************************************************************)
(* What a list of graphs, a grammar and a client must be like for the      *)
(* truth tables of SequentialEnumerator to cost no function.  A module of  *)
(* its own, since TLC computes every constant of the module it runs.       *)
(***************************************************************************)
EXTENDS SequentialEnumerator

(* The client lets the engine go through every graph. *)
PatientClient == CallbackTasks \subseteq {"Nothing", "DoNotIncrease"}

(* The graphs come by their numbers of gates. *)
GrowingSizes == \A d, e \in Graphs : d <= e => NrGates(d) <= NrGates(e)

(* The first vertex is one the root depends on: the inputs are put in      *)
(* front of gates that all lead to the root.                               *)
RootReachesFirst == \A d \in Graphs : 1 \in Cones(Graph(d))[Root(Graph(d))]

RootTableOf ==
  [d \in Graphs |->
     [a \in Readings(PossibleOf[d]) |-> Simulate(Graph(d), a)[Root(Graph(d))]]]

Earlier(e, b, d, a) == e < d \/ (e = d /\ Before(b, a))

(* A formula with the symbols of an earlier one from p on. *)
InBlock(d, a, p) ==
  \E c \in Readings(PossibleOf[d]) :
    Before(c, a) /\ \A u \in Vertices(Graph(d)) : u >= p => c[u] = a[u]

(* The formulas that skips at p can leave out: a gate above p computes an  *)
(* input, what another gate above p computes, or what an earlier formula   *)
(* of fewer gates than its cone computes.                                  *)
MayBeSkipped(d, a) ==
  /\ NrGates(d) > 3
  /\ LET f == Simulate(Graph(d), a)
     IN  \E v \in Gates(Graph(d)) : \E p \in 2 .. MinimalIndexOf[d][v] :
           /\ InBlock(d, a, p)
           /\ \/ \E s \in Symbols : Arity[s] = 0 /\ NodeOperation(s, <<>>) = f[v]
              \/ \E w \in Gates(Graph(d)) \ {v} : p <= MinimalIndexOf[d][w] /\ f[w] = f[v]
              \/ \E e \in Graphs : \E b \in Readings(PossibleOf[e]) :
                   /\ RootTableOf[e][b] = f[v] /\ CoiSizeOf[d][v] > NrGates(e)
                   /\ Earlier(e, b, d, a) /\ NoDuplicate(e, b)

(* Whatever these formulas compute, an earlier one computes as well. *)
Replaceable ==
  \A d \in Graphs : \A a \in Readings(PossibleOf[d]) :
    NoDuplicate(d, a) /\ MayBeSkipped(d, a) =>
      \E e \in Graphs : \E b \in Readings(PossibleOf[e]) :
        Earlier(e, b, d, a) /\ NoDuplicate(e, b) /\ RootTableOf[e][b] = RootTableOf[d][a]
=============================================================================
