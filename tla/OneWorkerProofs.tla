--------------------------- MODULE OneWorkerProofs ---------------------------
(***************************************************************************)
(* Theorems about ParallelEnumerator run with one thread.  Formulas are    *)
(* filed under the graph they are of, the assertion on the sizes holds, a  *)
(* jump leaves out duplicates only, and nothing is left over when the      *)
(* enumeration ends.  The first three fail as soon as a second worker      *)
(* moves the shared graph or its counter on while the first is still at    *)
(* work with its formula: what the code takes for granted there is that    *)
(* nobody else does.                                                       *)
(***************************************************************************)
EXTENDS ParallelProofs, FiniteSetTheorems

OneWorker == \A w, u \in Workers : w = u

(* The graphs come by their numbers of gates, as the generator lists them. *)
GrowingSizes == \A d, e \in Graphs : d <= e => SizeOf[d] <= SizeOf[e]

(* The formula at work is one of the current graph; what is on file, or on *)
(* its way there, has the pattern's vertices; and every size on record is  *)
(* that of a graph the enumeration has come to.                            *)
Alone ==
  /\ \A w \in Workers : Evaluating(w) => pdagIndex[w] = currentPdag
  /\ \A w \in Workers : pc[w] = "file" => Accumulates(pdagIndex[w])
  /\ FiledUnderOwnGraph
  /\ \A f \in DOMAIN minimalSizes :
       \E d \in Graphs : d <= currentPdag /\ minimalSizes[f] = SizeOf[d]

LEMMA AloneInit == Init => Alone
BY DEF Init, Alone, FiledUnderOwnGraph, Evaluating, EvaluatingLabels, EmptyMap

(* Steps that take up no work and decide nothing. *)
LEMMA AloneKept ==
  ASSUME Alone, UNCHANGED <<storeVars, duplicated, minimalSizes, pdagIndex>>,
         \A u \in Workers : Evaluating(u)' => Evaluating(u),
         \A u \in Workers : pc'[u] = "file" => pc[u] = "file"
  PROVE  Alone'
BY DEF Alone, FiledUnderOwnGraph, storeVars

(* The only worker takes a formula of the graph that is current then. *)
LEMMA AloneTaken ==
  ASSUME OneWorker, TypeOK, Alone, NEW w \in Workers, NEW a,
         Take(w, currentPdag', a), currentPdag' \in Graphs, currentPdag <= currentPdag',
         UNCHANGED <<duplicated, minimalSizes>>
  PROVE  Alone'
<1>1. \A u \in Workers : u = w
  BY DEF OneWorker
<1>2. pdagIndex'[w] = currentPdag' /\ pc'[w] = "evaluate"
  BY DEF Take, GoTo, TypeOK
<1>3. ASSUME NEW f \in DOMAIN minimalSizes
      PROVE  \E d \in Graphs : d <= currentPdag' /\ minimalSizes[f] = SizeOf[d]
  <2>1. PICK d \in Graphs : d <= currentPdag /\ minimalSizes[f] = SizeOf[d]
    BY DEF Alone
  <2>2. d \in Nat /\ currentPdag \in Nat /\ currentPdag' \in Nat
    BY GraphsFacts DEF TypeOK
  <2>. QED  BY <2>1, <2>2
<1>. QED  BY <1>1, <1>2, <1>3 DEF Alone, FiledUnderOwnGraph

LEMMA AloneStep ==
  ASSUME OneWorker, TypeOK, Alone, [Next]_vars
  PROVE  Alone'
<1>1. CASE UNCHANGED vars \/ Terminated
  BY <1>1, AloneKept DEF Terminated, vars, threadVars, Evaluating
<1>2. ASSUME NEW w \in Workers, Step(w) PROVE Alone'
  <2>1. ASSUME NEW label, GoTo(w, label), label # "file",
               label \in EvaluatingLabels => Evaluating(w),
               UNCHANGED <<storeVars, duplicated, minimalSizes, pdagIndex>>
        PROVE  Alone'
    BY <2>1, AloneKept DEF GoTo, Evaluating, TypeOK
  <2>2. "top" \notin EvaluatingLabels /\ "fetch" \notin EvaluatingLabels
        /\ "exited" \notin EvaluatingLabels
    BY DEF EvaluatingLabels
  <2>3. CASE Leave(w) \/ WaitForCounter(w) \/ AbandonSkip(w)
    BY <2>1, <2>2, <2>3 DEF Leave, WaitForCounter, AbandonSkip, threadVars
  <2>4. CASE TurnCounter(w)
    <3>1. currentPdag' = currentPdag /\ currentPdag \in Nat /\ currentPdag \in Graphs
      BY <2>4, TurnCounterFacts, GraphsFacts
    <3>. QED  BY <2>4, <3>1, TurnCounterFacts, AloneTaken DEF TurnCounter
  <2>5. CASE NextGraph(w)
    BY <2>5, NextGraphFacts, AloneTaken DEF NextGraph
  <2>6. CASE Exhaust(w)
    <3>1. pc' = [pc EXCEPT ![w] = "exited"] /\ \A u \in Workers : u = w
      BY <2>6 DEF Exhaust, GoTo, OneWorker
    <3>2. \A u \in Workers : pc'[u] = "exited"
      BY <3>1 DEF TypeOK
    <3>. QED  BY <2>2, <2>6, <3>2 DEF Exhaust, Alone, FiledUnderOwnGraph, Evaluating
  <2>7. CASE RejectDuplicate(w) \/ PassOver(w)
    BY <2>1, <2>2, <2>7 DEF RejectDuplicate, PassOver, EndOfBody
  <2>8. CASE CallbackMisses(w) \/ CallbackFinds(w) \/ Publish(w)
    BY <2>1, <2>8 DEF CallbackMisses, CallbackFinds, Publish, WriteDot, WriteSolution,
       threadVars, Evaluating, EvaluatingLabels
  <2>9. CASE EnterFunction(w)
    <3>1. pdagIndex[w] = currentPdag /\ currentPdag \in Graphs /\ currentPdag \in Nat
      BY <2>9, GraphsFacts DEF EnterFunction, Alone, TypeOK, Evaluating, EvaluatingLabels
    <3>2. /\ UNCHANGED <<storeVars, duplicated, pdagIndex>> /\ pc' = [pc EXCEPT ![w] = "top"]
          /\ DOMAIN pc = Workers
      BY <2>9 DEF EnterFunction, EndOfBody, GoTo, TypeOK
    <3>3. \A u \in Workers : (Evaluating(u)' => Evaluating(u)) /\ (pc'[u] = "file" => pc[u] = "file")
      BY <2>2, <3>2 DEF Evaluating
    <3>4. \A f \in DOMAIN minimalSizes' :
            \E d \in Graphs : d <= currentPdag /\ minimalSizes'[f] = SizeOf[d]
      BY <2>9, <3>1 DEF EnterFunction, Alone
    <3>. QED  BY <3>2, <3>3, <3>4 DEF Alone, FiledUnderOwnGraph, storeVars
  <2>10. CASE DecideToFile(w)
    <3>1. /\ UNCHANGED <<storeVars, duplicated, minimalSizes, pdagIndex>>
          /\ pc' = [pc EXCEPT ![w] = "file"] /\ DOMAIN pc = Workers
          /\ Evaluating(w) /\ Accumulates(pdagIndex[w])
      BY <2>10 DEF DecideToFile, KnownFunction, WorthFiling, GoTo, threadVars, TypeOK,
         Evaluating, EvaluatingLabels
    <3>2. \A u \in Workers : Evaluating(u)' => Evaluating(u)
      BY <3>1 DEF Evaluating
    <3>. QED  BY <3>1, <3>2 DEF Alone, FiledUnderOwnGraph, storeVars
  <2>11. CASE FileDuplicate(w)
    <3>1. /\ UNCHANGED <<storeVars, minimalSizes, pdagIndex>>
          /\ pc' = [pc EXCEPT ![w] = "top"] /\ DOMAIN pc = Workers
          /\ duplicated' = [duplicated EXCEPT ![currentPdag] = @ \cup {held[w]}]
      BY <2>11 DEF FileDuplicate, EndOfBody, GoTo, TypeOK
    <3>2. /\ pdagIndex[w] = currentPdag /\ Accumulates(currentPdag)
          /\ held[w] \in Formulas(currentPdag)
      BY <2>11 DEF FileDuplicate, Alone, TypeOK, Evaluating, EvaluatingLabels
    <3>3. FiledUnderOwnGraph'
      BY <3>1, <3>2 DEF Alone, FiledUnderOwnGraph
    <3>4. \A u \in Workers : (Evaluating(u)' => Evaluating(u)) /\ (pc'[u] = "file" => pc[u] = "file")
      BY <2>2, <3>1 DEF Evaluating
    <3>. QED  BY <3>1, <3>3, <3>4 DEF Alone, storeVars
  <2>. QED  BY <1>2, <2>3, <2>4, <2>5, <2>6, <2>7, <2>8, <2>9, <2>10, <2>11
            DEF Step, Fetch, Evaluate, Accumulate
<1>. QED  BY <1>1, <1>2 DEF Next

LEMMA AloneAlways ==
  ASSUME OneWorker
  PROVE  Spec => []Alone
<1>1. TypeOK /\ Alone /\ [Next]_vars => Alone'
  BY AloneStep
<1>. QED  BY AloneInit, TypeCorrect, <1>1, PTL DEF Spec

(* A single worker files duplicates of the pattern's graph, under that     *)
(* graph: the unlocked read of current_pdag is harmless without others.    *)
THEOREM AloneFilesRightly ==
  ASSUME OneWorker
  PROVE  Spec => []FiledUnderOwnGraph
<1>1. Alone => FiledUnderOwnGraph
  BY DEF Alone
<1>. QED  BY AloneAlways, <1>1, PTL

(* A single worker given graphs by size satisfies the code's assertion:    *)
(* the size on record for a function is at most that of the graph at work. *)
THEOREM AloneAssertionHolds ==
  ASSUME OneWorker, GrowingSizes
  PROVE  Spec => []KnownSizeIsMinimal
<1>1. ASSUME TypeOK, Alone PROVE KnownSizeIsMinimal
  <2>. SUFFICES ASSUME NEW w \in Workers, KnownFunction(w)
                PROVE  minimalSizes[FunctionOf(w)] <= SizeOf[pdagIndex[w]]
    BY DEF KnownSizeIsMinimal
  <2>1. pdagIndex[w] = currentPdag /\ currentPdag \in Graphs
    BY <1>1 DEF KnownFunction, Alone, TypeOK, Evaluating, EvaluatingLabels
  <2>2. PICK d \in Graphs : d <= currentPdag /\ minimalSizes[FunctionOf(w)] = SizeOf[d]
    BY <1>1 DEF KnownFunction, Alone
  <2>. QED  BY <2>1, <2>2 DEF GrowingSizes
<1>. QED  BY AloneAlways, TypeCorrect, <1>1, PTL
-----------------------------------------------------------------------------
(* Accumulation without effect: duplicates are filed under the pattern's   *)
(* graph, where no vertex below the root has the pattern for its cone.     *)

(* Everything v depends on is numbered like v or lower. *)
LEMMA ConeBelow ==
  ASSUME NEW d \in Graphs, NEW v \in Vertices(Dags[d])
  PROVE  /\ Cones(Dags[d])[v] \subseteq 1 .. v /\ v \in Cones(Dags[d])[v]
         /\ IsFiniteSet(Cones(Dags[d])[v]) /\ Cardinality(Cones(Dags[d])[v]) <= v
<1>. DEFINE g == Dags[d]
            below == 1 .. v
<1>1. g \in Seq(Seq(Nat)) /\ Vertices(g) = 1 .. Len(g) /\ v \in Nat /\ v <= Len(g)
      /\ \A w \in Vertices(g) : \A k \in DOMAIN g[w] : g[w][k] < w /\ g[w][k] \in Nat
  BY DagsAssumption DEF Graphs, Vertices
<1>2. below \in FaninClosedSets(g)
  <2>1. below \subseteq Vertices(g)
    BY <1>1
  <2>2. ASSUME NEW w \in below, NEW u \in Fanins(g, w) PROVE u \in below
    <3>1. PICK k \in DOMAIN g[w] : u = g[w][k] /\ u # 0
      BY <2>2 DEF Fanins
    <3>2. u \in Nat /\ u # 0 /\ u < w /\ w <= v /\ w \in Nat /\ v \in Nat
      BY <1>1, <2>1, <3>1
    <3>. QED  BY <3>2
  <2>. QED  BY <2>1, <2>2 DEF FaninClosedSets
<1>3. Cones(g)[v] \subseteq below /\ v \in Cones(g)[v]
  <2>1. v \in below
    BY <1>1
  <2>. QED  BY <1>2, <2>1 DEF Cones
<1>4. IsFiniteSet(below) /\ Cardinality(below) = v
  BY <1>1, FS_Interval
<1>. QED  BY <1>3, <1>4, FS_Subset

LEMMA NoPatternInItself ==
  ASSUME NEW d \in Graphs, Accumulates(d)
  PROVE  DOMAIN PositionsOf[d] = {}
<1>. DEFINE g == Dags[d]
            tops == {v \in Vertices(g) \ {Root(g)} : Subgraph(g, v) = Pattern}
<1>1. g \in Seq(Seq(Nat)) /\ Len(g) \in Nat \ {0} /\ DOMAIN g = 1 .. Len(g)
  BY DagsAssumption DEF Graphs
<1>2. ASSUME NEW v \in tops PROVE FALSE
  <2>. DEFINE size == Cardinality(Cones(g)[v])
  <2>1. v \in 1 .. Len(g) /\ v # Len(g) /\ Subgraph(g, v) = g
    BY <1>1 DEF Accumulates, Vertices, Root
  <2>2. size <= v /\ size \in Nat
    BY <2>1, <1>1, ConeBelow, FS_CardinalityType DEF Vertices
  <2>3. DOMAIN Subgraph(g, v) = 1 .. size
    BY DEF Subgraph, Ascending
  <2>4. 1 .. Len(g) = 1 .. size
    BY <1>1, <2>1, <2>3
  <2>5. Len(g) \in 1 .. Len(g)
    BY <1>1
  <2>6. Len(g) \in 1 .. size
    BY <2>4, <2>5
  <2>. QED  BY <1>1, <2>1, <2>2, <2>6
<1>3. tops = {}
  BY <1>2
<1>4. Ascending({}) = [k \in 1 .. 0 |-> CHOOSE v \in {} : Cardinality({u \in {} : u <= v}) = k]
  BY FS_EmptySet DEF Ascending
<1>5. Len(Ascending({})) = 0
  BY <1>4
<1>6. DOMAIN Reverse(Ascending({})) = {}
  BY <1>5 DEF Reverse
<1>. QED  BY <1>3, <1>6 DEF PositionsOf

LEMMA NothingOnFile ==
  ASSUME FiledUnderOwnGraph, NEW d \in Graphs, NEW a
  PROVE  FiledOccurrences(d, a) = {}
<1>1. CASE Accumulates(d)
  BY <1>1, NoPatternInItself DEF FiledOccurrences
<1>2. CASE ~Accumulates(d)
  <2>1. duplicated[d] = {}
    BY <1>2 DEF FiledUnderOwnGraph
  <2>. QED  BY <2>1 DEF FiledOccurrences
<1>. QED  BY <1>1, <1>2
-----------------------------------------------------------------------------
(* What a jump leaves out.                                                 *)

(* The input vertices of a gate lie side by side, in order.  So they do    *)
(* when add_PI_nodes has inserted them.                                    *)
PairsAdjacent ==
  \A d \in Graphs : \A v \in Vertices(Dags[d]) : \A j, k \in LeafInputs(Dags[d], v) :
    j < k => Dags[d][v][k] = Dags[d][v][j] + 1

(* Nothing can be rejected for having the inputs of another gate: that     *)
(* test asks for a jump over formulas that pass it.                        *)
NoTwinGates ==
  \/ SameGate = {}
  \/ \A d \in Graphs : \A u, v \in Vertices(Dags[d]) :
       /\ LeafInputs(Dags[d], u) = DOMAIN Dags[d][u]
       /\ LeafInputs(Dags[d], v) = DOMAIN Dags[d][v]
       => u = v

Regular == PairsAdjacent /\ NoTwinGates /\ Idempotent \subseteq Commutative

(* Why a vertex makes a formula a duplicate: the symbols of its two inputs *)
(* are not in ascending order, and the jump is for the second of them.     *)
LEMMA DuplicatePair ==
  ASSUME Regular, NEW d \in Graphs, NEW a \in Formulas(d),
         NEW v \in DuplicateVertices(Dags[d], a)
  PROVE  \E x \in Vertices(Dags[d]) :
           /\ x \in Nat /\ x + 1 \in Vertices(Dags[d]) /\ x + 1 < v
           /\ VertexPosition(Dags[d], a, v) = x + 1
           /\ \A b \in Formulas(d) :
                b[v] = a[v] /\ b[x] >= a[x] /\ b[x + 1] = a[x + 1] =>
                  v \in DuplicateVertices(Dags[d], b)
<1>. DEFINE g == Dags[d]
<1>1. /\ g \in Seq(Seq(Nat)) /\ Vertices(g) = 1 .. Len(g) /\ v \in Vertices(g) /\ v \in Nat
      /\ \A k \in DOMAIN g[v] : g[v][k] \in Nat /\ g[v][k] < v
      /\ DOMAIN g[v] = 1 .. Len(g[v]) /\ Len(g[v]) \in Nat
  BY DagsAssumption DEF Graphs, Vertices, DuplicateVertices
<1>2. \A b \in Formulas(d) : \A u \in Vertices(g) :
        b[u] \in Symbols /\ b[u] \in Nat /\ Arity[b[u]] = NumChildren(g, u)
  <2>1. PossibleOf[d] = PossibleAssignments(g) /\ DOMAIN PossibleOf[d] = Vertices(g)
    BY DEF PossibleOf, PossibleAssignments
  <2>2. Symbols \subseteq Nat
    BY SymbolAssumption DEF Symbols
  <2>3. ASSUME NEW b \in Formulas(d), NEW u \in Vertices(g)
        PROVE  b[u] \in Symbols /\ Arity[b[u]] = NumChildren(g, u)
    <3>1. b[u] \in PossibleAssignments(g)[u]
      BY <2>1, FormulasFacts DEF IsReading
    <3>. QED  BY <3>1 DEF PossibleAssignments
  <2>. QED  BY <2>2, <2>3
<1>3. ~SameInputs(g, a, v)
  <2>1. SUFFICES ASSUME SameInputs(g, a, v) PROVE FALSE
    OBVIOUS
  <2>2. PICK u \in Vertices(g) : u > v /\ LeafInputs(g, u) = DOMAIN g[u]
    BY <2>1 DEF SameInputs
  <2>3. LeafInputs(g, v) = DOMAIN g[v] /\ SameGate # {}
    BY <2>1 DEF SameInputs
  <2>4. u = v
    BY <2>2, <2>3, <1>1 DEF Regular, NoTwinGates
  <2>. QED  BY <2>2, <2>4, <1>1
<1>4. PICK j, k \in LeafInputs(g, v) :
        /\ j < k
        /\ \/ a[v] \in Commutative /\ a[g[v][j]] > a[g[v][k]]
           \/ a[v] \in Idempotent /\ a[g[v][j]] = a[g[v][k]]
  <2>1. LeafInputs(g, v) \subseteq 1 .. Len(g[v])
    BY <1>1 DEF LeafInputs
  <2>3. CASE SwappedInputs(g, a, v)
    BY <2>3 DEF SwappedInputs
  <2>4. CASE RepeatedInput(g, a, v)
    <3>1. PICK i, m \in LeafInputs(g, v) : i # m /\ a[g[v][i]] = a[g[v][m]]
      BY <2>4 DEF RepeatedInput
    <3>2. i \in Nat /\ m \in Nat
      BY <2>1, <1>1
    <3>3. i < m \/ m < i
      BY <3>1, <3>2
    <3>. QED  BY <2>4, <3>1, <3>3 DEF RepeatedInput
  <2>. QED  BY <2>3, <2>4, <1>3 DEF DuplicateVertices
<1>5. a[v] \in Commutative /\ NumChildren(g, v) = 2
  <2>1. a[v] \in Commutative
    BY <1>4 DEF Regular
  <2>. QED  BY <2>1, <1>1, <1>2, SymbolAssumption
<1>. DEFINE x == g[v][j]
<1>6. /\ x \in Nat /\ x # 0 /\ g[v][k] = x + 1 /\ x + 1 < v
      /\ x \in Vertices(g) /\ x + 1 \in Vertices(g)
  <2>1. g[v][k] = x + 1
    BY <1>1, <1>4 DEF Regular, PairsAdjacent
  <2>2. x \in Nat /\ x # 0 /\ x + 1 < v
    BY <1>1, <1>4, <2>1 DEF LeafInputs
  <2>3. v \in Nat /\ v <= Len(g) /\ Len(g) \in Nat
    BY <1>1
  <2>4. \A y \in Nat : y # 0 /\ y + 1 < v => y \in 1 .. Len(g) /\ y + 1 \in 1 .. Len(g)
    BY <2>3
  <2>. QED  BY <2>1, <2>2, <2>4, <1>1
<1>7. Fanins(g, v) = {x, x + 1}
  <2>. DEFINE used == {i \in DOMAIN g[v] : g[v][i] # 0}
  <2>1. {j, k} \subseteq used /\ j # k
    BY <1>1, <1>4 DEF LeafInputs
  <2>2. IsFiniteSet(used) /\ Cardinality(used) = 2
    <3>1. IsFiniteSet(1 .. Len(g[v]))
      <4>1. 1 \in Int /\ Len(g[v]) \in Int
        BY <1>1
      <4>. QED  BY <4>1, FS_Interval
    <3>2. used \subseteq 1 .. Len(g[v])
      BY <1>1
    <3>. QED  BY <3>1, <3>2, <1>5, FS_Subset DEF NumChildren
  <2>3. Cardinality({j, k}) = 2
    <3>1. IsFiniteSet({j}) /\ Cardinality({j}) = 1
      BY FS_Singleton
    <3>2. {j, k} = {j} \cup {k} /\ k \notin {j}
      BY <2>1
    <3>3. Cardinality({j} \cup {k}) = 1 + 1
      BY <3>1, <3>2, FS_AddElement
    <3>. QED  BY <3>2, <3>3
  <2>4. used = {j, k}
    BY <2>1, <2>2, <2>3, FS_Subset
  <2>5. Fanins(g, v) = {g[v][i] : i \in used}
    BY DEF Fanins
  <2>. QED  BY <2>4, <2>5, <1>6
<1>8. VertexPosition(g, a, v) = x + 1
  <2>1. Max({x, x + 1}) = x + 1
    <3>1. \A y \in {x, x + 1} : (\A z \in {x, x + 1} : y >= z) <=> y = x + 1
      BY <1>6
    <3>. QED  BY <3>1 DEF Max
  <2>. QED  BY <2>1, <1>3, <1>7 DEF VertexPosition
<1>9. ASSUME NEW b \in Formulas(d), b[v] = a[v], b[x] >= a[x], b[x + 1] = a[x + 1]
      PROVE  v \in DuplicateVertices(g, b)
  <2>1. b[x] \in Nat /\ a[x] \in Nat /\ a[x + 1] \in Nat
    BY <1>2, <1>6
  <2>2. CASE b[x] > b[x + 1]
    <3>1. b[g[v][j]] > b[g[v][k]] /\ b[v] \in Commutative
      BY <2>2, <1>5, <1>6, <1>9
    <3>2. SwappedInputs(g, b, v)
      BY <1>4, <3>1 DEF SwappedInputs
    <3>. QED  BY <3>2, <1>1 DEF DuplicateVertices
  <2>3. CASE ~(b[x] > b[x + 1])
    <3>1. b[x] = b[x + 1] /\ a[v] \in Idempotent
      BY <2>1, <2>3, <1>4, <1>6, <1>9
    <3>2. b[g[v][j]] = b[g[v][k]] /\ b[v] \in Idempotent /\ j # k
      <4>1. j \in Nat /\ k \in Nat
        BY <1>1 DEF LeafInputs
      <4>. QED  BY <3>1, <1>4, <1>6, <1>9, <4>1
    <3>3. RepeatedInput(g, b, v)
      BY <3>2 DEF RepeatedInput
    <3>. QED  BY <3>3, <1>1 DEF DuplicateVertices
  <2>. QED  BY <2>2, <2>3
<1>. QED  BY <1>6, <1>8, <1>9

(* The vertices of a graph, as wheels of its counter. *)
LEMMA WheelsFacts ==
  ASSUME NEW d \in Graphs
  PROVE  /\ IsWheels(PossibleOf[d]) /\ Len(Dags[d]) \in Nat
         /\ DOMAIN PossibleOf[d] = Vertices(Dags[d]) /\ Vertices(Dags[d]) = 1 .. Len(Dags[d])
<1>1. Dags[d] \in Seq(Seq(Nat))
  BY DagsAssumption DEF Graphs
<1>. QED  BY <1>1, GraphsFacts DEF PossibleOf, PossibleAssignments, Vertices

(* The formulas that stand between a and the one a turn at p leads to. *)
LeftOut(d, a, b, p) ==
  /\ Before(a, b)
  /\ Turns(PossibleOf[d], a, p) => Before(b, IncreaseAt(PossibleOf[d], a, p))

(* The jump asked for by a duplicate leaves out duplicates only. *)
LEMMA JumpLeavesOutDuplicates ==
  ASSUME Regular, NEW d \in Graphs, NEW a \in Formulas(d), NEW b \in Formulas(d),
         DuplicateVertices(Dags[d], a) # {},
         LeftOut(d, a, b, VertexPosition(Dags[d], a, Max(DuplicateVertices(Dags[d], a))))
  PROVE  DuplicateVertices(Dags[d], b) # {}
<1>. DEFINE dv == DuplicateVertices(Dags[d], a)
            v == Max(dv)
<1>1. v \in dv
  <2>1. dv \subseteq 0 .. Len(Dags[d]) /\ Len(Dags[d]) \in Nat
    BY WheelsFacts DEF DuplicateVertices
  <2>. QED  BY <2>1, MaxOfNaturals
<1>2. PICK x \in Vertices(Dags[d]) :
        /\ x \in Nat /\ x + 1 \in Vertices(Dags[d]) /\ x + 1 < v
        /\ VertexPosition(Dags[d], a, v) = x + 1
        /\ \A c \in Formulas(d) :
             c[v] = a[v] /\ c[x] >= a[x] /\ c[x + 1] = a[x + 1] =>
               v \in DuplicateVertices(Dags[d], c)
  BY <1>1, DuplicatePair
<1>3. v \in Vertices(Dags[d]) /\ v \in Nat
  BY <1>1, WheelsFacts DEF DuplicateVertices
<1>4. IsReading(PossibleOf[d], a) /\ IsReading(PossibleOf[d], b)
      /\ DOMAIN a = Vertices(Dags[d])
      /\ \A u \in Vertices(Dags[d]) : u \in Nat /\ a[u] \in Nat /\ b[u] \in Nat
  BY FormulasFacts, WheelsFacts DEF IsReading, IsWheels
<1>5. \A u \in Vertices(Dags[d]) : u >= x + 1 => b[u] = a[u]
  <2>1. LeftOut(d, a, b, x + 1) /\ x + 1 \in Nat
    BY <1>2
  <2>2. ASSUME NEW p \in Nat, LeftOut(d, a, b, p)
        PROVE  \A u \in DOMAIN PossibleOf[d] : u >= p => b[u] = a[u]
    <3>1. Before(a, b) /\ (Turns(PossibleOf[d], a, p) => Before(b, IncreaseAt(PossibleOf[d], a, p)))
      BY <2>2 DEF LeftOut
    <3>2. IsWheels(PossibleOf[d])
      BY WheelsFacts
    <3>3. IsReading(PossibleOf[d], a) /\ IsReading(PossibleOf[d], b)
      BY <1>4
    <3>. QED  BY <3>1, <3>2, <3>3, JumpedOverAgree
  <2>. QED  BY <2>1, <2>2, WheelsFacts
<1>6. b[x] >= a[x]
  <2>1. PICK u \in Vertices(Dags[d]) :
          a[u] < b[u] /\ \A w \in Vertices(Dags[d]) : w > u => a[w] = b[w]
    BY <1>4 DEF LeftOut, Before
  <2>2. u < x + 1
    BY <1>2, <1>4, <1>5, <2>1
  <2>3. u = x \/ x > u
    BY <1>2, <1>4, <2>2
  <2>. QED  BY <1>4, <2>1, <2>3
<1>7. b[v] = a[v] /\ b[x + 1] = a[x + 1]
  BY <1>2, <1>3, <1>5
<1>. QED  BY <1>2, <1>6, <1>7

-----------------------------------------------------------------------------
(* A single worker's jump starts from the formula that asked for it.       *)

(* What w holds while it works or wants a jump is what the counter shows;  *)
(* the position of a jump is the one of the duplicate it holds, and there  *)
(* is none to inherit otherwise.                                           *)
JumpReady ==
  \A w \in Workers :
    /\ Evaluating(w) => ~WantsSkip(w) /\ held[w] = counter[currentPdag]
    /\ ~WantsSkip(w) => increaseAt[w] = 1
    /\ pc[w] \in {"top", "fetch"} /\ WantsSkip(w) =>
         LET dv == DuplicateVertices(Dags[currentPdag], counter[currentPdag])
         IN  /\ pdagIndex[w] = currentPdag /\ held[w] = counter[currentPdag]
             /\ dv # {}
             /\ increaseAt[w] = VertexPosition(Dags[currentPdag], counter[currentPdag], Max(dv))

LEMMA JumpReadyInit == Init => JumpReady
BY DEF Init, JumpReady, Evaluating, EvaluatingLabels, WantsSkip

(* Nobody overtakes a worker that is alone. *)
LEMMA NeverOvertaken ==
  ASSUME JumpReady, NEW w \in Workers, pc[w] = "fetch", WantsSkip(w)
  PROVE  ~Overtaken(w)
BY DEF JumpReady, Overtaken

(* Steps that leave the counter and the request alone. *)
LEMMA JumpReadyKept ==
  ASSUME JumpReady, UNCHANGED <<storeVars, threadVars>>,
         \A u \in Workers : Evaluating(u)' => Evaluating(u),
         \A u \in Workers : pc'[u] \in {"top", "fetch"} => pc[u] \in {"top", "fetch"}
  PROVE  JumpReady'
BY DEF JumpReady, storeVars, threadVars, WantsSkip

(* The end of the body for a formula that is no duplicate. *)
LEMMA JumpReadyEnd ==
  ASSUME OneWorker, TypeOK, JumpReady, NEW w \in Workers, Evaluating(w),
         EndOfBody(w, increaseAt[w]), UNCHANGED <<storeVars, pdagIndex, held>>
  PROVE  JumpReady'
<1>1. increaseAt[w] = 1
  BY DEF JumpReady
<1>2. pc'[w] = "top" /\ nextTask'[w] = "Nothing" /\ increaseAt'[w] = 1
  BY <1>1 DEF EndOfBody, GoTo, TypeOK
<1>3. \A u \in Workers : u = w
  BY DEF OneWorker
<1>. QED  BY <1>2, <1>3 DEF JumpReady, Evaluating, EvaluatingLabels, WantsSkip

(* The counter has been turned, or the next graph begun. *)
LEMMA JumpReadyTaken ==
  ASSUME OneWorker, TypeOK, JumpReady, NEW w \in Workers,
         Take(w, currentPdag', counter'[currentPdag']), ConsumeTask(w)
  PROVE  JumpReady'
<1>1. pc'[w] = "evaluate" /\ held'[w] = counter'[currentPdag']
  BY DEF Take, GoTo, TypeOK
<1>2. nextTask'[w] = "Nothing" /\ increaseAt'[w] = 1
  BY DEF ConsumeTask, TypeOK, JumpReady
<1>3. \A u \in Workers : u = w
  BY DEF OneWorker
<1>. QED  BY <1>1, <1>2, <1>3 DEF JumpReady, WantsSkip

LEMMA JumpReadyStep ==
  ASSUME OneWorker, TypeOK, Alone, JumpReady, [Next]_vars
  PROVE  JumpReady'
<1>1. CASE UNCHANGED vars \/ Terminated
  BY <1>1, JumpReadyKept DEF Terminated, vars, Evaluating
<1>2. ASSUME NEW w \in Workers, Step(w) PROVE JumpReady'
  <2>1. \A u \in Workers : u = w
    BY DEF OneWorker
  <2>2. CASE Leave(w) \/ WaitForCounter(w)
    BY <2>1, <2>2, JumpReadyKept DEF Leave, WaitForCounter, GoTo, Evaluating, EvaluatingLabels, TypeOK
  <2>3. CASE AbandonSkip(w)
    BY <2>3, NeverOvertaken DEF AbandonSkip
  <2>4. CASE TurnCounter(w)
    <3>1. Take(w, currentPdag', counter'[currentPdag']) /\ ConsumeTask(w)
      BY <2>4, TurnCounterFacts DEF TurnCounter
    <3>. QED  BY <3>1, JumpReadyTaken
  <2>5. CASE NextGraph(w)
    <3>1. Take(w, currentPdag', counter'[currentPdag']) /\ ConsumeTask(w)
      BY <2>5, NextGraphFacts DEF NextGraph
    <3>. QED  BY <3>1, JumpReadyTaken
  <2>6. CASE Exhaust(w)
    <3>1. pc'[w] = "exited" /\ nextTask'[w] = "Nothing" /\ increaseAt'[w] = 1
      BY <2>6 DEF Exhaust, GoTo, ConsumeTask, TypeOK, JumpReady
    <3>. QED  BY <2>1, <3>1 DEF JumpReady, Evaluating, EvaluatingLabels, WantsSkip
  <2>7. CASE RejectDuplicate(w)
    <3>. DEFINE d == currentPdag
                dv == DuplicateVertices(Dags[d], counter[d])
                p == VertexPosition(Dags[d], counter[d], Max(dv))
    <3>1. d \in Graphs /\ pdagIndex[w] = d /\ held[w] = counter[d] /\ counter[d] \in Formulas(d)
      BY <2>7 DEF RejectDuplicate, Alone, TypeOK, JumpReady, Evaluating, EvaluatingLabels
    <3>2. DuplicateVerticesOf[d][counter[d]] = dv
      BY <3>1 DEF DuplicateVerticesOf
    <3>3. dv # {}
      BY <2>7, <3>1, <3>2, NothingOnFile DEF RejectDuplicate, IsDuplicate, Alone
    <3>4. EndOfBody(w, p) /\ UNCHANGED <<storeVars, pdagIndex, held>>
      BY <2>7, <3>1, <3>2, <3>3 DEF RejectDuplicate, DuplicatePosition
    <3>5. /\ pc'[w] = "top" /\ increaseAt'[w] = p
          /\ nextTask'[w] = IF p = 1 THEN "Nothing" ELSE "IncreaseAtPosition"
      BY <3>4 DEF EndOfBody, GoTo, TypeOK
    <3>. QED  BY <2>1, <3>1, <3>3, <3>4, <3>5
              DEF JumpReady, Evaluating, EvaluatingLabels, WantsSkip, storeVars
  <2>8. CASE CallbackMisses(w) \/ CallbackFinds(w) \/ Publish(w) \/ DecideToFile(w)
    <3>1. Evaluating(w) /\ UNCHANGED <<storeVars, threadVars>>
          /\ \E label \in EvaluatingLabels : GoTo(w, label)
      BY <2>8 DEF CallbackMisses, CallbackFinds, Publish, WriteDot, WriteSolution,
         DecideToFile, KnownFunction, Evaluating, EvaluatingLabels
    <3>2. pc'[w] \notin {"top", "fetch"}
      BY <3>1 DEF GoTo, EvaluatingLabels, TypeOK
    <3>. QED  BY <2>1, <3>1, <3>2, JumpReadyKept
  <2>9. CASE EnterFunction(w) \/ PassOver(w) \/ FileDuplicate(w)
    BY <2>9, JumpReadyEnd DEF EnterFunction, PassOver, KnownFunction, FileDuplicate,
       Evaluating, EvaluatingLabels
  <2>. QED  BY <1>2, <2>2, <2>3, <2>4, <2>5, <2>6, <2>7, <2>8, <2>9
            DEF Step, Fetch, Evaluate, Accumulate
<1>. QED  BY <1>1, <1>2 DEF Next

LEMMA JumpReadyAlways ==
  ASSUME OneWorker
  PROVE  Spec => []JumpReady
<1>1. TypeOK /\ Alone /\ JumpReady /\ [Next]_vars => JumpReady'
  BY JumpReadyStep
<1>. QED  BY JumpReadyInit, TypeCorrect, AloneAlways, <1>1, PTL DEF Spec

(* Whatever a turn of a single worker leaves out is a duplicate.           *)
LEMMA LeftOutAreDuplicates ==
  ASSUME Regular, TypeOK, JumpReady, NEW w \in Workers, pc[w] = "fetch",
         NEW b \in Formulas(currentPdag),
         LeftOut(currentPdag, counter[currentPdag], b, TurnsAt(w))
  PROVE  DuplicateVertices(Dags[currentPdag], b) # {}
<1>. DEFINE d == currentPdag
            a == counter[d]
<1>1. d \in Graphs /\ a \in Formulas(d)
  BY DEF TypeOK
<1>2. CASE WantsSkip(w)
  BY <1>1, <1>2, JumpLeavesOutDuplicates DEF TurnsAt, JumpReady
<1>3. CASE ~WantsSkip(w)
  <2>1. IsReading(PossibleOf[d], a) /\ IsReading(PossibleOf[d], b)
    BY <1>1, FormulasFacts
  <2>2. IsWheels(PossibleOf[d]) /\ 0 \notin DOMAIN PossibleOf[d]
    BY <1>1, WheelsFacts
  <2>3. Before(a, b) /\ (Turns(PossibleOf[d], a, 1) => Before(b, IncreaseAt(PossibleOf[d], a, 1)))
    BY <1>3 DEF LeftOut, TurnsAt
  <2>. QED  BY <2>1, <2>2, <2>3, NothingBetween
<1>. QED  BY <1>2, <1>3

(* A single worker's jumps leave out only formulas that would be rejected. *)
THEOREM AloneSkipsDuplicates ==
  ASSUME OneWorker, Regular
  PROVE  Spec => SkipsOnlyDuplicates
<1>. DEFINE SkipStep == \A w \in Workers : JumpsOverDuplicates(w)
<1>1. ASSUME TypeOK, JumpReady, [Next]_vars PROVE SkipStep
  <2>. DEFINE d == currentPdag
  <2>. SUFFICES ASSUME NEW w \in Workers, WantsSkip(w), pc[w] = "fetch",
                       pc'[w] \in {"evaluate", "exited"}, NEW a \in Formulas(d),
                       Before(counter[d], a),
                       pc'[w] = "evaluate" /\ currentPdag' = d => Before(a, held'[w])
                PROVE  IsDuplicate(d, a)
    BY DEF JumpsOverDuplicates
  <2>1. PICK u \in Workers : Step(u)
    BY <1>1 DEF Next, Terminated, vars
  <2>2. u = w
    BY DEF OneWorker
  <2>3. TurnCounter(w) \/ NextGraph(w) \/ Exhaust(w)
    BY <2>1, <2>2, <1>1, NeverOvertaken
       DEF Step, Leave, WaitForCounter, Fetch, AbandonSkip, Evaluate, RejectDuplicate,
           CallbackMisses, CallbackFinds, Publish, WriteDot, WriteSolution, Accumulate,
           EnterFunction, PassOver, DecideToFile, KnownFunction, FileDuplicate
  <2>4. LeftOut(d, counter[d], a, TurnsAt(w))
    <3>1. CASE TurnCounter(w)
      <4>1. Take(w, d, counter'[d]) /\ d \in Graphs /\ currentPdag' = d /\ DOMAIN counter = Graphs
        BY <1>1, <3>1, TurnCounterFacts DEF TypeOK
      <4>2. pc'[w] = "evaluate" /\ held'[w] = counter'[d]
        BY <1>1, <4>1 DEF Take, GoTo, TypeOK
      <4>3. counter'[d] = IncreaseAt(PossibleOf[d], counter[d], TurnsAt(w))
        BY <3>1, <4>1 DEF TurnCounter
      <4>. QED  BY <4>1, <4>2, <4>3 DEF LeftOut
    <3>2. CASE NextGraph(w) \/ Exhaust(w)
      BY <3>2 DEF NextGraph, Exhaust, LeftOut
    <3>. QED  BY <2>3, <3>1, <3>2
  <2>5. d \in Graphs /\ DuplicateVertices(Dags[d], a) # {}
    BY <1>1, <2>4, LeftOutAreDuplicates DEF TypeOK
  <2>. QED  BY <2>5 DEF IsDuplicate, DuplicateVerticesOf
<1>2. TypeOK /\ JumpReady /\ [Next]_vars => [SkipStep]_vars
  BY <1>1
<1>. QED  BY TypeCorrect, JumpReadyAlways, <1>2, PTL DEF Spec, SkipsOnlyDuplicates
-----------------------------------------------------------------------------
(* What a single worker has dealt with.                                    *)

(* The first formula of all, which no worker is given, is a duplicate: a   *)
(* gate whose two inputs carry the first symbol there is.                  *)
FirstIsDuplicate == DuplicateVertices(Dags[1], AllBegin(PossibleOf[1])) # {}

(* The size on record for the function of a does not exceed that of d. *)
Known(d, a) ==
  /\ RootTableOf[d][a] \in DOMAIN minimalSizes
  /\ minimalSizes[RootTableOf[d][a]] <= SizeOf[d]

Handled(d, a) == DuplicateVertices(Dags[d], a) = {} => Known(d, a)

(* Everything the counter has passed is dealt with, what it shows as soon  *)
(* as the worker has done with it, and all there is when the worker has    *)
(* left without a solution.                                                *)
Covered ==
  /\ \A d \in Graphs : \A a \in Formulas(d) :
       d < currentPdag \/ (d = currentPdag /\ Before(a, counter[currentPdag])) => Handled(d, a)
  /\ \A w \in Workers :
       pc[w] \in {"top", "fetch", "file"} => Handled(currentPdag, counter[currentPdag])
  /\ \A d \in Graphs : d > currentPdag => counter[d] = AllBegin(PossibleOf[d])
  /\ \A w \in Workers : stop /\ pc[w] \notin {"draw", "exited"} => dot # Unset
  /\ \A w \in Workers : pc[w] = "exited" =>
       dot # Unset \/ \A d \in Graphs : \A a \in Formulas(d) : Handled(d, a)

LEMMA CoveredInit == FirstIsDuplicate /\ Init => Covered
<1>. SUFFICES ASSUME FirstIsDuplicate, Init PROVE Covered
  OBVIOUS
<1>1. \A d \in Graphs : d \in Nat /\ ~(d < 1)
  BY GraphsFacts
<1>2. 1 \in Graphs /\ counter[1] = AllBegin(PossibleOf[1])
  BY GraphsFacts DEF Init
<1>3. \A a \in Formulas(1) : ~Before(a, counter[1])
  BY <1>2, FormulasFacts, GraphsFacts, BeginIsFirst
<1>4. Handled(1, counter[1])
  BY <1>2 DEF FirstIsDuplicate, Handled
<1>. QED  BY <1>1, <1>2, <1>3, <1>4 DEF Init, Covered

(* A size once on record stays there. *)
LEMMA HandledStays ==
  ASSUME \A f \in DOMAIN minimalSizes : f \in DOMAIN minimalSizes' /\ minimalSizes'[f] = minimalSizes[f],
         NEW d, NEW a, Handled(d, a)
  PROVE  Handled(d, a)'
BY DEF Handled, Known

(* Steps that leave the counter alone and neither lose what is on record   *)
(* nor the solution, and go where nothing new has to be dealt with.        *)
LEMMA CoveredKept ==
  ASSUME Covered, UNCHANGED storeVars,
         \A f \in DOMAIN minimalSizes : f \in DOMAIN minimalSizes' /\ minimalSizes'[f] = minimalSizes[f],
         dot # Unset => dot' # Unset,
         \A u \in Workers : pc'[u] \in {"top", "fetch", "file"} =>
           pc[u] \in {"top", "fetch", "file"} \/ Handled(currentPdag, counter[currentPdag])',
         \A u \in Workers : stop' /\ pc'[u] \notin {"draw", "exited"} =>
           dot' # Unset \/ (stop /\ pc[u] \notin {"draw", "exited"}),
         \A u \in Workers : pc'[u] = "exited" =>
           pc[u] = "exited" \/ (stop /\ pc[u] \notin {"draw", "exited"})
  PROVE  Covered'
<1>1. \A d \in Graphs : \A a \in Formulas(d) : Handled(d, a) => Handled(d, a)'
  BY HandledStays
<1>2. Handled(currentPdag, counter[currentPdag]) => Handled(currentPdag, counter[currentPdag])'
  BY DEF storeVars, Handled, Known
<1>3. currentPdag' = currentPdag /\ counter' = counter
  BY DEF storeVars
<1>4. (\A d \in Graphs : \A a \in Formulas(d) :
         d < currentPdag \/ (d = currentPdag /\ Before(a, counter[currentPdag])) => Handled(d, a))'
  BY <1>1, <1>3 DEF Covered
<1>5. \A w \in Workers : pc'[w] \in {"top", "fetch", "file"} => Handled(currentPdag, counter[currentPdag])'
  BY <1>2 DEF Covered
<1>6. \A d \in Graphs : d > currentPdag' => counter'[d] = AllBegin(PossibleOf[d])
  BY <1>3 DEF Covered
<1>7. \A w \in Workers : stop' /\ pc'[w] \notin {"draw", "exited"} => dot' # Unset
  BY DEF Covered
<1>8. \A w \in Workers : pc'[w] = "exited" =>
        dot' # Unset \/ \A d \in Graphs : \A a \in Formulas(d) : Handled(d, a)'
  BY <1>1 DEF Covered
<1>. QED  BY <1>4, <1>5, <1>6, <1>7, <1>8 DEF Covered

(* The order of enumeration is total on the formulas of a graph. *)
LEMMA FormulasOrdered ==
  ASSUME NEW d \in Graphs, NEW a \in Formulas(d), NEW b \in Formulas(d)
  PROVE  a = b \/ Before(a, b) \/ Before(b, a)
<1>1. DOMAIN PossibleOf[d] \subseteq 0 .. Len(Dags[d]) /\ Len(Dags[d]) \in Nat
      /\ IsWheels(PossibleOf[d])
  BY WheelsFacts
<1>. QED  BY <1>1, BeforeTotal DEF Formulas

(* What lies before the formula a single worker takes is dealt with. *)
LEMMA PassedIsHandled ==
  ASSUME Regular, TypeOK, JumpReady, Covered, NEW w \in Workers, pc[w] = "fetch",
         NEW b \in Formulas(currentPdag),
         Before(counter[currentPdag], b) =>
           LeftOut(currentPdag, counter[currentPdag], b, TurnsAt(w))
  PROVE  Handled(currentPdag, b)
<1>. DEFINE d == currentPdag
            a == counter[d]
<1>1. d \in Graphs /\ a \in Formulas(d)
  BY DEF TypeOK
<1>2. CASE b = a \/ Before(b, a)
  BY <1>1, <1>2 DEF Covered
<1>3. CASE Before(a, b)
  <2>1. DuplicateVertices(Dags[d], b) # {}
    BY <1>3, LeftOutAreDuplicates
  <2>. QED  BY <2>1 DEF Handled
<1>. QED  BY <1>1, <1>2, <1>3, FormulasOrdered

LEMMA CoveredStep ==
  ASSUME OneWorker, GrowingSizes, Regular, TypeOK, Alone, KnownSizeIsMinimal, JumpReady,
         Covered, [Next]_vars
  PROVE  Covered'
<1>1. CASE UNCHANGED vars \/ Terminated
  BY <1>1, CoveredKept DEF Terminated, vars, resultVars
<1>2. ASSUME NEW w \in Workers, Step(w) PROVE Covered'
  <2>1. \A u \in Workers : u = w
    BY DEF OneWorker
  <2>. DEFINE d == currentPdag
              a == counter[d]
  <2>2. d \in Graphs /\ d \in Nat /\ a \in Formulas(d) /\ Graphs = 1 .. Len(Dags)
        /\ Len(Dags) \in Nat /\ DOMAIN counter = Graphs
    BY GraphsFacts DEF TypeOK
  <2>3. CASE Leave(w) \/ WaitForCounter(w) \/ DecideToFile(w)
    <3>1. /\ UNCHANGED <<storeVars, minimalSizes, dot, stop>>
          /\ pc[w] \notin {"draw", "exited"}
          /\ \/ pc'[w] = "exited" /\ stop
             \/ pc'[w] = "fetch" /\ pc[w] = "top"
             \/ pc'[w] = "file"
      BY <2>3 DEF Leave, WaitForCounter, DecideToFile, KnownFunction, GoTo, resultVars, TypeOK
    <3>2. pc'[w] = "file" => Handled(d, a)'
      <4>. SUFFICES ASSUME pc'[w] = "file" PROVE Handled(d, a)'
        OBVIOUS
      <4>1. DecideToFile(w)
        BY <2>3 DEF Leave, WaitForCounter, GoTo, TypeOK
      <4>2. pdagIndex[w] = d /\ held[w] = a
        BY <4>1 DEF DecideToFile, KnownFunction, Alone, JumpReady, Evaluating, EvaluatingLabels
      <4>3. Handled(d, a)
        BY <4>1, <4>2 DEF DecideToFile, KnownFunction, KnownSizeIsMinimal, FunctionOf, Handled, Known
      <4>. QED  BY <3>1, <4>3 DEF storeVars, Handled, Known
    <3>. QED  BY <2>1, <3>1, <3>2, CoveredKept
  <2>4. CASE AbandonSkip(w)
    BY <2>4, NeverOvertaken DEF AbandonSkip
  <2>5. CASE TurnCounter(w)
    <3>1. /\ currentPdag' = d /\ Take(w, d, counter'[d]) /\ pc[w] = "fetch"
          /\ counter' = [counter EXCEPT ![d] = IncreaseAt(PossibleOf[d], a, TurnsAt(w))]
          /\ UNCHANGED <<minimalSizes, stop, dot>>
      BY <2>5, TurnCounterFacts DEF TurnCounter, MayTurn, resultVars
    <3>2. pc'[w] = "evaluate" /\ counter'[d] = IncreaseAt(PossibleOf[d], a, TurnsAt(w))
      BY <2>2, <3>1 DEF Take, GoTo, TypeOK
    <3>3. ASSUME NEW b \in Formulas(d), Before(b, counter'[d]) PROVE Handled(d, b)
      <4>1. Before(a, b) => LeftOut(d, a, b, TurnsAt(w))
        BY <3>2, <3>3 DEF LeftOut
      <4>. QED  BY <3>1, <4>1, PassedIsHandled
    <3>4. \A e \in Graphs : e > d => counter'[e] = AllBegin(PossibleOf[e])
      BY <2>2, <3>1 DEF Covered
    <3>5. \A e, b : Handled(e, b) => Handled(e, b)'
      BY <3>1 DEF Handled, Known
    <3>6. \A e \in Graphs : \A b \in Formulas(e) :
            e < d \/ (e = d /\ Before(b, counter'[d])) => Handled(e, b)'
      BY <3>3, <3>5 DEF Covered
    <3>7. stop' => dot' # Unset
      BY <3>1 DEF Covered
    <3>. QED  BY <2>1, <3>1, <3>2, <3>4, <3>6, <3>7 DEF Covered
  <2>6. ASSUME MayTurn(w), ~Turns(PossibleOf[d], a, TurnsAt(w)), NEW b \in Formulas(d)
        PROVE  Handled(d, b)
    <3>1. Before(a, b) => LeftOut(d, a, b, TurnsAt(w))
      BY <2>6 DEF LeftOut
    <3>. QED  BY <2>6, <3>1, PassedIsHandled DEF MayTurn
  <2>7. CASE NextGraph(w)
    <3>1. /\ currentPdag' = d + 1 /\ d + 1 \in Graphs /\ Take(w, d + 1, counter'[d + 1])
          /\ pc[w] = "fetch" /\ counter'[d + 1] = counter[d + 1]
          /\ UNCHANGED <<minimalSizes, stop, dot>>
      BY <2>7, NextGraphFacts DEF NextGraph, MayTurn, resultVars
    <3>2. pc'[w] = "evaluate"
      BY <3>1 DEF Take, GoTo, TypeOK
    <3>3. \A e \in Graphs : e > d + 1 => counter'[e] = AllBegin(PossibleOf[e])
      <4>1. counter' = [counter EXCEPT ![d] = AllBegin(PossibleOf[d])]
        BY <2>7 DEF NextGraph
      <4>2. \A e \in Graphs : e > d + 1 => e > d /\ e # d
        BY <2>2
      <4>. QED  BY <2>2, <4>1, <4>2 DEF Covered
    <3>4. \A b \in Formulas(d + 1) : ~Before(b, counter'[d + 1])
      <4>1. counter'[d + 1] = AllBegin(PossibleOf[d + 1])
        BY <2>2, <3>1 DEF Covered
      <4>. QED  BY <3>1, <4>1, FormulasFacts, GraphsFacts, BeginIsFirst
    <3>5. \A e, b : Handled(e, b) => Handled(e, b)'
      BY <3>1 DEF Handled, Known
    <3>6. \A e \in Graphs : e < d + 1 => e < d \/ e = d
      BY <2>2
    <3>7. \A b \in Formulas(d) : Handled(d, b)
      BY <2>6, <2>7 DEF NextGraph
    <3>8. \A e \in Graphs : \A b \in Formulas(e) :
            e < d + 1 \/ (e = d + 1 /\ Before(b, counter'[d + 1])) => Handled(e, b)'
      BY <3>4, <3>5, <3>6, <3>7 DEF Covered
    <3>9. stop' => dot' # Unset
      BY <3>1 DEF Covered
    <3>. QED  BY <2>1, <3>1, <3>2, <3>3, <3>8, <3>9 DEF Covered
  <2>8. CASE Exhaust(w)
    <3>1. /\ currentPdag' = d /\ d = Len(Dags) /\ pc'[w] = "exited"
          /\ UNCHANGED <<minimalSizes, dot>>
      BY <2>8 DEF Exhaust, GoTo, resultVars, TypeOK
    <3>2. \A e \in Graphs : ~(e > d) /\ (e < d \/ e = d)
      BY <2>2, <3>1
    <3>3. \A b \in Formulas(d) : Handled(d, b)
      BY <2>6, <2>8 DEF Exhaust
    <3>4. \A e, b : Handled(e, b) => Handled(e, b)'
      BY <3>1 DEF Handled, Known
    <3>5. \A e \in Graphs : \A b \in Formulas(e) : Handled(e, b)'
      BY <3>2, <3>3, <3>4 DEF Covered
    <3>. QED  BY <2>1, <3>1, <3>2, <3>5 DEF Covered
  <2>9. CASE RejectDuplicate(w)
    <3>1. pdagIndex[w] = d /\ held[w] = a /\ pc[w] = "evaluate"
      BY <2>9 DEF RejectDuplicate, Alone, JumpReady, Evaluating, EvaluatingLabels
    <3>2. DuplicateVertices(Dags[d], a) # {}
      BY <2>2, <2>9, <3>1, NothingOnFile
         DEF RejectDuplicate, IsDuplicate, DuplicateVerticesOf, Alone
    <3>3. Handled(d, a)' /\ UNCHANGED <<storeVars, minimalSizes, stop, dot>> /\ pc'[w] = "top"
      BY <2>9, <3>2 DEF RejectDuplicate, Handled, storeVars, resultVars, EndOfBody, GoTo, TypeOK
    <3>. QED  BY <2>1, <3>1, <3>3, CoveredKept
  <2>10. CASE CallbackMisses(w) \/ CallbackFinds(w) \/ WriteSolution(w)
    <3>1. /\ UNCHANGED <<storeVars, minimalSizes, dot>> /\ pc[w] \notin {"draw", "exited"}
          /\ pc'[w] = "draw" \/ (pc'[w] = "accumulate" /\ UNCHANGED stop)
      BY <2>10 DEF CallbackMisses, CallbackFinds, WriteSolution, GoTo, resultVars, TypeOK
    <3>. QED  BY <2>1, <3>1, CoveredKept
  <2>11. CASE WriteDot(w)
    <3>1. pdagIndex[w] # 0
      BY <2>2 DEF TypeOK
    <3>2. dot' # Unset
      BY <2>11, <3>1 DEF WriteDot, Assigned, Unset, Garbled
    <3>3. UNCHANGED <<storeVars, minimalSizes, stop>> /\ pc'[w] = "describe"
      BY <2>11 DEF WriteDot, GoTo, TypeOK
    <3>. QED  BY <2>1, <3>2, <3>3, CoveredKept
  <2>12. CASE EnterFunction(w)
    <3>1. pdagIndex[w] = d /\ held[w] = a /\ pc[w] = "accumulate"
      BY <2>12 DEF EnterFunction, Alone, JumpReady, Evaluating, EvaluatingLabels
    <3>2. /\ UNCHANGED <<storeVars, stop, dot>> /\ pc'[w] = "top"
          /\ FunctionOf(w) \notin DOMAIN minimalSizes
          /\ minimalSizes' = [f \in DOMAIN minimalSizes \cup {FunctionOf(w)} |->
                                IF f = FunctionOf(w) THEN SizeOf[d] ELSE minimalSizes[f]]
      BY <2>12, <3>1 DEF EnterFunction, EndOfBody, GoTo, resultVars, TypeOK
    <3>3. SizeOf[d] <= SizeOf[d]
      BY <2>2 DEF GrowingSizes
    <3>4. Handled(d, a)'
      BY <3>1, <3>2, <3>3 DEF Handled, Known, FunctionOf, storeVars
    <3>5. \A f \in DOMAIN minimalSizes :
            f \in DOMAIN minimalSizes' /\ minimalSizes'[f] = minimalSizes[f]
      BY <3>2
    <3>. QED  BY <2>1, <3>1, <3>2, <3>4, <3>5, CoveredKept
  <2>13. CASE PassOver(w)
    <3>1. pdagIndex[w] = d /\ held[w] = a /\ pc[w] = "accumulate"
      BY <2>13 DEF PassOver, KnownFunction, Alone, JumpReady, Evaluating, EvaluatingLabels
    <3>2. Handled(d, a)
      BY <2>13, <3>1 DEF PassOver, KnownFunction, KnownSizeIsMinimal, FunctionOf, Handled, Known
    <3>3. UNCHANGED <<storeVars, minimalSizes, stop, dot>> /\ pc'[w] = "top"
      BY <2>13 DEF PassOver, EndOfBody, GoTo, resultVars, TypeOK
    <3>4. Handled(d, a)'
      BY <3>2, <3>3 DEF Handled, Known, storeVars
    <3>. QED  BY <2>1, <3>1, <3>3, <3>4, CoveredKept
  <2>14. CASE FileDuplicate(w)
    <3>1. UNCHANGED <<storeVars, minimalSizes, stop, dot>> /\ pc[w] = "file" /\ pc'[w] = "top"
      BY <2>14 DEF FileDuplicate, EndOfBody, GoTo, resultVars, TypeOK
    <3>. QED  BY <2>1, <3>1, CoveredKept
  <2>. QED  BY <1>2, <2>3, <2>4, <2>5, <2>7, <2>8, <2>9, <2>10, <2>11, <2>12, <2>13, <2>14
            DEF Step, Fetch, Evaluate, Publish, Accumulate
<1>. QED  BY <1>1, <1>2 DEF Next

(* A single worker that leaves without a solution has dealt with every     *)
(* formula of every graph that no vertex makes a duplicate: jumps, changes *)
(* of graphs and duplicates on file lose no function.                      *)
THEOREM AloneCoversAll ==
  ASSUME OneWorker, Workers # {}, GrowingSizes, Regular, FirstIsDuplicate
  PROVE  Spec => []ExhaustionCovers
<1>1. TypeOK /\ Alone /\ KnownSizeIsMinimal /\ JumpReady /\ Covered /\ [Next]_vars => Covered'
  BY CoveredStep
<1>2. Init => Covered
  BY CoveredInit
<1>3. ASSUME Covered PROVE ExhaustionCovers
  <2>. SUFFICES ASSUME Joined, dot = Unset, NEW d \in Graphs, NEW a \in Formulas(d),
                       DuplicateVerticesOf[d][a] = {}
                PROVE  Known(d, a)
    BY DEF ExhaustionCovers, Known
  <2>1. PICK w \in Workers : pc[w] = "exited"
    BY DEF Joined
  <2>2. Handled(d, a)
    BY <1>3, <2>1 DEF Covered
  <2>. QED  BY <2>2 DEF Handled, DuplicateVerticesOf
<1>. QED  BY TypeCorrect, AloneAlways, AloneAssertionHolds, JumpReadyAlways, <1>1, <1>2, <1>3, PTL
          DEF Spec
-----------------------------------------------------------------------------
(* The graphs the engine runs on have the input vertices of a gate side by *)
(* side.                                                                   *)

(* The gates of a generated graph, and its ignored fanins. *)
TwoFanins(n) ==
  {h \in [1 .. n -> [1 .. 2 -> Nat]] : \A v \in 1 .. n : \A k \in 1 .. 2 : h[v][k] < v}

Ignored(h) == {s \in (DOMAIN h) \X (1 .. Len(h[1])) : h[s[1]][s[2]] = 0}

(* How many of them the loop of add_PI_nodes has met with the k-th of      *)
(* vertex i.                                                               *)
Met(h, i, k) == {s \in Ignored(h) : s[1] < i \/ (s[1] = i /\ s[2] <= k)}

(* What the k-th fanin of vertex i becomes. *)
Inserted(h, i, k) ==
  IF h[i][k] = 0 THEN Cardinality(Ignored(h)) + 1 - Cardinality(Met(h, i, k))
  ELSE Cardinality(Ignored(h)) + h[i][k]

LEMMA TwoPlaces == IsFiniteSet(1 .. 2) /\ Cardinality(1 .. 2) = 2
<1>1. IsFiniteSet({1}) /\ Cardinality({1}) = 1
  BY FS_Singleton
<1>2. IsFiniteSet({1} \cup {2}) /\ Cardinality({1} \cup {2}) = 1 + 1
  BY <1>1, FS_AddElement
<1>3. 1 .. 2 = {1} \cup {2}
  OBVIOUS
<1>. QED  BY <1>2, <1>3

LEMMA IgnoredFacts ==
  ASSUME NEW n \in Nat \ {0}, NEW h \in TwoFanins(n)
  PROVE  /\ h \in [1 .. n -> [1 .. 2 -> Nat]] /\ DOMAIN h = 1 .. n /\ Len(h[1]) = 2
         /\ Ignored(h) = {s \in (1 .. n) \X (1 .. 2) : h[s[1]][s[2]] = 0}
         /\ IsFiniteSet(Ignored(h)) /\ Cardinality(Ignored(h)) \in Nat
         /\ \A i, k : /\ IsFiniteSet(Met(h, i, k)) /\ Cardinality(Met(h, i, k)) \in Nat
                      /\ Cardinality(Met(h, i, k)) <= Cardinality(Ignored(h))
<1>1. h \in [1 .. n -> [1 .. 2 -> Nat]] /\ DOMAIN h = 1 .. n
  BY DEF TwoFanins
<1>2. Len(h[1]) = 2
  <2>1. h[1] \in [1 .. 2 -> Nat]
    BY <1>1
  <2>. QED  BY <2>1
<1>3. Ignored(h) = {s \in (1 .. n) \X (1 .. 2) : h[s[1]][s[2]] = 0}
  BY <1>1, <1>2 DEF Ignored
<1>4. IsFiniteSet(Ignored(h)) /\ Cardinality(Ignored(h)) \in Nat
  <2>1. IsFiniteSet(1 .. n)
    BY FS_Interval
  <2>2. IsFiniteSet(1 .. 2)
    BY TwoPlaces
  <2>3. IsFiniteSet((1 .. n) \X (1 .. 2))
    BY <2>1, <2>2, FS_Product
  <2>. QED  BY <2>3, <1>3, FS_Subset, FS_CardinalityType
<1>5. ASSUME NEW i, NEW k
      PROVE  /\ IsFiniteSet(Met(h, i, k)) /\ Cardinality(Met(h, i, k)) \in Nat
             /\ Cardinality(Met(h, i, k)) <= Cardinality(Ignored(h))
  <2>1. Met(h, i, k) \in SUBSET Ignored(h)
    BY DEF Met
  <2>. QED  BY <2>1, <1>4, FS_Subset, FS_CardinalityType
<1>. QED  BY <1>1, <1>2, <1>3, <1>4, <1>5

LEMMA AddedIs ==
  ASSUME NEW n \in Nat \ {0}, NEW h \in TwoFanins(n)
  PROVE  LET pis == Cardinality(Ignored(h))
             g == AddPINodes(h)
         IN  /\ DOMAIN g = 1 .. pis + n
             /\ \A v \in 1 .. pis : g[v] = [k \in 1 .. 2 |-> 0]
             /\ \A i \in 1 .. n : g[pis + i] =
                  [k \in 1 .. 2 |-> Inserted(h, i, IF h[i][1] = 0 /\ h[i][2] = 0 THEN 3 - k ELSE k)]
<1>. DEFINE pis == Cardinality(Ignored(h))
            inputs == [v \in 1 .. pis |-> [k \in 1 .. 2 |-> 0]]
            gates == [i \in 1 .. n |->
              [k \in 1 .. 2 |-> Inserted(h, i, IF h[i][1] = 0 /\ h[i][2] = 0 THEN 3 - k ELSE k)]]
<1>1. pis \in Nat /\ DOMAIN h = 1 .. n /\ Len(h[1]) = 2 /\ \A i \in 1 .. n : DOMAIN h[i] = 1 .. 2
  BY IgnoredFacts
<1>2. AddPINodes(h) =
        inputs \o [i \in 1 .. n |-> [k \in 1 .. 2 |->
                     Inserted(h, i, IF (h[i][1] = 0 /\ h[i][2] = 0) /\ k <= 2 THEN 3 - k ELSE k)]]
  BY <1>1 DEF AddPINodes, Inserted, Met, Ignored
<1>3. AddPINodes(h) = inputs \o gates
  <2>1. \A i \in 1 .. n : \A k \in 1 .. 2 :
          (IF (h[i][1] = 0 /\ h[i][2] = 0) /\ k <= 2 THEN 3 - k ELSE k)
            = (IF h[i][1] = 0 /\ h[i][2] = 0 THEN 3 - k ELSE k)
    OBVIOUS
  <2>. QED  BY <1>2, <2>1
<1>4. /\ inputs \in Seq({inputs[v] : v \in 1 .. pis}) /\ Len(inputs) = pis
      /\ gates \in Seq({gates[i] : i \in 1 .. n}) /\ Len(gates) = n
  BY <1>1
<1>. HIDE DEF inputs, gates, pis
<1>5. /\ DOMAIN (inputs \o gates) = 1 .. pis + n
      /\ \A v \in 1 .. pis : (inputs \o gates)[v] = inputs[v]
      /\ \A i \in 1 .. n : (inputs \o gates)[pis + i] = gates[i]
  BY <1>1, <1>4
<1>. QED  BY <1>1, <1>3, <1>5 DEF inputs, gates, pis

(* The vertices that add_PI_nodes inserts for the two ignored fanins of a  *)
(* gate are neighbours, in ascending order: the first of the hypotheses of *)
(* Regular holds of every list of graphs with two fanins whose inputs have *)
(* been added so.                                                          *)
THEOREM InsertedPairsAdjacent ==
  ASSUME \A d \in Graphs : \E n \in Nat \ {0} : \E h \in TwoFanins(n) : Dags[d] = AddPINodes(h)
  PROVE  PairsAdjacent
<1>. SUFFICES ASSUME NEW d \in Graphs, NEW v \in Vertices(Dags[d]),
                     NEW j \in LeafInputs(Dags[d], v), NEW k \in LeafInputs(Dags[d], v), j < k
              PROVE  Dags[d][v][k] = Dags[d][v][j] + 1
  BY DEF PairsAdjacent
<1>1. PICK n \in Nat \ {0} : \E h \in TwoFanins(n) : Dags[d] = AddPINodes(h)
  OBVIOUS
<1>2. PICK h \in TwoFanins(n) : Dags[d] = AddPINodes(h)
  BY <1>1
<1>. DEFINE g == Dags[d]
            pis == Cardinality(Ignored(h))
<1>3. /\ DOMAIN g = 1 .. pis + n
      /\ \A u \in 1 .. pis : g[u] = [m \in 1 .. 2 |-> 0]
      /\ \A i \in 1 .. n : g[pis + i] =
           [m \in 1 .. 2 |-> Inserted(h, i, IF h[i][1] = 0 /\ h[i][2] = 0 THEN 3 - m ELSE m)]
  BY <1>2, AddedIs
<1>4. /\ h \in [1 .. n -> [1 .. 2 -> Nat]] /\ pis \in Nat
      /\ Ignored(h) = {s \in (1 .. n) \X (1 .. 2) : h[s[1]][s[2]] = 0}
      /\ \A i, m : /\ IsFiniteSet(Met(h, i, m)) /\ Cardinality(Met(h, i, m)) \in Nat
                   /\ Cardinality(Met(h, i, m)) <= pis
      /\ \A i \in 1 .. n : \A m \in 1 .. 2 : h[i][m] < i
  BY IgnoredFacts DEF TwoFanins
<1>. HIDE DEF g, pis
<1>5. ASSUME NEW i \in 1 .. n, NEW m \in 1 .. 2
      PROVE  /\ h[i][m] = 0 => Inserted(h, i, m) = pis + 1 - Cardinality(Met(h, i, m))
             /\ h[i][m] # 0 => Inserted(h, i, m) = pis + h[i][m] /\ h[i][m] \in 1 .. n
             /\ Inserted(h, i, m) # 0
  <2>1. h[i][m] \in Nat /\ h[i][m] < i
    BY <1>4
  <2>2. /\ h[i][m] = 0 => Inserted(h, i, m) = pis + 1 - Cardinality(Met(h, i, m))
        /\ h[i][m] # 0 => Inserted(h, i, m) = pis + h[i][m]
    BY DEF Inserted, pis
  <2>. QED  BY <2>1, <2>2, <1>4
<1>6. ASSUME NEW i \in 1 .. n PROVE ~IsLeaf(g, pis + i)
  <2>1. /\ DOMAIN g[pis + i] = 1 .. 2
        /\ \A m \in 1 .. 2 : g[pis + i][m] # 0
    <3>1. g[pis + i] =
            [m \in 1 .. 2 |-> Inserted(h, i, IF h[i][1] = 0 /\ h[i][2] = 0 THEN 3 - m ELSE m)]
      BY <1>3
    <3>2. \A m \in 1 .. 2 : (IF h[i][1] = 0 /\ h[i][2] = 0 THEN 3 - m ELSE m) \in 1 .. 2
      OBVIOUS
    <3>. QED  BY <3>1, <3>2, <1>5
  <2>2. {m \in DOMAIN g[pis + i] : g[pis + i][m] # 0} = 1 .. 2
    BY <2>1
  <2>3. NumChildren(g, pis + i) = 2
    BY <2>2, TwoPlaces DEF NumChildren
  <2>. QED  BY <2>3 DEF IsLeaf
<1>7. PICK i \in 1 .. n : v = pis + i
  <2>1. v \in 1 .. pis + n
    BY <1>3 DEF Vertices, g
  <2>2. v \notin 1 .. pis
    BY <1>3 DEF LeafInputs, g
  <2>3. v - pis \in 1 .. n /\ v = pis + (v - pis)
    BY <2>1, <2>2, <1>4
  <2>. QED  BY <2>3
<1>8. j = 1 /\ k = 2
  <2>1. DOMAIN g[v] = 1 .. 2
    BY <1>3, <1>7
  <2>. QED  BY <2>1 DEF LeafInputs, g
<1>9. h[i][1] = 0 /\ h[i][2] = 0
  <2>. SUFFICES ASSUME NEW m \in 1 .. 2, h[i][m] # 0 PROVE FALSE
    OBVIOUS
  <2>1. g[v][m] = pis + h[i][m] /\ h[i][m] \in 1 .. n
    <3>1. g[v][m] = Inserted(h, i, m)
      <4>1. ~(h[i][1] = 0 /\ h[i][2] = 0)
        OBVIOUS
      <4>2. g[v] = [l \in 1 .. 2 |->
                      Inserted(h, i, IF h[i][1] = 0 /\ h[i][2] = 0 THEN 3 - l ELSE l)]
        BY <1>3, <1>7
      <4>. QED  BY <4>1, <4>2
    <3>. QED  BY <3>1, <1>5
  <2>2. ~IsLeaf(g, g[v][m])
    BY <2>1, <1>6
  <2>3. m \in LeafInputs(g, v)
    BY <1>8 DEF g
  <2>. QED  BY <2>2, <2>3 DEF LeafInputs
<1>10. /\ g[v][1] = pis + 1 - Cardinality(Met(h, i, 2))
       /\ g[v][2] = pis + 1 - Cardinality(Met(h, i, 1))
  <2>1. g[v][1] = Inserted(h, i, 2) /\ g[v][2] = Inserted(h, i, 1)
    <3>1. g[v] = [l \in 1 .. 2 |->
                    Inserted(h, i, IF h[i][1] = 0 /\ h[i][2] = 0 THEN 3 - l ELSE l)]
      BY <1>3, <1>7
    <3>2. g[v] = [l \in 1 .. 2 |-> Inserted(h, i, 3 - l)]
      BY <3>1, <1>9
    <3>. QED  BY <3>2
  <2>. QED  BY <2>1, <1>5, <1>9
<1>11. Cardinality(Met(h, i, 2)) = Cardinality(Met(h, i, 1)) + 1
  <2>1. Met(h, i, 2) = Met(h, i, 1) \cup {<<i, 2>>}
    BY <1>4, <1>9 DEF Met
  <2>2. <<i, 2>> \notin Met(h, i, 1)
    BY DEF Met
  <2>. QED  BY <2>1, <2>2, <1>4, FS_AddElement
<1>. QED  BY <1>4, <1>8, <1>10, <1>11 DEF g
=============================================================================
