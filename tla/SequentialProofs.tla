-------------------------- MODULE SequentialProofs --------------------------
(***************************************************************************)
(* Theorems about SequentialEnumerator, for every grammar, every list of   *)
(* graphs and every client: the variables keep their types, the truth      *)
(* tables whose flag is up are coherent, the maps from truth tables to     *)
(* vertices are fresh, and a client's request is never overlooked.         *)
(***************************************************************************)
EXTENDS SequentialEnumerator, OdometerLemmas, FiniteSetTheorems

-----------------------------------------------------------------------------
(* Graphs and grammars.                                                    *)

(* initialize() found a symbol for every vertex. *)
Supported(d) == \A v \in Vertices(Graph(d)) : PossibleOf[d][v] # {}

LEMMA ElementsOfSequence ==
  \A S : \A s \in Seq(S) : \A i \in DOMAIN s : s[i] \in S
OBVIOUS

LEMMA GraphFacts ==
  ASSUME NEW d \in Graphs
  PROVE  /\ Len(Graph(d)) \in Nat \ {0}
         /\ Vertices(Graph(d)) = 1 .. Len(Graph(d))
         /\ Root(Graph(d)) \in Vertices(Graph(d))
         /\ NrGates(d) \in Nat
         /\ \A v \in Vertices(Graph(d)) : Graph(d)[v] \in Seq(Nat)
<1>1. Dags[d] \in [vertices : Seq(Seq(Nat)), gates : Nat]
  <2>1. Dags \in Seq([vertices : Seq(Seq(Nat)), gates : Nat])
    BY DagAssumption
  <2>. QED  BY <2>1, ElementsOfSequence DEF Graphs
<1>2. Graph(d) \in Seq(Seq(Nat)) /\ NrGates(d) \in Nat
  BY <1>1 DEF Graph, NrGates
<1>3. Len(Graph(d)) > 0
  BY DagAssumption
<1>4. Len(Graph(d)) \in Nat /\ DOMAIN Graph(d) = 1 .. Len(Graph(d))
  BY <1>2
<1>5. \A v \in DOMAIN Graph(d) : Graph(d)[v] \in Seq(Nat)
  BY <1>2
<1>. QED  BY <1>2, <1>3, <1>4, <1>5 DEF Vertices, Root

(* The fanins of a vertex lie below it. *)
LEMMA FaninsBelow ==
  ASSUME NEW d \in Graphs, NEW v \in Vertices(Graph(d)), NEW u \in Fanins(Graph(d), v)
  PROVE  u \in Vertices(Graph(d)) /\ u < v
<1>1. PICK k \in DOMAIN Graph(d)[v] : u = Graph(d)[v][k] /\ u # 0
  BY DEF Fanins
<1>2. u < v /\ u \in Nat
  BY <1>1, DagAssumption, GraphFacts
<1>. QED  BY <1>1, <1>2, GraphFacts

(* The fanins TableAt reads are those of the vertex. *)
LEMMA ReadFanins ==
  ASSUME NEW d \in Graphs, NEW v \in Vertices(Graph(d))
  PROVE  /\ NumChildren(Graph(d), v) \in Nat
         /\ \A k \in 1 .. NumChildren(Graph(d), v) :
              Graph(d)[v][k] \in Fanins(Graph(d), v)
<1>. DEFINE s == Graph(d)[v]
            used == {k \in DOMAIN s : s[k] # 0}
<1>1. s \in Seq(Nat) /\ DOMAIN s = 1 .. Len(s) /\ Len(s) \in Nat
  BY GraphFacts
<1>2. IsFiniteSet(1 .. Len(s)) /\ Cardinality(1 .. Len(s)) = Len(s)
  BY <1>1, FS_Interval
<1>3. used \in SUBSET (1 .. Len(s))
  BY <1>1
<1>4. IsFiniteSet(used) /\ Cardinality(used) <= Len(s)
  BY <1>2, <1>3, FS_Subset
<1>5. Cardinality(used) \in Nat
  BY <1>4, FS_CardinalityType
<1>6. NumChildren(Graph(d), v) = Cardinality(used)
  BY DEF NumChildren
<1>7. ASSUME NEW k \in 1 .. NumChildren(Graph(d), v)
      PROVE  s[k] \in Fanins(Graph(d), v)
  <2>1. k \in DOMAIN s /\ k <= NumChildren(Graph(d), v)
    BY <1>1, <1>4, <1>5, <1>6
  <2>2. s[k] # 0
    BY <2>1, DagAssumption
  <2>. QED  BY <2>1, <2>2 DEF Fanins
<1>. QED  BY <1>5, <1>6, <1>7

(* The possible symbols form wheels for the counter. *)
LEMMA PossibleFacts ==
  ASSUME NEW d \in Graphs
  PROVE  /\ DOMAIN PossibleOf[d] = Vertices(Graph(d))
         /\ Supported(d) => IsWheels(PossibleOf[d])
         /\ \A v \in Vertices(Graph(d)) : \A s \in PossibleOf[d][v] :
              s \in Symbols /\ Arity[s] = NumChildren(Graph(d), v)
<1>1. PossibleOf[d] = PossibleAssignments(Graph(d))
  BY DEF PossibleOf
<1>2. Symbols \subseteq Nat
  BY SymbolAssumption DEF Symbols
<1>3. DOMAIN PossibleOf[d] = Vertices(Graph(d))
  BY <1>1 DEF PossibleAssignments
<1>4. ASSUME NEW v \in Vertices(Graph(d))
      PROVE  PossibleOf[d][v] =
               {s \in Symbols : /\ Arity[s] = NumChildren(Graph(d), v)
                                /\ v = Root(Graph(d)) => s \in RootSymbols}
  BY <1>1 DEF PossibleAssignments
<1>5. \A v \in Vertices(Graph(d)) : PossibleOf[d][v] \subseteq Nat
  BY <1>2, <1>4
<1>6. Vertices(Graph(d)) \subseteq Nat
  BY GraphFacts
<1>7. Supported(d) => IsWheels(PossibleOf[d])
  BY <1>3, <1>5, <1>6 DEF IsWheels, Supported
<1>. QED  BY <1>3, <1>4, <1>7

(* A truth table depends on the symbol of its vertex and on the tables of  *)
(* the fanins, and on nothing else.                                        *)
LEMMA TableLocal ==
  ASSUME NEW d \in Graphs, NEW v \in Vertices(Graph(d)), NEW a, NEW b, NEW t1, NEW t2,
         a[v] = b[v], \A u \in Fanins(Graph(d), v) : t1[u] = t2[u]
  PROVE  TableAt(Graph(d), a, t1, v) = TableAt(Graph(d), b, t2, v)
<1>1. \A k \in 1 .. NumChildren(Graph(d), v) : t1[Graph(d)[v][k]] = t2[Graph(d)[v][k]]
  BY ReadFanins
<1>2. [k \in 1 .. NumChildren(Graph(d), v) |-> t1[Graph(d)[v][k]]]
        = [k \in 1 .. NumChildren(Graph(d), v) |-> t2[Graph(d)[v][k]]]
  BY <1>1
<1>. QED  BY <1>2 DEF TableAt

(* A symbol of the vertex yields a truth table. *)
LEMMA TableTyped ==
  ASSUME NEW d \in Graphs, NEW v \in Vertices(Graph(d)), NEW a, a[v] \in PossibleOf[d][v],
         NEW t, \A u \in Vertices(Graph(d)) : t[u] \in Tables
  PROVE  TableAt(Graph(d), a, t, v) \in Tables
<1>. DEFINE n == NumChildren(Graph(d), v)
            children == [k \in 1 .. n |-> t[Graph(d)[v][k]]]
<1>1. a[v] \in Symbols /\ Arity[a[v]] = n
  BY PossibleFacts
<1>2. \A k \in 1 .. n : Graph(d)[v][k] \in Vertices(Graph(d))
  BY ReadFanins, FaninsBelow
<1>3. children \in [1 .. Arity[a[v]] -> Tables]
  BY <1>1, <1>2
<1>4. NodeOperation(a[v], children) \in Tables
  BY <1>1, <1>3, OperationAssumption
<1>. QED  BY <1>4 DEF TableAt

(* The least vertex of a cone is a vertex. *)
LEMMA MinimalIndexTyped ==
  ASSUME NEW d \in Graphs, NEW v \in Vertices(Graph(d))
  PROVE  MinimalIndexOf[d][v] \in Vertices(Graph(d))
<1>. DEFINE g == Graph(d)
            cone == Cones(g)[v]
<1>1. cone = {u \in Vertices(g) : \A S \in FaninClosedSets(g) : v \in S => u \in S}
  BY DEF Cones
<1>2. v \in cone /\ cone \subseteq Vertices(g)
  BY <1>1
<1>3. cone \subseteq Nat
  BY <1>2, GraphFacts
<1>4. Min(cone) \in cone
  BY <1>2, <1>3, MinOfNaturals
<1>5. MinimalIndexOf[d][v] = Min(cone)
  BY DEF MinimalIndexOf, MinimalIndices
<1>. QED  BY <1>2, <1>4, <1>5
-----------------------------------------------------------------------------
(* Types.                                                                  *)

(* A graph the grammar does not support is left before anything of it is   *)
(* evaluated. *)
Engaged == \/ pc \in {"update", "report", "flags"}
           \/ pc = "loop" /\ nextTask # "NextDag"

(* The inductive form of TypeOK. *)
Typed ==
  /\ TypeOK
  /\ pc # "flags" => toClear = {}
  /\ pc # "update" => callStack = <<>>
  /\ nextTask # "DoNotIncrease"
  /\ pc \in {"update", "report"} => nextTask = "Nothing"
  /\ dag > 0 /\ Supported(dag) => IsReading(Possible, assignment)
  /\ Engaged => Supported(dag)

LEMMA TypedInit == Init => Typed
BY DagAssumption DEF Init, Typed, TypeOK, ControlTypeOK, SizesTypeOK, GraphTypeOK,
   SkipTypeOK, Engaged, Tasks, EmptyMap

(* What holds while a graph is worked on. *)
LEMMA EngagedFacts ==
  ASSUME Typed, Engaged
  PROVE  /\ dag \in Graphs /\ dag > 0 /\ Supported(dag)
         /\ IsReading(Possible, assignment)
         /\ valid \subseteq Vertices(G) /\ tts \in [Vertices(G) -> Tables]
         /\ toClear \subseteq Vertices(G) /\ callStack \in Seq(Vertices(G))
         /\ \A t \in DOMAIN gateMap : gateMap[t] \in Vertices(G)
<1>1. dag \in Graphs /\ dag > 0
  BY DagAssumption DEF Typed, TypeOK, ControlTypeOK, Engaged, Graphs
<1>. QED  BY <1>1 DEF Typed, TypeOK, GraphTypeOK

(* A turn of the counter from a supported graph is well typed. *)
LEMMA IncreaseTyped ==
  ASSUME dag \in Graphs, Supported(dag), IsReading(Possible, assignment),
         NEW p, IncreaseStack(p)
  PROVE  /\ IsReading(Possible, assignment')
         /\ toClear' \subseteq Vertices(G)
         /\ resume' \in {"loop", "next_dag"}
         /\ pc' = "flags"
<1>1. IsWheels(Possible) /\ DOMAIN Possible = Vertices(G)
  BY PossibleFacts DEF Possible, G
<1>2. IsReading(Possible, assignment')
  BY <1>1, IncreaseIsReading DEF IncreaseStack
<1>3. toClear' \subseteq Vertices(G)
  BY <1>1 DEF IncreaseStack, ChangedAt
<1>. QED  BY <1>2, <1>3 DEF IncreaseStack

(* The actions that turn the counter and touch no truth table. *)
LEMMA TurnTyped ==
  ASSUME Typed, Engaged, pc # "flags", NEW p, IncreaseStack(p),
         UNCHANGED <<dag, valid, tts, gateMap, minimalSizes, callStack>>,
         callStack = <<>>, nextTask' \in Tasks \ {"DoNotIncrease"}
  PROVE  Typed'
<1>1. dag \in Graphs /\ dag > 0 /\ Supported(dag) /\ IsReading(Possible, assignment)
  BY EngagedFacts
<1>2. /\ IsReading(Possible, assignment') /\ toClear' \subseteq Vertices(G)
      /\ resume' \in {"loop", "next_dag"} /\ pc' = "flags"
  BY <1>1, IncreaseTyped
<1>3. DOMAIN assignment' = Vertices(G)
  BY <1>1, <1>2, PossibleFacts DEF IsReading, Possible, G
<1>4. G' = G /\ Possible' = Possible /\ Supported(dag)' = Supported(dag)
  BY DEF G, Possible, Supported
<1>5. ControlTypeOK'
  BY <1>1, <1>2 DEF Typed, TypeOK, ControlTypeOK
<1>6. SizesTypeOK' /\ SkipTypeOK'
  BY <1>2 DEF Typed, TypeOK, SizesTypeOK, SkipTypeOK
<1>7. GraphTypeOK'
  BY <1>1, <1>2, <1>3, <1>4 DEF Typed, TypeOK, GraphTypeOK
<1>. QED  BY <1>1, <1>2, <1>4, <1>5, <1>6, <1>7 DEF Typed, TypeOK, Engaged

(* The actions that leave the graph, its assignment and its tables alone   *)
(* and do not start to work on them either. *)
LEMMA MoveTyped ==
  ASSUME Typed, UNCHANGED <<dag, assignment, valid, tts, gateMap, minimalSizes, callStack, toClear, resume>>,
         pc # "flags", pc # "update", nextTask' \in {"Nothing", nextTask},
         \/ pc' \in {"next_dag", "done"}
         \/ pc' = "loop" /\ pc = "report"
  PROVE  Typed'
<1>1. ControlTypeOK'
  BY DEF Typed, TypeOK, ControlTypeOK, Tasks
<1>2. SizesTypeOK' /\ SkipTypeOK'
  BY DEF Typed, TypeOK, SizesTypeOK, SkipTypeOK
<1>3. G' = G /\ Possible' = Possible /\ Supported(dag)' = Supported(dag)
  BY DEF G, Possible, Supported
<1>4. GraphTypeOK'
  BY <1>3 DEF Typed, TypeOK, GraphTypeOK
<1>. QED  BY <1>1, <1>2, <1>3, <1>4 DEF Typed, TypeOK, Engaged

(* A new graph starts on the first assignment, if it has one. *)
LEMMA NextDagTyped ==
  ASSUME Typed, NextDag
  PROVE  Typed'
<1>1. dag' \in Graphs /\ dag' > 0 /\ dag' \in 0 .. Len(Dags) /\ pc' = "loop"
  BY DagAssumption DEF NextDag, Typed, TypeOK, ControlTypeOK, Graphs
<1>2. DOMAIN assignment' = Vertices(G')
  BY <1>1, PossibleFacts DEF NextDag, AllBegin, G
<1>3. Supported(dag') => IsReading(Possible', assignment')
  BY <1>1, PossibleFacts, BeginIsReading DEF NextDag, Possible
<1>4. tts' \in [Vertices(G') -> Tables] /\ valid' = {}
  BY DEF NextDag, G, Tables
<1>5. ControlTypeOK'
  BY <1>1 DEF NextDag, Typed, TypeOK, ControlTypeOK, Tasks
<1>6. SizesTypeOK' /\ SkipTypeOK'
  BY <1>1 DEF NextDag, Typed, TypeOK, SizesTypeOK, SkipTypeOK
<1>7. callStack' = <<>> /\ toClear' = {}
  BY DEF NextDag, Typed
<1>8. GraphTypeOK'
  BY <1>2, <1>4, <1>7 DEF GraphTypeOK, NextDag, EmptyMap
<1>9. ~Supported(dag') => nextTask' = "NextDag"
  BY DEF NextDag, Supported
<1>10. nextTask' # "DoNotIncrease"
  BY DEF NextDag, Typed
<1>. QED  BY <1>1, <1>3, <1>5, <1>6, <1>7, <1>8, <1>9, <1>10 DEF Typed, TypeOK, Engaged, Supported

(* The steps of update_tt_: the graph and its assignment stay. *)
LEMMA UpdateFrame ==
  ASSUME Typed, UNCHANGED <<dag, assignment, nextTask, toClear, resume>>,
         Engaged, pc \in {"loop", "update"}, pc' \in {"update", "report"},
         nextTask = "Nothing",
         pc' = "report" => callStack' = <<>>,
         callStack' \in Seq(Vertices(G)),
         valid' \subseteq Vertices(G), tts' \in [Vertices(G) -> Tables],
         \A t \in DOMAIN gateMap' : gateMap'[t] \in Vertices(G),
         minimalIndexes' \subseteq Vertices(G), SizesTypeOK'
  PROVE  Typed'
<1>1. ControlTypeOK'
  BY EngagedFacts DEF Typed, TypeOK, ControlTypeOK
<1>2. G' = G /\ Possible' = Possible /\ Supported(dag)' = Supported(dag)
  BY DEF G, Possible, Supported
<1>3. GraphTypeOK' /\ SkipTypeOK'
  BY <1>2 DEF Typed, TypeOK, GraphTypeOK, SkipTypeOK
<1>. QED  BY <1>1, <1>2, <1>3, EngagedFacts DEF Typed, TypeOK, Engaged

LEMMA StartUpdateTyped ==
  ASSUME Typed, StartUpdate
  PROVE  Typed'
<1>1. Engaged /\ nextTask = "Nothing"
  BY DEF StartUpdate, NoRequest, Engaged, Typed, TypeOK, ControlTypeOK, Tasks
<1>2. Root(G) \in Vertices(G)
  BY <1>1, EngagedFacts, GraphFacts DEF G
<1>3. callStack' \in Seq(Vertices(G)) /\ minimalIndexes' \subseteq Vertices(G)
  BY <1>2 DEF StartUpdate
<1>. QED  BY <1>1, <1>3, UpdateFrame, EngagedFacts
          DEF StartUpdate, cacheVars, Typed, TypeOK, SizesTypeOK

(* What is known inside update_tt_ about the vertex it is at. *)
LEMMA HeadFacts ==
  ASSUME Typed, pc = "update", callStack # <<>>
  PROVE  /\ Engaged /\ nextTask = "Nothing"
         /\ Head(callStack) \in Vertices(G)
         /\ Tail(callStack) \in Seq(Vertices(G))
         /\ minimalIndexes \subseteq Vertices(G)
         /\ TableAt(G, assignment, tts, Head(callStack)) \in Tables
<1>1. Engaged /\ nextTask = "Nothing" /\ minimalIndexes \subseteq Vertices(G)
  BY DEF Engaged, Typed, TypeOK, SkipTypeOK
<1>2. Head(callStack) \in Vertices(G) /\ Tail(callStack) \in Seq(Vertices(G))
  BY <1>1, EngagedFacts
<1>3. assignment[Head(callStack)] \in PossibleOf[dag][Head(callStack)]
  BY <1>1, <1>2, EngagedFacts, PossibleFacts DEF IsReading, Possible, G
<1>4. TableAt(G, assignment, tts, Head(callStack)) \in Tables
  BY <1>1, <1>2, <1>3, EngagedFacts, TableTyped DEF G
<1>. QED  BY <1>1, <1>2, <1>4

LEMMA DescendTyped ==
  ASSUME Typed, Descend
  PROVE  Typed'
<1>. DEFINE v == Head(callStack)
            k == Min(StaleFanins(v))
<1>1. pc = "update" /\ callStack # <<>>
  BY DEF Descend
<1>2. v \in Vertices(G) /\ dag \in Graphs
  BY <1>1, HeadFacts, EngagedFacts
<1>3. StaleFanins(v) \subseteq Nat /\ StaleFanins(v) # {}
  BY <1>2, GraphFacts DEF Descend, StaleFanins, G
<1>4. k \in StaleFanins(v)
  BY <1>3, MinOfNaturals
<1>5. G[v][k] \in Fanins(G, v)
  BY <1>4 DEF StaleFanins, Fanins
<1>6. G[v][k] \in Vertices(G)
  BY <1>2, <1>5, FaninsBelow DEF G
<1>7. callStack' \in Seq(Vertices(G))
  BY <1>1, <1>6, HeadFacts, EngagedFacts DEF Descend
<1>. QED  BY <1>1, <1>7, UpdateFrame, HeadFacts, EngagedFacts
          DEF Descend, cacheVars, Typed, TypeOK, SizesTypeOK

LEMMA EvaluateLeafTyped ==
  ASSUME Typed, EvaluateLeaf
  PROVE  Typed'
<1>1. pc = "update" /\ callStack # <<>>
  BY DEF EvaluateLeaf
<1>2. valid' \subseteq Vertices(G) /\ tts' \in [Vertices(G) -> Tables]
  BY <1>1, HeadFacts, EngagedFacts DEF EvaluateLeaf
<1>3. callStack' \in Seq(Vertices(G))
  BY <1>1, HeadFacts DEF EvaluateLeaf
<1>. QED  BY <1>1, <1>2, <1>3, UpdateFrame, HeadFacts, EngagedFacts
          DEF EvaluateLeaf, Typed, TypeOK, SizesTypeOK

LEMMA EvaluateGateTyped ==
  ASSUME Typed, EvaluateGate
  PROVE  Typed'
<1>. DEFINE v == Head(callStack)
            t == TableAt(G, assignment, tts, v)
<1>1. pc = "update" /\ callStack # <<>>
  BY DEF EvaluateGate
<1>2. dag \in Graphs /\ v \in Vertices(G) /\ t \in Tables /\ Vertices(G) \subseteq Nat
  BY <1>1, HeadFacts, EngagedFacts, GraphFacts DEF G
<1>3. valid' \subseteq Vertices(G) /\ tts' \in [Vertices(G) -> Tables]
  BY <1>1, <1>2, HeadFacts, EngagedFacts DEF EvaluateGate
<1>4. callStack' \in Seq(Vertices(G))
  BY <1>1, HeadFacts DEF EvaluateGate
<1>5. CheckInputs(v, t) \cup CheckCoi(v, t) \subseteq Vertices(G)
  BY <1>2, MinimalIndexTyped DEF CheckInputs, CheckCoi, G
<1>6. CheckSameGate(v, t) \subseteq Vertices(G)
  <2>1. CASE t \in DOMAIN gateMap
    <3>. DEFINE both == {MinimalIndexOf[dag][v], MinimalIndexOf[dag][gateMap[t]]}
    <3>1. both \subseteq Vertices(G)
      BY <1>1, <1>2, <2>1, HeadFacts, EngagedFacts, MinimalIndexTyped DEF G
    <3>2. Min(both) \in both
      BY <1>2, <3>1, MinOfNaturals
    <3>. QED  BY <2>1, <3>1, <3>2 DEF CheckSameGate
  <2>2. CASE t \notin DOMAIN gateMap
    BY <2>2 DEF CheckSameGate
  <2>. QED  BY <2>1, <2>2
<1>7. minimalIndexes' \subseteq Vertices(G)
  BY <1>1, <1>5, <1>6, HeadFacts DEF EvaluateGate
<1>8. \A x \in DOMAIN gateMap' : gateMap'[x] \in Vertices(G)
  BY <1>1, <1>2, HeadFacts, EngagedFacts DEF EvaluateGate, Emplace
<1>. QED  BY <1>1, <1>3, <1>4, <1>7, <1>8, UpdateFrame, HeadFacts
          DEF EvaluateGate, Typed, TypeOK, SizesTypeOK

LEMMA FinishUpdateTyped ==
  ASSUME Typed, FinishUpdate
  PROVE  Typed'
<1>1. Engaged /\ nextTask = "Nothing" /\ minimalIndexes \subseteq Vertices(G)
  BY DEF FinishUpdate, Engaged, Typed, TypeOK, SkipTypeOK
<1>2. dag \in Graphs /\ tts[Root(G)] \in Tables
  BY <1>1, EngagedFacts, GraphFacts DEF G
<1>3. SizesTypeOK'
  BY <1>2 DEF FinishUpdate, Emplace, Typed, TypeOK, SizesTypeOK
<1>. QED  BY <1>1, <1>3, UpdateFrame, EngagedFacts DEF FinishUpdate, cacheVars

(* Clearing flags leaves the graph and its assignment alone. *)
LEMMA SetFlagsTyped ==
  ASSUME Typed, SetFlags
  PROVE  Typed'
<1>1. Engaged /\ pc' \in {"flags", "loop", "next_dag"}
  BY DEF SetFlags, Engaged, Typed, TypeOK, ControlTypeOK
<1>2. dag \in Graphs /\ valid \subseteq Vertices(G)
  BY <1>1, EngagedFacts
<1>3. \A v \in Vertices(G) : ParentsOf[dag][v] \subseteq Vertices(G)
  BY <1>2 DEF ParentsOf, Parents, G
<1>4. toClear' \subseteq Vertices(G)
  BY <1>2, <1>3 DEF SetFlags
<1>5. valid' \subseteq Vertices(G)
  BY <1>2 DEF SetFlags
<1>6. \A t \in DOMAIN gateMap' : gateMap'[t] \in Vertices(G)
  BY <1>1, EngagedFacts DEF SetFlags, Erase, Restrict
<1>7. G' = G /\ Possible' = Possible /\ Supported(dag)' = Supported(dag)
  BY DEF G, Possible, Supported, SetFlags
<1>8. GraphTypeOK'
  BY <1>1, <1>4, <1>5, <1>6, <1>7, EngagedFacts
  DEF SetFlags, Typed, TypeOK, GraphTypeOK
<1>9. ControlTypeOK'
  BY <1>1, EngagedFacts DEF SetFlags, Typed, TypeOK, ControlTypeOK
<1>10. SizesTypeOK' /\ SkipTypeOK'
  BY <1>1 DEF SetFlags, Typed, TypeOK, SizesTypeOK, SkipTypeOK
<1>11. pc' # "flags" => toClear' = {}
  BY DEF SetFlags, Typed, TypeOK, ControlTypeOK
<1>. QED  BY <1>1, <1>7, <1>8, <1>9, <1>10, <1>11, EngagedFacts
          DEF SetFlags, Typed, TypeOK, Engaged

(* The steps that turn the counter. *)
LEMMA TurnsTyped ==
  ASSUME Typed,
         TakeNextAssignment \/ SkipDuplicate \/ ReportAndSkip \/ ReportAndAdvance
  PROVE  Typed'
<1>1. Engaged /\ pc # "flags" /\ callStack = <<>> /\ "Nothing" \in Tasks
  BY DEF TakeNextAssignment, SkipDuplicate, ReportAndSkip, ReportAndAdvance, NoRequest,
         Engaged, Typed, Tasks
<1>2. CASE TakeNextAssignment
  BY <1>1, <1>2, TurnTyped DEF TakeNextAssignment, cacheVars
<1>3. CASE SkipDuplicate
  BY <1>1, <1>3, TurnTyped DEF SkipDuplicate, cacheVars
<1>4. CASE ReportAndSkip
  BY <1>1, <1>4, TurnTyped DEF ReportAndSkip, cacheVars
<1>5. CASE ReportAndAdvance
  BY <1>1, <1>5, TurnTyped, TaskAssumption DEF ReportAndAdvance, cacheVars
<1>. QED  BY <1>2, <1>3, <1>4, <1>5

LEMMA TypedStep ==
  ASSUME Typed, [Next]_vars
  PROVE  Typed'
<1>1. CASE NextDag
  BY <1>1, NextDagTyped
<1>2. CASE Finish
  BY <1>2, MoveTyped DEF Finish, cacheVars
<1>3. CASE TakeNextDag \/ TakeStopEnumeration \/ ReportAndStay \/ ReportAndLeave
  BY <1>3, MoveTyped DEF TakeNextDag, TakeStopEnumeration, ReportAndStay,
     ReportAndLeave, cacheVars
<1>4. CASE TakeNextAssignment \/ SkipDuplicate \/ ReportAndSkip \/ ReportAndAdvance
  BY <1>4, TurnsTyped
<1>5. CASE StartUpdate
  BY <1>5, StartUpdateTyped
<1>6. CASE Descend
  BY <1>6, DescendTyped
<1>7. CASE EvaluateLeaf
  BY <1>7, EvaluateLeafTyped
<1>8. CASE EvaluateGate
  BY <1>8, EvaluateGateTyped
<1>9. CASE FinishUpdate
  BY <1>9, FinishUpdateTyped
<1>10. CASE SetFlags
  BY <1>10, SetFlagsTyped
<1>11. CASE Terminated \/ UNCHANGED vars
  BY <1>11 DEF Terminated, vars, cacheVars, Typed, TypeOK, ControlTypeOK, SizesTypeOK,
     GraphTypeOK, SkipTypeOK, Engaged, Supported, G, Possible
<1>. QED  BY <1>1, <1>2, <1>3, <1>4, <1>5, <1>6, <1>7, <1>8, <1>9, <1>10, <1>11
          DEF Next, Update, Report

LEMMA TypedAlways == Spec => []Typed
<1>1. Typed /\ [Next]_vars => Typed'
  BY TypedStep
<1>. QED  BY TypedInit, <1>1, PTL DEF Spec

(* The variables keep their types, whatever the grammar, the graphs and    *)
(* the client. *)
THEOREM TypeCorrect == Spec => []TypeOK
<1>1. Typed => TypeOK
  BY DEF Typed
<1>. QED  BY TypedAlways, <1>1, PTL

(* A pending request is taken before the engine computes another formula. *)
THEOREM RequestsTakenFirst == Spec => []PendingRequestFirst
<1>1. Typed => PendingRequestFirst
  BY DEF Typed, PendingRequestFirst
<1>. QED  BY TypedAlways, <1>1, PTL
=============================================================================
