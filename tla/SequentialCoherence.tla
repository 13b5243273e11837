------------------------ MODULE SequentialCoherence ------------------------
(***************************************************************************)
(* Theorems about the truth-table cache of SequentialEnumerator: between   *)
(* the turns of the counter, whatever is recomputed and whatever is left   *)
(* standing, a truth table whose flag is up is what its vertex computes,   *)
(* the two maps speak of such tables only, and the client is called when   *)
(* all that the root depends on is up to date.  A skip that is decided on  *)
(* these tables leaves out only formulas that are dispensable by           *)
(* themselves.                                                             *)
(***************************************************************************)
EXTENDS SequentialProofs, Pruning

-----------------------------------------------------------------------------
(* Coherence.                                                              *)

(* Coherence asks something only of a graph that is worked on. *)
LEMMA CoherentInit == Init => CacheCoherent
BY DEF Init, CacheCoherent

(* A turn of the counter: the vertices it passed are the frontier, and the *)
(* others keep their symbols. *)
LEMMA TurnCoherent ==
  ASSUME Typed, CacheCoherent, Engaged, toClear = {}, NEW p, IncreaseStack(p),
         UNCHANGED <<dag, valid, tts>>
  PROVE  CacheCoherent'
<1>1. dag \in Graphs /\ valid \subseteq Vertices(G) /\ Supported(dag)
  BY EngagedFacts
<1>2. IsWheels(Possible) /\ DOMAIN Possible = Vertices(G)
  BY <1>1, PossibleFacts DEF Possible, G
<1>3. G' = G
  BY DEF G
<1>4. ASSUME NEW v \in valid' \ toClear'
      PROVE  Fanins(G, v) \subseteq valid' /\ tts'[v] = TableAt(G, assignment', tts', v)
  <2>1. v \in Vertices(G) \ ChangedAt(Possible, assignment, p)
    BY <1>1, <1>4 DEF IncreaseStack
  <2>2. assignment'[v] = assignment[v]
    BY <1>2, <2>1, UnchangedKept DEF IncreaseStack
  <2>3. Fanins(G, v) \subseteq valid /\ tts[v] = TableAt(G, assignment, tts, v)
    BY <1>4 DEF CacheCoherent
  <2>4. TableAt(G, assignment', tts', v) = TableAt(G, assignment, tts, v)
    BY <1>1, <2>1, <2>2, TableLocal DEF G
  <2>. QED  BY <2>3, <2>4
<1>. QED  BY <1>3, <1>4 DEF CacheCoherent

(* A vertex that keeps its flag has no fanin that loses it, unless the     *)
(* vertex is in the new frontier. *)
LEMMA SetFlagsCoherent ==
  ASSUME Typed, CacheCoherent, SetFlags
  PROVE  CacheCoherent'
<1>. DEFINE falling == toClear \cap valid
<1>1. Engaged
  BY DEF SetFlags, Engaged
<1>2. dag \in Graphs /\ valid \subseteq Vertices(G)
  BY <1>1, EngagedFacts
<1>3. G' = G /\ valid' = valid \ falling
  BY DEF G, SetFlags
<1>4. ASSUME NEW v \in valid' \ toClear'
      PROVE  Fanins(G, v) \subseteq valid' /\ tts'[v] = TableAt(G, assignment', tts', v)
  <2>1. v \in valid \ toClear /\ v \in Vertices(G)
    BY <1>2, <1>3, <1>4
  <2>2. Fanins(G, v) \subseteq valid /\ tts[v] = TableAt(G, assignment, tts, v)
    BY <2>1 DEF CacheCoherent
  <2>3. ASSUME NEW u \in Fanins(G, v) PROVE u \notin falling
    <3>1. SUFFICES ASSUME u \in falling PROVE FALSE
      OBVIOUS
    <3>2. v \in ParentsOf[dag][u]
      BY <1>2, <2>1, <2>3, <3>1 DEF ParentsOf, Parents, G
    <3>3. v \in toClear'
      BY <3>1, <3>2 DEF SetFlags
    <3>. QED  BY <1>4, <3>3
  <2>. QED  BY <1>3, <2>2, <2>3 DEF SetFlags
<1>. QED  BY <1>3, <1>4 DEF CacheCoherent

(* Tables that agree on the fanins of a vertex give it the same table. *)
LEMMA OnlyTablesOfFanins ==
  ASSUME dag \in Graphs, NEW v \in Vertices(G), NEW old, NEW new,
         \A u \in Fanins(G, v) : new[u] = old[u]
  PROVE  TableAt(G, assignment, new, v) = TableAt(G, assignment, old, v)
BY TableLocal DEF G

(* Entering the table of a vertex whose fanins are all up. *)
LEMMA EvaluateCoherent ==
  ASSUME Typed, CacheCoherent, pc = "update", callStack # <<>>,
         NEW v, v = Head(callStack), Fanins(G, v) \subseteq valid,
         tts' = [tts EXCEPT ![v] = TableAt(G, assignment, tts, v)],
         valid' = valid \cup {v}, UNCHANGED <<dag, assignment, toClear>>
  PROVE  CacheCoherent' /\ (v \in valid => tts' = tts)
<1>1. Engaged /\ toClear = {} /\ G' = G
  BY DEF Engaged, Typed, G
<1>2. /\ dag \in Graphs /\ v \in Vertices(G)
      /\ valid \subseteq Vertices(G) /\ tts \in [Vertices(G) -> Tables]
  BY <1>1, EngagedFacts, HeadFacts
<1>3. v \notin Fanins(G, v)
  BY <1>2, FaninsBelow, GraphFacts DEF G
<1>4. v \in valid => tts' = tts
  BY <1>1, <1>2 DEF CacheCoherent
<1>5. ASSUME NEW w \in valid'
      PROVE  Fanins(G, w) \subseteq valid' /\ tts'[w] = TableAt(G, assignment, tts', w)
  <2>1. CASE w = v
    <3>1. \A u \in Fanins(G, v) : tts'[u] = tts[u]
      BY <1>2, <1>3
    <3>2. TableAt(G, assignment, tts', v) = TableAt(G, assignment, tts, v)
      BY <1>2, <3>1, OnlyTablesOfFanins
    <3>. QED  BY <1>2, <2>1, <3>2
  <2>2. CASE w # v
    <3>1. w \in valid /\ w \in Vertices(G)
      BY <1>2, <1>5, <2>2
    <3>2. Fanins(G, w) \subseteq valid /\ tts[w] = TableAt(G, assignment, tts, w)
      BY <1>1, <3>1 DEF CacheCoherent
    <3>3. \A u \in Fanins(G, w) : tts'[u] = tts[u]
      BY <1>2, <1>4, <3>2
    <3>4. TableAt(G, assignment, tts', w) = TableAt(G, assignment, tts, w)
      BY <1>2, <3>1, <3>3, OnlyTablesOfFanins
    <3>. QED  BY <1>2, <2>2, <3>2, <3>4
  <2>. QED  BY <2>1, <2>2
<1>. QED  BY <1>1, <1>4, <1>5 DEF CacheCoherent

(* Where no fanin is stale, all of them are up. *)
LEMMA NoStaleFanins ==
  ASSUME NEW v, StaleFanins(v) = {}
  PROVE  Fanins(G, v) \subseteq valid
BY DEF StaleFanins, Fanins

(* A leaf has no fanin. *)
LEMMA LeafHasNoFanins ==
  ASSUME NEW d \in Graphs, NEW v \in Vertices(Graph(d)), IsLeaf(Graph(d), v)
  PROVE  Fanins(Graph(d), v) = {}
<1>1. \A k \in DOMAIN Graph(d)[v] : Graph(d)[v][k] # 0 => k <= 0
  BY DagAssumption DEF IsLeaf
<1>2. DOMAIN Graph(d)[v] = 1 .. Len(Graph(d)[v])
  BY GraphFacts
<1>. QED  BY <1>1, <1>2 DEF Fanins

(* What EvaluateLeaf and EvaluateGate have in common. *)
LEMMA EvaluateFacts ==
  ASSUME Typed, EvaluateLeaf \/ EvaluateGate
  PROVE  /\ pc = "update" /\ callStack # <<>>
         /\ dag \in Graphs /\ Head(callStack) \in Vertices(G)
         /\ Fanins(G, Head(callStack)) \subseteq valid
         /\ tts' = [tts EXCEPT ![Head(callStack)] =
                      TableAt(G, assignment, tts, Head(callStack))]
         /\ valid' = valid \cup {Head(callStack)}
         /\ UNCHANGED <<dag, assignment, toClear>>
<1>1. pc = "update" /\ callStack # <<>>
  BY DEF EvaluateLeaf, EvaluateGate
<1>2. dag \in Graphs /\ Head(callStack) \in Vertices(G)
  BY <1>1, HeadFacts, EngagedFacts
<1>3. Fanins(G, Head(callStack)) \subseteq valid
  BY <1>2, NoStaleFanins, LeafHasNoFanins DEF EvaluateLeaf, EvaluateGate, G
<1>. QED  BY <1>1, <1>2, <1>3 DEF EvaluateLeaf, EvaluateGate

LEMMA CoherentStep ==
  ASSUME Typed, CacheCoherent, [Next]_vars
  PROVE  CacheCoherent'
<1>1. CASE NextDag
  BY <1>1 DEF NextDag, CacheCoherent
<1>2. CASE TakeNextAssignment
  BY <1>2, TurnCoherent DEF TakeNextAssignment, Typed, Engaged, cacheVars
<1>3. CASE SkipDuplicate
  BY <1>3, TurnCoherent DEF SkipDuplicate, NoRequest, Typed, Engaged, cacheVars
<1>4. CASE ReportAndSkip \/ ReportAndAdvance
  BY <1>4, TurnCoherent DEF ReportAndSkip, ReportAndAdvance, Typed, Engaged, cacheVars
<1>5. CASE SetFlags
  BY <1>5, SetFlagsCoherent
<1>6. CASE EvaluateLeaf \/ EvaluateGate
  BY <1>6, EvaluateFacts, EvaluateCoherent
<1>7. ASSUME UNCHANGED <<dag, assignment, valid, tts, toClear>> PROVE CacheCoherent'
  BY <1>7 DEF CacheCoherent, G
<1>8. CASE Finish \/ TakeNextDag \/ TakeStopEnumeration \/ StartUpdate \/ Descend
  BY <1>7, <1>8 DEF Finish, TakeNextDag, TakeStopEnumeration, StartUpdate, Descend, cacheVars
<1>9. CASE FinishUpdate \/ ReportAndStay \/ ReportAndLeave \/ Terminated \/ UNCHANGED vars
  BY <1>7, <1>9 DEF FinishUpdate, ReportAndStay, ReportAndLeave, Terminated, vars, cacheVars
<1>. QED  BY <1>1, <1>2, <1>3, <1>4, <1>5, <1>6, <1>8, <1>9 DEF Next, Update, Report

(* A truth table whose flag is up is current: set_tts_flags reaches every  *)
(* vertex that depends on a changed one, however the counter is turned. *)
THEOREM CacheStaysCoherent == Spec => []CacheCoherent
<1>1. Typed /\ CacheCoherent /\ [Next]_vars => CacheCoherent'
  BY CoherentStep
<1>. QED  BY CoherentInit, TypedAlways, <1>1, PTL DEF Spec

-----------------------------------------------------------------------------
(* Freshness.                                                              *)

(* Every entry of map names a vertex of the kind Kind that is up and has   *)
(* the table it is entered under. *)
FreshIn(map, kind, up, tables) ==
  \A t \in DOMAIN map : map[t] \in up /\ tables[map[t]] = t /\ map[t] \in kind

Leaves == {v \in Vertices(G) : IsLeaf(G, v)}

LEMMA FreshSplit ==
  ASSUME Typed, dag > 0
  PROVE  MapsFresh <=> /\ FreshIn(inputMap, Leaves, valid, tts)
                       /\ FreshIn(gateMap, Gates(G), valid, tts)
BY DEF Typed, TypeOK, GraphTypeOK, MapsFresh, FreshIn, Leaves, Gates

(* An entry for a vertex just evaluated; whatever was up before still has  *)
(* its table. *)
LEMMA EmplaceFresh ==
  ASSUME NEW map, NEW kind, NEW up, NEW tables, NEW new, NEW v \in kind, NEW t,
         FreshIn(map, kind, up, tables), new[v] = t,
         \A u \in up : new[u] = tables[u]
  PROVE  FreshIn(Emplace(map, t, v), kind, up \cup {v}, new)
BY DEF FreshIn, Emplace

(* The tables of the falling vertices of a kind take their entries along.  *)
LEMMA EraseFresh ==
  ASSUME NEW map, NEW kind, NEW up, NEW tables, NEW falling,
         FreshIn(map, kind, up, tables)
  PROVE  FreshIn(Erase(map, {tables[v] : v \in falling \cap kind}), kind, up \ falling, tables)
BY DEF FreshIn, Erase, Restrict

LEMMA FreshInit == Init => MapsFresh
BY DEF Init, MapsFresh, EmptyMap

(* Clearing flags: the inputs come in front of the gates, so the index of  *)
(* a vertex tells which map its entry is in. *)
LEMMA SetFlagsFresh ==
  ASSUME Typed, MapsFresh, SetFlags
  PROVE  MapsFresh'
<1>. DEFINE falling == toClear \cap valid
<1>1. Engaged
  BY DEF SetFlags, Engaged
<1>2. dag \in Graphs /\ dag > 0 /\ falling \subseteq Vertices(G)
  BY <1>1, EngagedFacts
<1>3. \A v \in Vertices(G) : IsLeaf(G, v) <=> v <= NrInputs(dag)
  BY <1>2, DagAssumption DEF G
<1>4. NrInputs(dag) \in Int /\ Vertices(G) \subseteq Nat
  BY <1>2, GraphFacts DEF NrInputs, G
<1>5. {u \in falling : u <= NrInputs(dag)} = falling \cap Leaves
  BY <1>2, <1>3 DEF Leaves
<1>6. {u \in falling : u > NrInputs(dag)} = falling \cap Gates(G)
  BY <1>2, <1>3, <1>4 DEF Gates
<1>7. /\ inputMap' = Erase(inputMap, {tts[v] : v \in falling \cap Leaves})
      /\ gateMap' = Erase(gateMap, {tts[v] : v \in falling \cap Gates(G)})
      /\ valid' = valid \ falling /\ tts' = tts /\ G' = G /\ Leaves' = Leaves
  BY <1>5, <1>6 DEF SetFlags, G, Leaves
<1>8. FreshIn(inputMap, Leaves, valid, tts) /\ FreshIn(gateMap, Gates(G), valid, tts)
  BY <1>2, FreshSplit
<1>9. FreshIn(inputMap', Leaves', valid', tts') /\ FreshIn(gateMap', Gates(G'), valid', tts')
  BY <1>7, <1>8, EraseFresh
<1>. QED  BY <1>9 DEF FreshIn, Leaves, Gates, MapsFresh

(* Evaluating a vertex.  A vertex that is up keeps its table by coherence. *)
LEMMA EvaluateFresh ==
  ASSUME Typed, CacheCoherent, MapsFresh, EvaluateLeaf \/ EvaluateGate
  PROVE  MapsFresh'
<1>. DEFINE v == Head(callStack)
            t == TableAt(G, assignment, tts, v)
<1>1. /\ dag \in Graphs /\ dag > 0 /\ v \in Vertices(G)
      /\ tts \in [Vertices(G) -> Tables] /\ valid \subseteq Vertices(G)
  BY EvaluateFacts, HeadFacts, EngagedFacts
<1>2. tts' = [tts EXCEPT ![v] = t] /\ valid' = valid \cup {v} /\ G' = G /\ Leaves' = Leaves
  BY EvaluateFacts DEF G, Leaves
<1>3. v \in valid => tts' = tts
  BY EvaluateFacts, EvaluateCoherent
<1>4. tts'[v] = t /\ \A u \in valid : tts'[u] = tts[u]
  BY <1>1, <1>2, <1>3
<1>5. FreshIn(inputMap, Leaves, valid, tts) /\ FreshIn(gateMap, Gates(G), valid, tts)
  BY <1>1, FreshSplit
<1>6. FreshIn(inputMap, Leaves, valid', tts') /\ FreshIn(gateMap, Gates(G), valid', tts')
  BY <1>2, <1>4, <1>5 DEF FreshIn
<1>7. CASE EvaluateLeaf
  <2>1. v \in Leaves /\ inputMap' = Emplace(inputMap, t, v) /\ gateMap' = gateMap
    BY <1>1, <1>7 DEF EvaluateLeaf, Leaves
  <2>2. FreshIn(inputMap', Leaves, valid', tts')
    BY <1>2, <1>4, <1>5, <2>1, EmplaceFresh
  <2>. QED  BY <1>2, <1>6, <2>1, <2>2 DEF FreshIn, Leaves, Gates, MapsFresh
<1>8. CASE EvaluateGate
  <2>1. v \in Gates(G) /\ inputMap' = inputMap
    BY <1>1, <1>8 DEF EvaluateGate, Gates
  <2>2. gateMap' = gateMap \/ gateMap' = Emplace(gateMap, t, v)
    BY <1>8 DEF EvaluateGate
  <2>3. FreshIn(Emplace(gateMap, t, v), Gates(G), valid', tts')
    BY <1>2, <1>4, <1>5, <2>1, EmplaceFresh
  <2>4. FreshIn(gateMap', Gates(G), valid', tts')
    BY <1>6, <2>2, <2>3
  <2>. QED  BY <1>2, <1>6, <2>1, <2>4 DEF FreshIn, Leaves, Gates, MapsFresh
<1>. QED  BY <1>7, <1>8

LEMMA FreshStep ==
  ASSUME Typed, CacheCoherent, MapsFresh, [Next]_vars
  PROVE  MapsFresh'
<1>1. CASE NextDag
  BY <1>1 DEF NextDag, MapsFresh, EmptyMap
<1>2. CASE SetFlags
  BY <1>2, SetFlagsFresh
<1>3. CASE EvaluateLeaf \/ EvaluateGate
  BY <1>3, EvaluateFresh
<1>4. ASSUME UNCHANGED <<dag, cacheVars>> PROVE MapsFresh'
  BY <1>4 DEF MapsFresh, G, cacheVars
<1>5. CASE Finish \/ TakeNextDag \/ TakeNextAssignment \/ TakeStopEnumeration
  BY <1>4, <1>5 DEF Finish, TakeNextDag, TakeNextAssignment, TakeStopEnumeration
<1>6. CASE SkipDuplicate \/ StartUpdate \/ Descend \/ FinishUpdate
  BY <1>4, <1>6 DEF SkipDuplicate, StartUpdate, Descend, FinishUpdate
<1>7. CASE Report \/ Terminated \/ UNCHANGED vars
  BY <1>4, <1>7 DEF Report, ReportAndSkip, ReportAndStay, ReportAndLeave, ReportAndAdvance,
     Terminated, vars
<1>. QED  BY <1>1, <1>2, <1>3, <1>5, <1>6, <1>7 DEF Next, Update

(* What check_inputs and check_same_gate look up is never out of date. *)
THEOREM MapsStayFresh == Spec => []MapsFresh
<1>1. Typed /\ CacheCoherent /\ MapsFresh /\ [Next]_vars => MapsFresh'
  BY FreshStep
<1>. QED  BY FreshInit, TypedAlways, CacheStaysCoherent, <1>1, PTL DEF Spec

-----------------------------------------------------------------------------
(* The client.                                                             *)

(* The innermost-first stack of update_tt_ rests on the root; when it is   *)
(* empty the root has been computed. *)
RootAwaited ==
  /\ pc = "update" =>
       IF callStack = <<>> THEN Root(G) \in valid
       ELSE callStack[Len(callStack)] = Root(G)
  /\ pc = "report" => Root(G) \in valid

LEMMA RootAwaitedStep ==
  ASSUME Typed, RootAwaited, [Next]_vars
  PROVE  RootAwaited'
<1>1. CASE StartUpdate
  BY <1>1 DEF StartUpdate, RootAwaited, G
<1>2. CASE Descend
  <2>1. Engaged /\ callStack \in Seq(Vertices(G)) /\ callStack # <<>>
    BY <1>2, EngagedFacts DEF Descend, Engaged
  <2>2. PICK u : callStack' = <<u>> \o callStack /\ pc' = "update" /\ dag' = dag
    BY <1>2 DEF Descend
  <2>3. callStack'[Len(callStack')] = callStack[Len(callStack)] /\ callStack' # <<>>
    BY <2>1, <2>2
  <2>. QED  BY <1>2, <2>1, <2>2, <2>3 DEF RootAwaited, Descend, G
<1>3. CASE EvaluateLeaf \/ EvaluateGate
  <2>1. Engaged /\ callStack \in Seq(Vertices(G)) /\ callStack # <<>> /\ pc = "update"
    BY <1>3, EngagedFacts DEF EvaluateLeaf, EvaluateGate, Engaged
  <2>2. callStack' = Tail(callStack) /\ valid' = valid \cup {Head(callStack)} /\ G' = G /\ pc' = pc
    BY <1>3 DEF EvaluateLeaf, EvaluateGate, G
  <2>3. CASE callStack' = <<>>
    BY <2>1, <2>2, <2>3 DEF RootAwaited
  <2>4. CASE callStack' # <<>>
    <3>1. callStack'[Len(callStack')] = callStack[Len(callStack)]
      BY <2>1, <2>2, <2>4
    <3>. QED  BY <2>1, <2>2, <2>4, <3>1 DEF RootAwaited
  <2>. QED  BY <2>3, <2>4
<1>4. CASE FinishUpdate
  BY <1>4 DEF FinishUpdate, RootAwaited, G, cacheVars
<1>5. CASE UNCHANGED vars \/ Terminated
  BY <1>5 DEF Terminated, vars, cacheVars, RootAwaited, G
<1>6. ASSUME pc' \notin {"update", "report"} PROVE RootAwaited'
  BY <1>6 DEF RootAwaited
<1>7. CASE NextDag \/ Finish \/ TakeNextDag \/ TakeNextAssignment \/ TakeStopEnumeration
  BY <1>6, <1>7 DEF NextDag, Finish, TakeNextDag, TakeNextAssignment, TakeStopEnumeration,
     IncreaseStack
<1>8. CASE SkipDuplicate \/ Report \/ SetFlags
  <2>1. resume \in {"loop", "next_dag"}
    BY DEF Typed, TypeOK, ControlTypeOK
  <2>. QED  BY <1>6, <1>8, <2>1 DEF SkipDuplicate, Report, ReportAndSkip, ReportAndStay,
            ReportAndLeave, ReportAndAdvance, SetFlags, IncreaseStack
<1>. QED  BY <1>1, <1>2, <1>3, <1>4, <1>5, <1>7, <1>8 DEF Next, Update

LEMMA RootAwaitedAlways == Spec => []RootAwaited
<1>1. Init => RootAwaited
  BY DEF Init, RootAwaited
<1>2. Typed /\ RootAwaited /\ [Next]_vars => RootAwaited'
  BY RootAwaitedStep
<1>. QED  BY TypedAlways, <1>1, <1>2, PTL DEF Spec

(* When the client is called, every truth table the root depends on is up, *)
(* hence current: the tables that are up are closed under fanins.          *)
THEOREM ClientSeesCurrentCone == Spec => [](ReportedCone /\ CacheCoherent)
<1>1. Typed /\ CacheCoherent /\ RootAwaited => ReportedCone
  <2>1. SUFFICES ASSUME Typed, CacheCoherent, RootAwaited, pc = "report"
                 PROVE  Cones(G)[Root(G)] \subseteq valid
    BY DEF ReportedCone
  <2>2. Engaged /\ toClear = {} /\ Root(G) \in valid
    BY <2>1 DEF Engaged, Typed, RootAwaited
  <2>3. dag \in Graphs /\ valid \subseteq Vertices(G) /\ Root(G) \in Vertices(G)
    BY <2>1, <2>2, EngagedFacts, GraphFacts DEF G
  <2>4. valid \in FaninClosedSets(G)
    BY <2>1, <2>2, <2>3 DEF CacheCoherent, FaninClosedSets
  <2>. QED  BY <2>2, <2>3, <2>4 DEF Cones
<1>. QED  BY <1>1, TypedAlways, CacheStaysCoherent, RootAwaitedAlways, PTL

-----------------------------------------------------------------------------
(* Simulation.                                                             *)

(* Vertices are computed from those below them, so a table for the first m *)
(* vertices extends to one more. *)
LEMMA TablesExist ==
  ASSUME NEW d \in Graphs, NEW a
  PROVE  \E f : f = [v \in Vertices(Graph(d)) |-> TableAt(Graph(d), a, f, v)]
<1>. DEFINE g == Graph(d)
            n == Len(g)
            UpTo(m) == \E f : /\ f = [v \in Vertices(g) |-> f[v]]
                             /\ \A v \in 1 .. m : f[v] = TableAt(g, a, f, v)
            missed == {m \in 0 .. n : ~UpTo(m)}
<1>1. n \in Nat \ {0} /\ Vertices(g) = 1 .. n
  BY GraphFacts
<1>2. UpTo(0)
  <2>. DEFINE f == [v \in Vertices(g) |-> 0]
  <2>1. f = [v \in Vertices(g) |-> f[v]] /\ \A v \in 1 .. 0 : f[v] = TableAt(g, a, f, v)
    OBVIOUS
  <2>. HIDE DEF f
  <2>. QED  BY <2>1
<1>3. ASSUME NEW m \in 0 .. n - 1, UpTo(m)
      PROVE  UpTo(m + 1)
  <2>1. PICK f : /\ f = [v \in Vertices(g) |-> f[v]]
                 /\ \A v \in 1 .. m : f[v] = TableAt(g, a, f, v)
    BY <1>3
  <2>. DEFINE h == [v \in Vertices(g) |-> IF v = m + 1 THEN TableAt(g, a, f, v) ELSE f[v]]
  <2>2. \A v \in Vertices(g) : v # m + 1 => h[v] = f[v]
    OBVIOUS
  <2>3. h[m + 1] = TableAt(g, a, f, m + 1)
    BY <1>1
  <2>4. h = [v \in Vertices(g) |-> h[v]]
    OBVIOUS
  <2>. HIDE DEF h
  <2>5. ASSUME NEW v \in 1 .. m + 1
        PROVE  h[v] = TableAt(g, a, h, v)
    <3>1. v \in Vertices(g)
      BY <1>1
    <3>2. \A u \in Fanins(g, v) : h[u] = f[u]
      <4>1. \A u \in Fanins(g, v) : u \in Vertices(g) /\ u < v
        BY <3>1, FaninsBelow
      <4>. QED  BY <4>1, <3>1, <2>2, <1>1
    <3>3. TableAt(g, a, h, v) = TableAt(g, a, f, v)
      BY <3>1, <3>2, TableLocal
    <3>4. CASE v = m + 1
      BY <3>3, <3>4, <2>3
    <3>5. CASE v # m + 1
      BY <3>1, <3>3, <3>5, <2>1, <2>2
    <3>. QED  BY <3>4, <3>5
  <2>. QED  BY <2>4, <2>5
<1>4. missed = {}
  <2>. SUFFICES ASSUME missed # {} PROVE FALSE
    OBVIOUS
  <2>. HIDE DEF UpTo
  <2>. DEFINE m == Min(missed)
  <2>1. m \in missed /\ \A k \in missed : m <= k
    <3>1. missed \subseteq Nat /\ missed # {}
      BY <1>1
    <3>. HIDE DEF missed
    <3>. QED  BY <3>1, MinOfNaturals
  <2>2. m \in 0 .. n /\ ~UpTo(m)
    BY <2>1
  <2>3. m - 1 \in 0 .. n - 1 /\ (m - 1) + 1 = m
    BY <1>1, <1>2, <2>2
  <2>4. UpTo(m - 1)
    BY <1>1, <2>1, <2>3
  <2>. QED  BY <1>3, <2>2, <2>3, <2>4
<1>5. PICK f : /\ f = [v \in Vertices(g) |-> f[v]]
               /\ \A v \in Vertices(g) : f[v] = TableAt(g, a, f, v)
  BY <1>1, <1>4
<1>6. f = [v \in Vertices(g) |-> TableAt(g, a, f, v)]
  <2>. HIDE DEF g
  <2>. QED  BY <1>5
<1>. QED  BY <1>6

LEMMA SimulateDefined ==
  ASSUME NEW d \in Graphs, NEW a
  PROVE  \A v \in Vertices(Graph(d)) :
           Simulate(Graph(d), a)[v] = TableAt(Graph(d), a, Simulate(Graph(d), a), v)
<1>. DEFINE table == Simulate(Graph(d), a)
<1>1. table = CHOOSE f : f = [v \in Vertices(Graph(d)) |-> TableAt(Graph(d), a, f, v)]
  BY DEF Simulate
<1>2. table = [v \in Vertices(Graph(d)) |-> TableAt(Graph(d), a, table, v)]
  BY <1>1, TablesExist
<1>. HIDE DEF table
<1>3. \A v \in Vertices(Graph(d)) : table[v] = TableAt(Graph(d), a, table, v)
  BY <1>2
<1>. QED  BY <1>3 DEF table

(* Tables that are coherent and closed under fanins are those of the       *)
(* simulation: the least that was not would be computed from tables that   *)
(* are.                                                                    *)
LEMMA CoherentIsSimulated ==
  ASSUME Typed, CacheCoherent, Engaged, toClear = {}
  PROVE  \A v \in valid : tts[v] = Simulate(G, assignment)[v]
<1>. DEFINE table == Simulate(G, assignment)
            wrong == {v \in valid : tts[v] # table[v]}
<1>. SUFFICES ASSUME wrong # {} PROVE FALSE
  OBVIOUS
<1>1. dag \in Graphs /\ valid \subseteq Vertices(G) /\ Vertices(G) \subseteq Nat
  BY EngagedFacts, GraphFacts DEF G
<1>2. PICK v \in wrong : \A u \in wrong : v <= u
  BY <1>1, MinOfNaturals
<1>3. v \in Vertices(G) /\ Fanins(G, v) \subseteq valid /\ tts[v] = TableAt(G, assignment, tts, v)
  BY <1>1, <1>2 DEF CacheCoherent
<1>4. table[v] = TableAt(G, assignment, table, v)
  BY <1>1, <1>3, SimulateDefined DEF G
<1>5. ASSUME NEW u \in Fanins(G, v) PROVE tts[u] = table[u]
  <2>1. u \in Vertices(G) /\ u < v /\ u \in valid
    BY <1>1, <1>3, <1>5, FaninsBelow DEF G
  <2>. QED  BY <2>1, <1>1, <1>2
<1>. HIDE DEF table
<1>6. TableAt(G, assignment, tts, v) = TableAt(G, assignment, table, v)
  BY <1>1, <1>3, <1>5, TableLocal DEF G
<1>7. tts[v] = table[v]
  BY <1>3, <1>4, <1>6
<1>. QED  BY <1>2, <1>7

(* The truth table the client reads with get_root_tt() is what simulating  *)
(* the formula gives.                                                      *)
THEOREM ClientSeesCurrentTable == Spec => []ReportedIsCurrent
<1>1. Typed /\ CacheCoherent /\ RootAwaited => ReportedIsCurrent
  <2>. SUFFICES ASSUME Typed, CacheCoherent, RootAwaited, pc = "report"
                PROVE  tts[Root(G)] = Simulate(G, assignment)[Root(G)]
    BY DEF ReportedIsCurrent
  <2>1. Engaged /\ toClear = {} /\ Root(G) \in valid
    BY DEF Engaged, Typed, RootAwaited
  <2>. QED  BY <2>1, CoherentIsSimulated
<1>. QED  BY <1>1, TypedAlways, CacheStaysCoherent, RootAwaitedAlways, PTL
-----------------------------------------------------------------------------
(* Skips.                                                                  *)

(* A cone holds its vertex and the fanins of its members, and the minimal  *)
(* index is the least vertex in it. *)
LEMMA ConeFacts ==
  ASSUME NEW d \in Graphs, NEW v \in Vertices(Graph(d))
  PROVE  /\ Cones(Graph(d))[v] \subseteq Vertices(Graph(d)) /\ v \in Cones(Graph(d))[v]
         /\ \A u \in Cones(Graph(d))[v] : Fanins(Graph(d), u) \subseteq Cones(Graph(d))[v]
         /\ MinimalIndexOf[d][v] \in Nat
         /\ \A u \in Cones(Graph(d))[v] : MinimalIndexOf[d][v] <= u
<1>. DEFINE g == Graph(d)
            cone == Cones(g)[v]
<1>1. cone = {u \in Vertices(g) : \A S \in FaninClosedSets(g) : v \in S => u \in S}
  BY DEF Cones
<1>2. cone \subseteq Vertices(g) /\ v \in cone /\ Vertices(g) \subseteq Nat
  BY <1>1, GraphFacts
<1>3. ASSUME NEW u \in cone, NEW w \in Fanins(g, u) PROVE w \in cone
  <2>1. w \in Vertices(g)
    BY <1>2, FaninsBelow
  <2>2. ASSUME NEW S \in FaninClosedSets(g), v \in S PROVE w \in S
    BY <1>1, <2>2 DEF FaninClosedSets
  <2>. QED  BY <1>1, <2>1, <2>2
<1>4. MinimalIndexOf[d][v] = Min(cone)
  BY DEF MinimalIndexOf, MinimalIndices
<1>. QED  BY <1>2, <1>3, <1>4, MinOfNaturals

(* What a formula computes at v depends on the symbols in the cone of v.   *)
LEMMA SimulateLocal ==
  ASSUME NEW d \in Graphs, NEW v \in Vertices(Graph(d)), NEW a, NEW b,
         \A u \in Cones(Graph(d))[v] : b[u] = a[u]
  PROVE  Simulate(Graph(d), b)[v] = Simulate(Graph(d), a)[v]
<1>. DEFINE g == Graph(d)
            cone == Cones(g)[v]
            f == Simulate(g, a)
            h == Simulate(g, b)
            wrong == {u \in cone : h[u] # f[u]}
<1>. SUFFICES ASSUME wrong # {} PROVE FALSE
  BY ConeFacts
<1>1. cone \subseteq Vertices(g) /\ Vertices(g) \subseteq Nat
  BY ConeFacts, GraphFacts
<1>2. PICK x \in wrong : \A u \in wrong : x <= u
  BY <1>1, MinOfNaturals
<1>3. x \in Vertices(g) /\ x \in cone
  BY <1>1, <1>2
<1>4. f[x] = TableAt(g, a, f, x) /\ h[x] = TableAt(g, b, h, x)
  BY <1>3, SimulateDefined
<1>5. ASSUME NEW u \in Fanins(g, x) PROVE h[u] = f[u]
  <2>1. u \in cone /\ u < x /\ u \in Nat /\ x \in Nat
    BY <1>1, <1>3, <1>5, ConeFacts, FaninsBelow
  <2>. QED  BY <2>1, <1>2
<1>. HIDE DEF f, h
<1>6. TableAt(g, b, h, x) = TableAt(g, a, f, x)
  BY <1>3, <1>5, TableLocal
<1>. QED  BY <1>2, <1>4, <1>6

(* A formula and what its symbols are from vertex p on. *)
AgreeFrom(d, a, b, p) == \A u \in Vertices(Graph(d)) : u >= p => b[u] = a[u]

LEMMA AgreeOnCone ==
  ASSUME NEW d \in Graphs, NEW v \in Vertices(Graph(d)), NEW a, NEW b, NEW p \in Nat,
         AgreeFrom(d, a, b, p), p <= MinimalIndexOf[d][v]
  PROVE  /\ \A u \in Cones(Graph(d))[v] : b[u] = a[u]
         /\ Simulate(Graph(d), b)[v] = Simulate(Graph(d), a)[v]
<1>1. ASSUME NEW u \in Cones(Graph(d))[v] PROVE b[u] = a[u]
  <2>1. u \in Vertices(Graph(d)) /\ u \in Nat
    BY ConeFacts, GraphFacts
  <2>2. MinimalIndexOf[d][v] \in Nat /\ MinimalIndexOf[d][v] <= u
    BY ConeFacts
  <2>3. u >= p
    BY <2>1, <2>2
  <2>. QED  BY <2>1, <2>3 DEF AgreeFrom
<1>. QED  BY <1>1, SimulateLocal

(* A vertex that makes a formula a duplicate does so in every formula with *)
(* the same symbols in its cone.                                           *)
LEMMA DuplicateLocal ==
  ASSUME NEW d \in Graphs, NEW v \in Vertices(Graph(d)), NEW a, NEW b, DuplicateAt(d, a, v),
         \A u \in Cones(Graph(d))[v] : b[u] = a[u]
  PROVE  DuplicateAt(d, b, v)
<1>. DEFINE g == Graph(d)
<1>1. b[v] = a[v]
  BY ConeFacts
<1>2. ASSUME NEW k \in LeafInputs(g, v) PROVE b[g[v][k]] = a[g[v][k]]
  <2>1. g[v][k] \in Fanins(g, v)
    BY DEF LeafInputs, Fanins
  <2>. QED  BY <2>1, ConeFacts
<1>. QED  BY <1>1, <1>2 DEF DuplicateAt, SwappedInputs, RepeatedInput

(* What the truth tables must show to justify a jump at p: a gate repeats  *)
(* an input or another gate, or is larger than it need be, and p is not    *)
(* above the cones it is about.                                            *)
SkipReason(p) ==
  LET f == Simulate(G, assignment)
  IN  /\ NrGates(dag) > 3
      /\ \E v \in Gates(G) :
           /\ p <= MinimalIndexOf[dag][v]
           /\ \/ \E s \in Symbols : Arity[s] = 0 /\ NodeOperation(s, <<>>) = f[v]
              \/ \E w \in Gates(G) \ {v} : p <= MinimalIndexOf[dag][w] /\ f[w] = f[v]
              \/ f[v] \in DOMAIN minimalSizes /\ CoiSizeOf[dag][v] > minimalSizes[f[v]]

LEMMA ReasonCarriesOver ==
  ASSUME dag \in Graphs, NEW p \in Nat, SkipReason(p), NEW b, AgreeFrom(dag, assignment, b, p)
  PROVE  Dispensable(dag, b)
<1>. DEFINE f == Simulate(G, assignment)
            h == Simulate(G, b)
<1>1. \A v \in Gates(G) : p <= MinimalIndexOf[dag][v] => h[v] = f[v]
  BY AgreeOnCone DEF G, Gates
<1>2. PICK v \in Gates(G) :
        /\ p <= MinimalIndexOf[dag][v]
        /\ \/ \E s \in Symbols : Arity[s] = 0 /\ NodeOperation(s, <<>>) = f[v]
           \/ \E w \in Gates(G) \ {v} : p <= MinimalIndexOf[dag][w] /\ f[w] = f[v]
           \/ f[v] \in DOMAIN minimalSizes /\ CoiSizeOf[dag][v] > minimalSizes[f[v]]
  BY DEF SkipReason
<1>3. NrGates(dag) > 3 /\ h[v] = f[v]
  BY <1>1, <1>2 DEF SkipReason
<1>4. \/ \E s \in Symbols : Arity[s] = 0 /\ NodeOperation(s, <<>>) = h[v]
      \/ \E w \in Gates(G) \ {v} : h[w] = h[v]
      \/ h[v] \in DOMAIN minimalSizes /\ CoiSizeOf[dag][v] > minimalSizes[h[v]]
  BY <1>1, <1>2, <1>3
<1>. HIDE DEF f, h
<1>. QED  BY <1>3, <1>4 DEF Dispensable, G, h

(* The calls of update_tt_ go down from vertex to vertex, and all but the  *)
(* outermost are for tables that are not valid. *)
StackDescends ==
  pc = "update" =>
    \A j \in DOMAIN callStack :
      /\ \A i \in DOMAIN callStack : i < j => callStack[i] < callStack[j]
      /\ j # Len(callStack) => callStack[j] \notin valid

LEMMA StackDescendsStep ==
  ASSUME Typed, StackDescends, [Next]_vars
  PROVE  StackDescends'
<1>1. CASE StartUpdate
  BY <1>1 DEF StartUpdate, StackDescends
<1>2. CASE Descend
  <2>. DEFINE h == Head(callStack)
              k == Min(StaleFanins(h))
              u == G[h][k]
  <2>1. /\ dag \in Graphs /\ callStack \in Seq(Vertices(G)) /\ callStack # <<>>
        /\ h \in Vertices(G) /\ h = callStack[1] /\ pc = "update"
    <3>1. pc = "update" /\ callStack # <<>>
      BY <1>2 DEF Descend
    <3>. QED  BY <3>1, HeadFacts, EngagedFacts
  <2>2. u \in Fanins(G, h) /\ u \notin valid
    <3>1. StaleFanins(h) \subseteq Nat /\ StaleFanins(h) # {}
      <4>1. dag \in Graphs /\ h \in Vertices(Graph(dag))
        BY <2>1 DEF G
      <4>2. DOMAIN G[h] \subseteq Nat
        BY <4>1, GraphFacts DEF G
      <4>. QED  BY <1>2, <4>2 DEF Descend, StaleFanins
    <3>2. k \in StaleFanins(h)
      BY <3>1, MinOfNaturals
    <3>. QED  BY <3>2 DEF StaleFanins, Fanins
  <2>3. u \in Nat /\ u < h /\ Vertices(G) \subseteq Nat
    <3>1. u \in Vertices(Graph(dag)) /\ u < h
      BY <2>1, <2>2, FaninsBelow DEF G
    <3>2. Vertices(Graph(dag)) \subseteq Nat
      BY <2>1, GraphFacts
    <3>. QED  BY <3>1, <3>2 DEF G
  <2>4. callStack' = <<u>> \o callStack /\ valid' = valid /\ Len(callStack) \in Nat
    BY <1>2, <2>1 DEF Descend, cacheVars
  <2>. HIDE DEF u, h
  <2>5. /\ DOMAIN callStack = 1 .. Len(callStack) /\ Len(callStack') = Len(callStack) + 1
        /\ DOMAIN callStack' = 1 .. Len(callStack) + 1 /\ callStack'[1] = u
        /\ \A i \in 2 .. Len(callStack) + 1 : callStack'[i] = callStack[i - 1]
    BY <2>1, <2>4
  <2>6. \A i \in 1 .. Len(callStack) + 1 : i = 1 \/ (i \in 2 .. Len(callStack) + 1 /\ i - 1 \in 1 .. Len(callStack))
    BY <2>4
  <2>7. \A i \in 1 .. Len(callStack) : callStack[i] \in Nat /\ u < callStack[i]
    <3>. TAKE i \in 1 .. Len(callStack)
    <3>1. callStack[i] \in Nat /\ callStack[1] \in Nat
      BY <2>1, <2>3, <2>5
    <3>2. 1 \in 1 .. Len(callStack) /\ (i = 1 \/ 1 < i)
      BY <2>4
    <3>3. i = 1 \/ callStack[1] < callStack[i]
      BY <2>1, <2>5, <3>2 DEF StackDescends
    <3>. QED  BY <2>1, <2>3, <3>1, <3>3
  <2>8. ASSUME NEW j \in DOMAIN callStack'
        PROVE  /\ \A i \in DOMAIN callStack' : i < j => callStack'[i] < callStack'[j]
               /\ j # Len(callStack') => callStack'[j] \notin valid
    <3>1. CASE j = 1
      BY <2>2, <2>5, <3>1
    <3>2. CASE j # 1
      <4>1. j - 1 \in DOMAIN callStack /\ callStack'[j] = callStack[j - 1]
        BY <2>5, <2>6, <3>2
      <4>2. j # Len(callStack') => j - 1 # Len(callStack)
        BY <2>4, <2>5
      <4>3. \A i \in DOMAIN callStack' : i < j =>
              i = 1 \/ (i - 1 \in DOMAIN callStack /\ i - 1 < j - 1 /\ callStack'[i] = callStack[i - 1])
        BY <2>5, <2>6
      <4>. QED  BY <2>1, <2>5, <2>7, <4>1, <4>2, <4>3 DEF StackDescends
    <3>. QED  BY <3>1, <3>2
  <2>. QED  BY <2>4, <2>8 DEF StackDescends
<1>3. CASE EvaluateLeaf \/ EvaluateGate
  <2>1. /\ callStack \in Seq(Vertices(G)) /\ callStack # <<>> /\ pc = "update"
        /\ Vertices(G) \subseteq Nat
    BY <1>3, EvaluateFacts, EngagedFacts, HeadFacts, GraphFacts DEF G
  <2>2. callStack' = Tail(callStack) /\ valid' = valid \cup {callStack[1]}
    BY <1>3, <2>1 DEF EvaluateLeaf, EvaluateGate
  <2>3. /\ DOMAIN callStack = 1 .. Len(callStack) /\ Len(callStack) \in Nat
        /\ Len(callStack') = Len(callStack) - 1 /\ DOMAIN callStack' = 1 .. Len(callStack) - 1
        /\ \A i \in 1 .. Len(callStack) - 1 : callStack'[i] = callStack[i + 1]
    BY <2>1, <2>2
  <2>4. \A i \in DOMAIN callStack' : i + 1 \in DOMAIN callStack /\ 1 < i + 1
    BY <2>3
  <2>5. ASSUME NEW j \in DOMAIN callStack'
        PROVE  /\ \A i \in DOMAIN callStack' : i < j => callStack'[i] < callStack'[j]
               /\ j # Len(callStack') => callStack'[j] \notin valid'
    <3>1. \A i \in DOMAIN callStack' : i < j => i + 1 < j + 1
      BY <2>3
    <3>2. 1 \in DOMAIN callStack /\ callStack[1] < callStack[j + 1]
      BY <2>1, <2>3, <2>4 DEF StackDescends
    <3>3. callStack[1] \in Nat /\ callStack[j + 1] # callStack[1]
      BY <2>1, <2>3, <2>4, <3>2
    <3>4. j # Len(callStack') => j + 1 # Len(callStack)
      BY <2>3
    <3>. QED  BY <2>1, <2>2, <2>3, <2>4, <3>1, <3>3, <3>4 DEF StackDescends
  <2>. QED  BY <2>5 DEF StackDescends
<1>4. CASE UNCHANGED vars \/ Terminated
  BY <1>4 DEF Terminated, vars, cacheVars, StackDescends
<1>5. ASSUME pc' # "update" PROVE StackDescends'
  BY <1>5 DEF StackDescends
<1>6. CASE NextDag \/ Finish \/ TakeNextDag \/ TakeNextAssignment \/ TakeStopEnumeration
  BY <1>5, <1>6 DEF NextDag, Finish, TakeNextDag, TakeNextAssignment, TakeStopEnumeration,
     IncreaseStack
<1>7. CASE SkipDuplicate \/ Report \/ SetFlags \/ FinishUpdate
  <2>1. resume \in {"loop", "next_dag"}
    BY DEF Typed, TypeOK, ControlTypeOK
  <2>. QED  BY <1>5, <1>7, <2>1 DEF SkipDuplicate, Report, ReportAndSkip, ReportAndStay,
            ReportAndLeave, ReportAndAdvance, SetFlags, IncreaseStack, FinishUpdate
<1>. QED  BY <1>1, <1>2, <1>3, <1>4, <1>6, <1>7 DEF Next, Update

LEMMA StackDescendsAlways == Spec => []StackDescends
<1>1. Init => StackDescends
  BY DEF Init, StackDescends
<1>2. Typed /\ StackDescends /\ [Next]_vars => StackDescends'
  BY StackDescendsStep
<1>. QED  BY TypedAlways, <1>1, <1>2, PTL DEF Spec

(* Whatever is evaluated although its flag is up is the root. *)
LEMMA ValidHeadIsRoot ==
  ASSUME Typed, StackDescends, RootAwaited, pc = "update", callStack # <<>>,
         Head(callStack) \in valid
  PROVE  Head(callStack) = Root(G)
<1>1. callStack \in Seq(Vertices(G))
  BY HeadFacts, EngagedFacts
<1>2. 1 \in DOMAIN callStack /\ Head(callStack) = callStack[1]
  BY <1>1
<1>3. Len(callStack) = 1
  BY <1>2 DEF StackDescends
<1>. QED  BY <1>2, <1>3 DEF RootAwaited

LEMMA RootIndex ==
  ASSUME RootReachesFirst, NEW d \in Graphs
  PROVE  MinimalIndexOf[d][Root(Graph(d))] = 1
<1>. DEFINE r == Root(Graph(d))
<1>1. r \in Vertices(Graph(d)) /\ 1 \in Cones(Graph(d))[r] /\ Vertices(Graph(d)) = 1 .. Len(Graph(d))
  BY GraphFacts DEF RootReachesFirst
<1>2. MinimalIndexOf[d][r] \in 1 .. Len(Graph(d)) /\ MinimalIndexOf[d][r] <= 1
  BY <1>1, MinimalIndexTyped, ConeFacts
<1>. QED  BY <1>2

(* Every position collected while the tables are computed is justified,    *)
(* or is the one an ordinary step uses.                                    *)
SkipsJustified ==
  pc \in {"update", "report"} => \A p \in minimalIndexes : p = 1 \/ SkipReason(p)

(* A reason stays one as long as the formula does. *)
LEMMA ReasonStays ==
  ASSUME NEW p, SkipReason(p), UNCHANGED <<dag, assignment>>,
         \A t \in DOMAIN minimalSizes : t \in DOMAIN minimalSizes' /\ minimalSizes'[t] = minimalSizes[t]
  PROVE  SkipReason(p)'
BY DEF SkipReason, G

(* The table of the vertex being computed is the formula's, and so are     *)
(* those that are valid. *)
LEMMA HeadTable ==
  ASSUME Typed, CacheCoherent, EvaluateGate
  PROVE  /\ TableAt(G, assignment, tts, Head(callStack)) = Simulate(G, assignment)[Head(callStack)]
         /\ \A w \in valid : tts[w] = Simulate(G, assignment)[w]
<1>. DEFINE v == Head(callStack)
            f == Simulate(G, assignment)
<1>1. /\ pc = "update" /\ dag \in Graphs /\ v \in Vertices(G) /\ Fanins(G, v) \subseteq valid
  BY EvaluateFacts
<1>2. \A w \in valid : tts[w] = f[w]
  BY <1>1, CoherentIsSimulated DEF Engaged, Typed
<1>3. f[v] = TableAt(G, assignment, f, v)
  BY <1>1, SimulateDefined DEF G
<1>. HIDE DEF f
<1>4. TableAt(G, assignment, tts, v) = TableAt(G, assignment, f, v)
  BY <1>1, <1>2, TableLocal DEF G
<1>. QED  BY <1>2, <1>3, <1>4 DEF f

(* What an input computes is what a symbol without children computes. *)
LEMMA InputTable ==
  ASSUME Typed, CacheCoherent, MapsFresh, Engaged, toClear = {}, NEW t \in DOMAIN inputMap
  PROVE  \E s \in Symbols : Arity[s] = 0 /\ NodeOperation(s, <<>>) = t
<1>. DEFINE w == inputMap[t]
<1>1. w \in valid /\ tts[w] = t /\ IsLeaf(G, w)
  BY DEF MapsFresh
<1>2. /\ dag \in Graphs /\ w \in Vertices(G) /\ assignment[w] \in PossibleOf[dag][w]
      /\ tts[w] = TableAt(G, assignment, tts, w)
  BY <1>1, EngagedFacts, PossibleFacts DEF CacheCoherent, IsReading, Possible, G
<1>3. assignment[w] \in Symbols /\ Arity[assignment[w]] = 0 /\ NumChildren(G, w) = 0
  BY <1>1, <1>2, PossibleFacts DEF IsLeaf, G
<1>4. [k \in 1 .. NumChildren(G, w) |-> tts[G[w][k]]] = <<>>
  BY <1>3
<1>. QED  BY <1>1, <1>2, <1>3, <1>4 DEF TableAt

LEMMA EvaluateGateJustified ==
  ASSUME RootReachesFirst, Typed, CacheCoherent, MapsFresh, StackDescends, RootAwaited,
         SkipsJustified, EvaluateGate
  PROVE  SkipsJustified'
<1>. DEFINE v == Head(callStack)
            t == TableAt(G, assignment, tts, v)
            f == Simulate(G, assignment)
            mi == MinimalIndexOf[dag]
<1>1. /\ pc = "update" /\ callStack # <<>> /\ dag \in Graphs /\ v \in Gates(G)
      /\ v \in Vertices(Graph(dag)) /\ Engaged /\ toClear = {}
  BY EvaluateFacts DEF EvaluateGate, Gates, Engaged, Typed, G
<1>2. f[v] = t /\ \A w \in valid : f[w] = tts[w]
  BY HeadTable
<1>3. mi[v] \in Nat
  BY <1>1, ConeFacts
<1>4. ASSUME NEW p \in minimalIndexes PROVE p = 1 \/ SkipReason(p)
  BY <1>1, <1>4 DEF SkipsJustified
<1>. HIDE DEF f
<1>5. ASSUME NrGates(dag) > 3, NEW p \in CheckInputs(v, t) PROVE SkipReason(p)
  <2>1. p = mi[v] /\ t \in DOMAIN inputMap
    BY <1>5 DEF CheckInputs
  <2>2. \E s \in Symbols : Arity[s] = 0 /\ NodeOperation(s, <<>>) = f[v]
    BY <1>1, <1>2, <2>1, InputTable
  <2>. QED  BY <1>1, <1>3, <1>5, <2>1, <2>2 DEF SkipReason, f
<1>6. ASSUME NrGates(dag) > 3, NEW p \in CheckCoi(v, t) PROVE SkipReason(p)
  <2>1. p = mi[v] /\ f[v] \in DOMAIN minimalSizes /\ CoiSizeOf[dag][v] > minimalSizes[f[v]]
    BY <1>2, <1>6 DEF CheckCoi
  <2>. QED  BY <1>1, <1>3, <1>6, <2>1 DEF SkipReason, f
<1>7. ASSUME NrGates(dag) > 3, NEW p \in CheckSameGate(v, t) PROVE p = 1 \/ SkipReason(p)
  <2>. DEFINE w == gateMap[t]
  <2>1. t \in DOMAIN gateMap /\ p = Min({mi[v], mi[w]})
    BY <1>7 DEF CheckSameGate
  <2>2. w \in valid /\ tts[w] = t /\ w \in Gates(G) /\ w \in Vertices(Graph(dag))
    BY <1>1, <2>1, EngagedFacts DEF MapsFresh, Gates, G
  <2>3. mi[w] \in Nat
    BY <1>1, <2>2, ConeFacts
  <2>4. p <= mi[v] /\ p <= mi[w] /\ p \in {mi[v], mi[w]}
    BY <1>3, <2>1, <2>3, MinOfNaturals
  <2>5. CASE w = v
    <3>1. v = Root(G)
      BY <1>1, <2>2, <2>5, ValidHeadIsRoot
    <3>. QED  BY <1>1, <2>4, <2>5, <3>1, RootIndex DEF G
  <2>6. CASE w # v
    BY <1>1, <1>2, <1>7, <2>2, <2>4, <2>6 DEF SkipReason, f
  <2>. QED  BY <2>5, <2>6
<1>8. \A p \in minimalIndexes' : p = 1 \/ SkipReason(p)
  BY <1>4, <1>5, <1>6, <1>7 DEF EvaluateGate
<1>9. UNCHANGED <<dag, assignment, minimalSizes>>
  BY DEF EvaluateGate
<1>. QED  BY <1>8, <1>9, ReasonStays DEF SkipsJustified

LEMMA JustifiedStep ==
  ASSUME RootReachesFirst, Typed, CacheCoherent, MapsFresh, StackDescends, RootAwaited,
         SkipsJustified, [Next]_vars
  PROVE  SkipsJustified'
<1>1. CASE EvaluateGate
  BY <1>1, EvaluateGateJustified
<1>2. CASE StartUpdate
  BY <1>2 DEF StartUpdate, SkipsJustified
<1>3. ASSUME UNCHANGED <<dag, assignment, minimalIndexes>>,
             pc \in {"update", "report"} \/ pc' \notin {"update", "report"},
             \A t \in DOMAIN minimalSizes :
               t \in DOMAIN minimalSizes' /\ minimalSizes'[t] = minimalSizes[t]
      PROVE  SkipsJustified'
  BY <1>3, ReasonStays DEF SkipsJustified
<1>4. CASE Descend \/ EvaluateLeaf \/ UNCHANGED vars \/ Terminated
  BY <1>3, <1>4 DEF Descend, EvaluateLeaf, Terminated, vars
<1>5. CASE FinishUpdate
  BY <1>3, <1>5 DEF FinishUpdate, Emplace
<1>6. ASSUME pc' \notin {"update", "report"} PROVE SkipsJustified'
  BY <1>6 DEF SkipsJustified
<1>7. CASE NextDag \/ Finish \/ TakeNextDag \/ TakeNextAssignment \/ TakeStopEnumeration
  BY <1>6, <1>7 DEF NextDag, Finish, TakeNextDag, TakeNextAssignment, TakeStopEnumeration,
     IncreaseStack
<1>8. CASE SkipDuplicate \/ Report \/ SetFlags
  <2>1. resume \in {"loop", "next_dag"}
    BY DEF Typed, TypeOK, ControlTypeOK
  <2>. QED  BY <1>6, <1>8, <2>1 DEF SkipDuplicate, Report, ReportAndSkip, ReportAndStay,
            ReportAndLeave, ReportAndAdvance, SetFlags, IncreaseStack
<1>. QED  BY <1>1, <1>2, <1>4, <1>5, <1>7, <1>8 DEF Next, Update

LEMMA JustifiedAlways ==
  ASSUME RootReachesFirst
  PROVE  Spec => []SkipsJustified
<1>1. Init => SkipsJustified
  BY DEF Init, SkipsJustified
<1>2. Typed /\ CacheCoherent /\ MapsFresh /\ StackDescends /\ RootAwaited
        /\ SkipsJustified /\ [Next]_vars => SkipsJustified'
  BY JustifiedStep
<1>. QED  BY TypedAlways, CacheStaysCoherent, MapsStayFresh, StackDescendsAlways,
          RootAwaitedAlways, <1>1, <1>2, PTL DEF Spec

(* A turn moves the counter forward, and what it leaves out agrees with    *)
(* the present formula from its position on. *)
LEMMA TurnLeavesOut ==
  ASSUME Typed, Engaged, NEW p \in Nat, IncreaseStack(p)
  PROVE  /\ resume' = "loop" => Before(assignment, assignment')
         /\ \A b \in Readings(Possible) :
              /\ Before(assignment, b)
              /\ resume' = "loop" => Before(b, assignment')
              => AgreeFrom(dag, assignment, b, p)
<1>1. /\ dag \in Graphs /\ IsReading(Possible, assignment) /\ IsWheels(Possible)
      /\ DOMAIN Possible = Vertices(Graph(dag))
  BY EngagedFacts, PossibleFacts DEF Possible
<1>2. /\ assignment' = IncreaseAt(Possible, assignment, p)
      /\ resume' = "loop" <=> Turns(Possible, assignment, p)
  BY DEF IncreaseStack
<1>3. resume' = "loop" => Before(assignment, assignment')
  BY <1>1, <1>2, IncreaseAdvances
<1>4. ASSUME NEW b \in Readings(Possible), Before(assignment, b),
             resume' = "loop" => Before(b, assignment')
      PROVE  AgreeFrom(dag, assignment, b, p)
  <2>1. IsReading(Possible, b)
    BY <1>1, ReadingsFacts
  <2>2. Turns(Possible, assignment, p) => Before(b, IncreaseAt(Possible, assignment, p))
    BY <1>2, <1>4
  <2>3. \A v \in DOMAIN Possible : v >= p => b[v] = assignment[v]
    BY <1>1, <1>4, <2>1, <2>2, JumpedOverAgree
  <2>. QED  BY <1>1, <2>3 DEF AgreeFrom
<1>. QED  BY <1>3, <1>4

(* Nothing agrees with the present formula from the first vertex on and    *)
(* comes after it. *)
LEMMA OrdinaryTurn ==
  ASSUME Typed, Engaged, NEW b, Before(assignment, b), AgreeFrom(dag, assignment, b, 1)
  PROVE  FALSE
<1>1. /\ dag \in Graphs /\ IsReading(Possible, assignment) /\ IsWheels(Possible)
      /\ DOMAIN Possible = Vertices(Graph(dag)) /\ Vertices(Graph(dag)) = 1 .. Len(Graph(dag))
  BY EngagedFacts, PossibleFacts, GraphFacts DEF Possible
<1>2. \A v \in DOMAIN assignment : b[v] = assignment[v] /\ assignment[v] \in Nat
  BY <1>1 DEF AgreeFrom, IsReading, IsWheels
<1>. QED  BY <1>2 DEF Before

(* What a skip is made for, and where it goes to. *)
LEMMA DuplicateSkip ==
  ASSUME Typed, SkipDuplicate
  PROVE  \E p \in Nat : \E v \in Vertices(G) :
           IncreaseStack(p) /\ p = MinimalIndexOf[dag][v] /\ DuplicateAt(dag, assignment, v)
<1>. DEFINE p == Max(DuplicateIndexes)
<1>1. dag \in Graphs /\ Vertices(G) = 1 .. Len(G) /\ Len(G) \in Nat
  BY EngagedFacts, GraphFacts DEF SkipDuplicate, NoRequest, Engaged, G
<1>2. DuplicateIndexes \subseteq 0 .. Len(G) /\ DuplicateIndexes # {}
  BY <1>1, MinimalIndexTyped DEF SkipDuplicate, DuplicateIndexes, G
<1>3. p \in DuplicateIndexes
  BY <1>1, <1>2, MaxOfNaturals
<1>4. p \in Nat
  <2>1. p \in 0 .. Len(G)
    BY <1>2, <1>3
  <2>. QED  BY <1>1, <2>1
<1>. QED  BY <1>3, <1>4 DEF DuplicateIndexes, SkipDuplicate

LEMMA RevealedSkip ==
  ASSUME Typed, SkipsJustified, ReportAndSkip
  PROVE  \E p \in Vertices(G) : p \in Nat /\ IncreaseStack(p) /\ (p = 1 \/ SkipReason(p))
<1>. DEFINE p == Max(minimalIndexes)
<1>1. dag \in Graphs /\ Vertices(G) = 1 .. Len(G) /\ Len(G) \in Nat
  BY EngagedFacts, GraphFacts DEF ReportAndSkip, Engaged, G
<1>2. minimalIndexes \subseteq 0 .. Len(G) /\ minimalIndexes # {}
      /\ minimalIndexes \subseteq Vertices(G)
  BY <1>1 DEF ReportAndSkip, Typed, TypeOK, SkipTypeOK
<1>3. p \in minimalIndexes
  BY <1>1, <1>2, MaxOfNaturals
<1>4. p \in Vertices(G) /\ p \in Nat
  <2>1. p \in Vertices(G)
    BY <1>2, <1>3
  <2>2. p \in 1 .. Len(G)
    BY <1>1, <2>1
  <2>. QED  BY <1>1, <2>1, <2>2
<1>. QED  BY <1>3, <1>4 DEF ReportAndSkip, SkipsJustified

(* Whatever has the symbols from the position of a duplicate on is a       *)
(* duplicate as well. *)
LEMMA DuplicateCarriesOver ==
  ASSUME NEW d \in Graphs, NEW v \in Vertices(Graph(d)), NEW a, NEW b, DuplicateAt(d, a, v),
         AgreeFrom(d, a, b, MinimalIndexOf[d][v])
  PROVE  DuplicateAt(d, b, v)
<1>1. MinimalIndexOf[d][v] \in Nat
  BY ConeFacts
<1>2. \A u \in Cones(Graph(d))[v] : b[u] = a[u]
  BY <1>1, AgreeOnCone
<1>. QED  BY <1>2, DuplicateLocal

(* The sequential engine's skips, be they made for duplicates or for what  *)
(* the truth tables show, and whatever the client asks for, leave out      *)
(* dispensable formulas only.                                              *)
THEOREM SkipsDispensable ==
  ASSUME RootReachesFirst
  PROVE  Spec => SkipsOnlyDispensable
<1>. DEFINE SkipStep ==
       pc # "flags" /\ pc' = "flags" =>
         /\ resume' = "loop" => Before(assignment, assignment')
         /\ \A a \in Readings(Possible) :
              /\ Before(assignment, a)
              /\ resume' = "loop" => Before(a, assignment')
              => Dispensable(dag, a)
<1>1. ASSUME Typed, SkipsJustified, [Next]_vars PROVE SkipStep
  <2>. SUFFICES ASSUME pc # "flags", pc' = "flags" PROVE SkipStep
    OBVIOUS
  <2>1. TakeNextAssignment \/ SkipDuplicate \/ ReportAndSkip \/ ReportAndAdvance
    BY <1>1 DEF Next, Update, Report, NextDag, Finish, TakeNextDag, TakeStopEnumeration,
       StartUpdate, Descend, EvaluateLeaf, EvaluateGate, FinishUpdate, ReportAndStay,
       ReportAndLeave, SetFlags, Terminated, vars
  <2>2. Engaged
    BY <2>1 DEF TakeNextAssignment, SkipDuplicate, ReportAndSkip, ReportAndAdvance, NoRequest,
       Engaged
  <2>3. dag \in Graphs /\ Vertices(G) = 1 .. Len(G) /\ Len(G) \in Nat
    BY <1>1, <2>2, EngagedFacts, GraphFacts DEF G
  <2>4. ASSUME NEW p \in Nat, IncreaseStack(p),
               \A a \in Readings(Possible) :
                 Before(assignment, a) /\ AgreeFrom(dag, assignment, a, p) => Dispensable(dag, a)
        PROVE  SkipStep
    BY <1>1, <2>2, <2>4, TurnLeavesOut
  <2>5. CASE TakeNextAssignment \/ ReportAndAdvance
    <3>1. IncreaseStack(1)
      BY <2>5 DEF TakeNextAssignment, ReportAndAdvance
    <3>. QED  BY <1>1, <2>2, <2>4, <3>1, OrdinaryTurn
  <2>6. CASE SkipDuplicate
    <3>1. PICK p \in Nat, v \in Vertices(G) :
            IncreaseStack(p) /\ p = MinimalIndexOf[dag][v] /\ DuplicateAt(dag, assignment, v)
      BY <1>1, <2>6, DuplicateSkip
    <3>2. ASSUME NEW a, AgreeFrom(dag, assignment, a, p) PROVE Dispensable(dag, a)
      <4>1. DuplicateAt(dag, a, v)
        BY <2>3, <3>1, <3>2, DuplicateCarriesOver DEF G
      <4>. QED  BY <4>1 DEF Dispensable, G
    <3>. QED  BY <2>4, <3>1, <3>2
  <2>7. CASE ReportAndSkip
    <3>1. PICK p \in Vertices(G) : p \in Nat /\ IncreaseStack(p) /\ (p = 1 \/ SkipReason(p))
      BY <1>1, <2>7, RevealedSkip
    <3>2. CASE p = 1
      BY <1>1, <2>2, <2>4, <3>1, <3>2, OrdinaryTurn
    <3>3. CASE SkipReason(p)
      <4>1. \A a : AgreeFrom(dag, assignment, a, p) => Dispensable(dag, a)
        BY <2>3, <3>1, <3>3, ReasonCarriesOver
      <4>. QED  BY <2>4, <3>1, <4>1
    <3>. QED  BY <3>1, <3>2, <3>3
  <2>. QED  BY <2>1, <2>5, <2>6, <2>7
<1>2. Typed /\ SkipsJustified /\ [Next]_vars => [SkipStep]_vars
  BY <1>1
<1>. QED  BY TypedAlways, JustifiedAlways, <1>2, PTL DEF Spec, SkipsOnlyDispensable
=============================================================================
