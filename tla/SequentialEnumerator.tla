------------------------ MODULE SequentialEnumerator ------------------------
(***************************************************************************)
(* partial_dag_enumerator::enumerate_aig_pre_enumeration, the sequential   *)
(* engine.  Graph by graph it turns the assignment counter, rejects        *)
(* assignments that are syntactic duplicates, recomputes the truth tables  *)
(* that the turn made stale, hands the formula to the client's callback    *)
(* and uses what the truth tables reveal to jump over assignments that     *)
(* would only repeat functions already known.                              *)
(*                                                                         *)
(* Truth tables are sets of minterms.  The recursion of update_tt_ is its  *)
(* call stack; the recursion of set_tts_flags, whose order nobody can      *)
(* observe, is the frontier of vertices still to be visited.               *)
(***************************************************************************)
EXTENDS Grammar, Odometer

CONSTANTS
  Dags,           \* the pdags argument: records [vertices, gates]
  CallbackTasks   \* the values the client leaves in _next_task

Graphs == DOMAIN Dags
Graph(d) == Dags[d].vertices

(* nr_PI_vertices and nr_gates_vertices, as partial_dag::initialize sets them. *)
NrGates(d) == Dags[d].gates
NrInputs(d) == IF Len(Graph(d)) = 1 THEN 1 ELSE Len(Graph(d)) - NrGates(d)

Tasks == {"Nothing", "NextDag", "NextAssignment", "StopEnumeration", "DoNotIncrease"}

(* Graphs as add_PI_nodes leaves them: at most two fanins, the ignored ones
   last, fanins below their vertex, and the inputs in front of the gates. *)
ASSUME DagAssumption ==
  /\ Dags \in Seq([vertices : Seq(Seq(Nat)), gates : Nat])
  /\ \A d \in Graphs :
       /\ Len(Graph(d)) > 0
       /\ \A v \in Vertices(Graph(d)) :
            /\ IsLeaf(Graph(d), v) <=> v <= NrInputs(d)
            /\ \A k \in DOMAIN Graph(d)[v] :
                 /\ Graph(d)[v][k] < v
                 /\ Graph(d)[v][k] # 0 <=> k <= NumChildren(Graph(d), v)

ASSUME TaskAssumption ==
  "Nothing" \in CallbackTasks /\ CallbackTasks \subseteq Tasks

PossibleOf == [d \in Graphs |-> PossibleAssignments(Graph(d))]

MinimalIndexOf == [d \in Graphs |-> MinimalIndices(Graph(d))]

CoiSizeOf == [d \in Graphs |-> CoiSizes(Graph(d))]

ParentsOf ==
  [d \in Graphs |-> [v \in Vertices(Graph(d)) |-> Parents(Graph(d), v)]]

VARIABLES
  pc,             \* where the loop stands
  dag,            \* the graph enumerated, 0 before the first
  assignment,     \* *_current_assignments
  valid,          \* the vertices with _tts[v].first
  tts,            \* _tts[v].second
  inputMap,       \* _tts_map_inputs: truth table -> vertex
  gateMap,        \* _tts_map_gates: truth table -> vertex
  minimalSizes,   \* minimal_sizes: truth table -> number of gates
  minimalIndexes, \* minimal_indexes, of which only the maximum is used
  nextTask,       \* _next_task
  callStack,      \* the active calls of update_tt_, innermost first
  toClear,        \* the vertices set_tts_flags has still to visit
  resume          \* where the loop continues once the flags are set

cacheVars == <<valid, tts, inputMap, gateMap>>
vars == <<pc, dag, assignment, cacheVars, minimalSizes, minimalIndexes,
          nextTask, callStack, toClear, resume>>

G == Graph(dag)
Possible == PossibleOf[dag]
EmptyMap == [t \in {} |-> 0]

(* emplace() keeps an entry that is already there. *)
Emplace(map, key, value) ==
  [t \in DOMAIN map \cup {key} |-> IF t \in DOMAIN map THEN map[t] ELSE value]

(* Mutant: the entries of fallen vertices stay. *)
MutErase(map, keys) == map
Erase(map, keys) == Restrict(map, DOMAIN map \ keys)

-----------------------------------------------------------------------------
(* What formula_is_duplicate tests at v. *)
DuplicateAt(d, a, v) ==
  SwappedInputs(Graph(d), a, v) \/ RepeatedInput(Graph(d), a, v)

-----------------------------------------------------------------------------
Init ==
  /\ pc = "next_dag" /\ dag = 0 /\ assignment = <<>>
  /\ valid = {} /\ tts = <<>> /\ inputMap = EmptyMap /\ gateMap = EmptyMap
  /\ minimalSizes = EmptyMap /\ minimalIndexes = {}
  /\ nextTask = "Nothing" /\ callStack = <<>> /\ toClear = {} /\ resume = "loop"

(* The for loop takes the next graph and initialize() prepares it.  A task *)
(* left over from the previous graph survives, unless some vertex has no   *)
(* symbol at all.                                                          *)
NextDag ==
  /\ pc = "next_dag" /\ dag < Len(Dags)
  /\ dag' = dag + 1
  /\ assignment' = AllBegin(PossibleOf[dag'])
  /\ valid' = {} /\ tts' = [v \in Vertices(Graph(dag')) |-> {}]
  /\ inputMap' = EmptyMap /\ gateMap' = EmptyMap
  /\ nextTask' = IF \E v \in Vertices(Graph(dag')) : PossibleOf[dag'][v] = {}
                 THEN "NextDag" ELSE nextTask
  /\ pc' = "loop"
  /\ UNCHANGED <<minimalSizes, minimalIndexes, callStack, toClear, resume>>

Finish ==
  /\ pc = "next_dag" /\ dag = Len(Dags)
  /\ pc' = "done"
  /\ UNCHANGED <<dag, assignment, cacheVars, minimalSizes, minimalIndexes,
                 nextTask, callStack, toClear, resume>>

(* Mutant: the carry running off the end does not leave the graph. *)
MutIncreaseStack(p) ==
  /\ assignment' = IncreaseAt(Possible, assignment, p)
  /\ toClear' = ChangedAt(Possible, assignment, p)
  /\ resume' = "loop"
  /\ pc' = "flags"

(* increase_stack (p = 1) and increase_stack_at_position: turn the counter *)
(* and hand the vertices it passed to set_tts_flags; the loop goes on if   *)
(* the counter turned and leaves the graph if it ran off the end.          *)
IncreaseStack(p) ==
  /\ assignment' = IncreaseAt(Possible, assignment, p)
  /\ toClear' = ChangedAt(Possible, assignment, p)
  /\ resume' = IF Turns(Possible, assignment, p) THEN "loop" ELSE "next_dag"
  /\ pc' = "flags"

(* The client's request as the head of the loop finds it. *)
TakeNextDag ==
  /\ pc = "loop" /\ nextTask = "NextDag"
  /\ nextTask' = "Nothing" /\ pc' = "next_dag"
  /\ UNCHANGED <<dag, assignment, cacheVars, minimalSizes, minimalIndexes,
                 callStack, toClear, resume>>

TakeNextAssignment ==
  /\ pc = "loop" /\ nextTask = "NextAssignment"
  /\ nextTask' = "Nothing"
  /\ IncreaseStack(1)
  /\ UNCHANGED <<dag, cacheVars, minimalSizes, minimalIndexes, callStack>>

(* The break leaves the loop over the assignments, not the loop over the   *)
(* graphs: the enumeration goes on with the next graph.                    *)
TakeStopEnumeration ==
  /\ pc = "loop" /\ nextTask = "StopEnumeration"
  /\ nextTask' = "Nothing" /\ pc' = "next_dag"
  /\ UNCHANGED <<dag, assignment, cacheVars, minimalSizes, minimalIndexes,
                 callStack, toClear, resume>>

(* Mutant: StopEnumeration is not looked for. *)
MutNoRequest == nextTask \notin {"NextDag", "NextAssignment"}
NoRequest == nextTask \notin {"NextDag", "NextAssignment", "StopEnumeration"}

DuplicateIndexes ==
  {MinimalIndexOf[dag][v] : v \in {u \in Vertices(G) : DuplicateAt(dag, assignment, u)}}

(* formula_is_duplicate found one: skip at the highest position found;     *)
(* the task the skip leaves is consumed by the end of the loop body.       *)
SkipDuplicate ==
  /\ pc = "loop" /\ NoRequest
  /\ DuplicateIndexes # {}
  /\ minimalIndexes' = DuplicateIndexes
  /\ IncreaseStack(Max(DuplicateIndexes))
  /\ nextTask' = "Nothing"
  /\ UNCHANGED <<dag, cacheVars, minimalSizes, callStack>>

(* formula_is_duplicate found none: update_tts calls update_tt_ on the     *)
(* root, whether or not its truth table is valid.                          *)
StartUpdate ==
  /\ pc = "loop" /\ NoRequest
  /\ DuplicateIndexes = {}
  /\ minimalIndexes' = {}
  /\ callStack' = <<Root(G)>>
  /\ pc' = "update"
  /\ UNCHANGED <<dag, assignment, cacheVars, minimalSizes, nextTask, toClear, resume>>

(* Mutant: the first fanin is not looked at. *)
MutStaleFanins(v) == {k \in DOMAIN G[v] : k > 1 /\ G[v][k] # 0 /\ G[v][k] \notin valid}

(* The fanins of v that update_tt_ has to compute first, by position. *)
StaleFanins(v) == {k \in DOMAIN G[v] : G[v][k] # 0 /\ G[v][k] \notin valid}

Descend ==
  /\ pc = "update" /\ callStack # <<>>
  /\ StaleFanins(Head(callStack)) # {}
  /\ callStack' = <<G[Head(callStack)][Min(StaleFanins(Head(callStack)))]>> \o callStack
  /\ UNCHANGED <<pc, dag, assignment, cacheVars, minimalSizes, minimalIndexes,
                 nextTask, toClear, resume>>

(* An input: its table is entered under the first vertex that has it. *)
EvaluateLeaf ==
  /\ pc = "update" /\ callStack # <<>>
  /\ LET v == Head(callStack)
         t == TableAt(G, assignment, tts, v)
     IN  /\ IsLeaf(G, v)
         /\ tts' = [tts EXCEPT ![v] = t]
         /\ inputMap' = Emplace(inputMap, t, v)
         /\ valid' = valid \cup {v}
  /\ callStack' = Tail(callStack)
  /\ UNCHANGED <<pc, dag, assignment, gateMap, minimalSizes, minimalIndexes,
                 nextTask, toClear, resume>>

(* Mutant: the position is one too low. *)
MutCheckInputs(v, t) ==
  IF t \in DOMAIN inputMap THEN {MinimalIndexOf[dag][v] - 1} ELSE {}

(* check_inputs: the gate computes what an input computes. *)
CheckInputs(v, t) ==
  IF t \in DOMAIN inputMap THEN {MinimalIndexOf[dag][v]} ELSE {}

(* Mutant: a cone of the known size is rejected as well. *)
MutCheckCoi(v, t) ==
  IF t \in DOMAIN minimalSizes /\ CoiSizeOf[dag][v] >= minimalSizes[t]
  THEN {MinimalIndexOf[dag][v]} ELSE {}

(* check_coi: the gate's cone is larger than one known to compute t. *)
CheckCoi(v, t) ==
  IF t \in DOMAIN minimalSizes /\ CoiSizeOf[dag][v] > minimalSizes[t]
  THEN {MinimalIndexOf[dag][v]} ELSE {}

(* Mutant: the skip keeps the cone of one of the two gates only. *)
MutCheckSameGate(v, t) ==
  IF t \in DOMAIN gateMap
  THEN {Max({MinimalIndexOf[dag][v], MinimalIndexOf[dag][gateMap[t]]})}
  ELSE {}

(* check_same_gate: another gate is on record with the same table. *)
CheckSameGate(v, t) ==
  IF t \in DOMAIN gateMap
  THEN {Min({MinimalIndexOf[dag][v], MinimalIndexOf[dag][gateMap[t]]})}
  ELSE {}

(* A gate whose fanins are all computed.  Graphs of up to three gates are  *)
(* not searched for redundancy.                                            *)
EvaluateGate ==
  /\ pc = "update" /\ callStack # <<>>
  /\ StaleFanins(Head(callStack)) = {}
  /\ LET v == Head(callStack)
         t == TableAt(G, assignment, tts, v)
     IN  /\ ~IsLeaf(G, v)
         /\ tts' = [tts EXCEPT ![v] = t]
         /\ valid' = valid \cup {v}
         /\ IF NrGates(dag) > 3
            THEN /\ minimalIndexes' = minimalIndexes \cup CheckInputs(v, t)
                                        \cup CheckCoi(v, t) \cup CheckSameGate(v, t)
                 /\ gateMap' = Emplace(gateMap, t, v)
            ELSE UNCHANGED <<minimalIndexes, gateMap>>
  /\ callStack' = Tail(callStack)
  /\ UNCHANGED <<pc, dag, assignment, inputMap, minimalSizes, nextTask, toClear, resume>>

(* update_tts returns; a function not met before is entered with the size  *)
(* of the graph.                                                           *)
FinishUpdate ==
  /\ pc = "update" /\ callStack = <<>>
  /\ minimalSizes' = Emplace(minimalSizes, tts[Root(G)], NrGates(dag))
  /\ pc' = "report"
  /\ UNCHANGED <<dag, assignment, cacheVars, minimalIndexes, nextTask, callStack,
                 toClear, resume>>

(* The callback gets the formula and may leave a task; if the truth tables *)
(* revealed a redundancy the skip overwrites it.                           *)
ReportAndSkip ==
  /\ pc = "report" /\ minimalIndexes # {}
  /\ IncreaseStack(Max(minimalIndexes))
  /\ nextTask' = "Nothing"
  /\ UNCHANGED <<dag, cacheVars, minimalSizes, minimalIndexes, callStack>>

(* Without a redundancy the task decides what the end of the body does;    *)
(* NextAssignment and StopEnumeration are left for the head of the loop.   *)
ReportAndStay ==
  /\ pc = "report" /\ minimalIndexes = {}
  /\ "DoNotIncrease" \in CallbackTasks
  /\ nextTask' = "Nothing" /\ pc' = "loop"
  /\ UNCHANGED <<dag, assignment, cacheVars, minimalSizes, minimalIndexes,
                 callStack, toClear, resume>>

ReportAndLeave ==
  /\ pc = "report" /\ minimalIndexes = {}
  /\ "NextDag" \in CallbackTasks
  /\ nextTask' = "Nothing" /\ pc' = "next_dag"
  /\ UNCHANGED <<dag, assignment, cacheVars, minimalSizes, minimalIndexes,
                 callStack, toClear, resume>>

ReportAndAdvance ==
  /\ pc = "report" /\ minimalIndexes = {}
  /\ \E request \in CallbackTasks \ {"DoNotIncrease", "NextDag"} : nextTask' = request
  /\ IncreaseStack(1)
  /\ UNCHANGED <<dag, cacheVars, minimalSizes, minimalIndexes, callStack>>

(* set_tts_flags: a vertex whose flag falls takes its map entry with it    *)
(* and passes the visit on to its parents; one already down stops it.      *)
SetFlags ==
  /\ pc = "flags"
  /\ LET falling == toClear \cap valid
     IN  /\ valid' = valid \ falling
         /\ inputMap' = Erase(inputMap, {tts[v] : v \in {u \in falling : u <= NrInputs(dag)}})
         /\ gateMap' = Erase(gateMap, {tts[v] : v \in {u \in falling : u > NrInputs(dag)}})
         /\ toClear' = UNION {ParentsOf[dag][v] : v \in falling}
  /\ pc' = IF toClear' = {} THEN resume ELSE "flags"
  /\ UNCHANGED <<dag, assignment, tts, minimalSizes, minimalIndexes, nextTask,
                 callStack, resume>>

Terminated == pc = "done" /\ UNCHANGED vars

Update == Descend \/ EvaluateLeaf \/ EvaluateGate \/ FinishUpdate
Report == ReportAndSkip \/ ReportAndStay \/ ReportAndLeave \/ ReportAndAdvance

Next ==
  \/ NextDag \/ Finish
  \/ TakeNextDag \/ TakeNextAssignment \/ TakeStopEnumeration
  \/ SkipDuplicate \/ StartUpdate \/ Update \/ Report \/ SetFlags
  \/ Terminated

Spec == Init /\ [][Next]_vars

(* One thread runs the loop, so it always takes its next step. *)
FairSpec == Spec /\ WF_vars(Next)

-----------------------------------------------------------------------------
ControlTypeOK ==
  /\ pc \in {"next_dag", "loop", "update", "report", "flags", "done"}
  /\ dag \in 0 .. Len(Dags)
  /\ pc \in {"loop", "update", "report", "flags"} => dag > 0
  /\ nextTask \in Tasks
  /\ resume \in {"loop", "next_dag"}

SizesTypeOK ==
  /\ DOMAIN minimalSizes \subseteq Tables
  /\ \A t \in DOMAIN minimalSizes : \E d \in Graphs : minimalSizes[t] = NrGates(d)

GraphTypeOK ==
  dag > 0 =>
    /\ DOMAIN assignment = Vertices(G)
    /\ valid \subseteq Vertices(G)
    /\ tts \in [Vertices(G) -> Tables]
    /\ toClear \subseteq Vertices(G)
    /\ callStack \in Seq(Vertices(G))
    /\ \A t \in DOMAIN gateMap : gateMap[t] \in Vertices(G)

SkipTypeOK == pc \in {"update", "report"} => minimalIndexes \subseteq Vertices(G)

(* Every variable keeps to the values the code can store in it.  A skip    *)
(* found by update_tts is to a vertex of the graph it was found on.        *)
TypeOK == ControlTypeOK /\ SizesTypeOK /\ GraphTypeOK /\ SkipTypeOK

(* A truth table whose flag is up is what its symbol computes from the     *)
(* tables of its fanins, and theirs are up as well -- except at the        *)
(* vertices set_tts_flags has yet to reach.                                *)
CacheCoherent ==
  \A v \in valid \ toClear :
    /\ Fanins(G, v) \subseteq valid
    /\ tts[v] = TableAt(G, assignment, tts, v)

(* No map entry outlives the truth table it was made for: the vertex it    *)
(* names still has that table, with its flag up, and is of the right kind. *)
MapsFresh ==
  /\ \A t \in DOMAIN inputMap :
       inputMap[t] \in valid /\ tts[inputMap[t]] = t /\ IsLeaf(G, inputMap[t])
  /\ \A t \in DOMAIN gateMap :
       gateMap[t] \in valid /\ tts[gateMap[t]] = t /\ ~IsLeaf(G, gateMap[t])

(* Whatever the root depends on has its flag up when the client is called. *)
ReportedCone == pc = "report" => Cones(G)[Root(G)] \subseteq valid

(* The client is never handed a stale truth table: get_root_tt() is what   *)
(* simulating the formula gives (the "simulator" test).                    *)
ReportedIsCurrent ==
  pc = "report" => tts[Root(G)] = Simulate(G, assignment)[Root(G)]

(* A client's pending request is taken before another formula is computed. *)
PendingRequestFirst ==
  nextTask # "Nothing" => pc \notin {"update", "report"}

NoDuplicate(d, a) == \A v \in Vertices(Graph(d)) : ~DuplicateAt(d, a, v)

(* What makes an assignment dispensable: a vertex that is a syntactic      *)
(* duplicate, computes an input or another gate's function, or has a cone  *)
(* larger than one known for its function.                                 *)
Dispensable(d, a) ==
  \/ \E v \in Vertices(Graph(d)) : DuplicateAt(d, a, v)
  \/ /\ NrGates(d) > 3
     /\ LET f == Simulate(Graph(d), a)
        IN  \E v \in Gates(Graph(d)) :
              \/ \E s \in Symbols : Arity[s] = 0 /\ NodeOperation(s, <<>>) = f[v]
              \/ \E w \in Gates(Graph(d)) \ {v} : f[w] = f[v]
              \/ f[v] \in DOMAIN minimalSizes /\ CoiSizeOf[d][v] > minimalSizes[f[v]]

(* check_coi rejects a gate only if "the TT at this node has been formed   *)
(* with a non minimal structure": its cone has more gates than known to    *)
(* suffice.                                                                *)
CoiRejectsNonMinimal ==
  pc = "update" /\ callStack # <<>> /\ StaleFanins(Head(callStack)) = {} =>
    LET v == Head(callStack)
        t == TableAt(G, assignment, tts, v)
    IN  ~IsLeaf(G, v) /\ NrGates(dag) > 3 /\ CheckCoi(v, t) # {} =>
          Cardinality(Cones(G)[v] \cap Gates(G)) > minimalSizes[t]

(* The counter only moves forward, and whatever it jumps over, be it up to *)
(* the end of the graph, is dispensable.                                   *)
SkipsOnlyDispensable ==
  [][pc # "flags" /\ pc' = "flags" =>
       /\ resume' = "loop" => Before(assignment, assignment')
       /\ \A a \in Readings(Possible) :
            /\ Before(assignment, a)
            /\ resume' = "loop" => Before(a, assignment')
            => Dispensable(dag, a)]_vars

(* All that the client can be shown. *)
AllReadings == UNION {{d} \X Readings(PossibleOf[d]) : d \in Graphs}

(* Whether the assignment the counter shows may still be handed out. *)
ShownToCome == pc \in {"loop", "update"} \/ (pc = "flags" /\ resume = "loop")

(* What may still be handed out: of the present graph what the counter has *)
(* in front of it, unless the loop is about to leave the graph.            *)
ToCome ==
  {f \in AllReadings :
     \/ f[1] > dag
     \/ /\ f[1] = dag
        /\ \/ ShownToCome /\ f[2] = assignment
           \/ (ShownToCome \/ pc = "report") /\ Before(assignment, f[2])}

(* What the client is being shown. *)
Shown == [w \in {"client"} |-> IF pc = "report" THEN {<<dag, assignment>>} ELSE {}]

Handout == INSTANCE Enumeration WITH
  Workers <- {"client"}, AllFormulas <- AllReadings, remaining <- ToCome, working <- Shown

(* The client is given every formula at most once, and none the counter    *)
(* jumped over comes back.                                                 *)
HandsOutOnce == Handout!Spec

(* The same for a client that may ask for a formula again.                 *)
RepeatsOnRequest == Handout!RepeatSpec

(* minimal_sizes gives no more than the gates of any of these formulas. *)
CoveredBySizes(d, formulas) ==
  \A a \in formulas :
    LET f == Simulate(Graph(d), a)[Root(Graph(d))]
    IN  f \in DOMAIN minimalSizes /\ minimalSizes[f] <= NrGates(d)

(* Once every graph has been gone through, minimal_sizes gives for every   *)
(* function of a formula that formula_is_duplicate leaves at most the      *)
(* gates of that formula: what the truth tables make the engine jump over  *)
(* costs no function and no gate.                                          *)
PruningLosesNothing ==
  pc = "done" =>
    \A d \in Graphs :
      CoveredBySizes(d, {a \in Readings(PossibleOf[d]) : NoDuplicate(d, a)})

(* The enumeration comes to its end. *)
Terminates == <>(pc = "done")
=============================================================================
