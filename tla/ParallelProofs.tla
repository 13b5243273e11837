--------------------------- MODULE ParallelProofs ---------------------------
(***************************************************************************)
(* Theorems about ParallelEnumerator, for every number of workers, every   *)
(* grammar and every list of graphs: the variables keep their types, the   *)
(* shared counter hands no formula to two workers that are at work at the  *)
(* same time, whatever jumps they ask for, and what is published in the    *)
(* end is a solution.                                                      *)
(***************************************************************************)
EXTENDS ParallelEnumerator, OdometerLemmas

(* The list of graphs, and the wheels of their counters. *)
LEMMA GraphsFacts ==
  /\ Len(Dags) \in Nat \ {0} /\ Graphs = 1 .. Len(Dags)
  /\ \A d \in Graphs : IsWheels(PossibleOf[d])
<1>1. Len(Dags) \in Nat \ {0} /\ Graphs = 1 .. Len(Dags)
  BY DagsAssumption DEF Graphs
<1>2. ASSUME NEW d \in Graphs PROVE IsWheels(PossibleOf[d])
  <2>1. PossibleOf[d] = PossibleAssignments(Dags[d])
    BY <1>2 DEF PossibleOf
  <2>2. Dags[d] \in Seq(Seq(Nat))
    BY <1>2, DagsAssumption DEF Graphs
  <2>3. DOMAIN PossibleOf[d] = Vertices(Dags[d]) /\ Vertices(Dags[d]) \subseteq Nat
    BY <2>1, <2>2 DEF PossibleAssignments, Vertices
  <2>4. Symbols \subseteq Nat
    BY SymbolAssumption DEF Symbols
  <2>5. \A v \in Vertices(Dags[d]) : PossibleOf[d][v] \subseteq Nat
    BY <2>1, <2>4 DEF PossibleAssignments
  <2>6. \A v \in Vertices(Dags[d]) : PossibleOf[d][v] # {}
    BY <1>2, <2>1, SupportedAssumption
  <2>. QED  BY <2>3, <2>5, <2>6 DEF IsWheels
<1>. QED  BY <1>1, <1>2

(* What the counters of the graphs can show. *)
LEMMA FormulasFacts ==
  ASSUME NEW d \in Graphs
  PROVE  /\ AllBegin(PossibleOf[d]) \in Formulas(d)
         /\ \A a \in Formulas(d) : IsReading(PossibleOf[d], a)
         /\ \A a \in Formulas(d) : \A p : IncreaseAt(PossibleOf[d], a, p) \in Formulas(d)
BY GraphsFacts, ReadingsFacts DEF Formulas

-----------------------------------------------------------------------------
(* Types.                                                                  *)

LEMMA TypeInit == Init => TypeOK
<1>1. 1 \in Graphs
  BY GraphsFacts
<1>2. ASSUME Init
      PROVE  DOMAIN counter = Graphs /\ \A d \in Graphs : counter[d] \in Formulas(d)
  BY <1>2, FormulasFacts DEF Init
<1>3. Init => \A w \in Workers : ~Evaluating(w)
  BY DEF Init, Evaluating, EvaluatingLabels
<1>4. Init => \A f \in DOMAIN minimalSizes : \E d \in Graphs : minimalSizes[f] = SizeOf[d]
  BY DEF Init, EmptyMap
<1>. QED  BY <1>1, <1>2, <1>3, <1>4 DEF Init, TypeOK

(* The labels of the program. *)
Labels == {"top", "fetch", "exited"} \cup EvaluatingLabels

(* The steps that leave the formula of the worker and the counter alone,   *)
(* and do not take up work. *)
LEMMA FrameType ==
  ASSUME TypeOK, NEW w \in Workers, NEW label \in Labels, GoTo(w, label),
         label \in EvaluatingLabels => Evaluating(w),
         UNCHANGED <<goal, storeVars, pdagIndex, held>>, stop' \in BOOLEAN,
         nextTask' \in [Workers -> {"Nothing", "IncreaseAtPosition"}],
         DOMAIN increaseAt' = Workers,
         \A f \in DOMAIN minimalSizes' : \E d \in Graphs : minimalSizes'[f] = SizeOf[d]
  PROVE  TypeOK'
<1>1. pc' \in [Workers -> Labels]
  BY DEF TypeOK, GoTo, Labels
<1>2. \A u \in Workers : Evaluating(u)' => Evaluating(u)
  BY DEF Evaluating, GoTo, TypeOK
<1>. QED  BY <1>1, <1>2 DEF TypeOK, storeVars, Labels

(* The end of the loop body. *)
LEMMA EndOfBodyFacts ==
  ASSUME TypeOK, NEW w \in Workers, NEW position, EndOfBody(w, position)
  PROVE  /\ nextTask' \in [Workers -> {"Nothing", "IncreaseAtPosition"}]
         /\ DOMAIN increaseAt' = Workers /\ GoTo(w, "top") /\ "top" \in Labels
BY DEF EndOfBody, TypeOK, Labels

(* A worker takes a formula of the graph that is current after the step. *)
LEMMA TakeType ==
  ASSUME TypeOK, NEW w \in Workers, NEW d \in Graphs, NEW a \in Formulas(d),
         Take(w, d, a), ConsumeTask(w), currentPdag' \in Graphs,
         DOMAIN counter' = Graphs, \A e \in Graphs : counter'[e] \in Formulas(e),
         UNCHANGED <<goal, minimalSizes, stop>>
  PROVE  TypeOK'
<1>1. /\ pdagIndex' = [pdagIndex EXCEPT ![w] = d] /\ held' = [held EXCEPT ![w] = a]
      /\ pc' = [pc EXCEPT ![w] = "evaluate"]
  BY DEF Take, GoTo
<1>2. pc' \in [Workers -> Labels] /\ pdagIndex' \in [Workers -> Graphs]
  BY <1>1 DEF TypeOK, Labels, EvaluatingLabels
<1>3. nextTask' \in [Workers -> {"Nothing", "IncreaseAtPosition"}]
  BY DEF ConsumeTask, TypeOK
<1>4. DOMAIN held' = Workers /\ DOMAIN increaseAt' = Workers
  BY <1>1 DEF ConsumeTask, TypeOK
<1>5. ASSUME NEW u \in Workers, Evaluating(u)' PROVE held'[u] \in Formulas(pdagIndex'[u])
  <2>1. CASE u = w
    BY <1>1, <2>1 DEF TypeOK
  <2>2. CASE u # w
    <3>1. Evaluating(u) /\ held'[u] = held[u] /\ pdagIndex'[u] = pdagIndex[u]
      BY <1>1, <1>5, <2>2 DEF Evaluating, TypeOK
    <3>. QED  BY <3>1 DEF TypeOK
  <2>. QED  BY <2>1, <2>2
<1>. QED  BY <1>2, <1>3, <1>4, <1>5 DEF TypeOK, Labels

(* What TurnCounter and NextGraph make of the counters. *)
LEMMA TurnCounterFacts ==
  ASSUME TypeOK, NEW w \in Workers, TurnCounter(w)
  PROVE  /\ DOMAIN counter' = Graphs /\ \A d \in Graphs : counter'[d] \in Formulas(d)
         /\ currentPdag \in Graphs /\ currentPdag' = currentPdag
         /\ Take(w, currentPdag, counter'[currentPdag])
         /\ Before(counter[currentPdag], counter'[currentPdag])
<1>. DEFINE d == currentPdag
            next == IncreaseAt(PossibleOf[d], counter[d], TurnsAt(w))
<1>1. d \in Graphs /\ DOMAIN counter = Graphs /\ counter[d] \in Formulas(d)
  BY DEF TypeOK
<1>2. counter' = [counter EXCEPT ![d] = next]
  BY DEF TurnCounter
<1>3. next \in Formulas(d)
  BY <1>1, FormulasFacts
<1>4. Before(counter[d], next)
  BY <1>1, FormulasFacts, GraphsFacts, IncreaseAdvances DEF TurnCounter
<1>. QED  BY <1>1, <1>2, <1>3, <1>4 DEF TurnCounter, TypeOK

LEMMA NextGraphFacts ==
  ASSUME TypeOK, NEW w \in Workers, NextGraph(w)
  PROVE  /\ DOMAIN counter' = Graphs /\ \A d \in Graphs : counter'[d] \in Formulas(d)
         /\ currentPdag' = currentPdag + 1 /\ currentPdag \in Nat
         /\ currentPdag' \in Graphs /\ counter'[currentPdag'] = counter[currentPdag']
         /\ Take(w, currentPdag', counter'[currentPdag'])
<1>1. currentPdag \in Graphs /\ currentPdag < Len(Dags) /\ currentPdag' = currentPdag + 1
  BY DEF NextGraph, TypeOK
<1>2. currentPdag' \in Graphs /\ currentPdag \in Nat /\ currentPdag' # currentPdag
  BY <1>1, GraphsFacts
<1>3. counter' = [counter EXCEPT ![currentPdag] = AllBegin(PossibleOf[currentPdag])]
  BY DEF NextGraph
<1>. QED  BY <1>1, <1>2, <1>3, FormulasFacts DEF NextGraph, TypeOK

LEMMA ExhaustType ==
  ASSUME TypeOK, NEW w \in Workers, Exhaust(w)
  PROVE  TypeOK'
<1>1. counter' = [counter EXCEPT ![currentPdag] = AllBegin(PossibleOf[currentPdag])]
      /\ pc' = [pc EXCEPT ![w] = "exited"] /\ stop' = TRUE
  BY DEF Exhaust, GoTo
<1>2. DOMAIN counter' = Graphs /\ \A d \in Graphs : counter'[d] \in Formulas(d)
  BY <1>1, FormulasFacts DEF TypeOK
<1>3. pc' \in [Workers -> Labels] /\ \A u \in Workers : Evaluating(u)' => Evaluating(u)
  BY <1>1 DEF TypeOK, Labels, Evaluating, EvaluatingLabels
<1>4. /\ nextTask' \in [Workers -> {"Nothing", "IncreaseAtPosition"}]
      /\ DOMAIN increaseAt' = Workers
  BY DEF Exhaust, ConsumeTask, TypeOK
<1>. QED  BY <1>1, <1>2, <1>3, <1>4 DEF Exhaust, TypeOK, Labels

LEMMA TypeStep ==
  ASSUME TypeOK, [Next]_vars
  PROVE  TypeOK'
<1>1. CASE UNCHANGED vars \/ Terminated
  BY <1>1 DEF Terminated, vars, storeVars, resultVars, threadVars, TypeOK, Evaluating
<1>2. ASSUME NEW w \in Workers, Step(w) PROVE TypeOK'
  <2>. USE DEF resultVars, threadVars
  <2>1. CASE Leave(w) \/ WaitForCounter(w)
    <3>1. "exited" \in Labels /\ "fetch" \in Labels
          /\ "exited" \notin EvaluatingLabels /\ "fetch" \notin EvaluatingLabels
      BY DEF Labels, EvaluatingLabels
    <3>. QED  BY <2>1, <3>1, FrameType DEF Leave, WaitForCounter, TypeOK
  <2>2. CASE AbandonSkip(w)
    <3>1. "top" \in Labels /\ "top" \notin EvaluatingLabels
      BY DEF Labels, EvaluatingLabels
    <3>2. nextTask' \in [Workers -> {"Nothing", "IncreaseAtPosition"}]
      BY <2>2 DEF AbandonSkip, TypeOK
    <3>. QED  BY <2>2, <3>1, <3>2, FrameType DEF AbandonSkip, TypeOK
  <2>3. CASE TurnCounter(w)
    BY <2>3, TurnCounterFacts, TakeType DEF TurnCounter
  <2>4. CASE NextGraph(w)
    BY <2>4, NextGraphFacts, TakeType DEF NextGraph
  <2>5. CASE Exhaust(w)
    BY <2>5, ExhaustType
  <2>6. CASE RejectDuplicate(w) \/ PassOver(w) \/ FileDuplicate(w)
    <3>1. PICK position : EndOfBody(w, position)
      BY <2>6 DEF RejectDuplicate, PassOver, FileDuplicate
    <3>2. "top" \notin EvaluatingLabels
      BY DEF EvaluatingLabels
    <3>3. UNCHANGED <<goal, storeVars, minimalSizes, stop, pdagIndex, held>>
      BY <2>6 DEF RejectDuplicate, PassOver, FileDuplicate
    <3>. QED  BY <3>1, <3>2, <3>3, EndOfBodyFacts, FrameType DEF TypeOK
  <2>7. CASE CallbackMisses(w) \/ CallbackFinds(w) \/ Publish(w) \/ DecideToFile(w)
    <3>1. EvaluatingLabels \subseteq Labels
      BY DEF Labels
    <3>2. PICK label \in EvaluatingLabels : GoTo(w, label)
      BY <2>7 DEF CallbackMisses, CallbackFinds, Publish, WriteDot, WriteSolution,
         DecideToFile, EvaluatingLabels
    <3>3. Evaluating(w)
      BY <2>7 DEF CallbackMisses, CallbackFinds, Publish, WriteDot, WriteSolution,
         DecideToFile, KnownFunction, Evaluating, EvaluatingLabels
    <3>4. UNCHANGED <<goal, storeVars, minimalSizes, threadVars>> /\ stop' \in BOOLEAN
      BY <2>7 DEF CallbackMisses, CallbackFinds, Publish, WriteDot, WriteSolution,
         DecideToFile, TypeOK
    <3>. QED  BY <3>1, <3>2, <3>3, <3>4, FrameType DEF TypeOK
  <2>8. CASE EnterFunction(w)
    <3>1. "top" \notin EvaluatingLabels
      BY DEF EvaluatingLabels
    <3>2. pdagIndex[w] \in Graphs
      BY DEF TypeOK
    <3>3. \A f \in DOMAIN minimalSizes' : \E d \in Graphs : minimalSizes'[f] = SizeOf[d]
      BY <2>8, <3>2 DEF EnterFunction, TypeOK
    <3>4. EndOfBody(w, increaseAt[w])
      BY <2>8 DEF EnterFunction
    <3>. QED  BY <2>8, <3>1, <3>3, <3>4, EndOfBodyFacts, FrameType DEF EnterFunction, TypeOK
  <2>. QED  BY <1>2, <2>1, <2>2, <2>3, <2>4, <2>5, <2>6, <2>7, <2>8
            DEF Step, Fetch, Evaluate, Publish, Accumulate
<1>. QED  BY <1>1, <1>2 DEF Next

(* The variables keep their types, however many workers there are. *)
THEOREM TypeCorrect == Spec => []TypeOK
<1>1. TypeOK /\ [Next]_vars => TypeOK'
  BY TypeStep
<1>. QED  BY TypeInit, <1>1, PTL DEF Spec

-----------------------------------------------------------------------------
(* Dispatch.                                                               *)

(* The inductive form of the two properties. *)
Dispatch == HeldBehindCounter /\ NoDoubleDispatch

LEMMA DispatchInit == Init => Dispatch
BY DEF Init, Dispatch, HeldBehindCounter, NoDoubleDispatch, Evaluating, EvaluatingLabels

(* Steps after which nobody evaluates anything new and the counter stands. *)
LEMMA DispatchKept ==
  ASSUME Dispatch, UNCHANGED <<storeVars, pdagIndex, held>>,
         ~stop' => ~stop, \A u \in Workers : Evaluating(u)' => Evaluating(u)
  PROVE  Dispatch'
BY DEF Dispatch, HeldBehindCounter, NoDoubleDispatch, storeVars

(* A worker takes what the counter came to show; everything handed out     *)
(* earlier lies strictly behind it. *)
LEMMA DispatchTaken ==
  ASSUME TypeOK, Dispatch, ~stop' => ~stop,
         NEW w \in Workers, NEW d \in Graphs, NEW a \in Formulas(d),
         Take(w, d, a), currentPdag' = d, counter'[d] = a, ~stop =>
           \A u \in Workers \ {w} :
             Evaluating(u) => /\ pdagIndex[u] <= d
                              /\ pdagIndex[u] = d => Before(held[u], a)
  PROVE  Dispatch'
<1>1. /\ pdagIndex' = [pdagIndex EXCEPT ![w] = d] /\ held' = [held EXCEPT ![w] = a]
      /\ pc' = [pc EXCEPT ![w] = "evaluate"]
  BY DEF Take, GoTo
<1>2. pdagIndex'[w] = d /\ held'[w] = a
  BY <1>1 DEF TypeOK
<1>3. ASSUME NEW u \in Workers \ {w}
      PROVE  /\ Evaluating(u)' => Evaluating(u)
             /\ pdagIndex'[u] = pdagIndex[u] /\ held'[u] = held[u]
  BY <1>1, <1>3 DEF TypeOK, Evaluating
<1>4. d \in Nat
  BY GraphsFacts
<1>5. HeldBehindCounter'
  BY <1>2, <1>3, <1>4 DEF HeldBehindCounter
<1>6. ASSUME NEW u \in Workers \ {w}, ~stop', Evaluating(u)', pdagIndex'[u] = d
      PROVE  held'[u] # a
  <2>1. Before(held[u], a) /\ held'[u] = held[u]
    BY <1>3, <1>6
  <2>2. ~Before(a, a)
    BY FormulasFacts, GraphsFacts, BeforeIrreflexive
  <2>. QED  BY <2>1, <2>2
<1>7. ASSUME ~stop', NEW x \in Workers, NEW y \in Workers, x # y, Evaluating(x)', Evaluating(y)'
      PROVE  <<pdagIndex'[x], held'[x]>> # <<pdagIndex'[y], held'[y]>>
  <2>1. CASE x = w
    BY <1>2, <1>6, <1>7, <2>1
  <2>2. CASE y = w
    BY <1>2, <1>6, <1>7, <2>2
  <2>3. CASE x # w /\ y # w
    BY <1>3, <1>7, <2>3 DEF Dispatch, NoDoubleDispatch
  <2>. QED  BY <2>1, <2>2, <2>3
<1>8. NoDoubleDispatch'
  BY <1>7 DEF NoDoubleDispatch
<1>. QED  BY <1>5, <1>8 DEF Dispatch

(* A turn within the graph: what lay behind the counter or was what it     *)
(* showed lies behind it now. *)
LEMMA TurnCounterDispatch ==
  ASSUME TypeOK, Dispatch, NEW w \in Workers, TurnCounter(w)
  PROVE  Dispatch'
<1>. DEFINE d == currentPdag
            a == counter'[currentPdag]
<1>1. /\ d \in Graphs /\ a \in Formulas(d) /\ counter[d] \in Formulas(d)
      /\ currentPdag' = d /\ Take(w, d, a) /\ Before(counter[d], a)
  BY TurnCounterFacts DEF TypeOK
<1>2. stop' = stop
  BY DEF TurnCounter
<1>3. ASSUME ~stop, NEW u \in Workers \ {w}, Evaluating(u)
      PROVE  pdagIndex[u] <= d /\ (pdagIndex[u] = d => Before(held[u], a))
  <2>1. /\ pdagIndex[u] <= d
        /\ pdagIndex[u] = d => held[u] = counter[d] \/ Before(held[u], counter[d])
    BY <1>3 DEF Dispatch, HeldBehindCounter
  <2>2. ASSUME pdagIndex[u] = d PROVE held[u] \in Formulas(d)
    BY <1>3, <2>2 DEF TypeOK
  <2>3. ASSUME pdagIndex[u] = d, Before(held[u], counter[d]) PROVE Before(held[u], a)
    <3>1. /\ IsWheels(PossibleOf[d]) /\ IsReading(PossibleOf[d], held[u])
          /\ IsReading(PossibleOf[d], counter[d]) /\ IsReading(PossibleOf[d], a)
      BY <1>1, <2>2, <2>3, FormulasFacts, GraphsFacts
    <3>. QED  BY <1>1, <2>3, <3>1, BeforeTransitive
  <2>. QED  BY <1>1, <2>1, <2>3
<1>4. counter'[d] = a
  OBVIOUS
<1>. HIDE DEF a
<1>. QED  BY <1>1, <1>2, <1>3, <1>4, DispatchTaken

LEMMA NextGraphDispatch ==
  ASSUME TypeOK, Dispatch, NEW w \in Workers, NextGraph(w)
  PROVE  Dispatch'
<1>. DEFINE d == currentPdag + 1
            a == counter'[d]
<1>1. /\ d \in Graphs /\ a \in Formulas(d) /\ currentPdag' = d /\ Take(w, d, a)
      /\ currentPdag \in Nat
  BY NextGraphFacts
<1>2. stop' = stop
  BY DEF NextGraph
<1>3. ASSUME ~stop, NEW u \in Workers \ {w}, Evaluating(u)
      PROVE  pdagIndex[u] <= d /\ (pdagIndex[u] = d => Before(held[u], a))
  <2>1. pdagIndex[u] <= currentPdag /\ pdagIndex[u] \in Nat
    BY <1>3, GraphsFacts DEF Dispatch, HeldBehindCounter, TypeOK
  <2>. QED  BY <1>1, <2>1
<1>4. counter'[d] = a
  OBVIOUS
<1>. HIDE DEF a, d
<1>. QED  BY <1>1, <1>2, <1>3, <1>4, DispatchTaken

LEMMA DispatchStep ==
  ASSUME TypeOK, Dispatch, [Next]_vars
  PROVE  Dispatch'
<1>1. CASE UNCHANGED vars \/ Terminated
  BY <1>1, DispatchKept DEF Terminated, vars, threadVars, Evaluating
<1>2. ASSUME NEW w \in Workers, Step(w) PROVE Dispatch'
  <2>1. CASE TurnCounter(w)
    BY <2>1, TurnCounterDispatch
  <2>2. CASE NextGraph(w)
    BY <2>2, NextGraphDispatch
  <2>3. CASE Exhaust(w)
    BY <2>3 DEF Exhaust, Dispatch, HeldBehindCounter, NoDoubleDispatch
  <2>4. ASSUME NEW label, GoTo(w, label), label \in EvaluatingLabels => Evaluating(w),
               UNCHANGED <<storeVars, pdagIndex, held>>, ~stop' => ~stop
        PROVE  Dispatch'
    <3>1. \A u \in Workers : Evaluating(u)' => Evaluating(u)
      BY <2>4 DEF Evaluating, GoTo, TypeOK
    <3>. QED  BY <2>4, <3>1, DispatchKept
  <2>5. "top" \notin EvaluatingLabels /\ "fetch" \notin EvaluatingLabels
        /\ "exited" \notin EvaluatingLabels
    BY DEF EvaluatingLabels
  <2>6. CASE Leave(w) \/ WaitForCounter(w) \/ AbandonSkip(w)
    BY <2>4, <2>5, <2>6 DEF Leave, WaitForCounter, AbandonSkip, threadVars
  <2>7. CASE RejectDuplicate(w) \/ PassOver(w) \/ FileDuplicate(w) \/ EnterFunction(w)
    BY <2>4, <2>5, <2>7 DEF RejectDuplicate, PassOver, FileDuplicate, EnterFunction, EndOfBody
  <2>8. CASE CallbackMisses(w) \/ CallbackFinds(w) \/ DecideToFile(w)
    BY <2>4, <2>8 DEF CallbackMisses, CallbackFinds, DecideToFile, KnownFunction, threadVars,
       Evaluating, EvaluatingLabels
  <2>9. CASE WriteDot(w) \/ WriteSolution(w)
    BY <2>4, <2>9 DEF WriteDot, WriteSolution, threadVars, Evaluating, EvaluatingLabels
  <2>. QED  BY <1>2, <2>1, <2>2, <2>3, <2>6, <2>7, <2>8, <2>9
            DEF Step, Fetch, Evaluate, Publish, Accumulate
<1>. QED  BY <1>1, <1>2 DEF Next

LEMMA DispatchAlways == Spec => []Dispatch
<1>1. TypeOK /\ Dispatch /\ [Next]_vars => Dispatch'
  BY DispatchStep
<1>. QED  BY DispatchInit, TypeCorrect, <1>1, PTL DEF Spec

(* Nothing is handed out before the shared counter has come to it. *)
THEOREM CounterLeads == Spec => []HeldBehindCounter
<1>1. Dispatch => HeldBehindCounter
  BY DEF Dispatch
<1>. QED  BY DispatchAlways, <1>1, PTL

(* However the jumps of the workers interleave, no two of them evaluate    *)
(* the same formula: the strictness of the order of enumeration is what    *)
(* makes a turn hand out something new, and a new graph is ahead of all.   *)
THEOREM DispatchedOnce == Spec => []NoDoubleDispatch
<1>1. Dispatch => NoDoubleDispatch
  BY DEF Dispatch
<1>. QED  BY DispatchAlways, <1>1, PTL

-----------------------------------------------------------------------------
(* The published strings.                                                  *)

IsSolution(string) ==
  string \in {Unset, Garbled} \/ RootTableOf[string[1]][string[2]] = goal

(* The inductive form: a worker between the callback and the end of its    *)
(* assignments still holds a solution, and the description lags behind the *)
(* drawing only as long as some worker is to write it.                     *)
Published ==
  /\ IsSolution(dot) /\ IsSolution(solution)
  /\ \A w \in Workers : pc[w] \in {"draw", "describe"} => FunctionOf(w) = goal
  /\ dot = Unset => solution = Unset /\ \A w \in Workers : pc[w] # "describe"
  /\ dot # Unset /\ solution = Unset => \E w \in Workers : pc[w] = "describe"

LEMMA PublishedInit == Init => Published
BY DEF Init, Published, IsSolution

(* Steps that publish nothing: nobody comes to draw but by a callback that *)
(* found the goal, and nobody comes to or goes from describe.              *)
LEMMA PublishedKept ==
  ASSUME Published, UNCHANGED <<goal, resultVars>>,
         \A w \in Workers : pc'[w] = "describe" <=> pc[w] = "describe",
         \A w \in Workers : pc'[w] \in {"draw", "describe"} => FunctionOf(w)' = goal
  PROVE  Published'
<1>1. IsSolution(dot)' /\ IsSolution(solution)'
  BY DEF Published, IsSolution, resultVars, Unset, Garbled
<1>. QED  BY <1>1 DEF Published, resultVars, Unset

(* What a worker assigns is a solution, and is there. *)
LEMMA AssignedFacts ==
  ASSUME TypeOK, NEW w \in Workers, FunctionOf(w) = goal,
         NEW old, NEW label, NEW string \in Assigned(w, old, label)
  PROVE  IsSolution(string) /\ string # Unset
<1>1. pdagIndex[w] \in Nat \ {0}
  BY GraphsFacts DEF TypeOK
<1>2. string = Garbled \/ string = <<pdagIndex[w], held[w]>>
  BY DEF Assigned
<1>3. CASE string = Garbled
  BY <1>3 DEF IsSolution, Garbled, Unset
<1>4. CASE string = <<pdagIndex[w], held[w]>>
  <2>1. string[1] = pdagIndex[w] /\ string[2] = held[w]
    BY <1>4
  <2>2. RootTableOf[string[1]][string[2]] = goal
    BY <2>1 DEF FunctionOf
  <2>. QED  BY <1>1, <1>4, <2>2 DEF IsSolution, Unset
<1>. QED  BY <1>2, <1>3, <1>4

LEMMA WriteDotPublished ==
  ASSUME TypeOK, Published, NEW w \in Workers, WriteDot(w)
  PROVE  Published'
<1>1. pc[w] = "draw" /\ pc' = [pc EXCEPT ![w] = "describe"] /\ DOMAIN pc = Workers
  BY DEF WriteDot, GoTo, TypeOK
<1>2. UNCHANGED <<goal, solution, pdagIndex, held>>
  BY DEF WriteDot, threadVars
<1>3. \A u \in Workers : FunctionOf(u)' = FunctionOf(u)
  BY <1>2 DEF FunctionOf
<1>4. FunctionOf(w) = goal
  BY <1>1 DEF Published
<1>5. IsSolution(dot') /\ dot' # Unset
  BY <1>4, AssignedFacts DEF WriteDot
<1>6. IsSolution(dot)' /\ IsSolution(solution)'
  BY <1>2, <1>5 DEF Published, IsSolution, Unset, Garbled
<1>7. \A u \in Workers : pc'[u] \in {"draw", "describe"} => FunctionOf(u)' = goal'
  BY <1>1, <1>2, <1>3, <1>4 DEF Published
<1>8. pc'[w] = "describe" /\ (dot # Unset)'
  BY <1>1, <1>5 DEF Unset
<1>. QED  BY <1>6, <1>7, <1>8 DEF Published

LEMMA WriteSolutionPublished ==
  ASSUME TypeOK, Published, NEW w \in Workers, WriteSolution(w)
  PROVE  Published'
<1>1. pc[w] = "describe" /\ pc' = [pc EXCEPT ![w] = "accumulate"] /\ DOMAIN pc = Workers
  BY DEF WriteSolution, GoTo, TypeOK
<1>2. UNCHANGED <<goal, dot, pdagIndex, held>>
  BY DEF WriteSolution, threadVars
<1>3. \A u \in Workers : FunctionOf(u)' = FunctionOf(u)
  BY <1>2 DEF FunctionOf
<1>4. FunctionOf(w) = goal /\ dot # Unset
  BY <1>1 DEF Published
<1>5. IsSolution(solution') /\ solution' # Unset
  BY <1>4, AssignedFacts DEF WriteSolution
<1>6. IsSolution(dot)' /\ IsSolution(solution)'
  BY <1>2, <1>5 DEF Published, IsSolution, Unset, Garbled
<1>7. \A u \in Workers : pc'[u] \in {"draw", "describe"} => FunctionOf(u)' = goal'
  BY <1>1, <1>2, <1>3 DEF Published
<1>8. (dot # Unset)' /\ (solution # Unset)'
  BY <1>2, <1>4, <1>5 DEF Unset
<1>. QED  BY <1>6, <1>7, <1>8 DEF Published

LEMMA PublishedStep ==
  ASSUME TypeOK, Published, [Next]_vars
  PROVE  Published'
<1>1. CASE UNCHANGED vars \/ Terminated
  <2>1. UNCHANGED <<goal, resultVars, pc, pdagIndex, held>>
    BY <1>1 DEF Terminated, vars, threadVars
  <2>. QED  BY <2>1, PublishedKept DEF Published, FunctionOf
<1>2. ASSUME NEW w \in Workers, Step(w) PROVE Published'
  <2>1. ASSUME NEW label, GoTo(w, label), label # "draw", label # "describe",
               pc[w] # "describe", UNCHANGED <<goal, resultVars>>,
               \A u \in Workers \ {w} : pdagIndex'[u] = pdagIndex[u] /\ held'[u] = held[u]
        PROVE  Published'
    <3>1. /\ pc'[w] = label
          /\ \A u \in Workers \ {w} : pc'[u] = pc[u] /\ FunctionOf(u)' = FunctionOf(u)
      BY <2>1 DEF GoTo, TypeOK, FunctionOf
    <3>. QED  BY <2>1, <3>1, PublishedKept DEF Published
  <2>2. CASE Leave(w) \/ WaitForCounter(w) \/ AbandonSkip(w)
    BY <2>1, <2>2 DEF Leave, WaitForCounter, AbandonSkip, threadVars
  <2>3. CASE TurnCounter(w)
    BY <2>1, <2>3 DEF TurnCounter, MayTurn, Take, TypeOK
  <2>4. CASE NextGraph(w)
    BY <2>1, <2>4 DEF NextGraph, MayTurn, Take, TypeOK
  <2>5. CASE Exhaust(w)
    BY <2>1, <2>5 DEF Exhaust, MayTurn
  <2>6. CASE RejectDuplicate(w) \/ PassOver(w) \/ FileDuplicate(w) \/ EnterFunction(w)
    BY <2>1, <2>6 DEF RejectDuplicate, PassOver, FileDuplicate, EnterFunction, KnownFunction,
       EndOfBody
  <2>7. CASE CallbackMisses(w) \/ DecideToFile(w)
    BY <2>1, <2>7 DEF CallbackMisses, DecideToFile, KnownFunction, threadVars
  <2>8. CASE CallbackFinds(w)
    <3>1. /\ pc' = [pc EXCEPT ![w] = "draw"] /\ pc[w] = "evaluate" /\ DOMAIN pc = Workers
          /\ UNCHANGED <<goal, resultVars, pdagIndex, held>> /\ FunctionOf(w) = goal
      BY <2>8 DEF CallbackFinds, GoTo, threadVars, TypeOK
    <3>2. \A u \in Workers : FunctionOf(u)' = FunctionOf(u)
      BY <3>1 DEF FunctionOf
    <3>. QED  BY <3>1, <3>2, PublishedKept DEF Published
  <2>9. CASE Publish(w)
    BY <2>9, WriteDotPublished, WriteSolutionPublished DEF Publish
  <2>. QED  BY <1>2, <2>2, <2>3, <2>4, <2>5, <2>6, <2>7, <2>8, <2>9
            DEF Step, Fetch, Evaluate, Accumulate
<1>. QED  BY <1>1, <1>2 DEF Next

(* Whatever the shared counter has moved to since the worker copied it,    *)
(* and however many workers find solutions, a string that is published     *)
(* whole is a formula of the function sought, and after the join drawing   *)
(* and description are both there or both missing.                         *)
THEOREM PublishesSolutions == Spec => []PublishedIsSolution
<1>1. TypeOK /\ Published /\ [Next]_vars => Published'
  BY PublishedStep
<1>2. Published => PublishedIsSolution
  <2>1. ASSUME Published, Joined PROVE dot = Unset <=> solution = Unset
    BY <2>1 DEF Published, Joined
  <2>. QED  BY <2>1 DEF Published, PublishedIsSolution, IsSolution
<1>. QED  BY PublishedInit, TypeCorrect, <1>1, <1>2, PTL DEF Spec
=============================================================================
