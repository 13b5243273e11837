------------------------- MODULE ParallelRefinement -------------------------
(***************************************************************************)
(* ParallelEnumerator implements Enumeration, for every number of workers, *)
(* every grammar and every list of graphs: no formula is handed out twice  *)
(* in the whole of a run, and none that a jump passed over comes back.     *)
(***************************************************************************)
EXTENDS ParallelProofs

(* The counters of the graphs still to come have not been turned. *)
FreshCounters ==
  \A d \in Graphs : d > currentPdag => counter[d] = AllBegin(PossibleOf[d])

LEMMA FreshInit == Init => FreshCounters
BY DEF Init, FreshCounters

LEMMA FreshStep ==
  ASSUME TypeOK, FreshCounters, [Next]_vars
  PROVE  FreshCounters'
<1>1. CASE UNCHANGED storeVars
  BY <1>1 DEF FreshCounters, storeVars
<1>2. ASSUME NEW w \in Workers, TurnCounter(w) \/ NextGraph(w) \/ Exhaust(w)
      PROVE  FreshCounters'
  <2>1. /\ currentPdag \in Nat /\ currentPdag' \in {currentPdag, currentPdag + 1}
        /\ \A d \in Graphs : d # currentPdag => counter'[d] = counter[d]
    BY <1>2, GraphsFacts DEF TurnCounter, NextGraph, Exhaust, TypeOK
  <2>. QED  BY <2>1, GraphsFacts DEF FreshCounters
<1>3. ASSUME NEW w \in Workers, Step(w), ~(TurnCounter(w) \/ NextGraph(w) \/ Exhaust(w))
      PROVE  UNCHANGED storeVars
  BY <1>3 DEF Step, Leave, WaitForCounter, Fetch, AbandonSkip, Evaluate, RejectDuplicate,
     CallbackMisses, CallbackFinds, Publish, WriteDot, WriteSolution, Accumulate,
     EnterFunction, PassOver, DecideToFile, FileDuplicate, storeVars
<1>. QED  BY <1>1, <1>2, <1>3 DEF Next, Terminated, vars

-----------------------------------------------------------------------------
(* The order of enumeration on the formulas of a graph.                    *)

(* Every other formula of the graph comes after it. *)
LEMMA AfterBegin ==
  ASSUME NEW d \in Graphs, NEW a \in Formulas(d), a # AllBegin(PossibleOf[d])
  PROVE  Before(AllBegin(PossibleOf[d]), a)
<1>. DEFINE P == PossibleOf[d]
            n == Len(Dags[d])
<1>1. IsWheels(P) /\ IsReading(P, a)
  BY GraphsFacts, FormulasFacts
<1>2. n \in Nat /\ DOMAIN P \subseteq 0 .. n
  <2>1. Dags[d] \in Seq(Seq(Nat))
    BY DagsAssumption DEF Graphs
  <2>. QED  BY <2>1 DEF PossibleOf, PossibleAssignments, Vertices
<1>3. a \in Readings(P) /\ AllBegin(P) \in Readings(P)
  BY FormulasFacts DEF Formulas
<1>. HIDE DEF P, n
<1>4. ~Before(a, AllBegin(P))
  BY <1>1, BeginIsFirst
<1>. QED  BY <1>1, <1>2, <1>3, <1>4, BeforeTotal DEF P

LEMMA BeforeFacts ==
  ASSUME NEW d \in Graphs, NEW a \in Formulas(d), NEW b \in Formulas(d), Before(a, b)
  PROVE  /\ b # AllBegin(PossibleOf[d])
         /\ ~Before(b, b)
         /\ \A c \in Formulas(d) : Before(b, c) => Before(a, c)
<1>1. IsWheels(PossibleOf[d]) /\ \A c \in Formulas(d) : IsReading(PossibleOf[d], c)
  BY GraphsFacts, FormulasFacts
<1>2. ~Before(b, b)
  BY <1>1, BeforeIrreflexive
<1>3. \A c \in Formulas(d) : Before(b, c) => Before(a, c)
  BY <1>1, BeforeTransitive
<1>4. b # AllBegin(PossibleOf[d])
  BY <1>1, BeginIsFirst
<1>. QED  BY <1>2, <1>3, <1>4

(* What is dispatchable: a formula of one of the graphs. *)
LEMMA DispatchableFacts ==
  ASSUME NEW f
  PROVE  f \in Dispatchable <=>
           \E d \in Graphs : \E a \in Formulas(d) :
             f = <<d, a>> /\ ~(d = 1 /\ a = AllBegin(PossibleOf[1]))
BY DEF Dispatchable

-----------------------------------------------------------------------------
(* The steps.                                                              *)

(* A step that leaves the counter alone and lets a worker go on with its   *)
(* formula, be done with it, or stop the others. *)
LEMMA FrameRefines ==
  ASSUME TypeOK, NEW w \in Workers, NEW label, GoTo(w, label),
         label \in EvaluatingLabels => Evaluating(w),
         UNCHANGED <<storeVars, pdagIndex, held>>,
         stop' = stop \/ stop' = TRUE
  PROVE  [Handout!Next]_(Handout!vars)
<1>1. pc' = [pc EXCEPT ![w] = label] /\ stop \in BOOLEAN
  BY DEF GoTo, TypeOK
<1>2. InFront' = InFront
  BY DEF InFront, storeVars
<1>3. CASE stop
  <2>1. stop' = TRUE
    BY <1>1, <1>3
  <2>2. AtWork' = AtWork
    BY <1>3, <2>1 DEF AtWork
  <2>. QED  BY <1>3, <2>1, <2>2 DEF Handout!vars
<1>4. CASE ~stop /\ stop'
  <2>1. AtWork' = [u \in Workers |-> {}]
    BY <1>4 DEF AtWork
  <2>. QED  BY <1>4, <2>1 DEF Handout!Next, Handout!Stop
<1>5. CASE ~stop /\ ~stop'
  <2>1. \A u \in Workers \ {w} : AtWork'[u] = AtWork[u]
    BY <1>1, <1>5 DEF AtWork, Evaluating, TypeOK
  <2>2. AtWork'[w] = {} \/ AtWork'[w] = AtWork[w]
    BY <1>1, <1>5 DEF AtWork, Evaluating, TypeOK
  <2>3. AtWork' = [u \in Workers |-> AtWork'[u]] /\ AtWork = [u \in Workers |-> AtWork[u]]
    BY DEF AtWork
  <2>4. CASE AtWork'[w] = AtWork[w]
    <3>1. AtWork' = AtWork
      BY <2>1, <2>3, <2>4
    <3>. QED  BY <1>2, <1>5, <3>1 DEF Handout!vars
  <2>5. CASE AtWork'[w] = {}
    <3>1. AtWork' = [AtWork EXCEPT ![w] = {}]
      BY <2>1, <2>3, <2>5
    <3>. QED  BY <1>2, <1>5, <3>1 DEF Handout!Next, Handout!Release
  <2>. QED  BY <2>2, <2>4, <2>5
<1>. QED  BY <1>1, <1>3, <1>4, <1>5

(* A worker takes a formula that lay in front of the counter, which moves  *)
(* on to it. *)
LEMMA TakeRefines ==
  ASSUME TypeOK, NEW w \in Workers, NEW d \in Graphs, NEW a \in Formulas(d),
         Take(w, d, a), stop' = stop, <<d, a>> \in InFront,
         InFront' \subseteq InFront \ {<<d, a>>}
  PROVE  [Handout!Next]_(Handout!vars)
<1>1. /\ pdagIndex' = [pdagIndex EXCEPT ![w] = d] /\ held' = [held EXCEPT ![w] = a]
      /\ pc' = [pc EXCEPT ![w] = "evaluate"]
  BY DEF Take, GoTo
<1>2. CASE stop
  <2>1. AtWork' = AtWork
    BY <1>2 DEF AtWork
  <2>. QED  BY <1>2, <2>1 DEF Handout!vars
<1>3. CASE ~stop
  <2>1. \A u \in Workers \ {w} : AtWork'[u] = AtWork[u]
    BY <1>1, <1>3 DEF AtWork, Evaluating, TypeOK
  <2>2. AtWork'[w] = {<<d, a>>}
    BY <1>1, <1>3 DEF AtWork, Evaluating, EvaluatingLabels, TypeOK
  <2>3. AtWork' = [u \in Workers |-> AtWork'[u]] /\ AtWork = [u \in Workers |-> AtWork[u]]
    BY DEF AtWork
  <2>4. AtWork' = [AtWork EXCEPT ![w] = {<<d, a>>}]
    BY <2>1, <2>2, <2>3
  <2>5. Handout!Take(w)
    BY <1>3, <2>4 DEF Handout!Take
  <2>. QED  BY <2>5 DEF Handout!Next
<1>. QED  BY <1>2, <1>3

LEMMA TurnCounterRefines ==
  ASSUME TypeOK, NEW w \in Workers, TurnCounter(w)
  PROVE  [Handout!Next]_(Handout!vars)
<1>. DEFINE d == currentPdag
            a == counter'[currentPdag]
<1>1. /\ d \in Graphs /\ a \in Formulas(d) /\ counter[d] \in Formulas(d)
      /\ currentPdag' = d /\ Take(w, d, a) /\ Before(counter[d], a)
  BY TurnCounterFacts DEF TypeOK
<1>2. stop' = stop
  BY DEF TurnCounter
<1>3. <<d, a>> \in InFront
  BY <1>1, BeforeFacts, DispatchableFacts DEF InFront
<1>4. ASSUME NEW f \in InFront' PROVE f \in InFront \ {<<d, a>>}
  <2>1. f \in Dispatchable /\ (f[1] > d \/ (f[1] = d /\ Before(a, f[2])))
    BY <1>1, <1>4 DEF InFront, Dispatchable
  <2>2. PICK e \in Graphs : \E b \in Formulas(e) : f = <<e, b>>
    BY <2>1, DispatchableFacts
  <2>b. PICK b \in Formulas(e) : f = <<e, b>>
    BY <2>2
  <2>3. d \in Nat /\ e \in Nat
    BY <1>1, GraphsFacts
  <2>4. CASE e > d
    BY <2>1, <2>b, <2>3, <2>4 DEF InFront
  <2>5. CASE e = d /\ Before(a, b)
    <3>1. Before(counter[d], b) /\ b # a
      BY <1>1, <2>b, <2>5, BeforeFacts
    <3>. QED  BY <2>1, <2>b, <2>5, <3>1 DEF InFront
  <2>. QED  BY <2>1, <2>b, <2>3, <2>4, <2>5
<1>. HIDE DEF a, d
<1>. QED  BY <1>1, <1>2, <1>3, <1>4, TakeRefines

LEMMA NextGraphRefines ==
  ASSUME TypeOK, FreshCounters, NEW w \in Workers, NextGraph(w)
  PROVE  [Handout!Next]_(Handout!vars)
<1>. DEFINE d == currentPdag + 1
            a == counter'[d]
<1>1. /\ d \in Graphs /\ a \in Formulas(d) /\ currentPdag' = d /\ Take(w, d, a)
      /\ currentPdag \in Nat /\ currentPdag \in Graphs /\ a = counter[d]
  BY NextGraphFacts DEF TypeOK
<1>2. stop' = stop
  BY DEF NextGraph
<1>3. a = AllBegin(PossibleOf[d]) /\ currentPdag >= 1
  BY <1>1, GraphsFacts DEF FreshCounters
<1>4. <<d, a>> \in InFront
  BY <1>1, <1>3, DispatchableFacts DEF InFront
<1>5. ASSUME NEW f \in InFront' PROVE f \in InFront \ {<<d, a>>}
  <2>1. f \in Dispatchable /\ (f[1] > d \/ (f[1] = d /\ Before(a, f[2])))
    BY <1>1, <1>5 DEF InFront, Dispatchable
  <2>2. PICK e \in Graphs : \E b \in Formulas(e) : f = <<e, b>>
    BY <2>1, DispatchableFacts
  <2>b. PICK b \in Formulas(e) : f = <<e, b>>
    BY <2>2
  <2>3. e \in Nat /\ e >= d
    BY <1>1, <2>1, <2>b, GraphsFacts
  <2>4. f \in InFront
    BY <1>1, <2>1, <2>b, <2>3 DEF InFront
  <2>5. e = d => b # a
    BY <1>1, <2>1, <2>b, BeforeFacts
  <2>. QED  BY <1>1, <2>b, <2>3, <2>4, <2>5
<1>. HIDE DEF a, d
<1>. QED  BY <1>1, <1>2, <1>4, <1>5, TakeRefines

LEMMA ExhaustRefines ==
  ASSUME NEW w \in Workers, Exhaust(w)
  PROVE  [Handout!Next]_(Handout!vars)
<1>1. stop'
  BY DEF Exhaust
<1>2. AtWork' = [u \in Workers |-> {}]
  BY <1>1 DEF AtWork
<1>. QED  BY <1>1, <1>2 DEF Handout!Next, Handout!Stop

LEMMA StepRefines ==
  ASSUME TypeOK, FreshCounters, [Next]_vars
  PROVE  [Handout!Next]_(Handout!vars)
<1>1. CASE UNCHANGED vars
  <2>1. InFront' = InFront /\ AtWork' = AtWork /\ stop' = stop
    BY <1>1 DEF vars, storeVars, threadVars, InFront, AtWork, Evaluating
  <2>. QED  BY <2>1 DEF Handout!vars
<1>2. ASSUME NEW w \in Workers, Step(w) PROVE [Handout!Next]_(Handout!vars)
  <2>1. CASE TurnCounter(w)
    BY <2>1, TurnCounterRefines
  <2>2. CASE NextGraph(w)
    BY <2>2, NextGraphRefines
  <2>3. CASE Exhaust(w)
    BY <2>3, ExhaustRefines
  <2>4. "top" \notin EvaluatingLabels /\ "fetch" \notin EvaluatingLabels
        /\ "exited" \notin EvaluatingLabels
    BY DEF EvaluatingLabels
  <2>5. CASE Leave(w) \/ WaitForCounter(w) \/ AbandonSkip(w)
    BY <2>4, <2>5, FrameRefines DEF Leave, WaitForCounter, AbandonSkip, threadVars
  <2>6. CASE RejectDuplicate(w) \/ PassOver(w) \/ FileDuplicate(w) \/ EnterFunction(w)
    BY <2>4, <2>6, FrameRefines
       DEF RejectDuplicate, PassOver, FileDuplicate, EnterFunction, EndOfBody
  <2>7. CASE CallbackMisses(w) \/ CallbackFinds(w) \/ DecideToFile(w)
    BY <2>7, FrameRefines DEF CallbackMisses, CallbackFinds, DecideToFile, KnownFunction,
       threadVars, Evaluating, EvaluatingLabels
  <2>8. CASE WriteDot(w) \/ WriteSolution(w)
    BY <2>8, FrameRefines DEF WriteDot, WriteSolution, threadVars, Evaluating, EvaluatingLabels
  <2>. QED  BY <1>2, <2>1, <2>2, <2>3, <2>5, <2>6, <2>7, <2>8
            DEF Step, Fetch, Evaluate, Publish, Accumulate
<1>. QED  BY <1>1, <1>2 DEF Next, Terminated

LEMMA InitRefines == Init => Handout!Init
<1>. SUFFICES ASSUME Init PROVE Handout!Init
  OBVIOUS
<1>1. AtWork = [w \in Workers |-> {}]
  BY DEF Init, AtWork, Evaluating, EvaluatingLabels
<1>2. ASSUME NEW f \in Dispatchable PROVE f \in InFront
  <2>1. PICK d \in Graphs : \E a \in Formulas(d) :
          f = <<d, a>> /\ ~(d = 1 /\ a = AllBegin(PossibleOf[1]))
    BY <1>2, DispatchableFacts
  <2>a. PICK a \in Formulas(d) : f = <<d, a>> /\ ~(d = 1 /\ a = AllBegin(PossibleOf[1]))
    BY <2>1
  <2>2. currentPdag = 1 /\ counter[1] = AllBegin(PossibleOf[1]) /\ d \in Nat /\ d >= 1
    BY GraphsFacts DEF Init
  <2>3. CASE d > 1
    BY <1>2, <2>a, <2>2, <2>3 DEF InFront
  <2>4. CASE d = 1
    <3>1. Before(AllBegin(PossibleOf[1]), a)
      BY <2>a, <2>4, AfterBegin
    <3>. QED  BY <1>2, <2>a, <2>2, <2>4, <3>1 DEF InFront
  <2>. QED  BY <2>2, <2>3, <2>4
<1>3. InFront = Dispatchable
  BY <1>2 DEF InFront
<1>. QED  BY <1>1, <1>3 DEF Handout!Init, Init

(* The engine implements the abstract enumeration: in a whole run no       *)
(* formula is given to two workers, or to one twice, before it stops.      *)
THEOREM DispatchImplements == Spec => DispatchesOnce
<1>1. TypeOK /\ FreshCounters /\ [Next]_vars => FreshCounters'
  BY FreshStep
<1>2. TypeOK /\ FreshCounters /\ [Next]_vars => [Handout!Next]_(Handout!vars)
  BY StepRefines
<1>. QED  BY InitRefines, FreshInit, TypeCorrect, <1>1, <1>2, PTL
          DEF Spec, DispatchesOnce, Handout!Spec
=============================================================================
