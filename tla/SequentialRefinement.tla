------------------------ MODULE SequentialRefinement ------------------------
(***************************************************************************)
(* SequentialEnumerator implements Enumeration, for every grammar, every   *)
(* list of graphs and every client: the client is given no formula twice   *)
(* unless it asks for it again, and none that a skip passed over.  What is *)
(* passed over costs no function where each such formula is replaceable by *)
(* an earlier one.                                                         *)
(***************************************************************************)
EXTENDS SequentialCoherence

(* On a graph the grammar supports the counter shows one of its readings. *)
CounterShows == dag > 0 /\ Supported(dag) => assignment \in Readings(Possible)

LEMMA SupportedReadings ==
  ASSUME NEW d \in Graphs, NEW a \in Readings(PossibleOf[d])
  PROVE  Supported(d) /\ IsWheels(PossibleOf[d]) /\ IsReading(PossibleOf[d], a)
<1>1. IsReading(PossibleOf[d], a)
  BY DEF Readings, IsReading
<1>2. Supported(d)
  BY <1>1, PossibleFacts DEF IsReading, Supported
<1>. QED  BY <1>1, <1>2, PossibleFacts

LEMMA AllReadingsFacts ==
  ASSUME NEW f
  PROVE  f \in AllReadings <=>
           \E d \in Graphs : \E a \in Readings(PossibleOf[d]) : f = <<d, a>>
BY DEF AllReadings

(* The actions that turn the counter. *)
Turn(p) == pc \in {"loop", "report"} /\ Engaged /\ IncreaseStack(p) /\ dag' = dag

LEMMA TurnActions ==
  ASSUME TakeNextAssignment \/ SkipDuplicate \/ ReportAndSkip \/ ReportAndAdvance
  PROVE  \E p : Turn(p)
BY DEF TakeNextAssignment, SkipDuplicate, ReportAndSkip, ReportAndAdvance, NoRequest,
   Turn, Engaged

(* The actions that end the work on a formula or a graph. *)
Drop ==
  /\ pc' \in {"next_dag", "done"} /\ pc \in {"next_dag", "loop", "report"}
  /\ UNCHANGED <<dag, assignment, resume>>

LEMMA DropActions ==
  ASSUME Finish \/ TakeNextDag \/ TakeStopEnumeration \/ ReportAndLeave
  PROVE  Drop
BY DEF Finish, TakeNextDag, TakeStopEnumeration, ReportAndLeave, Drop

(* The actions between two turns that show the client nothing new. *)
Still ==
  /\ UNCHANGED <<dag, assignment, resume>>
  /\ \/ pc' = pc
     \/ pc \in {"loop", "update"} /\ pc' \in {"loop", "update"}
     \/ pc = "flags" /\ pc' = resume /\ resume \in {"loop", "next_dag"}

LEMMA StillActions ==
  ASSUME Typed,
         StartUpdate \/ Descend \/ EvaluateLeaf \/ EvaluateGate \/ SetFlags
           \/ Terminated \/ UNCHANGED vars
  PROVE  Still
<1>1. resume \in {"loop", "next_dag"}
  BY DEF Typed, TypeOK, ControlTypeOK
<1>. QED  BY <1>1 DEF StartUpdate, Descend, EvaluateLeaf, EvaluateGate, SetFlags, Terminated,
             vars, Still

-----------------------------------------------------------------------------
LEMMA CounterInit == Init => CounterShows
BY DEF Init, CounterShows

LEMMA CounterStep ==
  ASSUME Typed, CounterShows, [Next]_vars
  PROVE  CounterShows'
<1>1. CASE NextDag
  <2>1. dag' \in Graphs /\ assignment' = AllBegin(PossibleOf[dag'])
    BY <1>1, DagAssumption DEF NextDag, Typed, TypeOK, ControlTypeOK, Graphs
  <2>2. Supported(dag') => AllBegin(PossibleOf[dag']) \in Readings(PossibleOf[dag'])
    BY <2>1, PossibleFacts, ReadingsFacts
  <2>. QED  BY <2>1, <2>2 DEF CounterShows, Supported, Possible
<1>2. ASSUME NEW p, Turn(p) PROVE CounterShows'
  <2>1. dag \in Graphs /\ dag > 0 /\ Supported(dag)
    BY <1>2, EngagedFacts DEF Turn
  <2>2. IsWheels(Possible) /\ assignment \in Readings(Possible)
    BY <2>1, PossibleFacts DEF CounterShows, Possible
  <2>3. assignment' \in Readings(Possible)
    BY <1>2, <2>2, ReadingsFacts DEF Turn, IncreaseStack
  <2>. QED  BY <1>2, <2>3 DEF Turn, CounterShows, Possible, Supported
<1>3. CASE UNCHANGED <<dag, assignment>>
  BY <1>3 DEF CounterShows, Possible, Supported
<1>4. UNCHANGED <<dag, assignment>> \/ NextDag \/ \E p : Turn(p)
  <2>1. CASE Finish \/ TakeNextDag \/ TakeStopEnumeration \/ ReportAndLeave
    BY <2>1, DropActions DEF Drop
  <2>2. CASE TakeNextAssignment \/ SkipDuplicate \/ ReportAndSkip \/ ReportAndAdvance
    BY <2>2, TurnActions
  <2>3. CASE StartUpdate \/ Descend \/ EvaluateLeaf \/ EvaluateGate \/ SetFlags
               \/ Terminated \/ UNCHANGED vars
    BY <2>3, StillActions DEF Still
  <2>4. CASE FinishUpdate \/ ReportAndStay
    BY <2>4 DEF FinishUpdate, ReportAndStay
  <2>. QED  BY <2>1, <2>2, <2>3, <2>4 DEF Next, Update, Report
<1>. QED  BY <1>1, <1>2, <1>3, <1>4

-----------------------------------------------------------------------------
(* The steps. *)

(* What the client has is given up, and nothing comes back. *)
LEMMA ReleaseRefines ==
  ASSUME pc' # "report", ToCome' \subseteq ToCome
  PROVE  Handout!Release("client")
<1>1. Shown' = [w \in {"client"} |-> {}]
  BY DEF Shown
<1>2. [Shown EXCEPT !["client"] = {}] = [w \in {"client"} |-> {}]
  BY DEF Shown
<1>. QED  BY <1>1, <1>2 DEF Handout!Release

(* A new graph: everything in front of its counter was to come before. *)
LEMMA NextDagRefines ==
  ASSUME Typed, NextDag
  PROVE  Handout!Release("client")
<1>1. dag \in Nat /\ dag' = dag + 1 /\ pc' = "loop"
  BY DEF NextDag, Typed, TypeOK, ControlTypeOK
<1>2. ASSUME NEW f \in ToCome' PROVE f \in ToCome
  <2>1. f \in AllReadings /\ (f[1] > dag' \/ f[1] = dag')
    BY <1>2 DEF ToCome
  <2>2. f[1] \in Nat
    BY <2>1, AllReadingsFacts, DagAssumption DEF Graphs
  <2>. QED  BY <1>1, <2>1, <2>2 DEF ToCome
<1>. QED  BY <1>1, <1>2, ReleaseRefines

(* What lies in front of the counter after a turn lay in front of it       *)
(* before.                                                                 *)
LEMMA TurnLeaves ==
  ASSUME Typed, CounterShows, NEW p, Turn(p), NEW f \in ToCome'
  PROVE  /\ f \in ToCome
         /\ f[1] = dag => Before(assignment, f[2])
<1>1. dag \in Graphs /\ dag > 0 /\ Supported(dag)
  BY EngagedFacts DEF Turn
<1>2. IsWheels(Possible) /\ assignment \in Readings(Possible) /\ IsReading(Possible, assignment)
  BY <1>1, PossibleFacts, EngagedFacts DEF CounterShows, Possible, Turn
<1>3. assignment' \in Readings(Possible) /\ IsReading(Possible, assignment')
  BY <1>2, ReadingsFacts DEF Turn, IncreaseStack
<1>4. resume' = "loop" => Before(assignment, assignment')
  BY <1>2, IncreaseAdvances DEF Turn, IncreaseStack
<1>5. pc' = "flags" /\ dag' = dag /\ dag \in Nat
  BY DEF Turn, IncreaseStack, Typed, TypeOK, ControlTypeOK
<1>6. /\ f \in AllReadings
      /\ \/ f[1] > dag
         \/ /\ f[1] = dag /\ resume' = "loop"
            /\ f[2] = assignment' \/ Before(assignment', f[2])
  BY <1>5 DEF ToCome, ShownToCome
<1>7. CASE f[1] > dag
  BY <1>5, <1>6, <1>7 DEF ToCome
<1>8. CASE /\ f[1] = dag /\ resume' = "loop"
           /\ f[2] = assignment' \/ Before(assignment', f[2])
  <2>1. IsReading(Possible, f[2])
    BY <1>6, <1>8, AllReadingsFacts, SupportedReadings DEF Possible
  <2>2. Before(assignment, f[2])
    BY <1>2, <1>3, <1>4, <1>8, <2>1, BeforeTransitive
  <2>3. ShownToCome \/ pc = "report"
    BY DEF Turn, ShownToCome
  <2>. QED  BY <1>6, <1>8, <2>2, <2>3 DEF ToCome
<1>. QED  BY <1>6, <1>7, <1>8

(* A turn of the counter gives up the formula it leaves and what it passes *)
(* over.                                                                   *)
LEMMA TurnRefines ==
  ASSUME Typed, CounterShows, NEW p, Turn(p)
  PROVE  Handout!Release("client")
<1>1. pc' # "report"
  BY DEF Turn, IncreaseStack
<1>2. ToCome' \subseteq ToCome
  BY TurnLeaves
<1>. QED  BY <1>1, <1>2, ReleaseRefines

LEMMA DropRefines ==
  ASSUME Drop
  PROVE  Handout!Release("client")
<1>1. pc' # "report" /\ ToCome' \subseteq ToCome
  BY DEF Drop, ToCome, ShownToCome
<1>. QED  BY <1>1, ReleaseRefines

LEMMA StillRefines ==
  ASSUME Still
  PROVE  UNCHANGED Handout!vars
<1>1. Shown' = Shown
  BY DEF Still, Shown
<1>2. ShownToCome' = ShownToCome /\ (pc' = "report" <=> pc = "report")
  BY DEF Still, ShownToCome
<1>3. ToCome' = ToCome
  BY <1>2 DEF Still, ToCome
<1>. QED  BY <1>1, <1>3 DEF Handout!vars

(* The formula the client is called with, or asks for once more. *)
LEMMA ShownFacts ==
  ASSUME Typed, CounterShows, Engaged
  PROVE  <<dag, assignment>> \in AllReadings /\ ~Before(assignment, assignment)
<1>1. dag \in Graphs /\ dag > 0 /\ Supported(dag)
  BY EngagedFacts
<1>2. assignment \in Readings(PossibleOf[dag])
  BY <1>1 DEF CounterShows, Possible
<1>. QED  BY <1>1, <1>2, AllReadingsFacts, SupportedReadings, BeforeIrreflexive

(* The callback gets what the counter shows. *)
LEMMA FinishUpdateRefines ==
  ASSUME Typed, CounterShows, FinishUpdate
  PROVE  Handout!Take("client")
<1>. DEFINE f == <<dag, assignment>>
<1>1. pc = "update" /\ pc' = "report" /\ UNCHANGED <<dag, assignment, resume>>
  BY DEF FinishUpdate
<1>2. f \in AllReadings /\ ~Before(assignment, assignment)
  BY <1>1, ShownFacts DEF Engaged
<1>3. f \in ToCome
  BY <1>1, <1>2 DEF ToCome, ShownToCome
<1>4. dag \in Nat
  BY DEF Typed, TypeOK, ControlTypeOK
<1>5. f \notin ToCome' /\ ToCome' \subseteq ToCome
  BY <1>1, <1>2, <1>4 DEF ToCome, ShownToCome
<1>6. Shown' = [w \in {"client"} |-> {f}]
  BY <1>1 DEF Shown
<1>7. Shown' = [Shown EXCEPT !["client"] = {f}]
  BY <1>6 DEF Shown
<1>. QED  BY <1>3, <1>5, <1>7 DEF Handout!Take

(* The client asks for the same formula again. *)
LEMMA StayRefines ==
  ASSUME Typed, CounterShows, ReportAndStay
  PROVE  Handout!Return("client")
<1>. DEFINE f == <<dag, assignment>>
<1>1. pc = "report" /\ pc' = "loop" /\ UNCHANGED <<dag, assignment, resume>>
  BY DEF ReportAndStay
<1>2. f \in AllReadings
  BY <1>1, ShownFacts DEF Engaged
<1>3. Shown["client"] = {f} /\ Shown' = [Shown EXCEPT !["client"] = {}]
  BY <1>1 DEF Shown
<1>4. ASSUME NEW g PROVE g \in ToCome' <=> g \in ToCome \cup {f}
  <2>1. g \in AllReadings => g = <<g[1], g[2]>>
    BY AllReadingsFacts
  <2>2. dag \in Nat
    BY DEF Typed, TypeOK, ControlTypeOK
  <2>. QED  BY <1>1, <1>2, <2>1, <2>2 DEF ToCome, ShownToCome
<1>5. ToCome' = ToCome \cup {f}
  BY <1>4
<1>. QED  BY <1>3, <1>5 DEF Handout!Return

LEMMA StepRefines ==
  ASSUME Typed, CounterShows, [Next]_vars
  PROVE  [Handout!Next]_(Handout!vars) \/ (ReportAndStay /\ Handout!Return("client"))
<1>1. CASE NextDag
  BY <1>1, NextDagRefines DEF Handout!Next
<1>2. CASE Finish \/ TakeNextDag \/ TakeStopEnumeration \/ ReportAndLeave
  BY <1>2, DropActions, DropRefines DEF Handout!Next
<1>3. CASE TakeNextAssignment \/ SkipDuplicate \/ ReportAndSkip \/ ReportAndAdvance
  BY <1>3, TurnActions, TurnRefines DEF Handout!Next
<1>4. CASE StartUpdate \/ Descend \/ EvaluateLeaf \/ EvaluateGate \/ SetFlags
             \/ Terminated \/ UNCHANGED vars
  BY <1>4, StillActions, StillRefines
<1>5. CASE FinishUpdate
  BY <1>5, FinishUpdateRefines DEF Handout!Next
<1>6. CASE ReportAndStay
  BY <1>6, StayRefines
<1>. QED  BY <1>1, <1>2, <1>3, <1>4, <1>5, <1>6 DEF Next, Update, Report

LEMMA InitRefines == Init => Handout!Init
<1>. SUFFICES ASSUME Init PROVE Handout!Init
  OBVIOUS
<1>1. Shown = [w \in {"client"} |-> {}]
  BY DEF Init, Shown
<1>2. ASSUME NEW f \in AllReadings PROVE f \in ToCome
  <2>1. f[1] \in Graphs
    BY <1>2, AllReadingsFacts
  <2>2. f[1] > 0
    BY <2>1, DagAssumption DEF Graphs
  <2>. QED  BY <1>2, <2>2 DEF Init, ToCome
<1>3. ToCome = AllReadings
  BY <1>2 DEF ToCome
<1>. QED  BY <1>1, <1>3 DEF Handout!Init

-----------------------------------------------------------------------------
(* Whatever the client asks for, it is given a formula twice only if it    *)
(* asked for it again when it had it.                                      *)
THEOREM HandoutImplements == Spec => RepeatsOnRequest
<1>1. Typed /\ CounterShows /\ [Next]_vars => CounterShows'
  BY CounterStep
<1>2. Typed /\ CounterShows /\ [Next]_vars =>
        [Handout!Next \/ \E w \in {"client"} : Handout!Return(w)]_(Handout!vars)
  BY StepRefines
<1>. QED  BY InitRefines, CounterInit, TypedAlways, <1>1, <1>2, PTL
          DEF Spec, RepeatsOnRequest, Handout!RepeatSpec

(* A client that never answers DoNotIncrease is given no formula twice. *)
THEOREM NothingHandedOutTwice ==
  ASSUME "DoNotIncrease" \notin CallbackTasks
  PROVE  Spec => HandsOutOnce
<1>1. Typed /\ CounterShows /\ [Next]_vars => CounterShows'
  BY CounterStep
<1>2. Typed /\ CounterShows /\ [Next]_vars => [Handout!Next]_(Handout!vars)
  BY StepRefines DEF ReportAndStay
<1>. QED  BY InitRefines, CounterInit, TypedAlways, <1>1, <1>2, PTL
          DEF Spec, HandsOutOnce, Handout!Spec

-----------------------------------------------------------------------------
(* What the truth tables cost.                                             *)

(* minimal_sizes has the function of a formula with no more gates. *)
Known(d, a) ==
  RootTableOf[d][a] \in DOMAIN minimalSizes /\ minimalSizes[RootTableOf[d][a]] <= NrGates(d)

Settled(d, a) == NoDuplicate(d, a) => Known(d, a) \/ MayBeSkipped(d, a)

(* A formula that is not to come any more is a duplicate, known, or one    *)
(* that was skipped. *)
GoneThrough ==
  \A d \in Graphs : \A a \in Readings(PossibleOf[d]) : <<d, a>> \notin ToCome => Settled(d, a)

(* What minimal_sizes has on record is a formula the client was given.  It *)
(* is not to come any more, unless the client asked for it again. *)
SizesAttained ==
  \A t \in DOMAIN minimalSizes : \E e \in Graphs : \E b \in Readings(PossibleOf[e]) :
    /\ RootTableOf[e][b] = t /\ minimalSizes[t] = NrGates(e) /\ NoDuplicate(e, b)
    /\ <<e, b>> \in ToCome => <<e, b>> = <<dag, assignment>>

ShownIsFit == pc \in {"update", "report"} => NoDuplicate(dag, assignment)

(* Without requests of the client a graph is left before its end only if   *)
(* it has no formula. *)
Undisturbed ==
  /\ nextTask # "Nothing" => nextTask = "NextDag" /\ pc = "loop" /\ ~Supported(dag)
  /\ pc = "done" => dag = Len(Dags)

LEMMA PairToCome ==
  ASSUME NEW d \in Graphs, NEW a \in Readings(PossibleOf[d])
  PROVE  <<d, a>> \in ToCome <=>
           \/ d > dag
           \/ /\ d = dag
              /\ \/ ShownToCome /\ a = assignment
                 \/ (ShownToCome \/ pc = "report") /\ Before(assignment, a)
<1>1. <<d, a>> \in AllReadings
  BY AllReadingsFacts
<1>. QED  BY <1>1 DEF ToCome

LEMMA SettledStays ==
  ASSUME NEW d, NEW a, Settled(d, a),
         \A t \in DOMAIN minimalSizes : t \in DOMAIN minimalSizes' /\ minimalSizes'[t] = minimalSizes[t]
  PROVE  Settled(d, a)'
BY DEF Settled, Known

(* A step at which nothing comes back and only settled formulas go.        *)
LEMMA NothingGoesUnsettled ==
  ASSUME GoneThrough, SizesAttained, UNCHANGED minimalSizes, ToCome' \subseteq ToCome,
         <<dag, assignment>> \notin ToCome' \/ UNCHANGED <<dag, assignment>>,
         \A d \in Graphs : \A a \in Readings(PossibleOf[d]) :
           <<d, a>> \in ToCome /\ <<d, a>> \notin ToCome' => Settled(d, a)
  PROVE  GoneThrough' /\ SizesAttained'
<1>1. GoneThrough'
  BY SettledStays DEF GoneThrough
<1>2. SizesAttained'
  BY DEF SizesAttained
<1>. QED  BY <1>1, <1>2

(* The counter starts a graph at the first formula. *)
LEMMA NextDagSettles ==
  ASSUME Typed, GoneThrough, SizesAttained, NextDag
  PROVE  GoneThrough' /\ SizesAttained'
<1>1. dag \in Nat /\ dag' = dag + 1 /\ pc' = "loop" /\ pc = "next_dag" /\ Graphs \subseteq Nat
  BY DagAssumption DEF NextDag, Typed, TypeOK, ControlTypeOK, Graphs
<1>2. ASSUME NEW f \in ToCome' PROVE f \in ToCome /\ f # <<dag, assignment>>
  <2>1. f \in AllReadings /\ (f[1] > dag' \/ f[1] = dag')
    BY <1>2 DEF ToCome
  <2>2. f[1] \in Nat
    BY <1>1, <2>1, AllReadingsFacts
  <2>. QED  BY <1>1, <2>1, <2>2 DEF ToCome
<1>3. ASSUME NEW d \in Graphs, NEW a \in Readings(PossibleOf[d]),
             <<d, a>> \in ToCome, <<d, a>> \notin ToCome'
      PROVE  FALSE
  <2>. DEFINE begin == AllBegin(PossibleOf[d])
  <2>1. d > dag
    BY <1>1, <1>3, PairToCome DEF ShownToCome
  <2>2. <<d, a>> \in AllReadings /\ ShownToCome'
    BY <1>1, AllReadingsFacts DEF ShownToCome
  <2>3. ~(d > dag') /\ ~(d = dag' /\ (a = assignment' \/ Before(assignment', a)))
    BY <1>3, <2>2 DEF ToCome
  <2>4. d = dag'
    BY <1>1, <2>1, <2>3
  <2>5. a # begin /\ ~Before(begin, a)
    BY <2>3, <2>4 DEF NextDag
  <2>6. IsWheels(PossibleOf[d]) /\ IsReading(PossibleOf[d], a)
    BY SupportedReadings
  <2>7. DOMAIN PossibleOf[d] \subseteq 0 .. Len(Graph(d)) /\ Len(Graph(d)) \in Nat
    BY PossibleFacts, GraphFacts
  <2>8. Before(a, begin)
    BY <2>5, <2>6, <2>7, ReadingsFacts, BeforeTotal
  <2>. QED  BY <2>6, <2>8, BeginIsFirst
<1>. QED  BY <1>2, <1>3, NothingGoesUnsettled DEF NextDag

(* What a turn at p gives up: the formula it leaves, and formulas with the *)
(* same symbols from p on that come after it.                              *)
LEMMA TurnGivesUp ==
  ASSUME Typed, CounterShows, NEW p \in Nat, Turn(p),
         NEW d \in Graphs, NEW a \in Readings(PossibleOf[d]),
         <<d, a>> \in ToCome, <<d, a>> \notin ToCome'
  PROVE  /\ d = dag /\ AgreeFrom(dag, assignment, a, p)
         /\ \/ pc # "report" /\ a = assignment
            \/ Before(assignment, a)
<1>1. /\ dag \in Graphs /\ dag > 0 /\ Supported(dag) /\ Engaged
      /\ pc' = "flags" /\ dag' = dag /\ dag \in Nat
      /\ pc \in {"loop", "report"} /\ IncreaseStack(p)
  BY EngagedFacts DEF Turn, IncreaseStack, Typed, TypeOK, ControlTypeOK
<1>2. <<d, a>> \in AllReadings
  BY AllReadingsFacts
<1>3. ~(d > dag) /\ ~(d = dag /\ resume' = "loop" /\ (a = assignment' \/ Before(assignment', a)))
  BY <1>1, <1>2 DEF ToCome, ShownToCome
<1>4. d = dag /\ ((pc # "report" /\ a = assignment) \/ Before(assignment, a))
  BY <1>1, <1>3, PairToCome DEF ShownToCome
<1>5. CASE a = assignment
  BY <1>4, <1>5 DEF AgreeFrom
<1>6. CASE Before(assignment, a)
  <2>1. IsWheels(Possible) /\ assignment \in Readings(Possible) /\ a \in Readings(Possible)
    BY <1>1, <1>4, PossibleFacts DEF CounterShows, Possible
  <2>2. assignment' \in Readings(Possible)
    BY <1>1, <2>1, ReadingsFacts DEF IncreaseStack
  <2>3. DOMAIN Possible \subseteq 0 .. Len(Graph(dag)) /\ Len(Graph(dag)) \in Nat
    BY <1>1, PossibleFacts, GraphFacts DEF Possible
  <2>4. resume' = "loop" => Before(a, assignment')
    BY <1>3, <1>4, <2>1, <2>2, <2>3, BeforeTotal
  <2>. QED  BY <1>1, <1>4, <1>6, <2>1, <2>4, TurnLeavesOut
<1>. QED  BY <1>4, <1>5, <1>6

(* A turn that gives up settled formulas only. *)
LEMMA TurnSettles ==
  ASSUME Typed, CounterShows, GoneThrough, SizesAttained, NEW p \in Nat, Turn(p),
         UNCHANGED minimalSizes,
         \A a \in Readings(Possible) :
           /\ AgreeFrom(dag, assignment, a, p)
           /\ ((pc # "report" /\ a = assignment) \/ Before(assignment, a))
           => Settled(dag, a)
  PROVE  GoneThrough' /\ SizesAttained'
<1>1. dag \in Graphs /\ IsWheels(Possible) /\ IsReading(Possible, assignment)
  BY EngagedFacts, PossibleFacts DEF Turn, Possible
<1>2. ToCome' \subseteq ToCome /\ <<dag, assignment>> \notin ToCome'
  BY <1>1, TurnLeaves, BeforeIrreflexive
<1>3. \A d \in Graphs : \A a \in Readings(PossibleOf[d]) :
        <<d, a>> \in ToCome /\ <<d, a>> \notin ToCome' => Settled(d, a)
  BY TurnGivesUp DEF Possible
<1>. QED  BY <1>2, <1>3, NothingGoesUnsettled

LEMMA DuplicatesSettle ==
  ASSUME Typed, CounterShows, GoneThrough, SizesAttained, SkipDuplicate
  PROVE  GoneThrough' /\ SizesAttained'
<1>1. dag \in Graphs
  BY EngagedFacts DEF SkipDuplicate, NoRequest, Engaged
<1>2. PICK p \in Nat, v \in Vertices(G) :
        IncreaseStack(p) /\ p = MinimalIndexOf[dag][v] /\ DuplicateAt(dag, assignment, v)
  BY DuplicateSkip
<1>3. Turn(p) /\ UNCHANGED minimalSizes
  BY <1>2 DEF SkipDuplicate, Turn, Engaged, NoRequest
<1>4. ASSUME NEW a, AgreeFrom(dag, assignment, a, p) PROVE Settled(dag, a)
  <2>1. DuplicateAt(dag, a, v)
    BY <1>1, <1>2, <1>4, DuplicateCarriesOver DEF G
  <2>. QED  BY <1>2, <2>1 DEF Settled, NoDuplicate, G
<1>. QED  BY <1>3, <1>4, TurnSettles

(* What a skip was made for is a reason for every formula it leaves out.   *)
LEMMA ReasonToSkip ==
  ASSUME Typed, CounterShows, SizesAttained, pc = "report",
         NEW p \in Nat, p \in Vertices(G), p # 1, SkipReason(p), NEW a \in Readings(Possible),
         AgreeFrom(dag, assignment, a, p), Before(assignment, a)
  PROVE  MayBeSkipped(dag, a)
<1>. DEFINE f == Simulate(G, assignment)
            h == Simulate(G, a)
            mi == MinimalIndexOf[dag]
            Smaller(v) == \E e \in Graphs : \E b \in Readings(PossibleOf[e]) :
                           /\ RootTableOf[e][b] = h[v] /\ CoiSizeOf[dag][v] > NrGates(e)
                           /\ Earlier(e, b, dag, a) /\ NoDuplicate(e, b)
<1>1. /\ dag \in Graphs /\ dag \in Nat /\ Graphs \subseteq Nat /\ IsWheels(Possible)
      /\ assignment \in Readings(Possible)
      /\ IsReading(Possible, assignment) /\ IsReading(Possible, a)
  BY EngagedFacts, PossibleFacts, ReadingsFacts, DagAssumption
  DEF Engaged, Possible, CounterShows, Graphs
<1>2. p >= 2
  <2>1. p \in 1 .. Len(Graph(dag)) /\ Len(Graph(dag)) \in Nat
    BY <1>1, GraphFacts DEF G
  <2>. QED  BY <2>1
<1>3. InBlock(dag, a, p)
  BY <1>1 DEF InBlock, AgreeFrom, Possible
<1>4. \A v \in Gates(G) : mi[v] \in Nat /\ (p <= mi[v] => h[v] = f[v])
  <2>. TAKE v \in Gates(G)
  <2>1. v \in Vertices(Graph(dag))
    BY DEF Gates, G
  <2>2. MinimalIndexOf[dag][v] \in Nat
    BY <1>1, <2>1, ConeFacts
  <2>3. ASSUME p <= MinimalIndexOf[dag][v]
        PROVE  Simulate(Graph(dag), a)[v] = Simulate(Graph(dag), assignment)[v]
    <3>1. ASSUME NEW u \in Cones(Graph(dag))[v] PROVE a[u] = assignment[u]
      <4>1. u \in Vertices(Graph(dag)) /\ MinimalIndexOf[dag][v] <= u
        BY <1>1, <2>1, ConeFacts
      <4>2. u \in Nat
        BY <1>1, <4>1, GraphFacts
      <4>3. u >= p
        BY <2>2, <2>3, <4>1, <4>2
      <4>. QED  BY <4>1, <4>3 DEF AgreeFrom
    <3>. QED  BY <1>1, <2>1, <3>1, SimulateLocal
  <2>. QED  BY <2>2, <2>3 DEF G
<1>5. PICK v \in Gates(G) :
        /\ p <= mi[v]
        /\ \/ \E s \in Symbols : Arity[s] = 0 /\ NodeOperation(s, <<>>) = f[v]
           \/ \E w \in Gates(G) \ {v} : p <= mi[w] /\ f[w] = f[v]
           \/ f[v] \in DOMAIN minimalSizes /\ CoiSizeOf[dag][v] > minimalSizes[f[v]]
  BY DEF SkipReason
<1>6. NrGates(dag) > 3 /\ h[v] = f[v] /\ p \in 2 .. mi[v]
  BY <1>2, <1>4, <1>5 DEF SkipReason
<1>7. ASSUME f[v] \in DOMAIN minimalSizes, CoiSizeOf[dag][v] > minimalSizes[f[v]]
      PROVE  Smaller(v)
  <2>0. PICK e \in Graphs : \E b \in Readings(PossibleOf[e]) :
          /\ RootTableOf[e][b] = f[v] /\ minimalSizes[f[v]] = NrGates(e) /\ NoDuplicate(e, b)
          /\ <<e, b>> \in ToCome => <<e, b>> = <<dag, assignment>>
    BY <1>7 DEF SizesAttained
  <2>1. PICK b \in Readings(PossibleOf[e]) :
          /\ RootTableOf[e][b] = f[v] /\ minimalSizes[f[v]] = NrGates(e) /\ NoDuplicate(e, b)
          /\ <<e, b>> \in ToCome => <<e, b>> = <<dag, assignment>>
    BY <2>0
  <2>2. Earlier(e, b, dag, a)
    <3>1. CASE e = dag /\ b = assignment
      BY <3>1 DEF Earlier
    <3>2. CASE <<e, b>> \notin ToCome
      <4>1. ~(e > dag) /\ ~(e = dag /\ Before(assignment, b))
        BY <3>2, PairToCome
      <4>2. CASE e = dag
        <5>1. b \in Readings(Possible) /\ IsReading(Possible, b)
          BY <1>1, <4>2, ReadingsFacts DEF Possible
        <5>2. DOMAIN Possible \subseteq 0 .. Len(Graph(dag)) /\ Len(Graph(dag)) \in Nat
          BY <1>1, PossibleFacts, GraphFacts DEF Possible
        <5>3. b = assignment \/ Before(b, assignment)
          BY <1>1, <4>1, <4>2, <5>1, <5>2, BeforeTotal
        <5>4. Before(b, a)
          BY <1>1, <5>1, <5>3, BeforeTransitive
        <5>. QED  BY <4>2, <5>4 DEF Earlier
      <4>3. CASE e # dag
        BY <1>1, <4>1, <4>3 DEF Earlier
      <4>. QED  BY <4>2, <4>3
    <3>. QED  BY <2>1, <3>1, <3>2
  <2>. QED  BY <1>6, <1>7, <2>1, <2>2
<1>8. \/ \E s \in Symbols : Arity[s] = 0 /\ NodeOperation(s, <<>>) = h[v]
      \/ \E w \in Gates(G) \ {v} : p <= mi[w] /\ h[w] = h[v]
      \/ Smaller(v)
  <2>. HIDE DEF f, h, mi, Smaller
  <2>. QED  BY <1>4, <1>5, <1>6, <1>7
<1>. HIDE DEF f, mi
<1>. QED  BY <1>3, <1>6, <1>8 DEF MayBeSkipped, G, mi

LEMMA SkipSettles ==
  ASSUME Typed, CounterShows, SkipsJustified, GoneThrough, SizesAttained, ReportAndSkip
  PROVE  GoneThrough' /\ SizesAttained'
<1>1. PICK p \in Vertices(G) : p \in Nat /\ IncreaseStack(p) /\ (p = 1 \/ SkipReason(p))
  BY RevealedSkip
<1>2. Turn(p) /\ UNCHANGED minimalSizes /\ pc = "report" /\ Engaged
  BY <1>1 DEF ReportAndSkip, Turn, Engaged
<1>3. ASSUME NEW a \in Readings(Possible), AgreeFrom(dag, assignment, a, p), Before(assignment, a)
      PROVE  Settled(dag, a)
  <2>1. p # 1
    BY <1>2, <1>3, OrdinaryTurn
  <2>. QED  BY <1>1, <1>2, <1>3, <2>1, ReasonToSkip DEF Settled
<1>. QED  BY <1>1, <1>2, <1>3, TurnSettles

LEMMA AdvanceSettles ==
  ASSUME Typed, CounterShows, GoneThrough, SizesAttained, ReportAndAdvance
  PROVE  GoneThrough' /\ SizesAttained'
<1>1. Turn(1) /\ UNCHANGED minimalSizes /\ pc = "report" /\ Engaged
  BY DEF ReportAndAdvance, Turn, Engaged
<1>2. \A a : ~(AgreeFrom(dag, assignment, a, 1) /\ Before(assignment, a))
  BY <1>1, OrdinaryTurn
<1>. QED  BY <1>1, <1>2, TurnSettles

(* A graph the client did not ask to leave is left with nothing to come.   *)
LEMMA DropSettles ==
  ASSUME Typed, GoneThrough, SizesAttained, Undisturbed, Finish \/ TakeNextDag
  PROVE  GoneThrough' /\ SizesAttained'
<1>1. Drop /\ UNCHANGED minimalSizes /\ (pc = "next_dag" \/ ~Supported(dag))
  BY DropActions DEF Finish, TakeNextDag, Undisturbed
<1>2. ToCome' \subseteq ToCome
  BY <1>1 DEF Drop, ToCome, ShownToCome
<1>3. ASSUME NEW d \in Graphs, NEW a \in Readings(PossibleOf[d]),
             <<d, a>> \in ToCome, <<d, a>> \notin ToCome'
      PROVE  FALSE
  <2>1. d > dag \/ (d = dag /\ pc # "next_dag")
    BY <1>3, PairToCome DEF ShownToCome
  <2>2. d = dag => Supported(dag)
    BY SupportedReadings
  <2>3. d > dag
    BY <1>1, <2>1, <2>2
  <2>4. <<d, a>> \in AllReadings /\ dag' = dag
    BY <1>1, AllReadingsFacts DEF Drop
  <2>. QED  BY <1>3, <2>3, <2>4 DEF ToCome
<1>. QED  BY <1>1, <1>2, <1>3, NothingGoesUnsettled DEF Drop

(* The function of the formula given to the client is on record with no    *)
(* more gates than it has: sizes are entered by graphs that came before.   *)
LEMMA FinishUpdateSettles ==
  ASSUME GrowingSizes, Typed, CacheCoherent, RootAwaited, CounterShows, GoneThrough,
         SizesAttained, ShownIsFit, FinishUpdate
  PROVE  GoneThrough' /\ SizesAttained'
<1>. DEFINE t == tts[Root(G)]
<1>1. /\ pc = "update" /\ pc' = "report" /\ UNCHANGED <<dag, assignment>>
      /\ minimalSizes' = Emplace(minimalSizes, t, NrGates(dag))
      /\ Engaged /\ toClear = {} /\ Root(G) \in valid
  BY DEF FinishUpdate, Engaged, Typed, RootAwaited
<1>2. /\ dag \in Graphs /\ dag \in Nat /\ Graphs \subseteq Nat /\ NrGates(dag) \in Nat
      /\ assignment \in Readings(PossibleOf[dag])
      /\ NoDuplicate(dag, assignment)
  <2>1. dag \in Graphs /\ dag > 0 /\ Supported(dag)
    BY <1>1, EngagedFacts
  <2>2. Graphs \subseteq Nat
    BY DagAssumption DEF Graphs
  <2>3. NrGates(dag) \in Nat
    BY <2>1, GraphFacts
  <2>. QED  BY <1>1, <2>1, <2>2, <2>3 DEF CounterShows, Possible, ShownIsFit
<1>3. t = RootTableOf[dag][assignment]
  <2>1. t = Simulate(G, assignment)[Root(G)]
    BY <1>1, CoherentIsSimulated
  <2>. QED  BY <1>2, <2>1 DEF RootTableOf, G
<1>4. \A x \in DOMAIN minimalSizes : x \in DOMAIN minimalSizes' /\ minimalSizes'[x] = minimalSizes[x]
  BY <1>1 DEF Emplace
<1>5. /\ DOMAIN minimalSizes' = DOMAIN minimalSizes \cup {t}
      /\ t \notin DOMAIN minimalSizes => minimalSizes'[t] = NrGates(dag)
  BY <1>1 DEF Emplace
<1>6. ASSUME NEW d \in Graphs, NEW a \in Readings(PossibleOf[d])
      PROVE  <<d, a>> \in ToCome' <=> <<d, a>> \in ToCome /\ <<d, a>> # <<dag, assignment>>
  <2>1. <<d, a>> \in AllReadings
    BY AllReadingsFacts
  <2>2. ~Before(assignment, assignment)
    BY <1>1, ShownFacts
  <2>. QED  BY <1>1, <1>2, <2>1, <2>2 DEF ToCome, ShownToCome
<1>7. Known(dag, assignment)'
  <2>1. CASE t \in DOMAIN minimalSizes
    <3>1. PICK e \in Graphs :
            /\ minimalSizes[t] = NrGates(e)
            /\ \E b \in Readings(PossibleOf[e]) : <<e, b>> \in ToCome => <<e, b>> = <<dag, assignment>>
      BY <2>1 DEF SizesAttained
    <3>2. e <= dag
      BY <1>2, <3>1, PairToCome
    <3>3. NrGates(e) <= NrGates(dag)
      BY <1>2, <3>2 DEF GrowingSizes
    <3>. QED  BY <1>1, <1>3, <1>4, <2>1, <3>1, <3>3 DEF Known
  <2>2. CASE t \notin DOMAIN minimalSizes
    BY <1>1, <1>2, <1>3, <1>5, <2>2 DEF Known
  <2>. QED  BY <2>1, <2>2
<1>8. GoneThrough'
  <2>. SUFFICES ASSUME NEW d \in Graphs, NEW a \in Readings(PossibleOf[d]),
                       <<d, a>> \notin ToCome'
                PROVE  Settled(d, a)'
    BY DEF GoneThrough
  <2>1. CASE <<d, a>> \notin ToCome
    BY <1>4, <2>1, SettledStays DEF GoneThrough
  <2>2. CASE d = dag /\ a = assignment
    BY <1>1, <1>7, <2>2 DEF Settled, Known
  <2>. QED  BY <1>6, <2>1, <2>2
<1>9. SizesAttained'
  <2>. SUFFICES ASSUME NEW x \in DOMAIN minimalSizes'
                PROVE  \E e \in Graphs : \E b \in Readings(PossibleOf[e]) :
                         /\ RootTableOf[e][b] = x /\ minimalSizes'[x] = NrGates(e)
                         /\ NoDuplicate(e, b)
                         /\ <<e, b>> \in ToCome' => <<e, b>> = <<dag', assignment'>>
    BY DEF SizesAttained
  <2>1. CASE x \in DOMAIN minimalSizes
    <3>1. PICK e \in Graphs : \E b \in Readings(PossibleOf[e]) :
            /\ RootTableOf[e][b] = x /\ minimalSizes[x] = NrGates(e) /\ NoDuplicate(e, b)
            /\ <<e, b>> \in ToCome => <<e, b>> = <<dag, assignment>>
      BY <2>1 DEF SizesAttained
    <3>. QED  BY <1>4, <1>6, <2>1, <3>1
  <2>2. CASE x = t /\ x \notin DOMAIN minimalSizes
    <3>1. RootTableOf[dag][assignment] = x /\ minimalSizes'[x] = NrGates(dag)
      BY <1>3, <1>5, <2>2
    <3>. QED  BY <1>2, <1>6, <3>1
  <2>. QED  BY <1>5, <2>1, <2>2
<1>. QED  BY <1>8, <1>9

(* A formula that comes again stays settled. *)
LEMMA StaySettles ==
  ASSUME Typed, CounterShows, GoneThrough, SizesAttained, ReportAndStay
  PROVE  GoneThrough' /\ SizesAttained'
<1>1. /\ pc = "report" /\ pc' = "loop" /\ UNCHANGED <<dag, assignment, minimalSizes>>
      /\ Engaged
  BY DEF ReportAndStay, Engaged
<1>2. dag \in Nat /\ Graphs \subseteq Nat
  BY DagAssumption DEF Typed, TypeOK, ControlTypeOK, Graphs
<1>3. ASSUME NEW d \in Graphs, NEW a \in Readings(PossibleOf[d])
      PROVE  <<d, a>> \in ToCome' => <<d, a>> \in ToCome \/ <<d, a>> = <<dag, assignment>>
  BY <1>1, PairToCome DEF ToCome, ShownToCome
<1>4. \A d \in Graphs : \A a \in Readings(PossibleOf[d]) :
        <<d, a>> \in ToCome => <<d, a>> \in ToCome'
  <2>. SUFFICES ASSUME NEW d \in Graphs, NEW a \in Readings(PossibleOf[d]), <<d, a>> \in ToCome
                PROVE  <<d, a>> \in ToCome'
    OBVIOUS
  <2>1. <<d, a>> \in AllReadings /\ (d > dag \/ (d = dag /\ Before(assignment, a)))
    BY <1>1, PairToCome, AllReadingsFacts DEF ShownToCome
  <2>. QED  BY <1>1, <2>1 DEF ToCome, ShownToCome
<1>5. GoneThrough'
  BY <1>1, <1>4, SettledStays DEF GoneThrough
<1>6. SizesAttained'
  BY <1>1, <1>3 DEF SizesAttained
<1>. QED  BY <1>5, <1>6

(* The other steps neither give up a formula nor enter a size. *)
LEMMA StillSettles ==
  ASSUME GoneThrough, SizesAttained, Still, UNCHANGED minimalSizes
  PROVE  GoneThrough' /\ SizesAttained'
<1>1. ToCome' = ToCome
  <2>1. ShownToCome' = ShownToCome /\ (pc' = "report" <=> pc = "report")
    BY DEF Still, ShownToCome
  <2>. QED  BY <2>1 DEF Still, ToCome
<1>2. UNCHANGED <<dag, assignment>>
  BY DEF Still
<1>. QED  BY <1>1, <1>2, NothingGoesUnsettled

LEMMA SettledStep ==
  ASSUME GrowingSizes, PatientClient, Typed, CacheCoherent, RootAwaited, SkipsJustified,
         CounterShows, GoneThrough, SizesAttained, ShownIsFit, Undisturbed, [Next]_vars
  PROVE  GoneThrough' /\ SizesAttained'
<1>1. ~TakeNextAssignment /\ ~TakeStopEnumeration /\ ~ReportAndLeave
  BY DEF TakeNextAssignment, TakeStopEnumeration, ReportAndLeave, Undisturbed, PatientClient
<1>2. CASE StartUpdate \/ Descend \/ EvaluateLeaf \/ EvaluateGate \/ SetFlags
             \/ Terminated \/ UNCHANGED vars
  <2>1. UNCHANGED minimalSizes
    BY <1>2 DEF StartUpdate, Descend, EvaluateLeaf, EvaluateGate, SetFlags, Terminated, vars
  <2>. QED  BY <1>2, <2>1, StillActions, StillSettles
<1>3. CASE NextDag \/ SkipDuplicate \/ ReportAndSkip \/ ReportAndAdvance
  BY <1>3, NextDagSettles, DuplicatesSettle, SkipSettles, AdvanceSettles
<1>4. CASE Finish \/ TakeNextDag \/ FinishUpdate \/ ReportAndStay
  BY <1>4, DropSettles, FinishUpdateSettles, StaySettles
<1>. QED  BY <1>1, <1>2, <1>3, <1>4 DEF Next, Update, Report

LEMMA FitStep ==
  ASSUME Typed, ShownIsFit, [Next]_vars
  PROVE  ShownIsFit'
<1>1. CASE StartUpdate
  <2>1. DuplicateIndexes = {} /\ UNCHANGED <<dag, assignment>>
    BY <1>1 DEF StartUpdate
  <2>2. NoDuplicate(dag, assignment)
    BY <2>1 DEF DuplicateIndexes, NoDuplicate, G
  <2>. QED  BY <2>1, <2>2 DEF ShownIsFit
<1>2. CASE Descend \/ EvaluateLeaf \/ EvaluateGate \/ FinishUpdate \/ Terminated \/ UNCHANGED vars
  BY <1>2 DEF Descend, EvaluateLeaf, EvaluateGate, FinishUpdate, Terminated, vars, ShownIsFit
<1>3. ASSUME pc' \notin {"update", "report"} PROVE ShownIsFit'
  BY <1>3 DEF ShownIsFit
<1>4. CASE NextDag \/ Finish \/ TakeNextDag \/ TakeNextAssignment \/ TakeStopEnumeration
  BY <1>3, <1>4 DEF NextDag, Finish, TakeNextDag, TakeNextAssignment, TakeStopEnumeration,
     IncreaseStack
<1>5. CASE SkipDuplicate \/ Report \/ SetFlags
  <2>1. resume \in {"loop", "next_dag"}
    BY DEF Typed, TypeOK, ControlTypeOK
  <2>. QED  BY <1>3, <1>5, <2>1 DEF SkipDuplicate, Report, ReportAndSkip, ReportAndStay,
            ReportAndLeave, ReportAndAdvance, SetFlags, IncreaseStack
<1>. QED  BY <1>1, <1>2, <1>4, <1>5 DEF Next, Update

LEMMA UndisturbedStep ==
  ASSUME PatientClient, Typed, Undisturbed, [Next]_vars
  PROVE  Undisturbed'
<1>1. CASE NextDag
  <2>1. pc' = "loop" /\ nextTask = "Nothing"
    BY <1>1 DEF NextDag, Undisturbed
  <2>2. nextTask' # "Nothing" => nextTask' = "NextDag" /\ ~Supported(dag')
    BY <1>1, <2>1 DEF NextDag, Supported
  <2>. QED  BY <2>1, <2>2 DEF Undisturbed, Supported
<1>2. ASSUME nextTask' = "Nothing", pc' # "done" PROVE Undisturbed'
  BY <1>2 DEF Undisturbed
<1>3. CASE TakeNextDag \/ TakeNextAssignment \/ TakeStopEnumeration \/ SkipDuplicate
  BY <1>2, <1>3 DEF TakeNextDag, TakeNextAssignment, TakeStopEnumeration, SkipDuplicate,
     IncreaseStack
<1>4. CASE Report
  BY <1>2, <1>4 DEF Report, ReportAndSkip, ReportAndStay, ReportAndLeave, ReportAndAdvance,
     IncreaseStack, PatientClient
<1>5. CASE StartUpdate \/ Update \/ SetFlags
  <2>1. resume \in {"loop", "next_dag"}
    BY DEF Typed, TypeOK, ControlTypeOK
  <2>2. nextTask = "Nothing"
    BY <1>5 DEF StartUpdate, NoRequest, Update, Descend, EvaluateLeaf, EvaluateGate,
       FinishUpdate, SetFlags, Undisturbed
  <2>. QED  BY <1>2, <1>5, <2>1, <2>2 DEF StartUpdate, Update, Descend, EvaluateLeaf,
            EvaluateGate, FinishUpdate, SetFlags
<1>6. CASE Finish
  BY <1>6 DEF Finish, Undisturbed
<1>7. CASE Terminated \/ UNCHANGED vars
  BY <1>7 DEF Terminated, vars, Undisturbed, Supported
<1>. QED  BY <1>1, <1>3, <1>4, <1>5, <1>6, <1>7 DEF Next

(* When the enumeration is over no formula is to come.  The first formula  *)
(* whose function were not known would have been skipped, hence have an    *)
(* earlier one of the same function and no more gates. *)
LEMMA SettledSuffices ==
  ASSUME GrowingSizes, Replaceable, Typed, GoneThrough, Undisturbed
  PROVE  PruningLosesNothing
<1>. DEFINE Lost(d, a) == NoDuplicate(d, a) /\ ~Known(d, a)
            lost(d) == {a \in Readings(PossibleOf[d]) : Lost(d, a)}
            incomplete == {d \in Graphs : lost(d) # {}}
<1>. SUFFICES ASSUME pc = "done"
              PROVE  \A d \in Graphs :
                       CoveredBySizes(d, {a \in Readings(PossibleOf[d]) : NoDuplicate(d, a)})
  BY DEF PruningLosesNothing
<1>1. Graphs = 1 .. Len(Dags) /\ Len(Dags) \in Nat /\ dag = Len(Dags)
  BY DagAssumption DEF Graphs, Undisturbed
<1>2. ASSUME NEW d \in Graphs, NEW a \in Readings(PossibleOf[d])
      PROVE  Settled(d, a)
  <2>1. <<d, a>> \notin ToCome
    BY <1>1, PairToCome DEF ShownToCome
  <2>. QED  BY <2>1 DEF GoneThrough
<1>3. incomplete = {}
  <2>. SUFFICES ASSUME incomplete # {} PROVE FALSE
    OBVIOUS
  <2>. HIDE DEF Lost
  <2>1. PICK d \in incomplete : \A e \in incomplete : d <= e
    <3>1. incomplete \subseteq Nat
      BY <1>1
    <3>. HIDE DEF incomplete
    <3>. QED  BY <3>1, MinOfNaturals
  <2>2. d \in Graphs /\ d \in Nat
    BY <1>1
  <2>3. PICK a \in lost(d) : \A b \in lost(d) : ~Before(b, a)
    <3>1. IsWheels(PossibleOf[d]) /\ lost(d) \subseteq Readings(PossibleOf[d]) /\ lost(d) # {}
      BY <2>1, <2>2, SupportedReadings
    <3>2. DOMAIN PossibleOf[d] \subseteq 1 .. Len(Graph(d)) /\ Len(Graph(d)) \in Nat
      BY <2>2, PossibleFacts, GraphFacts
    <3>. HIDE DEF lost
    <3>. QED  BY <3>1, <3>2, BeforeHasLeast
  <2>4. a \in Readings(PossibleOf[d]) /\ NoDuplicate(d, a) /\ ~Known(d, a)
    BY <2>3 DEF Lost
  <2>5. MayBeSkipped(d, a)
    BY <1>2, <2>2, <2>4 DEF Settled
  <2>6. PICK e \in Graphs : \E b \in Readings(PossibleOf[e]) :
          Earlier(e, b, d, a) /\ NoDuplicate(e, b) /\ RootTableOf[e][b] = RootTableOf[d][a]
    BY <2>2, <2>4, <2>5 DEF Replaceable
  <2>7. PICK b \in Readings(PossibleOf[e]) :
          Earlier(e, b, d, a) /\ NoDuplicate(e, b) /\ RootTableOf[e][b] = RootTableOf[d][a]
    BY <2>6
  <2>8. e \in Nat /\ (e < d \/ (e = d /\ Before(b, a)))
    BY <1>1, <2>7 DEF Earlier
  <2>9. Known(e, b)
    <3>. SUFFICES ASSUME ~Known(e, b) PROVE FALSE
      OBVIOUS
    <3>1. b \in lost(e)
      BY <2>7 DEF Lost
    <3>2. e \in incomplete
      BY <3>1
    <3>3. e = d /\ Before(b, a)
      BY <2>1, <2>2, <2>8, <3>2
    <3>. QED  BY <2>3, <3>1, <3>3
  <2>10. NrGates(e) <= NrGates(d) /\ NrGates(e) \in Nat /\ NrGates(d) \in Nat
    BY <2>2, <2>8, GraphFacts DEF GrowingSizes
  <2>11. minimalSizes[RootTableOf[d][a]] \in Nat
    <3>1. PICK c \in Graphs : minimalSizes[RootTableOf[d][a]] = NrGates(c)
      BY <2>7, <2>9 DEF Known, Typed, TypeOK, SizesTypeOK
    <3>. QED  BY <3>1, GraphFacts
  <2>12. Known(d, a)
    BY <2>7, <2>9, <2>10, <2>11 DEF Known
  <2>. QED  BY <2>4, <2>12
<1>4. ASSUME NEW d \in Graphs, NEW a \in Readings(PossibleOf[d]), NoDuplicate(d, a)
      PROVE  Known(d, a)
  BY <1>3, <1>4
<1>5. ASSUME NEW d \in Graphs, NEW a \in Readings(PossibleOf[d]), NoDuplicate(d, a)
      PROVE  /\ Simulate(Graph(d), a)[Root(Graph(d))] \in DOMAIN minimalSizes
             /\ minimalSizes[Simulate(Graph(d), a)[Root(Graph(d))]] <= NrGates(d)
  <2>1. RootTableOf[d][a] = Simulate(Graph(d), a)[Root(Graph(d))]
    BY DEF RootTableOf
  <2>. QED  BY <1>4, <1>5, <2>1 DEF Known
<1>. QED  BY <1>5 DEF CoveredBySizes

(* With a client that asks for nothing but repetitions, graphs in the      *)
(* order of their gates whose roots reach the first vertex, and a grammar  *)
(* for which what may be skipped can be replaced, the truth tables make    *)
(* the engine jump over no function and no smaller size: when it is done,  *)
(* every formula that is no syntactic duplicate computes a function that   *)
(* minimal_sizes has with no more gates. *)
THEOREM NothingIsLost ==
  ASSUME PatientClient, GrowingSizes, RootReachesFirst, Replaceable
  PROVE  Spec => []PruningLosesNothing
<1>. DEFINE Inv == GoneThrough /\ SizesAttained /\ ShownIsFit /\ Undisturbed /\ CounterShows
<1>1. Init => Inv
  <2>. SUFFICES ASSUME Init PROVE Inv
    OBVIOUS
  <2>1. GoneThrough
    <3>1. \A d \in Graphs : d > 0
      BY DagAssumption DEF Graphs
    <3>. QED  BY <3>1, PairToCome DEF Init, GoneThrough
  <2>. QED  BY <2>1, CounterInit DEF Init, SizesAttained, EmptyMap, ShownIsFit, Undisturbed
<1>2. Typed /\ CacheCoherent /\ RootAwaited /\ SkipsJustified /\ Inv /\ [Next]_vars => Inv'
  BY SettledStep, FitStep, UndisturbedStep, CounterStep
<1>3. Typed /\ Inv => PruningLosesNothing
  BY SettledSuffices
<1>. QED  BY <1>1, <1>2, <1>3, TypedAlways, CacheStaysCoherent, RootAwaitedAlways,
          JustifiedAlways, PTL DEF Spec
=============================================================================
