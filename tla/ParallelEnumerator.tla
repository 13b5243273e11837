------------------------- MODULE ParallelEnumerator -------------------------
(***************************************************************************)
(* partial_dag_enumerator_parallel::enumerate_aig_pre_enumeration: worker  *)
(* threads that share one assignment counter.  Under ca_mutex a worker     *)
(* turns the counter and copies what it shows; without the lock it tests   *)
(* its copy, hands the formula to the callback and files what it learnt.   *)
(* A worker whose copy turned out to be a duplicate asks, at its next turn *)
(* of the lock, for a jump over the assignments that repeat it.            *)
(*                                                                         *)
(* A critical section is one step, since everything it touches is guarded  *)
(* by its mutex, with one exception: current_pdag is also read without the *)
(* lock (FileDuplicate).  Vertices and symbols are numbered from 1.        *)
(***************************************************************************)
EXTENDS Grammar, Odometer

CONSTANTS
  Workers,    \* the threads
  Dags,       \* store.pdags: the graphs, with their input vertices
  SameGate,   \* symbols with the attribute same_gate_exists
  Pattern,    \* subgraphs[1], the structure whose duplicates are accumulated
  Goals       \* the functions a client may look for

Graphs == DOMAIN Dags

ASSUME DagsAssumption ==
  /\ Dags \in Seq(Seq(Seq(Nat))) /\ Len(Dags) > 0
  /\ \A d \in Graphs :
       /\ Len(Dags[d]) > 0
       /\ \A v \in Vertices(Dags[d]) : \A k \in DOMAIN Dags[d][v] : Dags[d][v][k] < v

(* initialize() throws "Unsupported structure!" otherwise. *)
ASSUME SupportedAssumption ==
  \A d \in Graphs : \A v \in Vertices(Dags[d]) : PossibleAssignments(Dags[d])[v] # {}

PossibleOf == [d \in Graphs |-> PossibleAssignments(Dags[d])]

Formulas(d) == Readings(PossibleOf[d])

(* The function of every formula: what the callback's second result names. *)
RootTableOf ==
  [d \in Graphs |-> [a \in Formulas(d) |-> Simulate(Dags[d], a)[Root(Dags[d])]]]

(* What duplicate_accumulation counts as the size of a graph. *)
SizeOf == [d \in Graphs |-> Cardinality(Gates(Dags[d]))]

(* A set of vertices as the code keeps it, in ascending order. *)
Ascending(S) ==
  [k \in 1 .. Cardinality(S) |-> CHOOSE v \in S : Cardinality({u \in S : u <= v}) = k]

(* get_subgraph: the cone of v with its vertices renumbered. *)
Subgraph(g, v) ==
  LET cone == Ascending(Cones(g)[v])
      rank(u) == IF u = 0 THEN 0 ELSE Cardinality({k \in DOMAIN cone : cone[k] <= u})
  IN  [k \in DOMAIN cone |-> [i \in DOMAIN g[cone[k]] |-> rank(g[cone[k]][i])]]

(* positions_in_current_assignment: where below the root the pattern       *)
(* occurs, the occurrences with the highest vertex first.                  *)
PositionsOf ==
  [d \in Graphs |->
     LET g == Dags[d]
         tops == {v \in Vertices(g) \ {Root(g)} : Subgraph(g, v) = Pattern}
         descending == Reverse(Ascending(tops))
     IN  [k \in DOMAIN descending |-> Ascending(Cones(g)[descending[k]])]]

(* store.accumulate *)
Accumulates(d) == Dags[d] = Pattern

VARIABLES
  goal,            \* the function for which the callback answers true
  currentPdag,     \* store.current_pdag
  counter,         \* store.current_assignments, one counter per graph
  duplicated,      \* store.duplicated_assignments, one set per graph
  minimalSizes,    \* store.minimal_sizes: function -> size
  stop,            \* stop_enumeration
  dot, solution,   \* the formula drawn, and described, as the solution
  pc,              \* where each worker stands
  pdagIndex,       \* thread_store.pdag_index (and thread_store.pdag)
  held,            \* thread_store.current_assignment
  nextTask,        \* thread_store.next_task
  increaseAt       \* thread_store.increase_at_position; 1 doubles as "none"

storeVars == <<currentPdag, counter>>
resultVars == <<dot, solution>>
threadVars == <<pdagIndex, held, nextTask, increaseAt>>
vars == <<goal, storeVars, duplicated, minimalSizes, stop, resultVars, pc, threadVars>>

EmptyMap == [t \in {} |-> 0]

(* What the strings may hold that is no formula. *)
Unset == <<0, <<>>>>
Garbled == <<-1, <<>>>>

Init ==
  /\ goal \in Goals
  /\ currentPdag = 1 /\ counter = [d \in Graphs |-> AllBegin(PossibleOf[d])]
  /\ duplicated = [d \in Graphs |-> {}] /\ minimalSizes = EmptyMap
  /\ stop = FALSE /\ dot = Unset /\ solution = Unset
  /\ pc = [w \in Workers |-> "top"]
  /\ pdagIndex = [w \in Workers |-> 1] /\ held = [w \in Workers |-> <<>>]
  /\ nextTask = [w \in Workers |-> "Nothing"] /\ increaseAt = [w \in Workers |-> 1]

GoTo(w, label) == pc' = [pc EXCEPT ![w] = label]

-----------------------------------------------------------------------------
(* The head of the worker's loop. *)
Leave(w) ==
  /\ pc[w] = "top" /\ stop
  /\ GoTo(w, "exited")
  /\ UNCHANGED <<goal, storeVars, duplicated, minimalSizes, stop, resultVars, threadVars>>

WaitForCounter(w) ==
  /\ pc[w] = "top" /\ ~stop
  /\ GoTo(w, "fetch")
  /\ UNCHANGED <<goal, storeVars, duplicated, minimalSizes, stop, resultVars, threadVars>>

WantsSkip(w) == nextTask[w] = "IncreaseAtPosition"

(* "somebody already increased past this point": another graph, or another *)
(* symbol at the one position the jump is for.                             *)
Overtaken(w) ==
  \/ pdagIndex[w] # currentPdag
  \/ held[w][increaseAt[w]] # counter[currentPdag][increaseAt[w]]

(* The jump is given up; increase_at_position keeps its value. *)
AbandonSkip(w) ==
  /\ pc[w] = "fetch" /\ WantsSkip(w) /\ Overtaken(w)
  /\ nextTask' = [nextTask EXCEPT ![w] = "Nothing"]
  /\ GoTo(w, "top")
  /\ UNCHANGED <<goal, storeVars, duplicated, minimalSizes, stop, resultVars,
                 pdagIndex, held, increaseAt>>

(* increase_stack_at_position for a jump, increase_stack otherwise. *)
TurnsAt(w) == IF WantsSkip(w) THEN increaseAt[w] ELSE 1

MayTurn(w) == pc[w] = "fetch" /\ ~(WantsSkip(w) /\ Overtaken(w))

(* A jump uses its position up, an ordinary step leaves it. *)
ConsumeTask(w) ==
  /\ nextTask' = [nextTask EXCEPT ![w] = "Nothing"]
  /\ increaseAt' = IF WantsSkip(w) THEN [increaseAt EXCEPT ![w] = 1] ELSE increaseAt

(* Mutant: thread_store.pdag_index is not brought up to date. *)
MutTake(w, d, a) ==
  /\ held' = [held EXCEPT ![w] = a]
  /\ GoTo(w, "evaluate")
  /\ UNCHANGED pdagIndex

Take(w, d, a) ==
  /\ pdagIndex' = [pdagIndex EXCEPT ![w] = d]
  /\ held' = [held EXCEPT ![w] = a]
  /\ GoTo(w, "evaluate")

(* Mutant: the counter is copied before it is turned. *)
MutTurnCounter(w) ==
  /\ MayTurn(w)
  /\ Turns(PossibleOf[currentPdag], counter[currentPdag], TurnsAt(w))
  /\ counter' = [counter EXCEPT ![currentPdag] =
                   IncreaseAt(PossibleOf[currentPdag], @, TurnsAt(w))]
  /\ Take(w, currentPdag, counter[currentPdag])
  /\ ConsumeTask(w)
  /\ UNCHANGED <<goal, currentPdag, duplicated, minimalSizes, stop, resultVars>>

TurnCounter(w) ==
  /\ MayTurn(w)
  /\ Turns(PossibleOf[currentPdag], counter[currentPdag], TurnsAt(w))
  /\ counter' = [counter EXCEPT ![currentPdag] =
                   IncreaseAt(PossibleOf[currentPdag], @, TurnsAt(w))]
  /\ Take(w, currentPdag, counter'[currentPdag])
  /\ ConsumeTask(w)
  /\ UNCHANGED <<goal, currentPdag, duplicated, minimalSizes, stop, resultVars>>

(* The graph is exhausted: its counter has wrapped around, and the worker  *)
(* takes the next graph at its very first assignment.                      *)
NextGraph(w) ==
  /\ MayTurn(w)
  /\ ~Turns(PossibleOf[currentPdag], counter[currentPdag], TurnsAt(w))
  /\ currentPdag < Len(Dags)
  /\ counter' = [counter EXCEPT ![currentPdag] = AllBegin(PossibleOf[currentPdag])]
  /\ currentPdag' = currentPdag + 1
  /\ Take(w, currentPdag', counter[currentPdag'])
  /\ ConsumeTask(w)
  /\ UNCHANGED <<goal, duplicated, minimalSizes, stop, resultVars>>

(* Mutant: the worker that exhausts the last graph goes on. *)
MutExhaust(w) ==
  /\ MayTurn(w)
  /\ ~Turns(PossibleOf[currentPdag], counter[currentPdag], TurnsAt(w))
  /\ currentPdag = Len(Dags)
  /\ counter' = [counter EXCEPT ![currentPdag] = AllBegin(PossibleOf[currentPdag])]
  /\ Take(w, currentPdag, counter'[currentPdag])
  /\ ConsumeTask(w)
  /\ UNCHANGED <<goal, currentPdag, duplicated, minimalSizes, stop, resultVars>>

(* So is the last graph; the counter stays wrapped around. *)
Exhaust(w) ==
  /\ MayTurn(w)
  /\ ~Turns(PossibleOf[currentPdag], counter[currentPdag], TurnsAt(w))
  /\ currentPdag = Len(Dags)
  /\ counter' = [counter EXCEPT ![currentPdag] = AllBegin(PossibleOf[currentPdag])]
  /\ stop' = TRUE
  /\ GoTo(w, "exited")
  /\ ConsumeTask(w)
  /\ UNCHANGED <<goal, currentPdag, duplicated, minimalSizes, resultVars, pdagIndex, held>>

-----------------------------------------------------------------------------
(* formula_is_duplicate, from the root down: the first vertex that fails a *)
(* test decides.                                                           *)
SameInputs(g, a, v) ==
  /\ a[v] \in SameGate /\ LeafInputs(g, v) = DOMAIN g[v]
  /\ \E u \in Vertices(g) :
       /\ u > v /\ a[u] = a[v] /\ LeafInputs(g, u) = DOMAIN g[u]
       /\ \A k \in DOMAIN g[v] : a[g[u][k]] = a[g[v][k]]

DuplicateVertices(g, a) ==
  {v \in Vertices(g) : \/ SwappedInputs(g, a, v)
                       \/ SameInputs(g, a, v)
                       \/ RepeatedInput(g, a, v)}

DuplicateVerticesOf ==
  [d \in Graphs |-> [a \in Formulas(d) |-> DuplicateVertices(Dags[d], a)]]

(* Mutant: the fanin is taken for the index of its vertex. *)
MutVertexPosition(g, a, v) == Max(Fanins(g, v)) + 1

(* positions[1] after sorting, respectively the least of the positions. *)
VertexPosition(g, a, v) ==
  IF ~SwappedInputs(g, a, v) /\ SameInputs(g, a, v)
  THEN Min(Fanins(g, v)) ELSE Max(Fanins(g, v))

(* duplicate_accumulation_check: the occurrences of the pattern in w's     *)
(* graph whose symbols are on file for that graph.                         *)
FiledOccurrences(d, a) ==
  {k \in DOMAIN PositionsOf[d] :
     [i \in DOMAIN PositionsOf[d][k] |-> a[PositionsOf[d][k][i]]] \in duplicated[d]}

IsDuplicate(d, a) == DuplicateVerticesOf[d][a] # {} \/ FiledOccurrences(d, a) # {}

DuplicatePosition(d, a) ==
  IF DuplicateVerticesOf[d][a] # {}
  THEN VertexPosition(Dags[d], a, Max(DuplicateVerticesOf[d][a]))
  ELSE PositionsOf[d][Min(FiledOccurrences(d, a))][1]

FunctionOf(w) == RootTableOf[pdagIndex[w]][held[w]]

(* The end of the loop body: a position other than the first becomes a     *)
(* request, whether this formula set it or an earlier one did.             *)
EndOfBody(w, position) ==
  /\ increaseAt' = [increaseAt EXCEPT ![w] = position]
  /\ nextTask' = [nextTask EXCEPT ![w] =
                    IF position = 1 THEN "Nothing" ELSE "IncreaseAtPosition"]
  /\ GoTo(w, "top")

RejectDuplicate(w) ==
  /\ pc[w] = "evaluate" /\ IsDuplicate(pdagIndex[w], held[w])
  /\ EndOfBody(w, DuplicatePosition(pdagIndex[w], held[w]))
  /\ UNCHANGED <<goal, storeVars, duplicated, minimalSizes, stop, resultVars, pdagIndex, held>>

(* The callback answers false or true. *)
CallbackMisses(w) ==
  /\ pc[w] = "evaluate" /\ ~IsDuplicate(pdagIndex[w], held[w])
  /\ FunctionOf(w) # goal
  /\ GoTo(w, "accumulate")
  /\ UNCHANGED <<goal, storeVars, duplicated, minimalSizes, stop, resultVars, threadVars>>

CallbackFinds(w) ==
  /\ pc[w] = "evaluate" /\ ~IsDuplicate(pdagIndex[w], held[w])
  /\ FunctionOf(w) = goal
  /\ stop' = TRUE
  /\ GoTo(w, "draw")
  /\ UNCHANGED <<goal, storeVars, duplicated, minimalSizes, resultVars, threadVars>>

(* The strings are members of the enumerator that every finder assigns,   *)
(* without a lock: two that do so at once may leave anything behind.       *)
Assigned(w, string, label) ==
  IF string = Garbled THEN {Garbled}
  ELSE {<<pdagIndex[w], held[w]>>}
         \cup (IF \E u \in Workers \ {w} : pc[u] = label THEN {Garbled} ELSE {})

(* Mutant: the shared counter is drawn instead of the worker's copy. *)
MutWriteDot(w) ==
  /\ pc[w] = "draw"
  /\ dot' = <<currentPdag, counter[currentPdag]>>
  /\ GoTo(w, "describe")
  /\ UNCHANGED <<goal, storeVars, duplicated, minimalSizes, stop, solution, threadVars>>

WriteDot(w) ==
  /\ pc[w] = "draw"
  /\ dot' \in Assigned(w, dot, "draw")
  /\ GoTo(w, "describe")
  /\ UNCHANGED <<goal, storeVars, duplicated, minimalSizes, stop, solution, threadVars>>

WriteSolution(w) ==
  /\ pc[w] = "describe"
  /\ solution' \in Assigned(w, solution, "describe")
  /\ GoTo(w, "accumulate")
  /\ UNCHANGED <<goal, storeVars, duplicated, minimalSizes, stop, dot, threadVars>>

(* Mutant: the size entered counts the inputs as well. *)
MutEnterFunction(w) ==
  /\ pc[w] = "accumulate" /\ FunctionOf(w) \notin DOMAIN minimalSizes
  /\ minimalSizes' = [f \in DOMAIN minimalSizes \cup {FunctionOf(w)} |->
                        IF f = FunctionOf(w) THEN Len(Dags[pdagIndex[w]]) ELSE minimalSizes[f]]
  /\ EndOfBody(w, increaseAt[w])
  /\ UNCHANGED <<goal, storeVars, duplicated, stop, resultVars, pdagIndex, held>>

(* duplicate_accumulation.  Under ms_mutex a function not met before is    *)
(* entered; entries never change, so what is read of them afterwards       *)
(* without the lock is what the lock showed.                               *)
EnterFunction(w) ==
  /\ pc[w] = "accumulate" /\ FunctionOf(w) \notin DOMAIN minimalSizes
  /\ minimalSizes' = [f \in DOMAIN minimalSizes \cup {FunctionOf(w)} |->
                        IF f = FunctionOf(w) THEN SizeOf[pdagIndex[w]] ELSE minimalSizes[f]]
  /\ EndOfBody(w, increaseAt[w])
  /\ UNCHANGED <<goal, storeVars, duplicated, stop, resultVars, pdagIndex, held>>

KnownFunction(w) == pc[w] = "accumulate" /\ FunctionOf(w) \in DOMAIN minimalSizes

(* Mutant: formulas of every structure are filed. *)
MutWorthFiling(w) == minimalSizes[FunctionOf(w)] # SizeOf[pdagIndex[w]]

WorthFiling(w) ==
  minimalSizes[FunctionOf(w)] # SizeOf[pdagIndex[w]] /\ Accumulates(pdagIndex[w])

PassOver(w) ==
  /\ KnownFunction(w) /\ ~WorthFiling(w)
  /\ EndOfBody(w, increaseAt[w])
  /\ UNCHANGED <<goal, storeVars, duplicated, minimalSizes, stop, resultVars, pdagIndex, held>>

DecideToFile(w) ==
  /\ KnownFunction(w) /\ WorthFiling(w)
  /\ GoTo(w, "file")
  /\ UNCHANGED <<goal, storeVars, duplicated, minimalSizes, stop, resultVars, threadVars>>

(* The set is chosen by store.current_pdag, read without ca_mutex. *)
FileDuplicate(w) ==
  /\ pc[w] = "file"
  /\ duplicated' = [duplicated EXCEPT ![currentPdag] = @ \cup {held[w]}]
  /\ EndOfBody(w, increaseAt[w])
  /\ UNCHANGED <<goal, storeVars, minimalSizes, stop, resultVars, pdagIndex, held>>

-----------------------------------------------------------------------------
Fetch(w) == AbandonSkip(w) \/ TurnCounter(w) \/ NextGraph(w) \/ Exhaust(w)
Evaluate(w) == RejectDuplicate(w) \/ CallbackMisses(w) \/ CallbackFinds(w)
Publish(w) == WriteDot(w) \/ WriteSolution(w)
Accumulate(w) ==
  EnterFunction(w) \/ PassOver(w) \/ DecideToFile(w) \/ FileDuplicate(w)

Step(w) ==
  Leave(w) \/ WaitForCounter(w) \/ Fetch(w) \/ Evaluate(w) \/ Publish(w) \/ Accumulate(w)

Joined == \A w \in Workers : pc[w] = "exited"
Terminated == Joined /\ UNCHANGED vars

Next == (\E w \in Workers : Step(w)) \/ Terminated

Spec == Init /\ [][Next]_vars

(* Every thread is scheduled; a thread kept off ca_mutex gets it when the  *)
(* others have left.                                                       *)
FairSpec == Spec /\ \A w \in Workers : WF_vars(Step(w))

-----------------------------------------------------------------------------
EvaluatingLabels == {"evaluate", "draw", "describe", "accumulate", "file"}
Evaluating(w) == pc[w] \in EvaluatingLabels

(* Every variable keeps to the values the code can store in it; a formula  *)
(* under evaluation is one of the graph it is held with.                   *)
TypeOK ==
  /\ goal \in Goals
  /\ currentPdag \in Graphs
  /\ DOMAIN counter = Graphs /\ \A d \in Graphs : counter[d] \in Formulas(d)
  /\ \A f \in DOMAIN minimalSizes : \E d \in Graphs : minimalSizes[f] = SizeOf[d]
  /\ stop \in BOOLEAN
  /\ pc \in [Workers -> {"top", "fetch", "exited"} \cup EvaluatingLabels]
  /\ pdagIndex \in [Workers -> Graphs]
  /\ nextTask \in [Workers -> {"Nothing", "IncreaseAtPosition"}]
  /\ DOMAIN held = Workers /\ DOMAIN increaseAt = Workers
  /\ \A w \in Workers : Evaluating(w) => held[w] \in Formulas(pdagIndex[w])

(* Until the enumeration stops no two workers ever evaluate the same       *)
(* formula: a turn of the shared counter hands out something new.          *)
NoDoubleDispatch ==
  ~stop =>
    \A w, u \in Workers :
      w # u /\ Evaluating(w) /\ Evaluating(u) =>
        <<pdagIndex[w], held[w]>> # <<pdagIndex[u], held[u]>>

(* What a worker evaluates lies behind the shared counter, or is what it   *)
(* shows: nothing is handed out before the counter has come to it.         *)
HeldBehindCounter ==
  ~stop =>
    \A w \in Workers :
      Evaluating(w) =>
        /\ pdagIndex[w] <= currentPdag
        /\ pdagIndex[w] = currentPdag =>
             \/ held[w] = counter[currentPdag]
             \/ Before(held[w], counter[currentPdag])

(* However far the counter has moved meanwhile, what is published as the   *)
(* solution is a formula of the function sought; drawing and description   *)
(* are both there or both missing once the workers have been joined.       *)
PublishedIsSolution ==
  /\ \A string \in {dot, solution} \ {Unset, Garbled} :
       RootTableOf[string[1]][string[2]] = goal
  /\ Joined => (dot = Unset <=> solution = Unset)

(* assert(store.minimal_sizes.at(value) <= size) *)
KnownSizeIsMinimal ==
  \A w \in Workers :
    KnownFunction(w) => minimalSizes[FunctionOf(w)] <= SizeOf[pdagIndex[w]]

(* When all workers have left and none of them found the goal, the         *)
(* function of every formula that no vertex makes a duplicate is known,    *)
(* with a size its graph does not undercut: nothing was jumped over,       *)
(* dropped at the change of graphs or lost with an abandoned jump.         *)
ExhaustionCovers ==
  Joined /\ dot = Unset =>
    \A d \in Graphs : \A a \in Formulas(d) :
      DuplicateVerticesOf[d][a] = {} =>
        /\ RootTableOf[d][a] \in DOMAIN minimalSizes
        /\ minimalSizes[RootTableOf[d][a]] <= SizeOf[d]

(* Everything the workers may be given: the counter is turned before it is *)
(* copied, so the first formula of all is not among it.                    *)
Dispatchable ==
  (UNION {{d} \X Formulas(d) : d \in Graphs}) \ {<<1, AllBegin(PossibleOf[1])>>}

(* What of it the counter has still in front of it. *)
InFront ==
  {f \in Dispatchable :
     \/ f[1] > currentPdag
     \/ f[1] = currentPdag /\ Before(counter[currentPdag], f[2])}

(* What a worker is busy with, as long as anybody wants it. *)
AtWork ==
  [w \in Workers |->
     IF ~stop /\ Evaluating(w) THEN {<<pdagIndex[w], held[w]>>} ELSE {}]

Handout == INSTANCE Enumeration WITH
  AllFormulas <- Dispatchable, remaining <- IF stop THEN {} ELSE InFront, working <- AtWork

(* Until the enumeration stops a formula is given to one worker, once,     *)
(* however the workers come to their turns, and one that was jumped over   *)
(* is not given to anybody later.                                          *)
DispatchesOnce == Handout!Spec

(* Duplicates are filed under the graph whose vertices they assign.        *)
FiledUnderOwnGraph ==
  \A d \in Graphs : \A a \in duplicated[d] : Accumulates(d) /\ a \in Formulas(d)

(* What w passes over, if it jumps, formula_is_duplicate would reject.     *)
JumpsOverDuplicates(w) ==
  WantsSkip(w) /\ pc[w] = "fetch" /\ pc'[w] \in {"evaluate", "exited"} =>
    \A a \in Formulas(currentPdag) :
      /\ Before(counter[currentPdag], a)
      /\ pc'[w] = "evaluate" /\ currentPdag' = currentPdag => Before(a, held'[w])
      => IsDuplicate(currentPdag, a)

(* A jump leaves out only formulas that formula_is_duplicate rejects.      *)
SkipsOnlyDuplicates == [][\A w \in Workers : JumpsOverDuplicates(w)]_vars

(* So does a jump that the formula w still holds has asked for: the test   *)
(* "somebody already increased past this point" gives up every jump that   *)
(* the counter, moved by other workers meanwhile, has made wrong.          *)
OwnJumpsSkipDuplicates ==
  [][\A w \in Workers :
       WantsSkip(w) /\ IsDuplicate(pdagIndex[w], held[w]) => JumpsOverDuplicates(w)]_vars

(* All workers leave, whoever finds a solution or exhausts the last graph. *)
EveryWorkerLeaves == <>Joined
=============================================================================
