# Formal models of enumeration_tool

`enumeration_tool` enumerates logic networks: it takes a list of small directed
acyclic graphs ("partial DAGs"), gives every vertex every symbol of a grammar that
fits its number of fanins, and hands each resulting formula to a client, skipping
formulas that are known to repeat a function. This directory holds TLA+ models of
the enumeration, TLC configurations that check them on small instances and TLAPS
proofs of what holds for every instance. Source paths below are relative to `src/`;
line numbers are those of the commit the models were written from, and
`PROJECT.json` gives the lines of every definition.

## 1. Inventory

| component | state it keeps | operations | interacts with |
|---|---|---|---|
| sequential engine (`include/enumeration_tool/enumerator_engines/partial_dag_enumerator.hpp`) | the graph, one iterator per vertex, a cache of truth tables with valid flags, two maps from tables to vertices, `minimal_sizes`, the pending task | the enumeration loop, `formula_is_duplicate`, `update_tts`, `check_*`, `increase_stack*`, `set_tts_flags` | calls the client back, which may write `_next_task`; reads the tables of `partial_dag` |
| parallel engine (`.../partial_dag_enumerator_parallel_v2.hpp`) | under `ca_mutex`: the current graph and its counter; under `ms_mutex`: `minimal_sizes`; concurrent sets of duplicates; an atomic stop flag; result strings; per thread a copied assignment, a task and a position | the worker loop, `formula_is_duplicate`, `duplicate_accumulation`, `increase_stack*` | threads share the store; the callback runs concurrently in all of them |
| partial DAG (`.../partial_dag/partial_dag.hpp`) | vertices and tables derived from them | `add_PI_nodes`, `initialize`, isomorphism, drawing, files | filled by the generators, read by both engines |
| generators (`partial_dag_generator.hpp`, `partial_dag3_generator.hpp`) | a level, the stack of chosen steps, counts of covered steps, a matrix of disabled steps | four recursive searches each, over two or three fanins | call a callback for each graph |
| graph lists (`pd_generate_nonisomorphic`, the filters and files of `partial_dag.hpp`, `experiments/graphs_generation.hpp`) | the list of graphs | keep one graph of each kind, filter, write and read, correct by hand, add inputs | are the callback of the generators; hand their list to the engines |
| grammar, symbols, AIG/MIG interfaces | symbols with arity, attributes, node operation; a static cache of root symbols | queries | read by the engines |
| experiments, chains, `_old_`, `lib/` | – | drivers, percy's synthesis structures, retired engines, vendored libraries | clients of the above |

What makes each of them correct, and what is hard about it:

* **Sequential engine.** The truth table handed to the client is that of the formula
  it describes (the test "simulator"), although only what the counter passed is
  recomputed; a map entry never outlives its table; a skip, which may jump over
  exponentially many assignments from one observation, leaves out only formulas that
  repeat something; the enumeration ends; a client's request is honoured at the
  point where the loop looks for it. The difficulty is long histories: flags, maps
  and sizes left by earlier assignments and earlier graphs.
* **Parallel engine.** Every formula is handed to one worker; nobody's late knowledge
  is applied to the wrong place; every worker leaves. The difficulty is that a worker
  decides on a copy while the counter, the graph and the sizes move on.
* **Partial DAG, grammar.** The derived tables mean what the engines take them for.
* **Generators.** Exactly the graphs of the chosen type come out, and counters are
  restored by backtracking, which is hard because all calls of the recursion write the
  same members and the bodies of their loops start and stop at steps of other calls.
* **Graph lists.** One graph of each kind stays; the corrections by position find what
  they count on; the insertion of inputs into the list it walks over hits the right
  fanins; the engines get graphs they can run on.

`PROJECT.json` lists the hazards of this code line by line, with the property that
watches each, or the reason why none does. At this commit the headers do not
compile as they stand (`partial_dag.hpp:105-107` is an unfinished statement and
`make_canonical`, 121-125, sorts through a const reference); the models take the
unfinished subtree hashes as absent and `make_canonical` as the sort it spells out.

## 2. Modules

| module | models |
|---|---|
| `Odometer` | the assignment counter of both engines: `increase_stack`, `increase_stack_at_position`, the order in which assignments come |
| `PartialDag` | a graph and the tables `initialize()` derives; `add_PI_nodes`, `make_canonical` |
| `Grammar` | symbols, the assignments a vertex may get, truth tables, the two leaf tests both engines share |
| `SequentialEnumerator` | the sequential engine |
| `ParallelEnumerator` | the parallel engine |
| `Enumeration` | what both engines promise: no formula is handed out twice |
| `DagGenerator` | the four searches of both generators |
| `GraphLists` | the generator composed with the callback that keeps its graphs, the filters, the files and the lists of the experiments |
| `Pruning` | what `NothingIsLost` asks of a list of graphs, a grammar and a client |
| `MCSequential`, `MCParallel`, `MCGenerator` | concrete grammars, graphs and sizes for TLC |
| `MCComplete` | the instance of `seq_complete`, with the hypotheses of `NothingIsLost` for TLC to evaluate |
| `OdometerLemmas` | lemmas about the counter |
| `SequentialProofs`, `SequentialCoherence`, `SequentialRefinement` | theorems of the sequential engine |
| `ParallelProofs`, `OneWorkerProofs`, `ParallelRefinement` | theorems of the parallel engine |
| `GeneratorProofs` | theorems of the generator and of the lists made of its graphs |

Vertices and symbols are numbered from 1 (the code's index plus one), so a fanin,
which in the code is the index plus one and 0 for "none", names its vertex directly.
A truth table is the set of its minterms. `possible[v]` is a set, because
`get_nodes_indexes` returns the symbols in ascending order without repetition, and
an iterator into it is the symbol it points at. `CoiSizes` keeps the length of the
list the code builds, because only its length is read.

**SequentialEnumerator.** `pc` says where the loop stands: `next_dag` (the `for`
loop), `loop` (head of the `while` body), `update` (inside `update_tts`), `report`
(at the callback), `flags` (inside `set_tts_flags`). `callStack` is the recursion of
`update_tt_`, in the code's order, because what it finds depends on the order in
which tables enter the maps. `toClear` is the recursion of `set_tts_flags`; its order
cannot be observed, so the model visits one generation of parents per step. `resume`
is where the loop goes once the flags are cleared. A skip and the end of the loop
body are one action, since the code runs from one to the other without a call to the
client in between; the callback and what follows it are the four `Report` actions, in
which the client's choice is `\E request \in CallbackTasks`. An overwritten request
(168), a request that meets the head of the next graph's loop (146, 153) and a stop
that only ends the current graph (153-156) behave as in the code.

**ParallelEnumerator.** Each worker has a `pc`. A critical section is one step. The
reads without a lock are steps of their own: the stop flag (`top`), the
callback and the publication of the result (`evaluate`, `draw`, `describe`), the
lookup of known sizes (`accumulate`) and the unlocked read of `store.current_pdag`
(`file`). Two workers that assign the same string at once may leave it garbled.
`increaseAt = 1` is position 0, which the code uses for "no position" too. What a
formula computes (`RootTableOf`) is what the network built by `create_node` computes;
the client is the callback of `experiments/parallelization.cpp`, which returns that
function and whether it is the one sought (`goal`). `Init` is the state after
`initialize(store)` with all threads started; starting threads one by one adds
nothing, since a thread that has not taken a step is one that has not started.

**Enumeration.** The abstract specification has the set of formulas that may still be
handed out and, per worker, the formula it has. A worker takes a formula and others may
be passed over with it; nothing ever returns to the set, except, in `RepeatSpec`, the
formula a client asks to see once more. Both engines are shown to implement it:

* `ParallelEnumerator!Handout`: `remaining` is `InFront`, all assignments of later
  graphs and those of the current graph that come after the counter in the order of
  enumeration; `working` is what the workers evaluate. After the stop both are empty,
  because from then on a worker may turn the wrapped counter again (see the hazards).
* `SequentialEnumerator!Handout`: the one worker is the client; `remaining` is `ToCome`,
  the assignments of later graphs, those after the counter and, while the tables are
  being computed, the one it shows; `working` is what the client is being shown. A
  client that never answers `DoNotIncrease` gets `Enumeration!Spec`; that answer makes
  the loop hand the same formula out again, which is `RepeatSpec`.

**DagGenerator.** One behaviour is `pd_generate_max` (`pd3_generate_max`) with one of
the generation types; `fanin` says for which of the two classes: `NextSize` is `reset`
and the head of `count_dags` for the next number of vertices. A step is a tuple of
`fanin` fanins, 0 for an input and i for the i-th vertex, as in the code. `level`,
`steps`, `covered` and `disabled` are the members all calls share; `calls` is the stack
of the recursive calls, each entry how far its loops have come, as the loop it is in and
the last step it tried. `Choose` is one turn of the loops up to the recursive call: it
takes the first candidate after the last one, so the search is deterministic. What the
bodies of the eight searches do differently is in `Candidates` (`Ordered2`, `Ordered3`),
`Disables` and `Uncovered`. `Exhausted`, `Reject` and `Accept` are the three ends of a
call; each backtracks and returns. As in the code a step with input fanins only is never
recorded in the matrix, but is taken back from it.

**GraphLists.** `ListNext` composes the search with what surrounds it: `Search` is a
step of the generator between two callbacks, `Report` a graph that goes through the
callback (`kept`), `Correct` one turn of the loop in `generate_dags`, `NextList` the
next size, `Initialize` the final loop that gives every graph its inputs. Every step
that changes a variable of `DagGenerator` is a step of `DagGenerator`, so what is proved
of it holds here. nauty is the relation `Isomorphic`: two graphs have the same canonical
representation if some renaming of the vertices takes the arcs of one to those of the
other (`Renamings` has those for the sizes of the instance). The filters, files,
`filtering_rules` and the two definitions of `add_PI_nodes` (the loop that inserts in
place, and what it comes to) are operators, compared with each other for every graph the
search reports. The loop is `InsertInputs`: `Progress` holds its counters and the list,
`NextTurn` is one turn of the inner loop or the step to the next vertex.

## 3. Runs

| run | instance | shows |
|---|---|---|
| `seq_complete` | And and Nor over two inputs, seven graphs of one to four gates, silent client | the cache, the maps, the skips, what `minimal_sizes` ends with, no formula twice, termination |
| `seq_client` | the four gates of the AIG grammar, four graphs, a client that may leave any task each time | cache, maps and reported table under every interruption; requests first |
| `seq_cone` | see findings | expected violation |
| `par_two` | two fair workers, Nor with all three attributes, two graphs that share a function, three goals | no double dispatch, nothing ahead of the counter, the abstract enumeration, published results, everybody leaves |
| `par_single` | one worker, And and Nor, four graphs up to the one that contains the pattern | jumps and filed duplicates lose nothing |
| `par_assert`, `par_skip`, `par_return`, `par_same`, `par_file` | see findings | expected violations |
| `gen_all` | the four searches over two and over three fanins, and the lists made of them | backtracking restores the shared state, counts and reported graphs; filters, files, corrections and insertion of inputs; reported graphs are ones the engines can run on; every list gets finished |
| `gen_reapply` | see findings | expected violation |

*Why these bounds.* Redundancy is looked for only in graphs of more than three gates
(`nr_gates_vertices > 3`), so `seq_complete` includes a four-gate graph, one with two
gates that share both fanins so that equal tables, tables of inputs and larger cones
all occur; the smaller graphs fill `minimal_sizes` first, as the generators' order
does. `seq_client` takes a graph the grammar does not support (a single input that
cannot be a root), so that `initialize` leaves a task of its own. Two inputs give
sixteen functions, enough for every collision the checks look for; three inputs are
used where a counterexample needs them. Two workers suffice for every interleaving
the properties speak of (one that is slow, one that moves the counter), and the
theorems hold for any number. The function Nor(A, B) is found by the first graph of
`par_two` and by two formulas of the second, so the callback may answer true to both
workers, and they may publish at the same time or for different formulas: states in
which a string is garbled, and in which drawing and description differ, are reached.
What only a second worker can break is not asked of `par_single`: the unlocked read of
`current_pdag` and the overtaken jumps have `par_file`, `par_skip` and `par_return`.
`par_single` contains the pattern as a whole graph
(Tree3) and below a root (Tree4), which are the two places where accumulation acts.
`par_single`, `par_skip` and `par_return` give no symbol the attribute `same_gate_exists`, because
`par_same` shows that the jump made for it is wrong even with one worker.

The searches of the generator are deterministic, so `gen_all` has one behaviour per
type and number of fanins. `MCMaxVertices` bounds the sizes. Over two fanins the search
without re-application goes to six vertices, the largest size `generate_dags` corrects
by hand, and the others to five; five are the least number for which a cell of the
matrix that fell below zero changes the result. Over three fanins the two unordered
searches go to four vertices and the ordered ones to five; steps are disabled from four
vertices on. Six vertices have 720 renamings, which TLC tries only for graphs whose
vertices agree in their degrees.

`SkipsOnlyDispensable`, `SkipsOnlyDuplicates` and `ExhaustionCovers` quantify over all
assignments between two values of the counter, so they see every formula that was
never visited. No state constraint is used: all instances are finite.

*Fairness.* `FairSpec` of the sequential engine and `ListSpec` of the generator have
weak fairness of the next-state relation: one thread runs the loop and always takes its
next step. In the parallel engine every worker has weak
fairness: the operating system schedules every thread. A worker waiting for `ca_mutex`
is never kept from it for ever, because a critical section ends and the others leave;
the model needs no strong fairness, since a critical section is one step and so the
mutex is free in every state. Deadlock is checked everywhere; the end states
stutter by `Terminated`.

## 4. Findings

Seven runs end in a violation, each of one statement found in the repository:

* `seq_cone`: `check_coi` rejects gates that were not "formed with a non minimal
  structure", since `initialize_cois` counts shared gates once per path. On that
  instance `PruningLosesNothing` fails as well, and it holds there when the cone is
  counted as a set.
* `par_assert`: `assert(store.minimal_sizes.at(value) <= size)` fails when a worker is
  slow on the last formula of a smaller graph.
* `par_skip`: a jump that was abandoned ("somebody already increased past this point")
  leaves its position, which a later formula turns into a jump over new formulas.
* `par_return`: the test for that sentence compares one symbol of the worker's copy with
  the counter. When the counter has gone on and shows the same symbol there again, the
  jump is made from where the counter stands, and with three inputs it passes over a
  formula that is no duplicate (`OwnJumpsSkipDuplicates`; the position belongs to the
  formula the worker holds, so this is not what `par_skip` shows).
* `par_same`: the jump for a gate that "exists" already uses the inputs of one of the
  two gates, and passes over formulas in which the other one differs.
* `par_file`: a duplicate is filed under `store.current_pdag`, read without its mutex,
  and lands in the set of another graph.
* `gen_reapply`: the search that "must not allow re-application of operators" gives
  the graph (0,0) (0,1) (1,2) to the callback, since the matrix of disabled steps is
  written at the level of a step where fanins name it by its level plus one.

What `formula_is_duplicate` rejects is no part of `PruningLosesNothing`. It costs gates by
itself: the idempotent attribute, which all AIG gates have, rejects Nor(A, A), the
one-gate negation, so `minimal_sizes` ("value: minimal size") has two gates for it.

The wrong index of the generator also excludes graphs that have no re-application:
(0,0) (0,1) (0,1) (2,3) is not reported for four vertices, and it is the structure, up to the order of
fanins, that `experiments/graphs_generation.hpp:65-68` adds by hand as a "missing
structure". Besides, the matrix is decremented for steps with two inputs, for which it
was never incremented, and a cell below zero disables a step as one above does: with
five vertices that loses (0,0) (0,1) (0,0) (0,2) (3,4). No text promises completeness,
so no run checks it; that the covered steps stay right all the same is
`CoveredMatchesSteps`.

## 5. Proofs

All theorems hold for every list of graphs, grammar, client and number of workers that
satisfies the named assumptions of the modules: `SymbolAssumption` and
`OperationAssumption` (symbols have at most two children; an operation maps tables to
a table), `DagAssumption` and `TaskAssumption` (graphs as `add_PI_nodes` leaves them:
inputs in front, fanins below their vertex, ignored fanins last; the client's tasks are
of the enumeration `Task`), `DagsAssumption` and `SupportedAssumption` (the parallel
engine throws on a graph that has a vertex without symbol), `GenAssumption` (at most 18
vertices). TLC evaluates them on the instances. A theorem that needs more names it in its
statement.

* **`OdometerLemmas`**: the counter shows only assignments it can show, keeps every
  vertex outside `ChangedAt`, and goes strictly forward in the order `Before` unless it
  runs off the end; `Before` is a strict total order and `Begin` its least reading. For
  the theorems on skips: nothing lies between a reading and the next one
  (`NothingBetween`), all that a jump passes over agrees with the reading it started
  from in every vertex the jump does not reset (`JumpedOverAgree`), and every set of
  readings has a first one (`BeforeHasLeast`).
* **`SequentialProofs`**: `TypeCorrect` and `RequestsTakenFirst`, from the inductive
  invariant `Typed`. `TypeOK` is not inductive: that a table is a table needs the
  assignment of every vertex to be one of its symbols, which fails for a graph with an
  unsupported vertex until the task `NextDag` is taken; `Typed` says so.
* **`SequentialCoherence`**: `CacheStaysCoherent`. The invariant allows exactly the
  vertices in `toClear` to be incoherent: `TurnCoherent` shows that a turn of the
  counter disturbs only those, `SetFlagsCoherent` that each generation hands the
  exception to the parents, `EvaluateCoherent` that a table is computed from valid
  fanins. `MapsStayFresh` builds on it. `ClientSeesCurrentCone` adds the invariant
  `RootAwaited` (the root stays at the bottom of the call stack until it is valid) and
  concludes that everything below the root is valid when the client is called.
  `ClientSeesCurrentTable` needs that the recursive `Simulate` has a value at all:
  `TablesExist` shows, by the least number of vertices for which it would fail, that
  some function satisfies the defining equation, and `CoherentIsSimulated`, by the least
  vertex where they differ, that coherent tables are that function.
  `SkipsDispensable` is about what nobody ever sees: the assignments a skip passes over
  (the action property `SkipsOnlyDispensable`). `SkipReason` says why a vertex may ask
  for a skip: it is a duplicate, equals an input or an earlier gate, or has a cone larger
  than the least size of its function; each is a fact about the cone of that vertex
  alone, so it holds of every assignment that agrees there (`ReasonCarriesOver`,
  `AgreeOnCone`). The invariant `SkipsJustified` says that every position waiting for a
  skip has such a vertex; it needs `StackDescends` (a vertex is evaluated after its
  fanins and only for a parent still on the stack) and the maps as `HeadTable` and
  `InputTable` find them. The hypothesis `RootReachesFirst` (the cone of the root has the
  first vertex) holds of every reported graph `add_PI_nodes` has completed
  (`EverythingBelowTheRoot`) and is what the test "get_minimal_index" says: without it
  `update_tts`, which evaluates a root that is still valid once more, could find the
  root's own entry and skip other formulas for it.
* **`SequentialRefinement`**: `HandoutImplements`, of `RepeatsOnRequest`, which no run
  checks, and `NothingHandedOutTwice`, of `HandsOutOnce`, which `seq_complete` does. The
  invariant `CounterShows` says that while tables are computed or shown the counter
  shows an assignment of the present graph; with it a turn of the counter only takes
  formulas out of `ToCome`, by `IncreaseAdvances`.
  `NothingIsLost` proves `PruningLosesNothing` of every grammar and list of graphs that
  is `Replaceable`. That skips are dispensable is not enough, as `seq_cone` shows: what
  stands in for a formula that is left out may be left out itself. `Replaceable` speaks
  of formulas, not of the engine: whatever a formula that skips may take with it
  (`MayBeSkipped`), an earlier formula that is no duplicate computes the same function.
  The invariants are `GoneThrough` (what lies behind the counter was shown or may be
  skipped), `SizesAttained` (a recorded size is one that some formula has),
  `ShownIsFit` and `Undisturbed`; at the end `SettledSuffices` takes the first formula of
  a function, which nothing earlier can stand in for (`BeforeHasLeast`). The other
  hypotheses are that the client asks for nothing but repetitions (`PatientClient`), that
  graphs come by size (`GrowingSizes`) and `RootReachesFirst`. `MCComplete` has TLC evaluate all four
  on the instance of `seq_complete`, and that some of its formulas may be skipped.
* **`ParallelProofs`**: `TypeCorrect`; then `CounterLeads` and `DispatchedOnce` from
  `Dispatch`, the conjunction of the two properties, which is inductive relative to
  `TypeOK`; both speak of the time before the stop. The step that matters is a turn of
  the counter: by `IncreaseAdvances` the new reading lies after the old one, behind
  which all other workers are. `PublishesSolutions` rests on `Published`: a worker
  between the callback and its assignments still holds the formula for which the
  callback answered true, and the description is missing only as long as somebody is
  about to write it.
* **`OneWorkerProofs`**: what holds with one thread. `AloneFilesRightly` and, for graphs
  in ascending order of gates, `AloneAssertionHolds` prove the two properties that
  `par_file` and `par_assert` refute for two threads. The invariant `Alone` is what
  concurrency breaks: the formula at work belongs to the current graph.
  `AloneSkipsDuplicates` proves `SkipsOnlyDuplicates`, refuted by `par_skip` for two
  threads (and with it what `par_return` refutes), and `AloneCoversAll` proves `ExhaustionCovers`: a worker that leaves without
  a solution has dealt with every formula that is no duplicate. For the first, `JumpReady`
  says that a position set aside for a jump is the one the present formula asks for, and
  `DuplicatePair` that it asks because the symbols of two neighbouring inputs are out of
  order, which all the formulas passed over share. For the second, `Covered` says that
  every formula behind the counter is a duplicate, has a function on record that is no
  larger, or is at work. The accumulation loses nothing because nothing it files is
  ever met: with one worker only a graph equal to the pattern has formulas on file, and
  the pattern does not occur below the root of itself (`NothingOnFile`,
  `NoPatternInItself`). The hypotheses are named and hold of
  `par_single`: `Regular` is `PairsAdjacent` (the inputs of a gate are neighbours, in
  order), which `InsertedPairsAdjacent` proves of all graphs of two fanins that
  `add_PI_nodes` has completed, `NoTwinGates` (no symbol has `same_gate_exists`, or no
  graph has two gates with inputs only), which cannot be dropped because `par_same`
  refutes the property without it, and that an idempotent symbol is commutative, as all
  symbols of the AIG interface that have the attribute are (the MIG interface has none); `FirstIsDuplicate`
  says that the first formula of every graph, which `initialize` sets and no worker takes,
  is a duplicate; `GrowingSizes` is the order of the generators.
* **`ParallelRefinement`**: `DispatchImplements`, with `TypeOK` and `Dispatch` as
  invariants.
* **`GeneratorProofs`**: the theorems hold for all sizes up to the 18 vertices of the
  code's arrays. `TypeCorrect` and `CoveredIsRestored` follow from `Typed` and the
  property itself: a call records the uses of the step it adds, the callee takes back
  just those, and the step stays on the stack in between. `EachGraphOnce` needs more.
  `StepsInOrder` says of an ordered search that the steps chosen so far are ordered;
  `CallsFollow` that each active call stands at the step that is on the stack;
  `AllBehind` that every graph reported so far comes before the present position of the
  search, level by level: at the first level where it differs from the stack its step
  comes earlier in the order of the loops than the one the call at that level is at.
  A complete stack is therefore not among the graphs reported, and reporting it keeps
  `Distinct`; a call that returns makes the position of its caller later, not earlier.
  `EveryGraphCounted` turns this into completeness for the searches that have it: the
  graphs of the type that lie behind the search (`Found`) are as many as have been
  counted. It needs that the loops leave no step out (`CandidatesComplete`,
  `NextCandidate`), so that a call that ends has everything above its prefix behind it,
  and a complete stack is new; when the search is over, all graphs are behind it.

  The same module has the theorems of `GraphLists`. `ListsRunTheSearches`: the composed
  system is a refinement of the generator, so all the above holds in it.
  `FilterKeepsTrees` (`TreesAreKept`) counts: in a connected graph the fanins that are
  no inputs reach every vertex but the root, so none is named twice if and only if they
  are exactly as many as these vertices (`TreeCounted`). `FiltersKeepTheSame`
  (`FiltersAgree`) needs that `Isomorphic`, with its comparison of numbers of arcs and
  degrees on one side only, is an equivalence (`IsomorphicItself`, `IsomorphicConverse`,
  `IsomorphicChain`, from `IsomorphicRenames` and `RenamesIsomorphic`), and the invariant
  `KeptAsFiltered`: what is kept is the filtered list so far, and has a graph isomorphic
  to each reported one. `FilterLonger` says how the filter, which numbers the graphs it
  leaves by counting, changes when its list grows by one.

  `FilesAreReadBack` (`FileReadsBack`): all graphs of one list take equally many numbers,
  so the place of the n-th graph in the file is a product (`FlattenBlocks`). The reader
  is a function of a place that calls itself with a later one; `ReadDagsIs` shows that
  it has a value everywhere, and the graphs behind a place are then read right for the
  last graph first.

  `InputsInserted` (`InsertionAsDefined`) is about the loop of `add_PI_nodes`, which
  inserts a vertex in front of the list it is walking over, raises the fanins behind,
  and corrects its place by what it has inserted. `LoopDefined` says that a loop has a
  value at every point of its progress, whether it ends there or not: the least relation
  between points and results that is closed under turning back. `ListAt` is the list
  once all ignored fanins before the k-th one of vertex j have their inputs, and the
  loop, when it first looks at vertex j, is `Entering` it. The invariant is that every
  turn keeps the list a `ListAt`: `FaninDone` for one fanin (`ListInserted` compares the
  lists row by row; the vertex met has moved on, and at the loop's place is now the one
  below it, which is complete and passed over by `Scan`), `VertexDone` for the step to
  the next vertex, `FirstVertexDone` for the first, which has inputs only and where the
  loop jumps over what it has inserted. `AllInserted` follows, and that the loop ends.
  `SwapsAreOrdered` adds the last pass: the first of two inputs is always the later one,
  so those pairs, and no others, are swapped.

  `GraphsFitEngines` (`ReportedFitEngines`) and `EverythingBelowTheRoot` join the
  generator to the engines: what `DagAssumption`, `DagsAssumption` and the hypothesis
  `RootReachesFirst` ask of a graph is what a reported graph is once `add_PI_nodes` and
  `initialize` have been at it. `InputsUsedOnce` says that the inputs go to the ignored
  fanins one to one (a later slot gets an earlier input, and there are as many of one as
  of the other); connectedness, which the generator reports (`AlwaysConnected`), gives
  every gate but the root a parent; both together are `Completed`, which sorting the
  fanins keeps (`CanonicalCompleted`). A set that is closed under fanins and has the
  root then has everything: the greatest vertex it might lack has a parent above
  (`RootReaches`). The graphs that are corrected by hand, and the first one, which gets
  no inputs, are left to `ListFitsEngines`.

*Only model-checked*: liveness (`Terminates`, `EveryWorkerLeaves`, `ListsDone`), since
the proof system has no fairness reasoning here; that a grammar is `Replaceable`, which
depends on what its symbols compute and fails for some (see `seq_cone`);
`AddedAreMissing`, `ListsAddTheSame` and `ListFitsEngines`, which speak of the graphs
`generate_dags` spells out or makes from the last one of a list, of at most six vertices:
whether they hold is settled by enumerating just those lists, which the run does. What `ListFitsEngines` says of the
graphs the searches themselves report is proved (`GraphsFitEngines`), but for the
comparison of the tables with the walks.

## 6. What is left

Everything the programs of the repository run on the way from a graph to a formula is
modelled. The following would be the next steps; none of them changes what is above.

1. `ParallelEnumerator`: an enumerator used twice (the stop flag and the joined threads
   remain) and `initialize` on graphs that have inputs already (`parallel_v2.hpp:551`),
   once the code or a text says what should happen; `Grammar`: two grammars of one type
   that share the cache of root symbols.
2. The tables of `PartialDag` against the recursive walks (the rest of
   `ListFitsEngines`), for all graphs with inputs in front.

*Not modelled*, and why:

* `MIG interface`: its header includes files that are no longer there, and the
  sequential engine has no case for the three inputs of its gates.
* Chains, DAGs and specifications (`chain.hpp`, `dag.hpp`, `spec.hpp`), and `search_sol`
  of the generator with the operators it needs: taken over from percy, called by no
  engine and no program.
* The filter by hash value, the pairwise filters, `topological_order` and the level
  counts: called by nothing that is built. The subtree hashes do not compile.
* Printing and drawing, which keep no state; hexadecimal strings, timing, the callable
  wrapper: data and measurement.
* The programs under `experiments/`: they set up an engine, and their callback is the
  client of the models; comparisons with other tools are processes of their own.
* The engines and examples under `_old_`, which nothing builds.
* mockturtle, kitty, nauty, abc and the other libraries under `lib/`, which are most of
  the repository's lines: they are modelled only as far as this code relies on them
  (`Isomorphic` for nauty, `Simulate` for the truth tables of kitty).
