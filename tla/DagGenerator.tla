---------------------------- MODULE DagGenerator ----------------------------
(***************************************************************************)
(* partial_dag_generator and partial_dag3_generator: the recursive         *)
(* searches of count_dags over graphs whose vertices have two or three     *)
(* fanins, as pd_generate_max and pd3_generate_max run them for one number *)
(* of vertices after the other.  A vertex is chosen per recursion level as *)
(* a "step", the tuple of its fanins; 0 stands for an input, i for the     *)
(* i-th vertex.  The level, the steps and the two tables that prune the    *)
(* search are members every call shares: each call increments the level    *)
(* before a call and relies on the callee to have restored all on return.  *)
(*                                                                         *)
(* "calls" holds, outermost first, how far the loops of every active call  *)
(* have come: the last step tried and the loop it was tried in.            *)
(***************************************************************************)
EXTENDS Integers, Sequences, FiniteSets, SequencesExt

CONSTANTS
  GenTypes,       \* the generation types searched
  FaninCounts,    \* the numbers of fanins: which of the two classes
  MaxVertices(_, _)  \* bounds the graphs of a number of fanins and a type

AllTypes == {"TUPLES", "CONNECTED", "COLEX", "NOREAPPLY"}

(* The code's arrays have room for 18 vertices. *)
ASSUME GenAssumption ==
  /\ GenTypes \subseteq AllTypes /\ FaninCounts \subseteq {2, 3}
  /\ \A f \in FaninCounts, t \in GenTypes : MaxVertices(f, t) \in 1 .. 18

VARIABLES
  fanin,        \* the class of the generator
  genType,      \* _gen_type
  nrVertices,   \* _nr_vertices
  level,        \* _level
  steps,        \* (_js, _ks, _ls): steps[level + 1] is the tuple at _level
  covered,      \* _covered_steps
  disabled,     \* _disabled_matrix, by vertex and step
  nrSolutions,  \* _nr_solutions
  dags,         \* the graphs of this size given to the callback
  calls         \* the active calls of the search

vars == <<fanin, genType, nrVertices, level, steps, covered, disabled, nrSolutions,
          dags, calls>>

Inputs == [k \in 1 .. fanin |-> 0]

(* The loops of a call: the step with input fanins only, or, in the        *)
(* ordered searches over three fanins, the step below once more; the steps *)
(* with one internal fanin; the steps with several.                        *)
Loop(s) == IF s = Inputs THEN 1 ELSE IF s[2] = 0 THEN 2 ELSE 3
InLoop(s) == <<Loop(s), s>>

(* What a call that has tried no step yet has for its last one. *)
Fresh == <<0, Inputs>>

(* The order in which a loop tries the steps, and that of the loops. *)
EarlierStep(s, t) ==
  \E k \in 1 .. fanin : s[k] < t[k] /\ \A m \in k + 1 .. fanin : s[m] = t[m]
Earlier(c, d) == c[1] < d[1] \/ (c[1] = d[1] /\ EarlierStep(c[2], d[2]))

(* The steps of a vertex with l vertices below it: the inputs first, then  *)
(* ascending.                                                              *)
StepsAbove(l) ==
  {s \in [1 .. fanin -> 0 .. l] :
     \A k \in 1 .. fanin - 1 : s[k] < s[k + 1] \/ (s[k] = 0 /\ s[k + 1] = 0)}

-----------------------------------------------------------------------------
(* Mutant: a step equal to the one below is left out. *)
MutColexFrom(s) == IF s[1] = s[2] THEN <<s[1], s[2] + 1>> ELSE <<s[1] + 1, s[2]>>

(* "Look at the previous step on the stack, the current step should be     *)
(* greater or equal to it": the least step the loops go on with above s.   *)
ColexFrom(s) == IF s[1] = s[2] THEN <<s[1], s[2] + 1>> ELSE s

(* Two fanins: a vertex with two input fanins is tried whatever lies below.*)
Ordered2 ==
  {InLoop(s) : s \in {t \in StepsAbove(level) :
                        t = Inputs \/ ~EarlierStep(t, ColexFrom(steps[level]))}}

(* Three fanins: the step below; one internal fanin if the step below has  *)
(* no more; several, none of them before that of the step below.           *)
Ordered3 ==
  LET below == steps[level]
  IN  {<<1, below>>}
      \cup {InLoop(s) : s \in {t \in StepsAbove(level) :
               \/ Loop(t) = 2 /\ below[2] = 0 /\ t[3] > below[3]
               \/ Loop(t) = 3 /\ \A k \in 1 .. 3 : t[k] >= below[k]}}

(* What the loops of a call at the present level may try. *)
Candidates ==
  IF genType \in {"TUPLES", "CONNECTED"} THEN {InLoop(s) : s \in StepsAbove(level)}
  ELSE {c \in IF fanin = 2 THEN Ordered2 ELSE Ordered3 :
          genType = "NOREAPPLY" /\ c[1] = 3 => disabled[<<level + 1, c[2]>>] = 0}

Untried == {c \in Candidates : Earlier(Last(calls), c)}

-----------------------------------------------------------------------------
NothingCovered(n) == [i \in 1 .. n |-> 0]
NothingDisabled(n) == [c \in (1 .. n) \X StepsAbove(n - 1) |-> 0]

Init ==
  /\ fanin \in FaninCounts /\ genType \in GenTypes
  /\ nrVertices = 1 /\ level = 1 /\ steps = <<Inputs>>
  /\ covered = NothingCovered(1) /\ disabled = NothingDisabled(1)
  /\ nrSolutions = 0 /\ dags = <<>> /\ calls = <<Fresh>>

(* reset() for n vertices and the head of count_dags. *)
Reset(n) ==
  /\ level' = 1 /\ steps' = [v \in 1 .. n |-> Inputs]
  /\ covered' = NothingCovered(n) /\ disabled' = NothingDisabled(n)
  /\ nrSolutions' = 0 /\ dags' = <<>> /\ calls' = <<Fresh>>

AtMaximum == nrVertices = MaxVertices(fanin, genType)

(* Mutant: the size is taken for the number of fanins. *)
MutNextSize ==
  /\ calls = <<>> /\ ~AtMaximum
  /\ nrVertices' = fanin /\ Reset(fanin)
  /\ UNCHANGED <<fanin, genType>>

(* The next turn of the loop over the sizes. *)
NextSize ==
  /\ calls = <<>> /\ ~AtMaximum
  /\ nrVertices' = nrVertices + 1 /\ Reset(nrVertices + 1)
  /\ UNCHANGED <<fanin, genType>>

(* How often i is among the fanins of a step. *)
Uses(s, i) == Cardinality({k \in 1 .. fanin : s[k] = i})

(* How often step s at level l disables the cell c.  Two fanins: "steps    *)
(* (i',j,i) or (i',k,i)", with the level l where i is meant.  Three fanins:*)
(* i with two internal fanins of s.                                        *)
Disables(s, l, c) ==
  LET t == c[2]
  IN  IF c[1] <= l + 1 THEN 0
      ELSE IF fanin = 2 THEN IF t[2] = l THEN Uses(s, t[1]) ELSE 0
      ELSE IF t[3] = l + 1 /\ t[1] > 0 /\ {t[1], t[2]} \subseteq Range(s) THEN 1 ELSE 0

(* The first loop's step is not recorded in the matrix; the plain tuple    *)
(* search records nothing at all.                                          *)
Choose ==
  /\ calls # <<>> /\ level < nrVertices
  /\ \E c \in Untried :
       /\ \A d \in Untried : d = c \/ Earlier(c, d)
       /\ steps' = [steps EXCEPT ![level + 1] = c[2]]
       /\ covered' = IF genType = "TUPLES" THEN covered
                     ELSE [i \in DOMAIN covered |-> covered[i] + Uses(c[2], i)]
       /\ disabled' = IF c[1] = 1 \/ genType # "NOREAPPLY" THEN disabled
                      ELSE [x \in DOMAIN disabled |->
                              disabled[x] + Disables(c[2], level, x)]
       /\ calls' = Append(Front(calls), c) \o <<Fresh>>
  /\ level' = level + 1
  /\ UNCHANGED <<fanin, genType, nrVertices, nrSolutions, dags>>

(* Mutant: the last fanin stays covered. *)
MutBacktrack ==
  /\ level' = level - 1
  /\ LET s == steps[level]
     IN  /\ covered' = [i \in DOMAIN covered |->
                          IF i = s[fanin] THEN covered[i] ELSE covered[i] - Uses(s, i)]
         /\ disabled' = IF genType # "NOREAPPLY" THEN disabled
                        ELSE [x \in DOMAIN disabled |-> disabled[x] - Disables(s, level', x)]
  /\ calls' = Front(calls)

(* backtrack and noreapply_backtrack, after which the call returns: the    *)
(* step the caller chose is taken back, be it recorded or not.             *)
Backtrack ==
  /\ level' = level - 1
  /\ LET s == steps[level]
     IN  /\ covered' = [i \in DOMAIN covered |-> covered[i] - Uses(s, i)]
         /\ disabled' = IF genType # "NOREAPPLY" THEN disabled
                        ELSE [x \in DOMAIN disabled |-> disabled[x] - Disables(s, level', x)]
  /\ calls' = Front(calls)

(* Mutant: the call returns without backtracking. *)
MutExhausted ==
  /\ calls # <<>> /\ level < nrVertices /\ Untried = {}
  /\ calls' = Front(calls)
  /\ UNCHANGED <<fanin, genType, nrVertices, level, steps, covered, disabled,
                 nrSolutions, dags>>

(* The loops are through. *)
Exhausted ==
  /\ calls # <<>> /\ level < nrVertices /\ Untried = {}
  /\ Backtrack
  /\ UNCHANGED <<fanin, genType, nrVertices, steps, nrSolutions, dags>>

(* Mutant: the last but one vertex is not looked at. *)
MutUncovered == genType # "TUPLES" /\ \E i \in 1 .. nrVertices - 2 : covered[i] = 0

(* "There is some uncovered internal step". *)
Uncovered == genType # "TUPLES" /\ \E i \in 1 .. nrVertices - 1 : covered[i] = 0

(* A complete choice of steps that is no connected graph. *)
Reject ==
  /\ calls # <<>> /\ level = nrVertices /\ Uncovered
  /\ Backtrack
  /\ UNCHANGED <<fanin, genType, nrVertices, steps, nrSolutions, dags>>

(* Only the search without re-application calls back. *)
Accept ==
  /\ calls # <<>> /\ level = nrVertices /\ ~Uncovered
  /\ nrSolutions' = nrSolutions + 1
  /\ dags' = IF genType = "NOREAPPLY" THEN Append(dags, steps) ELSE dags
  /\ Backtrack
  /\ UNCHANGED <<fanin, genType, nrVertices, steps>>

Terminated == calls = <<>> /\ AtMaximum /\ UNCHANGED vars

Next == Choose \/ Exhausted \/ Reject \/ Accept \/ NextSize \/ Terminated

Spec == Init /\ [][Next]_vars

-----------------------------------------------------------------------------
(* What the generation types stand for.                                    *)
Tuples(n) ==
  {t \in [1 .. n -> StepsAbove(n - 1)] : \A v \in 1 .. n : t[v] \in StepsAbove(v - 1)}

(* Every vertex but the last is the fanin of another. *)
Connected(t) == \A i \in 1 .. Len(t) - 1 : \E v \in DOMAIN t : i \in Range(t[v])

(* In co-lexicographic order, vertices with input fanins only apart. *)
Ordered(t) ==
  \A v \in 2 .. Len(t) : t[v] = Inputs \/ ~EarlierStep(t[v], t[v - 1])

OfType(n) ==
  CASE genType = "TUPLES" -> Tuples(n)
    [] genType = "CONNECTED" -> {t \in Tuples(n) : Connected(t)}
    [] OTHER -> {t \in Tuples(n) : Connected(t) /\ Ordered(t)}

(* Every variable keeps to the values the code can store in it, and the    *)
(* level every call shares is the depth of its recursion.                  *)
TypeOK ==
  /\ fanin \in FaninCounts /\ genType \in GenTypes
  /\ nrVertices \in 1 .. MaxVertices(fanin, genType)
  /\ level = Len(calls)
  /\ Len(steps) = nrVertices /\ \A v \in DOMAIN steps : steps[v] \in StepsAbove(v - 1)
  /\ calls # <<>> => \A d \in 1 .. level - 1 : calls[d][2] = steps[d + 1]

(* Between any two steps of the search a vertex counts as covered as often *)
(* as the steps chosen so far use it: what one branch recorded never shows *)
(* in another.                                                             *)
CoveredMatchesSteps ==
  genType # "TUPLES" =>
    \A i \in 1 .. nrVertices :
      covered[i] = Cardinality({u \in (1 .. level) \X (1 .. fanin) : steps[u[1]][u[2]] = i})

(* A search finds as many graphs as its type has.  The ordered searches    *)
(* over three fanins find some graphs twice and others not at all.         *)
CountsAll ==
  calls = <<>> /\ (genType \in {"TUPLES", "CONNECTED"} \/ (genType = "COLEX" /\ fanin = 2)) =>
    nrSolutions = Cardinality(OfType(nrVertices))

(* The callback gets only graphs that are connected and in order, and over *)
(* two fanins every graph once.                                            *)
ReportsOnce ==
  calls = <<>> /\ genType = "NOREAPPLY" =>
    /\ fanin = 2 => IsInjective(dags)
    /\ \A n \in DOMAIN dags : Connected(dags[n]) /\ Ordered(dags[n])

(* "Graph inputs must not allow re-application of operators": no vertex v  *)
(* takes a vertex i and all but one of the fanins of i.                    *)
NoReapplication ==
  \A n \in DOMAIN dags : \A v, i \in 1 .. nrVertices :
    i \in Range(dags[n][v]) =>
      Cardinality((Range(dags[n][v]) \cap Range(dags[n][i])) \ {0}) < fanin - 1
=============================================================================
