-------------------------- MODULE GeneratorProofs --------------------------
(***************************************************************************)
(* Theorems about DagGenerator, for both classes, every generation type    *)
(* and every number of vertices: the level is the depth of the recursion,  *)
(* backtracking restores the covered steps, the callback gets only         *)
(* connected graphs in order, over two fanins none of them twice, and the  *)
(* searches that are to miss no graph report all of their type.  Theorems  *)
(* about GraphLists: the lists run these searches, the filter for trees    *)
(* keeps just the trees, both isomorphism filters keep the same list, a    *)
(* file is read back as the list that was written, the loops that insert   *)
(* inputs into a graph give it just the inputs it is to have, and what     *)
(* becomes of a reported graph is a graph the engines can run on.          *)
(***************************************************************************)
EXTENDS GraphLists, FiniteSetTheorems, WellFoundedInduction, TLAPS

-----------------------------------------------------------------------------
(* What every variable holds, and how calls and steps belong together.     *)

Step == [1 .. fanin -> Nat]

Typed ==
  /\ fanin \in FaninCounts /\ genType \in GenTypes
  /\ nrVertices \in 1 .. MaxVertices(fanin, genType)
  /\ level \in 0 .. nrVertices
  /\ steps \in [1 .. nrVertices -> Step]
  /\ \A v \in 1 .. nrVertices : steps[v] \in StepsAbove(v - 1)
  /\ calls \in Seq(Nat \X Step) /\ Len(calls) = level
  /\ \A d \in 1 .. level - 1 : calls[d][2] = steps[d + 1]
  /\ covered \in [1 .. nrVertices -> Int]

LEMMA Parameters ==
  ASSUME Typed
  PROVE  /\ fanin \in {2, 3} /\ genType \in AllTypes
         /\ MaxVertices(fanin, genType) \in Nat /\ nrVertices \in Nat \ {0}
         /\ level \in Nat
<1>1. fanin \in {2, 3} /\ genType \in AllTypes /\ MaxVertices(fanin, genType) \in 1 .. 18
  BY GenAssumption DEF Typed
<1>2. nrVertices \in 1 .. MaxVertices(fanin, genType) /\ level \in 0 .. nrVertices
  BY DEF Typed
<1>3. ASSUME NEW m \in 1 .. 18, NEW n \in 1 .. m, NEW l \in 0 .. n
      PROVE  m \in Nat /\ n \in Nat \ {0} /\ l \in Nat
  OBVIOUS
<1>. QED  BY <1>1, <1>2, <1>3

LEMMA StepsAboveFacts ==
  ASSUME NEW l \in Nat, fanin \in {2, 3}
  PROVE  /\ Inputs \in StepsAbove(l)
         /\ StepsAbove(l) \subseteq Step
         /\ StepsAbove(l) \subseteq StepsAbove(l + 1)
BY DEF Inputs, StepsAbove, Step

(* The steps are the sequence of the vertices. *)
LEMMA StepsLength ==
  ASSUME Typed
  PROVE  steps \in Seq(Step) /\ Len(steps) = nrVertices /\ DOMAIN steps = 1 .. nrVertices
BY Parameters DEF Typed

LEMMA UsesFacts ==
  ASSUME NEW s, NEW i, fanin \in {2, 3}
  PROVE  Uses(s, i) \in Nat
<1>1. IsFiniteSet(1 .. fanin)
  BY FS_Interval
<1>2. {k \in 1 .. fanin : s[k] = i} \subseteq 1 .. fanin
  OBVIOUS
<1>. QED  BY <1>1, <1>2, FS_Subset, FS_CardinalityType DEF Uses

(* The searches that try every step in the loop InLoop names; those that   *)
(* keep the steps in order.                                                *)
Plain == fanin = 2 \/ genType \in {"TUPLES", "CONNECTED"}
InOrder == genType \in {"COLEX", "NOREAPPLY"}

(* What the loops may try is a step for a vertex at this level; in the     *)
(* ordered searches it has inputs only, or is not before the step below.   *)
LEMMA CandidateFacts ==
  ASSUME Typed, level \in 1 .. nrVertices - 1, NEW c \in Candidates
  PROVE  /\ c \in Nat \X Step
         /\ c[2] \in StepsAbove(level)
         /\ Plain => c = InLoop(c[2])
         /\ InOrder => c[2] = Inputs \/ ~EarlierStep(c[2], steps[level])
<1>0. fanin \in {2, 3} /\ genType \in AllTypes /\ level \in Nat
  BY Parameters
<1>1. /\ steps[level] \in StepsAbove(level)
      /\ steps[level] \in Step /\ StepsAbove(level) \subseteq Step
  <2>1. steps[level] \in StepsAbove(level - 1) /\ level - 1 \in Nat /\ (level - 1) + 1 = level
    BY Parameters DEF Typed
  <2>. QED  BY <2>1, <1>0, StepsAboveFacts
<1>2. \A s \in StepsAbove(level) :
        /\ InLoop(s) \in Nat \X Step /\ InLoop(s)[2] = s
        /\ InLoop(InLoop(s)[2]) = InLoop(s)
  BY <1>1 DEF InLoop, Loop
<1>3. CASE genType \in {"TUPLES", "CONNECTED"}
  BY <1>2, <1>3 DEF Candidates, InOrder
<1>4. CASE genType \in {"COLEX", "NOREAPPLY"} /\ fanin = 2
  <2>1. PICK s \in StepsAbove(level) :
          c = InLoop(s) /\ (s = Inputs \/ ~EarlierStep(s, ColexFrom(steps[level])))
    BY <1>4 DEF Candidates, Ordered2
  <2>2. EarlierStep(s, steps[level]) => EarlierStep(s, ColexFrom(steps[level]))
    <3>1. s \in [1 .. 2 -> Nat] /\ steps[level] \in [1 .. 2 -> Nat]
      BY <1>1, <1>4 DEF Step
    <3>. QED  BY <3>1, <1>4 DEF EarlierStep, ColexFrom
  <2>. QED  BY <2>1, <2>2, <1>2
<1>5. CASE genType \in {"COLEX", "NOREAPPLY"} /\ fanin = 3
  <2>. DEFINE below == steps[level]
  <2>0. below \in [1 .. 3 -> Nat]
    BY <1>1, <1>5 DEF Step
  <2>1. CASE c = <<1, below>>
    <3>1. ~EarlierStep(below, below)
      BY <2>0, <1>5 DEF EarlierStep
    <3>. QED  BY <2>1, <3>1, <1>1, <1>5 DEF Plain
  <2>2. CASE \E s \in StepsAbove(level) :
               /\ c = InLoop(s)
               /\ \/ Loop(s) = 2 /\ below[2] = 0 /\ s[3] > below[3]
                  \/ Loop(s) = 3 /\ \A k \in 1 .. 3 : s[k] >= below[k]
    <3>1. PICK s \in StepsAbove(level) :
               /\ c = InLoop(s)
               /\ \/ Loop(s) = 2 /\ below[2] = 0 /\ s[3] > below[3]
                  \/ Loop(s) = 3 /\ \A k \in 1 .. 3 : s[k] >= below[k]
      BY <2>2
    <3>2. s \in [1 .. 3 -> Nat]
      BY <1>1, <1>5 DEF Step
    <3>3. ~EarlierStep(s, below)
      BY <3>1, <3>2, <2>0, <1>5 DEF EarlierStep
    <3>. QED  BY <3>1, <3>3, <1>2, <1>5 DEF Plain
  <2>3. c \in Ordered3
    BY <1>5 DEF Candidates
  <2>. QED  BY <2>1, <2>2, <2>3 DEF Ordered3
<1>. QED  BY <1>0, <1>3, <1>4, <1>5 DEF AllTypes

(* What choosing a step does, whatever the generation type. *)
LEMMA ChooseFacts ==
  ASSUME Typed, Choose
  PROVE  /\ level \in 1 .. nrVertices - 1 /\ level' = level + 1
         /\ \E c \in Candidates :
              /\ Earlier(Last(calls), c)
              /\ \A d \in Untried : d = c \/ Earlier(c, d)
              /\ steps' = [steps EXCEPT ![level + 1] = c[2]]
              /\ covered' = IF genType = "TUPLES" THEN covered
                            ELSE [i \in 1 .. nrVertices |-> covered[i] + Uses(c[2], i)]
              /\ Len(calls') = level + 1
              /\ calls' \in Seq(Nat \X Step)
              /\ \A d \in 1 .. level - 1 : calls'[d] = calls[d]
              /\ calls'[level] = c /\ calls'[level + 1] = Fresh
         /\ UNCHANGED <<fanin, genType, nrVertices, dags>>
<1>1. level \in 1 .. nrVertices - 1 /\ level' = level + 1
  BY Parameters DEF Choose, Typed
<1>2. PICK c \in Untried :
        /\ \A d \in Untried : d = c \/ Earlier(c, d)
        /\ steps' = [steps EXCEPT ![level + 1] = c[2]]
        /\ covered' = IF genType = "TUPLES" THEN covered
                      ELSE [i \in DOMAIN covered |-> covered[i] + Uses(c[2], i)]
        /\ calls' = Append(Front(calls), c) \o <<Fresh>>
  BY DEF Choose
<1>3. c \in Candidates /\ Earlier(Last(calls), c)
  BY <1>2 DEF Untried
<1>4. c \in Nat \X Step /\ Fresh \in Nat \X Step
  BY <1>1, <1>3, CandidateFacts, Parameters DEF Fresh, Inputs, Step
<1>5. /\ Len(calls') = level + 1
      /\ calls' \in Seq(Nat \X Step)
      /\ \A d \in 1 .. level - 1 : calls'[d] = calls[d]
      /\ calls'[level] = c /\ calls'[level + 1] = Fresh
  <2>. DEFINE front == Front(calls)
              more == Append(front, c)
  <2>0. calls \in Seq(Nat \X Step) /\ Len(calls) = level /\ level \in Nat \ {0}
    BY <1>1, Parameters DEF Typed
  <2>1. /\ front \in Seq(Nat \X Step) /\ Len(front) = level - 1
        /\ \A d \in 1 .. level - 1 : front[d] = calls[d]
    BY <2>0 DEF Front
  <2>2. /\ more \in Seq(Nat \X Step) /\ Len(more) = level
        /\ \A d \in 1 .. level - 1 : more[d] = calls[d]
        /\ more[level] = c
    BY <2>1, <1>1, <1>4
  <2>3. calls' = more \o <<Fresh>>
    BY <1>2
  <2>. HIDE DEF more
  <2>4. <<Fresh>> \in Seq(Nat \X Step) /\ Len(<<Fresh>>) = 1 /\ <<Fresh>>[1] = Fresh
    BY <1>4
  <2>. QED  BY <2>2, <2>3, <2>4, <1>1
<1>6. DOMAIN covered = 1 .. nrVertices
  BY DEF Typed
<1>. QED  BY <1>1, <1>2, <1>3, <1>5, <1>6 DEF Choose

(* A call returns. *)
Return ==
  /\ calls # <<>> /\ Backtrack
  /\ UNCHANGED <<fanin, genType, nrVertices, steps>>

LEMMA ReturnFacts ==
  ASSUME Typed, Return
  PROVE  /\ level \in 1 .. nrVertices /\ level' = level - 1
         /\ calls' \in Seq(Nat \X Step) /\ Len(calls') = level'
         /\ \A d \in 1 .. level' : calls'[d] = calls[d]
         /\ covered' = [i \in 1 .. nrVertices |-> covered[i] - Uses(steps[level], i)]
         /\ UNCHANGED <<fanin, genType, nrVertices, steps>>
<1>1. level \in 1 .. nrVertices /\ level' = level - 1
  BY Parameters DEF Return, Backtrack, Typed
<1>2. /\ calls' \in Seq(Nat \X Step) /\ Len(calls') = level'
      /\ \A d \in 1 .. level' : calls'[d] = calls[d]
  BY <1>1 DEF Return, Backtrack, Front, Typed
<1>3. covered' = [i \in 1 .. nrVertices |-> covered[i] - Uses(steps[level], i)]
  BY DEF Return, Backtrack, Typed
<1>. QED  BY <1>1, <1>2, <1>3 DEF Return

LEMMA ReturnActions ==
  ASSUME Exhausted \/ Reject \/ Accept
  PROVE  Return
BY DEF Exhausted, Reject, Accept, Return

(* A search starts: Init and the next size. *)
LEMMA StartFacts ==
  ASSUME fanin \in {2, 3}, NEW n \in Nat \ {0}
  PROVE  /\ [v \in 1 .. n |-> Inputs] \in [1 .. n -> Step]
         /\ \A v \in 1 .. n : [w \in 1 .. n |-> Inputs][v] \in StepsAbove(v - 1)
         /\ <<Fresh>> \in Seq(Nat \X Step) /\ Len(<<Fresh>>) = 1 /\ <<Fresh>>[1] = Fresh
         /\ NothingCovered(n) \in [1 .. n -> Int]
         /\ \A i \in 1 .. n : NothingCovered(n)[i] = 0
<1>1. Inputs \in Step
  BY DEF Inputs, Step
<1>2. \A v \in 1 .. n : Inputs \in StepsAbove(v - 1)
  BY StepsAboveFacts
<1>3. Fresh \in Nat \X Step
  BY <1>1 DEF Fresh
<1>. QED  BY <1>1, <1>2, <1>3 DEF NothingCovered

LEMMA InitFacts ==
  ASSUME Init
  PROVE  /\ fanin \in {2, 3} /\ steps = [v \in 1 .. 1 |-> Inputs]
         /\ nrVertices = 1 /\ level = 1 /\ calls = <<Fresh>> /\ dags = <<>>
         /\ covered = NothingCovered(1)
BY GenAssumption DEF Init

LEMMA TypedInit == Init => Typed
<1>. SUFFICES ASSUME Init PROVE Typed
  OBVIOUS
<1>1. MaxVertices(fanin, genType) \in 1 .. 18
  BY GenAssumption DEF Init
<1>2. /\ steps \in [1 .. 1 -> Step] /\ \A v \in 1 .. 1 : steps[v] \in StepsAbove(v - 1)
      /\ calls \in Seq(Nat \X Step) /\ Len(calls) = 1 /\ covered \in [1 .. 1 -> Int]
  BY InitFacts, StartFacts, 1 \in Nat \ {0}
<1>3. 1 \in 1 .. MaxVertices(fanin, genType) /\ 1 \in 0 .. 1 /\ 1 .. 1 - 1 = {}
  BY <1>1
<1>. QED  BY <1>2, <1>3, InitFacts DEF Init, Typed

LEMMA TypedStep ==
  ASSUME Typed, [Next]_vars
  PROVE  Typed'
<1>0. fanin \in {2, 3} /\ MaxVertices(fanin, genType) \in Nat /\ nrVertices \in Nat \ {0}
  BY Parameters
<1>1. CASE Choose
  <2>1. PICK c \in Candidates :
          /\ Earlier(Last(calls), c)
          /\ steps' = [steps EXCEPT ![level + 1] = c[2]]
          /\ covered' = IF genType = "TUPLES" THEN covered
                        ELSE [i \in 1 .. nrVertices |-> covered[i] + Uses(c[2], i)]
          /\ Len(calls') = level + 1
          /\ calls' \in Seq(Nat \X Step)
          /\ \A d \in 1 .. level - 1 : calls'[d] = calls[d]
          /\ calls'[level] = c /\ calls'[level + 1] = Fresh
    BY <1>1, ChooseFacts
  <2>2. /\ level \in 1 .. nrVertices - 1 /\ level' = level + 1
        /\ UNCHANGED <<fanin, genType, nrVertices>>
    BY <1>1, ChooseFacts
  <2>3. c \in Nat \X Step /\ c[2] \in StepsAbove(level) /\ c[2] \in Step
    BY <2>2, CandidateFacts
  <2>4. Step' = Step
    BY <2>2 DEF Step
  <2>5. steps' \in [1 .. nrVertices -> Step]
    BY <2>1, <2>2, <2>3 DEF Typed
  <2>6. (\A v \in 1 .. nrVertices : steps[v] \in StepsAbove(v - 1))'
    <3>1. \A v \in 1 .. nrVertices : steps'[v] = IF v = level + 1 THEN c[2] ELSE steps[v]
      BY <2>1, <2>2 DEF Typed
    <3>2. (level + 1) - 1 = level
      BY <2>2
    <3>3. \A v \in 1 .. nrVertices : steps'[v] \in StepsAbove(v - 1)
      BY <3>1, <3>2, <2>3 DEF Typed
    <3>. QED  BY <3>3, <2>2 DEF StepsAbove
  <2>7. \A d \in 1 .. level' - 1 : calls'[d][2] = steps'[d + 1]
    <3>. TAKE d \in 1 .. level' - 1
    <3>1. CASE d = level
      BY <3>1, <2>1, <2>2, <1>0 DEF Typed
    <3>2. CASE d # level
      <4>1. d \in 1 .. level - 1 /\ d + 1 \in 1 .. nrVertices /\ d + 1 # level + 1
        BY <3>2, <2>2, <1>0
      <4>. QED  BY <4>1, <2>1 DEF Typed
    <3>. QED  BY <3>1, <3>2
  <2>8. covered' \in [1 .. nrVertices -> Int]
    <3>1. \A i : Uses(c[2], i) \in Nat
      BY <1>0, UsesFacts
    <3>. QED  BY <2>1, <3>1 DEF Typed
  <2>9. level' \in 0 .. nrVertices /\ Len(calls') = level'
    BY <2>1, <2>2, <1>0
  <2>. QED  BY <2>1, <2>2, <2>4, <2>5, <2>6, <2>7, <2>8, <2>9 DEF Typed
<1>2. CASE Return
  <2>1. /\ level \in 1 .. nrVertices /\ level' = level - 1
        /\ calls' \in Seq(Nat \X Step) /\ Len(calls') = level'
        /\ \A d \in 1 .. level' : calls'[d] = calls[d]
        /\ covered' = [i \in 1 .. nrVertices |-> covered[i] - Uses(steps[level], i)]
        /\ UNCHANGED <<fanin, genType, nrVertices, steps>>
    BY <1>2, ReturnFacts
  <2>2. Step' = Step /\ (\A v \in 1 .. nrVertices : steps[v] \in StepsAbove(v - 1))'
    BY <2>1 DEF Step, StepsAbove, Typed
  <2>3. covered' \in [1 .. nrVertices -> Int]
    <3>1. \A i : Uses(steps[level], i) \in Nat
      BY <1>0, UsesFacts
    <3>. QED  BY <2>1, <3>1 DEF Typed
  <2>4. \A d \in 1 .. level' - 1 : calls'[d][2] = steps'[d + 1]
    <3>. TAKE d \in 1 .. level' - 1
    <3>1. d \in 1 .. level' /\ d \in 1 .. level - 1
      BY <2>1, <1>0
    <3>. QED  BY <3>1, <2>1 DEF Typed
  <2>. QED  BY <2>1, <2>2, <2>3, <2>4, <1>0 DEF Typed
<1>3. CASE NextSize
  <2>1. /\ nrVertices' = nrVertices + 1 /\ nrVertices' \in 1 .. MaxVertices(fanin, genType)
        /\ level' = 1 /\ steps' = [v \in 1 .. nrVertices' |-> Inputs]
        /\ calls' = <<Fresh>> /\ covered' = NothingCovered(nrVertices')
        /\ UNCHANGED <<fanin, genType>>
    BY <1>3, <1>0 DEF NextSize, Reset, AtMaximum, Typed
  <2>2. Step' = Step
    BY <2>1 DEF Step
  <2>3. nrVertices' \in Nat \ {0}
    BY <2>1, <1>0
  <2>4. \A d \in 1 .. level' - 1 : calls'[d][2] = steps'[d + 1]
    BY <2>1
  <2>5. \A v \in 1 .. nrVertices' : steps'[v] \in StepsAbove(v - 1)
    BY <2>1, <2>3, <1>0, StartFacts
  <2>6. (\A v \in 1 .. nrVertices : steps[v] \in StepsAbove(v - 1))'
    BY <2>5, <2>1 DEF StepsAbove
  <2>7. /\ steps' \in [1 .. nrVertices' -> Step] /\ covered' \in [1 .. nrVertices' -> Int]
        /\ calls' \in Seq(Nat \X Step) /\ Len(calls') = 1
    BY <2>1, <2>3, <1>0, StartFacts
  <2>8. level' \in 0 .. nrVertices' /\ Len(calls') = level'
    BY <2>1, <2>3, <2>7
  <2>. QED  BY <2>1, <2>2, <2>4, <2>6, <2>7, <2>8 DEF Typed
<1>4. CASE UNCHANGED vars
  BY <1>4 DEF vars, Typed, Step, StepsAbove
<1>. QED  BY <1>1, <1>2, <1>3, <1>4, ReturnActions DEF Next, Terminated

LEMMA AlwaysTyped == Spec => []Typed
BY TypedInit, TypedStep, PTL DEF Spec

(* Every variable keeps to its values, and the level every call shares is  *)
(* the depth of the recursion.                                             *)
THEOREM TypeCorrect == Spec => []TypeOK
<1>1. ASSUME Typed PROVE TypeOK
  BY <1>1, StepsLength DEF Typed, TypeOK
<1>. QED  BY <1>1, AlwaysTyped, PTL

-----------------------------------------------------------------------------
(* The covered steps.                                                      *)

(* Where the first l of the steps s use i. *)
UsesBelow(s, l, i) == {u \in (1 .. l) \X (1 .. fanin) : s[u[1]][u[2]] = i}

LEMMA UsesBelowFinite ==
  ASSUME NEW s, NEW l \in Nat, NEW i, fanin \in {2, 3}
  PROVE  IsFiniteSet(UsesBelow(s, l, i)) /\ Cardinality(UsesBelow(s, l, i)) \in Nat
<1>1. IsFiniteSet((1 .. l) \X (1 .. fanin))
  <2>1. IsFiniteSet(1 .. l) /\ IsFiniteSet(1 .. fanin)
    BY FS_Interval
  <2>. QED  BY <2>1, FS_Product
<1>2. UsesBelow(s, l, i) \subseteq (1 .. l) \X (1 .. fanin)
  BY DEF UsesBelow
<1>. QED  BY <1>1, <1>2, FS_Subset, FS_CardinalityType

(* One more step adds its own uses. *)
LEMMA OneStepMore ==
  ASSUME NEW s, NEW l \in Nat, NEW i, fanin \in {2, 3}
  PROVE  Cardinality(UsesBelow(s, l + 1, i))
           = Cardinality(UsesBelow(s, l, i)) + Uses(s[l + 1], i)
<1>. DEFINE lower == UsesBelow(s, l, i)
            own == {k \in 1 .. fanin : s[l + 1][k] = i}
            upper == {u \in {l + 1} \X (1 .. fanin) : s[u[1]][u[2]] = i}
            place == [k \in own |-> <<l + 1, k>>]
<1>1. IsFiniteSet(lower)
  BY UsesBelowFinite
<1>2. IsFiniteSet(own)
  <2>1. own \subseteq 1 .. fanin /\ IsFiniteSet(1 .. fanin)
    BY FS_Interval
  <2>. QED  BY <2>1, FS_Subset
<1>3. place \in Bijection(own, upper)
  <2>1. place \in [own -> upper]
    OBVIOUS
  <2>2. \A j, k \in own : place[j] = place[k] => j = k
    OBVIOUS
  <2>3. \A u \in upper : u[2] \in own /\ place[u[2]] = u
    OBVIOUS
  <2>. HIDE DEF place, own, upper
  <2>. QED  BY <2>1, <2>2, <2>3 DEF Bijection, Injection, Surjection, IsInjective
<1>4. IsFiniteSet(upper) /\ Cardinality(upper) = Uses(s[l + 1], i)
  BY <1>2, <1>3, FS_Bijection DEF ExistsBijection, Uses
<1>5. UsesBelow(s, l + 1, i) = lower \cup upper
  <2>1. (1 .. l + 1) \X (1 .. fanin)
          = ((1 .. l) \X (1 .. fanin)) \cup ({l + 1} \X (1 .. fanin))
    <3>1. 1 .. l + 1 = (1 .. l) \cup {l + 1}
      OBVIOUS
    <3>. QED  BY <3>1
  <2>. QED  BY <2>1 DEF UsesBelow
<1>6. lower \cap upper = {}
  <2>1. \A u \in (1 .. l) \X (1 .. fanin) : u \notin {l + 1} \X (1 .. fanin)
    OBVIOUS
  <2>. QED  BY <2>1 DEF UsesBelow
<1>7. lower = UsesBelow(s, l, i)
  OBVIOUS
<1>. HIDE DEF lower, upper
<1>. QED
  <2>1. Cardinality(lower) \in Nat /\ Cardinality(upper) \in Nat
    BY <1>1, <1>4, FS_CardinalityType
  <2>2. Cardinality(lower \cup upper) = Cardinality(lower) + Cardinality(upper) - 0
    BY <1>1, <1>4, <1>6, FS_Union, FS_EmptySet
  <2>. QED  BY <2>1, <2>2, <1>4, <1>5, <1>7, SMTT(30)

(* Steps that agree are used alike. *)
LEMMA SameUses ==
  ASSUME NEW s, NEW t, NEW l \in Nat, NEW i, \A v \in 1 .. l : s[v] = t[v]
  PROVE  UsesBelow(s, l, i) = UsesBelow(t, l, i)
BY DEF UsesBelow

LEMMA CoveredIs ==
  CoveredMatchesSteps <=>
    (genType # "TUPLES" =>
       \A i \in 1 .. nrVertices : covered[i] = Cardinality(UsesBelow(steps, level, i)))
BY DEF CoveredMatchesSteps, UsesBelow

(* At the start of a search only the inputs are used. *)
LEMMA CoveredAtStart ==
  ASSUME NEW n \in Nat \ {0}, fanin \in {2, 3}
  PROVE  \A i \in 1 .. n :
           NothingCovered(n)[i] = Cardinality(UsesBelow([v \in 1 .. n |-> Inputs], 1, i))
<1>. TAKE i \in 1 .. n
<1>1. UsesBelow([v \in 1 .. n |-> Inputs], 1, i) = {}
  <2>1. \A u \in (1 .. 1) \X (1 .. fanin) : [v \in 1 .. n |-> Inputs][u[1]][u[2]] = 0
    BY DEF Inputs
  <2>. QED  BY <2>1 DEF UsesBelow
<1>. QED  BY <1>1, FS_EmptySet DEF NothingCovered

LEMMA CoveredInit == Init => CoveredMatchesSteps
<1>. SUFFICES ASSUME Init PROVE CoveredMatchesSteps
  OBVIOUS
<1>1. \A i \in 1 .. 1 : covered[i] = Cardinality(UsesBelow(steps, level, i))
  BY InitFacts, CoveredAtStart, 1 \in Nat \ {0}
<1>. QED  BY <1>1, InitFacts, CoveredIs

LEMMA CoveredStep ==
  ASSUME Typed, CoveredMatchesSteps, [Next]_vars
  PROVE  CoveredMatchesSteps'
<1>0. fanin \in {2, 3} /\ nrVertices \in Nat \ {0} /\ level \in Nat
  BY Parameters
<1>. SUFFICES ASSUME genType' # "TUPLES", NEW i \in 1 .. nrVertices'
              PROVE  covered'[i] = Cardinality(UsesBelow(steps, level, i))'
  BY DEF CoveredMatchesSteps, UsesBelow
<1>1. CASE Choose
  <2>1. PICK c \in Candidates :
          /\ steps' = [steps EXCEPT ![level + 1] = c[2]]
          /\ covered' = IF genType = "TUPLES" THEN covered
                        ELSE [j \in 1 .. nrVertices |-> covered[j] + Uses(c[2], j)]
    BY <1>1, ChooseFacts
  <2>2. /\ level \in 1 .. nrVertices - 1 /\ level' = level + 1
        /\ UNCHANGED <<fanin, genType, nrVertices>>
    BY <1>1, ChooseFacts
  <2>3. covered'[i] = Cardinality(UsesBelow(steps, level, i)) + Uses(c[2], i)
    BY <2>1, <2>2, CoveredIs
  <2>4. steps'[level + 1] = c[2] /\ \A v \in 1 .. level : steps'[v] = steps[v]
    BY <2>1, <2>2, <1>0 DEF Typed
  <2>5. UsesBelow(steps, level, i) = UsesBelow(steps', level, i)
    BY <2>4, <1>0, SameUses
  <2>6. covered'[i] = Cardinality(UsesBelow(steps', level + 1, i))
    BY <2>3, <2>4, <2>5, <1>0, OneStepMore
  <2>. QED  BY <2>2, <2>6 DEF UsesBelow
<1>2. CASE Return
  <2>1. /\ level \in 1 .. nrVertices /\ level' = level - 1
        /\ covered' = [j \in 1 .. nrVertices |-> covered[j] - Uses(steps[level], j)]
        /\ UNCHANGED <<fanin, genType, nrVertices, steps>>
    BY <1>2, ReturnFacts
  <2>2. covered'[i] = Cardinality(UsesBelow(steps, level, i)) - Uses(steps[level], i)
    BY <2>1, CoveredIs
  <2>3. level - 1 \in Nat /\ (level - 1) + 1 = level
    BY <2>1, <1>0
  <2>4. Cardinality(UsesBelow(steps, level, i))
          = Cardinality(UsesBelow(steps, level - 1, i)) + Uses(steps[level], i)
    BY <2>3, <1>0, OneStepMore
  <2>5. Cardinality(UsesBelow(steps, level - 1, i)) \in Nat /\ Uses(steps[level], i) \in Nat
    BY <2>3, <1>0, UsesBelowFinite, UsesFacts
  <2>6. covered'[i] = Cardinality(UsesBelow(steps, level - 1, i))
    BY <2>2, <2>4, <2>5
  <2>. QED  BY <2>1, <2>6 DEF UsesBelow
<1>3. CASE NextSize
  <2>1. /\ nrVertices' = nrVertices + 1
        /\ level' = 1 /\ steps' = [v \in 1 .. nrVertices' |-> Inputs]
        /\ covered' = NothingCovered(nrVertices')
        /\ UNCHANGED <<fanin, genType>>
    BY <1>3 DEF NextSize, Reset
  <2>2. nrVertices' \in Nat \ {0}
    BY <2>1, <1>0
  <2>3. covered'[i] = Cardinality(UsesBelow(steps', 1, i))
    BY <2>1, <2>2, <1>0, CoveredAtStart
  <2>. QED  BY <2>1, <2>3 DEF UsesBelow
<1>4. CASE UNCHANGED vars
  BY <1>4, CoveredIs DEF vars, UsesBelow
<1>. QED  BY <1>1, <1>2, <1>3, <1>4, ReturnActions DEF Next, Terminated

(* Whatever branch the search is in, a vertex counts as covered as often   *)
(* as the steps chosen so far use it.                                      *)
THEOREM CoveredIsRestored == Spec => []CoveredMatchesSteps
BY CoveredInit, CoveredStep, AlwaysTyped, PTL DEF Spec

-----------------------------------------------------------------------------
(* The graphs the callback gets.                                           *)

Reporting == genType = "NOREAPPLY"

(* The ordered searches keep their steps in order. *)
StepsInOrder ==
  InOrder => \A v \in 2 .. level :
                 steps[v] = Inputs \/ ~EarlierStep(steps[v], steps[v - 1])

(* Ordered, with the number of fanins as a parameter. *)
OrderedFor(f, t) ==
  \A v \in 2 .. Len(t) :
    \/ t[v] = [k \in 1 .. f |-> 0]
    \/ ~\E k \in 1 .. f : t[v][k] < t[v - 1][k] /\ \A m \in k + 1 .. f : t[v][m] = t[v - 1][m]

LEMMA OrderedIs == \A t : Ordered(t) <=> OrderedFor(fanin, t)
BY DEF Ordered, OrderedFor, Inputs, EarlierStep

ReportsRight ==
  /\ dags \in Seq([1 .. nrVertices -> Step])
  /\ Reporting => \A n \in DOMAIN dags : Connected(dags[n]) /\ OrderedFor(fanin, dags[n])

(* What a step of the search does to the graphs. *)
LEMMA GraphsStep ==
  ASSUME Typed, [Next]_vars
  PROVE  \/ NextSize \/ Accept
         \/ (Choose \/ Return \/ UNCHANGED vars) /\ UNCHANGED <<fanin, genType, nrVertices, dags>>
BY ReturnActions DEF Next, Terminated, Choose, Exhausted, Reject, vars

LEMMA InOrderInit == Init => StepsInOrder
<1>. SUFFICES ASSUME Init PROVE StepsInOrder
  OBVIOUS
<1>1. level = 1 /\ 2 .. 1 = {}
  BY DEF Init
<1>. QED  BY <1>1 DEF StepsInOrder

LEMMA InOrderStep ==
  ASSUME Typed, StepsInOrder, [Next]_vars
  PROVE  StepsInOrder'
<1>0. fanin \in {2, 3} /\ nrVertices \in Nat \ {0} /\ level \in Nat
  BY Parameters
<1>1. CASE Choose
  <2>1. PICK c \in Candidates : steps' = [steps EXCEPT ![level + 1] = c[2]]
    BY <1>1, ChooseFacts
  <2>2. /\ level \in 1 .. nrVertices - 1 /\ level' = level + 1
        /\ UNCHANGED <<fanin, genType, nrVertices>>
    BY <1>1, ChooseFacts
  <2>3. steps'[level + 1] = c[2] /\ \A v \in 1 .. level : steps'[v] = steps[v]
    BY <2>1, <2>2, <1>0 DEF Typed
  <2>. SUFFICES ASSUME InOrder, NEW v \in 2 .. level + 1
                PROVE  steps'[v] = Inputs \/ ~EarlierStep(steps'[v], steps'[v - 1])
    BY <2>2 DEF StepsInOrder, InOrder, Inputs, EarlierStep
  <2>4. CASE v = level + 1
    <3>1. steps'[v - 1] = steps[level]
      BY <2>3, <2>4, <2>2, <1>0
    <3>. QED  BY <3>1, <2>2, <2>3, <2>4, CandidateFacts DEF InOrder
  <2>5. CASE v # level + 1
    <3>1. v \in 2 .. level /\ steps'[v] = steps[v] /\ steps'[v - 1] = steps[v - 1]
      BY <2>3, <2>5, <1>0
    <3>. QED  BY <3>1 DEF StepsInOrder
  <2>. QED  BY <2>4, <2>5
<1>2. CASE Return
  <2>1. /\ level' = level - 1
        /\ UNCHANGED <<fanin, genType, nrVertices, steps>>
    BY <1>2, ReturnFacts
  <2>2. \A v \in 2 .. level' : v \in 2 .. level
    BY <2>1, <1>0
  <2>3. InOrder' = InOrder /\ Inputs' = Inputs
    BY <2>1 DEF InOrder, Inputs
  <2>4. \A s, t : EarlierStep(s, t)' <=> EarlierStep(s, t)
    BY <2>1 DEF EarlierStep
  <2>. QED  BY <2>1, <2>2, <2>3, <2>4 DEF StepsInOrder
<1>3. CASE NextSize
  <2>1. 2 .. level' = {}
    BY <1>3 DEF NextSize, Reset
  <2>. QED  BY <2>1 DEF StepsInOrder
<1>4. CASE UNCHANGED vars
  <2>1. UNCHANGED <<fanin, genType, level, steps>>
    BY <1>4 DEF vars
  <2>2. InOrder' = InOrder /\ Inputs' = Inputs
    BY <2>1 DEF InOrder, Inputs
  <2>3. \A s, t : EarlierStep(s, t)' <=> EarlierStep(s, t)
    BY <2>1 DEF EarlierStep
  <2>. QED  BY <2>1, <2>2, <2>3 DEF StepsInOrder
<1>. QED  BY <1>1, <1>2, <1>3, <1>4, ReturnActions DEF Next, Terminated

(* A complete choice of steps without an uncovered one is connected. *)
LEMMA NoneUncovered ==
  ASSUME Typed, CoveredMatchesSteps, level = nrVertices,
         genType # "TUPLES", ~Uncovered
  PROVE  Connected(steps)
<1>. SUFFICES ASSUME NEW i \in 1 .. nrVertices - 1
              PROVE  \E v \in DOMAIN steps : i \in Range(steps[v])
  BY StepsLength DEF Connected
<1>1. i \in 1 .. nrVertices /\ nrVertices \in Nat /\ fanin \in {2, 3}
  BY Parameters
<1>2. Cardinality(UsesBelow(steps, nrVertices, i)) # 0
  BY <1>1, CoveredIs DEF Uncovered
<1>3. PICK u \in (1 .. nrVertices) \X (1 .. fanin) : steps[u[1]][u[2]] = i
  BY <1>1, <1>2, FS_EmptySet DEF UsesBelow
<1>4. u[1] \in DOMAIN steps /\ DOMAIN steps[u[1]] = 1 .. fanin
  BY StepsLength DEF Typed, Step
<1>. QED  BY <1>3, <1>4 DEF Range

LEMMA ReportsInit == Init => ReportsRight
BY DEF Init, ReportsRight

LEMMA ReportsStep ==
  ASSUME Typed, CoveredMatchesSteps, StepsInOrder, ReportsRight, [Next]_vars
  PROVE  ReportsRight'
<1>1. CASE Accept
  <2>1. /\ level = nrVertices /\ ~Uncovered
        /\ dags' = IF Reporting THEN Append(dags, steps) ELSE dags
        /\ UNCHANGED <<fanin, genType, nrVertices>>
    BY <1>1 DEF Accept, Reporting
  <2>2. steps \in [1 .. nrVertices -> Step] /\ Step' = Step
    BY <2>1 DEF Typed, Step
  <2>3. dags' \in Seq([1 .. nrVertices -> Step])
    BY <2>1, <2>2 DEF ReportsRight
  <2>4. ASSUME Reporting, NEW n \in DOMAIN dags'
        PROVE  Connected(dags'[n]) /\ OrderedFor(fanin, dags'[n])
    <3>1. Connected(steps) /\ OrderedFor(fanin, steps)
      BY <2>1, <2>4, NoneUncovered, StepsLength, OrderedIs
      DEF StepsInOrder, Ordered, Reporting, InOrder
    <3>2. dags' = Append(dags, steps)
      BY <2>1, <2>4
    <3>3. dags'[n] = steps \/ (n \in DOMAIN dags /\ dags'[n] = dags[n])
      BY <3>2, <2>2 DEF ReportsRight
    <3>. QED  BY <3>1, <3>3, <2>4 DEF ReportsRight
  <2>. QED  BY <2>1, <2>2, <2>3, <2>4 DEF ReportsRight, Reporting
<1>2. CASE NextSize
  BY <1>2 DEF NextSize, Reset, ReportsRight
<1>3. CASE UNCHANGED <<fanin, genType, nrVertices, dags>>
  BY <1>3 DEF ReportsRight, Reporting, Step
<1>. QED  BY <1>1, <1>2, <1>3, GraphsStep

-----------------------------------------------------------------------------
(* Over two fanins no graph is reported twice: the search goes through the *)
(* graphs in order, and every graph reported lies behind the calls that    *)
(* are active.                                                             *)

(* InLoop and Earlier with the number of fanins as a parameter. *)
PlaceOf(f, s) ==
  <<IF s = [k \in 1 .. f |-> 0] THEN 1 ELSE IF s[2] = 0 THEN 2 ELSE 3, s>>

Before(f, c, d) ==
  \/ c[1] < d[1]
  \/ c[1] = d[1]
     /\ \E k \in 1 .. f : c[2][k] < d[2][k] /\ \A m \in k + 1 .. f : c[2][m] = d[2][m]

(* Every call but the last is where the steps say. *)
CallsFollow ==
  Plain => \A d \in 1 .. level - 1 : calls[d] = PlaceOf(fanin, steps[d + 1])

(* Graph g takes the way of the calls up to some level d and turns off     *)
(* there at an earlier step, or at the one the last call has finished.     *)
BehindAt(g, d) ==
  /\ d < nrVertices /\ \A v \in 1 .. d : g[v] = steps[v]
  /\ \/ Before(fanin, PlaceOf(fanin, g[d + 1]), calls[d])
     \/ d = level /\ PlaceOf(fanin, g[d + 1]) = calls[d]

AllBehind ==
  fanin = 2 /\ calls # <<>> =>
    \A n \in DOMAIN dags : \E d \in 1 .. level : BehindAt(dags[n], d)

Distinct == fanin = 2 => IsInjective(dags)

LEMMA PlaceFacts ==
  ASSUME fanin \in {2, 3}
  PROVE  /\ \A s : InLoop(s) = PlaceOf(fanin, s)
         /\ \A s \in Step : PlaceOf(fanin, s) \in Nat \X Step
                           /\ PlaceOf(fanin, s)[2] = s /\ PlaceOf(fanin, s)[1] > 0
BY DEF InLoop, Loop, Inputs, PlaceOf, Step

(* Lexicographic order of quadruples of numbers. *)
Lex(i, z, y, x, j, w, v, u) ==
  i < j \/ (i = j /\ (z < w \/ (z = w /\ (y < v \/ (y = v /\ x < u)))))

(* The loops try the steps in a strict total order. *)
LEMMA BeforeFacts ==
  ASSUME fanin \in {2, 3},
         NEW b \in Nat \X Step, NEW c \in Nat \X Step, NEW d \in Nat \X Step
  PROVE  /\ Earlier(c, d) <=> Before(fanin, c, d)
         /\ ~Before(fanin, c, c)
         /\ Before(fanin, b, c) /\ Before(fanin, c, d) => Before(fanin, b, d)
         /\ Before(fanin, c, d) \/ c = d \/ Before(fanin, d, c)
<1>. DEFINE third(x) == IF fanin = 3 THEN x[2][3] ELSE 0
            Ord(x, y) == Lex(x[1], third(x), x[2][2], x[2][1], y[1], third(y), y[2][2], y[2][1])
<1>1. Earlier(c, d) <=> Before(fanin, c, d)
  BY DEF Earlier, EarlierStep, Before
<1>2. \A x \in Nat \X Step :
        x[1] \in Nat /\ third(x) \in Nat /\ x[2][2] \in Nat /\ x[2][1] \in Nat
  <2>. TAKE x \in Nat \X Step
  <2>1. x[1] \in Nat /\ x[2] \in [1 .. fanin -> Nat]
    BY DEF Step
  <2>2. 1 \in 1 .. fanin /\ 2 \in 1 .. fanin /\ (fanin = 3 => 3 \in 1 .. fanin)
    OBVIOUS
  <2>. QED  BY <2>1, <2>2
<1>3. \A x, y \in Nat \X Step : Before(fanin, x, y) <=> Ord(x, y)
  <2>. TAKE x \in Nat \X Step, y \in Nat \X Step
  <2>1. x[2] \in [1 .. fanin -> Nat] /\ y[2] \in [1 .. fanin -> Nat]
        /\ x[1] \in Nat /\ y[1] \in Nat
    BY DEF Step
  <2>2. CASE fanin = 2
    BY <2>1, <2>2 DEF Before, Lex
  <2>3. CASE fanin = 3
    BY <2>1, <2>3 DEF Before, Lex
  <2>. QED  BY <2>2, <2>3
<1>4. \A x, y \in Nat \X Step :
        x[1] = y[1] /\ third(x) = third(y) /\ x[2][2] = y[2][2] /\ x[2][1] = y[2][1] => x = y
  <2>. SUFFICES ASSUME NEW x \in Nat \X Step, NEW y \in Nat \X Step, x[1] = y[1],
                       third(x) = third(y), x[2][2] = y[2][2], x[2][1] = y[2][1]
                PROVE  x = y
    OBVIOUS
  <2>1. \A k \in 1 .. fanin : x[2][k] = y[2][k]
    OBVIOUS
  <2>2. x[2] = y[2]
    BY <2>1 DEF Step
  <2>. QED  BY <2>2
<1>. HIDE DEF third
<1>5. /\ b[1] \in Nat /\ third(b) \in Nat /\ b[2][2] \in Nat /\ b[2][1] \in Nat
      /\ c[1] \in Nat /\ third(c) \in Nat /\ c[2][2] \in Nat /\ c[2][1] \in Nat
      /\ d[1] \in Nat /\ third(d) \in Nat /\ d[2][2] \in Nat /\ d[2][1] \in Nat
  BY <1>2
<1>6. ~Ord(c, c) /\ (Ord(b, c) /\ Ord(c, d) => Ord(b, d))
  BY <1>5 DEF Lex
<1>7. Ord(c, d) \/ Ord(d, c) \/ (c[1] = d[1] /\ third(c) = third(d)
        /\ c[2][2] = d[2][2] /\ c[2][1] = d[2][1])
  BY <1>5 DEF Lex
<1>8. Ord(c, d) \/ c = d \/ Ord(d, c)
  BY <1>4, <1>7
<1>. HIDE DEF Ord
<1>. QED  BY <1>1, <1>3, <1>6, <1>8

LEMMA FollowStep ==
  ASSUME Typed, CallsFollow, [Next]_vars
  PROVE  CallsFollow'
<1>0. fanin \in {2, 3} /\ nrVertices \in Nat \ {0} /\ level \in Nat
  BY Parameters
<1>1. CASE Choose
  <2>1. PICK c \in Candidates :
          /\ steps' = [steps EXCEPT ![level + 1] = c[2]]
          /\ \A d \in 1 .. level - 1 : calls'[d] = calls[d]
          /\ calls'[level] = c
    BY <1>1, ChooseFacts
  <2>2. /\ level \in 1 .. nrVertices - 1 /\ level' = level + 1
        /\ UNCHANGED <<fanin, genType, nrVertices>>
    BY <1>1, ChooseFacts
  <2>3. steps'[level + 1] = c[2] /\ \A v \in 1 .. level : steps'[v] = steps[v]
    BY <2>1, <2>2, <1>0 DEF Typed
  <2>. SUFFICES ASSUME Plain, NEW d \in 1 .. level
                PROVE  calls'[d] = PlaceOf(fanin, steps'[d + 1])
    BY <2>2, <1>0 DEF CallsFollow, Plain
  <2>4. CASE d = level
    BY <2>1, <2>2, <2>3, <2>4, <1>0, CandidateFacts, PlaceFacts
  <2>5. CASE d # level
    <3>1. d \in 1 .. level - 1 /\ d + 1 \in 1 .. level
      BY <2>5, <1>0
    <3>. QED  BY <3>1, <2>1, <2>3 DEF CallsFollow
  <2>. QED  BY <2>4, <2>5
<1>2. CASE Return
  <2>1. /\ level \in 1 .. nrVertices /\ level' = level - 1
        /\ \A d \in 1 .. level' : calls'[d] = calls[d]
        /\ UNCHANGED <<fanin, genType, steps>>
    BY <1>2, ReturnFacts
  <2>. SUFFICES ASSUME Plain, NEW d \in 1 .. level' - 1
                PROVE  calls'[d] = PlaceOf(fanin, steps[d + 1])
    BY <2>1 DEF CallsFollow, Plain
  <2>2. d \in 1 .. level' /\ d \in 1 .. level - 1
    BY <2>1, <1>0
  <2>. QED  BY <2>1, <2>2 DEF CallsFollow
<1>3. CASE NextSize
  <2>1. 1 .. level' - 1 = {}
    BY <1>3 DEF NextSize, Reset
  <2>. QED  BY <2>1 DEF CallsFollow
<1>4. CASE UNCHANGED vars
  BY <1>4 DEF vars, CallsFollow, Plain
<1>. QED  BY <1>1, <1>2, <1>3, <1>4, ReturnActions DEF Next, Terminated

(* The graph just completed lies behind no call: it is a new one. *)
LEMMA NewGraph ==
  ASSUME Typed, CallsFollow, AllBehind, ReportsRight, fanin = 2, level = nrVertices,
         calls # <<>>, NEW n \in DOMAIN dags
  PROVE  dags[n] # steps
<1>1. PICK d \in 1 .. level : BehindAt(dags[n], d)
  BY DEF AllBehind
<1>2. d \in 1 .. level - 1 /\ d + 1 \in 1 .. nrVertices
  BY <1>1, Parameters DEF BehindAt
<1>3. Before(fanin, PlaceOf(fanin, dags[n][d + 1]), PlaceOf(fanin, steps[d + 1]))
  BY <1>1, <1>2, Parameters DEF BehindAt, CallsFollow, Plain
<1>4. ~Before(fanin, PlaceOf(fanin, steps[d + 1]), PlaceOf(fanin, steps[d + 1]))
  BY <1>2, Parameters, PlaceFacts, BeforeFacts DEF Typed
<1>. QED  BY <1>3, <1>4

(* When a call returns, what was behind the calls stays behind them, and   *)
(* so is the graph the call completed.                                     *)
LEMMA ReturnBehind ==
  ASSUME Typed, CallsFollow, Return, Plain, calls' # <<>>,
         NEW g \in [1 .. nrVertices -> Step],
         \/ g = steps /\ level = nrVertices
         \/ \E d \in 1 .. level : BehindAt(g, d)
  PROVE  \E d \in 1 .. level' : BehindAt(g, d)'
<1>0. /\ level \in 1 .. nrVertices /\ level' = level - 1 /\ nrVertices \in Nat
      /\ calls' \in Seq(Nat \X Step) /\ Len(calls') = level'
      /\ \A d \in 1 .. level' : calls'[d] = calls[d]
      /\ UNCHANGED <<fanin, nrVertices, steps>>
  BY ReturnFacts, Parameters
<1>1. PICK e \in 1 .. level - 1 : e = level'
  <2>1. Len(calls') # 0
    BY <1>0
  <2>. QED  BY <2>1, <1>0
<1>2. e \in 1 .. level' /\ e < nrVertices /\ e + 1 = level
  BY <1>0, <1>1
<1>3. calls'[e] = PlaceOf(fanin, steps[level])
  BY <1>0, <1>1, <1>2 DEF CallsFollow
<1>4. ASSUME \A v \in 1 .. level : g[v] = steps[v]
      PROVE  BehindAt(g, e)'
  <2>1. PlaceOf(fanin, g[e + 1]) = calls'[e] /\ \A v \in 1 .. e : g[v] = steps[v]
    BY <1>0, <1>2, <1>3, <1>4
  <2>. QED  BY <1>0, <1>1, <1>2, <2>1 DEF BehindAt
<1>5. ASSUME NEW d \in 1 .. level, BehindAt(g, d)
      PROVE  \E f \in 1 .. level' : BehindAt(g, f)'
  <2>1. CASE d = level
    <3>1. BehindAt(g, e)'
      BY <2>1, <1>4, <1>5 DEF BehindAt
    <3>. QED  BY <3>1, <1>2
  <2>2. CASE d # level
    <3>1. d \in 1 .. level' /\ d < nrVertices /\ (\A v \in 1 .. d : g[v] = steps[v])
          /\ Before(fanin, PlaceOf(fanin, g[d + 1]), calls'[d])
      BY <2>2, <1>0, <1>5 DEF BehindAt
    <3>2. BehindAt(g, d)'
      BY <3>1, <1>0 DEF BehindAt
    <3>. QED  BY <3>1, <3>2
  <2>. QED  BY <2>1, <2>2
<1>6. CASE g = steps /\ level = nrVertices
  <2>1. BehindAt(g, e)'
    BY <1>4, <1>6
  <2>. QED  BY <2>1, <1>2
<1>. QED  BY <1>5, <1>6

LEMMA GraphTyped ==
  ASSUME ReportsRight
  PROVE  DOMAIN dags = 1 .. Len(dags)
         /\ \A n \in DOMAIN dags : dags[n] \in [1 .. nrVertices -> Step]
BY DEF ReportsRight

(* A choice moves the search on: what was behind stays behind. *)
LEMMA ChooseBehind ==
  ASSUME Typed, Choose, NEW g \in [1 .. nrVertices -> Step],
         NEW d \in 1 .. level, BehindAt(g, d)
  PROVE  d \in 1 .. level' /\ BehindAt(g, d)'
<1>1. PICK c \in Candidates :
        /\ Earlier(Last(calls), c)
        /\ steps' = [steps EXCEPT ![level + 1] = c[2]]
        /\ \A e \in 1 .. level - 1 : calls'[e] = calls[e]
        /\ calls'[level] = c
  BY ChooseFacts
<1>2. /\ level \in 1 .. nrVertices - 1 /\ level' = level + 1
      /\ UNCHANGED <<fanin, nrVertices>>
  BY ChooseFacts
<1>3. \A v \in 1 .. level : steps'[v] = steps[v]
  BY <1>1, <1>2, Parameters DEF Typed
<1>4. d \in 1 .. level' /\ d < nrVertices /\ \A v \in 1 .. d : g[v] = steps'[v]
  BY <1>2, <1>3, Parameters DEF BehindAt
<1>5. Before(fanin, PlaceOf(fanin, g[d + 1]), calls'[d])
  <2>1. CASE d = level
    <3>1. calls[level] \in Nat \X Step /\ Last(calls) = calls[level]
      BY <1>2, Parameters DEF Typed, Last
    <3>2. PlaceOf(fanin, g[d + 1]) \in Nat \X Step
      BY <1>4, Parameters, PlaceFacts
    <3>3. Before(fanin, calls[level], c) /\ c \in Nat \X Step
      BY <3>1, <1>1, <1>2, Parameters, CandidateFacts, BeforeFacts
    <3>. QED  BY <2>1, <3>1, <3>2, <3>3, <1>1, Parameters, BeforeFacts DEF BehindAt
  <2>2. CASE d # level
    <3>1. calls'[d] = calls[d]
      BY <2>2, <1>1, <1>2
    <3>. QED  BY <2>2, <3>1 DEF BehindAt
  <2>. QED  BY <2>1, <2>2
<1>. QED  BY <1>2, <1>4, <1>5 DEF BehindAt

LEMMA BehindInit == Init => AllBehind /\ CallsFollow /\ Distinct
<1>. SUFFICES ASSUME Init PROVE AllBehind /\ CallsFollow /\ Distinct
  OBVIOUS
<1>1. dags = <<>> /\ level = 1 /\ 1 .. 1 - 1 = {}
  BY DEF Init
<1>. QED  BY <1>1 DEF AllBehind, CallsFollow, Distinct, IsInjective

LEMMA BehindStep ==
  ASSUME Typed, CallsFollow, ReportsRight, AllBehind, [Next]_vars
  PROVE  AllBehind'
<1>. SUFFICES ASSUME fanin' = 2, calls' # <<>>, NEW n \in DOMAIN dags'
              PROVE  \E d \in 1 .. level' : BehindAt(dags[n], d)'
  BY DEF AllBehind
<1>1. CASE Choose
  <2>1. n \in DOMAIN dags /\ fanin = 2 /\ calls # <<>> /\ dags' = dags
    BY <1>1, ChooseFacts DEF Choose
  <2>2. PICK g \in [1 .. nrVertices -> Step] : g = dags[n]
    BY <2>1, GraphTyped
  <2>3. PICK d \in 1 .. level : BehindAt(g, d)
    BY <2>1, <2>2 DEF AllBehind
  <2>4. d \in 1 .. level' /\ BehindAt(g, d)'
    BY <1>1, <2>3, ChooseBehind
  <2>5. BehindAt(dags[n], d)'
    BY <2>1, <2>2, <2>4 DEF BehindAt
  <2>. QED  BY <2>4, <2>5
<1>2. CASE Accept
  <2>1. Return /\ level = nrVertices /\ fanin = 2
    BY <1>2, ReturnActions DEF Accept
  <2>2. dags' = dags \/ dags' = Append(dags, steps)
    BY <1>2 DEF Accept
  <2>3. steps \in [1 .. nrVertices -> Step]
    BY DEF Typed
  <2>4. dags'[n] = steps \/ (n \in DOMAIN dags /\ dags'[n] = dags[n])
    BY <2>2, <2>3 DEF ReportsRight
  <2>5. PICK g \in [1 .. nrVertices -> Step] : g = dags'[n]
    BY <2>3, <2>4, GraphTyped
  <2>6. g = steps \/ \E d \in 1 .. level : BehindAt(g, d)
    BY <2>1, <2>4, <2>5 DEF AllBehind, Return
  <2>7. PICK d \in 1 .. level' : BehindAt(g, d)'
    BY <2>1, <2>6, ReturnBehind DEF Plain
  <2>8. BehindAt(dags[n], d)'
    BY <2>5, <2>7 DEF BehindAt
  <2>. QED  BY <2>8
<1>3. CASE Return /\ UNCHANGED <<fanin, genType, nrVertices, dags>>
  <2>1. n \in DOMAIN dags /\ fanin = 2 /\ calls # <<>>
    BY <1>3 DEF Return
  <2>2. PICK g \in [1 .. nrVertices -> Step] : g = dags[n]
    BY <2>1, GraphTyped
  <2>3. \E d \in 1 .. level : BehindAt(g, d)
    BY <2>1, <2>2 DEF AllBehind
  <2>4. PICK d \in 1 .. level' : BehindAt(g, d)'
    BY <1>3, <2>1, <2>3, ReturnBehind DEF Plain
  <2>5. BehindAt(dags[n], d)'
    BY <1>3, <2>2, <2>4 DEF BehindAt
  <2>. QED  BY <2>5
<1>4. CASE NextSize
  BY <1>4 DEF NextSize, Reset
<1>5. CASE UNCHANGED vars
  <2>1. PICK d \in 1 .. level : BehindAt(dags[n], d)
    BY <1>5 DEF vars, AllBehind
  <2>2. d \in 1 .. level' /\ BehindAt(dags[n], d)'
    BY <1>5, <2>1 DEF vars, BehindAt
  <2>. QED  BY <2>2
<1>. QED  BY <1>1, <1>2, <1>3, <1>4, <1>5, GraphsStep

LEMMA DistinctStep ==
  ASSUME Typed, CallsFollow, ReportsRight, AllBehind, Distinct, [Next]_vars
  PROVE  Distinct'
<1>1. CASE Accept
  <2>. SUFFICES ASSUME fanin = 2, NEW m \in DOMAIN dags', NEW n \in DOMAIN dags',
                       dags'[m] = dags'[n]
                PROVE  m = n
    BY <1>1 DEF Accept, Distinct, IsInjective
  <2>1. level = nrVertices /\ calls # <<>>
    BY <1>1 DEF Accept
  <2>2. \A k \in DOMAIN dags : dags[k] # steps
    BY <2>1, NewGraph
  <2>3. dags \in Seq([1 .. nrVertices -> Step]) /\ steps \in [1 .. nrVertices -> Step]
    BY DEF Typed, ReportsRight
  <2>4. CASE dags' = dags
    BY <2>4 DEF Distinct, IsInjective
  <2>5. CASE dags' = Append(dags, steps)
    <3>1. \A k \in DOMAIN dags' :
            \/ k = Len(dags) + 1 /\ dags'[k] = steps
            \/ k \in DOMAIN dags /\ dags'[k] = dags[k]
      BY <2>3, <2>5
    <3>. QED  BY <2>2, <3>1 DEF Distinct, IsInjective
  <2>. QED  BY <1>1, <2>4, <2>5 DEF Accept
<1>2. CASE NextSize
  BY <1>2 DEF NextSize, Reset, Distinct, IsInjective
<1>3. CASE UNCHANGED <<fanin, genType, nrVertices, dags>>
  BY <1>3 DEF Distinct, IsInjective
<1>. QED  BY <1>1, <1>2, <1>3, GraphsStep

(* The callback gets connected graphs in order, and over two fanins no     *)
(* graph twice, whatever the matrix of disabled steps holds.               *)
THEOREM EachGraphOnce == Spec => []ReportsOnce
<1>. DEFINE IInv == /\ Typed /\ CoveredMatchesSteps /\ StepsInOrder /\ ReportsRight
                    /\ CallsFollow /\ AllBehind /\ Distinct
<1>1. Init => IInv
  BY TypedInit, CoveredInit, InOrderInit, ReportsInit, BehindInit
<1>2. IInv /\ [Next]_vars => IInv'
  BY TypedStep, CoveredStep, InOrderStep, ReportsStep, FollowStep, BehindStep, DistinctStep
<1>3. IInv => ReportsOnce
  BY OrderedIs DEF ReportsOnce, ReportsRight, Distinct, Reporting
<1>. QED  BY <1>1, <1>2, <1>3, PTL DEF Spec
-----------------------------------------------------------------------------
(* The number of graphs found.  Every graph of the type lies in front of   *)
(* the calls that are active, behind them, or is being completed; those    *)
(* behind are as many as the search has counted.                           *)

(* The searches that find every graph of their type. *)
Exhaustive == genType \in {"TUPLES", "CONNECTED"} \/ (genType = "COLEX" /\ fanin = 2)

(* The search has come past graph t. *)
Past(t) == calls = <<>> \/ \E d \in 1 .. level : BehindAt(t, d)

Found == {t \in OfType(nrVertices) : Past(t)}

Counted == Exhaustive => IsFiniteSet(Found) /\ Cardinality(Found) = nrSolutions

LEMMA OfTypeFacts ==
  ASSUME Typed, NEW t \in OfType(nrVertices)
  PROVE  /\ t \in [1 .. nrVertices -> Step]
         /\ Len(t) = nrVertices /\ DOMAIN t = 1 .. nrVertices
         /\ \A v \in 1 .. nrVertices : t[v] \in StepsAbove(v - 1)
         /\ genType # "TUPLES" => Connected(t)
         /\ InOrder => \A v \in 2 .. nrVertices :
                         t[v] = Inputs \/ ~EarlierStep(t[v], t[v - 1])
<1>0. fanin \in {2, 3} /\ nrVertices \in Nat \ {0} /\ genType \in AllTypes
  BY Parameters
<1>1. /\ t \in Tuples(nrVertices) /\ (genType # "TUPLES" => Connected(t))
      /\ InOrder => Ordered(t)
  BY <1>0 DEF OfType, InOrder, AllTypes
<1>2. StepsAbove(nrVertices - 1) \subseteq Step
  BY <1>0, StepsAboveFacts
<1>3. /\ t \in [1 .. nrVertices -> Step]
      /\ \A v \in 1 .. nrVertices : t[v] \in StepsAbove(v - 1)
  BY <1>1, <1>2 DEF Tuples
<1>4. Len(t) = nrVertices /\ DOMAIN t = 1 .. nrVertices
  BY <1>0, <1>3
<1>. QED  BY <1>1, <1>3, <1>4 DEF Ordered

(* What the loops do not try, they do not need: the next step of every     *)
(* graph that begins as the search does is among the candidates.           *)
LEMMA CandidatesComplete ==
  ASSUME Typed, Exhaustive, level \in 1 .. nrVertices - 1,
         NEW t \in OfType(nrVertices), \A v \in 1 .. level : t[v] = steps[v]
  PROVE  PlaceOf(fanin, t[level + 1]) \in Candidates
<1>0. fanin \in {2, 3} /\ level \in Nat /\ nrVertices \in Nat
  BY Parameters
<1>1. /\ level + 1 \in 2 .. nrVertices /\ (level + 1) - 1 = level
      /\ level \in 1 .. nrVertices /\ level - 1 \in Nat
  BY <1>0
<1>2. t[level + 1] \in StepsAbove(level)
  BY <1>1, OfTypeFacts
<1>3. PlaceOf(fanin, t[level + 1]) = InLoop(t[level + 1])
  BY <1>0, PlaceFacts
<1>4. CASE genType \in {"TUPLES", "CONNECTED"}
  BY <1>2, <1>3, <1>4 DEF Candidates
<1>5. CASE genType = "COLEX" /\ fanin = 2
  <2>1. t[level + 1] = Inputs \/ ~EarlierStep(t[level + 1], steps[level])
    BY <1>1, <1>5, OfTypeFacts DEF InOrder
  <2>2. /\ t[level + 1] \in [1 .. 2 -> Nat] /\ steps[level] \in [1 .. 2 -> Nat]
        /\ t[level + 1] \in StepsAbove(level) /\ steps[level] \in StepsAbove(level - 1)
    BY <1>0, <1>1, <1>2, <1>5, StepsAboveFacts DEF Typed, Step
  <2>3. t[level + 1] = Inputs \/ ~EarlierStep(t[level + 1], ColexFrom(steps[level]))
    <3>1. CASE steps[level][1] = steps[level][2]
      <4>1. steps[level][1] = 0 /\ steps[level][2] = 0
        BY <2>2, <3>1, <1>5 DEF StepsAbove
      <4>2. t[level + 1] = Inputs \/ t[level + 1][2] > 0
        BY <2>2, <1>5 DEF StepsAbove, Inputs
      <4>3. ColexFrom(steps[level]) = <<0, 1>>
        BY <3>1, <4>1 DEF ColexFrom
      <4>4. t[level + 1][2] > 0 => ~EarlierStep(t[level + 1], <<0, 1>>)
        BY <2>2, <1>5 DEF EarlierStep
      <4>. QED  BY <4>2, <4>3, <4>4
    <3>2. CASE steps[level][1] # steps[level][2]
      BY <2>1, <3>2 DEF ColexFrom
    <3>. QED  BY <3>1, <3>2
  <2>. QED  BY <2>3, <1>2, <1>3, <1>5 DEF Candidates, Ordered2
<1>. QED  BY <1>4, <1>5 DEF Exhaustive

(* Of such graphs those behind the last step tried are the ones before the *)
(* next; when nothing is left to try, all of them are behind.              *)
LEMMA NextCandidate ==
  ASSUME Typed, Exhaustive, level \in 1 .. nrVertices - 1,
         NEW t \in OfType(nrVertices), \A v \in 1 .. level : t[v] = steps[v]
  PROVE  /\ Untried = {} => BehindAt(t, level)
         /\ \A c \in Untried :
              (\A d \in Untried : d = c \/ Earlier(c, d)) =>
                (Before(fanin, PlaceOf(fanin, t[level + 1]), c) <=> BehindAt(t, level))
<1>. DEFINE place == PlaceOf(fanin, t[level + 1])
            last == calls[level]
<1>0. fanin \in {2, 3} /\ level \in Nat /\ nrVertices \in Nat
  BY Parameters
<1>1. place \in Candidates /\ place \in Nat \X Step
  <2>1. level + 1 \in 1 .. nrVertices
    BY <1>0
  <2>2. t[level + 1] \in Step
    BY <2>1, OfTypeFacts
  <2>. QED  BY <2>2, <1>0, CandidatesComplete, PlaceFacts
<1>2. last \in Nat \X Step /\ Last(calls) = last
  BY <1>0 DEF Typed, Last
<1>3. BehindAt(t, level) <=> Before(fanin, place, last) \/ place = last
  BY <1>0 DEF BehindAt
<1>4. place \in Untried <=> Before(fanin, last, place)
  BY <1>0, <1>1, <1>2, BeforeFacts DEF Untried
<1>5. Before(fanin, place, last) \/ place = last \/ Before(fanin, last, place)
  BY <1>0, <1>1, <1>2, BeforeFacts
<1>6. ASSUME NEW c \in Untried, \A d \in Untried : d = c \/ Earlier(c, d)
      PROVE  Before(fanin, place, c) <=> BehindAt(t, level)
  <2>1. c \in Nat \X Step /\ Before(fanin, last, c)
    BY <1>0, <1>2, CandidateFacts, BeforeFacts DEF Untried
  <2>2. BehindAt(t, level) => Before(fanin, place, c)
    BY <2>1, <1>0, <1>1, <1>2, <1>3, BeforeFacts
  <2>3. ASSUME Before(fanin, place, c), place \in Untried PROVE FALSE
    <3>1. place = c \/ Before(fanin, c, place)
      BY <2>1, <2>3, <1>0, <1>1, <1>6, BeforeFacts
    <3>2. ~Before(fanin, c, c)
      BY <2>1, <1>0, BeforeFacts
    <3>3. Before(fanin, c, place) /\ Before(fanin, place, c) => Before(fanin, c, c)
      BY <2>1, <1>0, <1>1, BeforeFacts
    <3>. QED  BY <2>3, <3>1, <3>2, <3>3
  <2>. QED  BY <2>2, <2>3, <1>3, <1>4, <1>5
<1>7. Untried = {} => BehindAt(t, level)
  BY <1>3, <1>4, <1>5
<1>. QED  BY <1>6, <1>7

(* A complete choice of steps is a graph of the type unless one of them is *)
(* uncovered.                                                              *)
LEMMA CompleteGraph ==
  ASSUME Typed, CoveredMatchesSteps, StepsInOrder, level = nrVertices
  PROVE  steps \in OfType(nrVertices) <=> ~Uncovered
<1>0. fanin \in {2, 3} /\ nrVertices \in Nat \ {0} /\ genType \in AllTypes
  BY Parameters
<1>1. steps \in Tuples(nrVertices)
  <2>1. ASSUME NEW v \in 1 .. nrVertices
        PROVE  steps[v] \in StepsAbove(nrVertices - 1)
    <3>1. steps[v] \in StepsAbove(v - 1) /\ 0 .. v - 1 \subseteq 0 .. nrVertices - 1
      BY <1>0 DEF Typed
    <3>. QED  BY <3>1, <1>0 DEF StepsAbove
  <2>. QED  BY <2>1 DEF Typed, Tuples
<1>2. genType # "TUPLES" /\ ~Uncovered => Connected(steps)
  BY NoneUncovered
<1>3. InOrder => Ordered(steps)
  BY StepsLength DEF StepsInOrder, Ordered
<1>4. ASSUME Uncovered, Connected(steps) PROVE FALSE
  <2>1. PICK i \in 1 .. nrVertices - 1 : covered[i] = 0 /\ genType # "TUPLES"
    BY <1>4 DEF Uncovered
  <2>2. PICK v \in 1 .. nrVertices : i \in Range(steps[v])
    BY <1>4, <2>1, StepsLength DEF Connected
  <2>3. PICK k \in 1 .. fanin : steps[v][k] = i
    BY <2>2 DEF Range, Typed, Step
  <2>4. <<v, k>> \in UsesBelow(steps, nrVertices, i)
    BY <2>3 DEF UsesBelow
  <2>5. Cardinality(UsesBelow(steps, nrVertices, i)) = 0
    BY <2>1, <1>0, CoveredIs
  <2>. QED  BY <2>4, <2>5, <1>0, UsesBelowFinite, FS_EmptySet
<1>. QED  BY <1>0, <1>1, <1>2, <1>3, <1>4 DEF OfType, Uncovered, InOrder, AllTypes

(* No search comes past a graph by its first, fresh, call. *)
LEMMA FreshIsFirst ==
  ASSUME NEW f, NEW s, NEW t
  PROVE  ~Before(f, PlaceOf(f, s), <<0, t>>) /\ PlaceOf(f, s) # <<0, t>>
BY DEF Before, PlaceOf

LEMMA SameType ==
  ASSUME UNCHANGED <<fanin, genType, nrVertices>>
  PROVE  OfType(nrVertices)' = OfType(nrVertices)
BY DEF OfType, Tuples, Connected, Ordered, StepsAbove, Inputs, EarlierStep

(* The choice of the next candidate comes past no graph. *)
LEMMA ChoosePast ==
  ASSUME Typed, Exhaustive, Choose, NEW t \in OfType(nrVertices)
  PROVE  Past(t)' <=> Past(t)
<1>0. /\ fanin \in {2, 3} /\ level \in Nat /\ nrVertices \in Nat
      /\ t \in [1 .. nrVertices -> Step]
  BY Parameters, OfTypeFacts
<1>1. /\ level \in 1 .. nrVertices - 1 /\ level' = level + 1
      /\ UNCHANGED <<fanin, genType, nrVertices>> /\ calls # <<>>
  BY ChooseFacts DEF Choose
<1>2. PICK c \in Candidates :
        /\ Earlier(Last(calls), c)
        /\ \A d \in Untried : d = c \/ Earlier(c, d)
        /\ steps' = [steps EXCEPT ![level + 1] = c[2]]
        /\ Len(calls') = level + 1
        /\ \A d \in 1 .. level - 1 : calls'[d] = calls[d]
        /\ calls'[level] = c /\ calls'[level + 1] = Fresh
  BY ChooseFacts
<1>3. c \in Untried
  BY <1>2 DEF Untried
<1>4. calls' # <<>> /\ \A v \in 1 .. level : steps'[v] = steps[v]
  <2>1. \A v \in 1 .. level : steps'[v] = steps[v]
    BY <1>1, <1>2, <1>0 DEF Typed
  <2>2. Len(calls') # 0
    BY <1>2, <1>0
  <2>. QED  BY <2>1, <2>2
<1>5. Past(t) => Past(t)'
  BY <1>0, <1>1, ChooseBehind DEF Past
<1>6. ASSUME NEW d \in 1 .. level', BehindAt(t, d)'
      PROVE  \E e \in 1 .. level : BehindAt(t, e)
  <2>1. /\ d < nrVertices /\ \A v \in 1 .. d : t[v] = steps'[v]
        /\ \/ Before(fanin, PlaceOf(fanin, t[d + 1]), calls'[d])
           \/ d = level + 1 /\ PlaceOf(fanin, t[d + 1]) = calls'[d]
    BY <1>1, <1>6 DEF BehindAt
  <2>2. d # level + 1
    <3>1. calls'[level + 1] = <<0, Inputs>>
      BY <1>2 DEF Fresh
    <3>2. /\ ~Before(fanin, PlaceOf(fanin, t[d + 1]), <<0, Inputs>>)
          /\ PlaceOf(fanin, t[d + 1]) # <<0, Inputs>>
      BY FreshIsFirst
    <3>. QED  BY <2>1, <3>1, <3>2
  <2>3. d \in 1 .. level /\ \A v \in 1 .. d : t[v] = steps[v]
    BY <2>1, <2>2, <1>0, <1>1, <1>4
  <2>4. CASE d = level
    BY <2>1, <2>2, <2>3, <2>4, <1>1, <1>2, <1>3, NextCandidate
  <2>5. CASE d # level
    <3>1. d \in 1 .. level - 1
      BY <2>3, <2>5, <1>0
    <3>. QED  BY <2>1, <2>2, <2>3, <3>1, <1>2 DEF BehindAt
  <2>. QED  BY <2>3, <2>4, <2>5
<1>. QED  BY <1>1, <1>4, <1>5, <1>6 DEF Past

(* A call returns when all graphs that go its way are behind it, or with   *)
(* the one graph it has completed.                                         *)
LEMMA ReturnPast ==
  ASSUME Typed, Exhaustive, CallsFollow, Return,
         level = nrVertices \/ (level < nrVertices /\ Untried = {}),
         NEW t \in OfType(nrVertices)
  PROVE  Past(t)' <=> Past(t) \/ (level = nrVertices /\ t = steps)
<1>0. /\ fanin \in {2, 3} /\ nrVertices \in Nat \ {0} /\ Plain /\ calls # <<>>
      /\ t \in [1 .. nrVertices -> Step]
  BY Parameters, OfTypeFacts DEF Plain, Exhaustive, Return
<1>1. /\ level \in 1 .. nrVertices /\ level' = level - 1
      /\ calls' \in Seq(Nat \X Step) /\ Len(calls') = level'
      /\ \A d \in 1 .. level' : calls'[d] = calls[d]
      /\ UNCHANGED <<fanin, genType, nrVertices, steps>>
  BY ReturnFacts
<1>2. ASSUME \A v \in 1 .. level : t[v] = steps[v]
      PROVE  Past(t) \/ (level = nrVertices /\ t = steps)
  <2>1. CASE level = nrVertices
    <3>1. t = steps
      BY <1>0, <1>2, <2>1 DEF Typed
    <3>. QED  BY <2>1, <3>1
  <2>2. CASE level < nrVertices /\ Untried = {}
    <3>1. level \in 1 .. nrVertices - 1
      BY <1>0, <1>1, <2>2
    <3>2. BehindAt(t, level)
      BY <1>2, <2>2, <3>1, NextCandidate
    <3>. QED  BY <3>2, <1>1 DEF Past
  <2>. QED  BY <2>1, <2>2
<1>3. CASE level = 1
  <2>1. Len(calls') = 0
    BY <1>1, <1>3
  <2>2. calls' = <<>>
    BY <2>1, <1>1
  <2>3. t[1] = steps[1]
    <3>1. 1 \in 1 .. nrVertices /\ 1 - 1 = 0
      BY <1>0
    <3>2. t[1] \in StepsAbove(0) /\ steps[1] \in StepsAbove(0)
      BY <3>1, OfTypeFacts DEF Typed
    <3>3. \A s \in StepsAbove(0) : s = Inputs
      BY <1>0 DEF StepsAbove, Inputs
    <3>. QED  BY <3>2, <3>3
  <2>. QED  BY <2>2, <2>3, <1>2, <1>3 DEF Past
<1>4. CASE level # 1
  <2>1. /\ calls' # <<>> /\ level' \in 1 .. nrVertices - 1 /\ level = level' + 1
        /\ level' \in 1 .. level - 1
    <3>1. Len(calls') # 0
      BY <1>0, <1>1, <1>4
    <3>. QED  BY <3>1, <1>0, <1>1, <1>4
  <2>2. /\ 1 .. level' \subseteq 1 .. level
        /\ \A v \in 1 .. level : v = level \/ v \in 1 .. level'
    <3>1. ASSUME NEW m \in Nat PROVE 1 .. m \subseteq 1 .. m + 1
                                   /\ \A v \in 1 .. m + 1 : v = m + 1 \/ v \in 1 .. m
      OBVIOUS
    <3>2. level' \in Nat
      BY <2>1, <1>0
    <3>. QED  BY <2>1, <3>1, <3>2
  <2>3. calls[level'] = PlaceOf(fanin, steps[level]) /\ calls'[level'] = calls[level']
    BY <2>1, <1>0, <1>1 DEF CallsFollow
  <2>4. Past(t) \/ (level = nrVertices /\ t = steps) => Past(t)'
    BY <2>1, <1>0, ReturnBehind DEF Past
  <2>5. ASSUME NEW d \in 1 .. level', BehindAt(t, d)'
        PROVE  Past(t) \/ (level = nrVertices /\ t = steps)
    <3>1. /\ d < nrVertices /\ \A v \in 1 .. d : t[v] = steps[v]
          /\ \/ Before(fanin, PlaceOf(fanin, t[d + 1]), calls[d])
             \/ d = level' /\ PlaceOf(fanin, t[d + 1]) = calls[d]
      BY <2>5, <1>1 DEF BehindAt
    <3>2. CASE Before(fanin, PlaceOf(fanin, t[d + 1]), calls[d])
      <4>1. d \in 1 .. level
        BY <2>2
      <4>2. BehindAt(t, d)
        BY <3>1, <3>2 DEF BehindAt
      <4>. QED  BY <4>1, <4>2 DEF Past
    <3>3. CASE d = level' /\ PlaceOf(fanin, t[d + 1]) = calls[d]
      <4>1. PlaceOf(fanin, t[level]) = PlaceOf(fanin, steps[level])
        BY <2>1, <2>3, <3>3
      <4>2. t[level] = steps[level]
        BY <4>1 DEF PlaceOf
      <4>3. \A v \in 1 .. level : v = level \/ v \in 1 .. d
        BY <2>2, <3>3
      <4>. QED  BY <3>1, <4>2, <4>3, <1>2
    <3>. QED  BY <3>1, <3>2, <3>3
  <2>. QED  BY <2>1, <2>4, <2>5 DEF Past
<1>. QED  BY <1>3, <1>4

(* The graph just completed has not been passed before. *)
LEMMA CompletedIsNew ==
  ASSUME Typed, Exhaustive, CallsFollow, calls # <<>>, level = nrVertices
  PROVE  ~Past(steps)
<1>. SUFFICES ASSUME NEW d \in 1 .. level, BehindAt(steps, d) PROVE FALSE
  BY DEF Past
<1>0. fanin \in {2, 3} /\ nrVertices \in Nat /\ Plain
  BY Parameters DEF Plain, Exhaustive
<1>1. d \in 1 .. level - 1 /\ d + 1 \in 1 .. nrVertices
  BY <1>0 DEF BehindAt
<1>2. calls[d] = PlaceOf(fanin, steps[d + 1]) /\ steps[d + 1] \in Step
  BY <1>0, <1>1 DEF CallsFollow, Typed
<1>3. PlaceOf(fanin, steps[d + 1]) \in Nat \X Step
  BY <1>0, <1>2, PlaceFacts
<1>4. ~Before(fanin, PlaceOf(fanin, steps[d + 1]), PlaceOf(fanin, steps[d + 1]))
  BY <1>0, <1>3, BeforeFacts
<1>. QED  BY <1>1, <1>2, <1>4 DEF BehindAt

LEMMA CountInit == Init => Counted
<1>. SUFFICES ASSUME Init PROVE Counted
  OBVIOUS
<1>1. calls = <<Fresh>> /\ level = 1 /\ nrSolutions = 0
  BY DEF Init
<1>2. \A t : ~Past(t)
  BY <1>1, FreshIsFirst DEF Past, BehindAt, Fresh
<1>3. Found = {}
  BY <1>2 DEF Found
<1>. QED  BY <1>1, <1>3, FS_EmptySet DEF Counted

LEMMA CountStep ==
  ASSUME Typed, CoveredMatchesSteps, StepsInOrder, CallsFollow, Counted, [Next]_vars
  PROVE  Counted'
<1>. SUFFICES ASSUME Exhaustive'
              PROVE  IsFiniteSet(Found') /\ Cardinality(Found') = nrSolutions'
  BY DEF Counted
<1>1. ASSUME UNCHANGED <<fanin, genType, nrVertices>>
      PROVE  /\ Exhaustive /\ OfType(nrVertices)' = OfType(nrVertices)
             /\ IsFiniteSet(Found) /\ Cardinality(Found) = nrSolutions
  BY <1>1, SameType DEF Exhaustive, Counted
<1>2. CASE Choose
  <2>1. UNCHANGED <<fanin, genType, nrVertices, nrSolutions>>
    BY <1>2 DEF Choose
  <2>2. Found' = Found
    BY <2>1, <1>1, <1>2, ChoosePast DEF Found
  <2>. QED  BY <2>1, <2>2, <1>1
<1>3. CASE Exhausted \/ Reject
  <2>1. /\ UNCHANGED <<fanin, genType, nrVertices, nrSolutions>> /\ Return
        /\ level = nrVertices \/ (level < nrVertices /\ Untried = {})
    BY <1>3, ReturnActions DEF Exhausted, Reject
  <2>2. ASSUME NEW t \in OfType(nrVertices) PROVE ~(level = nrVertices /\ t = steps)
    <3>1. CASE Reject
      BY <3>1, CompleteGraph DEF Reject
    <3>2. CASE Exhausted
      BY <3>2, Parameters DEF Exhausted
    <3>. QED  BY <1>3, <3>1, <3>2
  <2>3. \A t \in OfType(nrVertices) : Past(t)' <=> Past(t)
    BY <2>1, <2>2, <1>1, ReturnPast
  <2>4. Found' = Found
    BY <2>1, <2>3, <1>1 DEF Found
  <2>. QED  BY <2>1, <2>4, <1>1
<1>4. CASE Accept
  <2>1. /\ UNCHANGED <<fanin, genType, nrVertices>> /\ Return
        /\ level = nrVertices /\ ~Uncovered /\ nrSolutions' = nrSolutions + 1
    BY <1>4, ReturnActions DEF Accept
  <2>2. steps \in OfType(nrVertices) /\ steps \notin Found
    BY <2>1, <1>1, CompleteGraph, CompletedIsNew DEF Found, Return
  <2>3. \A t \in OfType(nrVertices) : Past(t)' <=> Past(t) \/ t = steps
    BY <2>1, <1>1, ReturnPast
  <2>4. Found' = Found \cup {steps}
    BY <2>1, <2>2, <2>3, <1>1 DEF Found
  <2>. QED  BY <2>1, <2>2, <2>4, <1>1, FS_AddElement
<1>5. CASE NextSize
  <2>1. calls' = <<Fresh>> /\ level' = 1 /\ nrSolutions' = 0
    BY <1>5 DEF NextSize, Reset
  <2>2. ASSUME NEW t PROVE ~Past(t)'
    BY <2>1, FreshIsFirst DEF Past, BehindAt, Fresh, Inputs
  <2>3. Found' = {}
    BY <2>2 DEF Found
  <2>. QED  BY <2>1, <2>3, FS_EmptySet
<1>6. CASE UNCHANGED vars
  <2>1. UNCHANGED <<fanin, genType, nrVertices, nrSolutions, level, steps, calls>>
    BY <1>6 DEF vars
  <2>2. \A t \in OfType(nrVertices) : Past(t)' <=> Past(t)
    BY <2>1 DEF Past, BehindAt
  <2>3. Found' = Found
    BY <2>1, <2>2, <1>1 DEF Found
  <2>. QED  BY <2>1, <2>3, <1>1
<1>. QED  BY <1>2, <1>3, <1>4, <1>5, <1>6 DEF Next, Terminated

(* The searches for all tuples and for the connected graphs, over two and  *)
(* three fanins, and the ordered search over two find every graph of their *)
(* type, each once, whatever the number of vertices.                       *)
THEOREM EveryGraphCounted == Spec => []CountsAll
<1>. DEFINE IInv == /\ Typed /\ CoveredMatchesSteps /\ StepsInOrder /\ CallsFollow
                    /\ Counted
<1>0. Init => CallsFollow
  BY BehindInit
<1>1. Init => IInv
  BY <1>0, TypedInit, CoveredInit, InOrderInit, CountInit
<1>2. IInv /\ [Next]_vars => IInv'
  BY TypedStep, CoveredStep, InOrderStep, FollowStep, CountStep
<1>3. IInv => CountsAll
  <2>1. calls = <<>> => Found = OfType(nrVertices)
    BY DEF Found, Past
  <2>. QED  BY <2>1 DEF Counted, CountsAll, Exhaustive
<1>. QED  BY <1>1, <1>2, <1>3, PTL DEF Spec
-----------------------------------------------------------------------------
(* The lists made of the searches.                                         *)

(* Whatever the callback and generate_dags do, a turn of theirs is a step  *)
(* of a search or leaves it alone.                                         *)
LEMMA ListStep == [ListNext]_<<vars, listVars>> => [Next]_vars
<1>1. Search \/ Report \/ NextList => Next
  BY DEF Search, Report, NextList, Next
<1>2. Correct \/ Initialize \/ ListDone => UNCHANGED vars
  BY DEF Correct, Initialize, ListDone
<1>3. UNCHANGED <<vars, listVars>> => UNCHANGED vars
  OBVIOUS
<1>. QED  BY <1>1, <1>2, <1>3 DEF ListNext

(* The callbacks run inside the searches and use what these find without   *)
(* disturbing them: the searches that make the lists are those of the      *)
(* generator, and all that is proved of it holds of them.                  *)
THEOREM ListsRunTheSearches == ListSpec => Spec
<1>1. ListInit => Init
  BY DEF ListInit
<1>. QED  BY <1>1, ListStep, PTL DEF ListSpec, Spec

(* A reported graph of n vertices, and that all reported ones are. *)
GraphOf(n) == {g \in [1 .. n -> Step] : \A v \in 1 .. n : g[v] \in StepsAbove(v - 1)}

ReportedGraphs == dags \in Seq(GraphOf(nrVertices))

LEMMA ReportedInit == Init => ReportedGraphs
BY DEF Init, ReportedGraphs

LEMMA ReportedStep ==
  ASSUME Typed, ReportedGraphs, [Next]_vars
  PROVE  ReportedGraphs'
<1>1. ASSUME UNCHANGED <<fanin, nrVertices>>
      PROVE  GraphOf(nrVertices)' = GraphOf(nrVertices)
  BY <1>1 DEF GraphOf, Step, StepsAbove
<1>2. CASE Accept
  <2>1. steps \in GraphOf(nrVertices)
    BY DEF Typed, GraphOf
  <2>2. UNCHANGED <<fanin, nrVertices>> /\ (dags' = Append(dags, steps) \/ dags' = dags)
    BY <1>2 DEF Accept
  <2>. QED  BY <1>1, <2>1, <2>2 DEF ReportedGraphs
<1>3. CASE NextSize
  BY <1>3 DEF NextSize, Reset, ReportedGraphs
<1>4. CASE UNCHANGED <<fanin, genType, nrVertices, dags>>
  BY <1>1, <1>4 DEF ReportedGraphs
<1>. QED  BY <1>2, <1>3, <1>4, GraphsStep

LEMMA GraphFacts ==
  ASSUME fanin \in {2, 3}, NEW n \in Nat \ {0}, NEW g \in GraphOf(n)
  PROVE  /\ g \in [1 .. n -> Step] /\ DOMAIN g = 1 .. n /\ Len(g) = n
         /\ Len(g[1]) = fanin
         /\ \A v \in 1 .. n : DOMAIN g[v] = 1 .. fanin
         /\ \A v \in 1 .. n, k \in 1 .. fanin : g[v][k] \in 0 .. v - 1
<1>1. g \in [1 .. n -> Step] /\ \A v \in 1 .. n : g[v] \in [1 .. fanin -> 0 .. v - 1]
  BY DEF GraphOf, StepsAbove
<1>2. g \in Seq(Step) /\ Len(g) = n
  BY <1>1
<1>3. 1 \in 1 .. n /\ g[1] \in [1 .. fanin -> Nat]
  BY <1>1 DEF Step
<1>4. Len(g[1]) = fanin
  BY <1>3
<1>. QED  BY <1>1, <1>2, <1>4

(* All fanins. *)
LEMMA Slots ==
  ASSUME fanin \in {2, 3}, NEW n \in Nat \ {0}
  PROVE  /\ IsFiniteSet((1 .. n) \X (1 .. fanin))
         /\ Cardinality((1 .. n) \X (1 .. fanin)) = n * fanin
<1>1. IsFiniteSet(1 .. n) /\ Cardinality(1 .. n) = n
  BY FS_Interval
<1>2. IsFiniteSet(1 .. fanin) /\ Cardinality(1 .. fanin) = fanin
  BY FS_Interval
<1>. DEFINE S == 1 .. n
            T == 1 .. fanin
<1>3. IsFiniteSet(S) /\ IsFiniteSet(T) /\ Cardinality(S) = n /\ Cardinality(T) = fanin
  BY <1>1, <1>2
<1>. HIDE DEF S, T
<1>4. IsFiniteSet(S \X T) /\ Cardinality(S \X T) = Cardinality(S) * Cardinality(T)
  BY <1>3, FS_Product
<1>5. IsFiniteSet(S \X T) /\ Cardinality(S \X T) = n * fanin
  BY <1>3, <1>4
<1>. QED  BY <1>5 DEF S, T

(* The fanins that name a vertex. *)
Names(g, n, i) == {s \in (1 .. n) \X (1 .. fanin) : g[s[1]][s[2]] = i}

LEMMA NamesFacts ==
  ASSUME fanin \in {2, 3}, NEW n \in Nat \ {0}, NEW g \in GraphOf(n), NEW i
  PROVE  /\ IsFiniteSet(Names(g, n, i)) /\ Cardinality(Names(g, n, i)) \in Nat
         /\ Cardinality(Names(g, n, i)) <= 1
              <=> \A s, t \in Names(g, n, i) : s = t
<1>1. IsFiniteSet(Names(g, n, i)) /\ Cardinality(Names(g, n, i)) \in Nat
  <2>1. IsFiniteSet((1 .. n) \X (1 .. fanin))
    BY Slots
  <2>. QED  BY <2>1, FS_Subset, FS_CardinalityType DEF Names
<1>2. ASSUME Cardinality(Names(g, n, i)) <= 1
      PROVE  \A s, t \in Names(g, n, i) : s = t
  BY <1>1, <1>2, FS_EmptySet, FS_Singleton
<1>3. ASSUME \A s, t \in Names(g, n, i) : s = t
      PROVE  Cardinality(Names(g, n, i)) <= 1
  <2>1. Names(g, n, i) = {} \/ \E s : Names(g, n, i) = {s}
    BY <1>3
  <2>. QED  BY <2>1, <1>1, FS_EmptySet, FS_Singleton
<1>. QED  BY <1>1, <1>2, <1>3

(* Every vertex but the root is named, so naming none of them twice leaves *)
(* just that many fanins for the inputs.                                   *)
LEMMA TreeCounted ==
  ASSUME fanin \in {2, 3}, NEW n \in Nat \ {0}, NEW g \in GraphOf(n), Connected(g)
  PROVE  KeptAsTree(g) <=> NrPiFanins(g) = (fanin - 1) * n + 1
<1>. DEFINE all == (1 .. n) \X (1 .. fanin)
            inner == {s \in all : g[s[1]][s[2]] # 0}
            named == [s \in inner |-> g[s[1]][s[2]]]
<1>0. /\ DOMAIN g = 1 .. n /\ Len(g) = n /\ Len(g[1]) = fanin
      /\ \A v \in 1 .. n : DOMAIN g[v] = 1 .. fanin
      /\ \A v \in 1 .. n, k \in 1 .. fanin : g[v][k] \in 0 .. v - 1
  BY GraphFacts
<1>1. IsFiniteSet(all) /\ Cardinality(all) = n * fanin
  BY Slots
<1>2. NrPiFanins(g) = Cardinality(Names(g, n, 0)) /\ NrPiFanins(g) \in Nat
  <2>1. NrPiFanins(g) = Cardinality(Names(g, n, 0))
    BY <1>0 DEF NrPiFanins, Names
  <2>. QED  BY <2>1, NamesFacts
<1>3. IsFiniteSet(inner) /\ Cardinality(inner) = n * fanin - NrPiFanins(g)
  <2>1. inner = all \ Names(g, n, 0) /\ all \cap Names(g, n, 0) = Names(g, n, 0)
    BY DEF Names
  <2>2. /\ IsFiniteSet(all \ Names(g, n, 0))
        /\ Cardinality(all \ Names(g, n, 0)) = Cardinality(all) - Cardinality(all \cap Names(g, n, 0))
    BY <1>1, FS_Difference
  <2>. QED  BY <2>1, <2>2, <1>1, <1>2
<1>4. named \in Surjection(inner, 1 .. n - 1)
  <2>1. ASSUME NEW s \in inner PROVE named[s] \in 1 .. n - 1
    <3>1. s[1] \in 1 .. n /\ s[2] \in 1 .. fanin /\ g[s[1]][s[2]] \in 0 .. s[1] - 1
      BY <1>0
    <3>. QED  BY <3>1
  <2>2. ASSUME NEW i \in 1 .. n - 1 PROVE \E s \in inner : named[s] = i
    <3>1. PICK v \in 1 .. n : i \in Range(g[v])
      BY <1>0 DEF Connected
    <3>2. PICK k \in 1 .. fanin : g[v][k] = i
      BY <3>1, <1>0 DEF Range
    <3>3. <<v, k>> \in inner /\ named[<<v, k>>] = i
      BY <3>2
    <3>. QED  BY <3>3
  <2>. QED  BY <2>1, <2>2 DEF Surjection
<1>5. named \in Injection(inner, 1 .. n - 1) <=> n - 1 = n * fanin - NrPiFanins(g)
  <2>1. Cardinality(1 .. n - 1) = n - 1
    BY FS_Interval
  <2>2. Cardinality(1 .. n - 1) = Cardinality(inner) <=> named \in Injection(inner, 1 .. n - 1)
    BY <1>3, <1>4, FS_Surjection
  <2>. QED  BY <2>1, <2>2, <1>3
<1>6. KeptAsTree(g) <=> \A i \in 1 .. n - 1 : \A s, t \in Names(g, n, i) : s = t
  <2>1. KeptAsTree(g) <=> \A i \in 1 .. n - 1 : Cardinality(Names(g, n, i)) <= 1
    BY <1>0 DEF KeptAsTree, Names
  <2>. QED  BY <2>1, NamesFacts
<1>7. (\A i \in 1 .. n - 1 : \A s, t \in Names(g, n, i) : s = t)
        <=> named \in Injection(inner, 1 .. n - 1)
  <2>1. named \in [inner -> 1 .. n - 1] /\ DOMAIN named = inner
    BY <1>4 DEF Surjection
  <2>2. \A i \in 1 .. n - 1 : Names(g, n, i) = {s \in inner : named[s] = i}
    BY DEF Names
  <2>3. named \in Injection(inner, 1 .. n - 1)
          <=> \A s, t \in inner : named[s] = named[t] => s = t
    BY <2>1 DEF Injection, IsInjective
  <2>. HIDE DEF named, inner
  <2>. QED  BY <2>1, <2>2, <2>3
<1>8. n - 1 = n * fanin - NrPiFanins(g) <=> NrPiFanins(g) = (fanin - 1) * n + 1
  BY <1>2
<1>. QED  BY <1>5, <1>6, <1>7, <1>8

(* Of the graphs the callback gets, for both classes and every number of   *)
(* vertices, the filter for trees keeps those that have as many inputs as  *)
(* a tree.                                                                 *)
THEOREM FilterKeepsTrees == ListSpec => []TreesAreKept
<1>. DEFINE IInv == /\ Typed /\ CoveredMatchesSteps /\ StepsInOrder
                    /\ ReportsRight /\ ReportedGraphs
<1>1. ListInit => IInv
  BY TypedInit, CoveredInit, InOrderInit, ReportsInit, ReportedInit DEF ListInit
<1>2. IInv /\ [ListNext]_<<vars, listVars>> => IInv'
  BY ListStep, TypedStep, CoveredStep, InOrderStep, ReportsStep, ReportedStep
<1>3. IInv => TreesAreKept
  <2>. SUFFICES ASSUME IInv, SearchDone, NEW m \in DOMAIN dags
                PROVE  KeptAsTree(dags[m])
                         <=> NrPiFanins(dags[m]) = (fanin - 1) * nrVertices + 1
    BY DEF TreesAreKept
  <2>1. fanin \in {2, 3} /\ nrVertices \in Nat \ {0}
    BY Parameters
  <2>2. dags[m] \in GraphOf(nrVertices) /\ Connected(dags[m])
    BY DEF ReportedGraphs, ReportsRight, SearchDone, Reporting
  <2>. QED  BY <2>1, <2>2, TreeCounted
<1>. QED  BY <1>1, <1>2, <1>3, PTL DEF ListSpec
-----------------------------------------------------------------------------
(* Isomorphic graphs.                                                      *)

(* A renaming of the vertices takes the arcs of g to those of h and no     *)
(* others to arcs of h.                                                    *)
OneToOne(n) == {p \in [1 .. n -> 1 .. n] : IsInjective(p)}

Renames(p, n, g, h) ==
  /\ p \in OneToOne(n)
  /\ \A u, w \in 1 .. n : <<u, w>> \in Arcs(g) <=> <<p[u], p[w]>> \in Arcs(h)

(* The numbers of vertices Renamings has been made for. *)
Sizes == UNION {1 .. MaxVertices(f, "NOREAPPLY") : f \in FaninCounts}

LEMMA RenamingsAre ==
  ASSUME NEW n \in Sizes, NEW from \in SUBSET ((1 .. n) \X (1 .. n)), NEW to
  PROVE  (\E r \in Renamings : r[1] = n /\ \A a \in from : r[2][a] \in to)
           <=> \E p \in OneToOne(n) : \A a \in from : <<p[a[1]], p[a[2]]>> \in to
<1>1. ASSUME NEW r \in Renamings, r[1] = n, \A a \in from : r[2][a] \in to
      PROVE  \E p \in OneToOne(n) : \A a \in from : <<p[a[1]], p[a[2]]>> \in to
  <2>1. PICK m \in Sizes : \E p \in OneToOne(m) :
          r = <<m, [a \in (1 .. m) \X (1 .. m) |-> <<p[a[1]], p[a[2]]>>]>>
    BY DEF Renamings, Sizes, OneToOne
  <2>2. m = n
    BY <2>1, <1>1
  <2>3. PICK p \in OneToOne(n) :
          r[2] = [a \in (1 .. n) \X (1 .. n) |-> <<p[a[1]], p[a[2]]>>]
    BY <2>1, <2>2
  <2>4. \A a \in from : r[2][a] = <<p[a[1]], p[a[2]]>>
    BY <2>3
  <2>. QED  BY <2>4, <1>1
<1>2. ASSUME NEW p \in OneToOne(n), \A a \in from : <<p[a[1]], p[a[2]]>> \in to
      PROVE  \E r \in Renamings : r[1] = n /\ \A a \in from : r[2][a] \in to
  <2>. DEFINE m == [a \in (1 .. n) \X (1 .. n) |-> <<p[a[1]], p[a[2]]>>]
  <2>1. <<n, m>> \in Renamings
    BY DEF Renamings, Sizes, OneToOne
  <2>2. \A a \in from : m[a] \in to
    BY <1>2
  <2>. HIDE DEF m
  <2>. QED  BY <2>1, <2>2
<1>. QED  BY <1>1, <1>2

LEMMA SizesFacts == Sizes \subseteq Nat \ {0}
BY DEF Sizes

LEMMA OneToOneFacts ==
  ASSUME NEW n \in Nat, NEW p \in OneToOne(n)
  PROVE  /\ p \in [1 .. n -> 1 .. n]
         /\ \A u, w \in 1 .. n : p[u] = p[w] => u = w
         /\ \A w \in 1 .. n : \E u \in 1 .. n : p[u] = w
<1>1. p \in [1 .. n -> 1 .. n] /\ p \in Injection(1 .. n, 1 .. n)
  BY DEF OneToOne, Injection
<1>2. p \in Surjection(1 .. n, 1 .. n)
  BY <1>1, FS_Interval, FS_Injection
<1>. QED  BY <1>1, <1>2 DEF Injection, Surjection, IsInjective

LEMMA OneToOneIs ==
  ASSUME NEW n \in Nat, NEW p \in [1 .. n -> 1 .. n],
         \A u, w \in 1 .. n : p[u] = p[w] => u = w
  PROVE  p \in OneToOne(n)
BY DEF OneToOne, IsInjective

(* A set and what a renaming makes of it have the same size. *)
LEMMA RenamedSize ==
  ASSUME NEW n \in Nat, NEW p \in OneToOne(n),
         NEW S \in SUBSET (1 .. n), NEW T \in SUBSET (1 .. n),
         \A u \in 1 .. n : u \in S <=> p[u] \in T
  PROVE  Cardinality(S) = Cardinality(T)
<1>. DEFINE m == [u \in S |-> p[u]]
<1>1. m \in Bijection(S, T)
  <2>1. /\ p \in [1 .. n -> 1 .. n]
        /\ \A u, w \in 1 .. n : p[u] = p[w] => u = w
        /\ \A w \in 1 .. n : \E u \in 1 .. n : p[u] = w
    BY OneToOneFacts
  <2>2. m \in [S -> T]
    BY <2>1
  <2>3. ASSUME NEW u \in S, NEW w \in S, m[u] = m[w] PROVE u = w
    BY <2>1, <2>3
  <2>4. ASSUME NEW t \in T PROVE \E u \in S : m[u] = t
    BY <2>1
  <2>. QED  BY <2>2, <2>3, <2>4 DEF Bijection, Injection, Surjection, IsInjective
<1>2. IsFiniteSet(S)
  <2>1. IsFiniteSet(1 .. n)
    BY FS_Interval
  <2>. QED  BY <2>1, FS_Subset
<1>. QED  BY <1>1, <1>2, FS_Bijection DEF ExistsBijection

LEMMA ArcsFacts ==
  ASSUME fanin \in {2, 3}, NEW n \in Nat \ {0}, NEW g \in GraphOf(n)
  PROVE  /\ Arcs(g) \in SUBSET ((1 .. n) \X (1 .. n))
         /\ IsFiniteSet(Arcs(g)) /\ Cardinality(Arcs(g)) \in Nat
         /\ \A v \in 1 .. n : Degree(g, v) = <<Cardinality({u \in 1 .. n : <<u, v>> \in Arcs(g)}),
                                               Cardinality({w \in 1 .. n : <<v, w>> \in Arcs(g)})>>
<1>0. /\ DOMAIN g = 1 .. n /\ \A v \in 1 .. n : DOMAIN g[v] = 1 .. fanin
      /\ \A v \in 1 .. n, k \in 1 .. fanin : g[v][k] \in 0 .. v - 1
  BY GraphFacts
<1>1. Arcs(g) \in SUBSET ((1 .. n) \X (1 .. n))
  BY <1>0 DEF Arcs
<1>2. IsFiniteSet(Arcs(g)) /\ Cardinality(Arcs(g)) \in Nat
  <2>1. IsFiniteSet(1 .. n)
    BY FS_Interval
  <2>2. IsFiniteSet((1 .. n) \X (1 .. n))
    BY <2>1, FS_Product
  <2>. QED  BY <1>1, <2>2, FS_Subset, FS_CardinalityType
<1>3. ASSUME NEW v \in 1 .. n
      PROVE  Degree(g, v) = <<Cardinality({u \in 1 .. n : <<u, v>> \in Arcs(g)}),
                              Cardinality({w \in 1 .. n : <<v, w>> \in Arcs(g)})>>
  <2>1. Range(g[v]) \ {0} = {u \in 1 .. n : <<u, v>> \in Arcs(g)}
    <3>1. ASSUME NEW u \in Range(g[v]) \ {0} PROVE u \in 1 .. n
      BY <1>0, <3>1 DEF Range
    <3>. QED  BY <1>0, <3>1 DEF Arcs
  <2>2. {w \in DOMAIN g : v \in Range(g[w])} = {w \in 1 .. n : <<v, w>> \in Arcs(g)}
    BY <1>0 DEF Arcs
  <2>. QED  BY <2>1, <2>2 DEF Degree
<1>. QED  BY <1>1, <1>2, <1>3

(* With as many arcs on both sides, a renaming that takes arcs to arcs     *)
(* takes nothing else to one.                                              *)
LEMMA IsomorphicRenames ==
  ASSUME fanin \in {2, 3}, NEW n \in Sizes, NEW g \in GraphOf(n), NEW h \in GraphOf(n),
         Isomorphic(g, h)
  PROVE  \E p : Renames(p, n, g, h)
<1>0. n \in Nat \ {0}
  BY SizesFacts
<1>1. Len(g) = n /\ Arcs(g) \in SUBSET ((1 .. n) \X (1 .. n))
  BY <1>0, GraphFacts, ArcsFacts
<1>2. /\ Cardinality(Arcs(g)) = Cardinality(Arcs(h))
      /\ \E p \in OneToOne(n) : \A a \in Arcs(g) : <<p[a[1]], p[a[2]]>> \in Arcs(h)
  <2>1. /\ Cardinality(Arcs(g)) = Cardinality(Arcs(h))
        /\ \E r \in Renamings : r[1] = n /\ \A a \in Arcs(g) : r[2][a] \in Arcs(h)
    BY <1>1 DEF Isomorphic
  <2>2. (\E r \in Renamings : r[1] = n /\ \A a \in Arcs(g) : r[2][a] \in Arcs(h))
          <=> \E p \in OneToOne(n) : \A a \in Arcs(g) : <<p[a[1]], p[a[2]]>> \in Arcs(h)
    <3>. DEFINE from == Arcs(g)
                to == Arcs(h)
    <3>1. from \in SUBSET ((1 .. n) \X (1 .. n))
      BY <1>1
    <3>. HIDE DEF from, to
    <3>2. (\E r \in Renamings : r[1] = n /\ \A a \in from : r[2][a] \in to)
            <=> \E p \in OneToOne(n) : \A a \in from : <<p[a[1]], p[a[2]]>> \in to
      BY <3>1, RenamingsAre
    <3>. QED  BY <3>2 DEF from, to
  <2>. QED  BY <2>1, <2>2
<1>3. PICK p \in OneToOne(n) : \A a \in Arcs(g) : <<p[a[1]], p[a[2]]>> \in Arcs(h)
  BY <1>2
<1>4. /\ p \in [1 .. n -> 1 .. n]
      /\ \A u, w \in 1 .. n : p[u] = p[w] => u = w
  BY <1>0, OneToOneFacts
<1>. DEFINE m == [a \in Arcs(g) |-> <<p[a[1]], p[a[2]]>>]
<1>5. /\ Arcs(g) \in SUBSET ((1 .. n) \X (1 .. n)) /\ IsFiniteSet(Arcs(g))
      /\ IsFiniteSet(Arcs(h))
  BY <1>0, ArcsFacts
<1>6. m \in Injection(Arcs(g), Arcs(h))
  <2>1. m \in [Arcs(g) -> Arcs(h)]
    BY <1>3
  <2>2. ASSUME NEW a \in Arcs(g), NEW b \in Arcs(g), m[a] = m[b] PROVE a = b
    <3>1. a[1] \in 1 .. n /\ a[2] \in 1 .. n /\ b[1] \in 1 .. n /\ b[2] \in 1 .. n
          /\ a = <<a[1], a[2]>> /\ b = <<b[1], b[2]>>
      BY <1>5
    <3>2. p[a[1]] = p[b[1]] /\ p[a[2]] = p[b[2]]
      BY <2>2
    <3>. QED  BY <3>1, <3>2, <1>4
  <2>. QED  BY <2>1, <2>2 DEF Injection, IsInjective
<1>7. m \in Surjection(Arcs(g), Arcs(h))
  BY <1>2, <1>5, <1>6, FS_Injection
<1>8. ASSUME NEW u \in 1 .. n, NEW w \in 1 .. n, <<p[u], p[w]>> \in Arcs(h)
      PROVE  <<u, w>> \in Arcs(g)
  <2>1. PICK a \in Arcs(g) : m[a] = <<p[u], p[w]>>
    BY <1>7, <1>8 DEF Surjection
  <2>2. p[a[1]] = p[u] /\ p[a[2]] = p[w]
    BY <2>1
  <2>3. a[1] \in 1 .. n /\ a[2] \in 1 .. n /\ a = <<a[1], a[2]>>
    BY <1>5
  <2>. QED  BY <2>2, <2>3, <1>4
<1>9. ASSUME NEW u \in 1 .. n, NEW w \in 1 .. n, <<u, w>> \in Arcs(g)
      PROVE  <<p[u], p[w]>> \in Arcs(h)
  BY <1>3, <1>9
<1>. QED  BY <1>3, <1>8, <1>9 DEF Renames

(* A renaming leaves the degrees, so comparing them first loses nothing.   *)
LEMMA RenamesIsomorphic ==
  ASSUME fanin \in {2, 3}, NEW n \in Sizes, NEW g \in GraphOf(n), NEW h \in GraphOf(n),
         NEW p, Renames(p, n, g, h)
  PROVE  Isomorphic(g, h)
<1>0. n \in Nat \ {0}
  BY SizesFacts
<1>1. /\ p \in OneToOne(n)
      /\ \A u, w \in 1 .. n : <<u, w>> \in Arcs(g) <=> <<p[u], p[w]>> \in Arcs(h)
  BY DEF Renames
<1>2. /\ p \in [1 .. n -> 1 .. n]
      /\ \A u, w \in 1 .. n : p[u] = p[w] => u = w
      /\ \A w \in 1 .. n : \E u \in 1 .. n : p[u] = w
  BY <1>0, <1>1, OneToOneFacts
<1>3. /\ Arcs(g) \in SUBSET ((1 .. n) \X (1 .. n)) /\ IsFiniteSet(Arcs(g))
      /\ Arcs(h) \in SUBSET ((1 .. n) \X (1 .. n))
  BY <1>0, ArcsFacts
<1>4. DOMAIN g = 1 .. n /\ DOMAIN h = 1 .. n /\ Len(g) = n
  BY <1>0, GraphFacts
<1>5. \A a \in Arcs(g) : <<p[a[1]], p[a[2]]>> \in Arcs(h)
  <2>. SUFFICES ASSUME NEW a \in Arcs(g) PROVE <<p[a[1]], p[a[2]]>> \in Arcs(h)
    OBVIOUS
  <2>1. a[1] \in 1 .. n /\ a[2] \in 1 .. n /\ a = <<a[1], a[2]>>
    BY <1>3
  <2>. QED  BY <2>1, <1>1
<1>6. Cardinality(Arcs(g)) = Cardinality(Arcs(h))
  <2>. DEFINE m == [a \in Arcs(g) |-> <<p[a[1]], p[a[2]]>>]
  <2>1. m \in [Arcs(g) -> Arcs(h)]
    BY <1>5
  <2>2. ASSUME NEW a \in Arcs(g), NEW b \in Arcs(g), m[a] = m[b] PROVE a = b
    <3>1. a[1] \in 1 .. n /\ a[2] \in 1 .. n /\ b[1] \in 1 .. n /\ b[2] \in 1 .. n
          /\ a = <<a[1], a[2]>> /\ b = <<b[1], b[2]>>
      BY <1>3
    <3>2. p[a[1]] = p[b[1]] /\ p[a[2]] = p[b[2]]
      BY <2>2
    <3>3. a[1] = b[1] /\ a[2] = b[2]
      BY <3>1, <3>2, <1>2
    <3>. QED  BY <3>1, <3>3
  <2>3. ASSUME NEW b \in Arcs(h) PROVE \E a \in Arcs(g) : m[a] = b
    <3>1. b[1] \in 1 .. n /\ b[2] \in 1 .. n /\ b = <<b[1], b[2]>>
      BY <1>3
    <3>2. PICK u \in 1 .. n : p[u] = b[1]
      BY <3>1, <1>2
    <3>3. PICK w \in 1 .. n : p[w] = b[2]
      BY <3>1, <1>2
    <3>4. <<u, w>> \in Arcs(g) /\ m[<<u, w>>] = b
      BY <3>1, <3>2, <3>3, <1>1
    <3>. QED  BY <3>4
  <2>4. m \in Bijection(Arcs(g), Arcs(h))
    BY <2>1, <2>2, <2>3 DEF Bijection, Injection, Surjection, IsInjective
  <2>. QED  BY <2>4, <1>3, FS_Bijection DEF ExistsBijection
<1>7. ASSUME NEW v \in 1 .. n PROVE Degree(g, v) = Degree(h, p[v])
  <2>1. p[v] \in 1 .. n
    BY <1>2
  <2>2. Cardinality({u \in 1 .. n : <<u, v>> \in Arcs(g)})
          = Cardinality({u \in 1 .. n : <<u, p[v]>> \in Arcs(h)})
    <3>. DEFINE S == {u \in 1 .. n : <<u, v>> \in Arcs(g)}
                T == {u \in 1 .. n : <<u, p[v]>> \in Arcs(h)}
    <3>1. \A u \in 1 .. n : u \in S <=> p[u] \in T
      BY <1>1, <1>2
    <3>2. S \in SUBSET (1 .. n) /\ T \in SUBSET (1 .. n)
      OBVIOUS
    <3>3. Cardinality(S) = Cardinality(T)
      <4>. HIDE DEF S, T
      <4>. QED  BY <3>1, <3>2, <1>0, <1>1, RenamedSize
    <3>. QED  BY <3>3
  <2>3. Cardinality({w \in 1 .. n : <<v, w>> \in Arcs(g)})
          = Cardinality({w \in 1 .. n : <<p[v], w>> \in Arcs(h)})
    <3>. DEFINE S == {w \in 1 .. n : <<v, w>> \in Arcs(g)}
                T == {w \in 1 .. n : <<p[v], w>> \in Arcs(h)}
    <3>1. \A u \in 1 .. n : u \in S <=> p[u] \in T
      BY <1>1, <1>2
    <3>2. S \in SUBSET (1 .. n) /\ T \in SUBSET (1 .. n)
      OBVIOUS
    <3>3. Cardinality(S) = Cardinality(T)
      <4>. HIDE DEF S, T
      <4>. QED  BY <3>1, <3>2, <1>0, <1>1, RenamedSize
    <3>. QED  BY <3>3
  <2>4. Degree(g, v) = <<Cardinality({u \in 1 .. n : <<u, v>> \in Arcs(g)}),
                         Cardinality({w \in 1 .. n : <<v, w>> \in Arcs(g)})>>
    BY <1>0, ArcsFacts
  <2>5. Degree(h, p[v]) = <<Cardinality({u \in 1 .. n : <<u, p[v]>> \in Arcs(h)}),
                            Cardinality({w \in 1 .. n : <<p[v], w>> \in Arcs(h)})>>
    BY <1>0, <2>1, ArcsFacts
  <2>. QED  BY <2>2, <2>3, <2>4, <2>5
<1>8. SameDegrees(g, h)
  <2>. SUFFICES ASSUME NEW d
                PROVE  Cardinality({v \in 1 .. n : Degree(g, v) = d})
                         = Cardinality({v \in 1 .. n : Degree(h, v) = d})
    BY <1>4 DEF SameDegrees
  <2>. DEFINE S == {v \in 1 .. n : Degree(g, v) = d}
              T == {v \in 1 .. n : Degree(h, v) = d}
  <2>1. \A u \in 1 .. n : u \in S <=> p[u] \in T
    BY <1>2, <1>7
  <2>2. S \in SUBSET (1 .. n) /\ T \in SUBSET (1 .. n)
    OBVIOUS
  <2>3. Cardinality(S) = Cardinality(T)
    <3>. HIDE DEF S, T
    <3>. QED  BY <2>1, <2>2, <1>0, <1>1, RenamedSize
  <2>. QED  BY <2>3
<1>9. \E r \in Renamings : r[1] = n /\ \A a \in Arcs(g) : r[2][a] \in Arcs(h)
  <2>. DEFINE from == Arcs(g)
              to == Arcs(h)
  <2>1. from \in SUBSET ((1 .. n) \X (1 .. n)) /\ \A a \in from : <<p[a[1]], p[a[2]]>> \in to
    BY <1>3, <1>5
  <2>. HIDE DEF from, to
  <2>2. (\E r \in Renamings : r[1] = n /\ \A a \in from : r[2][a] \in to)
          <=> \E q \in OneToOne(n) : \A a \in from : <<q[a[1]], q[a[2]]>> \in to
    BY <2>1, RenamingsAre
  <2>3. \E r \in Renamings : r[1] = n /\ \A a \in from : r[2][a] \in to
    BY <1>1, <2>1, <2>2
  <2>. QED  BY <2>3 DEF from, to
<1>. QED  BY <1>4, <1>6, <1>8, <1>9 DEF Isomorphic

(* Isomorphism is an equivalence of the graphs of a size. *)
LEMMA IsomorphicItself ==
  ASSUME fanin \in {2, 3}, NEW n \in Sizes, NEW g \in GraphOf(n)
  PROVE  Isomorphic(g, g)
<1>. DEFINE p == [v \in 1 .. n |-> v]
<1>1. Renames(p, n, g, g)
  <2>1. p \in OneToOne(n)
    BY SizesFacts, OneToOneIs
  <2>. QED  BY <2>1 DEF Renames
<1>. QED  BY <1>1, RenamesIsomorphic

LEMMA IsomorphicConverse ==
  ASSUME fanin \in {2, 3}, NEW n \in Sizes, NEW g \in GraphOf(n), NEW h \in GraphOf(n),
         Isomorphic(g, h)
  PROVE  Isomorphic(h, g)
<1>1. PICK p : Renames(p, n, g, h)
  BY IsomorphicRenames
<1>2. /\ p \in [1 .. n -> 1 .. n]
      /\ \A u, w \in 1 .. n : p[u] = p[w] => u = w
      /\ \A w \in 1 .. n : \E u \in 1 .. n : p[u] = w
  BY <1>1, SizesFacts, OneToOneFacts DEF Renames
<1>. DEFINE q == [w \in 1 .. n |-> CHOOSE u \in 1 .. n : p[u] = w]
<1>3. ASSUME NEW w \in 1 .. n PROVE q[w] \in 1 .. n /\ p[q[w]] = w
  BY <1>2
<1>4. ASSUME NEW u \in 1 .. n PROVE p[u] \in 1 .. n /\ q[p[u]] = u
  BY <1>2, <1>3
<1>5. q \in [1 .. n -> 1 .. n]
  BY <1>3
<1>. HIDE DEF q
<1>6. Renames(q, n, h, g)
  <2>1. q \in OneToOne(n)
    BY <1>3, <1>5, SizesFacts, OneToOneIs
  <2>2. ASSUME NEW u \in 1 .. n, NEW w \in 1 .. n
        PROVE  <<u, w>> \in Arcs(h) <=> <<q[u], q[w]>> \in Arcs(g)
    BY <1>1, <1>3 DEF Renames
  <2>. QED  BY <2>1, <2>2 DEF Renames
<1>. QED  BY <1>6, RenamesIsomorphic

LEMMA IsomorphicChain ==
  ASSUME fanin \in {2, 3}, NEW n \in Sizes,
         NEW f \in GraphOf(n), NEW g \in GraphOf(n), NEW h \in GraphOf(n),
         Isomorphic(f, g), Isomorphic(g, h)
  PROVE  Isomorphic(f, h)
<1>1. PICK p : Renames(p, n, f, g)
  BY IsomorphicRenames
<1>2. PICK q : Renames(q, n, g, h)
  BY IsomorphicRenames
<1>3. /\ p \in [1 .. n -> 1 .. n] /\ q \in [1 .. n -> 1 .. n]
      /\ \A u, w \in 1 .. n : p[u] = p[w] => u = w
      /\ \A u, w \in 1 .. n : q[u] = q[w] => u = w
  BY <1>1, <1>2, SizesFacts, OneToOneFacts DEF Renames
<1>. DEFINE r == [v \in 1 .. n |-> q[p[v]]]
<1>4. r \in [1 .. n -> 1 .. n] /\ \A v \in 1 .. n : r[v] = q[p[v]] /\ p[v] \in 1 .. n
  BY <1>3
<1>. HIDE DEF r
<1>5. r \in OneToOne(n)
  <2>1. \A u, w \in 1 .. n : r[u] = r[w] => u = w
    BY <1>3, <1>4
  <2>. QED  BY <2>1, <1>4, SizesFacts, OneToOneIs
<1>6. \A u, w \in 1 .. n : <<u, w>> \in Arcs(f) <=> <<r[u], r[w]>> \in Arcs(h)
  BY <1>1, <1>2, <1>4 DEF Renames
<1>7. Renames(r, n, f, h)
  BY <1>5, <1>6 DEF Renames
<1>. QED  BY <1>7, RenamesIsomorphic
-----------------------------------------------------------------------------
(* The filter of a whole list.                                             *)

(* What the filter leaves out, and where the n-th graph it leaves was. *)
Repeats(list) == {i \in DOMAIN list : \E j \in 1 .. i - 1 : Isomorphic(list[i], list[j])}

Place(list, n) ==
  CHOOSE i \in DOMAIN list \ Repeats(list) : Cardinality((1 .. i) \ Repeats(list)) = n

LEMMA FilterIs ==
  \A list : FilterFast(list)
              = [n \in 1 .. Len(list) - Cardinality(Repeats(list)) |-> list[Place(list, n)]]
BY DEF FilterFast, Repeats, Place

(* Every number up to that of the graphs left is that of one of them. *)
Numbered(list) ==
  \A n \in 1 .. Len(list) - Cardinality(Repeats(list)) :
    \E i \in DOMAIN list \ Repeats(list) : Cardinality((1 .. i) \ Repeats(list)) = n

LEMMA RepeatsFacts ==
  ASSUME NEW S, NEW list \in Seq(S)
  PROVE  /\ Len(list) \in Nat /\ DOMAIN list = 1 .. Len(list)
         /\ Repeats(list) \in SUBSET (1 .. Len(list)) /\ IsFiniteSet(Repeats(list))
         /\ Cardinality(Repeats(list)) \in 0 .. Len(list)
         /\ \A i \in Nat : IsFiniteSet((1 .. i) \ Repeats(list))
<1>1. Len(list) \in Nat /\ DOMAIN list = 1 .. Len(list)
  OBVIOUS
<1>2. Repeats(list) \in SUBSET (1 .. Len(list))
  BY <1>1 DEF Repeats
<1>3. IsFiniteSet(1 .. Len(list)) /\ Cardinality(1 .. Len(list)) = Len(list)
  BY <1>1, FS_Interval
<1>4. /\ IsFiniteSet(Repeats(list)) /\ Cardinality(Repeats(list)) \in Nat
      /\ Cardinality(Repeats(list)) <= Len(list)
  BY <1>2, <1>3, FS_Subset, FS_CardinalityType
<1>5. ASSUME NEW i \in Nat PROVE IsFiniteSet((1 .. i) \ Repeats(list))
  <2>1. IsFiniteSet(1 .. i)
    BY FS_Interval
  <2>. QED  BY <2>1, FS_Difference
<1>. QED  BY <1>1, <1>2, <1>4, <1>5

(* No two of the graphs left have the same number. *)
LEMMA PlaceIs ==
  ASSUME NEW S, NEW list \in Seq(S), NEW i \in DOMAIN list \ Repeats(list)
  PROVE  Place(list, Cardinality((1 .. i) \ Repeats(list))) = i
<1>. DEFINE upTo(j) == (1 .. j) \ Repeats(list)
<1>1. DOMAIN list \ Repeats(list) \subseteq Nat
  BY RepeatsFacts
<1>2. ASSUME NEW j \in DOMAIN list \ Repeats(list), NEW k \in DOMAIN list \ Repeats(list),
             j < k, Cardinality(upTo(j)) = Cardinality(upTo(k))
      PROVE  FALSE
  <2>1. /\ j \in Nat /\ k \in Nat /\ upTo(j) \in SUBSET upTo(k)
        /\ k \in upTo(k) /\ k \notin upTo(j)
    <3>1. j \in 1 .. Len(list) /\ k \in 1 .. Len(list)
      BY RepeatsFacts
    <3>. QED  BY <3>1, <1>2
  <2>2. IsFiniteSet(upTo(k))
    BY <2>1, RepeatsFacts
  <2>. QED  BY <2>1, <2>2, <1>2, FS_Subset
<1>3. \A j \in DOMAIN list \ Repeats(list) : Cardinality(upTo(j)) = Cardinality(upTo(i)) => j = i
  <2>. SUFFICES ASSUME NEW j \in DOMAIN list \ Repeats(list),
                       Cardinality(upTo(j)) = Cardinality(upTo(i))
                PROVE  j = i
    OBVIOUS
  <2>1. ~(j < i) /\ ~(i < j)
    BY <1>2
  <2>. QED  BY <2>1, <1>1
<1>. QED  BY <1>3 DEF Place

(* A graph at the end of a list: the filter leaves what it left before,    *)
(* and the graph if none before is isomorphic to it.                       *)
LEMMA FilterLonger ==
  ASSUME NEW S, NEW list \in Seq(S), NEW g \in S, Numbered(list)
  PROVE  LET longer == Append(list, g)
         IN  /\ Numbered(longer)
             /\ (\E j \in DOMAIN list : Isomorphic(g, list[j]))
                   => FilterFast(longer) = FilterFast(list)
             /\ ~(\E j \in DOMAIN list : Isomorphic(g, list[j]))
                   => FilterFast(longer) = Append(FilterFast(list), g)
<1>. DEFINE longer == Append(list, g)
            size == Len(list)
            left == size - Cardinality(Repeats(list))
            again == \E j \in DOMAIN list : Isomorphic(g, list[j])
            upTo(i) == (1 .. i) \ Repeats(list)
<1>1. /\ size \in Nat /\ DOMAIN list = 1 .. size
      /\ longer \in Seq(S) /\ Len(longer) = size + 1 /\ DOMAIN longer = 1 .. size + 1
      /\ \A i \in 1 .. size : longer[i] = list[i]
      /\ longer[size + 1] = g
  OBVIOUS
<1>. HIDE DEF longer
<1>2. /\ Repeats(list) \in SUBSET (1 .. size) /\ IsFiniteSet(Repeats(list))
      /\ Cardinality(Repeats(list)) \in 0 .. size /\ left \in Nat
  BY RepeatsFacts
<1>3. Repeats(longer) = IF again THEN Repeats(list) \cup {size + 1} ELSE Repeats(list)
  <2>1. ASSUME NEW i \in 1 .. size PROVE i \in Repeats(longer) <=> i \in Repeats(list)
    BY <1>1 DEF Repeats
  <2>2. size + 1 \in Repeats(longer) <=> again
    BY <1>1 DEF Repeats
  <2>3. Repeats(longer) \subseteq 1 .. size + 1
    BY <1>1 DEF Repeats
  <2>. HIDE DEF again, size
  <2>4. 1 .. size + 1 = (1 .. size) \cup {size + 1} /\ size + 1 \notin 1 .. size
    BY <1>1
  <2>5. CASE again
    BY <2>1, <2>2, <2>3, <2>4, <2>5, <1>2
  <2>6. CASE ~again
    <3>1. \A i : i \in Repeats(longer) <=> i \in Repeats(list)
      BY <2>1, <2>2, <2>3, <2>4, <2>6, <1>2
    <3>2. Repeats(longer) = Repeats(list)
      BY <3>1
    <3>. QED  BY <3>2, <2>6
  <2>. QED  BY <2>5, <2>6
<1>. HIDE DEF again, size
<1>4. \A i \in 1 .. size : (1 .. i) \ Repeats(longer) = upTo(i)
  BY <1>1, <1>2, <1>3
<1>5. ASSUME NEW n \in 1 .. left
      PROVE  /\ \E i \in DOMAIN longer \ Repeats(longer) : Cardinality((1 .. i) \ Repeats(longer)) = n
             /\ Place(longer, n) = Place(list, n)
             /\ longer[Place(longer, n)] = list[Place(list, n)]
             /\ list[Place(list, n)] \in S
  <2>1. PICK i \in DOMAIN list \ Repeats(list) : Cardinality(upTo(i)) = n
    BY DEF Numbered, size
  <2>2. i \in 1 .. size /\ i \in DOMAIN longer \ Repeats(longer)
        /\ Cardinality((1 .. i) \ Repeats(longer)) = n
    <3>1. i \in 1 .. size /\ i # size + 1 /\ i \in 1 .. size + 1
      BY <1>1
    <3>2. i \notin Repeats(longer)
      BY <3>1, <1>3
    <3>. QED  BY <3>1, <3>2, <2>1, <1>1, <1>4
  <2>3. Place(list, n) = i
    BY <2>1, PlaceIs
  <2>4. Place(longer, n) = i
    BY <2>2, <1>1, PlaceIs
  <2>5. longer[i] = list[i] /\ list[i] \in S
    BY <2>2, <1>1
  <2>. QED  BY <2>2, <2>3, <2>4, <2>5
<1>6. /\ FilterFast(list) = [n \in 1 .. left |-> list[Place(list, n)]]
      /\ FilterFast(longer) = [n \in 1 .. (size + 1) - Cardinality(Repeats(longer)) |->
                                 longer[Place(longer, n)]]
  BY <1>1, FilterIs, SMTT(30)
<1>7. CASE again
  <2>1. Cardinality(Repeats(longer)) = Cardinality(Repeats(list)) + 1
    <3>1. size + 1 \notin Repeats(list)
      BY <1>1, <1>2
    <3>. QED  BY <3>1, <1>2, <1>3, <1>7, FS_AddElement
  <2>2. (size + 1) - Cardinality(Repeats(longer)) = left
    BY <2>1, <1>1, <1>2
  <2>3. Numbered(longer)
    BY <2>2, <1>1, <1>5 DEF Numbered
  <2>4. FilterFast(longer) = FilterFast(list)
    BY <2>2, <1>5, <1>6
  <2>. QED  BY <2>3, <2>4, <1>7 DEF longer, again
<1>8. CASE ~again
  <2>1. Repeats(longer) = Repeats(list)
    BY <1>3, <1>8
  <2>2. (size + 1) - Cardinality(Repeats(longer)) = left + 1
    BY <2>1, <1>1, <1>2
  <2>3. size + 1 \in DOMAIN longer \ Repeats(longer)
    BY <2>1, <1>1, <1>2
  <2>4. Cardinality((1 .. size + 1) \ Repeats(longer)) = left + 1
    <3>1. IsFiniteSet(1 .. size + 1) /\ Cardinality(1 .. size + 1) = size + 1
      BY <1>1, FS_Interval
    <3>2. (1 .. size + 1) \cap Repeats(list) = Repeats(list)
      BY <1>1, <1>2
    <3>3. Cardinality((1 .. size + 1) \ Repeats(list))
            = Cardinality(1 .. size + 1) - Cardinality((1 .. size + 1) \cap Repeats(list))
      BY <3>1, FS_Difference
    <3>4. size + 1 - Cardinality(Repeats(list)) = left + 1
      BY <1>1, <1>2
    <3>5. Cardinality((1 .. size + 1) \ Repeats(list)) = size + 1 - Cardinality(Repeats(list))
      <4>. DEFINE places == 1 .. size + 1
                  common == places \cap Repeats(list)
      <4>1. /\ Cardinality(places) = size + 1 /\ common = Repeats(list)
            /\ Cardinality(places \ Repeats(list)) = Cardinality(places) - Cardinality(common)
        BY <3>1, <3>2, <3>3
      <4>. HIDE DEF places, common
      <4>2. Cardinality(places \ Repeats(list)) = size + 1 - Cardinality(Repeats(list))
        BY <4>1, <1>1, <1>2
      <4>. QED  BY <4>2 DEF places
    <3>. QED  BY <3>4, <3>5, <2>1
  <2>5. Place(longer, left + 1) = size + 1
    BY <2>3, <2>4, <1>1, PlaceIs
  <2>6. Numbered(longer)
    <3>. SUFFICES ASSUME NEW n \in 1 .. left + 1
                  PROVE  \E i \in DOMAIN longer \ Repeats(longer) :
                           Cardinality((1 .. i) \ Repeats(longer)) = n
      BY <2>2, <1>1 DEF Numbered
    <3>1. n \in 1 .. left \/ n = left + 1
      BY <1>2
    <3>. QED  BY <3>1, <2>3, <2>4, <1>5
  <2>7. FilterFast(longer) = Append(FilterFast(list), g)
    <3>. DEFINE before == FilterFast(list)
                after == FilterFast(longer)
    <3>1. /\ before \in Seq(S) /\ Len(before) = left
          /\ \A n \in 1 .. left : before[n] = list[Place(list, n)]
      BY <1>2, <1>5, <1>6
    <3>2. /\ DOMAIN after = 1 .. left + 1
          /\ \A n \in 1 .. left + 1 : after[n] = longer[Place(longer, n)]
          /\ after = [n \in 1 .. left + 1 |-> after[n]]
      BY <2>2, <1>6
    <3>. HIDE DEF before, after
    <3>3. \A n \in 1 .. left : after[n] = before[n]
      BY <3>1, <3>2, <1>2, <1>5
    <3>4. after[left + 1] = g
      BY <3>2, <2>5, <1>1, <1>2
    <3>. DEFINE m == left + 1
                more == Append(before, g)
    <3>5. /\ DOMAIN more = 1 .. m /\ more = [n \in 1 .. m |-> more[n]]
          /\ \A n \in 1 .. m : more[n] = IF n = m THEN g ELSE before[n]
      <4>1. Len(before) \in Nat /\ Len(before) + 1 = m
        BY <3>1
      <4>2. /\ more \in Seq(S) /\ Len(more) = Len(before) + 1
            /\ \A n \in 1 .. Len(before) : more[n] = before[n]
            /\ more[Len(before) + 1] = g
        BY <3>1
      <4>. HIDE DEF more
      <4>3. DOMAIN more = 1 .. m
        BY <4>1, <4>2
      <4>4. more = [n \in DOMAIN more |-> more[n]]
        BY <4>2
      <4>5. \A n \in 1 .. m : n = m \/ n \in 1 .. Len(before)
        BY <4>1
      <4>. QED  BY <4>1, <4>2, <4>3, <4>4, <4>5
    <3>6. \A n \in 1 .. m : after[n] = more[n]
      <4>1. \A n \in 1 .. m : n = m \/ n \in 1 .. left
        BY <1>2
      <4>. QED  BY <4>1, <3>3, <3>4, <3>5
    <3>. HIDE DEF m, more
    <3>7. after = [n \in 1 .. m |-> after[n]]
      BY <3>2 DEF m
    <3>8. after = more
      BY <3>5, <3>6, <3>7
    <3>. QED  BY <3>8 DEF before, after, more
  <2>. QED  BY <2>6, <2>7, <1>8 DEF longer, again
<1>. QED  BY <1>7, <1>8

(* The callback has kept what the filter leaves of the graphs reported so  *)
(* far: graphs of theirs, one isomorphic to each.                          *)
KeptAsFiltered ==
  Reporting =>
    /\ FilterFast(dags) = kept /\ Numbered(dags)
    /\ kept \in Seq(GraphOf(nrVertices))
    /\ \A n \in DOMAIN kept : \E j \in DOMAIN dags : kept[n] = dags[j]
    /\ \A j \in DOMAIN dags : \E n \in DOMAIN kept : Isomorphic(kept[n], dags[j])

LEMMA EmptyFiltered ==
  /\ FilterFast(<<>>) = <<>> /\ Numbered(<<>>)
<1>1. Repeats(<<>>) = {} /\ Len(<<>>) = 0 /\ DOMAIN <<>> = {}
  BY DEF Repeats
<1>2. 1 .. Len(<<>>) - Cardinality(Repeats(<<>>)) = {}
  BY <1>1, FS_EmptySet
<1>3. FilterFast(<<>>) = [n \in {} |-> <<>>[Place(<<>>, n)]]
  BY <1>2, FilterIs
<1>. QED  BY <1>2, <1>3 DEF Numbered

(* A graph is kept just if the filter leaves it. *)
LEMMA KeepsAsFilter ==
  ASSUME fanin \in {2, 3}, NEW n \in Sizes,
         NEW found \in Seq(GraphOf(n)), NEW list \in Seq(GraphOf(n)), NEW g \in GraphOf(n),
         \A m \in DOMAIN list : \E j \in DOMAIN found : list[m] = found[j],
         \A j \in DOMAIN found : \E m \in DOMAIN list : Isomorphic(list[m], found[j])
  PROVE  (\E j \in DOMAIN found : Isomorphic(g, found[j]))
           <=> \E m \in DOMAIN list : Isomorphic(list[m], g)
<1>0. /\ \A j \in DOMAIN found : found[j] \in GraphOf(n)
      /\ \A m \in DOMAIN list : list[m] \in GraphOf(n)
  OBVIOUS
<1>1. ASSUME NEW j \in DOMAIN found, Isomorphic(g, found[j])
      PROVE  \E m \in DOMAIN list : Isomorphic(list[m], g)
  <2>1. PICK m \in DOMAIN list : Isomorphic(list[m], found[j])
    OBVIOUS
  <2>2. Isomorphic(found[j], g)
    BY <1>0, <1>1, IsomorphicConverse
  <2>3. Isomorphic(list[m], g)
    BY <1>0, <2>1, <2>2, IsomorphicChain
  <2>. QED  BY <2>3
<1>2. ASSUME NEW m \in DOMAIN list, Isomorphic(list[m], g)
      PROVE  \E j \in DOMAIN found : Isomorphic(g, found[j])
  <2>1. PICK j \in DOMAIN found : list[m] = found[j]
    OBVIOUS
  <2>2. Isomorphic(g, found[j])
    BY <1>0, <1>2, <2>1, IsomorphicConverse
  <2>. QED  BY <2>2
<1>. QED  BY <1>1, <1>2

LEMMA KeptInit == ListInit => KeptAsFiltered
<1>. SUFFICES ASSUME ListInit PROVE KeptAsFiltered
  OBVIOUS
<1>1. dags = <<>> /\ kept = <<>>
  BY DEF ListInit, Init
<1>. QED  BY <1>1, EmptyFiltered DEF KeptAsFiltered

(* A report that goes through the callback. *)
LEMMA KeptReport ==
  ASSUME Typed, ReportedGraphs, KeptAsFiltered, Report
  PROVE  KeptAsFiltered'
<1>0. /\ UNCHANGED <<fanin, genType, nrVertices>>
      /\ GraphOf(nrVertices)' = GraphOf(nrVertices)
  BY DEF Report, Accept, GraphOf, Step, StepsAbove
<1>. SUFFICES ASSUME Reporting
              PROVE  /\ FilterFast(dags') = kept' /\ Numbered(dags')
                     /\ kept' \in Seq(GraphOf(nrVertices))
                     /\ \A n \in DOMAIN kept' : \E j \in DOMAIN dags' : kept'[n] = dags'[j]
                     /\ \A j \in DOMAIN dags' :
                          \E n \in DOMAIN kept' : Isomorphic(kept'[n], dags'[j])
  <2>1. Reporting' <=> Reporting
    BY <1>0 DEF Reporting
  <2>2. FilterFast(dags)' = FilterFast(dags') /\ (Numbered(dags)' <=> Numbered(dags'))
    OBVIOUS
  <2>. QED  BY <2>1, <2>2, <1>0 DEF KeptAsFiltered
<1>1. /\ fanin \in {2, 3} /\ nrVertices \in Sizes
      /\ steps \in GraphOf(nrVertices) /\ dags \in Seq(GraphOf(nrVertices))
      /\ dags' = Append(dags, steps) /\ kept' = Keep(kept, steps)
  <2>1. fanin \in {2, 3} /\ nrVertices \in Sizes
    BY Parameters DEF Typed, Reporting, Sizes
  <2>2. steps \in GraphOf(nrVertices)
    BY DEF Typed, GraphOf
  <2>. QED  BY <2>1, <2>2 DEF Report, Accept, Reporting, ReportedGraphs
<1>2. /\ FilterFast(dags) = kept /\ Numbered(dags)
      /\ kept \in Seq(GraphOf(nrVertices))
      /\ \A n \in DOMAIN kept : \E j \in DOMAIN dags : kept[n] = dags[j]
      /\ \A j \in DOMAIN dags : \E n \in DOMAIN kept : Isomorphic(kept[n], dags[j])
  BY DEF KeptAsFiltered
<1>3. (\E j \in DOMAIN dags : Isomorphic(steps, dags[j]))
        <=> \E n \in DOMAIN kept : Isomorphic(kept[n], steps)
  BY <1>1, <1>2, KeepsAsFilter, ZenonT(40)
<1>4. Isomorphic(steps, steps)
  BY <1>1, SizesFacts, IsomorphicItself
<1>5. /\ Numbered(Append(dags, steps))
      /\ (\E j \in DOMAIN dags : Isomorphic(steps, dags[j]))
            => FilterFast(Append(dags, steps)) = kept
      /\ ~(\E j \in DOMAIN dags : Isomorphic(steps, dags[j]))
            => FilterFast(Append(dags, steps)) = Append(kept, steps)
  BY <1>1, <1>2, FilterLonger
<1>6. /\ DOMAIN dags' = DOMAIN dags \cup {Len(dags) + 1}
      /\ \A j \in DOMAIN dags : dags'[j] = dags[j]
      /\ dags'[Len(dags) + 1] = steps
  BY <1>1
<1>7. CASE \E n \in DOMAIN kept : Isomorphic(kept[n], steps)
  <2>1. kept' = kept
    BY <1>1, <1>7 DEF Keep
  <2>2. FilterFast(dags') = kept'
    BY <2>1, <1>1, <1>3, <1>5, <1>7
  <2>3. Numbered(dags')
    BY <1>1, <1>5
  <2>. QED  BY <2>1, <2>2, <2>3, <1>2, <1>6, <1>7
<1>8. CASE ~\E n \in DOMAIN kept : Isomorphic(kept[n], steps)
  <2>1. kept' = Append(kept, steps)
    BY <1>1, <1>8 DEF Keep
  <2>2. FilterFast(dags') = kept'
    BY <2>1, <1>1, <1>3, <1>5, <1>8
  <2>3. /\ DOMAIN kept' = DOMAIN kept \cup {Len(kept) + 1}
        /\ \A n \in DOMAIN kept : kept'[n] = kept[n]
        /\ kept'[Len(kept) + 1] = steps
        /\ kept' \in Seq(GraphOf(nrVertices))
    <3>. DEFINE S == GraphOf(nrVertices)
    <3>1. kept \in Seq(S) /\ steps \in S
      BY <1>1, <1>2
    <3>. HIDE DEF S
    <3>2. /\ DOMAIN kept' = DOMAIN kept \cup {Len(kept) + 1}
          /\ \A n \in DOMAIN kept : kept'[n] = kept[n]
          /\ kept'[Len(kept) + 1] = steps
      BY <3>1, <2>1
    <3>3. kept' \in Seq(S)
      BY <3>1, <2>1
    <3>. QED  BY <3>2, <3>3 DEF S
  <2>4. Numbered(dags')
    BY <1>1, <1>5
  <2>. QED  BY <2>2, <2>3, <2>4, <1>2, <1>4, <1>6
<1>. QED  BY <1>7, <1>8

LEMMA KeptStep ==
  ASSUME Typed, ReportedGraphs, KeptAsFiltered, [ListNext]_<<vars, listVars>>
  PROVE  KeptAsFiltered'
<1>1. CASE Report
  BY <1>1, KeptReport
<1>2. CASE NextList
  <2>1. dags' = <<>> /\ kept' = <<>>
    BY <1>2 DEF NextList, NextSize, Reset
  <2>. QED  BY <2>1, EmptyFiltered DEF KeptAsFiltered
<1>3. CASE UNCHANGED <<fanin, genType, nrVertices, dags, kept>>
  BY <1>3 DEF KeptAsFiltered, Reporting, GraphOf, Step, StepsAbove
<1>4. Search \/ Correct \/ Initialize \/ ListDone \/ UNCHANGED <<vars, listVars>>
        => UNCHANGED <<fanin, genType, nrVertices, dags, kept>>
  BY DEF Search, Choose, Exhausted, Reject, Correct, Initialize, ListDone, vars, listVars
<1>. QED  BY <1>1, <1>2, <1>3, <1>4 DEF ListNext

(* The filter in the callback, which compares a graph with those kept, and *)
(* the filter afterwards, which compares it with all before it, leave the  *)
(* same list, in the same order: not only for the sizes that FiltersAgree  *)
(* keeps to, the ones TLC can compare, but whatever the number of vertices.*)
THEOREM FiltersKeepTheSame ==
  ListSpec => [](FiltersAgree /\ (SearchDone => FilterFast(dags) = kept))
<1>. DEFINE IInv == Typed /\ ReportedGraphs /\ KeptAsFiltered
<1>1. ListInit => IInv
  BY TypedInit, ReportedInit, KeptInit DEF ListInit
<1>2. IInv /\ [ListNext]_<<vars, listVars>> => IInv'
  BY ListStep, TypedStep, ReportedStep, KeptStep
<1>3. IInv => FiltersAgree /\ (SearchDone => FilterFast(dags) = kept)
  BY DEF KeptAsFiltered, FiltersAgree, SearchDone, Reporting
<1>. QED  BY <1>1, <1>2, <1>3, PTL DEF ListSpec

-----------------------------------------------------------------------------
(* Files of graphs.                                                        *)

(* Induction, for a set. *)
LEMMA UpTo ==
  ASSUME NEW n \in Nat, NEW S, 0 \in S, \A i \in 0 .. n - 1 : i \in S => i + 1 \in S
  PROVE  0 .. n \subseteq S
<1>. DEFINE missed == (0 .. n) \ S
            R == {ss \in Nat \X Nat : ss[1] < ss[2]}
<1>1. IsWellFoundedOn(R, Nat)
  BY NatLessThanWellFounded DEF OpToRel
<1>. SUFFICES ASSUME missed # {} PROVE FALSE
  OBVIOUS
<1>2. missed \subseteq Nat
  OBVIOUS
<1>. HIDE DEF missed
<1>3. PICK m \in missed : \A k \in missed : ~(<<k, m>> \in R)
  BY <1>1, <1>2, WFMin
<1>. USE DEF missed
<1>4. m \in 0 .. n /\ m \notin S /\ m # 0
  BY <1>3
<1>5. m - 1 \in 0 .. n - 1 /\ (m - 1) + 1 = m
  BY <1>4
<1>6. m - 1 \notin S
  BY <1>4, <1>5
<1>7. m - 1 \in missed
  BY <1>4, <1>5, <1>6
<1>8. <<m - 1, m>> \in Nat \X Nat /\ m - 1 < m
  BY <1>4, <1>5
<1>9. <<m - 1, m>> \in R
  BY <1>8
<1>. HIDE DEF missed, R
<1>. QED  BY <1>3, <1>7, <1>9

LEMMA Products ==
  ASSUME NEW c \in Nat, NEW a \in Nat, NEW b \in Nat, a <= b
  PROVE  c * a \in Nat /\ c * b \in Nat /\ c * a <= c * b /\ c * (a + 1) = c * a + c
<1>1. PICK d \in Nat : b = a + d
  <2>1. b - a \in Nat /\ b = a + (b - a)
    OBVIOUS
  <2>. QED  BY <2>1
<1>2. c * a \in Nat /\ c * d \in Nat /\ c * b \in Nat
  OBVIOUS
<1>3. c * (a + d) = c * a + c * d
  OBVIOUS
<1>4. c * (a + 1) = c * a + c
  OBVIOUS
<1>. QED  BY <1>1, <1>2, <1>3, <1>4

-----------------------------------------------------------------------------
LEMMA JoinFacts ==
  ASSUME NEW S, NEW s \in Seq(S), NEW t \in Seq(S)
  PROVE  /\ s \o t \in Seq(S) /\ Len(s \o t) = Len(s) + Len(t)
         /\ \A p \in 1 .. Len(s) : (s \o t)[p] = s[p]
         /\ \A k \in 1 .. Len(t) : (s \o t)[Len(s) + k] = t[k]
OBVIOUS

(* What the function in the definition of FlattenSeq is. *)
LEMMA FlattenIs ==
  ASSUME NEW parts, Len(parts) \in Nat \ {0}
  PROVE  \E f : /\ FlattenSeq(parts) = f[Len(parts)]
                /\ f[1] = parts[1]
                /\ \A i \in 2 .. Len(parts) : f[i] = f[i - 1] \o parts[i]
<1>. DEFINE n == Len(parts)
            Next1(f, i) == IF i = 1 THEN parts[i] ELSE f[i - 1] \o parts[i]
            Flat(f, m) == f = [i \in 1 .. m |-> Next1(f, i)]
            defined == {m \in Nat : \E f : Flat(f, m + 1)}
<1>1. 0 \in defined
  <2>. DEFINE f == [i \in 1 .. 1 |-> parts[i]]
  <2>1. f = [i \in 1 .. 1 |-> IF i = 1 THEN parts[i] ELSE f[i - 1] \o parts[i]]
    OBVIOUS
  <2>. HIDE DEF f
  <2>2. Flat(f, 0 + 1)
    BY <2>1
  <2>. HIDE DEF Flat
  <2>. QED  BY <2>2
<1>2. ASSUME NEW m \in Nat, m \in defined
      PROVE  m + 1 \in defined
  <2>1. PICK f : Flat(f, m + 1)
    <3>. HIDE DEF Flat
    <3>. QED  BY <1>2
  <2>. DEFINE h == [i \in 1 .. (m + 1) + 1 |->
                      IF i = (m + 1) + 1 THEN f[m + 1] \o parts[i] ELSE f[i]]
  <2>2. \A i \in 1 .. m + 1 : h[i] = f[i] /\ f[i] = Next1(f, i)
    <3>1. \A i \in 1 .. m + 1 : f[i] = Next1(f, i)
      BY <2>1
    <3>. QED  BY <3>1
  <2>3. h[(m + 1) + 1] = f[m + 1] \o parts[(m + 1) + 1]
    <3>1. (m + 1) + 1 \in 1 .. (m + 1) + 1
      OBVIOUS
    <3>. QED  BY <3>1
  <2>4. h = [i \in 1 .. (m + 1) + 1 |-> h[i]]
    OBVIOUS
  <2>. HIDE DEF h
  <2>5. ASSUME NEW i \in 1 .. (m + 1) + 1 PROVE h[i] = Next1(h, i)
    <3>1. CASE i = (m + 1) + 1
      <4>1. i # 1 /\ i - 1 = m + 1 /\ m + 1 \in 1 .. m + 1
        BY <3>1
      <4>2. h[i] = f[i - 1] \o parts[i] /\ h[i - 1] = f[i - 1]
        BY <3>1, <4>1, <2>2, <2>3
      <4>. QED  BY <4>1, <4>2
    <3>2. CASE i # (m + 1) + 1
      <4>1. i \in 1 .. m + 1 /\ (i # 1 => i - 1 \in 1 .. m + 1)
        BY <3>2
      <4>. QED  BY <4>1, <2>2
    <3>. QED  BY <3>1, <3>2
  <2>6. Flat(h, (m + 1) + 1)
    BY <2>4, <2>5
  <2>. HIDE DEF Flat
  <2>. QED  BY <2>6
<1>3. n - 1 \in Nat /\ (n - 1) + 1 = n
  OBVIOUS
<1>4. n - 1 \in defined
  <2>. HIDE DEF defined
  <2>1. \A i \in 0 .. (n - 1) - 1 : i \in defined => i + 1 \in defined
    BY <1>2
  <2>2. 0 .. n - 1 \subseteq defined
    BY <1>1, <1>3, <2>1, UpTo
  <2>. QED  BY <2>2, <1>3
<1>. DEFINE flatten == CHOOSE f : Flat(f, n)
<1>5. Flat(flatten, n)
  <2>. HIDE DEF Flat
  <2>. QED  BY <1>3, <1>4
<1>6. FlattenSeq(parts) = flatten[n]
  BY DEF FlattenSeq
<1>. HIDE DEF flatten
<1>7. \A i \in 1 .. n : flatten[i] = Next1(flatten, i)
  BY <1>5
<1>8. flatten[1] = parts[1]
  <2>1. 1 \in 1 .. n
    OBVIOUS
  <2>. QED  BY <1>7, <2>1
<1>9. ASSUME NEW i \in 2 .. n
      PROVE  flatten[i] = flatten[i - 1] \o parts[i]
  <2>1. i \in 1 .. n /\ i # 1
    BY <1>9
  <2>. QED  BY <1>7, <2>1
<1>. QED  BY <1>6, <1>8, <1>9

(* Where the elements of equally long parts are in the flattened sequence. *)
LEMMA FlattenBlocks ==
  ASSUME NEW parts \in Seq(Seq(Nat)), NEW c \in Nat,
         \A i \in 1 .. Len(parts) : Len(parts[i]) = c
  PROVE  /\ FlattenSeq(parts) \in Seq(Nat) /\ Len(FlattenSeq(parts)) = c * Len(parts)
         /\ \A i \in 1 .. Len(parts), k \in 1 .. c :
              FlattenSeq(parts)[c * (i - 1) + k] = parts[i][k]
<1>. DEFINE n == Len(parts)
            Block(s, m) == /\ s \in Seq(Nat) /\ Len(s) = c * m
                           /\ \A i \in 1 .. m, k \in 1 .. c : s[c * (i - 1) + k] = parts[i][k]
<1>0. n \in Nat /\ \A i \in 1 .. n : parts[i] \in Seq(Nat) /\ Len(parts[i]) = c
  OBVIOUS
<1>1. CASE n = 0
  <2>1. FlattenSeq(parts) = parts /\ parts = <<>>
    BY <1>1 DEF FlattenSeq
  <2>2. c * n = 0
    BY <1>1
  <2>. QED  BY <1>1, <2>1, <2>2
<1>2. CASE n # 0
  <2>1. PICK f : /\ FlattenSeq(parts) = f[n]
                 /\ f[1] = parts[1]
                 /\ \A i \in 2 .. n : f[i] = f[i - 1] \o parts[i]
    BY <1>0, <1>2, FlattenIs
  <2>. DEFINE blocks == {m \in Nat : Block(f[m + 1], m + 1)}
  <2>2. 0 \in blocks
    <3>1. c * 1 = c /\ c * (1 - 1) = 0 /\ 1 \in 1 .. n
      BY <1>0, <1>2
    <3>2. ASSUME NEW i \in 1 .. 1, NEW k \in 1 .. c
          PROVE  f[1][c * (i - 1) + k] = parts[i][k]
      <4>1. i = 1
        OBVIOUS
      <4>2. c * (i - 1) + k = k
        BY <4>1, <3>1
      <4>. QED  BY <2>1, <4>1, <4>2
    <3>3. Block(f[1], 1)
      BY <2>1, <3>1, <3>2, <1>0
    <3>. HIDE DEF Block
    <3>. QED  BY <3>3
  <2>3. ASSUME NEW m \in 0 .. (n - 1) - 1, m \in blocks
        PROVE  m + 1 \in blocks
    <3>. DEFINE s == f[m + 1]
                t == parts[m + 2]
                last == f[m + 2]
                q == c * (m + 1)
    <3>1. m \in Nat /\ m + 2 \in 2 .. n /\ m + 2 \in 1 .. n /\ (m + 2) - 1 = m + 1 /\ m + 1 \in Nat
      BY <1>0
    <3>2. /\ s \in Seq(Nat) /\ Len(s) = q
          /\ \A i \in 1 .. m + 1, k \in 1 .. c : s[c * (i - 1) + k] = parts[i][k]
      BY <2>3
    <3>3. t \in Seq(Nat) /\ Len(t) = c
      BY <1>0, <3>1
    <3>4. last = s \o t
      <4>1. f[m + 2] = f[(m + 2) - 1] \o parts[m + 2]
        BY <2>1, <3>1
      <4>. QED  BY <4>1, <3>1
    <3>5. q \in Nat /\ c * (m + 2) = q + c
      <4>1. m + 2 = (m + 1) + 1
        BY <3>1
      <4>. QED  BY <3>1, <4>1, Products
    <3>6. q = c * ((m + 2) - 1)
      BY <3>1
    <3>. HIDE DEF s, t, last, q
    <3>7. /\ last \in Seq(Nat) /\ Len(last) = q + c
          /\ \A p \in 1 .. q : last[p] = s[p]
          /\ \A k \in 1 .. c : last[q + k] = t[k]
      <4>. s \in Seq(Nat) /\ t \in Seq(Nat)
        BY <3>2, <3>3
      <4>1. /\ s \o t \in Seq(Nat) /\ Len(s \o t) = Len(s) + Len(t)
            /\ \A p \in 1 .. Len(s) : (s \o t)[p] = s[p]
            /\ \A k \in 1 .. Len(t) : (s \o t)[Len(s) + k] = t[k]
        BY JoinFacts
      <4>. QED  BY <4>1, <3>2, <3>3, <3>4
    <3>8. ASSUME NEW i \in 1 .. m + 2, NEW k \in 1 .. c
          PROVE  last[c * (i - 1) + k] = parts[i][k]
      <4>1. CASE i = m + 2
        BY <4>1, <3>6, <3>7 DEF t
      <4>2. CASE i # m + 2
        <5>1. i \in 1 .. m + 1 /\ i - 1 \in Nat /\ i \in Nat /\ i = (i - 1) + 1 /\ i <= m + 1
          BY <4>2, <3>1
        <5>2. c * (i - 1) \in Nat /\ c * i = c * (i - 1) + c
          <6>1. i - 1 <= i - 1
            BY <5>1
          <6>2. c * (i - 1) \in Nat /\ c * ((i - 1) + 1) = c * (i - 1) + c
            BY <5>1, <6>1, Products
          <6>. QED  BY <5>1, <6>2
        <5>3. c * i \in Nat /\ c * i <= q
          BY <5>1, <3>1, Products DEF q
        <5>4. ASSUME NEW a \in Nat, NEW b \in Nat, b = a + c, b <= q
              PROVE  a + k \in 1 .. q
          BY <5>4, <3>5
        <5>5. c * (i - 1) + k \in 1 .. q
          BY <5>2, <5>3, <5>4
        <5>6. last[c * (i - 1) + k] = s[c * (i - 1) + k]
          BY <5>5, <3>7
        <5>. QED  BY <5>1, <5>6, <3>2
      <4>. QED  BY <4>1, <4>2
    <3>9. Block(last, m + 2)
      BY <3>5, <3>7, <3>8
    <3>10. (m + 1) + 1 = m + 2
      BY <3>1
    <3>. HIDE DEF Block
    <3>. QED  BY <3>1, <3>9, <3>10 DEF last
  <2>4. n - 1 \in Nat /\ (n - 1) + 1 = n
    BY <1>0, <1>2
  <2>5. n - 1 \in blocks
    <3>. HIDE DEF blocks
    <3>1. 0 .. n - 1 \subseteq blocks
      BY <2>2, <2>3, <2>4, UpTo
    <3>2. n - 1 \in 0 .. n - 1
      BY <2>4
    <3>. HIDE DEF n
    <3>. QED  BY <3>1, <3>2
  <2>6. Block(f[n], n)
    <3>. HIDE DEF Block
    <3>. QED  BY <2>4, <2>5
  <2>. QED  BY <2>1, <2>6
<1>. QED  BY <1>1, <1>2
-----------------------------------------------------------------------------
(* The graph read from place p of a file, and what the function in the     *)
(* definition of ReadDags is: every graph read brings the place forward,   *)
(* so the function is made from the end of the file.                       *)
GraphAt(file, p) ==
  [v \in 1 .. file[p] |-> [k \in 1 .. fanin |-> file[p + fanin * (v - 1) + k]]]

LEMMA ReadDagsIs ==
  ASSUME fanin \in {2, 3}, NEW file \in Seq(Nat)
  PROVE  \E r : /\ ReadDags(file) = r[1]
                /\ \A p \in Nat \ {0} : p > Len(file) => r[p] = <<>>
                /\ \A p \in 1 .. Len(file) :
                     r[p] = <<GraphAt(file, p)>> \o r[p + fanin * file[p] + 1]
<1>. DEFINE n == Len(file)
            Read1(r, p) == IF p > n THEN <<>>
                           ELSE <<GraphAt(file, p)>> \o r[p + fanin * file[p] + 1]
            Reads(r) == r = [p \in Nat \ {0} |-> Read1(r, p)]
            From(r, m) == /\ r = [p \in Nat \ {0} |-> r[p]]
                          /\ \A p \in Nat \ {0} : p > n - m => r[p] = Read1(r, p)
            defined == {m \in Nat : \E r : From(r, m)}
<1>0. n \in Nat
  OBVIOUS
<1>1. 0 \in defined
  <2>. DEFINE r == [p \in Nat \ {0} |-> <<>>]
  <2>1. /\ r = [p \in Nat \ {0} |-> r[p]]
        /\ \A p \in Nat \ {0} : r[p] = <<>>
    OBVIOUS
  <2>. HIDE DEF r
  <2>2. \A p \in Nat \ {0} : p > n - 0 => r[p] = Read1(r, p)
    BY <2>1, <1>0
  <2>3. From(r, 0)
    BY <2>1, <2>2
  <2>. HIDE DEF From
  <2>. QED  BY <2>3
<1>2. ASSUME NEW m \in 0 .. n - 1, m \in defined
      PROVE  m + 1 \in defined
  <2>1. PICK r : From(r, m)
    <3>. HIDE DEF From
    <3>. QED  BY <1>2
  <2>. DEFINE q == n - m
              h == [p \in Nat \ {0} |->
                      IF p = q THEN <<GraphAt(file, q)>> \o r[q + fanin * file[q] + 1] ELSE r[p]]
  <2>2. q \in 1 .. n /\ q = n - m /\ file[q] \in Nat /\ m \in Nat
    BY <1>0
  <2>3. /\ h = [p \in Nat \ {0} |-> h[p]]
        /\ h[q] = <<GraphAt(file, q)>> \o r[q + fanin * file[q] + 1]
        /\ \A p \in Nat \ {0} : p # q => h[p] = r[p]
    <3>1. q \in Nat \ {0}
      BY <2>2
    <3>. HIDE DEF q
    <3>. QED  BY <3>1
  <2>. HIDE DEF h, q
  <2>4. \A p \in 1 .. n : p + fanin * file[p] + 1 \in Nat \ {0} /\ p + fanin * file[p] + 1 > p
    <3>1. ASSUME NEW p \in 1 .. n, NEW c \in Nat
          PROVE  p + 2 * c + 1 \in Nat \ {0} /\ p + 2 * c + 1 > p
                 /\ p + 3 * c + 1 \in Nat \ {0} /\ p + 3 * c + 1 > p
      OBVIOUS
    <3>2. \A p \in 1 .. n : file[p] \in Nat
      OBVIOUS
    <3>. QED  BY <3>1, <3>2
  <2>5. ASSUME NEW p \in Nat \ {0}, p > n - (m + 1)
        PROVE  h[p] = Read1(h, p)
    <3>1. p = q \/ p > n - m
      BY <2>2, <2>5, <1>0
    <3>2. CASE p = q
      <4>1. h[q + fanin * file[q] + 1] = r[q + fanin * file[q] + 1] /\ ~(q > n)
        BY <2>2, <2>3, <2>4, SMTT(30)
      <4>. QED  BY <3>2, <4>1, <2>3
    <3>3. CASE p > n - m
      <4>1. p # q /\ h[p] = r[p] /\ r[p] = Read1(r, p)
        <5>1. p # q
          BY <3>3, <2>2, <1>0
        <5>2. h[p] = r[p]
          BY <5>1, <2>3
        <5>3. \A x \in Nat \ {0} : x > n - m => r[x] = Read1(r, x)
          BY <2>1
        <5>. QED  BY <3>3, <5>1, <5>2, <5>3
      <4>2. CASE p > n
        BY <4>1, <4>2
      <4>3. CASE ~(p > n)
        <5>. DEFINE next == p + fanin * file[p] + 1
        <5>1. p \in 1 .. n
          BY <4>3, <1>0
        <5>2. next \in Nat \ {0} /\ next > p
          BY <5>1, <2>4
        <5>. HIDE DEF next
        <5>3. next # q
          BY <3>3, <5>2, <2>2, <1>0
        <5>4. h[next] = r[next]
          BY <5>2, <5>3, <2>3
        <5>. QED  BY <4>1, <4>3, <5>4 DEF next
      <4>. QED  BY <4>2, <4>3
    <3>. QED  BY <3>1, <3>2, <3>3
  <2>6. From(h, m + 1)
    BY <2>3, <2>5
  <2>. HIDE DEF From
  <2>. QED  BY <2>6
<1>3. n \in defined
  <2>. HIDE DEF defined
  <2>1. 0 .. n \subseteq defined
    BY <1>0, <1>1, <1>2, UpTo
  <2>. QED  BY <2>1, <1>0
<1>4. PICK r : From(r, n)
  <2>. HIDE DEF From
  <2>. QED  BY <1>3
<1>5. Reads(r)
  <2>1. \A p \in Nat \ {0} : r[p] = Read1(r, p)
    BY <1>0, <1>4, SMTT(30)
  <2>2. r = [p \in Nat \ {0} |-> r[p]]
    BY <1>4
  <2>. QED  BY <2>1, <2>2
<1>. DEFINE read == CHOOSE f : Reads(f)
<1>6. Reads(read)
  <2>. HIDE DEF Reads
  <2>. QED  BY <1>5
<1>7. ReadDags(file) = read[1]
  BY DEF ReadDags, GraphAt
<1>. HIDE DEF read
<1>8. \A p \in Nat \ {0} : read[p] = Read1(read, p)
  BY <1>6
<1>9. \A p \in Nat \ {0} : p > Len(file) => read[p] = <<>>
  BY <1>8
<1>10. ASSUME NEW p \in 1 .. Len(file)
       PROVE  read[p] = <<GraphAt(file, p)>> \o read[p + fanin * file[p] + 1]
  <2>1. p \in Nat \ {0} /\ ~(p > n)
    BY <1>0
  <2>. QED  BY <2>1, <1>8
<1>. QED  BY <1>7, <1>9, <1>10

(* What one graph is in a file. *)
LEMMA WrittenIs ==
  ASSUME fanin \in {2, 3}, NEW n \in Nat \ {0}, NEW g \in GraphOf(n)
  PROVE  /\ Written(g) \in Seq(Nat) /\ Len(Written(g)) = fanin * n + 1
         /\ Written(g)[1] = n
         /\ \A v \in 1 .. n, k \in 1 .. fanin : Written(g)[fanin * (v - 1) + k + 1] = g[v][k]
<1>1. g \in Seq(Seq(Nat)) /\ Len(g) = n /\ \A v \in 1 .. Len(g) : Len(g[v]) = fanin
  <2>1. g \in [1 .. n -> Step]
    BY DEF GraphOf
  <2>2. ASSUME NEW s \in Step PROVE s \in Seq(Nat) /\ Len(s) = fanin
    BY <2>2 DEF Step
  <2>3. g \in [1 .. n -> Seq(Nat)] /\ \A v \in 1 .. n : Len(g[v]) = fanin
    BY <2>1, <2>2
  <2>. QED  BY <2>3
<1>. DEFINE flat == FlattenSeq(g)
<1>2. /\ flat \in Seq(Nat) /\ Len(flat) = fanin * n
      /\ \A v \in 1 .. n, k \in 1 .. fanin : flat[fanin * (v - 1) + k] = g[v][k]
  <2>1. fanin \in Nat
    OBVIOUS
  <2>. HIDE DEF flat
  <2>2. \A v \in 1 .. Len(g) : Len(g[v]) = fanin
    BY <1>1
  <2>3. /\ FlattenSeq(g) \in Seq(Nat) /\ Len(FlattenSeq(g)) = fanin * Len(g)
        /\ \A v \in 1 .. Len(g), k \in 1 .. fanin :
             FlattenSeq(g)[fanin * (v - 1) + k] = g[v][k]
    BY <1>1, <2>1, <2>2, FlattenBlocks
  <2>. QED  BY <1>1, <2>3 DEF flat
<1>3. Written(g) = <<n>> \o flat
  BY <1>1 DEF Written
<1>. HIDE DEF flat
<1>4. /\ Written(g) \in Seq(Nat) /\ Len(Written(g)) = Len(flat) + 1
      /\ Written(g)[1] = n
      /\ \A p \in 1 .. Len(flat) : Written(g)[p + 1] = flat[p]
  BY <1>2, <1>3, SMTT(30)
<1>5. ASSUME NEW v \in 1 .. n, NEW k \in 1 .. fanin
      PROVE  Written(g)[fanin * (v - 1) + k + 1] = g[v][k]
  <2>1. fanin * (v - 1) + k \in 1 .. Len(flat)
    <3>1. CASE fanin = 2
      BY <3>1, <1>2
    <3>2. CASE fanin = 3
      BY <3>2, <1>2
    <3>. QED  BY <3>1, <3>2
  <2>. QED  BY <2>1, <1>2, <1>4
<1>. QED  BY <1>2, <1>4, <1>5

(* A file of graphs of the same size is read back as it was written: the   *)
(* last graphs first, one after the other.                                 *)
LEMMA FileIsRead ==
  ASSUME fanin \in {2, 3}, NEW n \in Nat \ {0}, NEW list \in Seq(GraphOf(n))
  PROVE  ReadDags(WrittenFile(list)) = list
<1>. DEFINE file == WrittenFile(list)
            c == fanin * n + 1
            l == Len(list)
<1>0. l \in Nat /\ c \in Nat \ {0} /\ \A i \in 1 .. l : list[i] \in GraphOf(n)
  BY Z3
<1>1. /\ file \in Seq(Nat) /\ Len(file) = c * l
      /\ \A i \in 1 .. l, k \in 1 .. c : file[c * (i - 1) + k] = Written(list[i])[k]
  <2>. DEFINE parts == [i \in DOMAIN list |-> Written(list[i])]
  <2>1. /\ parts \in Seq(Seq(Nat)) /\ Len(parts) = l
        /\ \A i \in 1 .. l : Len(parts[i]) = c /\ parts[i] = Written(list[i])
    <3>1. DOMAIN list = 1 .. l
      OBVIOUS
    <3>2. \A i \in 1 .. l : Written(list[i]) \in Seq(Nat) /\ Len(Written(list[i])) = c
      BY <1>0, WrittenIs
    <3>3. parts = [i \in 1 .. l |-> Written(list[i])]
      BY <3>1
    <3>. HIDE DEF l, parts
    <3>4. parts \in [1 .. l -> Seq(Nat)]
      BY <3>2, <3>3
    <3>. QED  BY <3>2, <3>3, <3>4, <1>0
  <2>2. file = FlattenSeq(parts)
    BY DEF WrittenFile
  <2>. HIDE DEF parts, c, l
  <2>3. /\ FlattenSeq(parts) \in Seq(Nat) /\ Len(FlattenSeq(parts)) = c * l
        /\ \A i \in 1 .. l, k \in 1 .. c : FlattenSeq(parts)[c * (i - 1) + k] = parts[i][k]
    <3>1. c \in Nat /\ \A i \in 1 .. Len(parts) : Len(parts[i]) = c
      BY <2>1, <1>0
    <3>2. /\ FlattenSeq(parts) \in Seq(Nat) /\ Len(FlattenSeq(parts)) = c * Len(parts)
          /\ \A i \in 1 .. Len(parts), k \in 1 .. c :
               FlattenSeq(parts)[c * (i - 1) + k] = parts[i][k]
      BY <2>1, <3>1, FlattenBlocks
    <3>. QED  BY <2>1, <3>2
  <2>. QED  BY <2>1, <2>2, <2>3, SMTT(30)
<1>. HIDE DEF file
<1>2. PICK r : /\ ReadDags(file) = r[1]
               /\ \A p \in Nat \ {0} : p > Len(file) => r[p] = <<>>
               /\ \A p \in 1 .. Len(file) :
                    r[p] = <<GraphAt(file, p)>> \o r[p + fanin * file[p] + 1]
  BY <1>1, ReadDagsIs
<1>3. ASSUME NEW i \in 1 .. l
      PROVE  r[c * (i - 1) + 1] = <<list[i]>> \o r[c * i + 1]
  <2>. DEFINE p == c * (i - 1) + 1
  <2>1. i - 1 \in Nat /\ i \in Nat /\ i <= l /\ (i - 1) + 1 = i
    BY <1>0
  <2>2. c * (i - 1) \in Nat /\ c * i = c * (i - 1) + c
    <3>. HIDE DEF c
    <3>1. i - 1 <= i - 1 /\ c \in Nat
      BY <2>1, <1>0
    <3>2. c * (i - 1) \in Nat /\ c * ((i - 1) + 1) = c * (i - 1) + c
      BY <3>1, <2>1, Products
    <3>. QED  BY <2>1, <3>2
  <2>3. c * i \in Nat /\ c * i <= c * l /\ c * l \in Nat
    BY <2>1, <1>0, Products
  <2>4. p \in 1 .. Len(file)
    <3>1. ASSUME NEW x \in Nat, NEW y \in Nat, NEW z \in Nat, NEW d \in Nat \ {0},
                 y = x + d, y <= z
          PROVE  x + 1 \in 1 .. z
      BY <3>1
    <3>2. c \in Nat \ {0} /\ Len(file) = c * l
      BY <1>0, <1>1
    <3>. HIDE DEF c, l
    <3>. QED  BY <2>2, <2>3, <3>1, <3>2
  <2>5. list[i] \in GraphOf(n)
    BY <1>0
  <2>6. file[p] = n
    <3>1. 1 \in 1 .. c
      BY <1>0
    <3>2. file[c * (i - 1) + 1] = Written(list[i])[1]
      BY <3>1, <1>1
    <3>. QED  BY <3>2, <2>5, WrittenIs
  <2>7. GraphAt(file, p) = list[i]
    <3>1. ASSUME NEW v \in 1 .. n, NEW k \in 1 .. fanin
          PROVE  file[p + fanin * (v - 1) + k] = list[i][v][k]
      <4>. DEFINE q == fanin * (v - 1) + k + 1
      <4>1. q \in 1 .. c
        <5>1. CASE fanin = 2
          BY <5>1
        <5>2. CASE fanin = 3
          BY <5>2
        <5>. QED  BY <5>1, <5>2
      <4>2. file[c * (i - 1) + q] = Written(list[i])[q]
        BY <4>1, <1>1
      <4>3. Written(list[i])[q] = list[i][v][k]
        <5>1. \A u \in 1 .. n, j \in 1 .. fanin :
                Written(list[i])[fanin * (u - 1) + j + 1] = list[i][u][j]
          BY <2>5, WrittenIs
        <5>. QED  BY <5>1
      <4>4. p + fanin * (v - 1) + k = c * (i - 1) + q
        <5>1. fanin * (v - 1) \in Int /\ k \in Int
          OBVIOUS
        <5>. HIDE DEF c
        <5>. QED  BY <5>1, <2>2
      <4>. QED  BY <4>2, <4>3, <4>4
    <3>2. list[i] = [v \in 1 .. n |-> [k \in 1 .. fanin |-> list[i][v][k]]]
      <4>1. list[i] \in [1 .. n -> Step]
        BY <2>5 DEF GraphOf
      <4>. QED  BY <4>1 DEF Step
    <3>. HIDE DEF p
    <3>3. GraphAt(file, p) = [v \in 1 .. n |-> [k \in 1 .. fanin |-> file[p + fanin * (v - 1) + k]]]
      BY <2>6 DEF GraphAt
    <3>4. [v \in 1 .. n |-> [k \in 1 .. fanin |-> file[p + fanin * (v - 1) + k]]]
            = [v \in 1 .. n |-> [k \in 1 .. fanin |-> list[i][v][k]]]
      BY <3>1
    <3>. QED  BY <3>2, <3>3, <3>4
  <2>8. p + fanin * file[p] + 1 = c * i + 1
    <3>. HIDE DEF p
    <3>1. p + fanin * n + 1 = c * (i - 1) + 1 + c
      <4>1. fanin * n \in Nat /\ p = c * (i - 1) + 1 /\ c = fanin * n + 1
        BY DEF p
      <4>. HIDE DEF c
      <4>. QED  BY <4>1, <2>2
    <3>2. c \in Nat
      BY <1>0
    <3>. HIDE DEF c
    <3>. QED  BY <3>1, <3>2, <2>2, <2>6
  <2>. HIDE DEF c
  <2>9. r[p] = <<GraphAt(file, p)>> \o r[p + fanin * file[p] + 1]
    BY <2>4, <1>2
  <2>. QED  BY <2>7, <2>8, <2>9
<1>. DEFINE rest == {m \in Nat : m <= l => r[c * (l - m) + 1] = SubSeq(list, l - m + 1, l)}
<1>4. 0 \in rest
  <2>1. c * l \in Nat /\ c * (l - 0) = c * l
    <3>. HIDE DEF c, l
    <3>. QED  BY <1>0
  <2>2. r[c * l + 1] = <<>>
    <3>. HIDE DEF c, l
    <3>. QED  BY <1>1, <1>2, <2>1
  <2>3. SubSeq(list, l - 0 + 1, l) = <<>>
    BY <1>0
  <2>. HIDE DEF c, l
  <2>. QED  BY <2>1, <2>2, <2>3
<1>5. ASSUME NEW m \in 0 .. l - 1, m \in rest
      PROVE  m + 1 \in rest
  <2>. DEFINE i == l - m
  <2>1. i \in 1 .. l /\ l - (m + 1) = i - 1 /\ (i - 1) + 1 = i /\ m <= l /\ m + 1 \in Nat
    BY <1>0
  <2>2. r[c * i + 1] = SubSeq(list, i + 1, l)
    BY <1>5, <2>1
  <2>3. r[c * (i - 1) + 1] = <<list[i]>> \o SubSeq(list, i + 1, l)
    BY <1>3, <2>1, <2>2
  <2>. HIDE DEF i, c
  <2>4. <<list[i]>> \o SubSeq(list, i + 1, l) = SubSeq(list, i, l)
    <3>. DEFINE S == GraphOf(n)
    <3>1. list \in Seq(S)
      OBVIOUS
    <3>. HIDE DEF S
    <3>. QED  BY <3>1, <2>1
  <2>5. r[c * (l - (m + 1)) + 1] = SubSeq(list, l - (m + 1) + 1, l)
    BY <2>1, <2>3, <2>4
  <2>. HIDE DEF l
  <2>. QED  BY <2>1, <2>5
<1>6. l \in rest
  <2>. HIDE DEF rest
  <2>1. 0 .. l \subseteq rest
    BY <1>0, <1>4, <1>5, UpTo
  <2>. QED  BY <2>1, <1>0
<1>7. r[c * (l - l) + 1] = SubSeq(list, l - l + 1, l)
  BY <1>6
<1>8. c * (l - l) + 1 = 1 /\ l - l + 1 = 1
  <2>. HIDE DEF l, c
  <2>. QED  BY <1>0
<1>9. SubSeq(list, 1, l) = list
  <2>. DEFINE S == GraphOf(n)
  <2>1. list \in Seq(S)
    OBVIOUS
  <2>. HIDE DEF S
  <2>. QED  BY <2>1
<1>10. r[1] = list
  <2>. HIDE DEF c, l
  <2>. QED  BY <1>7, <1>8, <1>9
<1>. QED  BY <1>2, <1>10 DEF file

(* What the experiments read from a file is the list that was written: the *)
(* graphs of one size that the callback has kept, in both classes and for  *)
(* every number of vertices.                                               *)
THEOREM FilesAreReadBack == ListSpec => []FileReadsBack
<1>. DEFINE IInv == Typed /\ ReportedGraphs /\ KeptAsFiltered
<1>1. ListInit => IInv
  BY TypedInit, ReportedInit, KeptInit DEF ListInit
<1>2. IInv /\ [ListNext]_<<vars, listVars>> => IInv'
  BY ListStep, TypedStep, ReportedStep, KeptStep
<1>3. IInv => FileReadsBack
  <2>. SUFFICES ASSUME IInv, SearchDone PROVE ReadDags(WrittenFile(kept)) = kept
    BY DEF FileReadsBack
  <2>1. fanin \in {2, 3} /\ nrVertices \in Nat \ {0}
    BY Parameters
  <2>2. kept \in Seq(GraphOf(nrVertices))
    BY DEF KeptAsFiltered, SearchDone, Reporting
  <2>. QED  BY <2>1, <2>2, FileIsRead
<1>. QED  BY <1>1, <1>2, <1>3, PTL DEF ListSpec

-----------------------------------------------------------------------------
(* A loop has a value at every point, whether it ends there or not: the    *)
(* values it must return are the least relation that holds what is         *)
(* returned at the end and is closed under turning back.                   *)
Follows(f, S, ends, turn, out) ==
  \A x \in S : f[x] = IF x \in ends THEN out[x] ELSE f[turn[x]]

LEMMA LoopDefined ==
  ASSUME NEW S, NEW ends \in SUBSET S, NEW turn \in [S \ ends -> S], NEW out
  PROVE  \E f : Follows(f, S, ends, turn, out)
<1>. DEFINE V == {out[x] : x \in ends}
            Closed(Q) == /\ \A x \in ends : <<x, out[x]>> \in Q
                         /\ \A x \in S \ ends, v \in V : <<turn[x], v>> \in Q => <<x, v>> \in Q
            least == {p \in S \X V : \A Q \in SUBSET (S \X V) : Closed(Q) => p \in Q}
            Values(x) == {v \in V : <<x, v>> \in least}
            f == [x \in S |-> CHOOSE v : v \in Values(x)]
<1>1. Closed(least)
  <2>1. \A x \in ends : <<x, out[x]>> \in least
    OBVIOUS
  <2>2. ASSUME NEW x \in S \ ends, NEW v \in V, <<turn[x], v>> \in least
        PROVE  <<x, v>> \in least
    <3>1. <<x, v>> \in S \X V
      OBVIOUS
    <3>2. ASSUME NEW Q \in SUBSET (S \X V), Closed(Q)
          PROVE  <<x, v>> \in Q
      <4>1. <<turn[x], v>> \in Q
        BY <2>2, <3>2
      <4>. QED  BY <4>1, <3>2
    <3>. QED  BY <3>1, <3>2
  <2>. QED  BY <2>1, <2>2
<1>2. ASSUME NEW x \in S, NEW v \in V, <<x, v>> \in least
      PROVE  IF x \in ends THEN v = out[x] ELSE <<turn[x], v>> \in least
  <2>. SUFFICES ASSUME ~(IF x \in ends THEN v = out[x] ELSE <<turn[x], v>> \in least)
                PROVE  FALSE
    OBVIOUS
  <2>. DEFINE less == least \ {<<x, v>>}
  <2>1. \A y \in ends : <<y, out[y]>> \in less
    <3>1. \A y \in ends : <<y, out[y]>> \in least
      BY <1>1
    <3>. HIDE DEF least
    <3>2. ASSUME NEW y \in ends PROVE <<y, out[y]>> # <<x, v>>
      <4>. SUFFICES ASSUME y = x /\ out[y] = v PROVE FALSE
        OBVIOUS
      <4>. QED  OBVIOUS
    <3>. QED  BY <3>1, <3>2
  <2>2. ASSUME NEW y \in S \ ends, NEW u \in V, <<turn[y], u>> \in less
        PROVE  <<y, u>> \in less
    <3>1. <<turn[y], u>> \in least
      BY <2>2
    <3>2. <<y, u>> \in least
      BY <1>1, <3>1
    <3>. HIDE DEF least
    <3>3. ~(y = x /\ u = v)
      BY <3>1
    <3>. QED  BY <3>2, <3>3
  <2>3. Closed(less) /\ less \in SUBSET (S \X V)
    <3>1. less \in SUBSET (S \X V)
      OBVIOUS
    <3>. HIDE DEF less
    <3>. QED  BY <2>1, <2>2, <3>1
  <2>4. <<x, v>> \in less
    <3>. HIDE DEF Closed, less
    <3>. QED  BY <1>2, <2>3
  <2>. QED  BY <2>4
<1>3. ASSUME NEW x \in ends PROVE f[x] = out[x]
  <2>. DEFINE w == CHOOSE v : v \in Values(x)
  <2>1. out[x] \in Values(x)
    <3>1. <<x, out[x]>> \in least
      BY <1>1
    <3>. HIDE DEF least
    <3>. QED  BY <3>1
  <2>2. w \in Values(x)
    <3>. HIDE DEF Values
    <3>. QED  BY <2>1
  <2>3. w \in V /\ <<x, w>> \in least
    <3>. HIDE DEF w, least
    <3>. QED  BY <2>2
  <2>4. w = out[x]
    <3>. HIDE DEF w, least
    <3>. QED  BY <2>3, <1>2
  <2>5. f[x] = w
    <3>. HIDE DEF Values
    <3>. QED  OBVIOUS
  <2>. QED  BY <2>4, <2>5
<1>4. ASSUME NEW x \in S \ ends PROVE f[x] = f[turn[x]]
  <2>1. turn[x] \in S
    OBVIOUS
  <2>2. ASSUME NEW v \in V
        PROVE  <<x, v>> \in least <=> <<turn[x], v>> \in least
    <3>. HIDE DEF least
    <3>. QED  BY <1>1, <1>2
  <2>3. Values(x) = Values(turn[x])
    <3>. HIDE DEF least
    <3>. QED  BY <2>2
  <2>. HIDE DEF Values
  <2>. QED  BY <2>1, <2>3
<1>. HIDE DEF f
<1>5. Follows(f, S, ends, turn, out)
  BY <1>3, <1>4 DEF Follows
<1>. QED  BY <1>5

LEMMA MaxOfTwo ==
  ASSUME NEW a \in Nat, NEW b \in Nat
  PROVE  Max({a, b}) = IF a <= b THEN b ELSE a
BY DEF Max

LEMMA RowFacts ==
  ASSUME NEW S, NEW n \in Nat, NEW f \in [1 .. n -> S]
  PROVE  f \in Seq(S) /\ Len(f) = n /\ DOMAIN f = 1 .. n
OBVIOUS

(* What InsertInput makes of a list, row by row. *)
Inserted(new, w, at, k, nr) ==
  /\ new \in Seq(Seq(Nat)) /\ Len(new) = Len(w) + 1
  /\ DOMAIN new[1] = DOMAIN w[1]
  /\ \A j \in 2 .. Len(w) + 1 : DOMAIN new[j] = DOMAIN w[j - 1]
  /\ at > nr + 1 => new[1] = [l \in DOMAIN w[1] |-> 0]
  /\ \A j \in 2 .. nr + 1 : j <= Len(w) + 1 /\ at > nr + 1 => new[j] = w[j - 1]
  /\ \A j \in nr + 2 .. Len(w) + 1 : \A l \in DOMAIN w[j - 1] :
       new[j][l] = IF j = at /\ l = k THEN 1
                   ELSE IF w[j - 1][l] > 0 THEN w[j - 1][l] + 1 ELSE 0

LEMMA InsertFacts ==
  ASSUME NEW w \in Seq(Seq(Nat)), w # <<>>,
         NEW i \in Nat \ {0}, NEW k \in Nat \ {0}, NEW nr \in Nat, NEW moved \in Nat
  PROVE  Inserted(InsertInput(w, i, k, nr, moved), w, i + moved + 1, k, nr)
<1>. DEFINE first == [l \in DOMAIN w[1] |-> 0]
            longer == <<first>> \o w
            Raised(j) == IF j <= nr + 1 THEN longer[j]
                         ELSE [l \in DOMAIN longer[j] |->
                                 IF longer[j][l] > 0 THEN longer[j][l] + 1 ELSE 0]
            raised == [j \in DOMAIN longer |-> Raised(j)]
            n == Len(w) + 1
            at == i + moved + 1
            new == InsertInput(w, i, k, nr, moved)
<1>1. first \in Seq(Nat) /\ DOMAIN first = DOMAIN w[1]
  <2>. DEFINE row == w[1]
  <2>1. row \in Seq(Nat)
    <3>1. Len(w) \in Nat /\ Len(w) # 0
      OBVIOUS
    <3>2. 1 \in 1 .. Len(w)
      BY <3>1
    <3>. QED  BY <3>2
  <2>. HIDE DEF row
  <2>2. DOMAIN row = 1 .. Len(row) /\ Len(row) \in Nat
    BY <2>1
  <2>3. [l \in 1 .. Len(row) |-> 0] \in Seq(Nat)
    BY <2>2
  <2>. QED  BY <2>2, <2>3 DEF row
<1>. HIDE DEF first
<1>2. /\ longer \in Seq(Seq(Nat)) /\ Len(longer) = n /\ DOMAIN longer = 1 .. n
      /\ longer[1] = first /\ \A j \in 2 .. n : longer[j] = w[j - 1]
  BY <1>1
<1>. HIDE DEF longer
<1>3. \A j \in 1 .. n : longer[j] \in Seq(Nat)
  BY <1>2
<1>4. \A j \in 1 .. n : Raised(j) \in Seq(Nat) /\ DOMAIN Raised(j) = DOMAIN longer[j]
  <2>. SUFFICES ASSUME NEW j \in 1 .. n
                PROVE  Raised(j) \in Seq(Nat) /\ DOMAIN Raised(j) = DOMAIN longer[j]
    OBVIOUS
  <2>1. longer[j] \in Seq(Nat)
    BY <1>3
  <2>. DEFINE row == longer[j]
  <2>2. DOMAIN row = 1 .. Len(row) /\ Len(row) \in Nat /\ \A l \in 1 .. Len(row) : row[l] \in Nat
    BY <2>1, SMTT(30)
  <2>. HIDE DEF row
  <2>3. [l \in DOMAIN row |-> IF row[l] > 0 THEN row[l] + 1 ELSE 0] \in Seq(Nat)
    BY <2>2
  <2>. QED  BY <2>1, <2>3 DEF row
<1>5. raised = [j \in 1 .. n |-> Raised(j)]
  BY <1>2
<1>6. new = [raised EXCEPT ![at][k] = 1]
  BY DEF InsertInput, longer, first
<1>. HIDE DEF new, Raised
<1>7. /\ new = [j \in 1 .. n |-> new[j]]
      /\ \A j \in 1 .. n : new[j] = IF j = at THEN [Raised(j) EXCEPT ![k] = 1] ELSE Raised(j)
  BY <1>5, <1>6
<1>8. \A j \in 1 .. n : new[j] \in Seq(Nat) /\ DOMAIN new[j] = DOMAIN longer[j]
  <2>. SUFFICES ASSUME NEW j \in 1 .. n
                PROVE  new[j] \in Seq(Nat) /\ DOMAIN new[j] = DOMAIN longer[j]
    OBVIOUS
  <2>. DEFINE row == Raised(j)
  <2>1. row \in Seq(Nat) /\ DOMAIN row = DOMAIN longer[j]
    BY <1>4
  <2>2. new[j] = row \/ new[j] = [row EXCEPT ![k] = 1]
    BY <1>7
  <2>. HIDE DEF row
  <2>3. [row EXCEPT ![k] = 1] \in Seq(Nat) /\ DOMAIN [row EXCEPT ![k] = 1] = DOMAIN row
    <3>1. row \in [1 .. Len(row) -> Nat] /\ Len(row) \in Nat
      BY <2>1
    <3>2. [row EXCEPT ![k] = 1] \in [1 .. Len(row) -> Nat]
      BY <3>1
    <3>. QED  BY <3>1, <3>2, RowFacts
  <2>. QED  BY <2>1, <2>2, <2>3
<1>9. new \in Seq(Seq(Nat)) /\ Len(new) = Len(w) + 1
  <2>1. n \in Nat /\ new \in [1 .. n -> Seq(Nat)]
    BY <1>7, <1>8
  <2>. HIDE DEF n
  <2>2. new \in Seq(Seq(Nat)) /\ Len(new) = n
    BY <2>1, RowFacts
  <2>. QED  BY <2>2 DEF n
<1>10. 1 \in 1 .. n /\ \A j \in 2 .. n : j \in 1 .. n
  OBVIOUS
<1>11. /\ DOMAIN new[1] = DOMAIN w[1]
       /\ \A j \in 2 .. n : DOMAIN new[j] = DOMAIN w[j - 1]
  BY <1>1, <1>2, <1>8, <1>10
<1>12. at > nr + 1 => new[1] = first
  <2>1. Raised(1) = longer[1]
    BY DEF Raised
  <2>2. at > nr + 1 => at # 1
    OBVIOUS
  <2>. QED  BY <2>1, <2>2, <1>2, <1>7, <1>10
<1>13. ASSUME NEW j \in 2 .. nr + 1, j <= n, at > nr + 1
       PROVE  new[j] = w[j - 1]
  <2>1. j \in 1 .. n /\ j \in 2 .. n /\ j # at /\ j <= nr + 1
    BY <1>13
  <2>2. Raised(j) = longer[j]
    BY <2>1 DEF Raised
  <2>. QED  BY <2>1, <2>2, <1>2, <1>7
<1>14. ASSUME NEW j \in nr + 2 .. n, NEW l \in DOMAIN w[j - 1]
       PROVE  new[j][l] = IF j = at /\ l = k THEN 1
                          ELSE IF w[j - 1][l] > 0 THEN w[j - 1][l] + 1 ELSE 0
  <2>1. j \in 1 .. n /\ j \in 2 .. n /\ ~(j <= nr + 1)
    BY <1>14
  <2>2. longer[j] = w[j - 1]
    BY <2>1, <1>2
  <2>. DEFINE row == w[j - 1]
              up == [m \in DOMAIN row |-> IF row[m] > 0 THEN row[m] + 1 ELSE 0]
  <2>3. Raised(j) = up
    BY <2>1, <2>2 DEF Raised
  <2>4. new[j] = IF j = at THEN [up EXCEPT ![k] = 1] ELSE up
    BY <2>1, <2>3, <1>7
  <2>. HIDE DEF row
  <2>5. l \in DOMAIN row
    BY DEF row
  <2>6. /\ up[l] = IF row[l] > 0 THEN row[l] + 1 ELSE 0
        /\ [up EXCEPT ![k] = 1][l] = IF l = k THEN 1 ELSE up[l]
    BY <2>5
  <2>. HIDE DEF up
  <2>7. new[j][l] = IF j = at /\ l = k THEN 1 ELSE IF row[l] > 0 THEN row[l] + 1 ELSE 0
    BY <2>4, <2>6
  <2>. QED  BY <2>7 DEF row
<1>15. Inserted(new, w, at, k, nr)
  <2>. HIDE DEF n, at
  <2>. QED  BY <1>9, <1>11, <1>12, <1>13, <1>14 DEF Inserted, first, n
<1>. QED  BY <1>15 DEF new

Start(h) == [list |-> h, place |-> 1, slot |-> 1, nr |-> 0, moved |-> 0]

(* f gives what the loops end with, from any point of their progress. *)
LoopsEnd(f) ==
  \A p \in Progress :
    f[p] = IF p.place > Len(p.list) THEN p.list ELSE f[NextTurn(p)]

LEMMA TurnTyped ==
  ASSUME NEW p \in Progress, ~(p.place > Len(p.list))
  PROVE  NextTurn(p) \in Progress
<1>1. /\ p.list \in Seq(Seq(Nat)) /\ p.place \in Nat \ {0} /\ p.slot \in Nat \ {0}
      /\ p.nr \in Nat /\ p.moved \in Nat
  BY DEF Progress
<1>2. CASE p.slot > Len(p.list[p.place])
  <2>1. Max({p.place, p.nr}) \in Nat
    BY <1>1, MaxOfTwo
  <2>2. NextTurn(p) = [p EXCEPT !.place = Max({p.place, p.nr}) + 1, !.slot = 1, !.moved = 0]
    BY <1>2 DEF NextTurn
  <2>. DEFINE next == Max({p.place, p.nr}) + 1
  <2>3. next \in Nat \ {0} /\ 1 \in Nat \ {0} /\ 0 \in Nat
    BY <2>1
  <2>. HIDE DEF next
  <2>. QED  BY <2>2, <2>3 DEF Progress, next
<1>3. CASE ~(p.slot > Len(p.list[p.place])) /\ p.list[p.place][p.slot] # 0
  <2>1. NextTurn(p) = [p EXCEPT !.slot = p.slot + 1]
    BY <1>3 DEF NextTurn
  <2>2. p.slot + 1 \in Nat \ {0}
    BY <1>1
  <2>. QED  BY <2>1, <2>2 DEF Progress
<1>4. CASE ~(p.slot > Len(p.list[p.place])) /\ p.list[p.place][p.slot] = 0
  <2>. DEFINE new == InsertInput(p.list, p.place, p.slot, p.nr, p.moved)
  <2>1. p.list # <<>>
    BY <1>1
  <2>2. new \in Seq(Seq(Nat))
    BY <1>1, <2>1, InsertFacts DEF Inserted
  <2>3. NextTurn(p) = [p EXCEPT !.list = new, !.slot = p.slot + 1, !.nr = p.nr + 1,
                                !.moved = p.moved + 1]
    BY <1>4 DEF NextTurn
  <2>. HIDE DEF new
  <2>4. p.slot + 1 \in Nat \ {0} /\ p.nr + 1 \in Nat /\ p.moved + 1 \in Nat
    BY <1>1
  <2>. QED  BY <2>2, <2>3, <2>4 DEF Progress
<1>. QED  BY <1>2, <1>3, <1>4

LEMMA InsertInputsIs ==
  ASSUME NEW h
  PROVE  \E f : LoopsEnd(f) /\ InsertInputs(h) = f[Start(h)]
<1>. DEFINE ends == {p \in Progress : p.place > Len(p.list)}
            turn == [p \in Progress \ ends |-> NextTurn(p)]
            out == [p \in Progress |-> p.list]
            Solved(f) == f = [p \in Progress |->
                              IF p.place > Len(p.list) THEN p.list ELSE f[NextTurn(p)]]
            loop == CHOOSE f : Solved(f)
<1>1. turn \in [Progress \ ends -> Progress]
  BY TurnTyped
<1>2. PICK f : Follows(f, Progress, ends, turn, out)
  <2>1. ends \in SUBSET Progress
    OBVIOUS
  <2>. HIDE DEF ends, turn, out
  <2>. QED  BY <1>1, <2>1, LoopDefined
<1>3. \E l : Solved(l)
  <2>. DEFINE l == [p \in Progress |-> f[p]]
              Next1(g, p) == IF p.place > Len(p.list) THEN p.list ELSE g[NextTurn(p)]
  <2>1. ASSUME NEW p \in Progress PROVE l[p] = Next1(l, p)
    <3>1. l[p] = f[p]
      OBVIOUS
    <3>2. CASE p \in ends
      <4>1. out[p] = p.list
        OBVIOUS
      <4>. HIDE DEF out, turn, l
      <4>. QED  BY <3>1, <3>2, <4>1, <1>2 DEF Follows
    <3>3. CASE p \notin ends
      <4>1. turn[p] = NextTurn(p) /\ NextTurn(p) \in Progress
        BY <3>3, TurnTyped
      <4>2. f[p] = f[NextTurn(p)]
        <5>. HIDE DEF out, turn, ends
        <5>. QED  BY <3>3, <4>1, <1>2 DEF Follows
      <4>3. l[NextTurn(p)] = f[NextTurn(p)]
        BY <4>1
      <4>. HIDE DEF out, turn, l
      <4>. QED  BY <3>1, <3>3, <4>2, <4>3
    <3>. QED  BY <3>2, <3>3
  <2>2. l = [p \in Progress |-> l[p]]
    OBVIOUS
  <2>. HIDE DEF l
  <2>3. l = [p \in Progress |-> Next1(l, p)]
    BY <2>1, <2>2
  <2>. QED  BY <2>3
<1>4. Solved(loop)
  <2>. HIDE DEF Solved
  <2>. QED  BY <1>3
<1>5. InsertInputs(h) = loop[Start(h)]
  BY DEF InsertInputs, Start
<1>6. LoopsEnd(loop)
  <2>. HIDE DEF loop
  <2>. QED  BY <1>4 DEF LoopsEnd
<1>. QED  BY <1>5, <1>6

-----------------------------------------------------------------------------
(* The ignored fanins of a graph of n vertices that come before the k-th   *)
(* fanin of vertex j, and how many they are.                               *)
IgnoredBefore(h, n, j, k) ==
  {s \in (1 .. n) \X (1 .. fanin) :
     h[s[1]][s[2]] = 0 /\ (s[1] < j \/ (s[1] = j /\ s[2] < k))}

Met(h, n, j, k) == Cardinality(IgnoredBefore(h, n, j, k))

LEMMA MetFacts ==
  ASSUME fanin \in {2, 3}, NEW n \in Nat \ {0}, NEW h \in GraphOf(n)
  PROVE  /\ \A j, k : Met(h, n, j, k) \in Nat /\ IsFiniteSet(IgnoredBefore(h, n, j, k))
         /\ Met(h, n, 1, 1) = 0
         /\ \A j \in 1 .. n, k \in 1 .. fanin :
              Met(h, n, j, k + 1) = IF h[j][k] = 0 THEN Met(h, n, j, k) + 1 ELSE Met(h, n, j, k)
         /\ \A j \in 1 .. n : Met(h, n, j + 1, 1) = Met(h, n, j, fanin + 1)
         /\ \A i, j \in 1 .. n + 1, m, k \in 1 .. fanin + 1 :
              i < j \/ (i = j /\ m < k) => Met(h, n, i, m + 1) <= Met(h, n, j, k)
<1>1. ASSUME NEW j, NEW k
      PROVE  IsFiniteSet(IgnoredBefore(h, n, j, k)) /\ Met(h, n, j, k) \in Nat
  <2>1. IsFiniteSet((1 .. n) \X (1 .. fanin))
    <3>1. IsFiniteSet(1 .. n) /\ IsFiniteSet(1 .. fanin)
      BY FS_Interval
    <3>. QED  BY <3>1, FS_Product
  <2>2. IgnoredBefore(h, n, j, k) \subseteq (1 .. n) \X (1 .. fanin)
    BY DEF IgnoredBefore
  <2>3. IsFiniteSet(IgnoredBefore(h, n, j, k))
    BY <2>1, <2>2, FS_Subset
  <2>. QED  BY <2>3, FS_CardinalityType DEF Met
<1>2. Met(h, n, 1, 1) = 0
  <2>1. IgnoredBefore(h, n, 1, 1) = {}
    <3>1. \A a \in 1 .. n, b \in 1 .. fanin : ~(a < 1 \/ (a = 1 /\ b < 1))
      OBVIOUS
    <3>. QED  BY <3>1 DEF IgnoredBefore
  <2>. QED  BY <2>1, FS_EmptySet DEF Met
<1>3. ASSUME NEW j \in 1 .. n, NEW k \in 1 .. fanin
      PROVE  Met(h, n, j, k + 1) = IF h[j][k] = 0 THEN Met(h, n, j, k) + 1 ELSE Met(h, n, j, k)
  <2>. DEFINE A == IgnoredBefore(h, n, j, k)
              B == IgnoredBefore(h, n, j, k + 1)
              e == <<j, k>>
  <2>1. \A b \in 1 .. fanin : b < k + 1 <=> b < k \/ b = k
    OBVIOUS
  <2>2. e \notin A /\ e \in (1 .. n) \X (1 .. fanin)
    BY DEF IgnoredBefore
  <2>3. B = IF h[j][k] = 0 THEN A \cup {e} ELSE A
    <3>1. ASSUME NEW x \in (1 .. n) \X (1 .. fanin)
          PROVE  x \in B <=> x \in A \/ (x = e /\ h[j][k] = 0)
      <4>1. x[1] \in 1 .. n /\ x[2] \in 1 .. fanin /\ x = <<x[1], x[2]>>
        OBVIOUS
      <4>. QED  BY <4>1, <2>1 DEF IgnoredBefore
    <3>2. A \subseteq (1 .. n) \X (1 .. fanin) /\ B \subseteq (1 .. n) \X (1 .. fanin)
      BY DEF IgnoredBefore
    <3>. HIDE DEF A, B, e
    <3>. QED  BY <3>1, <3>2, <2>2
  <2>4. IsFiniteSet(A)
    BY <1>1
  <2>. HIDE DEF A, B, e
  <2>5. Cardinality(A \cup {e}) = Cardinality(A) + 1
    BY <2>2, <2>4, FS_AddElement
  <2>. QED  BY <2>3, <2>5 DEF Met, A, B
<1>4. ASSUME NEW j \in 1 .. n
      PROVE  Met(h, n, j + 1, 1) = Met(h, n, j, fanin + 1)
  <2>1. \A a \in 1 .. n, b \in 1 .. fanin :
          (a < j + 1 \/ (a = j + 1 /\ b < 1)) <=> (a < j \/ (a = j /\ b < fanin + 1))
    OBVIOUS
  <2>2. IgnoredBefore(h, n, j + 1, 1) = IgnoredBefore(h, n, j, fanin + 1)
    <3>1. ASSUME NEW x \in (1 .. n) \X (1 .. fanin)
          PROVE  x \in IgnoredBefore(h, n, j + 1, 1) <=> x \in IgnoredBefore(h, n, j, fanin + 1)
      <4>1. x[1] \in 1 .. n /\ x[2] \in 1 .. fanin
        OBVIOUS
      <4>. QED  BY <4>1, <2>1 DEF IgnoredBefore
    <3>. QED  BY <3>1 DEF IgnoredBefore
  <2>. QED  BY <2>2 DEF Met
<1>5. ASSUME NEW i \in 1 .. n + 1, NEW j \in 1 .. n + 1, NEW m \in 1 .. fanin + 1,
             NEW k \in 1 .. fanin + 1, i < j \/ (i = j /\ m < k)
      PROVE  Met(h, n, i, m + 1) <= Met(h, n, j, k)
  <2>1. \A a \in 1 .. n, b \in 1 .. fanin :
          (a < i \/ (a = i /\ b < m + 1)) => (a < j \/ (a = j /\ b < k))
    BY <1>5
  <2>2. IgnoredBefore(h, n, i, m + 1) \subseteq IgnoredBefore(h, n, j, k)
    <3>1. ASSUME NEW x \in (1 .. n) \X (1 .. fanin), x \in IgnoredBefore(h, n, i, m + 1)
          PROVE  x \in IgnoredBefore(h, n, j, k)
      <4>1. x[1] \in 1 .. n /\ x[2] \in 1 .. fanin
        OBVIOUS
      <4>. QED  BY <4>1, <3>1, <2>1 DEF IgnoredBefore
    <3>. QED  BY <3>1 DEF IgnoredBefore
  <2>. QED  BY <1>1, <2>2, FS_Subset DEF Met
<1>. QED  BY <1>1, <1>2, <1>3, <1>4, <1>5

(* The list once the ignored fanins before the k-th of vertex j have their *)
(* inputs, t of them, and fanin m of vertex i in it: a fanin of h has      *)
(* moved by t, and the input of the first one met is the last of them.     *)
FaninAt(h, n, j, k, i, m) ==
  LET t == Met(h, n, j, k)
  IN  IF h[i][m] # 0 THEN h[i][m] + t
      ELSE IF i < j \/ (i = j /\ m < k) THEN t + 1 - Met(h, n, i, m + 1)
      ELSE 0

ListAt(h, n, j, k) ==
  LET t == Met(h, n, j, k)
  IN  [x \in 1 .. t + n |->
         [m \in 1 .. fanin |-> IF x <= t THEN 0 ELSE FaninAt(h, n, j, k, x - t, m)]]

LEMMA FaninFacts ==
  ASSUME fanin \in {2, 3}, NEW n \in Nat \ {0}, NEW h \in GraphOf(n),
         NEW j \in 1 .. n + 1, NEW k \in 1 .. fanin + 1,
         NEW i \in 1 .. n, NEW m \in 1 .. fanin
  PROVE  /\ FaninAt(h, n, j, k, i, m) \in Nat
         /\ i < j \/ (i = j /\ m < k) => FaninAt(h, n, j, k, i, m) # 0
         /\ h[i][m] # 0 => FaninAt(h, n, j, k, i, m) # 0
<1>1. h[i][m] \in Nat
  BY DEF GraphOf, Step
<1>2. Met(h, n, j, k) \in Nat /\ Met(h, n, i, m + 1) \in Nat
  BY MetFacts
<1>3. i < j \/ (i = j /\ m < k) => Met(h, n, i, m + 1) <= Met(h, n, j, k)
  <2>1. i \in 1 .. n + 1 /\ m \in 1 .. fanin + 1
    OBVIOUS
  <2>. QED  BY <2>1, MetFacts
<1>. DEFINE t == Met(h, n, j, k)
            u == Met(h, n, i, m + 1)
<1>. HIDE DEF t, u
<1>4. FaninAt(h, n, j, k, i, m)
        = IF h[i][m] # 0 THEN h[i][m] + t
          ELSE IF i < j \/ (i = j /\ m < k) THEN t + 1 - u ELSE 0
  BY DEF FaninAt, t, u
<1>5. t \in Nat /\ u \in Nat /\ (i < j \/ (i = j /\ m < k) => u <= t)
  BY <1>2, <1>3 DEF t, u
<1>. QED  BY <1>1, <1>4, <1>5

RowsOf(h, n, j, k, w, t) ==
  /\ w \in Seq(Seq(Nat)) /\ Len(w) = t + n /\ t \in Nat
  /\ \A x \in 1 .. t + n : w[x] \in Seq(Nat) /\ Len(w[x]) = fanin
  /\ \A x \in 1 .. t : w[x] = [m \in 1 .. fanin |-> 0]
  /\ \A i \in 1 .. n, m \in 1 .. fanin :
       t + i \in 1 .. t + n /\ w[t + i][m] = FaninAt(h, n, j, k, i, m)

LEMMA ListFacts ==
  ASSUME fanin \in {2, 3}, NEW n \in Nat \ {0}, NEW h \in GraphOf(n),
         NEW j \in 1 .. n + 1, NEW k \in 1 .. fanin + 1
  PROVE  RowsOf(h, n, j, k, ListAt(h, n, j, k), Met(h, n, j, k))
<1>. DEFINE t == Met(h, n, j, k)
            w == ListAt(h, n, j, k)
            Entry(x, m) == IF x <= t THEN 0 ELSE FaninAt(h, n, j, k, x - t, m)
<1>1. t \in Nat /\ t + n \in Nat
  BY MetFacts
<1>2. w = [x \in 1 .. t + n |-> [m \in 1 .. fanin |-> Entry(x, m)]]
  BY DEF ListAt
<1>. HIDE DEF w, t
<1>3. ASSUME NEW x \in 1 .. t + n, NEW m \in 1 .. fanin
      PROVE  Entry(x, m) \in Nat
  <2>1. CASE x <= t
    BY <2>1
  <2>2. CASE ~(x <= t)
    <3>1. x - t \in 1 .. n
      BY <2>2, <1>1
    <3>2. FaninAt(h, n, j, k, x - t, m) \in Nat
      BY <3>1, FaninFacts
    <3>. QED  BY <2>2, <3>2
  <2>. QED  BY <2>1, <2>2
<1>4. ASSUME NEW x \in 1 .. t + n
      PROVE  w[x] = [m \in 1 .. fanin |-> Entry(x, m)] /\ w[x] \in Seq(Nat) /\ Len(w[x]) = fanin
  <2>1. w[x] = [m \in 1 .. fanin |-> Entry(x, m)]
    BY <1>2
  <2>2. w[x] \in [1 .. fanin -> Nat] /\ fanin \in Nat
    <3>. HIDE DEF Entry
    <3>. QED  BY <2>1, <1>3
  <2>3. w[x] \in Seq(Nat) /\ Len(w[x]) = fanin
    BY <2>2, RowFacts
  <2>. QED  BY <2>1, <2>3
<1>5. w \in Seq(Seq(Nat)) /\ Len(w) = t + n
  <2>. DEFINE S == Seq(Nat)
              l == t + n
  <2>1. w = [x \in 1 .. t + n |-> w[x]]
    <3>. HIDE DEF Entry
    <3>. QED  BY <1>2
  <2>2. w \in [1 .. l -> S] /\ l \in Nat
    BY <2>1, <1>1, <1>4
  <2>. HIDE DEF S, l
  <2>3. w \in Seq(S) /\ Len(w) = l
    BY <2>2, RowFacts
  <2>. QED  BY <2>3 DEF S, l
<1>6. ASSUME NEW x \in 1 .. t
      PROVE  w[x] = [m \in 1 .. fanin |-> 0]
  <2>1. x \in 1 .. t + n /\ x <= t
    BY <1>1
  <2>2. \A m \in 1 .. fanin : Entry(x, m) = 0
    BY <2>1
  <2>. HIDE DEF Entry
  <2>. QED  BY <2>1, <2>2, <1>4
<1>7. ASSUME NEW i \in 1 .. n, NEW m \in 1 .. fanin
      PROVE  t + i \in 1 .. t + n /\ w[t + i][m] = FaninAt(h, n, j, k, i, m)
  <2>1. t + i \in 1 .. t + n /\ ~(t + i <= t) /\ (t + i) - t = i
    BY <1>1
  <2>2. w[t + i][m] = Entry(t + i, m)
    <3>. DEFINE x == t + i
    <3>1. x \in 1 .. t + n
      BY <2>1
    <3>. HIDE DEF Entry, x
    <3>2. w[x] = [l \in 1 .. fanin |-> Entry(x, l)]
      BY <3>1, <1>4
    <3>3. w[x][m] = Entry(x, m)
      BY <3>2
    <3>. QED  BY <3>3 DEF x
  <2>. QED  BY <2>1, <2>2
<1>8. RowsOf(h, n, j, k, w, t)
  BY <1>1, <1>4, <1>5, <1>6, <1>7 DEF RowsOf
<1>. QED  BY <1>8 DEF w, t

(* Lists with the same rows. *)
LEMMA SameRows ==
  ASSUME NEW c \in Nat, NEW v \in Seq(Seq(Nat)), NEW w \in Seq(Seq(Nat)), Len(v) = Len(w),
         \A x \in 1 .. Len(w) : DOMAIN v[x] = 1 .. c /\ DOMAIN w[x] = 1 .. c,
         \A x \in 1 .. Len(w), m \in 1 .. c : v[x][m] = w[x][m]
  PROVE  v = w
<1>1. ASSUME NEW x \in 1 .. Len(w) PROVE v[x] = w[x]
  <2>. DEFINE a == v[x]
              b == w[x]
  <2>1. a \in Seq(Nat) /\ b \in Seq(Nat)
    OBVIOUS
  <2>2. DOMAIN a = 1 .. c /\ DOMAIN b = 1 .. c /\ \A m \in 1 .. c : a[m] = b[m]
    OBVIOUS
  <2>. HIDE DEF a, b
  <2>3. a = b
    BY <2>1, <2>2
  <2>. QED  BY <2>3 DEF a, b
<1>2. /\ v = [x \in 1 .. Len(v) |-> v[x]] /\ w = [x \in 1 .. Len(w) |-> w[x]]
      /\ Len(v) = Len(w)
  OBVIOUS
<1>. QED  BY <1>1, <1>2

LEMMA ListStart ==
  ASSUME fanin \in {2, 3}, NEW n \in Nat \ {0}, NEW h \in GraphOf(n)
  PROVE  ListAt(h, n, 1, 1) = h /\ h \in Seq(Seq(Nat)) /\ Met(h, n, 1, 1) = 0
<1>. DEFINE w == ListAt(h, n, 1, 1)
<1>1. Met(h, n, 1, 1) = 0 /\ 1 \in 1 .. n + 1 /\ 1 \in 1 .. fanin + 1
  BY MetFacts
<1>2. /\ w \in Seq(Seq(Nat)) /\ Len(w) = n
      /\ \A x \in 1 .. n : w[x] \in Seq(Nat) /\ Len(w[x]) = fanin
      /\ \A i \in 1 .. n, m \in 1 .. fanin : w[i][m] = FaninAt(h, n, 1, 1, i, m)
  <2>. DEFINE t == Met(h, n, 1, 1)
  <2>1. /\ w \in Seq(Seq(Nat)) /\ Len(w) = t + n
        /\ \A x \in 1 .. t + n : w[x] \in Seq(Nat) /\ Len(w[x]) = fanin
        /\ \A i \in 1 .. n, m \in 1 .. fanin : w[t + i][m] = FaninAt(h, n, 1, 1, i, m)
    <3>1. RowsOf(h, n, 1, 1, w, t)
      BY <1>1, ListFacts
    <3>. HIDE DEF t, w
    <3>. QED  BY <3>1 DEF RowsOf
  <2>. HIDE DEF t, w
  <2>2. t = 0
    BY <1>1 DEF t
  <2>3. t + n = n /\ \A i \in 1 .. n : t + i = i
    BY <2>2
  <2>. QED  BY <2>1, <2>3
<1>. HIDE DEF w
<1>3. /\ h \in Seq(Seq(Nat)) /\ Len(h) = n
      /\ \A x \in 1 .. n : h[x] \in Seq(Nat) /\ Len(h[x]) = fanin
      /\ \A i \in 1 .. n, m \in 1 .. fanin : h[i][m] \in Nat
  <2>. DEFINE S == Seq(Nat)
  <2>1. h \in [1 .. n -> Step]
    BY DEF GraphOf
  <2>2. \A r \in Step : r \in S /\ Len(r) = fanin /\ \A m \in 1 .. fanin : r[m] \in Nat
    BY DEF Step
  <2>3. \A x \in 1 .. n : h[x] \in Step
    BY <2>1
  <2>. HIDE DEF S
  <2>4. h \in [1 .. n -> S]
    BY <2>1, <2>2, <2>3
  <2>5. h \in Seq(S) /\ Len(h) = n
    BY <2>4, RowFacts
  <2>. QED  BY <2>2, <2>3, <2>5 DEF S
<1>4. ASSUME NEW i \in 1 .. n, NEW m \in 1 .. fanin
      PROVE  w[i][m] = h[i][m]
  <2>1. ~(i < 1 \/ (i = 1 /\ m < 1))
    OBVIOUS
  <2>2. h[i][m] # 0 => h[i][m] + 0 = h[i][m]
    BY <1>3
  <2>3. FaninAt(h, n, 1, 1, i, m) = h[i][m]
    BY <1>1, <2>1, <2>2 DEF FaninAt
  <2>. QED  BY <1>2, <2>3
<1>5. \A x \in 1 .. n : DOMAIN w[x] = 1 .. fanin /\ DOMAIN h[x] = 1 .. fanin
  BY <1>2, <1>3
<1>6. w = h
  <2>1. fanin \in Nat
    OBVIOUS
  <2>. QED  BY <2>1, <1>2, <1>3, <1>4, <1>5, SameRows
<1>. QED  BY <1>1, <1>3, <1>6 DEF w

(* A fanin that is not ignored and the end of a vertex change nothing. *)
LEMMA ListSame ==
  ASSUME fanin \in {2, 3}, NEW n \in Nat \ {0}, NEW h \in GraphOf(n), NEW j \in 1 .. n
  PROVE  /\ \A k \in 1 .. fanin :
              h[j][k] # 0 => /\ ListAt(h, n, j, k + 1) = ListAt(h, n, j, k)
                             /\ Met(h, n, j, k + 1) = Met(h, n, j, k)
         /\ ListAt(h, n, j + 1, 1) = ListAt(h, n, j, fanin + 1)
         /\ Met(h, n, j + 1, 1) = Met(h, n, j, fanin + 1)
<1>1. ASSUME NEW a, NEW b, NEW c, NEW d, Met(h, n, a, b) = Met(h, n, c, d),
             \A i \in 1 .. n, m \in 1 .. fanin :
               FaninAt(h, n, a, b, i, m) = FaninAt(h, n, c, d, i, m)
      PROVE  ListAt(h, n, a, b) = ListAt(h, n, c, d)
  <2>. DEFINE t == Met(h, n, a, b)
  <2>1. t \in Nat
    BY MetFacts
  <2>. HIDE DEF t
  <2>2. \A x \in 1 .. t + n : ~(x <= t) => x - t \in 1 .. n
    BY <2>1
  <2>3. \A x \in 1 .. t + n, m \in 1 .. fanin :
          (IF x <= t THEN 0 ELSE FaninAt(h, n, a, b, x - t, m))
            = IF x <= t THEN 0 ELSE FaninAt(h, n, c, d, x - t, m)
    BY <1>1, <2>2
  <2>. QED  BY <1>1, <2>3 DEF ListAt, t
<1>2. ASSUME NEW k \in 1 .. fanin, h[j][k] # 0
      PROVE  /\ ListAt(h, n, j, k + 1) = ListAt(h, n, j, k)
             /\ Met(h, n, j, k + 1) = Met(h, n, j, k)
  <2>1. Met(h, n, j, k + 1) = Met(h, n, j, k)
    BY <1>2, MetFacts
  <2>2. ASSUME NEW i \in 1 .. n, NEW m \in 1 .. fanin
        PROVE  FaninAt(h, n, j, k + 1, i, m) = FaninAt(h, n, j, k, i, m)
    <3>1. i < j \/ (i = j /\ m < k + 1) <=> i < j \/ (i = j /\ m < k) \/ (i = j /\ m = k)
      OBVIOUS
    <3>. QED  BY <3>1, <2>1, <1>2 DEF FaninAt
  <2>. QED  BY <2>1, <2>2, <1>1
<1>3. /\ ListAt(h, n, j + 1, 1) = ListAt(h, n, j, fanin + 1)
      /\ Met(h, n, j + 1, 1) = Met(h, n, j, fanin + 1)
  <2>1. Met(h, n, j + 1, 1) = Met(h, n, j, fanin + 1)
    BY MetFacts
  <2>2. ASSUME NEW i \in 1 .. n, NEW m \in 1 .. fanin
        PROVE  FaninAt(h, n, j + 1, 1, i, m) = FaninAt(h, n, j, fanin + 1, i, m)
    <3>1. i < j + 1 \/ (i = j + 1 /\ m < 1) <=> i < j \/ (i = j /\ m < fanin + 1)
      OBVIOUS
    <3>. QED  BY <3>1, <2>1 DEF FaninAt
  <2>. QED  BY <2>1, <2>2, <1>1
<1>. QED  BY <1>2, <1>3

(* An ignored fanin gets its input. *)
LEMMA ListInserted ==
  ASSUME fanin \in {2, 3}, NEW n \in Nat \ {0}, NEW h \in GraphOf(n),
         NEW j \in 1 .. n, NEW k \in 1 .. fanin, h[j][k] = 0,
         NEW i \in Nat \ {0}, NEW moved \in Nat, i + moved = Met(h, n, j, k) + j
  PROVE  /\ InsertInput(ListAt(h, n, j, k), i, k, Met(h, n, j, k), moved)
              = ListAt(h, n, j, k + 1)
         /\ Met(h, n, j, k + 1) = Met(h, n, j, k) + 1
<1>. DEFINE t == Met(h, n, j, k)
            u == Met(h, n, j, k + 1)
            w == ListAt(h, n, j, k)
            v == ListAt(h, n, j, k + 1)
            new == InsertInput(w, i, k, t, moved)
            none == [m \in 1 .. fanin |-> 0]
            Old(a, m) == FaninAt(h, n, j, k, a, m)
            Later(a, m) == FaninAt(h, n, j, k + 1, a, m)
<1>1. t \in Nat /\ u = t + 1
  BY MetFacts
<1>2. j \in 1 .. n + 1 /\ k \in 1 .. fanin + 1 /\ k + 1 \in 1 .. fanin + 1
  OBVIOUS
<1>3. /\ w \in Seq(Seq(Nat)) /\ Len(w) = t + n
      /\ \A x \in 1 .. t + n : w[x] \in Seq(Nat) /\ Len(w[x]) = fanin
      /\ \A x \in 1 .. t : w[x] = none
      /\ \A a \in 1 .. n, m \in 1 .. fanin :
           t + a \in 1 .. t + n /\ w[t + a][m] = Old(a, m)
  <2>1. RowsOf(h, n, j, k, w, t)
    BY <1>2, ListFacts
  <2>. HIDE DEF w, t
  <2>. QED  BY <2>1 DEF RowsOf, none
<1>4. /\ v \in Seq(Seq(Nat)) /\ Len(v) = u + n
      /\ \A x \in 1 .. u + n : v[x] \in Seq(Nat) /\ Len(v[x]) = fanin
      /\ \A x \in 1 .. u : v[x] = none
      /\ \A a \in 1 .. n, m \in 1 .. fanin :
           u + a \in 1 .. u + n /\ v[u + a][m] = Later(a, m)
  <2>1. RowsOf(h, n, j, k + 1, v, u)
    BY <1>2, ListFacts
  <2>. HIDE DEF v, u
  <2>. QED  BY <2>1 DEF RowsOf, none
<1>5. ASSUME NEW a \in 1 .. n, NEW m \in 1 .. fanin
      PROVE  Later(a, m) = IF a = j /\ m = k THEN 1
                           ELSE IF Old(a, m) > 0 THEN Old(a, m) + 1 ELSE 0
  <2>. DEFINE q == Met(h, n, a, m + 1)
              x == h[a][m]
              B == a < j \/ (a = j /\ m < k)
              C == a < j \/ (a = j /\ m < k + 1)
  <2>1. q \in Nat /\ (B => q <= t)
    <3>1. a \in 1 .. n + 1 /\ m \in 1 .. fanin + 1
      OBVIOUS
    <3>. QED  BY <3>1, <1>2, MetFacts
  <2>2. x \in Nat
    BY DEF GraphOf, Step
  <2>3. C <=> B \/ (a = j /\ m = k)
    OBVIOUS
  <2>4. a = j /\ m = k => x = 0 /\ q = u /\ ~B
    OBVIOUS
  <2>5. /\ Old(a, m) = IF x # 0 THEN x + t ELSE IF B THEN t + 1 - q ELSE 0
        /\ Later(a, m) = IF x # 0 THEN x + u ELSE IF C THEN u + 1 - q ELSE 0
    BY DEF FaninAt
  <2>. HIDE DEF t, u, q, x, B, C, Old, Later
  <2>6. CASE a = j /\ m = k
    BY <2>3, <2>4, <2>5, <2>6, <1>1
  <2>7. CASE ~(a = j /\ m = k)
    <3>1. C <=> B
      BY <2>3, <2>7
    <3>2. Later(a, m) = IF x # 0 THEN x + t + 1 ELSE IF B THEN t + 1 + 1 - q ELSE 0
      BY <3>1, <2>2, <2>5, <1>1
    <3>. QED  BY <3>2, <2>1, <2>2, <2>5, <2>7, <1>1
  <2>. QED  BY <2>6, <2>7
<1>. HIDE DEF w, v, t, u, Old, Later, none
<1>6. /\ new \in Seq(Seq(Nat)) /\ Len(new) = t + n + 1
      /\ DOMAIN new[1] = DOMAIN w[1]
      /\ \A x \in 2 .. t + n + 1 : DOMAIN new[x] = DOMAIN w[x - 1]
      /\ new[1] = [l \in DOMAIN w[1] |-> 0]
      /\ \A x \in 2 .. t + 1 : new[x] = w[x - 1]
      /\ \A x \in t + 2 .. t + n + 1 : \A l \in DOMAIN w[x - 1] :
           new[x][l] = IF x = t + j + 1 /\ l = k THEN 1
                       ELSE IF w[x - 1][l] > 0 THEN w[x - 1][l] + 1 ELSE 0
  <2>1. /\ w # <<>> /\ i + moved + 1 > t + 1 /\ i + moved + 1 = t + j + 1
        /\ Len(w) + 1 = t + n + 1 /\ k \in Nat \ {0}
        /\ \A x \in 2 .. t + 1 : x <= Len(w) + 1
    <3>1. i + moved = t + j
      BY DEF t
    <3>2. Len(w) # 0
      BY <1>1, <1>3
    <3>3. w # <<>>
      BY <3>2
    <3>4. i + moved + 1 = t + j + 1 /\ t + j + 1 > t + 1
      BY <3>1, <1>1
    <3>5. k \in Nat \ {0}
      OBVIOUS
    <3>6. Len(w) + 1 = t + n + 1
      BY <1>3
    <3>7. \A x \in 2 .. t + 1 : x <= Len(w) + 1
      BY <3>6, <1>1
    <3>. QED  BY <3>3, <3>4, <3>5, <3>6, <3>7
  <2>2. Inserted(new, w, i + moved + 1, k, t)
    BY <2>1, <1>1, <1>3, InsertFacts
  <2>. HIDE DEF new
  <2>. QED  BY <2>1, <2>2 DEF Inserted
<1>. HIDE DEF new
<1>7. \A x \in 1 .. t + n : DOMAIN w[x] = 1 .. fanin
  BY <1>3
<1>8. Len(v) = Len(new) /\ Len(v) = t + n + 1
  BY <1>1, <1>4, <1>6
<1>9. \A x \in 1 .. Len(v) : DOMAIN v[x] = 1 .. fanin
  BY <1>1, <1>4
<1>10. ASSUME NEW x \in 1 .. Len(v) PROVE DOMAIN new[x] = 1 .. fanin
  <2>1. CASE x = 1
    <3>1. 1 \in 1 .. t + n
      BY <1>1
    <3>. QED  BY <2>1, <3>1, <1>6, <1>7
  <2>2. CASE x # 1
    <3>1. x \in 2 .. t + n + 1 /\ x - 1 \in 1 .. t + n
      BY <2>2, <1>1, <1>8
    <3>. QED  BY <3>1, <1>6, <1>7
  <2>. QED  BY <2>1, <2>2
<1>11. ASSUME NEW x \in 1 .. Len(v), NEW m \in 1 .. fanin
       PROVE  new[x][m] = v[x][m]
  <2>1. CASE x <= t + 1
    <3>1. v[x] = none
      BY <2>1, <1>1, <1>4
    <3>2. new[x] = none
      <4>1. CASE x = 1
        <5>1. 1 \in 1 .. t + n
          BY <1>1
        <5>. QED  BY <4>1, <5>1, <1>6, <1>7 DEF none
      <4>2. CASE x # 1
        <5>1. x \in 2 .. t + 1 /\ x - 1 \in 1 .. t
          BY <2>1, <4>2, <1>1
        <5>. QED  BY <5>1, <1>3, <1>6, SMTT(30)
      <4>. QED  BY <4>1, <4>2
    <3>. QED  BY <3>1, <3>2
  <2>2. CASE ~(x <= t + 1)
    <3>. DEFINE a == x - u
                old == Old(a, m)
    <3>1. /\ a \in 1 .. n /\ x = u + a /\ x - 1 = t + a
          /\ x \in t + 2 .. t + n + 1 /\ x - 1 \in 1 .. t + n
          /\ (x = t + j + 1 <=> a = j)
      BY <2>2, <1>1, <1>8
    <3>. HIDE DEF a
    <3>2. v[x][m] = Later(a, m)
      BY <3>1, <1>4
    <3>3. w[x - 1][m] = Old(a, m)
      BY <3>1, <1>3
    <3>4. m \in DOMAIN w[x - 1]
      BY <3>1, <1>7
    <3>5. new[x][m] = IF x = t + j + 1 /\ m = k THEN 1
                      ELSE IF w[x - 1][m] > 0 THEN w[x - 1][m] + 1 ELSE 0
      BY <3>1, <3>4, <1>6
    <3>6. Later(a, m) = IF a = j /\ m = k THEN 1
                        ELSE IF Old(a, m) > 0 THEN Old(a, m) + 1 ELSE 0
      BY <3>1, <1>5
    <3>. QED  BY <3>1, <3>2, <3>3, <3>5, <3>6
  <2>. QED  BY <2>1, <2>2
<1>12. new = v
  <2>1. fanin \in Nat
    OBVIOUS
  <2>2. /\ \A x \in 1 .. Len(v) : DOMAIN new[x] = 1 .. fanin /\ DOMAIN v[x] = 1 .. fanin
        /\ \A x \in 1 .. Len(v), m \in 1 .. fanin : new[x][m] = v[x][m]
    BY <1>9, <1>10, <1>11
  <2>3. new \in Seq(Seq(Nat)) /\ v \in Seq(Seq(Nat)) /\ Len(new) = Len(v)
    BY <1>4, <1>6, <1>8
  <2>. QED  BY <2>1, <2>2, <2>3, SameRows, ZenonT(40)
<1>. QED  BY <1>1, <1>12 DEF new, t, u, w, v

-----------------------------------------------------------------------------
Stage(w, i, k, nr, moved) ==
  [list |-> w, place |-> i, slot |-> k, nr |-> nr, moved |-> moved]

(* What one turn does at a stage. *)
LEMMA StageFacts ==
  ASSUME NEW f, LoopsEnd(f),
         NEW w \in Seq(Seq(Nat)), NEW i \in Nat \ {0}, NEW k \in Nat \ {0},
         NEW nr \in Nat, NEW moved \in Nat
  PROVE  /\ i > Len(w) => f[Stage(w, i, k, nr, moved)] = w
         /\ i <= Len(w) =>
              /\ k > Len(w[i]) =>
                   f[Stage(w, i, k, nr, moved)]
                     = f[Stage(w, (IF i <= nr THEN nr ELSE i) + 1, 1, nr, 0)]
              /\ k <= Len(w[i]) /\ w[i][k] # 0 =>
                   f[Stage(w, i, k, nr, moved)] = f[Stage(w, i, k + 1, nr, moved)]
              /\ k <= Len(w[i]) /\ w[i][k] = 0 =>
                   f[Stage(w, i, k, nr, moved)]
                     = f[Stage(InsertInput(w, i, k, nr, moved), i, k + 1, nr + 1, moved + 1)]
<1>. DEFINE p == Stage(w, i, k, nr, moved)
<1>1. /\ p \in Progress /\ p.list = w /\ p.place = i /\ p.slot = k /\ p.nr = nr
      /\ p.moved = moved
  BY DEF Progress, Stage
<1>2. f[p] = IF i > Len(w) THEN w ELSE f[NextTurn(p)]
  <2>. HIDE DEF p
  <2>. QED  BY <1>1 DEF LoopsEnd
<1>3. Len(w) \in Nat
  OBVIOUS
<1>4. ASSUME i <= Len(w) PROVE f[p] = f[NextTurn(p)]
  BY <1>2, <1>3, <1>4
<1>5. ASSUME i <= Len(w) PROVE Len(w[i]) \in Nat
  <2>1. i \in 1 .. Len(w)
    BY <1>5, <1>3
  <2>2. w[i] \in Seq(Nat)
    BY <2>1
  <2>. QED  BY <2>2
<1>6. ASSUME k > Len(w[i])
      PROVE  NextTurn(p) = Stage(w, (IF i <= nr THEN nr ELSE i) + 1, 1, nr, 0)
  <2>1. NextTurn(p) = [p EXCEPT !.place = Max({i, nr}) + 1, !.slot = 1, !.moved = 0]
    <3>. HIDE DEF p
    <3>. QED  BY <1>1, <1>6 DEF NextTurn
  <2>. DEFINE next == Max({i, nr}) + 1
  <2>2. next = (IF i <= nr THEN nr ELSE i) + 1
    BY MaxOfTwo
  <2>. HIDE DEF next
  <2>3. NextTurn(p) = Stage(w, next, 1, nr, 0)
    BY <2>1 DEF Stage, next
  <2>. QED  BY <2>2, <2>3
<1>7. ASSUME ~(k > Len(w[i])), w[i][k] # 0
      PROVE  NextTurn(p) = Stage(w, i, k + 1, nr, moved)
  <2>1. NextTurn(p) = [p EXCEPT !.slot = k + 1]
    <3>. HIDE DEF p
    <3>. QED  BY <1>1, <1>7 DEF NextTurn
  <2>. QED  BY <2>1 DEF Stage
<1>8. ASSUME ~(k > Len(w[i])), w[i][k] = 0
      PROVE  NextTurn(p)
               = Stage(InsertInput(w, i, k, nr, moved), i, k + 1, nr + 1, moved + 1)
  <2>. DEFINE new == InsertInput(w, i, k, nr, moved)
  <2>. HIDE DEF new
  <2>1. NextTurn(p) = [p EXCEPT !.list = new, !.slot = k + 1, !.nr = nr + 1,
                                !.moved = moved + 1]
    <3>. HIDE DEF p
    <3>. QED  BY <1>1, <1>8 DEF NextTurn, new
  <2>2. NextTurn(p) = Stage(new, i, k + 1, nr + 1, moved + 1)
    BY <2>1 DEF Stage
  <2>. QED  BY <2>2 DEF new
<1>. HIDE DEF p
<1>9. i > Len(w) => f[p] = w
  BY <1>2
<1>10. ASSUME i <= Len(w), k > Len(w[i])
       PROVE  f[p] = f[Stage(w, (IF i <= nr THEN nr ELSE i) + 1, 1, nr, 0)]
  BY <1>4, <1>6, <1>10
<1>11. ASSUME i <= Len(w), k <= Len(w[i]), w[i][k] # 0
       PROVE  f[p] = f[Stage(w, i, k + 1, nr, moved)]
  <2>1. ~(k > Len(w[i]))
    BY <1>5, <1>11
  <2>. QED  BY <1>4, <1>7, <1>11, <2>1
<1>12. ASSUME i <= Len(w), k <= Len(w[i]), w[i][k] = 0
       PROVE  f[p] = f[Stage(InsertInput(w, i, k, nr, moved), i, k + 1, nr + 1, moved + 1)]
  <2>1. ~(k > Len(w[i]))
    BY <1>5, <1>12
  <2>. QED  BY <1>4, <1>8, <1>12, <2>1
<1>. QED  BY <1>9, <1>10, <1>11, <1>12 DEF p

LEMMA StageEnds ==
  ASSUME NEW f, LoopsEnd(f),
         NEW w \in Seq(Seq(Nat)), NEW i \in Nat \ {0}, NEW k \in Nat \ {0},
         NEW nr \in Nat, NEW moved \in Nat
  PROVE  i > Len(w) => f[Stage(w, i, k, nr, moved)] = w
<1>. DEFINE p == Stage(w, i, k, nr, moved)
<1>1. p \in Progress /\ p.list = w /\ p.place = i
  BY DEF Progress, Stage
<1>. HIDE DEF p
<1>2. f[p] = IF i > Len(w) THEN w ELSE f[NextTurn(p)]
  BY <1>1 DEF LoopsEnd
<1>3. i > Len(w) => f[p] = w
  BY <1>2
<1>. QED  BY <1>3 DEF p

(* Fanins that are not ignored are passed over. *)
Complete(w, i, k, e) == \A q \in k .. e - 1 : w[i][q] # 0

LEMMA Scan ==
  ASSUME NEW f, LoopsEnd(f),
         NEW w \in Seq(Seq(Nat)), NEW i \in 1 .. Len(w), NEW k \in Nat \ {0}, NEW e \in Nat,
         NEW nr \in Nat, NEW moved \in Nat, k <= e, e <= Len(w[i]) + 1,
         Complete(w, i, k, e)
  PROVE  f[Stage(w, i, k, nr, moved)] = f[Stage(w, i, e, nr, moved)]
<1>. DEFINE passed == {d \in Nat : k + d <= e =>
                        f[Stage(w, i, k, nr, moved)] = f[Stage(w, i, k + d, nr, moved)]}
<1>1. 0 \in passed
  <2>1. k + 0 = k
    OBVIOUS
  <2>. QED  BY <2>1
<1>2. ASSUME NEW d \in 0 .. (e - k) - 1, d \in passed PROVE d + 1 \in passed
  <2>. DEFINE q == k + d
  <2>0. Len(w[i]) \in Nat
    <3>1. w[i] \in Seq(Nat)
      OBVIOUS
    <3>. QED  BY <3>1
  <2>1. /\ q \in Nat \ {0} /\ q \in k .. e - 1 /\ q <= e /\ q + 1 = k + (d + 1)
        /\ i \in Nat \ {0} /\ i <= Len(w)
    OBVIOUS
  <2>2. q <= Len(w[i])
    BY <2>0, <2>1
  <2>3. f[Stage(w, i, k, nr, moved)] = f[Stage(w, i, q, nr, moved)]
    BY <1>2, <2>1
  <2>. HIDE DEF q
  <2>4. w[i][q] # 0
    BY <2>1 DEF Complete
  <2>5. f[Stage(w, i, q, nr, moved)] = f[Stage(w, i, q + 1, nr, moved)]
    BY <2>1, <2>2, <2>4, StageFacts
  <2>6. f[Stage(w, i, k, nr, moved)] = f[Stage(w, i, q + 1, nr, moved)]
    BY <2>3, <2>5
  <2>7. d + 1 \in Nat /\ q + 1 = k + (d + 1)
    BY <2>1
  <2>8. f[Stage(w, i, k, nr, moved)] = f[Stage(w, i, k + (d + 1), nr, moved)]
    BY <2>6, <2>7
  <2>. QED  BY <2>7, <2>8
<1>3. e - k \in Nat /\ k + (e - k) = e
  OBVIOUS
<1>4. e - k \in passed
  <2>. HIDE DEF passed
  <2>1. 0 .. e - k \subseteq passed
    BY <1>1, <1>2, <1>3, UpTo
  <2>. QED  BY <2>1, <1>3
<1>. QED  BY <1>3, <1>4

(* At the first fanin of vertex j, with all fanins before the k-th given   *)
(* their inputs.                                                           *)
Entering(h, n, j, k) == Stage(ListAt(h, n, j, k), Met(h, n, j, k) + j, 1, Met(h, n, j, k), 0)

(* A vertex that is complete is left for the next one. *)
LEMMA VertexDone ==
  ASSUME fanin \in {2, 3}, NEW n \in Nat \ {0}, NEW h \in GraphOf(n),
         NEW f, LoopsEnd(f), NEW j \in 1 .. n
  PROVE  f[Entering(h, n, j, fanin + 1)] = f[Entering(h, n, j + 1, 1)]
<1>. DEFINE t == Met(h, n, j, fanin + 1)
            w == ListAt(h, n, j, fanin + 1)
            i == t + j
            e == fanin + 1
<1>1. j \in 1 .. n + 1 /\ e \in 1 .. fanin + 1
  OBVIOUS
<1>2. RowsOf(h, n, j, e, w, t)
  BY <1>1, ListFacts
<1>3. ListAt(h, n, j + 1, 1) = w /\ Met(h, n, j + 1, 1) = t
  BY ListSame
<1>. HIDE DEF w, t
<1>4. /\ w \in Seq(Seq(Nat)) /\ t \in Nat /\ i \in 1 .. Len(w) /\ Len(w[i]) = fanin
      /\ \A m \in 1 .. fanin : w[i][m] = FaninAt(h, n, j, e, j, m)
  <2>. HIDE DEF e
  <2>1. w \in Seq(Seq(Nat)) /\ t \in Nat /\ Len(w) = t + n
    BY <1>2 DEF RowsOf
  <2>2. i \in 1 .. t + n
    BY <2>1
  <2>3. \A m \in 1 .. fanin : w[i][m] = FaninAt(h, n, j, e, j, m)
    BY <1>2 DEF RowsOf
  <2>. HIDE DEF i
  <2>4. Len(w[i]) = fanin
    BY <1>2, <2>2 DEF RowsOf
  <2>. QED  BY <2>1, <2>2, <2>3, <2>4
<1>5. \A m \in 1 .. fanin : w[i][m] # 0
  <2>1. ASSUME NEW m \in 1 .. fanin PROVE FaninAt(h, n, j, e, j, m) # 0
    <3>1. j = j /\ m < e
      OBVIOUS
    <3>. HIDE DEF e
    <3>. QED  BY <3>1, <1>1, FaninFacts
  <2>. QED  BY <1>4, <2>1
<1>6. /\ i \in Nat \ {0} /\ i <= Len(w) /\ e \in Nat \ {0} /\ ~(i <= t) /\ i + 1 = t + (j + 1)
      /\ e > Len(w[i]) /\ 1 <= e /\ e <= Len(w[i]) + 1 /\ e - 1 = fanin
      /\ 1 \in Nat \ {0} /\ 0 \in Nat /\ e \in Nat
  BY <1>4
<1>. HIDE DEF i, e
<1>7. f[Stage(w, i, 1, t, 0)] = f[Stage(w, i, e, t, 0)]
  <2>1. Complete(w, i, 1, e)
    BY <1>5, <1>6 DEF Complete
  <2>2. w \in Seq(Seq(Nat)) /\ i \in 1 .. Len(w) /\ t \in Nat
    BY <1>4
  <2>. DEFINE one == 1
              zero == 0
  <2>3. one \in Nat \ {0} /\ zero \in Nat /\ one <= e /\ Complete(w, i, one, e)
    BY <2>1, <1>6
  <2>. HIDE DEF one, zero
  <2>4. e \in Nat /\ e <= Len(w[i]) + 1
    BY <1>6
  <2>5. f[Stage(w, i, one, t, zero)] = f[Stage(w, i, e, t, zero)]
    BY <2>2, <2>3, <2>4, Scan
  <2>. QED  BY <2>5 DEF one, zero
<1>8. f[Stage(w, i, e, t, 0)] = f[Stage(w, i + 1, 1, t, 0)]
  <2>1. w \in Seq(Seq(Nat)) /\ t \in Nat
    BY <1>4
  <2>. DEFINE zero == 0
  <2>2. /\ zero \in Nat /\ i \in Nat \ {0} /\ i <= Len(w)
        /\ e \in Nat \ {0} /\ e > Len(w[i])
    BY <1>6
  <2>. HIDE DEF zero
  <2>3. f[Stage(w, i, e, t, zero)] = f[Stage(w, (IF i <= t THEN t ELSE i) + 1, 1, t, 0)]
    BY <2>1, <2>2, StageFacts
  <2>. QED  BY <2>3, <1>6 DEF zero
<1>9. Stage(w, i, 1, t, 0) = Entering(h, n, j, fanin + 1)
  BY DEF Entering, w, t, i
<1>10. Stage(w, i + 1, 1, t, 0) = Entering(h, n, j + 1, 1)
  BY <1>3, <1>6 DEF Entering
<1>. QED  BY <1>7, <1>8, <1>9, <1>10

(* One more fanin has its input: the vertex met is now in the next place,  *)
(* and at the old one is the vertex below it, which is complete.           *)
LEMMA FaninDone ==
  ASSUME fanin \in {2, 3}, NEW n \in Nat \ {0}, NEW h \in GraphOf(n),
         NEW f, LoopsEnd(f), NEW j \in 2 .. n, NEW k \in 1 .. fanin
  PROVE  f[Entering(h, n, j, k)] = f[Entering(h, n, j, k + 1)]
<1>. DEFINE t == Met(h, n, j, k)
            w == ListAt(h, n, j, k)
            i == t + j
<1>0. j \in 1 .. n /\ j - 1 \in 1 .. n /\ j \in 1 .. n + 1 /\ k \in 1 .. fanin + 1
      /\ k + 1 \in 1 .. fanin + 1
  OBVIOUS
<1>1. CASE h[j][k] # 0
  BY <1>0, <1>1, ListSame DEF Entering
<1>2. CASE h[j][k] = 0
  <2>1. RowsOf(h, n, j, k, w, t)
    BY <1>0, ListFacts
  <2>2. FaninAt(h, n, j, k, j, k) = 0 /\ \A m \in 1 .. k - 1 : FaninAt(h, n, j, k, j, m) # 0
    <3>1. ~(j < j \/ (j = j /\ k < k))
      OBVIOUS
    <3>2. FaninAt(h, n, j, k, j, k) = 0
      BY <3>1, <1>2 DEF FaninAt
    <3>3. ASSUME NEW m \in 1 .. k - 1 PROVE FaninAt(h, n, j, k, j, m) # 0
      <4>1. m \in 1 .. fanin /\ m < k
        OBVIOUS
      <4>. QED  BY <4>1, <1>0, FaninFacts
    <3>. QED  BY <3>2, <3>3
  <2>. HIDE DEF w, t
  <2>3. /\ w \in Seq(Seq(Nat)) /\ t \in Nat /\ i \in 1 .. Len(w) /\ Len(w[i]) = fanin
        /\ \A m \in 1 .. fanin : w[i][m] = FaninAt(h, n, j, k, j, m)
    BY <2>1, <1>0 DEF RowsOf
  <2>4. Complete(w, i, 1, k)
    <3>1. ASSUME NEW q \in 1 .. k - 1 PROVE w[i][q] # 0
      <4>1. q \in 1 .. fanin
        OBVIOUS
      <4>2. w[i][q] = FaninAt(h, n, j, k, j, q)
        BY <2>3, <4>1
      <4>. QED  BY <4>2, <2>2
    <3>. QED  BY <3>1 DEF Complete
  <2>5. w[i][k] = 0
    BY <2>2, <2>3
  <2>6. /\ i \in Nat \ {0} /\ i <= Len(w) /\ k \in Nat \ {0} /\ k <= Len(w[i])
        /\ 1 <= k /\ k <= Len(w[i]) + 1 /\ k \in Nat /\ 1 \in Nat \ {0} /\ 0 \in Nat
    BY <2>3
  <2>7. f[Stage(w, i, 1, t, 0)] = f[Stage(w, i, k, t, 0)]
    <3>1. w \in Seq(Seq(Nat)) /\ i \in 1 .. Len(w) /\ t \in Nat
      BY <2>3
    <3>. HIDE DEF i
    <3>. QED  BY <3>1, <2>4, <2>6, Scan
  <2>8. f[Stage(w, i, k, t, 0)] = f[Stage(InsertInput(w, i, k, t, 0), i, k + 1, t + 1, 0 + 1)]
    <3>. HIDE DEF i
    <3>. QED  BY <2>3, <2>5, <2>6, StageFacts
  <2>. DEFINE u == Met(h, n, j, k + 1)
              v == ListAt(h, n, j, k + 1)
              e == fanin + 1
  <2>9. InsertInput(w, i, k, t, 0) = v /\ u = t + 1
    <3>1. i + 0 = Met(h, n, j, k) + j
      BY <2>3 DEF t
    <3>2. i \in Nat \ {0} /\ 0 \in Nat
      BY <2>6
    <3>. HIDE DEF i
    <3>3. /\ InsertInput(ListAt(h, n, j, k), i, k, Met(h, n, j, k), 0) = ListAt(h, n, j, k + 1)
          /\ Met(h, n, j, k + 1) = Met(h, n, j, k) + 1
      BY <3>1, <3>2, <1>0, <1>2, ListInserted
    <3>. QED  BY <3>3 DEF w, t
  <2>10. RowsOf(h, n, j, k + 1, v, u)
    BY <1>0, ListFacts
  <2>11. \A m \in 1 .. fanin : FaninAt(h, n, j, k + 1, j - 1, m) # 0
    <3>1. j - 1 < j
      OBVIOUS
    <3>. QED  BY <3>1, <1>0, FaninFacts
  <2>. HIDE DEF v, u
  <2>12. i = u + (j - 1)
    BY <2>3, <2>9
  <2>13. /\ v \in Seq(Seq(Nat)) /\ u \in Nat /\ i \in 1 .. Len(v) /\ Len(v[i]) = fanin
         /\ \A m \in 1 .. fanin : v[i][m] # 0
    <3>1. v \in Seq(Seq(Nat)) /\ u \in Nat /\ Len(v) = u + n
      BY <2>10 DEF RowsOf
    <3>2. i \in 1 .. u + n /\ \A m \in 1 .. fanin : v[i][m] = FaninAt(h, n, j, k + 1, j - 1, m)
      <4>. HIDE DEF i
      <4>. QED  BY <2>10, <2>12, <1>0 DEF RowsOf
    <3>3. Len(v[i]) = fanin
      <4>. HIDE DEF i
      <4>. QED  BY <2>10, <3>2 DEF RowsOf
    <3>. QED  BY <3>1, <3>2, <3>3, <2>11
  <2>14. /\ e \in Nat \ {0} /\ e \in Nat /\ k + 1 <= e /\ k + 1 \in Nat \ {0}
         /\ e <= Len(v[i]) + 1 /\ e > Len(v[i]) /\ e - 1 = fanin
         /\ i \in Nat \ {0} /\ i <= Len(v) /\ 1 \in Nat
         /\ \A q \in k + 1 .. e - 1 : q \in 1 .. fanin
    BY <2>13
  <2>15. (IF i <= u THEN u ELSE i) + 1 = u + j
    BY <2>12, <2>13
  <2>. HIDE DEF e, i
  <2>16. f[Stage(v, i, k + 1, u, 1)] = f[Stage(v, i, e, u, 1)]
    <3>1. Complete(v, i, k + 1, e)
      BY <2>13, <2>14 DEF Complete
    <3>2. v \in Seq(Seq(Nat)) /\ i \in 1 .. Len(v) /\ u \in Nat
      BY <2>13
    <3>. DEFINE k1 == k + 1
    <3>3. k1 \in Nat \ {0} /\ k1 <= e /\ e \in Nat /\ e <= Len(v[i]) + 1
      BY <2>14
    <3>. HIDE DEF k1
    <3>4. Complete(v, i, k1, e)
      BY <3>1 DEF k1
    <3>5. f[Stage(v, i, k1, u, 1)] = f[Stage(v, i, e, u, 1)]
      BY <3>2, <3>3, <3>4, Scan
    <3>. QED  BY <3>5 DEF k1
  <2>17. f[Stage(v, i, e, u, 1)] = f[Stage(v, u + j, 1, u, 0)]
    <3>1. v \in Seq(Seq(Nat)) /\ u \in Nat /\ 1 \in Nat
      BY <2>13
    <3>. DEFINE one == 1
    <3>2. one \in Nat
      OBVIOUS
    <3>. HIDE DEF one
    <3>3. f[Stage(v, i, e, u, one)] = f[Stage(v, (IF i <= u THEN u ELSE i) + 1, 1, u, 0)]
      BY <3>1, <3>2, <2>14, StageFacts
    <3>. QED  BY <3>3, <2>15 DEF one
  <2>18. Entering(h, n, j, k) = Stage(w, i, 1, t, 0)
    BY DEF Entering, w, t, i
  <2>19. Entering(h, n, j, k + 1) = Stage(v, u + j, 1, u, 0)
    BY DEF Entering, u, v
  <2>20. InsertInput(w, i, k, t, 0) = v /\ u = t + 1 /\ 0 + 1 = 1
    BY <2>9
  <2>. QED  BY <2>7, <2>8, <2>16, <2>17, <2>18, <2>19, <2>20
<1>. QED  BY <1>1, <1>2

(* The first vertex has ignored fanins only, and what is found in its      *)
(* place once it moves are inputs, whose fanins are ignored, too.          *)
LEMMA FirstVertexDone ==
  ASSUME fanin \in {2, 3}, NEW n \in Nat \ {0}, NEW h \in GraphOf(n), NEW f, LoopsEnd(f)
  PROVE  f[Start(h)] = f[Entering(h, n, 1, fanin + 1)]
<1>. DEFINE Reached(k, d) == /\ Met(h, n, 1, k) = d
                             /\ f[Start(h)] = f[Stage(ListAt(h, n, 1, k), 1, k, d, d)]
            passed == {d \in Nat : d <= fanin => Reached(d + 1, d)}
<1>1. 1 \in 1 .. n /\ 1 \in 1 .. n + 1 /\ \A k \in 1 .. fanin : h[1][k] = 0
  <2>1. 1 \in 1 .. n
    OBVIOUS
  <2>2. h[1] \in StepsAbove(1 - 1)
    BY <2>1 DEF GraphOf
  <2>3. \A k \in 1 .. fanin : h[1][k] \in 0 .. 0
    BY <2>2 DEF StepsAbove
  <2>. QED  BY <2>3
<1>2. 0 \in passed
  <2>1. Reached(1, 0)
    <3>1. ListAt(h, n, 1, 1) = h /\ Met(h, n, 1, 1) = 0
      BY ListStart
    <3>. QED  BY <3>1 DEF Start, Stage
  <2>. QED  BY <2>1
<1>3. ASSUME NEW d \in 0 .. fanin - 1, d \in passed PROVE d + 1 \in passed
  <2>. DEFINE k == d + 1
              w == ListAt(h, n, 1, k)
              v == ListAt(h, n, 1, k + 1)
              one == 1
  <2>1. /\ k \in 1 .. fanin /\ k \in 1 .. fanin + 1 /\ d \in Nat /\ k \in Nat \ {0}
        /\ one + d = d + 1 /\ one \in Nat \ {0}
    OBVIOUS
  <2>2. Reached(k, d)
    BY <1>3, <2>1
  <2>3. RowsOf(h, n, 1, k, w, d)
    BY <1>1, <2>1, <2>2, ListFacts
  <2>4. w \in Seq(Seq(Nat)) /\ one <= Len(w) /\ k <= Len(w[one])
    <3>. HIDE DEF w, k
    <3>1. w \in Seq(Seq(Nat)) /\ Len(w) = d + n /\ one \in 1 .. d + n
      BY <2>3 DEF RowsOf
    <3>2. Len(w[one]) = fanin
      BY <2>3, <3>1 DEF RowsOf
    <3>. QED  BY <2>1, <3>1, <3>2
  <2>5. w[one][k] = 0
    <3>1. CASE d = 0
      <4>1. k = 1 /\ ~(1 < 1 \/ (1 = 1 /\ 1 < k))
        BY <3>1
      <4>2. FaninAt(h, n, 1, k, 1, 1) = 0
        BY <4>1, <1>1, <2>1 DEF FaninAt
      <4>3. \A m \in 1 .. fanin : w[d + 1][m] = FaninAt(h, n, 1, k, 1, m)
        <5>. HIDE DEF w, k
        <5>. QED  BY <1>1, <2>3 DEF RowsOf
      <4>4. w[d + 1][k] = FaninAt(h, n, 1, k, 1, k)
        <5>. HIDE DEF w, k
        <5>. QED  BY <4>3, <2>1
      <4>. QED  BY <3>1, <4>1, <4>2, <4>4
    <3>2. CASE d # 0
      <4>1. one \in 1 .. d
        BY <3>2
      <4>. HIDE DEF w, k, one
      <4>2. w[one] = [m \in 1 .. fanin |-> 0]
        BY <4>1, <2>3 DEF RowsOf
      <4>. QED  BY <4>2, <2>1
    <3>. QED  BY <3>1, <3>2
  <2>6. InsertInput(w, one, k, d, d) = v /\ Met(h, n, 1, k + 1) = d + 1
    <3>. HIDE DEF k, one
    <3>1. h[1][k] = 0
      BY <1>1, <2>1
    <3>2. one + d = Met(h, n, 1, k) + 1
      BY <2>1, <2>2
    <3>3. /\ InsertInput(ListAt(h, n, 1, k), one, k, Met(h, n, 1, k), d) = ListAt(h, n, 1, k + 1)
          /\ Met(h, n, 1, k + 1) = Met(h, n, 1, k) + 1
      BY <3>1, <3>2, <1>1, <2>1, ListInserted
    <3>. QED  BY <2>2, <3>3
  <2>7. f[Stage(w, one, k, d, d)]
          = f[Stage(InsertInput(w, one, k, d, d), one, k + 1, d + 1, d + 1)]
    <3>. HIDE DEF w, k, one
    <3>. QED  BY <2>1, <2>4, <2>5, StageFacts
  <2>8. Reached(k + 1, d + 1)
    <3>1. f[Start(h)] = f[Stage(w, one, k, d, d)]
      BY <2>2
    <3>2. f[Stage(w, one, k, d, d)] = f[Stage(v, one, k + 1, d + 1, d + 1)]
      <4>. HIDE DEF w, v, k, one
      <4>. QED  BY <2>6, <2>7
    <3>. QED  BY <3>1, <3>2, <2>6
  <2>. HIDE DEF Reached
  <2>. QED  BY <2>8
<1>4. fanin \in passed /\ fanin \in Nat
  <2>. HIDE DEF passed
  <2>1. fanin \in Nat /\ 0 .. fanin \subseteq passed
    <3>1. fanin \in Nat
      OBVIOUS
    <3>. QED  BY <3>1, <1>2, <1>3, UpTo
  <2>. QED  BY <2>1
<1>. DEFINE e == fanin + 1
            w == ListAt(h, n, 1, e)
            one == 1
<1>5. Met(h, n, 1, e) = fanin /\ f[Start(h)] = f[Stage(w, one, e, fanin, fanin)]
  BY <1>4
<1>6. RowsOf(h, n, 1, e, w, fanin)
  <2>1. e \in 1 .. fanin + 1
    OBVIOUS
  <2>. QED  BY <1>1, <1>5, <2>1, ListFacts
<1>7. /\ w \in Seq(Seq(Nat)) /\ one <= Len(w) /\ e > Len(w[one])
      /\ one \in Nat \ {0} /\ e \in Nat \ {0} /\ fanin \in Nat
  <2>. HIDE DEF w
  <2>1. w \in Seq(Seq(Nat)) /\ Len(w) = fanin + n /\ one \in 1 .. fanin + n
    BY <1>6 DEF RowsOf
  <2>2. Len(w[one]) = fanin
    <3>. HIDE DEF one, e
    <3>. QED  BY <1>6, <2>1 DEF RowsOf
  <2>. QED  BY <2>1, <2>2
<1>8. f[Stage(w, one, e, fanin, fanin)]
        = f[Stage(w, (IF one <= fanin THEN fanin ELSE one) + 1, 1, fanin, 0)]
  <2>. HIDE DEF w, one, e
  <2>. QED  BY <1>7, StageFacts
<1>9. (IF one <= fanin THEN fanin ELSE one) + 1 = fanin + 1
  OBVIOUS
<1>10. Entering(h, n, 1, fanin + 1) = Stage(w, fanin + 1, 1, fanin, 0)
  BY <1>5 DEF Entering
<1>. QED  BY <1>5, <1>8, <1>9, <1>10

(* The loops end with an input for every ignored fanin. *)
LEMMA AllInserted ==
  ASSUME fanin \in {2, 3}, NEW n \in Nat \ {0}, NEW h \in GraphOf(n)
  PROVE  InsertInputs(h) = ListAt(h, n, n + 1, 1)
<1>1. PICK f : LoopsEnd(f) /\ InsertInputs(h) = f[Start(h)]
  BY InsertInputsIs
<1>2. ASSUME NEW j \in 2 .. n
      PROVE  f[Entering(h, n, j, 1)] = f[Entering(h, n, j + 1, 1)]
  <2>. DEFINE same == {d \in Nat : f[Entering(h, n, j, 1)] = f[Entering(h, n, j, d + 1)]}
  <2>1. 0 \in same
    OBVIOUS
  <2>2. ASSUME NEW d \in 0 .. fanin - 1, d \in same PROVE d + 1 \in same
    <3>. DEFINE k == d + 1
    <3>1. k \in 1 .. fanin /\ d \in Nat /\ d + 1 \in Nat
      OBVIOUS
    <3>2. f[Entering(h, n, j, 1)] = f[Entering(h, n, j, k)]
      BY <2>2
    <3>. HIDE DEF k
    <3>3. f[Entering(h, n, j, k)] = f[Entering(h, n, j, k + 1)]
      BY <1>1, <3>1, FaninDone
    <3>. QED  BY <3>1, <3>2, <3>3 DEF k
  <2>3. fanin \in Nat /\ fanin \in same
    <3>. HIDE DEF same
    <3>1. fanin \in Nat
      OBVIOUS
    <3>2. 0 .. fanin \subseteq same
      BY <3>1, <2>1, <2>2, UpTo
    <3>. QED  BY <3>1, <3>2
  <2>4. j \in 1 .. n
    OBVIOUS
  <2>5. f[Entering(h, n, j, fanin + 1)] = f[Entering(h, n, j + 1, 1)]
    BY <1>1, <2>4, VertexDone
  <2>. QED  BY <2>3, <2>5
<1>. DEFINE reached == {d \in Nat : d <= n - 1 => f[Start(h)] = f[Entering(h, n, d + 2, 1)]}
<1>3. 0 \in reached
  <2>. DEFINE one == 1
  <2>1. one \in 1 .. n /\ one + 1 = 0 + 2
    OBVIOUS
  <2>2. f[Start(h)] = f[Entering(h, n, one, fanin + 1)]
    BY <1>1, FirstVertexDone
  <2>. HIDE DEF one
  <2>3. f[Entering(h, n, one, fanin + 1)] = f[Entering(h, n, one + 1, 1)]
    BY <1>1, <2>1, VertexDone
  <2>. QED  BY <2>1, <2>2, <2>3
<1>4. ASSUME NEW d \in 0 .. (n - 1) - 1, d \in reached PROVE d + 1 \in reached
  <2>. DEFINE j == d + 2
  <2>1. j \in 2 .. n /\ d \in Nat /\ d + 1 \in Nat /\ d <= n - 1 /\ (d + 1) + 2 = j + 1
    OBVIOUS
  <2>2. f[Start(h)] = f[Entering(h, n, j, 1)]
    BY <1>4, <2>1
  <2>. HIDE DEF j
  <2>3. f[Entering(h, n, j, 1)] = f[Entering(h, n, j + 1, 1)]
    BY <1>2, <2>1
  <2>. QED  BY <2>1, <2>2, <2>3
<1>5. n - 1 \in Nat /\ n - 1 \in reached /\ (n - 1) + 2 = n + 1
  <2>1. n - 1 \in Nat /\ (n - 1) + 2 = n + 1
    OBVIOUS
  <2>. HIDE DEF reached
  <2>2. 0 .. n - 1 \subseteq reached
    BY <2>1, <1>3, <1>4, UpTo
  <2>. QED  BY <2>1, <2>2
<1>6. f[Start(h)] = f[Entering(h, n, n + 1, 1)]
  BY <1>5
<1>. DEFINE t == Met(h, n, n + 1, 1)
            w == ListAt(h, n, n + 1, 1)
            i == t + (n + 1)
            one == 1
            zero == 0
<1>7. RowsOf(h, n, n + 1, 1, w, t)
  <2>1. n + 1 \in 1 .. n + 1 /\ 1 \in 1 .. fanin + 1
    OBVIOUS
  <2>. QED  BY <2>1, ListFacts
<1>8. f[Entering(h, n, n + 1, 1)] = f[Stage(w, i, one, t, zero)]
  BY DEF Entering
<1>9. /\ w \in Seq(Seq(Nat)) /\ t \in Nat /\ i > Len(w) /\ i \in Nat \ {0}
      /\ one \in Nat \ {0} /\ zero \in Nat
  <2>. HIDE DEF w, t
  <2>1. w \in Seq(Seq(Nat)) /\ t \in Nat /\ Len(w) = t + n
    BY <1>7 DEF RowsOf
  <2>. QED  BY <2>1
<1>10. f[Stage(w, i, one, t, zero)] = w
  <2>. HIDE DEF w, t, i, one, zero, reached
  <2>1. LoopsEnd(f)
    BY <1>1
  <2>2. w \in Seq(Seq(Nat)) /\ t \in Nat
    BY <1>9
  <2>3. i \in Nat \ {0} /\ one \in Nat \ {0} /\ zero \in Nat
    BY <1>9
  <2>4. i > Len(w) => f[Stage(w, i, one, t, zero)] = w
    BY <2>1, <2>2, <2>3, StageEnds
  <2>. QED  BY <2>4, <1>9
<1>. QED  BY <1>1, <1>6, <1>8, <1>10

-----------------------------------------------------------------------------
(* What AddPINodes says: inputs, and the fanins of the last list, the      *)
(* first two swapped where both were ignored.                              *)
Slot(h, i, k) == IF h[i][1] = 0 /\ h[i][2] = 0 /\ k <= 2 THEN 3 - k ELSE k

LEMMA AddPINodesIs ==
  ASSUME fanin \in {2, 3}, NEW n \in Nat \ {0}, NEW h \in GraphOf(n)
  PROVE  AddPINodes(h)
           = [v \in 1 .. Met(h, n, n + 1, 1) |-> [k \in 1 .. fanin |-> 0]]
               \o [i \in 1 .. n |-> [k \in 1 .. fanin |->
                                      FaninAt(h, n, n + 1, 1, i, Slot(h, i, k))]]
<1>. DEFINE slots == {s \in (DOMAIN h) \X (1 .. Len(h[1])) : h[s[1]][s[2]] = 0}
            pis == Cardinality(slots)
            met(i, k) == Cardinality({s \in slots : s[1] < i \/ (s[1] = i /\ s[2] <= k)})
            input(i, k) == IF h[i][k] = 0 THEN pis + 1 - met(i, k) ELSE pis + h[i][k]
            inputs(i) == h[i][1] = 0 /\ h[i][2] = 0
            slot(i, k) == IF inputs(i) /\ k <= 2 THEN 3 - k ELSE k
            t == Met(h, n, n + 1, 1)
<1>1. AddPINodes(h) = [v \in 1 .. pis |-> [k \in 1 .. Len(h[1]) |-> 0]]
                        \o [i \in DOMAIN h |-> [k \in DOMAIN h[i] |-> input(i, slot(i, k))]]
  BY DEF AddPINodes
<1>2. /\ DOMAIN h = 1 .. n /\ Len(h[1]) = fanin /\ \A i \in 1 .. n : DOMAIN h[i] = 1 .. fanin
      /\ \A i \in 1 .. n, k \in 1 .. fanin : h[i][k] \in Nat
  <2>1. h \in [1 .. n -> Step] /\ 1 \in 1 .. n
    BY DEF GraphOf
  <2>2. \A i \in 1 .. n : h[i] \in [1 .. fanin -> Nat]
    BY <2>1 DEF Step
  <2>3. h[1] \in [1 .. fanin -> Nat] /\ fanin \in Nat
    BY <2>1, <2>2
  <2>4. Len(h[1]) = fanin
    BY <2>3, RowFacts
  <2>. QED  BY <2>1, <2>2, <2>4
<1>3. slots = IgnoredBefore(h, n, n + 1, 1)
  <2>1. \A a \in 1 .. n : a < n + 1
    OBVIOUS
  <2>2. slots = {s \in (1 .. n) \X (1 .. fanin) : h[s[1]][s[2]] = 0}
    BY <1>2
  <2>3. \A s \in (1 .. n) \X (1 .. fanin) : s[1] < n + 1
    BY <2>1
  <2>. QED  BY <2>2, <2>3 DEF IgnoredBefore
<1>4. pis = t
  BY <1>3 DEF Met
<1>5. ASSUME NEW i \in 1 .. n, NEW k \in 1 .. fanin
      PROVE  met(i, k) = Met(h, n, i, k + 1)
  <2>1. \A b \in 1 .. fanin : b <= k <=> b < k + 1
    OBVIOUS
  <2>2. slots = {s \in (1 .. n) \X (1 .. fanin) : h[s[1]][s[2]] = 0}
    BY <1>2
  <2>3. {s \in slots : s[1] < i \/ (s[1] = i /\ s[2] <= k)} = IgnoredBefore(h, n, i, k + 1)
    <3>1. ASSUME NEW s \in (1 .. n) \X (1 .. fanin)
          PROVE  s[2] <= k <=> s[2] < k + 1
      BY <2>1
    <3>. QED  BY <2>2, <3>1 DEF IgnoredBefore
  <2>. QED  BY <2>3 DEF Met
<1>6. ASSUME NEW i \in 1 .. n, NEW k \in 1 .. fanin
      PROVE  input(i, k) = FaninAt(h, n, n + 1, 1, i, k)
  <2>1. h[i][k] \in Nat /\ t \in Nat /\ i < n + 1
    <3>1. h[i][k] \in Nat
      BY <1>2
    <3>2. t \in Nat
      BY MetFacts
    <3>3. i < n + 1
      OBVIOUS
    <3>. HIDE DEF t
    <3>. QED  BY <3>1, <3>2, <3>3
  <2>2. h[i][k] + t = t + h[i][k]
    <3>. HIDE DEF t
    <3>. QED  BY <2>1
  <2>. HIDE DEF pis, met
  <2>3. input(i, k) = IF h[i][k] # 0 THEN h[i][k] + t ELSE t + 1 - Met(h, n, i, k + 1)
    BY <1>4, <1>5, <2>2
  <2>. QED  BY <2>1, <2>3 DEF FaninAt
<1>7. ASSUME NEW i \in 1 .. n, NEW k \in 1 .. fanin
      PROVE  input(i, slot(i, k)) = FaninAt(h, n, n + 1, 1, i, Slot(h, i, k))
  <2>1. slot(i, k) = Slot(h, i, k) /\ slot(i, k) \in 1 .. fanin
    BY DEF Slot
  <2>. HIDE DEF input, slot
  <2>. QED  BY <2>1, <1>6
<1>. HIDE DEF pis, input, slot, t
<1>8. [v \in 1 .. pis |-> [k \in 1 .. Len(h[1]) |-> 0]] = [v \in 1 .. t |-> [k \in 1 .. fanin |-> 0]]
  BY <1>2, <1>4
<1>9. [i \in DOMAIN h |-> [k \in DOMAIN h[i] |-> input(i, slot(i, k))]]
        = [i \in 1 .. n |-> [k \in 1 .. fanin |->
                              FaninAt(h, n, n + 1, 1, i, Slot(h, i, k))]]
  BY <1>2, <1>7
<1>. QED  BY <1>1, <1>8, <1>9 DEF t

(* The last pass swaps just the pairs of inputs that vertices begin with:  *)
(* the first of them is the later input, everything else is in order.      *)
LEMMA SwapsAreOrdered ==
  ASSUME fanin \in {2, 3}, NEW n \in Nat \ {0}, NEW h \in GraphOf(n)
  PROVE  SwapInputs(ListAt(h, n, n + 1, 1)) = AddPINodes(h)
<1>. DEFINE w == ListAt(h, n, n + 1, 1)
            t == Met(h, n, n + 1, 1)
            F(i, k) == FaninAt(h, n, n + 1, 1, i, k)
            zeros == [v \in 1 .. t |-> [k \in 1 .. fanin |-> 0]]
            gates == [i \in 1 .. n |-> [k \in 1 .. fanin |-> F(i, Slot(h, i, k))]]
            Swaps(v) == /\ \E k \in 1 .. Len(w[v]) - 1 : w[v][k] > w[v][k + 1]
                        /\ IsLeaf(w, w[v][1]) /\ IsLeaf(w, w[v][2])
            swapped == SwapInputs(w)
<1>1. n + 1 \in 1 .. n + 1 /\ 1 \in 1 .. fanin + 1 /\ 1 \in 1 .. fanin /\ 2 \in 1 .. fanin
      /\ fanin \in Nat /\ \A i \in 1 .. n : i < n + 1
  OBVIOUS
<1>2. RowsOf(h, n, n + 1, 1, w, t)
  BY <1>1, ListFacts
<1>3. /\ w \in Seq(Seq(Nat)) /\ Len(w) = t + n /\ t \in Nat /\ DOMAIN w = 1 .. t + n
      /\ \A x \in 1 .. t + n : w[x] \in Seq(Nat) /\ Len(w[x]) = fanin /\ DOMAIN w[x] = 1 .. fanin
      /\ \A x \in 1 .. t : w[x] = [m \in 1 .. fanin |-> 0]
      /\ \A i \in 1 .. n, m \in 1 .. fanin :
           t + i \in 1 .. t + n /\ w[t + i][m] = F(i, m)
  <2>. HIDE DEF w, t
  <2>. QED  BY <1>2 DEF RowsOf
<1>4. AddPINodes(h) = zeros \o gates
  BY AddPINodesIs
<1>5. ASSUME NEW i \in 1 .. n, NEW k \in 1 .. fanin
      PROVE  /\ F(i, k) \in Nat /\ h[i][k] \in Nat
             /\ F(i, k) = IF h[i][k] # 0 THEN h[i][k] + t ELSE t + 1 - Met(h, n, i, k + 1)
             /\ h[i][k] = 0 => F(i, k) \in 1 .. t
  <2>1. F(i, k) \in Nat /\ (i < n + 1 => F(i, k) # 0)
    BY <1>1, FaninFacts
  <2>2. h[i][k] \in Nat
    BY DEF GraphOf, Step
  <2>3. F(i, k) = IF h[i][k] # 0 THEN h[i][k] + t ELSE t + 1 - Met(h, n, i, k + 1)
    BY <1>1 DEF FaninAt
  <2>4. h[i][k] = 0 => Met(h, n, i, k + 1) = Met(h, n, i, k) + 1 /\ Met(h, n, i, k) \in Nat
    BY MetFacts
  <2>5. t \in Nat /\ i < n + 1
    BY <1>1, <1>3
  <2>. HIDE DEF F, t
  <2>6. ASSUME h[i][k] = 0 PROVE F(i, k) \in 1 .. t
    <3>1. PICK a \in Nat : a = Met(h, n, i, k)
      BY <2>4, <2>6
    <3>2. F(i, k) = t + 1 - (a + 1) /\ F(i, k) \in Nat /\ F(i, k) # 0
      BY <2>1, <2>3, <2>4, <2>5, <2>6, <3>1
    <3>. QED  BY <2>5, <3>2
  <2>. QED  BY <2>1, <2>2, <2>3, <2>6
<1>6. swapped = [v \in 1 .. t + n |->
                   IF Swaps(v) THEN [w[v] EXCEPT ![1] = w[v][2], ![2] = w[v][1]] ELSE w[v]]
  BY <1>3 DEF SwapInputs
<1>7. ASSUME NEW x \in 1 .. t PROVE IsLeaf(w, x)
  <2>1. {k \in DOMAIN w[x] : w[x][k] # 0} = {}
    BY <1>3, SMTT(30)
  <2>. QED  BY <2>1, FS_EmptySet DEF IsLeaf, NumChildren
<1>. HIDE DEF w, F, t
<1>8. ASSUME NEW i \in 1 .. n
      PROVE  Swaps(t + i) <=> h[i][1] = 0 /\ h[i][2] = 0
  <2>. DEFINE v == t + i
  <2>0. /\ v \in 1 .. t + n /\ Len(w[v]) = fanin /\ \A m \in 1 .. fanin : w[v][m] = F(i, m)
    <3>. HIDE DEF zeros, gates, Swaps, swapped
    <3>1. v \in 1 .. t + n /\ \A m \in 1 .. fanin : w[v][m] = F(i, m)
      BY <1>1, <1>3
    <3>. HIDE DEF v
    <3>2. Len(w[v]) = fanin
      BY <3>1, <1>3
    <3>. QED  BY <3>1, <3>2
  <2>1. CASE h[i][1] = 0 /\ h[i][2] = 0
    <3>1. w[v][1] \in 1 .. t /\ w[v][2] \in 1 .. t
      BY <1>1, <1>5, <2>0, <2>1
    <3>2. w[v][1] > w[v][1 + 1]
      <4>1. Met(h, n, i, 1 + 1) \in Nat /\ Met(h, n, i, 2 + 1) = Met(h, n, i, 1 + 1) + 1
        <5>1. Met(h, n, i, 2) \in Nat /\ Met(h, n, i, 2 + 1) = Met(h, n, i, 2) + 1
          BY <1>1, <2>1, MetFacts
        <5>. QED  BY <5>1
      <4>2. F(i, 1) = t + 1 - Met(h, n, i, 1 + 1) /\ F(i, 2) = t + 1 - Met(h, n, i, 2 + 1)
        BY <1>1, <1>5, <2>1
      <4>3. F(i, 1) > F(i, 2)
        BY <4>1, <4>2, <1>3
      <4>. QED  BY <1>1, <2>0, <4>3
    <3>3. 1 \in 1 .. Len(w[v]) - 1
      BY <2>0
    <3>4. IsLeaf(w, w[v][1]) /\ IsLeaf(w, w[v][2])
      BY <3>1, <1>7
    <3>. HIDE DEF v
    <3>5. Swaps(v)
      <4>1. \E k \in 1 .. Len(w[v]) - 1 : w[v][k] > w[v][k + 1]
        BY <3>2, <3>3
      <4>. QED  BY <4>1, <3>4
    <3>. HIDE DEF Swaps
    <3>. QED  BY <2>1, <3>5 DEF v
  <2>2. CASE ~(h[i][1] = 0 /\ h[i][2] = 0)
    <3>1. ASSUME NEW k \in 1 .. fanin - 1 PROVE ~(F(i, k) > F(i, k + 1))
      <4>1. h[i] \in StepsAbove(i - 1)
        BY DEF GraphOf
      <4>2. \A m \in 1 .. fanin - 1 : h[i][m] < h[i][m + 1] \/ (h[i][m] = 0 /\ h[i][m + 1] = 0)
        BY <4>1 DEF StepsAbove
      <4>3. k \in 1 .. fanin /\ k + 1 \in 1 .. fanin
        OBVIOUS
      <4>4. h[i][1] \in Nat /\ h[i][2] \in Nat /\ h[i][1] < h[i][2]
        <5>1. 1 \in 1 .. fanin - 1 /\ 1 + 1 = 2
          OBVIOUS
        <5>2. h[i][1] < h[i][1 + 1] \/ (h[i][1] = 0 /\ h[i][1 + 1] = 0)
          BY <4>2, <5>1
        <5>. QED  BY <5>1, <5>2, <2>2, <1>1, <1>5
      <4>5. h[i][k] \in Nat /\ h[i][k + 1] \in Nat /\ h[i][k + 1] # 0 /\ h[i][k] < h[i][k + 1]
        <5>1. CASE k = 1
          <6>1. k + 1 = 2
            BY <5>1
          <6>. QED  BY <5>1, <6>1, <4>4
        <5>2. CASE k # 1
          <6>1. k = 2 /\ k + 1 = 3 /\ fanin = 3
            BY <5>2
          <6>2. h[i][2] # 0 /\ h[i][2] \in Nat /\ h[i][3] \in Nat
            BY <6>1, <4>3, <4>4, <1>5
          <6>3. h[i][k] < h[i][k + 1] \/ (h[i][k] = 0 /\ h[i][k + 1] = 0)
            BY <4>2
          <6>. QED  BY <6>1, <6>2, <6>3
        <5>. QED  BY <5>1, <5>2
      <4>6. F(i, k + 1) = h[i][k + 1] + t
        BY <4>3, <4>5, <1>5
      <4>7. CASE h[i][k] # 0
        <5>1. F(i, k) = h[i][k] + t
          BY <4>3, <4>7, <1>5
        <5>2. t \in Nat
          BY <1>3
        <5>. QED  BY <4>5, <4>6, <5>1, <5>2
      <4>8. CASE h[i][k] = 0
        <5>1. F(i, k) \in 1 .. t
          BY <4>3, <4>8, <1>5
        <5>2. t \in Nat
          BY <1>3
        <5>. QED  BY <4>5, <4>6, <5>1, <5>2
      <4>. QED  BY <4>7, <4>8
    <3>. HIDE DEF v
    <3>2. ASSUME NEW k \in 1 .. Len(w[v]) - 1 PROVE ~(w[v][k] > w[v][k + 1])
      <4>1. k \in 1 .. fanin - 1
        BY <2>0
      <4>2. k \in 1 .. fanin /\ k + 1 \in 1 .. fanin
        BY <4>1
      <4>3. w[v][k] = F(i, k) /\ w[v][k + 1] = F(i, k + 1)
        BY <2>0, <4>2
      <4>. QED  BY <4>1, <4>3, <3>1
    <3>3. ~Swaps(v)
      BY <3>2
    <3>. HIDE DEF Swaps
    <3>. QED  BY <2>2, <3>3 DEF v
  <2>. QED  BY <2>1, <2>2
<1>9. ASSUME NEW v \in 1 .. t PROVE ~Swaps(v)
  <2>1. /\ v \in 1 .. t + n /\ Len(w[v]) = fanin
        /\ \A m \in 1 .. fanin : w[v][m] = 0
    BY <1>3, SMTT(30)
  <2>2. \A k \in 1 .. fanin - 1 : k \in 1 .. fanin /\ k + 1 \in 1 .. fanin
    OBVIOUS
  <2>. QED  BY <2>1, <2>2
<1>. HIDE DEF Swaps
<1>10. /\ swapped \in Seq(Seq(Nat)) /\ Len(swapped) = t + n
       /\ \A x \in 1 .. t + n : DOMAIN swapped[x] = 1 .. fanin
       /\ \A x \in 1 .. t, m \in 1 .. fanin : swapped[x][m] = 0
       /\ \A i \in 1 .. n, m \in 1 .. fanin : swapped[t + i][m] = F(i, Slot(h, i, m))
  <2>1. ASSUME NEW x \in 1 .. t + n
        PROVE  /\ swapped[x] \in Seq(Nat) /\ DOMAIN swapped[x] = 1 .. fanin
               /\ ~Swaps(x) => swapped[x] = w[x]
               /\ Swaps(x) => \A m \in 1 .. fanin :
                    swapped[x][m] = IF m <= 2 THEN w[x][3 - m] ELSE w[x][m]
    <3>. DEFINE row == w[x]
                back == [row EXCEPT ![1] = row[2], ![2] = row[1]]
    <3>1. row \in [1 .. fanin -> Nat] /\ row \in Seq(Nat)
      <4>1. row \in Seq(Nat) /\ Len(row) = fanin
        BY <1>3
      <4>. HIDE DEF row
      <4>. QED  BY <4>1
    <3>2. swapped[x] = IF Swaps(x) THEN back ELSE row
      <4>. HIDE DEF swapped
      <4>. QED  BY <1>6
    <3>. HIDE DEF row
    <3>3. back \in [1 .. fanin -> Nat]
      BY <3>1, <1>1
    <3>4. ASSUME NEW m \in 1 .. fanin
          PROVE  back[m] = IF m <= 2 THEN row[3 - m] ELSE row[m]
      <4>1. CASE m = 1
        BY <4>1, <3>1, <1>1
      <4>2. CASE m = 2
        BY <4>2, <3>1, <1>1
      <4>3. CASE m # 1 /\ m # 2
        <5>1. ~(m <= 2)
          BY <4>3
        <5>. QED  BY <4>3, <5>1, <3>1
      <4>. QED  BY <4>1, <4>2, <4>3
    <3>. HIDE DEF back, swapped
    <3>5. back \in Seq(Nat) /\ DOMAIN back = 1 .. fanin
      BY <3>3, <1>1, RowFacts
    <3>6. row \in Seq(Nat) /\ DOMAIN row = 1 .. fanin
      BY <3>1
    <3>7. ~Swaps(x) => swapped[x] = row
      BY <3>2
    <3>8. Swaps(x) => swapped[x] = back
      BY <3>2
    <3>9. swapped[x] \in Seq(Nat) /\ DOMAIN swapped[x] = 1 .. fanin
      BY <3>5, <3>6, <3>7, <3>8
    <3>10. Swaps(x) => \A m \in 1 .. fanin :
             swapped[x][m] = IF m <= 2 THEN row[3 - m] ELSE row[m]
      <4>1. SUFFICES ASSUME Swaps(x), NEW m \in 1 .. fanin
                     PROVE  swapped[x][m] = IF m <= 2 THEN row[3 - m] ELSE row[m]
        OBVIOUS
      <4>2. swapped[x][m] = back[m]
        BY <3>8, <4>1
      <4>. QED  BY <3>4, <4>2
    <3>. QED  BY <3>7, <3>9, <3>10 DEF row
  <2>2. swapped \in Seq(Seq(Nat)) /\ Len(swapped) = t + n
    <3>. DEFINE S == Seq(Nat)
                l == t + n
    <3>1. swapped = [x \in 1 .. t + n |-> swapped[x]] /\ l \in Nat
      <4>. HIDE DEF swapped
      <4>. QED  BY <1>3, <1>6
    <3>2. swapped \in [1 .. l -> S]
      <4>. HIDE DEF swapped
      <4>. QED  BY <3>1, <2>1
    <3>. HIDE DEF S, l, swapped
    <3>3. swapped \in Seq(S) /\ Len(swapped) = l
      BY <3>1, <3>2, RowFacts
    <3>. QED  BY <3>3 DEF S, l
  <2>. HIDE DEF swapped
  <2>3. ASSUME NEW x \in 1 .. t, NEW m \in 1 .. fanin PROVE swapped[x][m] = 0
    <3>1. x \in 1 .. t + n
      BY <1>3
    <3>2. swapped[x] = w[x]
      BY <3>1, <1>9, <2>1
    <3>. QED  BY <3>2, <1>3
  <2>4. ASSUME NEW i \in 1 .. n, NEW m \in 1 .. fanin
        PROVE  swapped[t + i][m] = F(i, Slot(h, i, m))
    <3>. DEFINE x == t + i
    <3>1. x \in 1 .. t + n /\ \A q \in 1 .. fanin : w[x][q] = F(i, q)
      BY <1>3
    <3>2. Swaps(x) <=> h[i][1] = 0 /\ h[i][2] = 0
      BY <1>8
    <3>3. m <= 2 => 3 - m \in 1 .. fanin
      BY <1>1
    <3>. HIDE DEF x
    <3>4. CASE Swaps(x)
      <4>1. swapped[x][m] = IF m <= 2 THEN w[x][3 - m] ELSE w[x][m]
        BY <3>1, <3>4, <2>1
      <4>2. Slot(h, i, m) = IF m <= 2 THEN 3 - m ELSE m
        BY <3>2, <3>4 DEF Slot
      <4>. QED  BY <4>1, <4>2, <3>1, <3>3 DEF x
    <3>5. CASE ~Swaps(x)
      <4>1. swapped[x][m] = w[x][m]
        BY <3>1, <3>5, <2>1
      <4>2. Slot(h, i, m) = m
        BY <3>2, <3>5 DEF Slot
      <4>. QED  BY <4>1, <4>2, <3>1 DEF x
    <3>. QED  BY <3>4, <3>5
  <2>. QED  BY <2>1, <2>2, <2>3, <2>4
<1>. HIDE DEF swapped
<1>11. /\ zeros \o gates \in Seq(Seq(Nat)) /\ Len(zeros \o gates) = t + n
       /\ \A x \in 1 .. t : (zeros \o gates)[x] = [k \in 1 .. fanin |-> 0]
       /\ \A i \in 1 .. n : (zeros \o gates)[t + i] = [k \in 1 .. fanin |-> F(i, Slot(h, i, k))]
  <2>. DEFINE S == Seq(Nat)
              a == zeros
              b == gates
  <2>1. [k \in 1 .. fanin |-> 0] \in S
    <3>1. [k \in 1 .. fanin |-> 0] \in [1 .. fanin -> Nat]
      OBVIOUS
    <3>. QED  BY <3>1, <1>1, RowFacts
  <2>2. ASSUME NEW i \in 1 .. n
        PROVE  [k \in 1 .. fanin |-> F(i, Slot(h, i, k))] \in S
    <3>1. \A k \in 1 .. fanin : Slot(h, i, k) \in 1 .. fanin
      BY DEF Slot
    <3>2. \A k \in 1 .. fanin : F(i, Slot(h, i, k)) \in Nat
      BY <3>1, <1>5
    <3>3. [k \in 1 .. fanin |-> F(i, Slot(h, i, k))] \in [1 .. fanin -> Nat]
      BY <3>2
    <3>. QED  BY <3>3, <1>1, RowFacts
  <2>. HIDE DEF S
  <2>3. a \in [1 .. t -> S] /\ b \in [1 .. n -> S]
    BY <2>1, <2>2
  <2>4. /\ \A x \in 1 .. t : a[x] = [k \in 1 .. fanin |-> 0]
        /\ \A i \in 1 .. n : b[i] = [k \in 1 .. fanin |-> F(i, Slot(h, i, k))]
    OBVIOUS
  <2>. HIDE DEF a, b
  <2>5. a \in Seq(S) /\ b \in Seq(S) /\ Len(a) = t /\ Len(b) = n
    BY <2>3, <1>3, RowFacts
  <2>6. /\ a \o b \in Seq(S) /\ Len(a \o b) = Len(a) + Len(b)
        /\ \A p \in 1 .. Len(a) : (a \o b)[p] = a[p]
        /\ \A k \in 1 .. Len(b) : (a \o b)[Len(a) + k] = b[k]
    <3>. a \in Seq(S) /\ b \in Seq(S)
      BY <2>5
    <3>. QED  BY JoinFacts
  <2>. QED  BY <2>4, <2>5, <2>6 DEF a, b, S
<1>. DEFINE added == zeros \o gates
<1>12. /\ \A x \in 1 .. t + n : DOMAIN added[x] = 1 .. fanin
       /\ \A x \in 1 .. t + n, m \in 1 .. fanin : swapped[x][m] = added[x][m]
  <2>. HIDE DEF added
  <2>1. \A x \in 1 .. t + n : x \in 1 .. t \/ (x - t \in 1 .. n /\ x = t + (x - t))
    BY <1>3
  <2>2. \A x \in 1 .. t, m \in 1 .. fanin : DOMAIN added[x] = 1 .. fanin /\ added[x][m] = 0
    BY <1>11, ZenonT(40) DEF added
  <2>3. \A i \in 1 .. n, m \in 1 .. fanin :
          DOMAIN added[t + i] = 1 .. fanin /\ added[t + i][m] = F(i, Slot(h, i, m))
    BY <1>11, ZenonT(40) DEF added
  <2>4. ASSUME NEW x \in 1 .. t + n, NEW m \in 1 .. fanin
        PROVE  DOMAIN added[x] = 1 .. fanin /\ swapped[x][m] = added[x][m]
    <3>1. CASE x \in 1 .. t
      BY <3>1, <2>2, <1>10
    <3>2. CASE x \notin 1 .. t
      <4>1. PICK i \in 1 .. n : x = t + i
        BY <3>2, <2>1
      <4>. QED  BY <4>1, <2>3, <1>10
    <3>. QED  BY <3>1, <3>2
  <2>. QED  BY <2>4, <1>1
<1>13. swapped = added
  <2>1. added \in Seq(Seq(Nat)) /\ Len(added) = Len(swapped) /\ Len(added) = t + n
    BY <1>10, <1>11
  <2>. HIDE DEF added
  <2>2. swapped \in Seq(Seq(Nat)) /\ fanin \in Nat /\ Len(swapped) = Len(added)
    BY <2>1, <1>1, <1>10
  <2>3. \A x \in 1 .. Len(added) : DOMAIN swapped[x] = 1 .. fanin /\ DOMAIN added[x] = 1 .. fanin
    BY <2>1, <1>10, <1>12
  <2>4. \A x \in 1 .. Len(added), m \in 1 .. fanin : swapped[x][m] = added[x][m]
    BY <2>1, <1>12
  <2>. QED  BY <2>1, <2>2, <2>3, <2>4, SameRows
<1>. QED  BY <1>4, <1>13 DEF swapped, w

(* The loop of add_PI_nodes, which inserts a vertex in front of the list   *)
(* it walks over, raises fanins in place and corrects the place by what it *)
(* has inserted, with the swaps afterwards, ends and gives every graph the *)
(* searches report what AddPINodes says in one step: an input for every    *)
(* ignored fanin, in both classes and for every number of vertices.        *)
THEOREM InputsInserted == ListSpec => []InsertionAsDefined
<1>. DEFINE IInv == Typed /\ ReportedGraphs
<1>1. ListInit => IInv
  BY TypedInit, ReportedInit DEF ListInit
<1>2. IInv /\ [ListNext]_<<vars, listVars>> => IInv'
  BY ListStep, TypedStep, ReportedStep
<1>3. IInv => InsertionAsDefined
  <2>. SUFFICES ASSUME IInv, SearchDone, NEW n \in DOMAIN dags
                PROVE  InsertedInPlace(dags[n]) = AddPINodes(dags[n])
    BY DEF InsertionAsDefined
  <2>1. fanin \in {2, 3} /\ nrVertices \in Nat \ {0}
    BY Parameters
  <2>2. dags[n] \in GraphOf(nrVertices)
    BY DEF ReportedGraphs
  <2>3. InsertInputs(dags[n]) = ListAt(dags[n], nrVertices, nrVertices + 1, 1)
    BY <2>1, <2>2, AllInserted
  <2>4. SwapInputs(ListAt(dags[n], nrVertices, nrVertices + 1, 1)) = AddPINodes(dags[n])
    BY <2>1, <2>2, SwapsAreOrdered
  <2>. QED  BY <2>3, <2>4 DEF InsertedInPlace
<1>. QED  BY <1>1, <1>2, <1>3, PTL DEF ListSpec

-----------------------------------------------------------------------------
(* A graph of n gates with c fanins each behind t inputs, all of which     *)
(* something depends on, an input just one gate.                           *)
Completed(g, t, n, c) ==
  /\ g \in Seq(Seq(Nat)) /\ Len(g) = t + n
  /\ \A v \in 1 .. t + n : DOMAIN g[v] = 1 .. c
  /\ \A v \in 1 .. t, k \in 1 .. c : g[v][k] = 0
  /\ \A v \in t + 1 .. t + n, k \in 1 .. c : g[v][k] \in 1 .. v - 1
  /\ \A v \in 1 .. t + n - 1 : \E w \in 1 .. t + n : v \in Fanins(g, w)
  /\ \A v \in 1 .. t : \A w, x \in 1 .. t + n :
       v \in Fanins(g, w) /\ v \in Fanins(g, x) => w = x

LEMMA CompletedChildren ==
  ASSUME NEW c \in Nat \ {0}, NEW n \in Nat \ {0}, NEW t \in Nat, NEW g, Completed(g, t, n, c),
         NEW v \in 1 .. t + n
  PROVE  /\ v <= t => NumChildren(g, v) = 0
         /\ ~(v <= t) => NumChildren(g, v) = c
<1>1. DOMAIN g[v] = 1 .. c
  BY DEF Completed
<1>2. ASSUME v <= t PROVE NumChildren(g, v) = 0
  <2>1. v \in 1 .. t
    BY <1>2
  <2>2. {k \in DOMAIN g[v] : g[v][k] # 0} = {}
    BY <1>1, <2>1 DEF Completed
  <2>. QED  BY <2>2, FS_EmptySet DEF NumChildren
<1>3. ASSUME ~(v <= t) PROVE NumChildren(g, v) = c
  <2>1. v \in t + 1 .. t + n
    BY <1>3
  <2>2. \A k \in 1 .. c : g[v][k] \in 1 .. v - 1
    BY <2>1 DEF Completed
  <2>3. {k \in DOMAIN g[v] : g[v][k] # 0} = 1 .. c
    <3>1. \A k \in 1 .. c : g[v][k] # 0
      BY <2>2
    <3>. QED  BY <1>1, <3>1
  <2>4. Cardinality(1 .. c) = c
    BY FS_Interval
  <2>. QED  BY <2>3, <2>4 DEF NumChildren
<1>. QED  BY <1>2, <1>3

LEMMA CompletedFits ==
  ASSUME NEW c \in Nat \ {0}, NEW n \in Nat \ {0}, NEW t \in Nat, NEW g, Completed(g, t, n, c)
  PROVE  FitsEngines([vertices |-> g, gates |-> n])
<1>1. Len(g) = t + n /\ DOMAIN g = 1 .. t + n /\ Len(g) - n = t
  BY DEF Completed
<1>. SUFFICES ASSUME NEW v \in 1 .. t + n
              PROVE  /\ IsLeaf(g, v) <=> v <= t
                     /\ \A k \in DOMAIN g[v] :
                          g[v][k] < v /\ (g[v][k] # 0 <=> k <= NumChildren(g, v))
                     /\ v # Len(g) => Parents(g, v) # {}
                     /\ IsLeaf(g, v) => Cardinality(Parents(g, v)) <= 1
  BY <1>1 DEF FitsEngines, Vertices, Root
<1>2. IsLeaf(g, v) <=> v <= t
  BY CompletedChildren DEF IsLeaf
<1>3. ASSUME NEW k \in DOMAIN g[v]
      PROVE  g[v][k] < v /\ (g[v][k] # 0 <=> k <= NumChildren(g, v))
  <2>1. k \in 1 .. c
    BY DEF Completed
  <2>2. CASE v <= t
    <3>1. v \in 1 .. t
      BY <2>2
    <3>2. g[v][k] = 0
      BY <2>1, <3>1 DEF Completed
    <3>3. NumChildren(g, v) = 0
      BY <2>2, CompletedChildren
    <3>. QED  BY <2>1, <3>2, <3>3
  <2>3. CASE ~(v <= t)
    <3>1. v \in t + 1 .. t + n
      BY <2>3
    <3>2. g[v][k] \in 1 .. v - 1
      BY <2>1, <3>1 DEF Completed
    <3>3. NumChildren(g, v) = c
      BY <2>3, CompletedChildren
    <3>. QED  BY <2>1, <3>2, <3>3
  <2>. QED  BY <2>2, <2>3
<1>4. ASSUME v # Len(g) PROVE Parents(g, v) # {}
  <2>1. v \in 1 .. t + n - 1
    BY <1>1, <1>4
  <2>2. PICK w \in 1 .. t + n : v \in Fanins(g, w)
    BY <2>1 DEF Completed
  <2>. QED  BY <1>1, <2>2 DEF Parents, Vertices
<1>5. ASSUME IsLeaf(g, v) PROVE Cardinality(Parents(g, v)) <= 1
  <2>1. v \in 1 .. t
    BY <1>2, <1>5
  <2>2. \A w, x \in Parents(g, v) : w = x
    BY <1>1, <2>1 DEF Completed, Parents, Vertices
  <2>3. CASE Parents(g, v) = {}
    BY <2>3, FS_EmptySet
  <2>4. CASE Parents(g, v) # {}
    <3>1. PICK w : Parents(g, v) = {w}
      BY <2>2, <2>4
    <3>2. Cardinality({w}) = 1
      BY FS_Singleton
    <3>. QED  BY <3>1, <3>2
  <2>. QED  BY <2>3, <2>4
<1>. QED  BY <1>2, <1>3, <1>4, <1>5

(* The greatest vertex a closed set with the root might lack has a parent  *)
(* above it, which the set has.                                            *)
LEMMA RootReaches ==
  ASSUME NEW c \in Nat \ {0}, NEW n \in Nat \ {0}, NEW t \in Nat, NEW g, Completed(g, t, n, c)
  PROVE  Cones(g)[Root(g)] = 1 .. t + n /\ MinimalIndices(g)[Root(g)] = 1
<1>1. /\ Len(g) = t + n /\ Vertices(g) = 1 .. t + n /\ Root(g) = t + n
      /\ t + n \in 1 .. t + n
  BY DEF Completed, Vertices, Root
<1>2. ASSUME NEW S \in FaninClosedSets(g), t + n \in S, NEW u \in 1 .. t + n
      PROVE  u \in S
  <2>1. S \subseteq 1 .. t + n /\ \A w \in S : Fanins(g, w) \subseteq S
    BY <1>1 DEF FaninClosedSets
  <2>. DEFINE above == {d \in Nat : d <= t + n - 1 => \A e \in 0 .. d : t + n - e \in S}
  <2>2. 0 \in above
    BY <1>2
  <2>3. ASSUME NEW d \in 0 .. (t + n - 1) - 1, d \in above PROVE d + 1 \in above
    <3>. DEFINE v == t + n - (d + 1)
    <3>1. v \in 1 .. t + n - 1 /\ v \in 1 .. t + n
      OBVIOUS
    <3>2. PICK w \in 1 .. t + n : v \in Fanins(g, w)
      <4>. HIDE DEF v
      <4>. QED  BY <3>1 DEF Completed
    <3>3. v < w
      <4>1. PICK k \in 1 .. c : v = g[w][k]
        BY <3>2 DEF Completed, Fanins
      <4>2. w \in t + 1 .. t + n
        <5>1. CASE w <= t
          <6>1. w \in 1 .. t
            BY <5>1
          <6>2. g[w][k] = 0
            BY <6>1 DEF Completed
          <6>. QED  BY <4>1, <6>2, <3>1
        <5>. QED  BY <5>1
      <4>3. g[w][k] \in 1 .. w - 1
        BY <4>2 DEF Completed
      <4>. QED  BY <4>1, <4>3
    <3>4. t + n - w \in 0 .. d /\ t + n - (t + n - w) = w
      BY <3>3
    <3>5. w \in S
      BY <2>3, <3>4, SMTT(30)
    <3>6. v \in S
      BY <2>1, <3>2, <3>5
    <3>. QED  BY <2>3, <3>6
  <2>4. t + n - 1 \in Nat /\ t + n - 1 \in above
    <3>1. t + n - 1 \in Nat
      OBVIOUS
    <3>. HIDE DEF above
    <3>2. 0 .. t + n - 1 \subseteq above
      BY <2>2, <2>3, <3>1, UpTo
    <3>. QED  BY <3>1, <3>2
  <2>5. t + n - u \in 0 .. t + n - 1 /\ t + n - (t + n - u) = u
    OBVIOUS
  <2>. QED  BY <2>4, <2>5
<1>3. Cones(g)[Root(g)] = 1 .. t + n
  <2>1. Cones(g)[Root(g)]
          = {u \in 1 .. t + n : \A S \in FaninClosedSets(g) : t + n \in S => u \in S}
    BY <1>1 DEF Cones
  <2>. QED  BY <1>2, <2>1
<1>4. Min(1 .. t + n) = 1
  <2>. DEFINE S == 1 .. t + n
              m == CHOOSE x \in S : \A y \in S : x <= y
  <2>1. 1 \in S /\ \A y \in S : 1 <= y
    OBVIOUS
  <2>2. m \in S /\ \A y \in S : m <= y
    <3>1. \E x \in S : \A y \in S : x <= y
      BY <2>1
    <3>. HIDE DEF S
    <3>. QED  BY <3>1
  <2>3. m = 1
    <3>. HIDE DEF m
    <3>. QED  BY <2>1, <2>2
  <2>. QED  BY <2>3 DEF Min
<1>. QED  BY <1>1, <1>3, <1>4 DEF MinimalIndices

-----------------------------------------------------------------------------
(* What the fanins of the gates are once all inputs are there. *)
Final(h, n, i, k) == FaninAt(h, n, n + 1, 1, i, k)

LEMMA FinalFacts ==
  ASSUME fanin \in {2, 3}, NEW n \in Nat \ {0}, NEW h \in GraphOf(n),
         NEW t, t = Met(h, n, n + 1, 1), NEW i \in 1 .. n, NEW k \in 1 .. fanin
  PROVE  /\ t \in Nat /\ h[i][k] \in 0 .. i - 1
         /\ h[i][k] # 0 => Final(h, n, i, k) = h[i][k] + t
         /\ h[i][k] = 0 => /\ Final(h, n, i, k) = t + 1 - Met(h, n, i, k + 1)
                           /\ Final(h, n, i, k) \in 1 .. t
                           /\ Met(h, n, i, k + 1) = Met(h, n, i, k) + 1
<1>1. h[i][k] \in 0 .. i - 1
  BY GraphFacts
<1>2. t \in Nat /\ i < n + 1
  <2>1. Met(h, n, n + 1, 1) \in Nat
    BY MetFacts
  <2>2. i < n + 1
    OBVIOUS
  <2>. QED  BY <2>1, <2>2
<1>3. Final(h, n, i, k)
        = IF h[i][k] # 0 THEN h[i][k] + t ELSE t + 1 - Met(h, n, i, k + 1)
  BY <1>2 DEF Final, FaninAt
<1>4. ASSUME h[i][k] = 0
      PROVE  Met(h, n, i, k + 1) = Met(h, n, i, k) + 1 /\ Final(h, n, i, k) \in 1 .. t
  <2>1. Met(h, n, i, k + 1) = Met(h, n, i, k) + 1 /\ Met(h, n, i, k) \in Nat
    BY <1>4, MetFacts
  <2>2. Final(h, n, i, k) \in Nat /\ Final(h, n, i, k) # 0
    <3>1. n + 1 \in 1 .. n + 1 /\ 1 \in 1 .. fanin + 1
      OBVIOUS
    <3>. QED  BY <1>2, <3>1, FaninFacts DEF Final
  <2>3. PICK a \in Nat : a = Met(h, n, i, k)
    BY <2>1
  <2>4. Final(h, n, i, k) = t + 1 - (a + 1)
    BY <1>3, <1>4, <2>1, <2>3
  <2>. QED  BY <1>2, <2>1, <2>2, <2>4
<1>. QED  BY <1>1, <1>2, <1>3, <1>4

(* Every input is the fanin of just one gate, once: later slots get        *)
(* earlier inputs, and there are as many inputs as slots.                  *)
LEMMA InputsUsedOnce ==
  ASSUME fanin \in {2, 3}, NEW n \in Nat \ {0}, NEW h \in GraphOf(n),
         NEW t, t = Met(h, n, n + 1, 1)
  PROVE  /\ \A v \in 1 .. t : \E i \in 1 .. n, k \in 1 .. fanin :
              h[i][k] = 0 /\ v = Final(h, n, i, k)
         /\ \A i, j \in 1 .. n, k, m \in 1 .. fanin :
              h[i][k] = 0 /\ h[j][m] = 0 /\ Final(h, n, i, k) = Final(h, n, j, m)
                => i = j /\ k = m
<1>1. t \in Nat /\ t = Cardinality(IgnoredBefore(h, n, n + 1, 1))
  BY MetFacts DEF Met
<1>2. ASSUME NEW i \in 1 .. n, NEW j \in 1 .. n, NEW k \in 1 .. fanin, NEW m \in 1 .. fanin,
             h[i][k] = 0, h[j][m] = 0, i < j \/ (i = j /\ k < m)
      PROVE  Final(h, n, i, k) # Final(h, n, j, m)
  <2>1. Final(h, n, i, k) = t + 1 - Met(h, n, i, k + 1)
    BY <1>2, FinalFacts
  <2>2. Final(h, n, j, m) = t + 1 - Met(h, n, j, m + 1) /\ Met(h, n, j, m + 1) = Met(h, n, j, m) + 1
    BY <1>2, FinalFacts
  <2>3. Met(h, n, i, k + 1) <= Met(h, n, j, m)
    <3>1. i \in 1 .. n + 1 /\ j \in 1 .. n + 1 /\ k \in 1 .. fanin + 1 /\ m \in 1 .. fanin + 1
      OBVIOUS
    <3>. QED  BY <1>2, <3>1, MetFacts
  <2>4. Met(h, n, i, k + 1) \in Nat /\ Met(h, n, j, m) \in Nat
    BY MetFacts
  <2>5. ASSUME NEW a \in Nat, NEW b \in Nat, a <= b PROVE t + 1 - a # t + 1 - (b + 1)
    BY <1>1, <2>5
  <2>. QED  BY <2>1, <2>2, <2>3, <2>4, <2>5
<1>3. ASSUME NEW i \in 1 .. n, NEW j \in 1 .. n, NEW k \in 1 .. fanin, NEW m \in 1 .. fanin,
             h[i][k] = 0, h[j][m] = 0, Final(h, n, i, k) = Final(h, n, j, m)
      PROVE  i = j /\ k = m
  <2>1. CASE i < j \/ (i = j /\ k < m)
    BY <1>2, <1>3, <2>1
  <2>2. CASE j < i \/ (j = i /\ m < k)
    BY <1>2, <1>3, <2>2
  <2>3. CASE ~(i < j \/ (i = j /\ k < m)) /\ ~(j < i \/ (j = i /\ m < k))
    BY <2>3
  <2>. QED  BY <2>1, <2>2, <2>3
<1>. DEFINE slots == IgnoredBefore(h, n, n + 1, 1)
            f == [s \in slots |-> Final(h, n, s[1], s[2])]
<1>4. ASSUME NEW s \in slots
      PROVE  s = <<s[1], s[2]>> /\ s[1] \in 1 .. n /\ s[2] \in 1 .. fanin /\ h[s[1]][s[2]] = 0
  BY DEF IgnoredBefore
<1>. HIDE DEF slots
<1>5. f \in [slots -> 1 .. t]
  <2>1. ASSUME NEW s \in slots PROVE Final(h, n, s[1], s[2]) \in 1 .. t
    BY <1>4, FinalFacts
  <2>. QED  BY <2>1
<1>6. f \in Injection(slots, 1 .. t)
  <2>1. ASSUME NEW r \in slots, NEW s \in slots, f[r] = f[s] PROVE r = s
    <3>1. Final(h, n, r[1], r[2]) = Final(h, n, s[1], s[2])
      BY <2>1
    <3>2. r[1] = s[1] /\ r[2] = s[2]
      BY <3>1, <1>3, <1>4
    <3>. QED  BY <3>2, <1>4
  <2>. HIDE DEF f
  <2>2. IsInjective(f)
    BY <1>5, <2>1 DEF IsInjective
  <2>. QED  BY <1>5, <2>2 DEF Injection
<1>7. Cardinality(slots) = Cardinality(1 .. t) /\ IsFiniteSet(1 .. t)
  BY <1>1, FS_Interval DEF slots
<1>8. f \in Surjection(slots, 1 .. t)
  <2>. HIDE DEF f
  <2>. QED  BY <1>6, <1>7, FS_Injection
<1>9. ASSUME NEW v \in 1 .. t
      PROVE  \E i \in 1 .. n, k \in 1 .. fanin : h[i][k] = 0 /\ v = Final(h, n, i, k)
  <2>1. PICK s \in slots : f[s] = v
    <3>. HIDE DEF f
    <3>. QED  BY <1>8 DEF Surjection
  <2>2. v = Final(h, n, s[1], s[2])
    BY <2>1
  <2>. QED  BY <2>2, <1>4
<1>. QED  BY <1>3, <1>9

LEMMA AddedCompleted ==
  ASSUME fanin \in {2, 3}, NEW n \in Nat \ {0}, NEW h \in GraphOf(n), Connected(h)
  PROVE  Completed(AddPINodes(h), Met(h, n, n + 1, 1), n, fanin)
<1>. DEFINE t == Met(h, n, n + 1, 1)
            F(i, k) == Final(h, n, i, k)
            zeros == [v \in 1 .. t |-> [k \in 1 .. fanin |-> 0]]
            gates == [i \in 1 .. n |-> [k \in 1 .. fanin |-> F(i, Slot(h, i, k))]]
            g == AddPINodes(h)
<1>1. g = zeros \o gates
  BY AddPINodesIs DEF Final
<1>2. t \in Nat /\ fanin \in Nat
  BY MetFacts
<1>3. ASSUME NEW i \in 1 .. n, NEW k \in 1 .. fanin
      PROVE  /\ h[i][k] \in 0 .. i - 1
             /\ h[i][k] # 0 => F(i, k) = h[i][k] + t
             /\ h[i][k] = 0 => F(i, k) \in 1 .. t
             /\ F(i, k) \in 1 .. t + i - 1
  <2>1. /\ h[i][k] \in 0 .. i - 1
        /\ h[i][k] # 0 => F(i, k) = h[i][k] + t
        /\ h[i][k] = 0 => F(i, k) \in 1 .. t
    BY FinalFacts
  <2>. HIDE DEF F, t
  <2>2. F(i, k) \in 1 .. t + i - 1
    <3>1. CASE h[i][k] # 0
      BY <2>1, <3>1, <1>2
    <3>2. CASE h[i][k] = 0
      BY <2>1, <3>2, <1>2
    <3>. QED  BY <3>1, <3>2
  <2>. QED  BY <2>1, <2>2
<1>4. /\ \A v \in 1 .. t : \E i \in 1 .. n, k \in 1 .. fanin : v = F(i, k)
      /\ \A i, j \in 1 .. n, k, m \in 1 .. fanin :
           h[i][k] = 0 /\ h[j][m] = 0 /\ F(i, k) = F(j, m) => i = j
  BY InputsUsedOnce
<1>5. /\ \A i \in 1 .. n, k \in 1 .. fanin : Slot(h, i, k) \in 1 .. fanin
      /\ \A i \in 1 .. n, k \in 1 .. fanin : Slot(h, i, Slot(h, i, k)) = k
  BY DEF Slot
<1>. HIDE DEF F, t, g
<1>6. /\ g \in Seq(Seq(Nat)) /\ Len(g) = t + n
      /\ \A v \in 1 .. t : g[v] = [k \in 1 .. fanin |-> 0]
      /\ \A i \in 1 .. n : g[t + i] = [k \in 1 .. fanin |-> F(i, Slot(h, i, k))]
  <2>. DEFINE S == Seq(Nat)
  <2>1. [k \in 1 .. fanin |-> 0] \in S
    <3>1. [k \in 1 .. fanin |-> 0] \in [1 .. fanin -> Nat]
      OBVIOUS
    <3>. QED  BY <3>1, <1>2, RowFacts
  <2>2. ASSUME NEW i \in 1 .. n
        PROVE  [k \in 1 .. fanin |-> F(i, Slot(h, i, k))] \in S
    <3>1. \A k \in 1 .. fanin : F(i, k) \in Nat
      <4>1. \A k \in 1 .. fanin : F(i, k) \in 1 .. t + i - 1
        BY <1>3
      <4>. QED  BY <4>1
    <3>2. [k \in 1 .. fanin |-> F(i, Slot(h, i, k))] \in [1 .. fanin -> Nat]
      BY <3>1, <1>5
    <3>. QED  BY <3>2, <1>2, RowFacts
  <2>. HIDE DEF S
  <2>3. zeros \in [1 .. t -> S] /\ gates \in [1 .. n -> S]
    BY <2>1, <2>2
  <2>4. /\ \A x \in 1 .. t : zeros[x] = [k \in 1 .. fanin |-> 0]
        /\ \A i \in 1 .. n : gates[i] = [k \in 1 .. fanin |-> F(i, Slot(h, i, k))]
    OBVIOUS
  <2>. HIDE DEF zeros, gates
  <2>5. zeros \in Seq(S) /\ gates \in Seq(S) /\ Len(zeros) = t /\ Len(gates) = n
    BY <2>3, <1>2, RowFacts
  <2>6. /\ zeros \o gates \in Seq(S) /\ Len(zeros \o gates) = Len(zeros) + Len(gates)
        /\ \A p \in 1 .. Len(zeros) : (zeros \o gates)[p] = zeros[p]
        /\ \A k \in 1 .. Len(gates) : (zeros \o gates)[Len(zeros) + k] = gates[k]
    <3>. zeros \in Seq(S) /\ gates \in Seq(S)
      BY <2>5
    <3>. QED  BY JoinFacts
  <2>. QED  BY <1>1, <2>4, <2>5, <2>6 DEF S
<1>7. ASSUME NEW v \in 1 .. t + n
      PROVE  v \in 1 .. t \/ \E i \in 1 .. n : v = t + i
  <2>1. CASE v <= t
    BY <2>1, <1>2
  <2>2. CASE ~(v <= t)
    <3>1. v - t \in 1 .. n /\ v = t + (v - t)
      BY <2>2, <1>2
    <3>. QED  BY <3>1
  <2>. QED  BY <2>1, <2>2
<1>. HIDE DEF zeros, gates
<1>8. ASSUME NEW v \in 1 .. t + n PROVE DOMAIN g[v] = 1 .. fanin
  <2>1. CASE v \in 1 .. t
    BY <2>1, <1>6
  <2>2. CASE v \notin 1 .. t
    <3>1. PICK i \in 1 .. n : v = t + i
      BY <2>2, <1>7
    <3>2. g[t + i] = [k \in 1 .. fanin |-> F(i, Slot(h, i, k))]
      BY <1>6
    <3>. QED  BY <3>1, <3>2
  <2>. QED  BY <2>1, <2>2
<1>9. \A v \in 1 .. t, k \in 1 .. fanin : g[v][k] = 0
  BY <1>6
<1>10. ASSUME NEW v \in t + 1 .. t + n, NEW k \in 1 .. fanin
       PROVE  g[v][k] \in 1 .. v - 1
  <2>1. PICK i \in 1 .. n : v = t + i
    <3>1. v - t \in 1 .. n /\ v = t + (v - t)
      BY <1>2
    <3>. QED  BY <3>1
  <2>2. g[v][k] = F(i, Slot(h, i, k))
    <3>1. g[t + i] = [m \in 1 .. fanin |-> F(i, Slot(h, i, m))]
      BY <1>6
    <3>. QED  BY <2>1, <3>1
  <2>3. F(i, Slot(h, i, k)) \in 1 .. t + i - 1
    BY <1>3, <1>5
  <2>4. t + i - 1 = v - 1
    BY <2>1, <1>2
  <2>. QED  BY <2>2, <2>3, <2>4
<1>11. ASSUME NEW i \in 1 .. n
       PROVE  /\ t + i \in 1 .. t + n
              /\ Fanins(g, t + i) = {F(i, k) : k \in 1 .. fanin}
  <2>1. t + i \in 1 .. t + n
    BY <1>2
  <2>2. /\ DOMAIN g[t + i] = 1 .. fanin
        /\ \A k \in 1 .. fanin : g[t + i][k] = F(i, Slot(h, i, k))
    BY <1>6, ZenonT(40)
  <2>3. \A k \in 1 .. fanin : F(i, k) # 0
    <3>1. \A k \in 1 .. fanin : F(i, k) \in 1 .. t + i - 1
      BY <1>3
    <3>. QED  BY <3>1
  <2>4. \A k \in 1 .. fanin : Slot(h, i, k) \in 1 .. fanin /\ Slot(h, i, Slot(h, i, k)) = k
    BY <1>5
  <2>5. Fanins(g, t + i) = {F(i, k) : k \in 1 .. fanin}
    BY <2>2, <2>3, <2>4 DEF Fanins
  <2>. QED  BY <2>1, <2>5
<1>12. ASSUME NEW v \in 1 .. t + n - 1 PROVE \E w \in 1 .. t + n : v \in Fanins(g, w)
  <2>1. CASE v \in 1 .. t
    <3>1. PICK i \in 1 .. n, k \in 1 .. fanin : v = F(i, k)
      BY <2>1, <1>4
    <3>. QED  BY <3>1, <1>11
  <2>2. CASE v \notin 1 .. t
    <3>. DEFINE j == v - t
    <3>1. j \in 1 .. n - 1 /\ v = j + t /\ j # 0
      BY <2>2, <1>2
    <3>. HIDE DEF j
    <3>2. Len(h) = n /\ DOMAIN h = 1 .. n /\ \A u \in 1 .. n : DOMAIN h[u] = 1 .. fanin
      BY GraphFacts
    <3>3. PICK u \in 1 .. n : j \in Range(h[u])
      BY <3>1, <3>2 DEF Connected
    <3>4. PICK k \in 1 .. fanin : h[u][k] = j
      BY <3>2, <3>3 DEF Range
    <3>5. F(u, k) = v
      BY <1>3, <3>1, <3>4
    <3>. QED  BY <3>5, <1>11
  <2>. QED  BY <2>1, <2>2
<1>13. ASSUME NEW v \in 1 .. t, NEW w \in 1 .. t + n, v \in Fanins(g, w)
       PROVE  \E i \in 1 .. n, k \in 1 .. fanin : w = t + i /\ h[i][k] = 0 /\ v = F(i, k)
  <2>1. w \notin 1 .. t
    <3>1. w \in 1 .. t => Fanins(g, w) = {}
      BY <1>8, <1>9 DEF Fanins
    <3>. QED  BY <3>1, <1>13
  <2>2. PICK i \in 1 .. n : w = t + i
    BY <2>1, <1>7
  <2>3. PICK k \in 1 .. fanin : v = F(i, k)
    BY <2>2, <1>11, <1>13
  <2>4. h[i][k] = 0
    <3>1. CASE h[i][k] # 0
      <4>1. F(i, k) = h[i][k] + t /\ h[i][k] \in 0 .. i - 1
        BY <3>1, <1>3
      <4>. QED  BY <4>1, <3>1, <2>3, <1>2
    <3>. QED  BY <3>1
  <2>. QED  BY <2>2, <2>3, <2>4
<1>14. ASSUME NEW v \in 1 .. t, NEW w \in 1 .. t + n, NEW x \in 1 .. t + n,
              v \in Fanins(g, w), v \in Fanins(g, x)
       PROVE  w = x
  <2>1. PICK i \in 1 .. n, k \in 1 .. fanin : w = t + i /\ h[i][k] = 0 /\ v = F(i, k)
    BY <1>13, <1>14
  <2>2. PICK j \in 1 .. n, m \in 1 .. fanin : x = t + j /\ h[j][m] = 0 /\ v = F(j, m)
    BY <1>13, <1>14
  <2>3. F(i, k) = F(j, m) /\ h[i][k] = 0 /\ h[j][m] = 0
    BY <2>1, <2>2
  <2>4. i = j
    BY <2>3, <1>4
  <2>. QED  BY <2>1, <2>2, <2>4
<1>15. Completed(g, t, n, fanin)
  BY <1>6, <1>8, <1>9, <1>10, <1>12, <1>14 DEF Completed
<1>. QED  BY <1>15 DEF g, t

(* Two or three fanins can be put in order. *)
InOrderOf(s, p) ==
  Range(p) = DOMAIN s /\ \A k \in 2 .. Len(s) : s[p[k - 1]] >= s[p[k]]

LEMMA OrderExists ==
  ASSUME NEW c \in {2, 3}, NEW s \in [1 .. c -> Nat]
  PROVE  \E p \in [1 .. c -> 1 .. c] : InOrderOf(s, p)
<1>1. DOMAIN s = 1 .. c /\ Len(s) = c
  BY RowFacts
<1>2. ASSUME NEW p \in [1 .. c -> 1 .. c], \A x \in 1 .. c : \E k \in 1 .. c : p[k] = x,
             \A k \in 2 .. c : s[p[k - 1]] >= s[p[k]]
      PROVE  InOrderOf(s, p)
  <2>1. DOMAIN p = 1 .. c /\ \A k \in 1 .. c : p[k] \in 1 .. c
    OBVIOUS
  <2>2. Range(p) = 1 .. c
    BY <1>2, <2>1 DEF Range
  <2>. QED  BY <1>1, <1>2, <2>2 DEF InOrderOf
<1>3. CASE c = 2
  <2>1. ASSUME NEW a \in 1 .. 2, NEW b \in 1 .. 2, a # b, s[a] >= s[b]
        PROVE  \E p \in [1 .. c -> 1 .. c] : InOrderOf(s, p)
    <3>. DEFINE p == [k \in 1 .. 2 |-> IF k = 1 THEN a ELSE b]
    <3>1. p \in [1 .. c -> 1 .. c] /\ p[1] = a /\ p[2] = b
      BY <1>3
    <3>. HIDE DEF p
    <3>2. \A x \in 1 .. c : \E k \in 1 .. c : p[k] = x
      BY <1>3, <2>1, <3>1
    <3>3. \A k \in 2 .. c : k = 2 /\ k - 1 = 1
      BY <1>3
    <3>4. \A k \in 2 .. c : s[p[k - 1]] >= s[p[k]]
      BY <2>1, <3>1, <3>3
    <3>. QED  BY <1>2, <3>1, <3>2, <3>4
  <2>2. s[1] \in Nat /\ s[2] \in Nat /\ (s[1] >= s[2] \/ s[2] >= s[1])
    BY <1>3
  <2>. QED  BY <2>1, <2>2, SMTT(30)
<1>4. CASE c = 3
  <2>1. ASSUME NEW a \in 1 .. 3, NEW b \in 1 .. 3, NEW d \in 1 .. 3,
               a # b, a # d, b # d, s[a] >= s[b], s[b] >= s[d]
        PROVE  \E p \in [1 .. c -> 1 .. c] : InOrderOf(s, p)
    <3>. DEFINE p == [k \in 1 .. 3 |-> IF k = 1 THEN a ELSE IF k = 2 THEN b ELSE d]
    <3>1. p \in [1 .. c -> 1 .. c] /\ p[1] = a /\ p[2] = b /\ p[3] = d
      BY <1>4
    <3>. HIDE DEF p
    <3>2. \A x \in 1 .. c : \E k \in 1 .. c : p[k] = x
      BY <1>4, <2>1, <3>1
    <3>3. \A k \in 2 .. c : (k = 2 /\ k - 1 = 1) \/ (k = 3 /\ k - 1 = 2)
      BY <1>4
    <3>4. \A k \in 2 .. c : s[p[k - 1]] >= s[p[k]]
      BY <2>1, <3>1, <3>3
    <3>. QED  BY <1>2, <3>1, <3>2, <3>4
  <2>2. s[1] \in Nat /\ s[2] \in Nat /\ s[3] \in Nat
    BY <1>4
  <2>3. \E a, b, d \in 1 .. 3 : a # b /\ a # d /\ b # d /\ s[a] >= s[b] /\ s[b] >= s[d]
    <3>1. 1 \in 1 .. 3 /\ 2 \in 1 .. 3 /\ 3 \in 1 .. 3
      OBVIOUS
    <3>2. CASE s[1] >= s[2] /\ s[2] >= s[3]
      BY <3>1, <3>2
    <3>3. CASE s[1] >= s[3] /\ s[3] >= s[2]
      BY <3>1, <3>3
    <3>4. CASE s[2] >= s[1] /\ s[1] >= s[3]
      BY <3>1, <3>4
    <3>5. CASE s[2] >= s[3] /\ s[3] >= s[1]
      BY <3>1, <3>5
    <3>6. CASE s[3] >= s[1] /\ s[1] >= s[2]
      BY <3>1, <3>6
    <3>7. CASE s[3] >= s[2] /\ s[2] >= s[1]
      BY <3>1, <3>7
    <3>. QED  BY <2>2, <3>2, <3>3, <3>4, <3>5, <3>6, <3>7
  <2>. QED  BY <2>1, <2>3
<1>. QED  BY <1>3, <1>4

LEMMA DescendingIs ==
  ASSUME NEW c \in {2, 3}, NEW s \in [1 .. c -> Nat]
  PROVE  /\ Descending(s) \in [1 .. c -> Nat]
         /\ {Descending(s)[k] : k \in 1 .. c} = {s[k] : k \in 1 .. c}
<1>. DEFINE p == CHOOSE q \in [1 .. c -> 1 .. c] : InOrderOf(s, q)
<1>1. p \in [1 .. c -> 1 .. c] /\ InOrderOf(s, p) /\ DOMAIN p = 1 .. c /\ DOMAIN s = 1 .. c
  BY OrderExists
<1>2. Descending(s) = [k \in 1 .. c |-> s[p[k]]]
  BY DEF Descending, InOrderOf
<1>. HIDE DEF p
<1>3. \A x \in 1 .. c : \E k \in 1 .. c : p[k] = x
  BY <1>1 DEF InOrderOf, Range
<1>4. \A k \in 1 .. c : p[k] \in 1 .. c /\ s[p[k]] \in Nat
  BY <1>1
<1>5. Descending(s) \in [1 .. c -> Nat] /\ \A k \in 1 .. c : Descending(s)[k] = s[p[k]]
  BY <1>2, <1>4
<1>6. {Descending(s)[k] : k \in 1 .. c} = {s[k] : k \in 1 .. c}
  <2>1. ASSUME NEW k \in 1 .. c PROVE \E m \in 1 .. c : Descending(s)[k] = s[m]
    BY <1>4, <1>5
  <2>2. ASSUME NEW m \in 1 .. c PROVE \E k \in 1 .. c : s[m] = Descending(s)[k]
    <3>1. PICK k \in 1 .. c : p[k] = m
      BY <1>3
    <3>. QED  BY <3>1, <1>5
  <2>. DEFINE d == Descending(s)
  <2>3. /\ \A k \in 1 .. c : \E m \in 1 .. c : d[k] = s[m]
        /\ \A m \in 1 .. c : \E k \in 1 .. c : s[m] = d[k]
    BY <2>1, <2>2
  <2>. HIDE DEF d
  <2>4. {d[k] : k \in 1 .. c} \subseteq {s[m] : m \in 1 .. c}
    <3>. SUFFICES ASSUME NEW k \in 1 .. c PROVE d[k] \in {s[m] : m \in 1 .. c}
      OBVIOUS
    <3>1. PICK m \in 1 .. c : d[k] = s[m]
      BY <2>3
    <3>. QED  BY <3>1
  <2>5. {s[m] : m \in 1 .. c} \subseteq {d[k] : k \in 1 .. c}
    <3>. SUFFICES ASSUME NEW m \in 1 .. c PROVE s[m] \in {d[k] : k \in 1 .. c}
      OBVIOUS
    <3>1. PICK k \in 1 .. c : s[m] = d[k]
      BY <2>3
    <3>. QED  BY <3>1
  <2>. QED  BY <2>4, <2>5 DEF d
<1>. QED  BY <1>5, <1>6

LEMMA CanonicalCompleted ==
  ASSUME NEW c \in {2, 3}, NEW n \in Nat \ {0}, NEW t \in Nat, NEW g, Completed(g, t, n, c)
  PROVE  Completed(Canonical(g), t, n, c)
<1>. DEFINE w == Canonical(g)
<1>1. w = [v \in 1 .. t + n |-> Descending(g[v])]
  BY DEF Completed, Canonical, Vertices
<1>2. ASSUME NEW v \in 1 .. t + n PROVE g[v] \in [1 .. c -> Nat]
  <2>1. v \in 1 .. Len(g) /\ DOMAIN g[v] = 1 .. c
    BY DEF Completed
  <2>2. g[v] \in Seq(Nat)
    BY <2>1 DEF Completed
  <2>3. g[v] = [k \in DOMAIN g[v] |-> g[v][k]] /\ \A k \in DOMAIN g[v] : g[v][k] \in Nat
    BY <2>2
  <2>. QED  BY <2>1, <2>3
<1>3. ASSUME NEW v \in 1 .. t + n
      PROVE  /\ w[v] \in [1 .. c -> Nat] /\ DOMAIN g[v] = 1 .. c
             /\ {w[v][k] : k \in 1 .. c} = {g[v][k] : k \in 1 .. c}
  <2>. DEFINE row == g[v]
  <2>1. w[v] = Descending(row)
    BY <1>1
  <2>2. row \in [1 .. c -> Nat]
    BY <1>2
  <2>. HIDE DEF row, w
  <2>3. /\ Descending(row) \in [1 .. c -> Nat]
        /\ {Descending(row)[k] : k \in 1 .. c} = {row[k] : k \in 1 .. c}
    BY <2>2, DescendingIs
  <2>. QED  BY <2>1, <2>2, <2>3 DEF row
<1>. HIDE DEF w
<1>4. ASSUME NEW v \in 1 .. t + n PROVE Fanins(w, v) = Fanins(g, v)
  <2>1. DOMAIN w[v] = 1 .. c /\ DOMAIN g[v] = 1 .. c
    BY <1>3
  <2>2. {w[v][k] : k \in 1 .. c} = {g[v][k] : k \in 1 .. c}
    BY <1>3
  <2>3. /\ Fanins(w, v) = {w[v][k] : k \in 1 .. c} \ {0}
        /\ Fanins(g, v) = {g[v][k] : k \in 1 .. c} \ {0}
    BY <2>1 DEF Fanins
  <2>. QED  BY <2>2, <2>3
<1>5. w \in Seq(Seq(Nat)) /\ Len(w) = t + n
  <2>. DEFINE S == Seq(Nat)
              l == t + n
  <2>1. \A v \in 1 .. l : w[v] \in S
    BY <1>3, RowFacts
  <2>2. l \in Nat /\ w = [v \in 1 .. l |-> w[v]]
    BY <1>1
  <2>. HIDE DEF S, l
  <2>3. w \in [1 .. l -> S]
    BY <2>1, <2>2
  <2>4. w \in Seq(S) /\ Len(w) = l
    BY <2>2, <2>3, RowFacts
  <2>. QED  BY <2>4 DEF S, l
<1>6. ASSUME NEW v \in 1 .. t, NEW k \in 1 .. c PROVE w[v][k] = 0
  <2>1. v \in 1 .. t + n /\ \A m \in 1 .. c : g[v][m] = 0
    BY DEF Completed
  <2>2. w[v][k] \in {g[v][m] : m \in 1 .. c}
    <3>1. {w[v][m] : m \in 1 .. c} = {g[v][m] : m \in 1 .. c}
      BY <2>1, <1>3
    <3>2. w[v][k] \in {w[v][m] : m \in 1 .. c}
      OBVIOUS
    <3>. QED  BY <3>1, <3>2
  <2>3. PICK m \in 1 .. c : g[v][m] = w[v][k]
    BY <2>2
  <2>. QED  BY <2>1, <2>3
<1>7. ASSUME NEW v \in t + 1 .. t + n, NEW k \in 1 .. c PROVE w[v][k] \in 1 .. v - 1
  <2>1. v \in 1 .. t + n /\ \A m \in 1 .. c : g[v][m] \in 1 .. v - 1
    BY DEF Completed
  <2>2. PICK m \in 1 .. c : g[v][m] = w[v][k]
    <3>1. {w[v][m] : m \in 1 .. c} = {g[v][m] : m \in 1 .. c}
      BY <2>1, <1>3
    <3>2. w[v][k] \in {w[v][m] : m \in 1 .. c}
      OBVIOUS
    <3>3. w[v][k] \in {g[v][m] : m \in 1 .. c}
      BY <3>1, <3>2
    <3>. QED  BY <3>3
  <2>. QED  BY <2>1, <2>2
<1>8. /\ \A v \in 1 .. t + n - 1 : \E x \in 1 .. t + n : v \in Fanins(w, x)
      /\ \A v \in 1 .. t : \A y, x \in 1 .. t + n :
           v \in Fanins(w, y) /\ v \in Fanins(w, x) => y = x
  BY <1>4 DEF Completed
<1>9. \A v \in 1 .. t + n : DOMAIN w[v] = 1 .. c
  BY <1>3
<1>10. Completed(w, t, n, c)
  BY <1>5, <1>6, <1>7, <1>8, <1>9 DEF Completed
<1>. QED  BY <1>10 DEF w

(* What holds in every state of the searches of the lists. *)
ReportsConnected ==
  SearchDone => /\ dags \in Seq(GraphOf(nrVertices)) /\ fanin \in {2, 3}
                /\ nrVertices \in Nat \ {0}
                /\ \A n \in DOMAIN dags : Connected(dags[n])

LEMMA AlwaysConnected == ListSpec => []ReportsConnected
<1>. DEFINE IInv == /\ Typed /\ CoveredMatchesSteps /\ StepsInOrder /\ ReportsRight
                    /\ ReportedGraphs
<1>1. ListInit => IInv
  BY TypedInit, CoveredInit, InOrderInit, ReportsInit, ReportedInit DEF ListInit
<1>2. IInv /\ [ListNext]_<<vars, listVars>> => IInv'
  BY ListStep, TypedStep, CoveredStep, InOrderStep, ReportsStep, ReportedStep
<1>3. IInv => ReportsConnected
  BY Parameters DEF ReportsConnected, ReportsRight, ReportedGraphs, SearchDone, Reporting
<1>. QED  BY <1>1, <1>2, <1>3, PTL DEF ListSpec

(* What the searches report, over two fanins and over three and of every   *)
(* number of vertices, is what the engines take for granted of a graph     *)
(* once add_PI_nodes has given it its inputs, and still is when initialize *)
(* has sorted the fanins.                                                  *)
THEOREM GraphsFitEngines == ListSpec => []ReportedFitEngines
<1>1. ReportsConnected => ReportedFitEngines
  <2>. SUFFICES ASSUME ReportsConnected, SearchDone, NEW i \in DOMAIN dags
                PROVE  FitsEngines(Initialized(dags[i]))
    BY DEF ReportedFitEngines
  <2>. DEFINE n == nrVertices
              h == dags[i]
              g == AddPINodes(h)
              t == Met(h, n, n + 1, 1)
              w == Canonical(g)
  <2>1. n \in Nat \ {0} /\ fanin \in {2, 3} /\ h \in GraphOf(n) /\ Connected(h)
    BY DEF ReportsConnected
  <2>. HIDE DEF n, h
  <2>2. Completed(g, t, n, fanin) /\ t \in Nat /\ Len(h) = n
    BY <2>1, AddedCompleted, MetFacts, GraphFacts
  <2>. HIDE DEF g, t
  <2>3. Completed(w, t, n, fanin) /\ fanin \in Nat \ {0}
    BY <2>1, <2>2, CanonicalCompleted
  <2>. HIDE DEF w
  <2>4. FitsEngines([vertices |-> w, gates |-> n])
    BY <2>1, <2>2, <2>3, CompletedFits
  <2>. QED  BY <2>2, <2>4 DEF Initialized, w, g, h
<1>. QED  BY <1>1, AlwaysConnected, PTL

(* Everything lies below the root of such a graph, before and after the    *)
(* fanins are sorted: the least index the walk from the root meets is that *)
(* of the first vertex (test "get_minimal_index").                         *)
RootsReachFirst ==
  SearchDone => \A n \in DOMAIN dags :
    \A g \in {AddPINodes(dags[n]), Canonical(AddPINodes(dags[n]))} :
      Cones(g)[Root(g)] = Vertices(g) /\ MinimalIndices(g)[Root(g)] = 1

THEOREM EverythingBelowTheRoot == ListSpec => []RootsReachFirst
<1>1. ReportsConnected => RootsReachFirst
  <2>. SUFFICES ASSUME ReportsConnected, SearchDone, NEW i \in DOMAIN dags,
                       NEW r \in {AddPINodes(dags[i]), Canonical(AddPINodes(dags[i]))}
                PROVE  Cones(r)[Root(r)] = Vertices(r) /\ MinimalIndices(r)[Root(r)] = 1
    BY DEF RootsReachFirst
  <2>. DEFINE n == nrVertices
              h == dags[i]
              g == AddPINodes(h)
              t == Met(h, n, n + 1, 1)
              w == Canonical(g)
  <2>1. n \in Nat \ {0} /\ fanin \in {2, 3} /\ h \in GraphOf(n) /\ Connected(h)
    BY DEF ReportsConnected
  <2>2. r = g \/ r = w
    OBVIOUS
  <2>. HIDE DEF n, h
  <2>3. Completed(g, t, n, fanin) /\ t \in Nat
    BY <2>1, AddedCompleted, MetFacts
  <2>. HIDE DEF g, t
  <2>4. Completed(w, t, n, fanin)
    BY <2>1, <2>3, CanonicalCompleted
  <2>. HIDE DEF w
  <2>5. Completed(r, t, n, fanin)
    BY <2>2, <2>3, <2>4
  <2>6. fanin \in Nat \ {0} /\ DOMAIN r = 1 .. t + n
    <3>1. fanin \in Nat \ {0}
      BY <2>1
    <3>2. r \in Seq(Seq(Nat)) /\ Len(r) = t + n
      BY <2>5 DEF Completed
    <3>. QED  BY <3>1, <3>2
  <2>7. Cones(r)[Root(r)] = 1 .. t + n /\ MinimalIndices(r)[Root(r)] = 1
    BY <2>1, <2>3, <2>5, <2>6, RootReaches
  <2>. QED  BY <2>6, <2>7 DEF Vertices
<1>. QED  BY <1>1, AlwaysConnected, PTL
=============================================================================
