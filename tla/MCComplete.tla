----------------------------- MODULE MCComplete -----------------------------
(***************************************************************************)
(* The instance on which the truth tables cost no function: it has what    *)
(* the theorem about that asks for, and formulas that may be skipped.      *)
(***************************************************************************)
EXTENDS MCSequential, Pruning

ASSUME CompleteAssumption ==
  PatientClient /\ GrowingSizes /\ RootReachesFirst /\ Replaceable

ASSUME SkipsAssumption ==
  \E d \in Graphs : \E a \in Readings(PossibleOf[d]) :
    NoDuplicate(d, a) /\ MayBeSkipped(d, a)
=============================================================================
