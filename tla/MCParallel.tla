----------------------------- MODULE MCParallel -----------------------------
(***************************************************************************)
(* Instances of ParallelEnumerator: functions of two inputs.  Symbols:     *)
(* 1 = A, 2 = B, 3 = And_T_FF, 4 = And where a grammar has it.             *)
(***************************************************************************)
EXTENDS ParallelEnumerator

ArityNor == <<0, 0, 2>>
ArityAndNor == <<0, 0, 2, 2>>
MCMinterms == 0 .. 3
MCNodeOperation(s, t) ==
  CASE s = 1 -> {1, 3}
    [] s = 2 -> {2, 3}
    [] s = 3 -> MCMinterms \ (t[1] \cup t[2])
    [] s = 4 -> t[1] \cap t[2]

(* Functions of three inputs, And_T_FF the only gate.                      *)
ArityNor3 == <<0, 0, 0, 2>>
MCMinterms3 == 0 .. 7
MCNodeOperation3(s, t) ==
  CASE s = 1 -> {1, 3, 5, 7}
    [] s = 2 -> {2, 3, 6, 7}
    [] s = 3 -> {4, 5, 6, 7}
    [] s = 4 -> MCMinterms3 \ (t[1] \cup t[2])

Gate == AddPINodes(<<<<0, 0>>>>)
Chain2 == AddPINodes(<<<<0, 0>>, <<0, 1>>>>)
Tree3 == AddPINodes(<<<<0, 0>>, <<0, 0>>, <<1, 2>>>>)
Chain3 == AddPINodes(<<<<0, 0>>, <<0, 1>>, <<0, 2>>>>)
Tree4 == AddPINodes(<<<<0, 0>>, <<0, 0>>, <<1, 2>>, <<0, 3>>>>)

SkipDags == <<Chain2>>
TreeDags == <<Tree3>>
GateAndChain == <<Gate, Chain3>>
FileDags == <<Gate, Tree3, Gate>>
AllDags == <<Gate, Chain2, Tree3, Tree4>>
(* Nothing found, found early and by several formulas, found late. *)
SomeGoals == {{0, 1, 2, 3}, {2}, {3}}
(* Nothing found, found in both graphs (so that two workers may find it at *)
(* once), found late.                                                      *)
SharedGoals == {{0, 1, 2, 3}, {0}, {0, 2}}
NoGoal == {{0, 1, 2}}
=============================================================================
