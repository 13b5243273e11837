---------------------------- MODULE MCSequential ----------------------------
(***************************************************************************)
(* Instances of SequentialEnumerator: functions of two inputs.             *)
(***************************************************************************)
EXTENDS SequentialEnumerator

(* Symbols: 1 = A, 2 = B, 3 = And_T_FF; 4 = And where a grammar has it. *)
ArityAndNor == <<0, 0, 2, 2>>

MCMinterms == 0 .. 3

MCNodeOperation(s, t) ==
  CASE s = 1 -> {1, 3}
    [] s = 2 -> {2, 3}
    [] s = 3 -> MCMinterms \ (t[1] \cup t[2])
    [] s = 4 -> t[1] \cap t[2]

(* A generated graph as the engine gets it. *)
Initialized(h) == [vertices |-> Canonical(AddPINodes(h)), gates |-> Len(h)]

Input == [vertices |-> <<<<0, 0>>>>, gates |-> 0]
Gate == Initialized(<<<<0, 0>>>>)
Chain2 == Initialized(<<<<0, 0>>, <<0, 1>>>>)
Tree3 == Initialized(<<<<0, 0>>, <<0, 0>>, <<1, 2>>>>)
Chain3 == Initialized(<<<<0, 0>>, <<0, 1>>, <<0, 2>>>>)
Shared3 == Initialized(<<<<0, 0>>, <<0, 1>>, <<1, 2>>>>)
Diamond4 == Initialized(<<<<0, 0>>, <<0, 1>>, <<0, 1>>, <<2, 3>>>>)
Tree4 == Initialized(<<<<0, 0>>, <<0, 0>>, <<1, 2>>, <<0, 3>>>>)
Diamond5 == Initialized(<<<<0, 0>>, <<0, 1>>, <<0, 1>>, <<2, 3>>, <<0, 4>>>>)

(* Functions of three inputs, And_T_FF the only gate. *)
ArityNor3 == <<0, 0, 0, 2>>
MCMinterms3 == 0 .. 7
MCNodeOperation3(s, t) ==
  CASE s = 1 -> {1, 3, 5, 7}
    [] s = 2 -> {2, 3, 6, 7}
    [] s = 3 -> {4, 5, 6, 7}
    [] s = 4 -> MCMinterms3 \ (t[1] \cup t[2])


DiamondDags == <<Gate, Chain2, Diamond4, Diamond5>>

(* The gates of the AIG grammar over two inputs: And, And_T_FT, And_T_FF,  *)
(* And_T_TF.                                                               *)
ArityAig == <<0, 0, 2, 2, 2, 2>>
AigGates == {3, 4, 5, 6}
AigOperation(s, t) ==
  CASE s = 1 -> {1, 3}
    [] s = 2 -> {2, 3}
    [] s = 3 -> t[1] \cap t[2]
    [] s = 4 -> t[2] \ t[1]
    [] s = 5 -> MCMinterms \ (t[1] \cup t[2])
    [] s = 6 -> t[1] \ t[2]

ClientDags == <<Input, Gate, Diamond4, Chain2>>
SmallDags == <<Input, Gate, Chain2, Tree3, Chain3, Shared3, Diamond4>>
=============================================================================
