SPECIFICATION Spec
CONSTANTS
  w1 = w1
  w2 = w2
  Workers = {w1, w2}
  Dags <- TreeDags
  Arity <- ArityNor3
  Commutative = {4}
  Idempotent = {4}
  SameGate = {}
  RootSymbols = {1, 2, 3, 4}
  Minterms <- MCMinterms3
  NodeOperation <- MCNodeOperation3
  Pattern <- Tree3
  Goals <- NoGoal
PROPERTY
  OwnJumpsSkipDuplicates
