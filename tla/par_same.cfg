SPECIFICATION Spec
CONSTANTS
  w1 = w1
  Workers = {w1}
  Dags <- TreeDags
  Arity <- ArityNor3
  Commutative = {4}
  Idempotent = {4}
  SameGate = {4}
  RootSymbols = {1, 2, 3, 4}
  Minterms <- MCMinterms3
  NodeOperation <- MCNodeOperation3
  Pattern <- Tree3
  Goals <- NoGoal
PROPERTY
  SkipsOnlyDuplicates
