SPECIFICATION Spec
CONSTANTS
  w1 = w1
  w2 = w2
  Workers = {w1, w2}
  Dags <- FileDags
  Arity <- ArityAndNor
  Commutative = {3, 4}
  Idempotent = {3, 4}
  SameGate = {}
  RootSymbols = {1, 2, 3, 4}
  Minterms <- MCMinterms
  NodeOperation <- MCNodeOperation
  Pattern <- Tree3
  Goals <- NoGoal
INVARIANT
  FiledUnderOwnGraph
