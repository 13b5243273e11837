SPECIFICATION Spec
CONSTANTS
  w1 = w1
  w2 = w2
  Workers = {w1, w2}
  Dags <- GateAndChain
  Arity <- ArityNor
  Commutative = {3}
  Idempotent = {3}
  SameGate = {}
  RootSymbols = {1, 2, 3}
  Minterms <- MCMinterms
  NodeOperation <- MCNodeOperation
  Pattern <- Tree3
  Goals <- NoGoal
INVARIANT
  KnownSizeIsMinimal
