SPECIFICATION Spec
CONSTANTS
  Dags <- DiamondDags
  Arity <- ArityNor3
  Commutative = {4}
  Idempotent = {4}
  RootSymbols = {1, 2, 3, 4}
  Minterms <- MCMinterms3
  NodeOperation <- MCNodeOperation3
  CallbackTasks = {"Nothing"}
INVARIANT
  CoiRejectsNonMinimal
