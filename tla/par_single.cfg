SPECIFICATION Spec
CONSTANTS
  w1 = w1
  Workers = {w1}
  Dags <- AllDags
  Arity <- ArityAndNor
  Commutative = {3, 4}
  Idempotent = {3, 4}
  SameGate = {}
  RootSymbols = {1, 2, 3, 4}
  Minterms <- MCMinterms
  NodeOperation <- MCNodeOperation
  Pattern <- Tree3
  Goals <- SomeGoals
INVARIANTS
  KnownSizeIsMinimal
  FiledUnderOwnGraph
  ExhaustionCovers
PROPERTY
  SkipsOnlyDuplicates
