SPECIFICATION FairSpec
CONSTANTS
  Dags <- SmallDags
  Arity <- ArityAndNor
  Commutative = {3, 4}
  Idempotent = {3, 4}
  RootSymbols = {1, 2, 3, 4}
  Minterms <- MCMinterms
  NodeOperation <- MCNodeOperation
  CallbackTasks = {"Nothing"}
INVARIANTS
  TypeOK
  CacheCoherent
  MapsFresh
  ReportedCone
  ReportedIsCurrent
  PruningLosesNothing
PROPERTIES
  SkipsOnlyDispensable
  Terminates
  HandsOutOnce
