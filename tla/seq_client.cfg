SPECIFICATION Spec
CONSTANTS
  Dags <- ClientDags
  Arity <- ArityAig
  Commutative <- AigGates
  Idempotent <- AigGates
  RootSymbols <- AigGates
  Minterms <- MCMinterms
  NodeOperation <- AigOperation
  CallbackTasks = {"Nothing", "NextDag", "NextAssignment", "StopEnumeration", "DoNotIncrease"}
INVARIANTS
  TypeOK
  CacheCoherent
  MapsFresh
  ReportedIsCurrent
  PendingRequestFirst
