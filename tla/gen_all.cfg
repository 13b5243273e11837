SPECIFICATION ListSpec
CONSTANTS
  GenTypes = {"TUPLES", "CONNECTED", "COLEX", "NOREAPPLY"}
  FaninCounts = {2, 3}
  MaxVertices <- MCMaxVertices
INVARIANTS
  TypeOK
  CoveredMatchesSteps
  CountsAll
  ReportsOnce
  FiltersAgree
  TreesAreKept
  FileReadsBack
  AddedAreMissing
  ListsAddTheSame
  InsertionAsDefined
  ReportedFitEngines
  ListFitsEngines
PROPERTY
  ListsDone
