SPECIFICATION ListSpec
CONSTANTS
  GenTypes = {"NOREAPPLY"}
  FaninCounts = {2, 3}
  MaxVertices <- MCMaxVertices
INVARIANT
  NoReapplication
