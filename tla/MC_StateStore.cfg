SPECIFICATION Spec
CONSTANTS
  Clients = {c1, c2}
  Rows <- MCRows
  MaxOps = 3
  MaxCrashes = 1
SYMMETRY ClientSymmetry
INVARIANTS
  TypeOK
  OneDatabase
  AnswersTrue
  FindsWhatIsKnown
  CleansUp
PROPERTIES
  RefusedOnlyForTheRow
CHECK_DEADLOCK FALSE
