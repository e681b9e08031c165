SPECIFICATION Spec
CONSTANTS
  t = t
  u = u
  v = v
  a = a
  b = b
  Names <- ThreeNames
  ColumnNames <- TwoColumns
  Statements <- Joins
  MaxSteps = 3
  MaxColumns = 2
SYMMETRY NameSymmetry
INVARIANT LocationsAreDefinitions
\* A script has an end.
CHECK_DEADLOCK FALSE
