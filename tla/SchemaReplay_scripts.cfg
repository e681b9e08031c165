SPECIFICATION Spec
CONSTANTS
  t = t
  u = u
  v = v
  a = a
  b = b
  Names <- ThreeNames
  ColumnNames <- TwoColumns
  Statements <- NoJoins
  MaxSteps = 4
  MaxColumns = 2
SYMMETRY NameSymmetry
INVARIANT TypeOK
PROPERTIES RelationsAreNotLost SupportedStatementsKeepTheMatch SupportedStatementsKeepLocations
\* A script has an end.
CHECK_DEADLOCK FALSE
