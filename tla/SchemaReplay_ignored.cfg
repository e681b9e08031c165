SPECIFICATION Spec
CONSTANTS
  t = t
  u = u
  v = v
  a = a
  b = b
  Names <- TwoNames
  ColumnNames <- TwoColumns
  Statements <- Unread
  MaxSteps = 3
  MaxColumns = 2
SYMMETRY NameSymmetry
\* With Statements <- Misreads, ExistingAreKnown is refuted too.
INVARIANT IndexMatchesDatabase
\* A script has an end.
CHECK_DEADLOCK FALSE
