SPECIFICATION Spec
CONSTANTS
  n1 = n1
  n2 = n2
  n3 = n3
  None = None
  Names <- TwoNames
  DocumentChanges = TRUE
  MidRename <- Anything
  MaxVersion = 3
  MaxEdition = 2
\* Each of them has a counterexample, when it is checked by itself; so it has
\* with Typing or MigrationReloads, and NeverMerges with DatabaseReloads.
PROPERTIES NeverMerges ReferencesStayDefined
INVARIANT NeverRenamesDatabaseObjects
\* The bounds on versions and editions are used up in the end.
CHECK_DEADLOCK FALSE
