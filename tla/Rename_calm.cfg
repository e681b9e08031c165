SPECIFICATION Spec
CONSTANTS
  n1 = n1
  n2 = n2
  n3 = n3
  None = None
  Names <- ThreeNames
  DocumentChanges = TRUE
  MidRename <- Elsewhere
  MaxVersion = 2
  MaxEdition = 1
SYMMETRY NameSymmetry
INVARIANTS TypeOK NeverRenamesDatabaseObjects
PROPERTIES NeverMerges ReferencesStayDefined AppliedToTheTextSearched
\* The bounds on versions and editions are used up in the end.
CHECK_DEADLOCK FALSE
