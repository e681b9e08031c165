SPECIFICATION Spec
CONSTANTS
  d1 = d1
  d2 = d2
  f1 = f1
  Absent = Absent
  Folders <- MCFolders
  QueryFiles <- MCQueryFiles
  Home <- MCHome
  CustomFolders <- NoSources
  InitialFolders <- MCFolders
  Saves <- NoSources
  Batches <- SingleFiles
  FolderEdits = TRUE
  UnwatchedChanges = FALSE
  QuietLoads = TRUE
  DynamicRegistration = TRUE
  MaxEdition = 2
INVARIANTS SettledQueryIndex SettledSchema
\* Once the edits are used up everything settles and nothing is left to do.
CHECK_DEADLOCK FALSE
