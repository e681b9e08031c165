SPECIFICATION Spec
CONSTANTS
  d1 = d1
  d2 = d2
  f1 = f1
  Absent = Absent
  Folders <- MCFolders
  QueryFiles <- MCQueryFiles
  Home <- MCHome
  CustomFolders <- NoSources
  InitialFolders <- JustFolder
  Saves <- NoSources
  Batches <- SchemaBatch
  FolderEdits = FALSE
  UnwatchedChanges = TRUE
  QuietLoads = FALSE
  DynamicRegistration = TRUE
  MaxEdition = 1
INVARIANT SettledSchema
\* Once the edits are used up everything settles and nothing is left to do.
CHECK_DEADLOCK FALSE
