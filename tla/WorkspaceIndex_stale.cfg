SPECIFICATION Spec
CONSTANTS
  d1 = d1
  d2 = d2
  f1 = f1
  Absent = Absent
  Folders <- MCFolders
  QueryFiles <- MCQueryFiles
  Home <- MCHome
  CustomFolders <- NoSources
  InitialFolders <- JustFolder
  Saves <- JustQuery
  Batches <- NoBatches
  FolderEdits = FALSE
  UnwatchedChanges = FALSE
  QuietLoads = FALSE
  DynamicRegistration = FALSE
  MaxEdition = 1
INVARIANT SettledQueryIndex
\* Once the edits are used up everything settles and nothing is left to do.
CHECK_DEADLOCK FALSE
