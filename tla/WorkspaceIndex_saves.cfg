SPECIFICATION Spec
CONSTANTS
  d1 = d1
  d2 = d2
  f1 = f1
  Absent = Absent
  Folders <- MCFolders
  QueryFiles <- MCQueryFiles
  Home <- MCHome
  CustomFolders <- NoSources
  InitialFolders <- MCFolders
  Saves <- AllSources
  Batches <- NoBatches
  FolderEdits = FALSE
  UnwatchedChanges = FALSE
  QuietLoads = FALSE
  DynamicRegistration = TRUE
  MaxEdition = 1
INVARIANTS TypeOK NoLostReload ReadingsAreTracked
PROPERTIES EditsAreServed ImplementsPromise
\* Once the edits are used up everything settles and nothing is left to do.
CHECK_DEADLOCK FALSE
