SPECIFICATION Spec
CONSTANTS
  postgres = postgres
  sqlite = sqlite
  None = None
  Encodings <- MCEncodings
  Kinds <- MCKinds
  Extension = "sql"
  Contents <- MCContents
  Inserts <- MCInserts
  Unannounced = TRUE
  Budgets <- MCEditing
  MaxBatch = 2
  MaxChannel = 2
SYMMETRY MCSymmetry
INVARIANT TextIsTheClients
\* The client may stop.
CHECK_DEADLOCK FALSE
