SPECIFICATION Spec
CONSTANTS
  postgres = postgres
  sqlite = sqlite
  None = None
  Encodings <- MCEncodings
  Kinds <- MCKinds
  Extension = "sql"
  Contents <- MCContents
  Inserts <- MCInserts
  Unannounced = FALSE
  Budgets <- MCBudgets
  MaxBatch = 2
  MaxChannel = 2
SYMMETRY MCSymmetry
INVARIANTS TypeOK TextIsTheClients TreeFitsTheText TokensAreTheTexts
  AnswersFitTheText
\* The client may stop.
CHECK_DEADLOCK FALSE
