SPECIFICATION Spec
CONSTANTS
  q1 = q1
  q2 = q2
  Nothing = Nothing
  Files <- OneFile
  Clients <- PushedOrPolling
  SendsYield = TRUE
  Calm <- OnlyBuffers
  Verdicts <- SomeVerdicts
  MaxEdition = 2
  MaxSchema = 1
INVARIANTS TypeOK OpenShowsItsText
PROPERTIES SchemaReachesOpenDocuments PollsSettle
\* The bounds on editions and schemas are used up in the end.
CHECK_DEADLOCK FALSE
