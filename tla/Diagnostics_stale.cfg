SPECIFICATION Spec
CONSTANTS
  q1 = q1
  q2 = q2
  Nothing = Nothing
  Files <- OneFile
  Clients <- OnlyPushed
  SendsYield = FALSE
  Calm <- OnlyBuffers
  Verdicts <- BufferVerdicts
  MaxEdition = 1
  MaxSchema = 1
INVARIANT OpenShowsCurrent
\* The bounds on editions and schemas are used up in the end.
CHECK_DEADLOCK FALSE
