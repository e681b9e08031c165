SPECIFICATION Spec
CONSTANTS
  q1 = q1
  q2 = q2
  Nothing = Nothing
  Files <- OneFile
  Clients <- OnlyPushed
  SendsYield = FALSE
  Calm <- NotOpens
  Verdicts <- AllVerdicts
  MaxEdition = 2
  MaxSchema = 0
INVARIANT OpenShowsItsText
\* The bounds on editions and schemas are used up in the end.
CHECK_DEADLOCK FALSE
