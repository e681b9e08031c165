SPECIFICATION Spec
CONSTANTS
  h1 = h1
  h2 = h2
  a = a
  None = None
  Handlers <- TwoHandlers
  Workers <- BothWorkers
  Docs <- OneDoc
  Requests <- AllRequests
INVARIANTS TypeOK OnlyEditsDeadlock
PROPERTY EverythingFinishes
\* A change of a document may block the serving task's thread for good.
CHECK_DEADLOCK FALSE
