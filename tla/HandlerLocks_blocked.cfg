SPECIFICATION Spec
CONSTANTS
  h1 = h1
  h2 = h2
  a = a
  None = None
  Handlers <- TwoHandlers
  Workers <- OnlyReload
  Docs <- OneDoc
  Requests <- NoWriters
PROPERTY DocumentsAreSynchronized
\* The serving task's thread is blocked for good in the end.
CHECK_DEADLOCK FALSE
