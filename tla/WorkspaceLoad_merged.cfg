SPECIFICATION Spec
CONSTANTS
  top = top
  a = a
  b = b
  tm = tm
  am = am
  bm = bm
  shared = shared
  t = t
  u = u
  None = None
  Dirs <- MCDirs
  Ancestors <- MCAncestors
  Names <- MCNames
  Backends <- MCBackends
  Panics = FALSE
  Sites <- OneDatabase
INVARIANT MigrationsWin
\* A load has an end.
CHECK_DEADLOCK FALSE
