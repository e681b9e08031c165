------------------------- MODULE MCWorkspaceIndex -------------------------
(* Instances of WorkspaceIndex for TLC: two folders, one query file in the   *)
(* first.                                                                   *)
EXTENDS WorkspaceIndex, TLC

CONSTANTS d1, d2, f1   \* model values

MCFolders    == {d1, d2}
MCQueryFiles == {f1}
MCHome       == (f1 :> d1)

NoSources   == {}
AllSources  == MCFolders \cup MCQueryFiles
JustFolder  == {d1}
JustQuery   == {f1}
NoBatches   == {}
\* a checkout touches a migration, a query, or both in one batch
Checkouts   == {{d1}, {f1}, {d1, f1}}
SchemaBatch == {{d1}}
SingleFiles == {{d1}, {f1}}
=============================================================================
