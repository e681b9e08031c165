-------------------------- MODULE MCHandlerLocks --------------------------
(* Instances of HandlerLocks for TLC.                                       *)
EXTENDS HandlerLocks

CONSTANTS h1, h2, a   \* model values

TwoHandlers == {h1, h2}
OneDoc      == {a}

BothWorkers == {"reload", "refresh"}
OnlyReload  == {"reload"}

AllRequests == Programs
\* nobody asks for the workspace exclusively
NoWriters   == Programs \ {DidChangeWorkspaceFolders}
=============================================================================
