--------------------------- MODULE MCDiagnostics ---------------------------
(* Instances of Diagnostics for TLC.                                        *)
EXTENDS Diagnostics

CONSTANTS q1, q2   \* model values

OneFile  == {q1}
TwoFiles == {q1, q2}

OnlyPushed      == {"pushed"}
OnlyPulling     == {"pulling"}
PushedOrPolling == {"pushed", "polling"}

AllEvents     == Events
NotOpens      == Events \ {"open"}
NotCloses     == Events \ {"close"}
OnlyDiskMoves == Events \ {"save", "checkout"}
OnlyBuffers   == {"open", "checkout"}

\* any edition may have findings under any schema
AllVerdicts == SUBSET (Editions \X Schemas)
\* the text or the schema decides
SomeVerdicts == {{<<0, 0>>, <<1, 0>>, <<1, 1>>}, {<<1, 0>>, <<2, 1>>},
                 {<<0, 1>>, <<1, 1>>, <<2, 0>>}}
\* the text on disk never has any
BufferVerdicts == SUBSET ((Editions \ {0}) \X Schemas)
=============================================================================
