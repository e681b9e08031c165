--------------------------- MODULE MCSchemaReplay ---------------------------
(* Instances of SchemaReplay for TLC.                                       *)
EXTENDS SchemaReplay, TLC

CONSTANTS t, u, v, a, b   \* model values

TwoNames    == {t, u}
ThreeNames  == {t, u, v}
TwoColumns  == {a, b}

NoJoins    == Kinds \ {"join"}
Joins      == {"create", "create_as", "join"}
Unread     == {"create", "create_as"} \cup Leaving
Misreads   == {"create", "create_as"} \cup Misread

NameSymmetry == Permutations(Names) \cup Permutations(ColumnNames)
=============================================================================
