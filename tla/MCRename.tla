------------------------------ MODULE MCRename ------------------------------
(* Instances of Rename for TLC.                                             *)
EXTENDS Rename, TLC

CONSTANTS n1, n2, n3   \* model values

TwoNames   == {n1, n2}
ThreeNames == {n1, n2, n3}

Elsewhere == {"others", "reload"}
Anything  == Events
\* each of them refutes a property by itself
Typing           == {"change"}
MigrationReloads == {"migrate", "reload"}
DatabaseReloads  == {"database", "reload"}

NameSymmetry == Permutations(Names)
=============================================================================
