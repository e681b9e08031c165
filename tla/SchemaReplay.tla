---------------------------- MODULE SchemaReplay ----------------------------
(***************************************************************************)
(* Replaying the DDL of the migrations into the schema index                *)
(* (src/src/schema/ddl.rs, src/src/schema/mod.rs), beside a database that   *)
(* runs the same statements.  The index need not understand SQL as a        *)
(* database does; what it has to get right for scripts that a database      *)
(* accepts is which relations there are, which columns they have, and which *)
(* statement each name was given by: that is what completion, diagnostics,  *)
(* goto-definition and rename answer from.                                  *)
(*                                                                          *)
(* A script is a sequence of statements, numbered by `step`, which stands   *)
(* for the place in the sources.  A name stands for a relation of the schema *)
(* the queries use, in all its spellings in upper and lower case; what other *)
(* relations share it with, such as archive.n and n, is in the kind "other".*)
(* Types, defaults and constraints are left out, and so is CREATE TABLE ...  *)
(* LIKE, whose columns the index does not have.                             *)
(***************************************************************************)
EXTENDS Naturals, Sequences, SequencesExt

CONSTANTS
    Names,        \* names of relations
    ColumnNames,  \* names of columns
    Statements,   \* the kinds of statement in the scripts
    MaxSteps,     \* bound on the statements of a script
    MaxColumns    \* bound on the columns of a relation

(* Statements that the index follows, ones that leave too much in it, and ones *)
(* that leave too little.                                                   *)
Followed == {"create", "replace", "create_as", "drop", "add", "drop_column",
             "rename_column", "rename", "join"}
Leaving  == {"drop_materialized", "drop_cascade", "change_column"}
Misread  == {"create_ignored", "rename_ignored", "other"}
Kinds    == Followed \cup Leaving \cup Misread

ASSUME ReplayAssumption ==
    /\ Statements \subseteq Kinds
    /\ MaxSteps \in Nat
    /\ MaxColumns \in Nat

VARIABLES
    step,      \* the statements applied so far
    tables,    \* Schema::tables, keyed by the lower-cased name
    database   \* the relations of the database

vars == <<step, tables, database>>

(* A column, a relation of the index, and one of the database, which also     *)
(* knows what it depends on.  `at` is the statement that names it.           *)
Columns == [name : ColumnNames, at : 0..MaxSteps]
TableRecords == [kind : {"table", "view"}, columns : Seq(Columns), at : 1..MaxSteps]
Relations == [kind : {"table", "view", "materialized"}, columns : Seq(Columns),
              at : 1..MaxSteps, uses : SUBSET Names]

ColumnSet(r)   == {r.columns[i].name : i \in DOMAIN r.columns}
HasColumn(r, c) == c \in ColumnSet(r)

(* Table::column: the first one of that name.                                *)
Position(r, c)    == Min({i \in DOMAIN r.columns : r.columns[i].name = c})
ColumnNamed(r, c) == r.columns[Position(r, c)]

(* Vec::retain: the columns that have another name, in their order.           *)
Retained(columns, c) ==
    LET retained[i \in 0..Len(columns)] ==
          IF i = 0 THEN <<>>
          ELSE IF columns[i].name = c THEN retained[i - 1]
          ELSE Append(retained[i - 1], columns[i])
    IN  retained[Len(columns)]

Named(columns) == [i \in DOMAIN columns |-> [name |-> columns[i], at |-> step']]

TypeOK ==
    /\ step \in 0..MaxSteps
    /\ DOMAIN tables \subseteq Names
    /\ \A n \in DOMAIN tables : tables[n] \in TableRecords
    /\ DOMAIN database \subseteq Names
    /\ \A n \in DOMAIN database :
         /\ database[n] \in Relations
         /\ Len(database[n].columns) <= MaxColumns
         /\ database[n].uses \subseteq DOMAIN database \ {n}
         /\ database[n].kind = "table" => database[n].uses = {}

Init == /\ step = 0
        /\ tables = <<>>
        /\ database = <<>>

Statement(kind) == /\ kind \in Statements
                   /\ step < MaxSteps
                   /\ step' = step + 1
-----------------------------------------------------------------------------
(* Maps of relations by name, and the two ways in which they change.         *)
Put(map, n, r) ==
    [m \in DOMAIN map \cup {n} |-> IF m = n THEN r ELSE map[m]]
Without(map, removed) == Restrict(map, DOMAIN map \ removed)
-----------------------------------------------------------------------------
(* What the index does with a statement.                                     *)
InsertTable(n, kind, columns) ==
    tables' = Put(tables, n, [kind |-> kind, columns |-> columns, at |-> step'])

(* Faulty variant: the existing definition is replaced.                      *)
ApplyCreateAnyway(n, kind, columns, ifNotExists) ==
    InsertTable(n, kind, columns)

(* apply_create_table and apply_create_view.                                 *)
ApplyCreate(n, kind, columns, ifNotExists) ==
    IF ifNotExists /\ n \in DOMAIN tables
    THEN UNCHANGED tables
    ELSE InsertTable(n, kind, columns)

(* derive_query_columns: a wildcard stands for the columns of every known     *)
(* relation of the FROM clause, a column for that of the first one with such.*)
DeriveWildcard(from) ==
    FlattenSeq([i \in DOMAIN from |->
                  IF from[i] \in DOMAIN tables THEN tables[from[i]].columns
                  ELSE <<>>])

DeriveColumn(from, c) ==
    LET having == {i \in DOMAIN from : /\ from[i] \in DOMAIN tables
                                       /\ HasColumn(tables[from[i]], c)}
    IN  IF having = {} THEN <<[name |-> c, at |-> 0]>>
        ELSE <<ColumnNamed(tables[from[Min(having)]], c)>>

(* DROP TABLE and DROP VIEW.                                                 *)
ApplyDrop(n) == tables' = Without(tables, {n})

(* A statement that apply_statement has no arm for, or that does not parse.    *)
Ignore == UNCHANGED tables

(* apply_alter_table on a relation that the index has.                       *)
ApplyAlter(n, change(_)) ==
    tables' = IF n \in DOMAIN tables
              THEN [tables EXCEPT ![n] = change(tables[n])] ELSE tables

(* Faulty variant: the name is stored in place of the column.                *)
AddColumnName(r, c, ifNotExists) == [r EXCEPT !.columns = Append(@, c)]

AddColumn(r, c, ifNotExists) ==
    IF ifNotExists /\ HasColumn(r, c) THEN r
    ELSE [r EXCEPT !.columns = Append(@, [name |-> c, at |-> step'])]

DropColumn(r, c) == [r EXCEPT !.columns = Retained(@, c)]

RenameColumn(r, old, new) ==
    IF ~HasColumn(r, old) THEN r
    ELSE [r EXCEPT !.columns[Position(r, old)] = [name |-> new, at |-> step']]

(* Faulty variants: the table is taken out and not put back, and it keeps its  *)
(* location.                                                                *)
ApplyRenameLosing(n, m) == tables' = Without(tables, {n})

ApplyRenameInPlace(n, m) ==
    tables' = IF n \in DOMAIN tables
              THEN Put(Without(tables, {n}), m, tables[n]) ELSE tables

ApplyRename(n, m) ==
    tables' = IF n \in DOMAIN tables
              THEN Put(Without(tables, {n}), m, [tables[n] EXCEPT !.at = step'])
              ELSE tables
-----------------------------------------------------------------------------
(* What a database does with it, if it accepts it.                           *)
Exists(n)  == n \in DOMAIN database
IsTable(n) == Exists(n) /\ database[n].kind = "table"
Users(n)   == {v \in DOMAIN database : n \in database[v].uses}
Unused(n)  == Users(n) = {}
Distinct(columns) ==
    \A i, j \in DOMAIN columns : columns[i].name = columns[j].name => i = j

Store(n, kind, columns, uses) ==
    database' = Put(database, n, [kind |-> kind, columns |-> columns,
                                  at |-> step', uses |-> uses])

(* A relation, the views that use it, those that use them, and so on: what is *)
(* in every set that has the relation and the users of its members.          *)
Closed(S) == \A v \in DOMAIN database : database[v].uses \cap S # {} => v \in S
Dependents(n) ==
    {v \in DOMAIN database :
       \A S \in SUBSET DOMAIN database : n \in S /\ Closed(S) => v \in S}
-----------------------------------------------------------------------------
(* The column lists of the scripts.                                          *)
ColumnLists ==
    {s \in UNION {[1..k -> ColumnNames] : k \in 1..MaxColumns} :
       \A i, j \in DOMAIN s : s[i] = s[j] => i = j}

(* The relation follows its new name, and the views that use it do.           *)
RenamedRelation(n, m) ==
    /\ Exists(n)
    /\ ~Exists(m)
    /\ LET follow(r) == IF n \in r.uses
                        THEN [r EXCEPT !.uses = (@ \ {n}) \cup {m}] ELSE r
           others == Without(database, {n})
       IN  database' = Put([v \in DOMAIN others |-> follow(others[v])], m,
                           [database[n] EXCEPT !.at = step'])
-----------------------------------------------------------------------------
(* The statements.                                                          *)
CreateTable(n, columns, ifNotExists) ==
    /\ Statement("create")
    /\ IF Exists(n)
       THEN ifNotExists /\ UNCHANGED database
       ELSE Store(n, "table", Named(columns), {})
    /\ ApplyCreate(n, "table", Named(columns), ifNotExists)

(* CREATE OR REPLACE of a table or a view that no view uses.  Of a name that   *)
(* is free it does what CREATE does.                                        *)
ReplaceTable(n, columns) ==
    /\ Statement("replace")
    /\ IsTable(n)
    /\ Unused(n)
    /\ Store(n, "table", Named(columns), {})
    /\ ApplyCreate(n, "table", Named(columns), FALSE)

ReplaceView(n, columns, m) ==
    /\ Statement("replace")
    /\ Exists(n)
    /\ database[n].kind = "view"
    /\ Unused(n)
    /\ Exists(m)
    /\ m # n
    /\ Len(database[m].columns) = Len(columns)
    /\ Store(n, "view", Named(columns), {m})
    /\ ApplyCreate(n, "view", Named(columns), FALSE)

(* CREATE VIRTUAL TABLE, SELECT ... INTO, or a CREATE that does not parse.     *)
CreateIgnored(n, columns) ==
    /\ Statement("create_ignored")
    /\ ~Exists(n)
    /\ Store(n, "table", Named(columns), {})
    /\ Ignore

(* CREATE TABLE and CREATE [MATERIALIZED] VIEW, AS SELECT * FROM ...          *)
IndexKind(kind) == IF kind = "table" THEN "table" ELSE "view"
UsesOf(kind, from) == IF kind = "table" THEN {} ELSE ToSet(from)

CreateAsWildcard(n, kind, from) ==
    /\ Statement("create_as")
    /\ ~Exists(n)
    /\ \A i \in DOMAIN from : Exists(from[i])
    /\ LET columns == FlattenSeq([i \in DOMAIN from |-> database[from[i]].columns])
       IN  /\ Distinct(columns)
           /\ Len(columns) <= MaxColumns
           /\ Store(n, kind, columns, UsesOf(kind, from))
    /\ ApplyCreate(n, IndexKind(kind), DeriveWildcard(from), FALSE)

(* ... AS SELECT m.c FROM ..., where m is one of the relations of the FROM    *)
(* clause.  Unless the script has joins it is the only one with the column.  *)
CreateAsColumn(n, kind, from, m, c) ==
    /\ Statement("create_as")
    /\ ~Exists(n)
    /\ m \in ToSet(from)
    /\ \A i \in DOMAIN from : /\ Exists(from[i])
                              /\ "join" \in Statements \/ from[i] = m
                                   \/ ~HasColumn(database[from[i]], c)
    /\ HasColumn(database[m], c)
    /\ Store(n, kind, <<ColumnNamed(database[m], c)>>, UsesOf(kind, from))
    /\ ApplyCreate(n, IndexKind(kind), DeriveColumn(from, c), FALSE)

(* CREATE VIEW n (columns) AS ...                                            *)
CreateView(n, columns, m) ==
    /\ Statement("create_as")
    /\ ~Exists(n)
    /\ Exists(m)
    /\ Len(database[m].columns) = Len(columns)
    /\ Store(n, "view", Named(columns), {m})
    /\ ApplyCreate(n, "view", Named(columns), FALSE)

(* DROP TABLE n, DROP VIEW n, with IF EXISTS.                                *)
Drop(n) ==
    /\ Statement("drop")
    /\ Exists(n) => database[n].kind # "materialized"
    /\ Unused(n)
    /\ database' = Without(database, {n})
    /\ ApplyDrop(n)

DropMaterialized(n) ==
    /\ Statement("drop_materialized")
    /\ Exists(n)
    /\ database[n].kind = "materialized"
    /\ Unused(n)
    /\ database' = Without(database, {n})
    /\ Ignore

(* DROP TABLE n CASCADE                                                      *)
DropCascade(n) ==
    /\ Statement("drop_cascade")
    /\ Exists(n)
    /\ database[n].kind # "materialized"
    /\ database' = Without(database, Dependents(n))
    /\ ApplyDrop(n)

AlterAddColumn(n, c, ifNotExists) ==
    /\ Statement("add")
    /\ IsTable(n)
    /\ IF HasColumn(database[n], c)
       THEN ifNotExists /\ UNCHANGED database
       ELSE /\ Len(database[n].columns) < MaxColumns
            /\ database' = [database EXCEPT
                 ![n].columns = Append(@, [name |-> c, at |-> step'])]
    /\ ApplyAlter(n, LAMBDA r : AddColumn(r, c, ifNotExists))

AlterDropColumn(n, c) ==
    /\ Statement("drop_column")
    /\ IsTable(n)
    /\ HasColumn(database[n], c)
    /\ Unused(n)
    /\ database' = [database EXCEPT ![n].columns = Retained(@, c)]
    /\ ApplyAlter(n, LAMBDA r : DropColumn(r, c))

RenamedColumn(n, old, new) ==
    /\ IsTable(n)
    /\ HasColumn(database[n], old)
    /\ ~HasColumn(database[n], new)
    /\ database' = [database EXCEPT ![n].columns = [i \in DOMAIN @ |->
                      IF @[i].name = old THEN [name |-> new, at |-> step']
                                         ELSE @[i]]]

AlterRenameColumn(n, old, new) ==
    /\ Statement("rename_column")
    /\ RenamedColumn(n, old, new)
    /\ ApplyAlter(n, LAMBDA r : RenameColumn(r, old, new))

(* MySQL's ALTER TABLE n CHANGE COLUMN old new: apply_alter_table takes the   *)
(* table out and puts it back as it was.                                    *)
AlterChangeColumn(n, old, new) ==
    /\ Statement("change_column")
    /\ RenamedColumn(n, old, new)
    /\ ApplyAlter(n, LAMBDA r : r)

(* ALTER TABLE n RENAME TO m                                                 *)
AlterRename(n, m) ==
    /\ Statement("rename")
    /\ IsTable(n)
    /\ RenamedRelation(n, m)
    /\ ApplyRename(n, m)

(* MySQL's RENAME TABLE n TO m, and ALTER VIEW n RENAME TO m.                 *)
RenameIgnored(n, m) ==
    /\ Statement("rename_ignored")
    /\ RenamedRelation(n, m)
    /\ Ignore

(* A statement about another relation that the index takes for n: one of a     *)
(* schema of its own (archive.n), a temporary one, one whose quoted name only  *)
(* differs in case, or, in MySQL's DROP TABLE IF EXISTS of a view, none.       *)
Other(n) ==
    /\ Statement("other")
    /\ UNCHANGED database
    /\ \/ ApplyDrop(n)
       \/ \E columns \in ColumnLists, ifNotExists \in BOOLEAN :
             ApplyCreate(n, "table", Named(columns), ifNotExists)
       \/ \E c \in ColumnNames : ApplyAlter(n, LAMBDA r : AddColumn(r, c, FALSE))
       \/ \E m \in Names : ApplyRename(n, m)
-----------------------------------------------------------------------------
(* The FROM clauses of the scripts.                                          *)
FromClauses == {<<n>> : n \in Names} \cup
               {s \in [1..2 -> Names] : s[1] # s[2]}

(* The statements that the index follows, those that leave too much in it, and *)
(* those that it has no arm for or takes for ones about another relation.    *)
SupportedStatement == \E n \in Names :
    \/ \E columns \in ColumnLists :
         \/ \E ifNotExists \in BOOLEAN : CreateTable(n, columns, ifNotExists)
         \/ \E m \in Names : CreateView(n, columns, m) \/ ReplaceView(n, columns, m)
         \/ ReplaceTable(n, columns)
    \/ \E from \in FromClauses, kind \in {"table", "view", "materialized"} :
         \/ CreateAsWildcard(n, kind, from)
         \/ \E m \in Names, c \in ColumnNames :
              CreateAsColumn(n, kind, from, m, c)
    \/ Drop(n)
    \/ \E c \in ColumnNames :
         \/ \E ifNotExists \in BOOLEAN : AlterAddColumn(n, c, ifNotExists)
         \/ AlterDropColumn(n, c)
         \/ \E new \in ColumnNames : AlterRenameColumn(n, c, new)
    \/ \E m \in Names : AlterRename(n, m)

LeavingStatement == \E n \in Names :
    \/ DropMaterialized(n)
    \/ DropCascade(n)
    \/ \E old, new \in ColumnNames : AlterChangeColumn(n, old, new)

MisreadStatement == \E n \in Names :
    \/ \E columns \in ColumnLists : CreateIgnored(n, columns)
    \/ \E m \in Names : RenameIgnored(n, m)
    \/ Other(n)

Next == SupportedStatement \/ LeavingStatement \/ MisreadStatement

Spec == Init /\ [][Next]_vars
-----------------------------------------------------------------------------
(* The index has the relations and columns of the database, in their order.    *)
ColumnNamesOf(r) == [i \in DOMAIN r.columns |-> r.columns[i].name]

IndexMatchesDatabase ==
    /\ DOMAIN tables = DOMAIN database
    /\ \A n \in DOMAIN database :
         /\ ColumnNamesOf(tables[n]) = ColumnNamesOf(database[n])
         /\ tables[n].kind = IndexKind(database[n].kind)

(* The location of a relation or column is where the name it bears was given  *)
(* to it, so that goto-definition lands on it and rename rewrites it; a       *)
(* column that a view selects keeps the location it has in its table         *)
(* (ddl.rs, derive_query_columns: "Column references resolve through         *)
(* relations already known to the index (retaining their type and definition *)
(* location)").                                                             *)
LocationsAreDefinitions == \A n \in DOMAIN tables \cap DOMAIN database :
    /\ tables[n].at = database[n].at
    /\ \A i \in DOMAIN tables[n].columns \cap DOMAIN database[n].columns :
         tables[n].columns[i].at = database[n].columns[i].at

(* Every statement that the index does support, applied to an index that       *)
(* matches the database, leaves one that matches: wildcards, renames, and     *)
(* tables built up under one name and renamed to another (ddl.rs, apply_sql:  *)
(* "Applies every DDL statement in `sql` to the index").                    *)
SupportedStatementsKeepTheMatch ==
    [][IndexMatchesDatabase => IndexMatchesDatabase' \/ ~SupportedStatement]_vars

(* ... and every location in it is a definition.                             *)
SupportedStatementsKeepLocations ==
    [][IndexMatchesDatabase /\ LocationsAreDefinitions =>
         LocationsAreDefinitions' \/ ~SupportedStatement]_vars

(* The relations that queries of are reported as unknown tables.               *)
Unknown == DOMAIN database \ DOMAIN tables

(* Whatever the scripts have done to the index before, only a statement that   *)
(* is misread makes it lose a relation that exists: the others add none to     *)
(* the unknown ones, however much the index has too much, or has wrong; a       *)
(* rename of an unknown one leaves it unknown (ddl.rs, apply_alter_table:       *)
(* "Take the table out so renames can re-key it on reinsertion").              *)
RelationsAreNotLost ==
    [][\/ Unknown' \subseteq Unknown
       \/ ~SupportedStatement /\ ~LeavingStatement
       \/ \E n \in Unknown, m \in Names : AlterRename(n, m)]_vars

(* So scripts without such statements leave every relation known.             *)
ExistingAreKnown == Unknown = {}
-----------------------------------------------------------------------------
(* What the two action properties rest on: a database has one column of a     *)
(* name in a relation, which no statement that it accepts changes.           *)
ColumnsAreDistinct == \A n \in DOMAIN database : Distinct(database[n].columns)

ReplayInv == TypeOK /\ ColumnsAreDistinct
=============================================================================
