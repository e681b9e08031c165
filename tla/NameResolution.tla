--------------------------- MODULE NameResolution ---------------------------
(***************************************************************************)
(* What the names in a document refer to (src/src/analysis/resolve.rs, and  *)
(* src/src/embedded.rs for the queries in a Rust file).  A visitor walks    *)
(* the syntax tree of each statement and collects the identifiers with one  *)
(* flat scope and one list of query-local relations per statement; a name   *)
(* is looked up in these, and then in the schema.                           *)
(*                                                                          *)
(* The visitor's callbacks are the actions.  The document is arbitrary and  *)
(* is beside them also read as SQL reads it: `context` is what is visible   *)
(* where a node stands, and what a candidate `means` there is what the      *)
(* lookups are compared with.  Names are compared without case, so a name   *)
(* is its folded form.                                                      *)
(***************************************************************************)
EXTENDS Naturals, Sequences, SequencesExt

CONSTANTS
    Schema,     \* the relations of the index, each with its set of columns;
                \* a relation whose columns are unknown has none
    Alphabet,   \* the names of relations and aliases in alphabetical order
    Nothing,    \* an absent name, alias or query
    Star,       \* the column of a wildcard
    Documents,  \* the documents: regions of statements.  A SQL file is one
                \* region, a Rust file has one for each query macro
    Queries     \* the queries in them, also inside one another

Names == ToSet(Alphabet)

(* What the parser makes of a document.  A region without a statement has no   *)
(* names, and is left out; so are new names for the columns of an alias or a *)
(* common table expression, as in FROM t AS a (x, y).                        *)
IsList(s) == s \in Seq(ToSet(s))

IsFactor(f) ==
    /\ f.alias \in Names \cup {Nothing}
    /\ IF f.query = Nothing THEN f.relation \in Names
       ELSE f.relation = Nothing /\ f.query \in Queries

IsQuery(q) ==
    /\ IsList(q.ctes) /\ IsList(q.from) /\ IsList(q.items) /\ IsList(q.nested)
    /\ \A cte \in ToSet(q.ctes) : cte.name \in Names /\ cte.query \in Queries
    /\ \A f \in ToSet(q.from) : IsFactor(f)
    /\ \A item \in ToSet(q.items) : item.column # Nothing
    /\ ToSet(q.nested) \subseteq Queries

IsStatement(t) ==
    /\ t.kind \in {"query", "create", "insert", "update"}
    /\ t.kind # "query" => IsFactor(t.target) /\ t.target.query = Nothing
    /\ IsList(t.columns) /\ Nothing \notin ToSet(t.columns)
    /\ t.columns # <<>> => t.kind \in {"create", "insert"}
    /\ IsList(t.sets) /\ \A item \in ToSet(t.sets) : item.column # Nothing
    /\ t.body \in Queries

ASSUME ResolutionAssumption ==
    /\ IsList(Alphabet)
    /\ \A i, j \in DOMAIN Alphabet : Alphabet[i] = Alphabet[j] => i = j
    /\ DOMAIN Schema \subseteq Names
    /\ Nothing \notin Names
    /\ \A query \in Queries : IsQuery(query)
    /\ \A document \in Documents :
         /\ IsList(document) /\ Len(document) > 0
         /\ \A region \in ToSet(document) :
              /\ IsList(region) /\ Len(region) > 0
              /\ \A t \in ToSet(region) : IsStatement(t)

VARIABLES
    document,    \* the document at hand
    current,     \* the statement being visited: its region and its index
    todo,        \* the nodes that the visitor has yet to visit
    scopes,      \* scopes[s]: names and aliases to relations, per statement
    locals,      \* locals[s]: the query-local relations, per statement
    candidates   \* the identifiers met so far

vars == <<document, current, todo, scopes, locals, candidates>>
-----------------------------------------------------------------------------
(* Relations, as SQL knows them.  `at` tells the local relations of two       *)
(* statements apart.                                                        *)
None == <<0, 0>>

Stored(t)     == [name |-> t, columns |-> Schema[t], at |-> None]
Unknown       == [name |-> Nothing, columns |-> {}, at |-> None]
IsLocal(r)    == r.at # None

Look(bindings, n) == IF n \in DOMAIN bindings THEN bindings[n] ELSE Unknown

(* The name under which a FROM item is known: a derived table may have none.  *)
RangeName(factor) ==
    IF factor.alias # Nothing THEN factor.alias ELSE factor.relation

(* The columns of a query over named relations.                              *)
ColumnsOf(query, relations) ==
    LET Wildcard(item) ==
            UNION {Look(relations, f.relation).columns :
                     f \in {g \in ToSet(query.from) :
                              item.qualifier \in {Nothing, RangeName(g)}}}
        Item(item) == IF item.as # Nothing THEN {item.as}
                      ELSE IF item.column = Star THEN Wildcard(item)
                      ELSE {item.column}
    IN  UNION {Item(item) : item \in ToSet(query.items)}

(* Each common table expression sees those before it.                        *)
WithRelations(query, relations, s) ==
    LET seen[i \in 0..Len(query.ctes)] ==
            IF i = 0 THEN relations
            ELSE LET cte     == query.ctes[i]
                     columns == IF cte.columns # {} THEN cte.columns
                                ELSE ColumnsOf(cte.query, seen[i - 1])
                 IN  [n \in DOMAIN seen[i - 1] \cup {cte.name} |->
                        IF n = cte.name
                        THEN [name |-> n, columns |-> columns, at |-> s]
                        ELSE seen[i - 1][n]]
    IN  seen

FromRelation(factor, relations, s) ==
    IF factor.query = Nothing THEN Look(relations, factor.relation)
    ELSE [name |-> factor.alias, at |-> s,
          columns |-> ColumnsOf(factor.query, relations)]

(* Derived tables without a name lend their columns to unqualified ones.      *)
NamelessRelation(from, context, s) ==
    [name |-> Nothing, at |-> s,
     columns |-> Look(context.ranges, Nothing).columns \cup
         UNION {FromRelation(f, context.relations, s).columns :
                  f \in {g \in ToSet(from) : RangeName(g) = Nothing}}]

(* A query sees its own FROM items before those of the queries around it.     *)
WithRanges(from, context, s) ==
    LET own == {RangeName(f) : f \in ToSet(from)}
    IN  [context EXCEPT !.ranges =
            [n \in DOMAIN context.ranges \cup own |->
               IF n = Nothing THEN NamelessRelation(from, context, s)
               ELSE IF n \in own
               THEN FromRelation(CHOOSE f \in ToSet(from) : RangeName(f) = n,
                                 context.relations, s)
               ELSE context.ranges[n]]]

(* Where a statement begins, the relations of the schema are visible.        *)
StatementContext == [relations |-> [t \in DOMAIN Schema |-> Stored(t)],
                     ranges    |-> [n \in {} |-> Unknown]]

(* What an unqualified column means: the only visible relation that has it.   *)
OnlyOwner(column, ranges) ==
    LET owners == {r \in {ranges[n] : n \in DOMAIN ranges} :
                     column \in r.columns}
    IN  IF Cardinality(owners) = 1 THEN CHOOSE r \in owners : TRUE ELSE Unknown
-----------------------------------------------------------------------------
(* Candidates.                                                              *)
TableCandidate(s, n, relation) ==
    [kind |-> "table", at |-> s, qualifier |-> Nothing, name |-> n,
     means |-> relation]

ColumnCandidate(s, qualifier, column, relation) ==
    [kind |-> "column", at |-> s, qualifier |-> qualifier, name |-> column,
     means |-> relation]

(* `column` is one candidate, `qualifier.column` are two.  A wildcard is no   *)
(* expression.                                                              *)
Reference(s, ref, ranges) ==
    IF ref.column = Star THEN <<>>
    ELSE IF ref.qualifier = Nothing
    THEN <<ColumnCandidate(s, Nothing, ref.column,
                           OnlyOwner(ref.column, ranges))>>
    ELSE <<TableCandidate(s, ref.qualifier, Look(ranges, ref.qualifier)),
           ColumnCandidate(s, ref.qualifier, ref.column,
                           Look(ranges, ref.qualifier))>>

(* The columns that a statement lists for its table, in DDL and INSERT.       *)
ColumnDefs(s, statement) ==
    [i \in DOMAIN statement.columns |->
       ColumnCandidate(s, statement.target.relation, statement.columns[i],
                       Look(StatementContext.relations,
                            statement.target.relation))]

(* The targets of UPDATE ... SET.                                            *)
AssignmentTargets(s, statement) ==
    IF statement.kind # "update" THEN <<>>
    ELSE LET ranges == WithRanges(<<statement.target>>, StatementContext, s)
                         .ranges
         IN  FlattenSeq([i \in DOMAIN statement.sets |->
                           Reference(s, statement.sets[i], ranges)])
-----------------------------------------------------------------------------
(* The order in which the parser's tree is visited.                          *)
Visits(kind, nodes, context) ==
    [i \in DOMAIN nodes |->
       [kind |-> kind, node |-> nodes[i], context |-> context]]

QueryChildren(query, context, s) ==
    LET seen  == WithRelations(query, context.relations, s)
        inner == [context EXCEPT !.relations = seen[Len(query.ctes)]]
        body  == WithRanges(query.from, inner, s)
    IN  [i \in DOMAIN query.ctes |->
           [kind |-> "query", node |-> query.ctes[i].query,
            context |-> [context EXCEPT !.relations = seen[i - 1]]]]
        \o Visits("expr", query.items, body)
        \o Visits("factor", query.from, inner)
        \o Visits("query", query.nested, body)

StatementChildren(statement, s) ==
    IF statement.kind = "update"
    THEN LET body == WithRanges(<<statement.target>>, StatementContext, s)
         IN  Visits("factor", <<statement.target>>, StatementContext)
             \o Visits("expr", statement.body.items, body)
             \o Visits("query", statement.body.nested, body)
    ELSE (IF statement.kind = "query" THEN <<>>
          ELSE Visits("relation", <<statement.target>>, StatementContext))
         \o Visits("query", <<statement.body>>, StatementContext)

Statements == UNION {{r} \X DOMAIN document[r] : r \in DOMAIN document}

(* Statements are visited in order, those of each region by themselves.       *)
After(s) == IF s # None /\ s[2] < Len(document[s[1]])
            THEN <<s[1], s[2] + 1>> ELSE <<s[1] + 1, 1>>
-----------------------------------------------------------------------------
Init ==
    /\ document \in Documents
    /\ current = None
    /\ todo = <<>>
    /\ scopes = [s \in {} |-> <<>>]
    /\ locals = [s \in {} |-> <<>>]
    /\ candidates = <<>>

Put(f, x, value) == [y \in DOMAIN f \cup {x} |-> IF y = x THEN value ELSE f[y]]

Scope(n, relation) == [scopes EXCEPT ![current] = Put(@, n, relation)]

(* What derive_query_columns finds through the schema: aliases and the local  *)
(* relations of the statement mean nothing to it.                            *)
DeriveQueryColumns(query) ==
    LET known == {f.relation : f \in ToSet(query.from)} \cap DOMAIN Schema
        Item(item) ==
            IF item.as # Nothing THEN {item.as}
            ELSE IF item.column # Star THEN {item.column}
            ELSE IF item.qualifier = Nothing THEN UNION {Schema[t] : t \in known}
            ELSE IF item.qualifier \in DOMAIN Schema THEN Schema[item.qualifier]
            ELSE {}
    IN  UNION {Item(item) : item \in ToSet(query.items)}

(* pre_visit_statement, after collect has opened the statement's scope.       *)
VisitStatement ==
    LET s         == After(current)
        statement == document[s[1]][s[2]]
    IN  /\ todo = <<>>
        /\ s \in Statements
        /\ current' = s
        /\ scopes' = Put(scopes, s, [n \in {} |-> n])
        /\ locals' = Put(locals, s, <<>>)
        /\ candidates' = candidates \o ColumnDefs(s, statement)
                                    \o AssignmentTargets(s, statement)
        /\ todo' = StatementChildren(statement, s)
        /\ UNCHANGED document

Visiting(kind) == todo # <<>> /\ Head(todo).kind = kind

(* Goes on to the children of the node at hand, in front of its siblings.     *)
VisitNext(children) == todo' = children \o Tail(todo)

(* pre_visit_query records the common table expressions.                     *)
CteLocals(query) ==
    [i \in DOMAIN query.ctes |->
       [name |-> query.ctes[i].name,
        columns |-> IF query.ctes[i].columns # {} THEN query.ctes[i].columns
                    ELSE DeriveQueryColumns(query.ctes[i].query)]]

(* Faulty variant: they do not join the statement's scope.                   *)
NoCteScope(query) == scopes

CteScope(query) ==
    LET names == {query.ctes[i].name : i \in DOMAIN query.ctes}
    IN  [scopes EXCEPT ![current] = [n \in DOMAIN @ \cup names |->
                                       IF n \in names THEN n ELSE @[n]]]

VisitQuery ==
    LET query == Head(todo).node
        seen  == WithRelations(query, Head(todo).context.relations, current)
    IN  /\ Visiting("query")
        /\ scopes' = CteScope(query)
        /\ locals' = [locals EXCEPT ![current] = @ \o CteLocals(query)]
        /\ candidates' = candidates \o
               [i \in DOMAIN query.ctes |->
                  TableCandidate(current, query.ctes[i].name,
                                 seen[i][query.ctes[i].name])]
        /\ VisitNext(QueryChildren(query, Head(todo).context, current))
        /\ UNCHANGED <<document, current>>

(* pre_visit_relation.                                                       *)
VisitRelation ==
    LET n == Head(todo).node.relation
    IN  /\ Visiting("relation")
        /\ scopes' = Scope(n, n)
        /\ candidates' = Append(candidates,
               TableCandidate(current, n, Look(Head(todo).context.relations, n)))
        /\ VisitNext(<<>>)
        /\ UNCHANGED <<document, current, locals>>

(* pre_visit_table_factor: an alias leads to its relation, which is visited    *)
(* next; a derived table is a local relation.                                *)
VisitTable ==
    LET factor  == Head(todo).node
        aliased == factor.alias # Nothing
    IN  /\ Visiting("factor")
        /\ factor.query = Nothing
        /\ scopes' = IF aliased THEN Scope(factor.alias, factor.relation)
                     ELSE scopes
        /\ candidates' = IF aliased
               THEN Append(candidates, TableCandidate(current, factor.alias,
                        Look(Head(todo).context.relations, factor.relation)))
               ELSE candidates
        /\ VisitNext(Visits("relation", <<factor>>, Head(todo).context))
        /\ UNCHANGED <<document, current, locals>>

VisitDerived ==
    LET factor  == Head(todo).node
        context == Head(todo).context
    IN  /\ Visiting("factor")
        /\ factor.query # Nothing /\ factor.alias # Nothing
        /\ scopes' = Scope(factor.alias, factor.alias)
        /\ locals' = [locals EXCEPT ![current] = Append(@,
               [name |-> factor.alias,
                columns |-> DeriveQueryColumns(factor.query)])]
        /\ candidates' = Append(candidates, TableCandidate(current,
               factor.alias, FromRelation(factor, context.relations, current)))
        /\ VisitNext(Visits("query", <<factor.query>>, context))
        /\ UNCHANGED <<document, current>>

(* A derived table without an alias is passed over.                          *)
VisitNameless ==
    LET factor == Head(todo).node
    IN  /\ Visiting("factor")
        /\ factor.query # Nothing /\ factor.alias = Nothing
        /\ VisitNext(Visits("query", <<factor.query>>, Head(todo).context))
        /\ UNCHANGED <<document, current, scopes, locals, candidates>>

(* pre_visit_expr.                                                           *)
VisitExpr ==
    /\ Visiting("expr")
    /\ candidates' = candidates \o
           Reference(current, Head(todo).node, Head(todo).context.ranges)
    /\ VisitNext(<<>>)
    /\ UNCHANGED <<document, current, scopes, locals>>

Next == \/ VisitStatement \/ VisitQuery \/ VisitRelation
        \/ VisitTable \/ VisitDerived \/ VisitNameless \/ VisitExpr

Spec == Init /\ [][Next]_vars
-----------------------------------------------------------------------------
(* Lookups in what has been collected.                                       *)
Collected == todo = <<>> /\ DOMAIN scopes = Statements

Candidates == DOMAIN candidates

FirstLocal(s, Test(_)) ==
    LET i == SelectInSeq(locals[s], Test)
    IN  IF i = 0 THEN Unknown
        ELSE [name |-> locals[s][i].name, columns |-> locals[s][i].columns,
              at |-> s]

Indexed(t) == IF t \in DOMAIN Schema THEN Stored(t) ELSE Unknown

First(ns) == CHOOSE n \in ns : \A i \in DOMAIN Alphabet :
                 Alphabet[i] = n => \A j \in 1..(i - 1) : Alphabet[j] \notin ns

(* Faulty variant: the schema comes first.                                   *)
SchemaBeforeScope(s, n) ==
    IF Indexed(n) # Unknown THEN Indexed(n)
    ELSE LET own == FirstLocal(s, LAMBDA r : r.name = n)
         IN  IF own # Unknown THEN own
             ELSE IF n \in DOMAIN scopes[s] THEN Indexed(scopes[s][n])
             ELSE Unknown

(* table_via_scope: the local relation of the name, what the scope leads to   *)
(* in the schema, the relation of the schema of that name.                   *)
TableViaScope(s, n) ==
    LET own == FirstLocal(s, LAMBDA r : r.name = n)
        via == IF n \in DOMAIN scopes[s] THEN Indexed(scopes[s][n]) ELSE Unknown
    IN  IF own # Unknown THEN own
        ELSE IF via # Unknown THEN via
        ELSE Indexed(n)

(* An unqualified column: a local relation, a relation of the statement, any   *)
(* relation of the schema that has it.                                       *)
TableOfColumn(s, column) ==
    LET own   == FirstLocal(s, LAMBDA r : column \in r.columns)
        inUse == {n \in DOMAIN scopes[s] :
                    column \in Indexed(scopes[s][n]).columns}
        any   == {t \in DOMAIN Schema : column \in Schema[t]}
    IN  IF own # Unknown THEN own
        ELSE IF inUse # {} THEN Indexed(scopes[s][First(inUse)])
        ELSE IF any # {} THEN Stored(First(any))
        ELSE Unknown

(* resolve_candidate, down to the relation and the column that a reference    *)
(* names; reference_target keeps their names, and of a local relation also    *)
(* the index of its statement within the region.                             *)
Owner(c) == IF c.kind = "table" THEN TableViaScope(c.at, c.name)
            ELSE IF c.qualifier # Nothing THEN TableViaScope(c.at, c.qualifier)
            ELSE TableOfColumn(c.at, c.name)

Resolves(c) == Owner(c) # Unknown /\ (c.kind = "column" => c.name \in Owner(c).columns)

ReferenceTarget(c) ==
    [relation  |-> Owner(c).name,
     column    |-> IF c.kind = "column" THEN c.name ELSE Nothing,
     local     |-> IsLocal(Owner(c)),
     statement |-> IF IsLocal(Owner(c)) THEN c.at[2] ELSE 0]

(* references_to, in one region.                                             *)
ReferencesTo(region, target) ==
    {i \in Candidates : /\ candidates[i].at[1] = region
                        /\ Resolves(candidates[i])
                        /\ ReferenceTarget(candidates[i]) = target}

(* Faulty variant: every target is searched in every region.                  *)
ReferencesEverywhere(c) ==
    UNION {ReferencesTo(r, ReferenceTarget(c)) : r \in DOMAIN document}

(* references_at: a local target is searched in its region only.             *)
ReferencesAt(c) ==
    IF ~Resolves(c) THEN {}
    ELSE UNION {ReferencesTo(r, ReferenceTarget(c)) :
                  r \in IF ReferenceTarget(c).local THEN {c.at[1]}
                        ELSE DOMAIN document}

(* unresolved_references: relations that are not found, and columns that a    *)
(* qualifier's relation is known not to have.  DDL defines its names.        *)
IsDdl(s) == document[s[1]][s[2]].kind = "create"

UnresolvedTable(c) == c.kind = "table" /\ TableViaScope(c.at, c.name) = Unknown

UnresolvedColumn(c) ==
    /\ c.kind = "column"
    /\ c.qualifier # Nothing
    /\ LET relation == TableViaScope(c.at, c.qualifier)
       IN  relation.columns # {} /\ c.name \notin relation.columns

UnresolvedReferences ==
    {i \in Candidates : /\ DOMAIN Schema # {}
                        /\ ~IsDdl(candidates[i].at)
                        /\ \/ UnresolvedTable(candidates[i])
                           \/ UnresolvedColumn(candidates[i])}
-----------------------------------------------------------------------------
TypeOK ==
    /\ current \in Statements \cup {None}
    /\ DOMAIN scopes \subseteq Statements
    /\ DOMAIN locals = DOMAIN scopes
    /\ \A s \in DOMAIN scopes :
         /\ DOMAIN scopes[s] \subseteq Names
         /\ \A n \in DOMAIN scopes[s] : scopes[s][n] \in Names
         /\ \A l \in ToSet(locals[s]) : l.name \in DOMAIN scopes[s]
    /\ \A c \in ToSet(candidates) : /\ c.kind \in {"table", "column"}
                                     /\ c.at \in DOMAIN scopes
    /\ \A v \in ToSet(todo) :
         v.kind \in {"query", "relation", "factor", "expr"}

(* What the flat scope of a statement cannot express.                        *)
Mentions(s) == {c \in ToSet(candidates) : c.at = s}
Relations(s) == {c.means : c \in {d \in Mentions(s) : d.kind = "table"}}

(* A local relation goes by another name.                                    *)
AliasedLocal(s) == \E c \in Mentions(s) :
    c.kind = "table" /\ IsLocal(c.means) /\ c.name # c.means.name

(* A name stands for different relations in different places.                *)
ReusedName(s) == \E c, d \in Mentions(s) :
    c.kind = "table" /\ d.kind = "table" /\ c.name = d.name /\ c.means # d.means

(* The columns of a local relation are not those the schema tells.           *)
UnderivedColumns(s) == \E r \in Relations(s) : \E l \in ToSet(locals[s]) :
    IsLocal(r) /\ r.name = l.name /\ r.columns # l.columns

Plain(s) == ~AliasedLocal(s) /\ ~ReusedName(s) /\ ~UnderivedColumns(s)

(* Only one relation that the statement names has the column, shadowed ones    *)
(* of the schema included.                                                   *)
OneOwner(c) ==
    LET named == Relations(c.at) \cup {Indexed(r.name) : r \in Relations(c.at)}
    IN  {r \in named : c.name \in r.columns} = {c.means}

(* What SQL gives the candidate a meaning for, and no other reading of an      *)
(* unqualified column is possible.                                           *)
Clear(c) == /\ c.means # Unknown
            /\ c.kind = "column" =>
                 /\ c.name \in c.means.columns
                 /\ c.qualifier = Nothing => OneOwner(c)

SameThing(c, d) == /\ c.kind = d.kind
                   /\ c.means = d.means
                   /\ c.kind = "column" => c.name = d.name

ClearOccurrences(c) == {i \in Candidates : /\ Clear(candidates[i])
                                           /\ SameThing(candidates[i], c)}

FindsAllOf(c) ==
    {i \in ReferencesAt(c) : Clear(candidates[i])} = ClearOccurrences(c)

(* The references of a thing are its occurrences, and nothing else's: across  *)
(* statements and regions for the relations of the schema and their columns,  *)
(* within the statement for local ones.  The names are plain, that is, the    *)
(* flat scope can express them (resolve.rs, references_to: "A query-local     *)
(* relation shadowing a schema table keeps its statement's references out of *)
(* that table's results, and local targets match only inside their defining  *)
(* statement").                                                             *)
ReferencesAreOccurrences ==
    Collected /\ (\A s \in Statements : Plain(s)) =>
        \A c \in ToSet(candidates) : Clear(c) => FindsAllOf(c)

(* A name that means nothing where it stands nor to the schema, and a column   *)
(* that the relation of its qualifier does not have.                         *)
KnownAs(n, relation) == IF relation = Unknown THEN Indexed(n) ELSE relation

Mistaken(c) ==
    IF c.kind = "table" THEN KnownAs(c.name, c.means) = Unknown
    ELSE /\ c.qualifier # Nothing
         /\ KnownAs(c.qualifier, c.means).columns # {}
         /\ c.name \notin KnownAs(c.qualifier, c.means).columns

(* In a statement with plain names just the mistakes are reported: no name    *)
(* that means something, and every one that does not (resolve.rs,            *)
(* unresolved_references: "unknown relations in query statements, and        *)
(* qualified columns missing from their (known) relation").                  *)
ReportsAreTheMistakes ==
    Collected => \A i \in Candidates :
        LET c == candidates[i]
        IN  Plain(c.at) /\ ~IsDdl(c.at) =>
                (i \in UnresolvedReferences <=> Mistaken(c))
-----------------------------------------------------------------------------
(* The same promises for names that are not plain.                           *)
NoFalseAlarm(s) == \A i \in UnresolvedReferences :
    candidates[i].at = s =>
        candidates[i].means = Unknown \/ Mistaken(candidates[i])

(* An alias of a common table expression is a relation like any other          *)
(* (src/src/analysis/diagnostics.rs: "CTEs and derived tables resolve         *)
(* locally").                                                               *)
AliasedLocalsAreKnown ==
    Collected => \A s \in Statements :
        ~ReusedName(s) /\ ~UnderivedColumns(s) => NoFalseAlarm(s)

(* Two subqueries may use one alias each in their own way: a scope that is an *)
(* over-approximation of the true visibility hides nothing (resolve.rs,      *)
(* record_query_ctes: "an over-approximation of their true (query-local)     *)
(* visibility that the scope model shares with aliases").                    *)
ReusedNamesAreKnown ==
    Collected => \A s \in Statements :
        ~AliasedLocal(s) /\ ~UnderivedColumns(s) => NoFalseAlarm(s)

(* A column that a local relation has by way of another one is no mistake.    *)
DerivedColumnsAreKnown ==
    Collected => \A s \in Statements :
        ~AliasedLocal(s) /\ ~ReusedName(s) => NoFalseAlarm(s)

(* A column that SQL can tell is found from its definition, whichever other   *)
(* relations of the statement have one of that name (src/README.md: "every    *)
(* use of a table or column across the whole workspace").                    *)
UnqualifiedColumnsAreFound ==
    Collected => \A i \in Candidates :
        LET c == candidates[i]
        IN  /\ Plain(c.at)
            /\ c.kind = "column"
            /\ c.means # Unknown
            /\ c.name \in c.means.columns
            => i \in ReferencesAt([c EXCEPT !.qualifier = c.means.name])
=============================================================================
