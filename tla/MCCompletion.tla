---------------------------- MODULE MCCompletion ----------------------------
(* Instances of Completion for TLC: documents of a few shapes, with what SQL   *)
(* wants in the place of each token.                                         *)
EXTENDS Completion, TLC

TwoTables == [posts |-> {"id", "title"}, users |-> {"id", "email"}]
WithEvent == [event |-> {"at"}, posts |-> {"id", "title"},
              users |-> {"id", "email"}]
SomeKeywords ==
    {"SELECT", "FROM", "JOIN", "ON", "AS", "WHERE", "IN", "INSERT", "INTO",
     "VALUES", "UPDATE", "SET", "DELETE", "WITH", "CREATE", "TABLE"}
WithEventKeyword == SomeKeywords \cup {"EVENT", "event"}
SomePunctuation == {".", ",", "(", ")", ";", "=", "1"}

Token(text, fits, of) == <<[text |-> text, fits |-> fits, of |-> of]>>
Plain(text) == Token(text, "nothing", {})
Words2(a, b) == Plain(a) \o Plain(b)
InParens(tokens) == Plain("(") \o tokens \o Plain(")")

\* a column, with the relation its qualifier stands for and those in scope
Ref(qualifier, column, of) == [qualifier |-> qualifier, column |-> column, of |-> of]
Column(ref, visible) ==
    IF ref.qualifier = "" THEN Token(ref.column, "expression", visible)
    ELSE Token(ref.qualifier, "expression", visible) \o Plain(".")
         \o Token(ref.column, "columns", {ref.of})

\* FROM items: how they are joined to those before, and their alias
From(by, relation, as, alias) ==
    [by |-> by, relation |-> relation, as |-> as, alias |-> alias]
RangeName(f) == IF f.alias = "" THEN f.relation ELSE f.alias
RefsTo(from) == {Ref("", "id", "")}
                \cup {Ref(RangeName(f), "id", f.relation) : f \in ToSet(from)}
RelationsOf(from) == {f.relation : f \in ToSet(from)}

Source(f, visible) ==
    Plain(f.by)
    \o Token(f.relation, IF f.by = "," THEN "listed" ELSE "table", {f.relation})
    \o (IF f.as THEN Plain("AS") ELSE <<>>)
    \o (IF f.alias # "" THEN Token(f.alias, "alias", {f.relation}) ELSE <<>>)
    \o (IF f.by = "JOIN"
        THEN Plain("ON") \o Column(Ref("", "id", ""), visible) ELSE <<>>)
Sources(from, visible) ==
    FlattenSeq([i \in DOMAIN from |-> Source(from[i], visible)])

\* SELECT item FROM from WHERE ..., inside a query with the ranges `outer`
Query(item, from, where, outer) ==
    LET visible == RelationsOf(from) \cup outer
    IN  Plain("SELECT") \o Column(item, visible) \o Sources(from, visible) \o where
Where(tokens) == IF tokens = <<>> THEN <<>> ELSE Plain("WHERE") \o tokens

Document(tokens) == [tokens |-> tokens, locals |-> <<>>]

Aliased(by, relations, alias) ==
    {From(by, r, a[1], a[2]) : r \in relations,
                               a \in {<<FALSE, "">>, <<FALSE, alias>>, <<TRUE, alias>>}}
Froms == {<<f>> : f \in Aliased("FROM", {"users"}, "a")}
         \cup {<<f, g>> : f \in Aliased("FROM", {"users"}, "a"),
                          g \in Aliased(",", {"posts"}, "b")
                                \cup Aliased("JOIN", {"posts"}, "b")}

\* after WHERE: nothing, a call of a function, or a subquery about the rows of
\* the query around it
Condition(kind, ref, from) ==
    LET outer == RelationsOf(from)
    IN  CASE kind = "none" -> <<>>
          [] kind = "call" -> Plain("f") \o InParens(Column(ref, outer)) \o Plain("=")
                              \o Column(ref, outer)
          [] kind = "in"   -> Column(ref, outer) \o Plain("IN")
                              \o InParens(Query(ref, <<From("FROM", "posts", FALSE, "p")>>,
                                                <<>>, outer))
Conditions == {"none", "call", "in"}

Selects == UNION {{Query(i, from, Where(Condition(c, j, from)), {}) :
                     i \in RefsTo(from), j \in RefsTo(from), c \in Conditions} :
                    from \in Froms}

Into(t) == Words2("INSERT", "INTO") \o Token(t, "table", {t})
ColumnList(t) == InParens(Token("id", "columns", {t}) \o Plain(",")
                          \o Token("id", "columns", {t}))
Values(f) == Plain("VALUES") \o InParens(
                 (IF f THEN Plain("f") \o InParens(Plain("1")) ELSE Plain("1"))
                 \o Plain(",") \o Token("1", "expression", {}))
OneOf(r) == Query(Ref("", "id", ""), <<From("FROM", r, FALSE, "")>>, <<>>, {})
Inserts == {Into(t) \o ColumnList(t) \o rest :
              t \in {"users", "posts"},
              rest \in {Values(TRUE), Values(FALSE), OneOf("posts")}}
Updates == {Plain("UPDATE") \o Token("users", "table", {"users"}) \o Plain("SET")
            \o Token("email", "expression", {"users"}) \o Plain("=")
            \o Column(ref, {"users"}) \o Plain("WHERE") \o Column(ref, {"users"}) :
              ref \in {Ref("", "id", ""), Ref("users", "id", "users")}}
Deletes == {Words2("DELETE", "FROM") \o Token("posts", "table", {"posts"})
            \o Plain("WHERE") \o Column(ref, {"posts"}) :
              ref \in {Ref("", "id", ""), Ref("posts", "id", "posts")}}

Statements == Selects \cup Inserts \cup Updates \cup Deletes

\* WITH name AS ( SELECT column FROM posts ) SELECT ...
With(n, column, alias) ==
    Plain("WITH") \o Plain(n) \o Plain("AS")
    \o InParens(Query(Ref("", column, ""), <<From("FROM", "posts", FALSE, "")>>,
                      <<>>, {}))
    \o Query(Ref(IF alias = "" THEN n ELSE alias, column, n),
             <<From("FROM", n, FALSE, alias)>>, <<>>, {})
CteEnd == 9   \* the closing parenthesis
Local(n, column, s, end) ==
    [name |-> n, columns |-> {column}, statement |-> s, end |-> end]
WithDocument(n, alias, before, after) ==
    LET own == [tokens |-> With(n, "title", alias), locals |-> <<>>]
    IN  [tokens |-> before \o own.tokens \o after,
         locals |-> <<Local(n, "title",
                            1 + Cardinality({i \in DOMAIN before :
                                               before[i].text = ";"}),
                            Len(before) + CteEnd)>>]

Semi == Plain(";")
\* the same alias in both statements, for different relations
Short == {Query(Ref("a", "id", r), <<From("FROM", r, TRUE, "a")>>, <<>>, {}) :
            r \in {"users", "posts"}} \cup {Into("users") \o ColumnList("users")}
Pairs == {s \o Semi \o t : s \in Short, t \in Short}

PlainDocuments ==
    {Document(s) : s \in Statements} \cup {Document(p) : p \in Pairs}
    \cup {WithDocument("c", "", <<>>, <<>>)}

\* they are such as the proofs assume, and those below are not
ASSUME PlainIsAnnotated == \A d \in PlainDocuments : Annotated(d)

\* what goes wrong: INSERT INTO users ( SELECT ...,
InsertedSubqueries == {Document(Into("users") \o InParens(OneOf("posts")))}
\* a common table expression with the name of a table of another statement,
ShadowedElsewhere ==
    {WithDocument("users", "", <<>>,
                  Semi \o Query(Ref("users", "id", "users"),
                                <<From("FROM", "users", FALSE, "")>>, <<>>, {}))}
\* one that has an alias,
AliasedLocals == {WithDocument("c", "a", <<>>, <<>>)}
\* and a table whose name is a word of SQL
KeywordNames ==
    {Document(Query(Ref("", "at", ""), <<From("FROM", "event", FALSE, "")>>,
                    <<>>, {}))}
QuirkDocuments ==
    InsertedSubqueries \cup ShadowedElsewhere \cup AliasedLocals \cup KeywordNames
=============================================================================
