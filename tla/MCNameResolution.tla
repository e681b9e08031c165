-------------------------- MODULE MCNameResolution --------------------------
(* Instances of NameResolution for TLC: documents of a few shapes over two    *)
(* relations of the schema and one local name.                              *)
EXTENDS NameResolution, TLC

TwoTables == [posts |-> {"id", "title"}, users |-> {"id", "email"}]
Order     == <<"a", "c", "posts", "users">>

Factors(relations, aliases) ==
    [relation : relations, alias : aliases, query : {Nothing}]
Derived(alias, query) ==
    [relation |-> Nothing, alias |-> alias, query |-> query]

Refs(qualifiers, columns) ==
    [qualifier : qualifiers, column : columns, as : {Nothing}]
Wild == [qualifier |-> Nothing, column |-> Star, as |-> Nothing]

Query(ctes, from, items, nested) ==
    [ctes |-> ctes, from |-> from, items |-> items, nested |-> nested]
Cte(name, columns, query) ==
    [name |-> name, columns |-> columns, query |-> query]

Statement(kind, target, columns, sets, body) ==
    [kind |-> kind, target |-> target, columns |-> columns, sets |-> sets,
     body |-> body]
Select(q) == Statement("query", Nothing, <<>>, <<>>, q)

NoQuery == Query(<<>>, <<>>, <<>>, <<>>)

\* the references of a reader who knows the names
AnyRef    == Refs({Nothing, "a", "c", "posts", "users"}, {"id", "title"})
OuterRef  == Refs({Nothing, "a", "c", "users"}, {"id", "title"})
Aliases   == {Nothing, "a"}

\* SELECT .. FROM one relation
Inner == {Query(<<>>, <<f>>, <<i>>, <<>>) :
            f \in Factors({"posts", "users"}, Aliases),
            i \in {Wild} \cup Refs({Nothing, "a", "users"}, {"id", "title"})}
Small == {Query(<<>>, <<f>>, <<i>>, <<>>) :
            f \in Factors({"posts", "c"}, {Nothing}),
            i \in {Wild} \cup Refs({Nothing, "c"}, {"id", "title"})}
\* a wildcard beside a named expression
Beside == {Query(<<>>, <<f>>, <<Wild, [qualifier |-> Nothing, column |-> "id",
                                       as |-> "one"]>>, <<>>) :
            f \in Factors({"posts", "c"}, {Nothing})}

WithOne == {Select(Query(<<Cte(n, cs, q)>>, <<f>>, <<i>>, <<>>)) :
              n \in {"c", "posts"}, cs \in {{}, {"id"}}, q \in Inner,
              f \in Factors({"c", "users", "posts"}, Aliases), i \in OuterRef}
WithTwo == {Select(Query(<<Cte("c", {}, p), Cte("users", {}, q)>>, <<f>>, <<i>>,
                         <<>>)) :
              p \in Small, q \in Small \cup Beside,
              f \in Factors({"c", "users"}, {Nothing}),
              i \in Refs({Nothing, "c", "users"}, {"id", "title"})}
Joins == {Select(Query(<<>>, <<f, g>>, <<i, j>>, <<>>)) :
            f \in Factors({"posts", "users"}, Aliases),
            g \in Factors({"posts", "users"}, {Nothing, "c"}),
            i \in AnyRef, j \in Refs({"a", "users"}, {"email"})}
Subqueries == {Select(Query(<<>>, <<f>>, <<i>>, <<q>>)) :
                 f \in Factors({"posts", "users"}, {Nothing, "a", "c"}),
                 i \in AnyRef, q \in Inner}
DerivedTables == {Select(Query(<<>>, <<Derived(n, q)>>, <<i>>, <<>>)) :
                    n \in {"c", "posts", Nothing}, q \in Inner,
                    i \in AnyRef}
Nameless == {Select(Query(<<>>, <<Derived(Nothing, q), f>>, <<i>>, <<>>)) :
               q \in Small, f \in Factors({"users"}, Aliases), i \in AnyRef}
Inserts == {Statement("insert", f, <<x>>, <<>>,
                      Query(ctes, <<g>>, <<i>>, <<>>)) :
              f \in Factors({"posts", "users"}, {Nothing}), x \in {"id", "title"},
              ctes \in {<<>>} \cup {<<Cte("c", {}, q)>> : q \in Small},
              g \in Factors({"c", "users"}, {Nothing}), i \in OuterRef}
Updates == {Statement("update", f, <<>>, <<i>>,
                      Query(<<>>, <<>>, <<j>>, nested)) :
              f \in Factors({"posts", "users"}, Aliases), i \in AnyRef,
              j \in OuterRef, nested \in {<<>>} \cup {<<q>> : q \in Small}}

\* statements to set side by side
Creates == {Statement("create", f, <<"id">>, <<>>, NoQuery) :
              f \in Factors({"posts", "c"}, {Nothing})}
Locals  == {Select(Query(<<Cte(n, {"id"}, q)>>, <<f>>, <<i>>, <<>>)) :
              n \in {"c", "posts"},
              q \in {Query(<<>>, <<f>>, <<Wild>>, <<>>) :
                       f \in Factors({"users"}, {Nothing})},
              f \in Factors({"c", "posts"}, {Nothing}),
              i \in Refs({Nothing, "c", "posts"}, {"id"})}
Plains  == {Select(q) : q \in Small}
Pairs   == (Creates \cup Locals \cup Plains) \X (Locals \cup Plains)

Alone(statements) == {<<<<s>>>> : s \in statements}

AllDocuments ==
    Alone(WithOne \cup WithTwo \cup Joins \cup Subqueries \cup DerivedTables
          \cup Nameless \cup Inserts \cup Updates)
    \cup {<<<<p[1], p[2]>>>> : p \in Pairs}
    \cup {<<<<p[1]>>, <<p[2]>>>> : p \in Pairs}

\* a document has one statement or two, and no query is within one that is
\* within a query
Bodies == {d[1][1].body : d \in AllDocuments}
          \cup {Last(Last(d)).body : d \in AllDocuments}
Within(q) == {c.query : c \in ToSet(q.ctes)} \cup ToSet(q.nested)
             \cup ({f.query : f \in ToSet(q.from)} \ {Nothing})
Queried == Bodies \cup UNION {Within(q) : q \in Bodies}
AllQueries == Queried
=============================================================================
