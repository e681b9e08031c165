--------------------------- MODULE MCWorkspaceLoad ---------------------------
(* Instances of WorkspaceLoad for TLC: a cargo workspace at top with a crate  *)
(* a, a crate b inside it, a migration directory in each of the three, and    *)
(* one below top that the crates may share.                                  *)
EXTENDS WorkspaceLoad, TLC

CONSTANTS top, a, b, tm, am, bm, shared, t, u   \* model values

MCDirs      == {top, a, b, tm, am, bm, shared}
MCAncestors == (top :> {top} @@ a :> {top, a} @@ b :> {top, a, b}
                @@ tm :> {top, tm} @@ am :> {top, a, am} @@ bm :> {top, a, b, bm}
                @@ shared :> {top, shared})
MCNames     == {t, u}
MCBackends  == <<"postgres", "mysql", "sqlite">>

Up(version, path, statement, name) ==
    [version |-> version, path |-> path, down |-> FALSE, readable |-> TRUE,
     statement |-> statement, name |-> name]
Down(version, path, statement, name) ==
    [Up(version, path, statement, name) EXCEPT !.down = TRUE]
Unreadable(file) == [file EXCEPT !.readable = FALSE]

NoFiles == [d \in MCDirs |-> {}]

\* by version, not by path; undone by a down migration; without a version
Histories == {{Up(2, 1, "drop", t), Up(1, 2, "create", t)},
              {Up(1, 1, "create", t), Down(1, 2, "drop", t)},
              {Up(1, 1, "create", u), Up(None, 2, "create", t)}}
Broken    == {{Up(1, 1, "create", t), Unreadable(Up(2, 2, "create", u))}}

Site(roots, detected, enabled, drivers, invocations, content, unlistable, dotenv,
     offline, live) ==
    [roots |-> roots, detected |-> [d \in MCDirs |-> detected],
     enabled |-> enabled,
     drivers |-> [d \in MCDirs |-> IF d = a THEN drivers ELSE {}],
     configured |-> [d \in MCDirs |-> CASE d = a -> am [] d = b -> bm
                                       [] OTHER -> tm],
     invocations |-> [d \in MCDirs |-> IF d = a THEN invocations ELSE <<>>],
     missing |-> {d \in {tm, am, bm, shared} : content[d] = {}},
     unlistable |-> unlistable, files |-> content,
     dotenv |-> dotenv, offline |-> offline, live |-> live]

NoUrl    == [d \in MCDirs |-> None]
OneUrl   == [NoUrl EXCEPT ![top] = "mysql"]
InnerUrl == [NoUrl EXCEPT ![top] = "mysql", ![b] = "sqlite"]

\* what the migrations say, in one or two directories, and a live database
Migrating ==
    {Site(roots, <<a, b>>, {"mysql"}, {}, invocations,
          (am :> fa @@ bm :> fb @@ shared :> {Up(1, 1, "drop", u)} @@ NoFiles),
          unlistable, OneUrl, FALSE, {t}) :
       roots \in {<<top>>, <<b>>, <<top, a>>},
       invocations \in {<<>>, <<"default", shared, "default">>, <<"absolute">>},
       fa \in Histories \cup Broken,
       fb \in {{}, {Up(1, 1, "create", u)}},
       unlistable \in {{}, {am}}}

\* the backends
Backed ==
    {Site(<<top>>, <<a, b>>, enabled, drivers, <<>>, NoFiles, {}, dotenv, offline, {u}) :
       enabled \in (SUBSET {"postgres", "mysql", "sqlite"}) \ {{}},
       drivers \in SUBSET {"postgres", "sqlite"},
       dotenv \in {NoUrl, OneUrl, InnerUrl},
       offline \in BOOLEAN}

\* no cargo workspace
Plain ==
    {Site(roots, <<>>, {}, {}, <<>>,
          (tm :> {Up(1, 1, "create", t)} @@ NoFiles), {}, dotenv, FALSE, {u}) :
       roots \in {<<top>>, <<a, top>>, <<>>},
       dotenv \in {NoUrl, [NoUrl EXCEPT ![top] = "sqlite"]}}

AllSites == Migrating \cup Backed \cup Plain

\* crate a consumes the directory next to it
Sharing ==
    {Site(<<top>>, <<a, b>>, {"sqlite"}, {}, <<shared>>,
          (shared :> {Up(1, 1, "create", t)} @@ NoFiles), {}, NoUrl, FALSE, {})}

\* crate b has no migrations and uses the database of crate a
OneDatabase ==
    {Site(<<top>>, <<a, b>>, {"sqlite"}, {}, <<>>,
          (am :> {Up(1, 1, "create", t)} @@ NoFiles), {},
          [NoUrl EXCEPT ![top] = "sqlite"], FALSE, {t})}
=============================================================================
