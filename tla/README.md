# A verification development of sqlx-lsp

sqlx-lsp is a language server for SQL in Rust projects that use sqlx. It replays
the migrations of a workspace into an in-memory schema (and may introspect a
live database), indexes the queries of the workspace, and answers completion,
navigation, rename and diagnostics from both. These TLA+ modules model the part
of it that tests hardly reach: two background workers, a dozen concurrent
handlers, an editor and other programs that all change what the answers are
computed from. TLC checks the modules on small instances; TLAPS proves the most
important results for any instance.

Paths below are relative to the repository, which is at `src/`; its crate is
`src/src`.

## 1. The system

| Component | Code | State | Operations |
|---|---|---|---|
| Workspace index | `workspace.rs`, `server.rs:257-358,756-891` | `Workspace {roots, contexts, query_documents}` under one `tokio::sync::RwLock`; `reload_notify`, `query_refresh_notify`, `pending_query_refresh`, `watchers_unavailable` | `initialize`, `did_save`, `did_change_watched_files`, `did_change_workspace_folders`; the reload worker (`reload_workspace`, `register_watchers`); the query-index worker (`refresh_query_documents`) |
| Workspace load | `workspace.rs:274-750`, `config.rs`, `db.rs` | none; builds a `Workspace` | `load`, `load_folder`, `DbContext::load`, `resolve_kind`, `migration_dirs_for`, `context_for` |
| Migration files | `schema/migrations.rs` | the `Schema` of a context | `apply_migrations`: version order, down files, splitting into statements |
| Schema replay | `schema/ddl.rs`, `schema/mod.rs` | `Schema::tables` | `apply_statement` for CREATE TABLE/VIEW, DROP, ALTER TABLE |
| Live introspection | `introspect/` | relations merged into a `Schema` | `introspect_into`, with a timeout |
| Documents | `document.rs`, `server.rs:108-215,1046-1111` | `documents: DashMap<Uri, OpenDocument>`: text, version, parse caches | `did_open`, `did_change`, `did_close` |
| Pushed diagnostics | `server.rs:365-488`, `analysis/diagnostics.rs` | `published_workspace_diagnostics`; what the client shows | `publish_diagnostics_for`, `publish_all_diagnostics`, `publish_workspace_diagnostics` |
| Pulled diagnostics | `server.rs:1267-1345` | none | `diagnostic`, `workspace_diagnostic` |
| Rename, references | `server.rs:497-641,1430-1530`, `analysis/resolve.rs` | the handler's locals across three acquisitions of the workspace lock | `prepare_rename`, `rename`, `references`, `document_highlight` |
| Semantic tokens | `server.rs:1562-1660`, `analysis/semantic_tokens.rs` | the stream of the last answer, per document | full, delta and range |
| Name resolution | `analysis/resolve.rs`, `analysis/definition.rs` | none | scopes, aliases, CTEs; `reference_target`, `references_to` |
| Completion | `analysis/completion.rs` | none | `completions`: the cursor's neighbourhood, its context, the scope, the offers |
| Hover, quick fixes, symbols | `analysis/` | none | stateless answers |
| Embedded SQL | `embedded.rs` | none | extraction from Rust sources, position mapping |
| SQL parsing | `parse.rs` | none | recovery at statement boundaries |
| Process and editor client | `main.rs`, `lib.rs`, `editors/vscode` | none | start-up on stdio |

**How they interact.** The client's notifications run as handlers in the one
task that `main.rs` awaits; the two workers are spawned tasks. A notification
about a schema input stores a permit in `reload_notify`; one about a query
source puts the file in `pending_query_refresh` and stores a permit in
`query_refresh_notify`. The reload worker clones the roots, reads the disk for
seconds without a lock, installs a whole new `Workspace`, republishes every open
document, sweeps the closed files and renews the client's watchers. The
query-index worker takes the queue, reads the files, replaces their entries and
sweeps too. Requests take a shard of `documents` and the workspace lock, in
either order.

**What is hard.** Every read of the disk and every computed report is used later
than it was made; permits coalesce; the sweeps of two workers and the reports of
open documents overlap on the client's screen; a DashMap guard that blocks the
thread is held across awaits of a fair lock; `rename` resolves the cursor twice;
the replay must follow a database that it only partly understands. The
hazards in `PROJECT.json` list these places line by line.

**What makes each part correct.**
* Workspace index: no reload is lost; at rest, schema and query index are what is
  on disk; the roots are the client's; nothing served goes back in time.
* Diagnostics: at rest, an open document shows findings of its text, a closed one
  those of the index; every finding on a closed file is tracked for the next
  sweep; a new schema reaches the open documents.
* Locks: no circle of waiting closes, but for the one in which the serving thread
  blocks itself; as long as that does not happen, every handler and worker finishes.
* Rename: never merges two relations, never touches an object only the live
  database defines, renames definition and references together, and is applied
  only to the text it was computed from.
* Schema replay: relations, columns, order and definition locations are those of
  the database for the statements the index supports, and no relation is lost
  by any statement but one that the index misreads.
* Load: version order of migrations, routing to the deepest root, what a failure
  in the middle leaves behind.
* Documents, tokens, embedded SQL: the server's text, tokens and positions are
  the client's; no cached analysis outlives its text or dialect; what is asked at
  a place in a query of a Rust file is answered for that place.
* Name resolution: references are the occurrences of what they name, and the
  diagnostics report the mistakes, as SQL reads the names.
* Completion: what is offered is what SQL wants at the cursor, in the unfinished
  statement of the cursor only.

## 2. The modules

| Module | Models |
|---|---|
| `SchemaPromise` | the abstract specification of the schema index: folders are published together, each from an edition that was on disk, never an older one than before, and the index catches up |
| `WorkspaceIndex` | the handlers and both workers between their awaits; implements `SchemaPromise` |
| `WorkspaceIndexProofs` | its theorems: reloads, the query index, the refinement |
| `Diagnostics`, `DiagnosticsProofs` | reports of open and closed files on their way to the client's screen |
| `HandlerLocks`, `HandlerLocksProofs` | who waits for whom on the workspace lock and on the document shards |
| `Rename` | the rename handler among the changes it races with |
| `SchemaReplay`, `SchemaReplayProofs` | the DDL statements, applied to the index and to a database |
| `WorkspaceLoad`, `WorkspaceLoadProofs` | the load of a workspace, step by step: contexts, migration files, backends, the live database, merged views, routing |
| `OpenDocuments`, `OpenDocumentsProofs` | one document's text, analyses, token streams and places of completions between client and server |
| `NameResolution`, `NameResolutionProofs` | the visitor that collects the names of a document, and the lookups behind references and diagnostics |
| `Completion` | what is offered at a cursor in a document that is being typed |
| `CursorProofs` | the theorems of `Rename` and of `Completion`, the two that answer for the word at the cursor |
| `MC*` | the values of the constants for TLC |

The inductive invariant of a proof stands at the end of the module that it is about,
where TLC can evaluate it, or in the proof module when its parts are properties of
the module.

An operator marked "Faulty variant" is not part of its specification: it is a
plausible bug in the definition that follows it, kept to show that the properties
can tell the two apart.

### WorkspaceIndex

A *folder* stands for everything its contexts are built from, a *query file* for
one source outside the migration directories; contents are numbered editions.
`roots`, `served` and `index` are the three parts of `Workspace`. `reloadPermit`,
`refreshPermit`, `pending`, `watchersUnavailable` are the fields of `ServerState`
of those names. `reloadPc` with `newRoots`, `newSchema`, `newIndex` is where the
reload worker is and what its locals hold:

| Action | Code |
|---|---|
| `DidSave`, `DidChangeWatchedFiles`, `DidChangeWorkspaceFolders` | the handlers, with `affects_workspace` as `AffectsWorkspace` |
| `WakeReloader`, `ReadRoots` | `notified().await`, the clone of the roots (and the return without any) |
| `LoadFolder`, `ScanQueries` | `Workspace::load` folder by folder, then `QueryDocument::scan` |
| `InstallWorkspace` | `*self.workspace.write().await = workspace` |
| `UnregisterWatchers`, `RegisterWatchers` | `register_watchers`; a rejection is an outcome |
| `WakeRefresher` ... `ApplyReplacements` | `refresh_query_documents`: take, directories, reads, replacements |

The disk and the client are external: `EditorSave` writes and notifies,
`ExternalChange` writes a batch and is reported only while the watchers are
registered.

### Diagnostics

Buffers and versions are numbered by editions. `verdict` says which pairs of text
and schema have findings: it is arbitrary, so the checks hold for whatever
`diagnostics` computes. Computing a report (`Compute`, `ComputeOpen`,
`ComputeClosed`) and delivering it (`Send`, `SendOpen`, `PushReport`,
`PushCleared`) are different steps; `SwapPublished` is the exchange of
`published_workspace_diagnostics` between them. `Deliver` is the client, which
drops a report older than its buffer. `Calm` names the events that wait for both
workers to be idle: the properties that hold only then say so by their run.

`client` says how the client is served. One that pulls gets no pushed reports:
`SkipSweep` is the early return. It asks for a document
that it has opened or changed (`asked`, `Diagnostic`), and one that polls also
keeps asking for the whole workspace: `WorkspaceDiagnostic` and `PollOpen` are
`workspace_diagnostic` between its awaits, with `poll` as its locals, and
`AnswerPoll` is the client. Files without findings, open or closed, are not in the
answer. The client is assumed to
take a stamped report for an open buffer unless the buffer has changed since, an
unstamped one for a closed file only, and a file that is not in the answer for
clean. So a polling client never learns under which schema a clean document was found
clean, and `SchemaReachesOpenDocuments` asks of what it shows that it is a report under
the new schema or a later one, or that the text is in fact clean under one of these
(`RightlyClean`).

### HandlerLocks

Each handler or worker is the sequence of its lock operations, in the order of
the code. `Poll` and `serving` model the single task of `main.rs`: a handler runs
until it awaits, ends, or blocks its thread in `Edit` (`documents.get_mut`,
`insert`, `remove`). `Await` and `GrantFirst` are the fair `RwLock`. Up to
`Cardinality(Handlers)` messages are handled at once, edits like all others (the
library's default is four). The blocked thread is a deadlock of the code, so the
properties say what there is beside it: `OnlyEditsDeadlock`, that whenever nobody can go
on it is this one, and `EverythingFinishes`, that all goes well while `EditorsAreAlone`.

### Rename

`ResolveForRename`, `CheckCollision`, `ReferenceLocations` are the three stretches
of `rename` that hold the workspace lock. `MidRename` names the events allowed in
between: that the user types (`"change"`), that a migration is edited
(`"migrate"`), that a reload installs what is on disk (`"reload"`), that the live
database is altered (`"database"`), or that either changes in other names than the two
of the rename (`"others"`). What has been changed, but not yet reloaded when the request
arrives, counts as a change in its midst (`Ask`). While the answer is on its way anything
may happen.
`Refuse` and `Apply` are the client.

### SchemaReplay

`tables` is `Schema::tables`, keyed by the lower-cased bare name, with the columns
in order and, as `at`, the statement that a location points to. `database` is what
a database does with the same statement. One action per statement: its guard is
that the database accepts it, and its two effects are written separately
(`Apply...` for the index, the rest for the database). There are three groups of
statements. The index follows the first (`Followed`); CREATE OR REPLACE is among them. The
second leaves too much in it (`Leaving`: DROP MATERIALIZED VIEW, CASCADE, CHANGE COLUMN).
The third is misread (`Misread`), so that a relation that exists becomes unknown:
`CreateIgnored` (CREATE VIRTUAL TABLE, SELECT INTO, what does not parse), `RenameIgnored`
(RENAME TABLE, ALTER VIEW ... RENAME), and `Other`, a statement about another relation
that the index takes for this one, as `simple_ident` keeps the last part of a qualified
name.

### WorkspaceLoad

What `LoadFolder` and `ScanQueries` of `WorkspaceIndex` do in one step each, for a
*site*: what a load finds on disk and in the environment. `folders`, `crates`,
`dirs` and `files` are the loops of `Workspace::load`, `load_folder`,
`DbContext::load` and `apply_migrations`; `context` is the `DbContext` being built;
`contexts`, `folderContexts`, `fallback`, `migrationDirs` and `queries` are the
fields of the resulting `Workspace`. `warned` is the load log, reduced to whose
migrations it reports as not loaded. `FailMigration`, `PassDirectory`,
`LoadingTaskFails` and `GoOnWithout` are the failures. A migration is one CREATE or
DROP: `SchemaReplay` has the other statements. A directory is kept as the crate
and where it leads, because `crate.join("../shared")` is not normalized; `StartsWith`
is `Path::starts_with` on that. `Declares` says, without an order of replay, what a
crate's migrations amount to: its last statement about a relation creates it.

### OpenDocuments

The client's buffer is a sequence of characters and it edits between carets; the
server's `Document` has byte offsets, line starts and clamping. `CaretPosition` is
how the protocol defines positions and `OffsetAt`, `PositionAt`, `PositionOf` are
how the code computes them, so that `TextIsTheClients` compares the two. A wide
character has four bytes and two UTF-16 units, which tells bytes, units and
characters apart. `open` is the `OpenDocument` with its caches; `tree` is the set of
leaves of the syntax tree, shifted by `TreeEdit`. Messages are handled in order,
but requests may pass each other at their await. `SemanticTokensFullDelta` ends
with the client's part, the application of the edit. `Completion` answers with the
range that the offers replace, through `ToEmbedded` and `ToHost` in a Rust file;
what they offer is the module `Completion`'s. `Analyse` stands for the diagnostics
after a change and all other requests, which fill the same caches.

### NameResolution

A document is a sequence of *regions* (one for a SQL file, one per query macro of a
Rust file) of statements, and a statement a small syntax tree. `todo` holds the
nodes that the visitor has yet to enter; `VisitStatement`, `VisitQuery`,
`VisitRelation`, `VisitTable`, `VisitDerived`, `VisitNameless` and `VisitExpr` are the callbacks of
`References::collect` in the order in which `sqlparser` calls them, with the one
flat scope and the local relations of a statement as `scopes` and `locals`. Each
node carries its `context`, the relations and ranges that SQL makes visible there,
and each candidate what it `means` by that: the lookups of the code
(`ReferenceTarget`, `ReferencesAt`, `UnresolvedReferences`) never look at it, and
the properties compare the two. `Documents` and `Queries` are any sets of documents and
of queries whose nodes are of these kinds (`ResolutionAssumption`: what a node consists
of, and that only `CREATE` and `INSERT` have a list of columns; the new names for columns
behind an alias or a common table expression, as in `WITH c (x) AS`, are not modelled);
nothing in the module bounds how many statements, regions or nested queries there are. A derived table without
an alias, as SQLite takes it, is passed over by the visitor (`VisitNameless`), and in SQL
it lends its columns to unqualified references (`NamelessRelation`).

### Completion

An author types a document word by word, asks for completions, and moves about in
the finished text (`Type`, `Move`, `Complete`). `Locate`, `Context`, `Scope`,
`ResolveTable` and `Completions` are the functions of `completion.rs` on the tokens
that are there; `Scope` is the last binding of each name (`Bindings`: `Tables` and the
aliases behind them, `AliasAt`). `LocalTables` are the relations of the statements that
parse at the moment, which an unfinished one does or does not (`parses`). With each token
the document (`draft`) says what SQL wants in its place (`fits`) and of which relations
(`of`): for a relation or an alias, the one it stands for. Offers are reduced to their
kind and name; the list of keywords is one item. `Semicolon` and `Comma` are operators
because the prover's translation does not take the strings themselves.

`Annotated` says which documents are annotated as SQL reads them: exactly the words after
a starter, and after a comma behind a relation or its alias, name relations, and exactly
the words behind those are their aliases (`RangesAreDeclared`); a name means one relation
throughout a statement, and a query-local relation is the only one of its name, in a
document of one statement and without an alias (`NamesAreUnambiguous`); columns are wanted
behind a declared qualifier or in the list of an INSERT, expressions elsewhere
(`WantsAreInPlace`). It speaks of the tokens and their annotations only, not of what the
code makes of them. All documents of `completion_statements` are annotated
(`PlainIsAnnotated` of `MCCompletion`).

## 3. The runs

| Run | Asks | Instance |
|---|---|---|
| `index_saves` | Is a reload ever lost? Is every saved schema served? Does the schema implement `SchemaPromise`? | 2 folders, 1 query file, each saved at any moment |
| `index_quiet` | At rest, are schema and query index those on disk? | as above, changed by other programs twice; folders added and removed at any time; edits wait for the *other* worker |
| `diag_changes` | Does an open document show findings of its own text only? Does a new schema reach it? Does a client that polls come to show what the server knows? | 1 file, 3 editions, 2 schemas; a client that is pushed to or polls; sends interleave freely; opening and checkouts while the workers are idle |
| `diag_calm` | Do closed files show the index, and does the server know which do? | as above, all events while the workers are idle, any verdicts |
| `locks_requests` | Is there any other deadlock than an edit's? Does everything finish as long as edits come alone? | 2 handlers, 2 workers, 1 document; any messages in any order |
| `locks_blocked` | Are edits applied in the end? (no) | 2 handlers, the reload worker |
| `rename_calm` | Is a rename safe while reloads install other relations meanwhile, and applied to the right text? | 3 names, 3 versions, 2 editions; other names of the migrations and the database change, and reloads end, in the middle of a rename |
| `replay_scripts` | Do the supported statements keep the index equal to the database? Which lose a relation? | all scripts of 4 statements without joins, misread ones included; 3 relations, 2 columns |
| `load_sites` | Is each document served by its own crate's migrations, and a detached one by everybody's? Does every context have a driver? | a folder with a crate in a crate, 4 migration directories; some 300 sites, all failures at any place |
| `document_edits` | Are the server's text, tree, tokens, deltas, ranges and completed words those of the client's text? | 2 edits anywhere, or 3 token streams and an edit, or a range, or a completion and an edit, or two sessions and a reload; both encodings and languages |
| `resolve_statements` | Are references the occurrences of what they name, and reports the mistakes? | some 15 000 documents: 2 relations, a local name and an alias in every clause; two statements in one region or in two |
| `completion_statements` | Is what SQL wants at the cursor offered, and nothing else of its kind? | some 850 documents: 2 relations, two aliases, joins, lists, subqueries, calls, the four statements, two statements in a row |

**Why the bounds are enough.** The index hazards need two actors on one folder
and one more folder that is not concerned; a permit is Boolean, so a third save
adds nothing to a second. Two editions after the first let a reading be stale by
one and by two. A report can be overtaken by one newer report of the same file,
and files do not share anything but `published`, whose entries are independent:
one file suffices. Two handlers and two workers give every pair of lock orders; a
third waiter in a first-come-first-served queue repeats the second. A rename
relates the old name and the new one, and a third is what changes beside them. For the replay, a rename chain or a
build-copy-drop-rename script takes two names, a third is a bystander or a view,
and four statements are enough for such a script (create, create as, drop, rename). For a
load, two nested crates and a folder above, between or below them give every
way in which roots can contain each other; a crate reads one or two directories
of at most two files, whose versions and paths disagree, agree or are missing. For
a document, an edit can go wrong in how it reads the text before it, so two are
enough; a delta can be based on the last stream or on one before it, so three
streams are. `Budgets` says how many of each happen in one session. For names, what
can go wrong is that one name is found for another, so the alphabet has a relation
on either side of an alias and of a local name, with one column in common and one
of each its own; queries nest once, as a scope is flat at any depth. For
completions, the context depends on three tokens and one open parenthesis, and the
statements on both sides of a semicolon are enough to confuse two.

**Fairness.** Every worker and every started handler has weak fairness: the
tokio runtime polls a task that is ready, and the steps between awaits end. The
client delivers its notifications and asks for what it wants to know; one that
polls keeps asking, as its next request follows the last answer. `HandlerLocks` has strong fairness of `Poll`
and `Edit`: a handler that is woken again and again is in the poll order each
time, and the shard's unlock wakes its waiter each time. Nothing is assumed of
the user, the editor or other programs. `CHECK_DEADLOCK FALSE` is for instances
that use up their editions, and for those of `HandlerLocks`, where the thread may block
for good: there `OnlyEditsDeadlock` takes the place of the check.

### What the refuted properties show

`locks_blocked` refutes `DocumentsAreSynchronized`: a request holds a document's
guard while it waits for the workspace; a `didChange` of the document blocks the
thread that would have to poll the request (`server.rs:461`).

Further configurations end in a counterexample and document a limit of the
properties above, or a disagreement with what the code says of itself (those are
among the findings of `PROJECT.json`). With `-continue` TLC goes on to the other
documents or statements of a configuration that has several; of several properties
each is refuted when it is checked by itself:

| Configuration | Refutes | Because |
|---|---|---|
| `WorkspaceIndex_folders` | `RootsAreTheClients` | a folder added or removed during a load is undone when the reload installs the roots it began with (`server.rs:791`) |
| `WorkspaceIndex_stale` | `SettledQueryIndex` | a refresh during a reload is overwritten by the older scan |
| `WorkspaceIndex_subsumed` | `RefreshNeverRegresses` | an older reading is applied after a reload |
| `WorkspaceIndex_watchgap` | `SettledSchema` | changes between unregistering and registering are not reported |
| `WorkspaceIndex_custom` | `NoLostReload` | a migration outside a `migrations` directory is unknown during the first load |
| `Diagnostics_wiped` | `SweepsSpareOpenBuffers` | a file with findings is opened; the next sweep clears it and wipes the buffer's findings |
| `Diagnostics_overlaid` | `OpenShowsItsText` | the closed file's report lands on a buffer opened meanwhile |
| `Diagnostics_sweeps` | `ClosedFindingsAreTracked` | two sweeps push in another order than they swap |
| `Diagnostics_late` | `ClosedShowsTheIndex` | a computed report is sent after the empty one of `did_close` |
| `Diagnostics_pulling` | `SchemaReachesOpenDocuments` | a client that pulls is not told that a reload has changed what its documents are checked against |
| `Diagnostics_stale` | `OpenShowsCurrent` | reports of one version under two schemas arrive in the wrong order |
| `Rename_disturbed` | `NeverMerges`, `NeverRenamesDatabaseObjects`, `ReferencesStayDefined` | the user types in the middle of a rename: the collision was checked for another reference than the one renamed (`server.rs:1488`); a migration loses the relation and a reload in the middle leaves only the database's |
| `SchemaReplay_joined` | `LocationsAreDefinitions` | the qualifier of a selected column is dropped |
| `OpenDocuments_unannounced` | `TextIsTheClients` | a change of a document that is not open: the ranged changes after a full text are dropped |
| `WorkspaceLoad_shared` | `MigrationsAreNoQueries` | a `migrate!("../shared")` target is stored with its `..`, and no normalized path starts with it (`workspace.rs:714`) |
| `WorkspaceLoad_merged` | `MigrationsWin` | a merged view takes the last relation of a name, even a database's for a migration's |
| `SchemaReplay_ignored` | `IndexMatchesDatabase`, and with `Misreads` `ExistingAreKnown` | DROP MATERIALIZED VIEW has no arm, CASCADE is not followed, CHANGE COLUMN is passed over; a misread statement makes or renames a relation unseen, or drops one that exists |
| `NameResolution_quirks` | `AliasedLocalsAreKnown`, `ReusedNamesAreKnown`, `DerivedColumnsAreKnown`, `UnqualifiedColumnsAreFound` | an alias of a local relation leads to the local's name, which is looked up among the scope's relations only; one scope for all queries of a statement; a wildcard beside an expression; the first relation that has the column |
| `Completion_quirks` | `OffersJustWhatFits`, `OffersAllInScope` | `INSERT INTO users (SELECT` is taken for a column list; the local relations of other statements shadow tables; the alias of a local relation and a table whose name is a keyword are not known. Each of these documents breaks one clause of `Annotated`: the third, the second twice, the first |

## 4. The proofs

| Theorem | States | For | Assumes |
|---|---|---|---|
| `WorkspaceIndexProofs!TypeCorrect` | `TypeOK` | any folders, files, editions | `WorkspaceAssumption` |
| `ReloadsAreNotLost`, `RestIsFresh`, `ReadingsTracked` | `NoLostReload`, `SettledSchema`, `ReadingsAreTracked` | the same | `CustomFolders = {}`, `~UnwatchedChanges` |
| `RestIsIndexed` | `SettledQueryIndex` | the same | `QuietLoads`, `~UnwatchedChanges` |
| `KeepsItsPromise` | the safety part of `SchemaPromise` | the same | nothing else |
| `DiagnosticsProofs!TypeCorrect` | `TypeOK` | any files, editions, schemas, verdicts | `DiagnosticsAssumption` |
| `BuffersShowTheirText` | `OpenShowsItsText` | the same; any client; any interleaving of sends | `"open" \in Calm` |
| `ClosedFindingsAreRemembered`, `ClosedFindingsAreTheIndexs` | `ClosedFindingsAreTracked`, `ClosedShowsTheIndex` | the same; a client that is pushed to | `Calm = Events`, `SendsYield = FALSE` |
| `HandlerLocksProofs!TypeCorrect`, `HoldersNeverAwait` | `TypeOK`; who holds the workspace lock does not await it, and a writer holds it alone | any handlers, workers, documents | `LockAssumption` |
| `OnlyEditsDeadlocks` | `OnlyEditsDeadlock`: the one way in which everybody waits | the same; any messages in any order | `LockAssumption` |
| `LocksNeverDeadlock` | `EditorsAreAlone => NeverStuck`, at all times | the same | `LockAssumption` |
| `CursorProofs!TypeCorrect` | `TypeOK` of `Rename` | any names and bounds | `RenameAssumption` |
| `VersionedEditsFit` | `AppliedToTheTextSearched` | the same, whatever happens during a rename | the client has `documentChanges` |
| `DatabaseObjectsStay` | `NeverRenamesDatabaseObjects` | the same; reloads end, other relations of the migrations and the database change in the middle | `Steady`: `MidRename` has not `"change"`, and not both `"migrate"` and `"reload"` |
| `RenamesNeverMerge` | `NeverMerges` | the same | that, and not both `"database"` and `"reload"` (`SteadyDatabase`) |
| `RenamedReferencesStayDefined` | `ReferencesStayDefined` | the same | `Steady`, and `IsFiniteSet(Names)` |
| `OffersKnown` | `OffersAreKnown` | any schema, keywords and documents, annotated or not | `CompletionAssumption` |
| `OffersFit`, `OffersComplete` | `OffersJustWhatFits`, `OffersAllInScope` | any schema; documents of any length, any number of statements and nesting; the cursor anywhere | every document is `Annotated` |
| `SchemaReplayProofs!RelationsAreNeverLost` | `RelationsAreNotLost`: only a step that replays a misread statement loses a relation | scripts of any statements of the three groups, an index with whatever they left in it | `ReplayAssumption` |
| `ExistingRelationsAreKnown` | `ExistingAreKnown`, at all times | the same | no `Misread` statement is in `Statements` |
| `TypeCorrect`, `SupportedStatementsMatch` | `TypeOK`; `SupportedStatementsKeepTheMatch`: a step that replays a supported statement keeps index and database alike | any names, columns, numbers of steps; scripts of any statements | `ReplayAssumption` |
| `SupportedScriptsMatch` | `IndexMatchesDatabase`, at all times | the same | no `Leaving` and no `Misread` statement is in `Statements` |
| `SupportedStatementsLocate` | `SupportedStatementsKeepLocations` | the same | `"join"` is not in `Statements` |
| `WorkspaceLoadProofs!TypeCorrect` | `TypeOK` | any sites and failures | `LoadAssumption` |
| `DialectsHaveDrivers`, `CratesAreServed`, `DetachedAreServed` | `ContextsHaveDrivers`, `CratesSeeTheirMigrations`, `DetachedDocumentsSeeAll` | the same | `LoadAssumption` |
| `OpenDocumentsProofs!TextsAgree` | `TextIsTheClients` | texts, changes, batches and sessions of any length; both encodings | `~Unannounced`, `DOMAIN None # Fields` |
| `TokensAgree` | `TokensAreTheTexts` | the same; any streams, reloads and crossings | the same |
| `AnswersAgree` | `AnswersFitTheText` | the same; any range, any caret | the same |
| `TypeCorrect` | `TypeOK` | the same | the same |
| `TreesFit` | `TreeFitsTheText` | the same, opened or not | `DocumentAssumption` |
| `EditGivesSecond`, `DecodeEncode` | the edit between two streams gives the second; what is encoded is decoded | any streams; segments of which no two begin at one place | `DocumentAssumption` |
| `NameResolutionProofs!TypeCorrect` | `TypeOK` | any schema, any documents, queries nested to any depth | `ResolutionAssumption` |
| `Reports` | `ReportsAreTheMistakes` | the same | `DOMAIN Schema # {}` |
| `References` | `ReferencesAreOccurrences` | the same | `ResolutionAssumption` |

An assumption of the last column that is not the module's own excludes what a
configuration of section 3 shows to refute the property, with three exceptions. That
`None` has not the fields of a document (`DOMAIN None # Fields`) is about the model: TLC
does not take the domain of a model value, so that the module cannot assume it. That
there is a relation in the schema (`DOMAIN Schema # {}`) is the code's own condition:
without one it reports nothing, as nothing is known (`resolve.rs:465`). That there are
finitely many names (`IsFiniteSet(Names)`) is for counting the relations that the
migrations define, which are finitely many in any program.

*Reloads.* `NoLostReload` is not inductive: that a running reload holds the
edition on disk has to be known folder by folder, before it is installed.
`ReadingsAreTracked` says so: what is read is current, or a notification is in
flight, or the permit is stored; and at `loaded` nothing is left unread. The
inductive invariant is `IInv == TypeOK /\ NoLostReload /\ ReadingsAreTracked`; TLC
checks its three parts in `index_saves`. The proof has one step per group of
actions and one per action below it: edits put the folder in flight, handlers
turn that into the permit, waking turns the permit into `woken`, and the load
turns that into readings. `SettledSchema` follows, as at rest all the excuses are
gone.

*The query index.* `QInv` says of every query file of an open folder that is not
indexed as it is on disk who will read it (`FileWillBeRead`): a notification, the
queue, the batch of the running refresh, or a reload, which scans all. What makes it
inductive is what the two workers hold: a replacement that is not current has been
announced anew, and a scan that waits to be installed is current. The last is what
`QuietLoads` buys; without it the scan of a reload overwrites a newer refresh.

*The refinement.* `disk`, `roots` and `served` are the variables of
`SchemaPromise`. The proof goes step by step: the install of a reload is a
publication, the edits are edits, a change of the folders is one, and everything
else stutters. `ReadingsWereOnDisk` is the link: what the reload holds was on disk,
is no older than what is served, and at `loaded` is there for all of its folders and
no others. It needs no assumption about who edits what.

*Open buffers.* `OpenInv`: every report on its way to a buffer carries the version
that it was computed from, so the client drops the ones that came too late; sweeps
hold no report for an open buffer; and a buffer that shows findings of an older text
has a handler that still owes it a report (`WillBeReported`), or a request if the
client pulls. That a sweep holds none is what `"open" \in Calm` means.

*Closed files.* `ClosedInv`: one worker runs at a time; its sweep holds what is still
true of the closed files; and a closed file that shows findings is in the published
set, or will be cleared by `did_close` or the sweep (`ToBeCleared`), and shows what the
index says, or will be cleared or swept (`InHand`). Both properties are the values of
this at rest.

*Locks.* A program that awaits the workspace lock releases it next, one that takes a
document's guard awaits the workspace lock next, and an edit comes first
(`ProgramsAreWellFormed`, of the code's handlers). `LInv` adds what the reached state
knows of it: who holds the lock is at its release, who holds a guard is at the lock or
its release, and the queue holds those that are at the lock, each once. So everybody
waits for somebody further on: the lock's holders can go on, or the head of the queue
is granted, or a guard's holder is one of these. An edit alone waits for guards. Those
of a worker are given up, as the worker has a thread of its own; those of a handler are
not, as the blocked thread is the one that would have to poll it: that is
`ServingBlocksItself`, and there is no other way to be stuck (`OnlyEditsDeadlocks`). If
nobody else is handled while a document changes, no such handler exists
(`LocksNeverDeadlock`).

*Load.* `LoadInv` follows the four loops. `ReplayIsFaithful` says how far the replay
is: the statements `Applied` are those of the directories behind and of the files taken
from the present one, and a relation is in the context as a migration's just if the
last of them creates it. At the end of a crate these are all its statements, and
`SchemaFits` says so of what has been built (`CratesFit`), except for a crate that a
warning names. `NothingIsSkipped` says that there is a context for every crate and
folder, so that the routing finds one; that it finds the deepest is `Routing`, where it
matters that the directories are a forest. `ViewsKnowTheirCrates` carries the merged
views. Sequences and numbers are taken care of by lemmas: the greatest of a bounded set
of numbers exists, by well-founded induction (`WFMin`), and so `LastCreates` has a last
statement to speak of; what `MigrationDirsFor` builds recursively is a sequence of
directories, by counting up to its length (`CountUp`, `MigrationDirsType`). The few
facts about numbers that a proof module needs are at its beginning.

*Rename.* `VersionsIdentifyTexts` says that the client's text, the server's and
the one an answer was computed from are equal when their versions are; an edit
that is not refused therefore fits. `Found` says what the handler knows at each step
although reloads end in between: the document is still the client's; what the loaded
context and the migrations say of the two names agrees, as long as they are not both
edited and reloaded, so that a reload takes nothing back (`ReloadAgrees`); what was
resolved is still the target, and the new name is not the migrations'. A relation of the
database may come and go meanwhile, since a target is one of the migrations or of the
query. That the new name is not the database's either is `FoundInDatabase`, which rests on
the same agreement with the database. Each of the combinations of events that
a theorem excludes refutes its property by itself (`Typing`, `MigrationReloads` and
`DatabaseReloads` of `MCRename`).
`Located` says that an answer which renames a migration's relation holds its definition,
and that the new name is free in the migrations that the locations were collected from;
it is for the client to refuse it when they have changed since. Putting one name in the
place of another that is there, where it is not, keeps the number of relations.

*Replay.* What a statement does to the unknown relations is shown statement by statement,
for any index: what the database creates, or renames to, the index puts under the same
name, a rename of an unknown relation apart, and what it drops beyond that is dropped by
the database too. With the misread statements left out nothing is ever unknown
(`ExistingRelationsAreKnown`), and such a rename is then none. That the columns are the same needs `ReplayInv`: no relation
of the database has two columns of one name, which its checks preserve and the index
relies on, as it drops every column of a name where the database drops one. The proof
compares lists of columns one by one (`SameNames`) and shows of each way to build a list
that it takes two such lists to two such lists: appending, renaming one, retaining the
others (`Retained`, by counting up), the columns of one or two relations in a row
(`FlattenFrom`), the column that a view selects. The proof of `SupportedStatementsLocate` is the
same with equal lists in place of equal names (`Located`).

*Documents.* A measure of a text is a recursive function over it; restated as a function
that satisfies the recursion at every index (`Sums`, `Scans`, `Applies`), it is reasoned
about by counting up. From that follow the facts on carets: their byte offsets are in
their order (`OffsetOrder`), lines start behind the breaks before them
(`LineStartsFacts`), and `OffsetAt` finds the caret that a position means
(`OffsetOfMeant`) and some caret for any other (`OffsetAtClamps`). `Means` says what a
position means without reference to the code: the caret itself, or one at the end of its
line or of the text that the position is past. So a change replaces what the client
replaced (`ApplyChangeReplaces`), and the leaves that `TreeEdit` keeps are those of the
new text before the change and behind it, where rows move by the difference of lines and
columns only in the last row that was changed (`CaretsBefore`, `CaretsAfter`,
`TreeEditFits`). `TextIsTheClients` is not inductive: `InSync` adds that the messages on
their way and the changes not sent, taken for what the client means by them, lead from
the text of the last notification to the client's buffer (`Follows`, `Leads`). Requests
lead nowhere, so one may be answered before others (`RequestRemoved`).

*Token streams.* On the one side there are the tokens of a parse, split line by line, and
for a Rust source those of each region, moved to where the region is; on the other the
pieces that the client sees. `SegmentsArePieces` shows them equal for a text as it is: a
token, cut at the ends of its lines (`OfLineIsCut`), is a longest run of one class on one
line (`CutIsPiece`, `PieceIsCut`). `RegionsAreShown` shows it for the regions: `Extract`
finds the literals by the quotes before them (`Extracted`), and a run of a region is one of
the host, as measures and lines of a part are those of the whole from where it begins
(`HostedSeg`). Longest runs begin at different places (`ShownOnce`), so the segments have an
order, the encoder's differences are natural numbers, and the decoder adds them up again
(`DecodeEncode`). `TokensAreTheTexts` itself needs `InSync` and `Prepared`: what the caches
hold is what would be computed anew (`IsFresh`), which rests on the shifted tree, and of
one number only one stream was ever sent (`StreamsFit`), which the client, the server and
the requests on their way may hold; so the baseline that a delta names is the one the
client applies it to (`DeltaIsWhole`), and the edit gives the whole stream
(`EditGivesSecond`: the common prefix and suffix do not overlap).

*Ranges and words.* What an answer is about is decided when its handler begins, and the
messages before the request are requests, so the positions in it are carets of the text
that the server has (`RequestAsks`; `Follows` says of each request that it asks for carets
of the text of its time). Carets have the order of their positions (`CaretOrder`), and a
piece lies on one line, so it reaches into a range just if the code's comparison of lines
and columns says so (`RangeSegments`). Of the runs of one class only one contains the place
before the caret (`RunsMeet`), which is the last token that starts before it, so
`word_range` finds the word and nothing else (`WordRangeFacts`, `AcceptEditFacts`); a word
is never cut by a line, a literal may be (`WordsUnbroken`). In a Rust source at most one
literal contains the caret (`LiteralsApart`), `ToEmbedded` gives the caret of its text and
`ToHost` undoes it (`RegionPositions`), and the words of the region are those of the screen
(`RegionEdit`). `AnswersFitTheText` is then inductive together with `InSync` and `Prepared`; so are the
types (`Typed`): that a token has a length and a place after the one before it, and that
an answer is in positions of the text, follow from what the two theorems show of it.

*Names.* Statements do not see each other, so the argument is about one, and what has
been collected of it and is still to be visited is one record (`Now`). The two readings of
a name, the code's flat scope and what SQL makes visible where it stands, meet at the end
only: a derived table is visible to the expressions that are visited before it, so its name
has a meaning when the scope does not have it yet. `Known` is what makes this inductive:
that a name means a relation has been recorded, in the scope and, for a local one, among the
local relations, or a node that is still to be visited will record it (`Promises`).
`StatementFits` says so of each candidate and of each node's context, and that the scope and
the local relations hold nothing but what a candidate means; the invariant `Sound` is this
for all statements. The proof has one lemma for what each callback records
(`RelationVisited` and so on), and two for what a query makes visible to its parts:
common table expressions each to those after them (`SeenFacts`, by counting up), and FROM
items to the expressions (`RangesFacts`). With nothing left to visit, what is known is
recorded, and in a statement with plain names the lookups find what is meant: by name
(`ViaIsMeant`), by a qualifier or none (`ColumnIsMeant`), and the relation that a column
belongs to (`OwnerIsMeant`). The two properties compare the same things in the same words
then. That names are plain is part of the properties; `NameResolution_quirks` has what
happens otherwise.

*Completions.* `OfferInv` is what the three actions keep: the offers are `Completions` of
what is there, so the argument is about one text and one cursor. The tokens that `Locate`
cuts out are those of the statement around the cursor (`LocateFacts`, `InStatement`). Its
`Tables` are the namings of the document in that statement that have been typed: `Tables`
is read from left to right, so two readings would have a first place where they differ
(`EndsOfTables`, `TablesAreNamings`, by the least counterexample); with them the
`Bindings` are its declarations (`BindingsFacts`). A name that is bound is therefore bound
to what it means there (`ScopeFacts`), and `resolve_table` finds the columns of that
(`ResolvesToColumns`). What the context is follows from the token before the word: for a
column list it is that between its parenthesis and the cursor none opens or closes; for an
expression, that every column list before it has been closed, so that another parenthesis,
or none, is the innermost open one (`CountFacts`, `OpensAgain`, `ElsewhereContext`). That
only what is there is offered needs none of this (`OffersKnown`).

**Only model-checked.** Liveness (`EditsAreServed`, `SchemaReachesOpenDocuments`,
`PollsSettle`, `EverythingFinishes`) and with it the fairness part of
`SchemaPromise`, as the prover handles neither fairness nor ENABLED. Every other property
that a passing run checks is the statement of a theorem.

## 5. The plan

Done: the modules above, in the order `WorkspaceIndex`, `Diagnostics`,
`HandlerLocks`, `Rename`, `SchemaReplay`, `WorkspaceLoad`, `OpenDocuments`, the
pulls of `Diagnostics`, `NameResolution`, `Completion`.

What would come next: `WorkspaceLoad` composed with `WorkspaceIndex` in place of its
atomic `LoadFolder`, so that files change in the middle of a load.

## 6. What is not modelled

Hover, quick fixes and symbols are pure functions of a parse and a schema whose
substance is wording, layout and edit distances; only their locking is modelled.
SQL parsing is the external `sqlparser` crate with a recovery loop, of which
`OpenDocuments` has the tokens before a failure and `Completion` the statements
that do not parse; which expressions and type names a visitor meets is reduced to
names. The extraction of embedded SQL is a tree-sitter walk, of which
`OpenDocuments` has the leaves and the regions, not which macros are sqlx's. Carriage returns
are ordinary characters of a line, as in the code. `cargo metadata` and the walks
of the disk are external and part of what a load finds (a `sqlx.toml` that cannot
be read counts as none). The catalogue queries of `introspect/` are I/O against
three databases. CREATE TABLE ... LIKE (whose columns the index does not have) and the
types, defaults and constraints of columns are left out of the replay. Start-up and the VS Code extension have no state. The
tower-lsp-server, tokio and DashMap libraries and the client are modelled from
how this code uses them and are marked external.
