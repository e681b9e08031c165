---------------------------- MODULE WorkspaceLoad ----------------------------
(***************************************************************************)
(* Building a Workspace from what is on disk (src/src/workspace.rs,         *)
(* src/src/schema/migrations.rs, src/src/introspect/mod.rs): for every      *)
(* workspace folder one context per sqlx crate and one for the rest of the  *)
(* folder, each with the migrations it consumes and what a live database    *)
(* adds to them; then the merged view for detached documents, and the scan  *)
(* for query sources.  Anything on the way may fail, and the load goes on.  *)
(* WorkspaceIndex says when loads happen and how their result is installed. *)
(*                                                                          *)
(* A site is what a load finds; it does not change during the load.  A      *)
(* migration file is one statement, CREATE or DROP; SchemaReplay has the    *)
(* others.  Paths are directories; their files are told apart only where    *)
(* they are migrations.                                                     *)
(***************************************************************************)
EXTENDS Naturals, FiniteSets, Sequences, SequencesExt

CONSTANTS
    Dirs,        \* directories, free of symlinks
    Ancestors,   \* Ancestors[d]: d and the directories that contain it
    Names,       \* names of relations
    Backends,    \* DatabaseKind::ALL, in the order of priority
    None,
    Panics,      \* whether the tasks that read the disk may panic
    Sites        \* what loads may find

Kinds == ToSet(Backends)

(* The statement of a migration file, its version prefix, and its place in   *)
(* the order of the paths.                                                  *)
Files == [version : Nat \cup {None}, path : Nat, down : BOOLEAN,
          readable : BOOLEAN, statement : {"create", "drop"}, name : Names]

SiteRecords ==
    [roots : Seq(Dirs),                  \* the workspace folders
     detected : [Dirs -> Seq(Dirs)],     \* sqlx_members of `cargo metadata` there
     enabled : SUBSET Kinds,             \* the workspace's driver features
     drivers : [Dirs -> SUBSET Kinds],   \* the crates' own
     configured : [Dirs -> Dirs],        \* SqlxConfig::migrations_dir
     invocations : [Dirs -> Seq(Dirs \cup {"default", "absolute"})], \* migrate!()
     missing : SUBSET Dirs,              \* directories that do not exist
     unlistable : SUBSET Dirs,           \* ... that cannot be enumerated
     files : [Dirs -> SUBSET Files],
     dotenv : [Dirs -> Kinds \cup {None}], \* the DATABASE_URL of a .env file
     offline : BOOLEAN,                  \* SQLX_OFFLINE
     live : SUBSET Names]                \* the relations of the database

ASSUME LoadAssumption ==
    /\ Ancestors \in [Dirs -> SUBSET Dirs]
    \* the directories are a forest
    /\ \A d \in Dirs :
         /\ d \in Ancestors[d]
         /\ IsFiniteSet(Ancestors[d])
         /\ \A e \in Ancestors[d] :
              /\ Ancestors[e] \subseteq Ancestors[d]
              /\ d \in Ancestors[e] => e = d
              /\ \A f \in Ancestors[d] : e \in Ancestors[f] \/ f \in Ancestors[e]
    /\ None \notin Nat \cup Kinds
    /\ Panics \in BOOLEAN
    /\ Backends \in Seq(STRING)
    /\ "sqlite" \in Kinds
    /\ \A s \in Sites :
         /\ s \in SiteRecords
         \* a workspace without a driver fails the detection
         /\ s.enabled = {} => \A d \in Dirs : s.detected[d] = <<>>

VARIABLES
    site,
    pc,
    folders,         \* the folders that are left
    crates,          \* the crates of the present folder that are left
    members,         \* the contexts of the others
    context,         \* the context that is being built
    dirs,            \* the migration directories that are left for it
    files,           \* the migrations left in the first of them
    applied,         \* the directories it has loaded
    \* the Workspace
    contexts, folderContexts, fallback,
    migrationDirs,
    queries,         \* the directories whose .sql files are query documents
    warned           \* the roots whose migrations were logged as not loaded

result   == <<contexts, folderContexts, fallback, migrationDirs, queries>>
building == <<context, dirs, files, applied>>
vars     == <<site, pc, folders, crates, members, building, result, warned>>

Tables   == [origin : {"migration", "database"}, from : Dirs]
Schemas  == UNION {[S -> Tables] : S \in SUBSET Names}
Contexts == [root : Dirs \cup {None}, kind : Kinds, schema : Schemas]
Nowhere  == [root |-> None, kind |-> "sqlite", schema |-> <<>>]

(* A migration directory is spelled relative to its crate; `crate.join(path)` *)
(* is not normalized.                                                        *)
Spellings == [crate : Dirs, dir : Dirs]

TypeOK ==
    /\ site \in Sites
    /\ pc \in {"folder", "crate", "open", "replay", "introspect", "merge", "done"}
    /\ folders \in Seq(Dirs)
    /\ crates \in Seq(Dirs)
    /\ members \in Seq(Contexts)
    /\ context \in Contexts
    /\ dirs \in Seq(Spellings)
    /\ files \subseteq Files
    /\ applied \subseteq Spellings
    /\ contexts \in Seq(Contexts)
    /\ folderContexts \in Seq(Contexts)
    /\ fallback \in Contexts
    /\ migrationDirs \subseteq Spellings
    /\ queries \subseteq Dirs
    /\ warned \subseteq Dirs

Init ==
    /\ site \in Sites
    /\ pc = "folder"
    /\ folders = site.roots
    /\ crates = <<>>
    /\ members = <<>>
    /\ context = Nowhere
    /\ dirs = <<>>
    /\ files = {}
    /\ applied = {}
    /\ contexts = <<>>
    /\ folderContexts = <<>>
    /\ fallback = Nowhere
    /\ migrationDirs = {}
    /\ queries = {}
    /\ warned = {}
-----------------------------------------------------------------------------
(* Configuration and environment.                                           *)
Depth(d) == Cardinality(Ancestors[d])

(* The first of the backends, in their order, that is in a set.              *)
FirstOf(S) == Backends[SelectInSeq(Backends, LAMBDA k : k \in S)]

(* Detection::from_features; detection fails without any driver.             *)
GlobalKind == IF site.enabled = {} THEN "sqlite" ELSE FirstOf(site.enabled)

(* Faulty variant: the scheme of the URL decides, whatever the crate declares. *)
ResolveKindByScheme(url, declared) ==
    IF url # None THEN url
    ELSE IF declared # {} THEN FirstOf(declared)
    ELSE GlobalKind

ResolveKind(url, declared) ==
    LET available == IF declared = {} THEN site.enabled ELSE declared
    IN  IF url # None /\ (available = {} \/ url \in available) THEN url
        ELSE IF declared # {} THEN FirstOf(declared)
        ELSE GlobalKind

(* discover_macro_env: outer .env files overwrite inner ones.                *)
DatabaseUrl(d) ==
    LET having == {a \in Ancestors[d] : site.dotenv[a] # None}
    IN  IF having = {} THEN None
        ELSE site.dotenv[CHOOSE a \in having : \A b \in having : Depth(a) <= Depth(b)]

(* A crate's migrate!() targets, in the order of its sources and each once, or *)
(* else the configured directory.                                            *)
MigrationDirsFor(c) ==
    LET named == site.invocations[c]
        Target(i) == IF named[i] = "default" THEN site.configured[c] ELSE named[i]
        found[i \in 0..Len(named)] ==
            IF i = 0 THEN <<>>
            ELSE IF named[i] = "absolute" \/ Contains(found[i - 1], Target(i))
                 THEN found[i - 1]
                 ELSE Append(found[i - 1], Target(i))
    IN  IF found[Len(named)] = <<>> THEN <<site.configured[c]>>
        ELSE found[Len(named)]

(* Faulty variant: the crate is forgotten.                                   *)
SpelledBare(c, found) == found

Spelled(c, found) == [i \in DOMAIN found |-> [crate |-> c, dir |-> found[i]]]
-----------------------------------------------------------------------------
(* Workspace::load and load_folder.                                          *)
DetectFolder ==
    /\ pc = "folder"
    /\ folders # <<>>
    /\ crates' = site.detected[Head(folders)]
    /\ members' = <<>>
    /\ pc' = "crate"
    /\ UNCHANGED <<site, folders, building, result, warned>>

Start(d, declared, found) ==
    /\ context' = [root |-> d, kind |-> ResolveKind(DatabaseUrl(d), declared),
                   schema |-> <<>>]
    /\ dirs' = Spelled(d, found)
    /\ files' = {}
    /\ applied' = {}
    /\ pc' = "open"

(* DbContext::load for the next crate ...                                    *)
StartCrate ==
    /\ pc = "crate"
    /\ crates # <<>>
    /\ Start(Head(crates), site.drivers[Head(crates)], MigrationDirsFor(Head(crates)))
    /\ UNCHANGED <<site, folders, crates, members, result, warned>>

(* ... and the folder's own configuration after the last.                    *)
StartFolder ==
    /\ pc = "crate"
    /\ crates = <<>>
    /\ Start(Head(folders), {}, <<site.configured[Head(folders)]>>)
    /\ UNCHANGED <<site, folders, crates, members, result, warned>>

OfFolder == crates = <<>>
Warn     == warned' = warned \cup {context.root}
-----------------------------------------------------------------------------
(* apply_migrations, directory by directory.                                 *)
InReplay == UNCHANGED <<site, folders, crates, members, result>>

OpenDirectory ==
    /\ pc = "open"
    /\ dirs # <<>>
    /\ Head(dirs).dir \notin site.missing \cup site.unlistable
    /\ files' = {f \in site.files[Head(dirs).dir] : ~f.down}
    /\ pc' = "replay"
    /\ UNCHANGED <<context, dirs, applied, warned>>
    /\ InReplay

(* A missing directory is passed over, one that cannot be read is logged.    *)
PassDirectory ==
    /\ pc = "open"
    /\ dirs # <<>>
    /\ Head(dirs).dir \in site.missing \cup site.unlistable
    /\ IF Head(dirs).dir \in site.missing THEN UNCHANGED warned ELSE Warn
    /\ dirs' = Tail(dirs)
    /\ UNCHANGED <<pc, context, files, applied>>
    /\ InReplay

(* Faulty variant: by path alone.                                            *)
BeforeByPath(f, g) == f.path < g.path

(* Files without a version come first; equal versions go by path.            *)
Before(f, g) ==
    \/ f.version = g.version /\ f.path < g.path
    \/ f.version = None /\ g.version # None
    \/ f.version # None /\ g.version # None /\ f.version < g.version

IsNext(f) == f \in files /\ \A g \in files \ {f} : Before(f, g)

Put(schema, n, table) ==
    [m \in DOMAIN schema \cup {n} |-> IF m = n THEN table ELSE schema[m]]

ApplyMigration(f) ==
    /\ pc = "replay"
    /\ IsNext(f)
    /\ f.readable
    /\ context' = [context EXCEPT !.schema =
         IF f.statement = "create"
         THEN Put(@, f.name, [origin |-> "migration", from |-> Head(dirs).dir])
         ELSE Restrict(@, DOMAIN @ \ {f.name})]
    /\ files' = files \ {f}
    /\ UNCHANGED <<pc, dirs, applied, warned>>
    /\ InReplay

(* An unreadable file ends the directory; what was applied stays.            *)
FailMigration(f) ==
    /\ pc = "replay"
    /\ IsNext(f)
    /\ ~f.readable
    /\ Warn
    /\ files' = {}
    /\ dirs' = Tail(dirs)
    /\ pc' = "open"
    /\ UNCHANGED <<context, applied>>
    /\ InReplay

CloseDirectory ==
    /\ pc = "replay"
    /\ files = {}
    /\ applied' = applied \cup {Head(dirs)}
    /\ dirs' = Tail(dirs)
    /\ pc' = "open"
    /\ UNCHANGED <<context, files, warned>>
    /\ InReplay

EndReplay ==
    /\ pc = "open"
    /\ dirs = <<>>
    /\ pc' = "introspect"
    /\ UNCHANGED <<building, warned>>
    /\ InReplay

(* The blocking task panics: an empty context with the default environment.   *)
LoadingTaskFails ==
    /\ Panics
    /\ pc \in {"open", "replay"}
    /\ Warn
    /\ context' = [context EXCEPT !.kind = GlobalKind, !.schema = <<>>]
    /\ dirs' = <<>>
    /\ files' = {}
    /\ applied' = {}
    /\ pc' = "merge"
    /\ InReplay
-----------------------------------------------------------------------------
(* The live database.  A folder asks it only if it has no crates.            *)
AsksDatabase == /\ ~site.offline
                /\ DatabaseUrl(context.root) # None
                /\ OfFolder => members = <<>>

MergeDatabaseTables(schema) ==
    [n \in DOMAIN schema \cup site.live |->
       IF n \in DOMAIN schema THEN schema[n]
       ELSE [origin |-> "database", from |-> context.root]]

Introspect ==
    /\ pc = "introspect"
    /\ AsksDatabase
    /\ DatabaseUrl(context.root) = context.kind
    /\ context' = [context EXCEPT !.schema = MergeDatabaseTables(@)]
    /\ pc' = "merge"
    /\ UNCHANGED <<dirs, files, applied, warned>>
    /\ InReplay

(* Nobody is asked, the URL is not one of the backend's, the database does    *)
(* not answer, or not in time.                                              *)
GoOnWithout ==
    /\ pc = "introspect"
    /\ pc' = "merge"
    /\ UNCHANGED <<building, warned>>
    /\ InReplay
-----------------------------------------------------------------------------
(* A crate's context is done.                                                *)
EndCrate ==
    /\ pc = "merge"
    /\ ~OfFolder
    /\ members' = Append(members, context)
    /\ migrationDirs' = migrationDirs \cup applied
    /\ crates' = Tail(crates)
    /\ pc' = "crate"
    /\ UNCHANGED <<site, folders, building, contexts, folderContexts, fallback,
                   queries, warned>>

(* Every relation of the others is inserted: the last one of a name stays.    *)
MergeAll(schema, others) ==
    LET having(n) == {i \in DOMAIN others : n \in DOMAIN others[i].schema}
    IN  [n \in DOMAIN schema \cup UNION {DOMAIN others[i].schema : i \in DOMAIN others} |->
           IF having(n) = {} THEN schema[n] ELSE others[Max(having(n))].schema[n]]

(* Faulty variant: the crates are left to themselves.                        *)
EndFolderUnmerged ==
    /\ pc = "merge"
    /\ OfFolder
    /\ contexts' = contexts \o members
    /\ folderContexts' = Append(folderContexts, context)
    /\ migrationDirs' = migrationDirs \cup applied
    /\ folders' = Tail(folders)
    /\ pc' = "folder"
    /\ UNCHANGED <<site, crates, members, building, fallback, queries, warned>>

EndFolder ==
    /\ pc = "merge"
    /\ OfFolder
    /\ contexts' = contexts \o members
    /\ folderContexts' =
         Append(folderContexts, [context EXCEPT !.schema = MergeAll(@, members)])
    /\ migrationDirs' = migrationDirs \cup applied
    /\ folders' = Tail(folders)
    /\ pc' = "folder"
    /\ UNCHANGED <<site, crates, members, building, fallback, queries, warned>>

(* Path::starts_with compares component by component: a directory that is not *)
(* below its crate is spelled with `..` and is a prefix of no normal path.   *)
StartsWith(d, spelling) == /\ spelling.crate \in Ancestors[spelling.dir]
                           /\ spelling.dir \in Ancestors[d]

(* QueryDocument::scan and read.                                             *)
ScanQueries ==
    queries' = {d \in Dirs \ site.missing :
                  /\ site.files[d] # {}
                  /\ Ancestors[d] \cap ToSet(site.roots) # {}
                  /\ \A m \in migrationDirs : ~StartsWith(d, m)}

EndLoad ==
    /\ pc = "folder"
    /\ folders = <<>>
    /\ fallback' = [root |-> None,
                    kind |-> IF folderContexts = <<>> THEN "sqlite"
                             ELSE Head(folderContexts).kind,
                    schema |-> MergeAll(<<>>, folderContexts)]
    /\ ScanQueries
    /\ pc' = "done"
    /\ UNCHANGED <<site, folders, crates, members, building, contexts,
                   folderContexts, migrationDirs, warned>>
-----------------------------------------------------------------------------
Replay == \/ OpenDirectory \/ PassDirectory \/ CloseDirectory \/ EndReplay
          \/ LoadingTaskFails
          \/ \E f \in files : ApplyMigration(f) \/ FailMigration(f)

Next == \/ DetectFolder \/ StartCrate \/ StartFolder
        \/ Replay
        \/ Introspect \/ GoOnWithout
        \/ EndCrate \/ EndFolder \/ EndLoad

Spec == Init /\ [][Next]_vars
-----------------------------------------------------------------------------
(* Which context serves a document.                                          *)
Containing(some, d) == {i \in DOMAIN some : some[i].root \in Ancestors[d]}

(* max_by_key: the last of the deepest.                                      *)
DeepestContaining(some, d) ==
    some[CHOOSE i \in Containing(some, d) :
           \A j \in Containing(some, d) :
              \/ Depth(some[j].root) < Depth(some[i].root)
              \/ some[j].root = some[i].root /\ j <= i]

ContextFor(d) ==
    IF Containing(contexts, d) # {} THEN DeepestContaining(contexts, d)
    ELSE IF Containing(folderContexts, d) # {} THEN DeepestContaining(folderContexts, d)
    ELSE fallback
-----------------------------------------------------------------------------
(* What the migrations of a crate say, all of them read: a relation is there  *)
(* if the last statement about it creates it.                               *)
Loaded    == pc = "done"
Crates    == UNION {ToSet(site.detected[r]) : r \in ToSet(site.roots)}
Consumed(c) == LET found == MigrationDirsFor(c)
               IN  {i \in DOMAIN found : found[i] \notin site.missing}

Statements(c, n) ==
    {s \in Consumed(c) \X UNION {site.files[d] : d \in Dirs} :
       /\ s[2] \in site.files[MigrationDirsFor(c)[s[1]]]
       /\ ~s[2].down
       /\ s[2].name = n}

Version(f) == IF f.version = None THEN 0 ELSE f.version + 1
Earlier(s, t) ==
    \/ s[1] < t[1]
    \/ s[1] = t[1] /\ Version(s[2]) < Version(t[2])
    \/ s[1] = t[1] /\ Version(s[2]) = Version(t[2]) /\ s[2].path <= t[2].path

LastCreates(statements) ==
    \E last \in statements : /\ last[2].statement = "create"
                             /\ \A s \in statements : Earlier(s, last)

Declares(c, n) == LastCreates(Statements(c, n))

(* Every document in a crate is served against all that the crate's           *)
(* migrations declare and nothing they do not, with its live database for     *)
(* the rest, unless a warning says why not (workspace.rs: "every document is  *)
(* served by the context of the crate that contains it"; "Failures degrade    *)
(* per component and are reported in the returned log lines").               *)
NearestCrate(d) ==
    CHOOSE c \in Crates \cap Ancestors[d] :
        \A e \in Crates \cap Ancestors[d] : Depth(e) <= Depth(c)

CratesSeeTheirMigrations == Loaded => \A d \in Dirs :
    Crates \cap Ancestors[d] # {} /\ NearestCrate(d) \notin warned =>
        LET schema == ContextFor(d).schema
        IN  \A n \in Names :
              Declares(NearestCrate(d), n) <=>
                 n \in DOMAIN schema /\ schema[n].origin = "migration"

(* A document outside every crate knows every relation that any crate of its   *)
(* folder declares, one outside every folder those of all of them             *)
(* (workspace.rs: "folder's crates merged"; "workspace-wide merged view").    *)
DetachedDocumentsSeeAll == Loaded => \A d \in Dirs, r \in ToSet(site.roots) :
    \/ Crates \cap Ancestors[d] # {}
    \/ r \notin Ancestors[d] /\ Ancestors[d] \cap ToSet(site.roots) # {}
    \/ \E e \in Ancestors[d] \cap ToSet(site.roots) : Depth(e) > Depth(r)
    \/ \A c \in ToSet(site.detected[r]) \ warned, n \in Names :
          Declares(c, n) => n \in DOMAIN ContextFor(d).schema

(* No context speaks a dialect that its crate has no driver for (workspace.rs, *)
(* resolve_kind: "the URL scheme decides, gated on that driver being          *)
(* available").                                                             *)
ContextsHaveDrivers == Loaded => \A i \in DOMAIN contexts :
    LET c == contexts[i].root
    IN  c \notin warned =>
          contexts[i].kind \in IF site.drivers[c] # {} THEN site.drivers[c]
                                                      ELSE site.enabled

(* What was replayed as a migration is not indexed as a query, too            *)
(* (workspace.rs, QueryDocument::scan: "`.sql` files outside the migration    *)
(* directories"; migration_dirs: "Every migrations directory the schema       *)
(* indexes were built from").                                                *)
MigrationsAreNoQueries == Loaded => \A i \in DOMAIN contexts :
    LET schema == contexts[i].schema
    IN  \A n \in DOMAIN schema :
          schema[n].origin = "migration" => schema[n].from \notin queries

(* In the merged views, too, the definition of a migration is preferred to     *)
(* what a live database says (schema/mod.rs: "Migration definitions win       *)
(* because they carry source locations; the database fills in objects        *)
(* created outside them").                                                   *)
MigrationsWin == Loaded => \A i \in DOMAIN contexts, n \in Names :
    /\ n \in DOMAIN contexts[i].schema
    /\ contexts[i].schema[n].origin = "migration"
    => fallback.schema[n].origin = "migration"
-----------------------------------------------------------------------------
(* The inductive invariant behind these properties.                          *)

(* The context in hand is that of the next crate, or of the folder.           *)
Building == pc \in {"open", "replay", "introspect", "merge"}

InPlace ==
    /\ pc = "crate" \/ Building => folders # <<>>
    /\ Building => context.root = IF crates = <<>> THEN Head(folders)
                                                   ELSE Head(crates)
    /\ pc = "replay" => dirs # <<>>
    /\ Loaded => folders = <<>>

(* No crate is passed over and none is made up, nor is a folder.              *)
RootsOf(some) == {some[i].root : i \in DOMAIN some}

NothingIsSkipped ==
    /\ RootsOf(folderContexts) \cup ToSet(folders) = ToSet(site.roots)
    /\ RootsOf(contexts) \subseteq Crates
    /\ \A r \in RootsOf(folderContexts) :
          ToSet(site.detected[r]) \subseteq RootsOf(contexts)
    /\ pc = "crate" \/ Building =>
          ToSet(site.detected[Head(folders)]) = ToSet(crates) \cup RootsOf(members)

(* What a context has been given, unless a warning says why not: the dialect   *)
(* of a driver, and what its crate's migrations declare.                      *)
KindFits(c) ==
    c.root \notin warned =>
        c.kind \in IF site.drivers[c.root] # {} THEN site.drivers[c.root]
                                                ELSE site.enabled

IsMigrated(schema, n) ==
    n \in DOMAIN schema /\ schema[n].origin = "migration"

SchemaFits(c) ==
    c.root \notin warned =>
        \A n \in Names : Declares(c.root, n) <=> IsMigrated(c.schema, n)

CratesFit ==
    /\ \A i \in DOMAIN contexts : KindFits(contexts[i]) /\ SchemaFits(contexts[i])
    /\ \A i \in DOMAIN members : KindFits(members[i]) /\ SchemaFits(members[i])
    /\ Building /\ crates # <<>> => KindFits(context)

(* How far the replay is: the statements of the directories behind it, and of  *)
(* the present one those before the files that are left.                      *)
Behind == Len(MigrationDirsFor(context.root)) - Len(dirs)

Applied(n) ==
    {s \in Statements(context.root, n) :
       s[1] <= Behind \/ (pc = "replay" /\ s[1] = Behind + 1 /\ s[2] \notin files)}

Ups(d) == {f \in site.files[d] : ~f.down}

ReplayIsFaithful ==
    Building /\ crates # <<>> /\ context.root \notin warned =>
        /\ Behind >= 0
        /\ \A i \in 1..Len(dirs) :
              dirs[i].dir = MigrationDirsFor(context.root)[Behind + i]
        /\ pc \in {"introspect", "merge"} => dirs = <<>>
        /\ pc = "replay" => LET d == Head(dirs).dir IN
              /\ d \notin site.missing
              /\ files \subseteq Ups(d)
              /\ \A g \in Ups(d) \ files, f \in files : Before(g, f)
        /\ \A n \in Names :
              LastCreates(Applied(n)) <=> IsMigrated(context.schema, n)

(* The merged views have what the crates declare.                            *)
Knows(schema, r) ==
    \A c \in ToSet(site.detected[r]) \ warned, n \in Names :
        Declares(c, n) => n \in DOMAIN schema

ViewsKnowTheirCrates ==
    /\ \A i \in DOMAIN folderContexts :
          Knows(folderContexts[i].schema, folderContexts[i].root)
    /\ Loaded => \A r \in ToSet(site.roots) : Knows(fallback.schema, r)

LoadInv == /\ TypeOK
           /\ InPlace
           /\ NothingIsSkipped
           /\ CratesFit
           /\ ReplayIsFaithful
           /\ ViewsKnowTheirCrates
=============================================================================
