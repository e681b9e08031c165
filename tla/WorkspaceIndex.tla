--------------------------- MODULE WorkspaceIndex ---------------------------
(***************************************************************************)
(* How sqlx-lsp keeps its in-memory picture of the workspace in step with   *)
(* the disk (src/src/server.rs, src/src/workspace.rs).  The state is the    *)
(* part of ServerState and Workspace that is rebuilt: the folder roots, the *)
(* schema contexts and the query index.  Two background workers rebuild it: *)
(* the reload worker replaces all of it, the query-index worker replaces    *)
(* the entries of single files.  They share one RwLock<Workspace>, but each *)
(* holds it only for a moment: between reading the disk and installing what *)
(* was read, anything else may run.                                         *)
(*                                                                          *)
(* A "source" is a unit of change on disk: a folder stands for everything   *)
(* its contexts are built from (migrations, Cargo.toml, sqlx.toml, .env), a *)
(* query file for one .rs or .sql file outside the migration directories.   *)
(* Contents are numbered editions.  Documents, diagnostics and requests are *)
(* in other modules; the publication that ends a reload or a refresh does   *)
(* not touch this state.                                                    *)
(***************************************************************************)
EXTENDS Naturals

CONSTANTS
    Folders,             \* workspace folders the client may have open
    QueryFiles,          \* query sources of the workspace
    Home,                \* Home[f]: the folder that query file f lies in
    CustomFolders,       \* folders whose migrations are in a migrate!() target
                         \* that has no "migrations" component in its path
    Absent,              \* no context loaded, no index entry
    (* What the client and other programs do.                              *)
    InitialFolders,      \* the folders of the initialize request
    FolderEdits,         \* whether folders are added and removed mid-session
    Saves,               \* the sources that are saved from the editor
    Batches,             \* the sets of sources other tools change at once
    UnwatchedChanges,    \* whether they do so while no watcher is registered
    QuietLoads,          \* whether edits wait for the other worker to be idle
    DynamicRegistration, \* the client's didChangeWatchedFiles capability
    MaxEdition           \* bound on the editions of one source

Sources == Folders \cup QueryFiles
Edition == 0..MaxEdition

ASSUME WorkspaceAssumption ==
    /\ Folders \cap QueryFiles = {}
    /\ Home \in [QueryFiles -> Folders]
    /\ CustomFolders \subseteq Folders
    /\ InitialFolders \subseteq Folders
    /\ Saves \subseteq Sources
    /\ Batches \subseteq SUBSET Sources
    /\ FolderEdits \in BOOLEAN
    /\ UnwatchedChanges \in BOOLEAN
    /\ QuietLoads \in BOOLEAN
    /\ DynamicRegistration \in BOOLEAN
    /\ MaxEdition \in Nat
    /\ Absent \notin Nat

VARIABLES
    \* the disk and the client
    disk,            \* the edition of every source on disk
    clientFolders,   \* the folders the client has open
    watching,        \* whether the client holds our watcher registration
    saved,           \* didSave notifications on their way
    watched,         \* didChangeWatchedFiles notifications on their way
    \* ServerState.workspace
    roots,           \* Workspace::roots
    served,          \* contexts: the edition each folder's schema was built from
    index,           \* query_documents: the edition each entry was read at
    \* the wake-ups of the workers
    reloadPermit,    \* the permit stored in reload_notify
    refreshPermit,   \* the permit stored in query_refresh_notify
    pending,         \* pending_query_refresh
    watchersUnavailable,
    \* the reload worker: where it is and its local variables
    reloadPc, newRoots, newSchema, newIndex,
    \* the query-index worker
    refreshPc, changed, dirsSeen, replacements

clientVars  == <<disk, clientFolders, watching, saved, watched>>
workspace   == <<roots, served, index>>
wakeups     == <<reloadPermit, refreshPermit, pending>>
reloader    == <<reloadPc, newRoots, newSchema, newIndex>>
refresher   == <<refreshPc, changed, dirsSeen, replacements>>
vars == <<clientVars, workspace, wakeups, watchersUnavailable, reloader,
          refresher>>

NothingLoaded  == [d \in Folders |-> Absent]
NothingIndexed == [s \in Sources |-> Absent]

(* The directories in Workspace::migration_dirs are those of the folders    *)
(* whose contexts are loaded.                                               *)
LoadedDirs == {d \in Folders : served[d] # Absent}

TypeOK ==
    /\ disk \in [Sources -> Edition]
    /\ clientFolders \subseteq Folders
    /\ watching \in BOOLEAN
    /\ saved \subseteq Sources
    /\ watched \subseteq SUBSET Sources
    /\ roots \subseteq Folders
    /\ served \in [Folders -> Edition \cup {Absent}]
    /\ index \in [Sources -> Edition \cup {Absent}]
    /\ reloadPermit \in BOOLEAN
    /\ refreshPermit \in BOOLEAN
    /\ pending \subseteq Sources
    /\ watchersUnavailable \in BOOLEAN
    /\ reloadPc \in {"idle", "woken", "loading", "loaded", "unregister",
                     "register"}
    /\ newRoots \subseteq Folders
    /\ newSchema \in [Folders -> Edition \cup {Absent}]
    /\ newIndex \in [Sources -> Edition \cup {Absent}]
    /\ refreshPc \in {"idle", "woken", "taken", "snapshot", "read"}
    /\ changed \subseteq Sources
    /\ dirsSeen \subseteq Folders
    /\ replacements \in [Sources -> Edition \cup {Absent}]

(* `initialize` has stored the folders and the client's capabilities, and    *)
(* `initialized` has requested the first load.                              *)
Init ==
    /\ disk = [s \in Sources |-> 0]
    /\ clientFolders = InitialFolders
    /\ watching = FALSE
    /\ saved = {}
    /\ watched = {}
    /\ roots = InitialFolders
    /\ served = NothingLoaded
    /\ index = NothingIndexed
    /\ reloadPermit = TRUE
    /\ refreshPermit = FALSE
    /\ pending = {}
    /\ watchersUnavailable = ~DynamicRegistration
    /\ reloadPc = "idle"
    /\ newRoots = {}
    /\ newSchema = NothingLoaded
    /\ newIndex = NothingIndexed
    /\ refreshPc = "idle"
    /\ changed = {}
    /\ dirsSeen = {}
    /\ replacements = NothingIndexed
-----------------------------------------------------------------------------
(* The client, the editor and the other programs that change the disk.      *)

ReloaderIdle  == reloadPc = "idle" /\ ~reloadPermit
RefresherIdle == refreshPc = "idle" /\ ~refreshPermit /\ pending = {}
InFlight == saved \cup UNION watched

(* Under QuietLoads no source is changed while the worker that does not      *)
(* handle it has work to do.                                                *)
MayChange(S) ==
    /\ \A s \in S : disk[s] < MaxEdition
    /\ QuietLoads =>
         /\ S \cap QueryFiles # {} =>
               ReloaderIdle /\ InFlight \cap Folders = {}
         /\ S \cap Folders # {} =>
               RefresherIdle /\ InFlight \cap QueryFiles = {}
         /\ S \subseteq Folders \/ S \subseteq QueryFiles

NextEdition(S) == [s \in Sources |-> IF s \in S THEN disk[s] + 1 ELSE disk[s]]

(* A buffer is written to disk by the editor, which reports it with didSave. *)
EditorSave(s) ==
    /\ s \in Saves
    /\ MayChange({s})
    /\ disk' = NextEdition({s})
    /\ saved' = saved \cup {s}
    /\ UNCHANGED <<clientFolders, watching, watched, workspace, wakeups,
                   watchersUnavailable, reloader, refresher>>

(* Another program (git, sqlx-cli, a formatter) changes files.  The client   *)
(* reports them only while it holds a watcher registration.                 *)
ExternalChange(S) ==
    /\ S \in Batches
    /\ MayChange(S)
    /\ watching \/ UnwatchedChanges
    /\ disk' = NextEdition(S)
    /\ watched' = IF watching THEN watched \cup {S} ELSE watched
    /\ UNCHANGED <<clientFolders, watching, saved, workspace, wakeups,
                   watchersUnavailable, reloader, refresher>>
-----------------------------------------------------------------------------
(* The notification handlers.                                               *)

(* Faulty variant: notify_waiters, which stores no permit for a busy worker.  *)
RequestReloadOfIdleWorker ==
    reloadPermit' = (reloadPermit \/ reloadPc = "idle")

(* notify_one stores at most one permit.                                    *)
RequestReload == reloadPermit' = TRUE

(* Faulty variant: the batch is queued in place of its files.                *)
RequestQueryRefreshOfBatch(S) ==
    IF S = {} THEN UNCHANGED <<pending, refreshPermit>>
    ELSE /\ pending' = pending \cup {S}
         /\ refreshPermit' = TRUE

RequestQueryRefresh(S) ==
    IF S = {} THEN UNCHANGED <<pending, refreshPermit>>
    ELSE /\ pending' = pending \cup S
         /\ refreshPermit' = TRUE

(* Manifests, sqlx.toml, .env and conventional migration directories are     *)
(* recognised by name; the .sql files of any other migration directory only  *)
(* once a loaded context consumes it.  Such a file is otherwise taken for a  *)
(* query source.                                                            *)
AffectsWorkspace(s) == s \in Folders /\ (s \in CustomFolders => s \in LoadedDirs)

DidSave(s) ==
    /\ s \in saved
    /\ saved' = saved \ {s}
    /\ IF AffectsWorkspace(s)
       THEN RequestReload /\ UNCHANGED <<pending, refreshPermit>>
       ELSE RequestQueryRefresh({s}) /\ UNCHANGED reloadPermit
    /\ UNCHANGED <<disk, clientFolders, watching, watched, workspace,
                   watchersUnavailable, reloader, refresher>>

(* One schema input in the batch requests a reload and ends the handler; the *)
(* query sources of that batch are not queued.                              *)
DidChangeWatchedFiles(S) ==
    /\ S \in watched
    /\ watched' = watched \ {S}
    /\ IF \E s \in S : AffectsWorkspace(s)
       THEN RequestReload /\ UNCHANGED <<pending, refreshPermit>>
       ELSE RequestQueryRefresh(S) /\ UNCHANGED reloadPermit
    /\ UNCHANGED <<disk, clientFolders, watching, saved, workspace,
                   watchersUnavailable, reloader, refresher>>

(* Faulty variant: the folders change without a reload.                      *)
DidChangeWorkspaceFoldersSilently(removed, added) ==
    /\ FolderEdits
    /\ removed \subseteq clientFolders
    /\ added \subseteq Folders \ clientFolders
    /\ removed \cup added # {}
    /\ clientFolders' = (clientFolders \ removed) \cup added
    /\ roots' = (roots \ removed) \cup added
    /\ UNCHANGED <<disk, watching, saved, watched, served, index, pending,
                   reloadPermit, refreshPermit, watchersUnavailable, reloader,
                   refresher>>

(* The handler applies the difference to Workspace::roots as it finds it.    *)
DidChangeWorkspaceFolders(removed, added) ==
    /\ FolderEdits
    /\ removed \subseteq clientFolders
    /\ added \subseteq Folders \ clientFolders
    /\ removed \cup added # {}
    /\ clientFolders' = (clientFolders \ removed) \cup added
    /\ roots' = (roots \ removed) \cup added
    /\ RequestReload
    /\ UNCHANGED <<disk, watching, saved, watched, served, index, pending,
                   refreshPermit, watchersUnavailable, reloader, refresher>>
-----------------------------------------------------------------------------
(* The reload worker: reload_workspace, step by step between its awaits.     *)

ReloaderUnchanged == UNCHANGED <<disk, clientFolders, saved, watched, pending,
                                 refreshPermit, refresher>>

WakeReloader ==
    /\ reloadPc = "idle"
    /\ reloadPermit
    /\ reloadPermit' = FALSE
    /\ reloadPc' = "woken"
    /\ UNCHANGED <<watching, workspace, watchersUnavailable, newRoots,
                   newSchema, newIndex>>
    /\ ReloaderUnchanged

(* Faulty variant: what the last reload read is taken for current.           *)
ReadRootsKeepingSchema ==
    /\ reloadPc = "woken"
    /\ newRoots' = roots
    /\ newIndex' = NothingIndexed
    /\ reloadPc' = IF roots = {} THEN "idle" ELSE "loading"
    /\ UNCHANGED <<watching, workspace, watchersUnavailable, reloadPermit,
                   newSchema>>
    /\ ReloaderUnchanged

(* The roots are cloned; without any, the reload ends after a log message.   *)
ReadRoots ==
    /\ reloadPc = "woken"
    /\ newRoots' = roots
    /\ newSchema' = NothingLoaded
    /\ newIndex' = NothingIndexed
    /\ reloadPc' = IF roots = {} THEN "idle" ELSE "loading"
    /\ UNCHANGED <<watching, workspace, watchersUnavailable, reloadPermit>>
    /\ ReloaderUnchanged

(* Workspace::load builds the contexts of one folder from what is on disk.   *)
LoadFolder(d) ==
    /\ reloadPc = "loading"
    /\ d \in newRoots
    /\ newSchema[d] = Absent
    /\ newSchema' = [newSchema EXCEPT ![d] = disk[d]]
    /\ UNCHANGED <<watching, workspace, watchersUnavailable, reloadPermit,
                   reloadPc, newRoots, newIndex>>
    /\ ReloaderUnchanged

(* Faulty variant: the load ends before every folder is read.                *)
ScanQueriesEarly ==
    /\ reloadPc = "loading"
    /\ newIndex' = [s \in Sources |->
                      IF s \in QueryFiles /\ Home[s] \in newRoots
                      THEN disk[s] ELSE Absent]
    /\ reloadPc' = "loaded"
    /\ UNCHANGED <<watching, workspace, watchersUnavailable, reloadPermit,
                   newRoots, newSchema>>
    /\ ReloaderUnchanged

(* QueryDocument::scan walks the folders after every context is built.       *)
ScanQueries ==
    /\ reloadPc = "loading"
    /\ \A d \in newRoots : newSchema[d] # Absent
    /\ newIndex' = [s \in Sources |->
                      IF s \in QueryFiles /\ Home[s] \in newRoots
                      THEN disk[s] ELSE Absent]
    /\ reloadPc' = "loaded"
    /\ UNCHANGED <<watching, workspace, watchersUnavailable, reloadPermit,
                   newRoots, newSchema>>
    /\ ReloaderUnchanged

(* *self.workspace.write().await = workspace                                 *)
InstallWorkspace ==
    /\ reloadPc = "loaded"
    /\ roots' = newRoots
    /\ served' = newSchema
    /\ index' = newIndex
    /\ reloadPc' = IF watchersUnavailable THEN "idle" ELSE "unregister"
    /\ UNCHANGED <<watching, watchersUnavailable, reloadPermit, newRoots,
                   newSchema, newIndex>>
    /\ ReloaderUnchanged

UnregisterWatchers ==
    /\ reloadPc = "unregister"
    /\ watching' = FALSE
    /\ reloadPc' = "register"
    /\ UNCHANGED <<workspace, watchersUnavailable, reloadPermit, newRoots,
                   newSchema, newIndex>>
    /\ ReloaderUnchanged

(* Faulty variant: the requests that came during the reload are dropped.      *)
RegisterWatchersAndDrain ==
    /\ reloadPc = "register"
    /\ watching' = TRUE
    /\ reloadPermit' = FALSE
    /\ reloadPc' = "idle"
    /\ UNCHANGED <<watchersUnavailable, workspace, newRoots, newSchema,
                   newIndex>>
    /\ ReloaderUnchanged

(* The client accepts the registration, or rejects it and is not asked again. *)
RegisterWatchers ==
    /\ reloadPc = "register"
    /\ \/ watching' = TRUE /\ UNCHANGED watchersUnavailable
       \/ watchersUnavailable' = TRUE /\ UNCHANGED watching
    /\ reloadPc' = "idle"
    /\ UNCHANGED <<workspace, reloadPermit, newRoots, newSchema, newIndex>>
    /\ ReloaderUnchanged
-----------------------------------------------------------------------------
(* The query-index worker: refresh_query_documents.                          *)

RefresherUnchanged == UNCHANGED <<clientVars, roots, served, reloadPermit,
                                  watchersUnavailable, reloader>>

WakeRefresher ==
    /\ refreshPc = "idle"
    /\ refreshPermit
    /\ refreshPermit' = FALSE
    /\ refreshPc' = "woken"
    /\ UNCHANGED <<index, pending, changed, dirsSeen, replacements>>
    /\ RefresherUnchanged

(* mem::take of the queue.  It is empty when the files that stored the permit *)
(* were taken along with an earlier batch.                                  *)
TakePending ==
    /\ refreshPc = "woken"
    /\ changed' = pending
    /\ pending' = {}
    /\ refreshPc' = IF pending = {} THEN "idle" ELSE "taken"
    /\ UNCHANGED <<index, refreshPermit, dirsSeen, replacements>>
    /\ RefresherUnchanged

SnapshotDirs ==
    /\ refreshPc = "taken"
    /\ dirsSeen' = LoadedDirs
    /\ refreshPc' = "snapshot"
    /\ UNCHANGED <<index, pending, refreshPermit, changed, replacements>>
    /\ RefresherUnchanged

(* QueryDocument::read of every file of the batch; a file under a migration   *)
(* directory yields None.                                                   *)
ReadChanged ==
    /\ refreshPc = "snapshot"
    /\ replacements' = [s \in Sources |->
                          IF s \in changed \ dirsSeen THEN disk[s] ELSE Absent]
    /\ refreshPc' = "read"
    /\ UNCHANGED <<index, pending, refreshPermit, changed, dirsSeen>>
    /\ RefresherUnchanged

(* Faulty variant: the queue is emptied at the end of the batch.             *)
ApplyReplacementsAndDrain ==
    /\ refreshPc = "read"
    /\ index' = [s \in Sources |->
                   IF s \in changed THEN replacements[s] ELSE index[s]]
    /\ changed' = {}
    /\ pending' = {}
    /\ refreshPc' = "idle"
    /\ UNCHANGED <<refreshPermit, dirsSeen, replacements>>
    /\ RefresherUnchanged

ApplyReplacements ==
    /\ refreshPc = "read"
    /\ index' = [s \in Sources |->
                   IF s \in changed THEN replacements[s] ELSE index[s]]
    /\ changed' = {}
    /\ refreshPc' = "idle"
    /\ UNCHANGED <<pending, refreshPermit, dirsSeen, replacements>>
    /\ RefresherUnchanged
-----------------------------------------------------------------------------
Edits == \/ \E s \in Sources : EditorSave(s)
         \/ \E S \in Batches : ExternalChange(S)

Handlers == \/ \E s \in Sources : DidSave(s)
            \/ \E S \in Batches : DidChangeWatchedFiles(S)
            \/ \E removed, added \in SUBSET Folders :
                  DidChangeWorkspaceFolders(removed, added)

ReloadWorker == \/ WakeReloader \/ ReadRoots
                \/ \E d \in Folders : LoadFolder(d)
                \/ ScanQueries \/ InstallWorkspace
                \/ UnregisterWatchers \/ RegisterWatchers

RefreshWorker == \/ WakeRefresher \/ TakePending \/ SnapshotDirs
                 \/ ReadChanged \/ ApplyReplacements

Next == Edits \/ Handlers \/ ReloadWorker \/ RefreshWorker

(* The runtime keeps polling both spawned workers and the client's           *)
(* notifications are delivered.  Nothing is assumed of the edits.           *)
Fairness == /\ WF_vars(ReloadWorker)
            /\ WF_vars(RefreshWorker)
            /\ \A s \in Sources : WF_vars(DidSave(s))
            /\ \A S \in Batches : WF_vars(DidChangeWatchedFiles(S))

Spec == Init /\ [][Next]_vars /\ Fairness
-----------------------------------------------------------------------------
(* No reload is lost: if a folder is served from an edition other than the   *)
(* one on disk, a notification about it is still on its way, the stored      *)
(* permit will start a reload, or the running one has not read that folder   *)
(* yet or already holds the edition on disk (server.rs, reload_notify: "any  *)
(* number of triggers while a reload runs result in exactly one follow-up    *)
(* reload").                                                                *)
ReloadWillRead(d) ==
    \/ reloadPermit
    \/ reloadPc = "woken"
    \/ /\ reloadPc \in {"loading", "loaded"}
       /\ d \in newRoots
       /\ newSchema[d] \in {Absent, disk[d]}

NoLostReload == \A d \in roots :
    served[d] = disk[d] \/ d \in InFlight \/ ReloadWillRead(d)

(* What the running reload has read and will install: a reading that the     *)
(* disk has since overtaken is known to be so, and nothing is installed       *)
(* before every folder of the reload has been read.                          *)
ReadingsAreTracked ==
    /\ reloadPc \in {"loading", "loaded"} =>
         \A d \in newRoots : \/ newSchema[d] \in {Absent, disk[d]}
                             \/ d \in InFlight
                             \/ reloadPermit
    /\ reloadPc = "loaded" => \A d \in newRoots : newSchema[d] # Absent

(* The inductive invariant behind NoLostReload and SettledSchema.            *)
IInv == TypeOK /\ NoLostReload /\ ReadingsAreTracked

(* When nothing is in flight and both workers sleep, every query file of an   *)
(* open folder is indexed at the edition on disk (workspace.rs,              *)
(* query_documents: "Rebuilt on reloads and on query-source saves").         *)
Settled == ReloaderIdle /\ RefresherIdle /\ InFlight = {}

SettledQueryIndex == Settled =>
    \A f \in QueryFiles : Home[f] \in roots => index[f] = disk[f]

(* When nothing is in flight and the workers sleep, every open folder is      *)
(* served from the edition on disk, whoever changed it (README.md: "The       *)
(* index reloads automatically when migrations, `Cargo.toml`, `sqlx.toml`,   *)
(* or `.env` change").                                                      *)
SettledSchema == Settled => \A d \in roots : served[d] = disk[d]

(* Workspace::roots are "the workspace folder roots the client provided"     *)
(* (workspace.rs), whatever the workers are doing.                          *)
RootsAreTheClients == roots = clientFolders

(* Applying a refresh never replaces an index entry by an older reading of   *)
(* the same file (server.rs, did_change_watched_files: a full reload         *)
(* "subsumes any refresh the same batch would request").                    *)
RefreshNeverRegresses ==
    [][refreshPc = "read" /\ refreshPc' = "idle" =>
         \A f \in QueryFiles : index[f] = Absent \/ index'[f] >= index[f]]_vars

(* An edit of a folder's schema inputs is eventually served, unless the       *)
(* folder is closed: did_save and the watcher both lead to a reload and the   *)
(* reload worker is never starved.                                          *)
EditsAreServed ==
    \A d \in Folders, e \in 1..MaxEdition :
        (disk[d] = e) ~> (d \notin roots \/ served[d] \in e..MaxEdition)

(* The served schema implements SchemaPromise: whole reloads are atomic for   *)
(* a reader, never go back to an older edition and catch up with the disk.   *)
Promise == INSTANCE SchemaPromise
             WITH disk <- [d \in Folders |-> disk[d]], open <- roots
ImplementsPromise == Promise!Spec
-----------------------------------------------------------------------------
(* The strengthenings that the two properties above rest on.                 *)

(* What is served and what the running reload has read was on disk, and the   *)
(* reload has read nothing older than what is served.  When it is about to    *)
(* install, it holds all of its folders and no other.                        *)
ReadingsWereOnDisk ==
    /\ \A d \in Folders : /\ served[d] # Absent => served[d] <= disk[d]
                          /\ newSchema[d] # Absent => newSchema[d] <= disk[d]
    /\ reloadPc \in {"loading", "loaded"} =>
         \A d \in Folders :
            /\ newSchema[d] # Absent /\ served[d] # Absent =>
                  newSchema[d] >= served[d]
            /\ newSchema[d] # Absent => d \in newRoots
    /\ reloadPc = "loaded" => \A d \in newRoots : newSchema[d] # Absent

(* A query file of an open folder that is not indexed as it is on disk is     *)
(* announced, queued, in the batch of the running refresh, or will be scanned *)
(* by a reload.                                                             *)
FileWillBeRead(f) ==
    \/ f \in InFlight \cup pending
    \/ f \in changed /\ refreshPc \in {"taken", "snapshot", "read"}
    \/ reloadPermit
    \/ reloadPc \in {"woken", "loading", "loaded"}

(* While files and folders change apart, a batch holds only one of them, what *)
(* a refresh has read is current or the file is announced anew, and what a    *)
(* reload has scanned is current.                                           *)
QueryReadingsAreTracked ==
    /\ \A S \in watched : S \subseteq Folders \/ S \subseteq QueryFiles
    /\ \A f \in QueryFiles : Home[f] \in roots =>
          index[f] = disk[f] \/ FileWillBeRead(f)
    /\ refreshPc = "read" =>
          \A f \in QueryFiles \cap changed :
             replacements[f] = disk[f] \/ f \in InFlight \cup pending
    /\ reloadPc = "loaded" =>
          \A f \in QueryFiles : Home[f] \in newRoots => newIndex[f] = disk[f]

QInv == TypeOK /\ QueryReadingsAreTracked
=============================================================================
