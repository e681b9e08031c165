------------------------ MODULE WorkspaceIndexProofs ------------------------
(***************************************************************************)
(* No edit of a schema input that reaches the server is lost by the reload  *)
(* worker, the query index catches up, and what is served is what           *)
(* SchemaPromise promises, for any number of folders and query files and    *)
(* any number of edits.                                                     *)
(*                                                                          *)
(* For reloads the argument is in IInv.  Install overwrites what is served,  *)
(* so it is not enough to know that every folder served from an old edition  *)
(* will be read again: one must also know that every reading the running     *)
(* reload holds is either current or known to be overtaken                  *)
(* (ReadingsAreTracked).  For the query index, QInv says the same of a       *)
(* refresh, and for the refinement RInv relates the readings to the disk     *)
(* and to what is served.                                                   *)
(***************************************************************************)
EXTENDS WorkspaceIndex, TLAPS

(* What the two assumptions of the theorems exclude is shown by             *)
(* WorkspaceIndex_watchgap.cfg and WorkspaceIndex_custom.cfg: changes that  *)
(* nobody reports to the server, and migrations that it does not recognise  *)
(* before they are loaded.                                                  *)
-----------------------------------------------------------------------------
(* The state in which `initialized` leaves the server is of the right types.*)
LEMMA InitType == Init => TypeOK
<1> SUFFICES ASSUME Init PROVE TypeOK
  OBVIOUS
<1>1. 0 \in Edition
  BY WorkspaceAssumption DEF Edition
<1>2. disk \in [Sources -> Edition]
  BY <1>1 DEF Init
<1>3. /\ clientFolders \subseteq Folders /\ roots \subseteq Folders
      /\ watchersUnavailable \in BOOLEAN
  BY WorkspaceAssumption DEF Init
<1> QED
  BY <1>2, <1>3 DEF Init, TypeOK, NothingLoaded, NothingIndexed

(* An edit of sources below the bound gives them an edition again.          *)
LEMMA NextEditionType ==
  ASSUME TypeOK, NEW S \in SUBSET Sources, MayChange(S)
  PROVE  NextEdition(S) \in [Sources -> Edition]
<1>1. ASSUME NEW s \in Sources
      PROVE  (IF s \in S THEN disk[s] + 1 ELSE disk[s]) \in Edition
  BY WorkspaceAssumption DEF TypeOK, MayChange, Edition
<1> QED
  BY <1>1 DEF NextEdition

(* The edits of the client and of other programs keep the types.            *)
LEMMA EditsType == TypeOK /\ Edits => TypeOK'
<1> SUFFICES ASSUME TypeOK, Edits PROVE TypeOK'
  OBVIOUS
<1>1. ASSUME NEW s \in Sources, EditorSave(s) PROVE TypeOK'
  <2>1. disk' \in [Sources -> Edition]
    BY <1>1, NextEditionType DEF EditorSave
  <2> QED
    BY <1>1, <2>1 DEF EditorSave, TypeOK, workspace, wakeups, reloader, refresher
<1>2. ASSUME NEW S \in Batches, ExternalChange(S) PROVE TypeOK'
  <2>1. S \in SUBSET Sources
    BY WorkspaceAssumption
  <2>2. disk' \in [Sources -> Edition]
    BY <1>2, <2>1, NextEditionType DEF ExternalChange
  <2> QED
    BY <1>2, <2>1, <2>2
       DEF ExternalChange, TypeOK, workspace, wakeups, reloader, refresher
<1> QED
  BY <1>1, <1>2 DEF Edits

(* So do the notification handlers: did_save, did_change_watched_files and  *)
(* did_change_workspace_folders.                                            *)
LEMMA HandlersType == TypeOK /\ Handlers => TypeOK'
<1> SUFFICES ASSUME TypeOK, Handlers PROVE TypeOK'
  OBVIOUS
<1> USE DEF workspace, reloader, refresher, RequestReload, RequestQueryRefresh
<1>1. ASSUME NEW s \in Sources, DidSave(s) PROVE TypeOK'
  <2>1. saved' \subseteq Sources /\ {s} # {}
    BY <1>1 DEF DidSave, TypeOK
  <2>2. CASE AffectsWorkspace(s)
    BY <1>1, <2>1, <2>2 DEF DidSave, TypeOK
  <2>3. CASE ~AffectsWorkspace(s)
    BY <1>1, <2>1, <2>3 DEF DidSave, TypeOK
  <2> QED
    BY <2>2, <2>3
<1>2. ASSUME NEW S \in Batches, DidChangeWatchedFiles(S) PROVE TypeOK'
  <2>1. S \subseteq Sources
    BY WorkspaceAssumption
  <2>2. CASE \E s \in S : AffectsWorkspace(s)
    BY <1>2, <2>2 DEF DidChangeWatchedFiles, TypeOK
  <2>3. CASE ~\E s \in S : AffectsWorkspace(s)
    BY <1>2, <2>1, <2>3 DEF DidChangeWatchedFiles, TypeOK
  <2> QED
    BY <2>2, <2>3
<1>3. ASSUME NEW removed \in SUBSET Folders, NEW added \in SUBSET Folders,
             DidChangeWorkspaceFolders(removed, added)
      PROVE  TypeOK'
  BY <1>3 DEF DidChangeWorkspaceFolders, TypeOK
<1> QED
  BY <1>1, <1>2, <1>3 DEF Handlers

(* So do the steps of reload_workspace and register_watchers.               *)
LEMMA ReloadWorkerType == TypeOK /\ ReloadWorker => TypeOK'
<1> SUFFICES ASSUME TypeOK, ReloadWorker PROVE TypeOK'
  OBVIOUS
<1> USE DEF ReloaderUnchanged, workspace, refresher
<1>1. CASE WakeReloader
  BY <1>1 DEF WakeReloader, TypeOK
<1>2. CASE ReadRoots
  BY <1>2 DEF ReadRoots, TypeOK, NothingLoaded, NothingIndexed
<1>3. ASSUME NEW d \in Folders, LoadFolder(d) PROVE TypeOK'
  <2>1. disk[d] \in Edition
    BY DEF TypeOK, Sources
  <2> QED
    BY <1>3, <2>1 DEF LoadFolder, TypeOK
<1>4. CASE ScanQueries
  <2>1. newIndex' \in [Sources -> Edition \cup {Absent}]
    BY <1>4 DEF ScanQueries, TypeOK
  <2> QED
    BY <1>4, <2>1 DEF ScanQueries, TypeOK
<1>5. CASE InstallWorkspace
  BY <1>5 DEF InstallWorkspace, TypeOK
<1>6. CASE UnregisterWatchers
  BY <1>6 DEF UnregisterWatchers, TypeOK
<1>7. CASE RegisterWatchers
  BY <1>7 DEF RegisterWatchers, TypeOK
<1> QED
  BY <1>1, <1>2, <1>3, <1>4, <1>5, <1>6, <1>7 DEF ReloadWorker

(* So do the steps of refresh_query_documents.                              *)
LEMMA RefreshWorkerType == TypeOK /\ RefreshWorker => TypeOK'
<1> SUFFICES ASSUME TypeOK, RefreshWorker PROVE TypeOK'
  OBVIOUS
<1> USE DEF RefresherUnchanged, clientVars, reloader
<1>1. CASE WakeRefresher
  BY <1>1 DEF WakeRefresher, TypeOK
<1>2. CASE TakePending
  BY <1>2 DEF TakePending, TypeOK
<1>3. CASE SnapshotDirs
  BY <1>3 DEF SnapshotDirs, TypeOK, LoadedDirs
<1>4. CASE ReadChanged
  <2>1. replacements' \in [Sources -> Edition \cup {Absent}]
    BY <1>4 DEF ReadChanged, TypeOK
  <2> QED
    BY <1>4, <2>1 DEF ReadChanged, TypeOK
<1>5. CASE ApplyReplacements
  <2>1. index' \in [Sources -> Edition \cup {Absent}]
    BY <1>5 DEF ApplyReplacements, TypeOK
  <2> QED
    BY <1>5, <2>1 DEF ApplyReplacements, TypeOK
<1> QED
  BY <1>1, <1>2, <1>3, <1>4, <1>5 DEF RefreshWorker

(* Hence every step keeps the types.                                        *)
LEMMA StepType == TypeOK /\ [Next]_vars => TypeOK'
<1>1. TypeOK /\ UNCHANGED vars => TypeOK'
  BY DEF TypeOK, vars, clientVars, workspace, wakeups, reloader, refresher
<1> QED
  BY <1>1, EditsType, HandlersType, ReloadWorkerType, RefreshWorkerType DEF Next

(* Every variable keeps its type, whatever the client does.                  *)
THEOREM TypeCorrect == Spec => []TypeOK
<1> QED
  BY InitType, StepType, PTL DEF Spec
-----------------------------------------------------------------------------
(* The first load is due, and nothing has been read yet.                     *)
LEMMA InitNoLostReload == Init => NoLostReload /\ ReadingsAreTracked
BY DEF Init, NoLostReload, ReadingsAreTracked, ReloadWillRead

(* An edit that reaches the server leaves a notification on its way.         *)
LEMMA EditsNoLostReload ==
  ASSUME ~UnwatchedChanges, IInv, Edits
  PROVE  NoLostReload' /\ ReadingsAreTracked'
<1> USE DEF workspace, wakeups, reloader
<1>1. ASSUME NEW S \in SUBSET Sources, disk' = NextEdition(S),
             InFlight \subseteq InFlight', S \subseteq InFlight',
             UNCHANGED <<workspace, wakeups, reloader>>
      PROVE  NoLostReload' /\ ReadingsAreTracked'
  <2>1. \A d \in Folders : d \in InFlight' \/ disk'[d] = disk[d]
    BY <1>1 DEF NextEdition, Sources
  <2>2. roots \subseteq Folders /\ newRoots \subseteq Folders
    BY DEF IInv, TypeOK
  <2>3. NoLostReload'
    BY <1>1, <2>1, <2>2 DEF IInv, NoLostReload, ReloadWillRead
  <2>4. ReadingsAreTracked'
    BY <1>1, <2>1, <2>2 DEF IInv, ReadingsAreTracked
  <2> QED
    BY <2>3, <2>4
<1>2. ASSUME NEW s \in Sources, EditorSave(s)
      PROVE  NoLostReload' /\ ReadingsAreTracked'
  <2>1. InFlight \subseteq InFlight' /\ {s} \subseteq InFlight'
    BY <1>2 DEF EditorSave, InFlight
  <2> QED
    BY <1>1, <1>2, <2>1 DEF EditorSave
<1>3. ASSUME NEW S \in Batches, ExternalChange(S)
      PROVE  NoLostReload' /\ ReadingsAreTracked'
  <2>1. S \in SUBSET Sources
    BY WorkspaceAssumption
  <2>2. watched' = watched \cup {S} /\ saved' = saved
    BY <1>3 DEF ExternalChange, IInv, TypeOK
  <2>3. InFlight \subseteq InFlight' /\ S \subseteq InFlight'
    BY <2>2 DEF InFlight
  <2> QED
    BY <1>1, <1>3, <2>1, <2>3 DEF ExternalChange
<1> QED
  BY <1>2, <1>3 DEF Edits

(* A notification is consumed only by a request for a reload, unless no       *)
(* folder was in it.                                                        *)
LEMMA HandlersNoLostReload ==
  ASSUME CustomFolders = {}, IInv, Handlers
  PROVE  NoLostReload' /\ ReadingsAreTracked'
<1> USE DEF workspace, reloader, RequestReload
<1>1. ASSUME reloadPermit', UNCHANGED <<disk, newRoots, newSchema, reloadPc>>
      PROVE  NoLostReload' /\ ReadingsAreTracked'
  BY <1>1 DEF IInv, NoLostReload, ReadingsAreTracked, ReloadWillRead
<1>2. ASSUME UNCHANGED <<disk, workspace, reloadPermit, reloader>>,
             InFlight \cap Folders \subseteq InFlight'
      PROVE  NoLostReload' /\ ReadingsAreTracked'
  <2>1. roots \subseteq Folders /\ newRoots \subseteq Folders
    BY DEF IInv, TypeOK
  <2> QED
    BY <1>2, <2>1 DEF IInv, NoLostReload, ReadingsAreTracked, ReloadWillRead
<1>3. ASSUME NEW s \in Sources, DidSave(s)
      PROVE  NoLostReload' /\ ReadingsAreTracked'
  <2>1. CASE AffectsWorkspace(s)
    BY <1>1, <1>3, <2>1 DEF DidSave
  <2>2. CASE ~AffectsWorkspace(s)
    <3>1. s \notin Folders
      BY <2>2 DEF AffectsWorkspace
    <3>2. InFlight \cap Folders \subseteq InFlight'
      BY <1>3, <3>1 DEF DidSave, InFlight
    <3> QED
      BY <1>2, <1>3, <2>2, <3>2 DEF DidSave
  <2> QED
    BY <2>1, <2>2
<1>4. ASSUME NEW S \in Batches, DidChangeWatchedFiles(S)
      PROVE  NoLostReload' /\ ReadingsAreTracked'
  <2>1. CASE \E s \in S : AffectsWorkspace(s)
    BY <1>1, <1>4, <2>1 DEF DidChangeWatchedFiles
  <2>2. CASE ~\E s \in S : AffectsWorkspace(s)
    <3>1. S \cap Folders = {}
      BY <2>2 DEF AffectsWorkspace
    <3>2. InFlight \cap Folders \subseteq InFlight'
      BY <1>4, <3>1 DEF DidChangeWatchedFiles, InFlight
    <3> QED
      BY <1>2, <1>4, <2>2, <3>2 DEF DidChangeWatchedFiles
  <2> QED
    BY <2>1, <2>2
<1>5. ASSUME NEW removed \in SUBSET Folders, NEW added \in SUBSET Folders,
             DidChangeWorkspaceFolders(removed, added)
      PROVE  NoLostReload' /\ ReadingsAreTracked'
  BY <1>1, <1>5 DEF DidChangeWorkspaceFolders
<1> QED
  BY <1>3, <1>4, <1>5 DEF Handlers

(* The reload worker gives up its permit only to read every folder, and       *)
(* installs only readings that are current or known to be overtaken.          *)
LEMMA ReloadWorkerNoLostReload ==
  ASSUME IInv, ReloadWorker
  PROVE  NoLostReload' /\ ReadingsAreTracked'
<1> USE DEF workspace, refresher, ReloaderUnchanged, IInv
<1>0. InFlight' = InFlight /\ disk' = disk
  BY DEF ReloadWorker, WakeReloader, ReadRoots, LoadFolder, ScanQueries,
         InstallWorkspace, UnregisterWatchers, RegisterWatchers, InFlight
<1>1. CASE WakeReloader
  BY <1>1 DEF WakeReloader, NoLostReload, ReadingsAreTracked, ReloadWillRead
<1>2. CASE ReadRoots
  <2>1. \A d \in newRoots' : d \in Folders /\ newSchema'[d] = Absent
    BY <1>2 DEF ReadRoots, NothingLoaded, TypeOK
  <2>2. roots # {} => NoLostReload'
    BY <1>2, <2>1 DEF ReadRoots, NoLostReload, ReloadWillRead
  <2>3. roots = {} => NoLostReload'
    BY <1>2 DEF ReadRoots, NoLostReload
  <2>4. ReadingsAreTracked'
    BY <1>2, <2>1 DEF ReadRoots, ReadingsAreTracked
  <2> QED
    BY <2>2, <2>3, <2>4
<1>3. ASSUME NEW d \in Folders, LoadFolder(d)
      PROVE  NoLostReload' /\ ReadingsAreTracked'
  <2>1. newSchema'[d] = disk'[d]
    BY <1>0, <1>3 DEF LoadFolder, TypeOK
  <2>2. \A e \in Folders : e # d => newSchema'[e] = newSchema[e]
    BY <1>3 DEF LoadFolder, TypeOK
  <2>3. roots \subseteq Folders /\ newRoots \subseteq Folders
    BY DEF TypeOK
  <2>4. NoLostReload'
    BY <1>0, <1>3, <2>1, <2>2, <2>3
       DEF LoadFolder, NoLostReload, ReloadWillRead
  <2>5. ReadingsAreTracked'
    BY <1>0, <1>3, <2>1, <2>2, <2>3 DEF LoadFolder, ReadingsAreTracked
  <2> QED
    BY <2>4, <2>5
<1>4. CASE ScanQueries
  BY <1>0, <1>4
     DEF ScanQueries, NoLostReload, ReadingsAreTracked, ReloadWillRead
<1>5. CASE InstallWorkspace
  <2>1. \A d \in newRoots : \/ newSchema[d] = disk[d]
                             \/ d \in InFlight
                             \/ reloadPermit
    BY <1>5 DEF InstallWorkspace, ReadingsAreTracked
  <2>2. NoLostReload'
    BY <1>0, <1>5, <2>1 DEF InstallWorkspace, NoLostReload, ReloadWillRead
  <2>3. ReadingsAreTracked'
    BY <1>5 DEF InstallWorkspace, ReadingsAreTracked
  <2> QED
    BY <2>2, <2>3
<1>6. CASE UnregisterWatchers
  BY <1>0, <1>6
     DEF UnregisterWatchers, NoLostReload, ReadingsAreTracked, ReloadWillRead
<1>7. CASE RegisterWatchers
  BY <1>0, <1>7
     DEF RegisterWatchers, NoLostReload, ReadingsAreTracked, ReloadWillRead
<1> QED
  BY <1>1, <1>2, <1>3, <1>4, <1>5, <1>6, <1>7 DEF ReloadWorker

(* Neither a refresh nor a stuttering step touches what the invariant is      *)
(* about.                                                                   *)
LEMMA OthersNoLostReload ==
  ASSUME IInv, RefreshWorker \/ UNCHANGED vars
  PROVE  NoLostReload' /\ ReadingsAreTracked'
<1>1. /\ InFlight' = InFlight
      /\ UNCHANGED <<disk, roots, served, reloadPermit, reloader>>
  BY DEF RefreshWorker, WakeRefresher, TakePending, SnapshotDirs, ReadChanged,
         ApplyReplacements, RefresherUnchanged, vars, clientVars, workspace,
         wakeups, InFlight
<1> QED
  BY <1>1 DEF IInv, NoLostReload, ReadingsAreTracked, ReloadWillRead, reloader

(* Hence IInv is an invariant if every change is reported and recognised.   *)
LEMMA IInvInvariant ==
  ASSUME CustomFolders = {}, ~UnwatchedChanges
  PROVE  Spec => []IInv
<1>1. Init => IInv
  BY InitType, InitNoLostReload DEF IInv
<1>2. IInv /\ [Next]_vars => IInv'
  <2> SUFFICES ASSUME IInv, [Next]_vars PROVE IInv'
    OBVIOUS
  <2>1. TypeOK'
    BY StepType DEF IInv
  <2>2. NoLostReload' /\ ReadingsAreTracked'
    BY EditsNoLostReload, HandlersNoLostReload, ReloadWorkerNoLostReload,
       OthersNoLostReload DEF Next
  <2> QED
    BY <2>1, <2>2 DEF IInv
<1> QED
  BY <1>1, <1>2, PTL DEF Spec

(* No request for a reload is lost: a folder served from an old edition is    *)
(* about to be read again.                                                   *)
THEOREM ReloadsAreNotLost ==
  ASSUME CustomFolders = {}, ~UnwatchedChanges
  PROVE  Spec => []NoLostReload
<1>1. IInv => NoLostReload
  BY DEF IInv
<1> QED
  BY <1>1, IInvInvariant, PTL

(* Whenever the server has come to rest, every open folder is served from     *)
(* what is on disk.                                                         *)
THEOREM RestIsFresh ==
  ASSUME CustomFolders = {}, ~UnwatchedChanges
  PROVE  Spec => []SettledSchema
<1>1. IInv => SettledSchema
  BY DEF IInv, NoLostReload, ReloadWillRead, SettledSchema, Settled,
         ReloaderIdle
<1> QED
  BY <1>1, IInvInvariant, PTL

(* A reading of the running reload is never silently overtaken, and nothing   *)
(* is installed before every folder has been read.                          *)
THEOREM ReadingsTracked ==
  ASSUME CustomFolders = {}, ~UnwatchedChanges
  PROVE  Spec => []ReadingsAreTracked
<1>1. IInv => ReadingsAreTracked
  BY DEF IInv
<1> QED
  BY <1>1, IInvInvariant, PTL
-----------------------------------------------------------------------------
(* The query index.  The workers overwrite each other's entries, so the       *)
(* argument needs QuietLoads: a query file is not edited while a reload is    *)
(* due or running, nor in one batch with a folder.                           *)

(* Nothing is indexed before the first load, which is due.                   *)
LEMMA InitQueryReadings == Init => QueryReadingsAreTracked
BY DEF Init, QueryReadingsAreTracked, FileWillBeRead

(* An edited query file is announced, and no reload is holding a scan of it.  *)
LEMMA EditsQueryReadings ==
  ASSUME QuietLoads, ~UnwatchedChanges, QInv, Edits
  PROVE  QueryReadingsAreTracked'
<1> USE DEF workspace, wakeups, reloader, refresher
<1>1. ASSUME NEW S \in SUBSET Sources, MayChange(S), disk' = NextEdition(S),
             InFlight \subseteq InFlight', S \subseteq InFlight',
             \A T \in watched' : T \in watched \/ T = S,
             UNCHANGED <<workspace, wakeups, reloader, refresher>>
      PROVE  QueryReadingsAreTracked'
  <2>1. \A f \in QueryFiles : f \in InFlight' \/ disk'[f] = disk[f]
    BY <1>1 DEF NextEdition, Sources
  <2>2. S \subseteq Folders \/ S \subseteq QueryFiles
    BY <1>1 DEF MayChange
  <2>3. \A T \in watched' : T \subseteq Folders \/ T \subseteq QueryFiles
    BY <1>1, <2>2 DEF QInv, QueryReadingsAreTracked
  <2>4. \A f \in QueryFiles : Home[f] \in roots' =>
           index'[f] = disk'[f] \/ FileWillBeRead(f)'
    BY <1>1, <2>1 DEF QInv, QueryReadingsAreTracked, FileWillBeRead
  <2>5. refreshPc' = "read" =>
           \A f \in QueryFiles \cap changed' :
              replacements'[f] = disk'[f] \/ f \in InFlight' \cup pending'
    BY <1>1, <2>1 DEF QInv, QueryReadingsAreTracked
  <2>6. ASSUME reloadPc' = "loaded", NEW f \in QueryFiles, Home[f] \in newRoots'
        PROVE  newIndex'[f] = disk'[f]
    <3>1. f \notin S
      BY <1>1, <2>6 DEF MayChange, ReloaderIdle
    <3>2. disk'[f] = disk[f]
      BY <1>1, <3>1 DEF NextEdition, Sources
    <3> QED
      BY <1>1, <2>6, <3>2 DEF QInv, QueryReadingsAreTracked
  <2> QED
    BY <2>3, <2>4, <2>5, <2>6 DEF QueryReadingsAreTracked
<1>2. ASSUME NEW s \in Sources, EditorSave(s) PROVE QueryReadingsAreTracked'
  <2>1. InFlight \subseteq InFlight' /\ {s} \subseteq InFlight'
    BY <1>2 DEF EditorSave, InFlight
  <2>2. {s} \in SUBSET Sources
    OBVIOUS
  <2> QED
    BY <1>1, <1>2, <2>1, <2>2 DEF EditorSave
<1>3. ASSUME NEW S \in Batches, ExternalChange(S) PROVE QueryReadingsAreTracked'
  <2>1. S \in SUBSET Sources
    BY WorkspaceAssumption
  <2>2. watched' = watched \cup {S} /\ saved' = saved
    BY <1>3 DEF ExternalChange, QInv, TypeOK
  <2>3. InFlight \subseteq InFlight' /\ S \subseteq InFlight'
    BY <2>2 DEF InFlight
  <2> QED
    BY <1>1, <1>3, <2>1, <2>2, <2>3 DEF ExternalChange
<1> QED
  BY <1>2, <1>3 DEF Edits

(* A notification about a query file is consumed by queueing it: no batch     *)
(* holds a folder that would subsume it.                                     *)
LEMMA HandlersQueryReadings ==
  ASSUME QInv, Handlers
  PROVE  QueryReadingsAreTracked'
<1> USE DEF workspace, reloader, refresher, RequestReload, RequestQueryRefresh
<1>1. ASSUME UNCHANGED <<disk, index, reloader, refresher>>,
             watched' \subseteq watched,
             roots' = roots \/ reloadPermit',
             reloadPermit => reloadPermit',
             \A f \in QueryFiles :
                f \in InFlight \cup pending => f \in InFlight' \cup pending'
      PROVE  QueryReadingsAreTracked'
  BY <1>1 DEF QInv, QueryReadingsAreTracked, FileWillBeRead
<1>2. ASSUME NEW s \in Sources, DidSave(s) PROVE QueryReadingsAreTracked'
  <2>1. CASE AffectsWorkspace(s)
    <3>1. s \notin QueryFiles
      BY <2>1, WorkspaceAssumption DEF AffectsWorkspace
    <3>2. \A f \in QueryFiles : f \in InFlight => f \in InFlight'
      BY <1>2, <3>1 DEF DidSave, InFlight
    <3> QED
      BY <1>1, <1>2, <2>1, <3>2 DEF DidSave
  <2>2. CASE ~AffectsWorkspace(s)
    <3>1. \A f \in QueryFiles : f \in InFlight => f \in InFlight' \cup {s}
      BY <1>2 DEF DidSave, InFlight
    <3>2. pending' = pending \cup {s}
      BY <1>2, <2>2 DEF DidSave
    <3> QED
      BY <1>1, <1>2, <2>2, <3>1, <3>2 DEF DidSave
  <2> QED
    BY <2>1, <2>2
<1>3. ASSUME NEW S \in Batches, DidChangeWatchedFiles(S)
      PROVE  QueryReadingsAreTracked'
  <2>1. \A f \in InFlight : f \in InFlight' \/ f \in S
    BY <1>3 DEF DidChangeWatchedFiles, InFlight
  <2>2. S \subseteq Folders \/ S \subseteq QueryFiles
    BY <1>3 DEF DidChangeWatchedFiles, QInv, QueryReadingsAreTracked
  <2>3. CASE \E s \in S : AffectsWorkspace(s)
    <3>1. S \cap QueryFiles = {}
      BY <2>2, <2>3, WorkspaceAssumption DEF AffectsWorkspace
    <3> QED
      BY <1>1, <1>3, <2>1, <2>3, <3>1 DEF DidChangeWatchedFiles
  <2>4. CASE ~\E s \in S : AffectsWorkspace(s)
    <3>1. pending' = pending \cup S
      BY <1>3, <2>4 DEF DidChangeWatchedFiles, QInv, TypeOK
    <3> QED
      BY <1>1, <1>3, <2>1, <2>4, <3>1 DEF DidChangeWatchedFiles
  <2> QED
    BY <2>3, <2>4
<1>4. ASSUME NEW removed \in SUBSET Folders, NEW added \in SUBSET Folders,
             DidChangeWorkspaceFolders(removed, added)
      PROVE  QueryReadingsAreTracked'
  <2>1. InFlight' = InFlight
    BY <1>4 DEF DidChangeWorkspaceFolders, InFlight
  <2> QED
    BY <1>1, <1>4, <2>1 DEF DidChangeWorkspaceFolders
<1> QED
  BY <1>2, <1>3, <1>4 DEF Handlers

(* A reload installs what it has scanned, which no edit has overtaken.        *)
LEMMA ReloadWorkerQueryReadings ==
  ASSUME QInv, ReloadWorker
  PROVE  QueryReadingsAreTracked'
<1> USE DEF workspace, refresher, ReloaderUnchanged, QInv
<1>0. InFlight' = InFlight /\ disk' = disk
  BY DEF ReloadWorker, WakeReloader, ReadRoots, LoadFolder, ScanQueries,
         InstallWorkspace, UnregisterWatchers, RegisterWatchers, InFlight
<1>1. CASE WakeReloader
  BY <1>0, <1>1 DEF WakeReloader, QueryReadingsAreTracked, FileWillBeRead
<1>2. CASE ReadRoots
  BY <1>0, <1>2 DEF ReadRoots, QueryReadingsAreTracked, FileWillBeRead
<1>3. ASSUME NEW d \in Folders, LoadFolder(d) PROVE QueryReadingsAreTracked'
  BY <1>0, <1>3 DEF LoadFolder, QueryReadingsAreTracked, FileWillBeRead
<1>4. CASE ScanQueries
  <2>1. \A f \in QueryFiles : Home[f] \in newRoots' => newIndex'[f] = disk'[f]
    BY <1>0, <1>4 DEF ScanQueries, Sources
  <2> QED
    BY <1>0, <1>4, <2>1
       DEF ScanQueries, QueryReadingsAreTracked, FileWillBeRead
<1>5. CASE InstallWorkspace
  BY <1>0, <1>5 DEF InstallWorkspace, QueryReadingsAreTracked
<1>6. CASE UnregisterWatchers
  BY <1>0, <1>6
     DEF UnregisterWatchers, QueryReadingsAreTracked, FileWillBeRead
<1>7. CASE RegisterWatchers
  BY <1>0, <1>7 DEF RegisterWatchers, QueryReadingsAreTracked, FileWillBeRead
<1> QED
  BY <1>1, <1>2, <1>3, <1>4, <1>5, <1>6, <1>7 DEF ReloadWorker

(* A refresh gives up a file only by indexing it as it is on disk, unless the *)
(* file is queued again.                                                    *)
LEMMA RefreshWorkerQueryReadings ==
  ASSUME QInv, RefreshWorker
  PROVE  QueryReadingsAreTracked'
<1> USE DEF RefresherUnchanged, clientVars, reloader, QInv
<1>0. InFlight' = InFlight /\ disk' = disk /\ watched' = watched
  BY DEF RefreshWorker, WakeRefresher, TakePending, SnapshotDirs, ReadChanged,
         ApplyReplacements, InFlight
<1>1. CASE WakeRefresher
  BY <1>0, <1>1 DEF WakeRefresher, QueryReadingsAreTracked, FileWillBeRead
<1>2. CASE TakePending
  BY <1>0, <1>2 DEF TakePending, QueryReadingsAreTracked, FileWillBeRead
<1>3. CASE SnapshotDirs
  BY <1>0, <1>3 DEF SnapshotDirs, QueryReadingsAreTracked, FileWillBeRead
<1>4. CASE ReadChanged
  <2>1. dirsSeen \cap QueryFiles = {}
    BY WorkspaceAssumption DEF TypeOK
  <2>2. \A f \in QueryFiles \cap changed' : replacements'[f] = disk'[f]
    BY <1>0, <1>4, <2>1 DEF ReadChanged, Sources
  <2> QED
    BY <1>0, <1>4, <2>2
       DEF ReadChanged, QueryReadingsAreTracked, FileWillBeRead
<1>5. CASE ApplyReplacements
  <2>1. \A f \in QueryFiles :
           index'[f] = IF f \in changed THEN replacements[f] ELSE index[f]
    BY <1>5 DEF ApplyReplacements, Sources
  <2>2. \A f \in QueryFiles : Home[f] \in roots' =>
           index'[f] = disk'[f] \/ FileWillBeRead(f)'
    BY <1>0, <1>5, <2>1
       DEF ApplyReplacements, QueryReadingsAreTracked, FileWillBeRead
  <2> QED
    BY <1>0, <1>5, <2>2 DEF ApplyReplacements, QueryReadingsAreTracked
<1> QED
  BY <1>1, <1>2, <1>3, <1>4, <1>5 DEF RefreshWorker

(* Hence QInv is an invariant while files and folders change apart.          *)
LEMMA QInvInvariant ==
  ASSUME QuietLoads, ~UnwatchedChanges
  PROVE  Spec => []QInv
<1>1. Init => QInv
  BY InitType, InitQueryReadings DEF QInv
<1>2. QInv /\ [Next]_vars => QInv'
  <2> SUFFICES ASSUME QInv, [Next]_vars PROVE QInv'
    OBVIOUS
  <2>1. TypeOK'
    BY StepType DEF QInv
  <2>2. CASE UNCHANGED vars
    BY <2>1, <2>2
       DEF QInv, QueryReadingsAreTracked, FileWillBeRead, InFlight, vars,
           clientVars, workspace, wakeups, reloader, refresher
  <2>3. CASE Next
    BY <2>1, <2>3, EditsQueryReadings, HandlersQueryReadings,
       ReloadWorkerQueryReadings, RefreshWorkerQueryReadings DEF Next, QInv
  <2> QED
    BY <2>2, <2>3
<1> QED
  BY <1>1, <1>2, PTL DEF Spec

(* Whenever the server has come to rest, every query file of an open folder   *)
(* is indexed as it is on disk, however folders were opened and closed.      *)
THEOREM RestIsIndexed ==
  ASSUME QuietLoads, ~UnwatchedChanges
  PROVE  Spec => []SettledQueryIndex
<1>1. QInv => SettledQueryIndex
  BY DEF QInv, QueryReadingsAreTracked, FileWillBeRead, SettledQueryIndex,
         Settled, ReloaderIdle, RefresherIdle
<1> QED
  BY <1>1, QInvInvariant, PTL
-----------------------------------------------------------------------------
(* The refinement of SchemaPromise, whatever the client does: no assumption   *)
(* on its edits is needed.  RInv is the link between the reload worker's       *)
(* local variables and what is served.                                       *)
RInv == TypeOK /\ ReadingsWereOnDisk

(* An edit only moves the disk on.                                          *)
LEMMA EditsGrow ==
  ASSUME RInv, Edits
  PROVE  \E S \in SUBSET Sources :
            /\ MayChange(S) /\ disk' = NextEdition(S)
            /\ UNCHANGED <<workspace, reloader>>
<1>1. ASSUME NEW s \in Sources, EditorSave(s)
      PROVE  /\ MayChange({s}) /\ disk' = NextEdition({s})
             /\ UNCHANGED <<workspace, reloader>>
  BY <1>1 DEF EditorSave
<1>2. ASSUME NEW S \in Batches, ExternalChange(S)
      PROVE  /\ MayChange(S) /\ disk' = NextEdition(S)
             /\ UNCHANGED <<workspace, reloader>>
  BY <1>2 DEF ExternalChange
<1>3. \A s \in Sources : {s} \in SUBSET Sources
  OBVIOUS
<1>4. \A S \in Batches : S \in SUBSET Sources
  BY WorkspaceAssumption
<1> QED
  BY <1>1, <1>2, <1>3, <1>4 DEF Edits

(* Only the reload worker touches what the link speaks of.                   *)
LEMMA OthersKeepReadings ==
  ASSUME RInv, Handlers \/ RefreshWorker
  PROVE  UNCHANGED <<disk, served, reloader>>
BY DEF Handlers, DidSave, DidChangeWatchedFiles, DidChangeWorkspaceFolders,
       RefreshWorker, WakeRefresher, TakePending, SnapshotDirs, ReadChanged,
       ApplyReplacements, RefresherUnchanged, workspace, clientVars, reloader

(* The reload worker starts from no reading, reads what is on disk, and        *)
(* serves exactly what it has read.                                         *)
LEMMA ReloadWorkerReadings ==
  ASSUME RInv, ReloadWorker
  PROVE  ReadingsWereOnDisk'
<1> USE DEF ReloaderUnchanged, RInv
<1>0. disk' = disk
  BY DEF ReloadWorker, WakeReloader, ReadRoots, LoadFolder, ScanQueries,
         InstallWorkspace, UnregisterWatchers, RegisterWatchers
<1>1. CASE WakeReloader
  BY <1>0, <1>1 DEF WakeReloader, workspace, ReadingsWereOnDisk
<1>2. CASE ReadRoots
  BY <1>0, <1>2 DEF ReadRoots, workspace, NothingLoaded, ReadingsWereOnDisk
<1>3. ASSUME NEW d \in Folders, LoadFolder(d) PROVE ReadingsWereOnDisk'
  <2>1. \A e \in Folders :
           newSchema'[e] = IF e = d THEN disk[d] ELSE newSchema[e]
    BY <1>3 DEF LoadFolder, TypeOK
  <2>2. disk[d] \in Nat /\ (served[d] # Absent => served[d] <= disk[d])
    BY WorkspaceAssumption DEF TypeOK, Sources, Edition, ReadingsWereOnDisk
  <2> QED
    BY <1>0, <1>3, <2>1, <2>2 DEF LoadFolder, workspace, ReadingsWereOnDisk
<1>4. CASE ScanQueries
  BY <1>0, <1>4 DEF ScanQueries, workspace, ReadingsWereOnDisk
<1>5. CASE InstallWorkspace
  BY <1>0, <1>5 DEF InstallWorkspace, ReadingsWereOnDisk
<1>6. CASE UnregisterWatchers
  BY <1>0, <1>6 DEF UnregisterWatchers, workspace, ReadingsWereOnDisk
<1>7. CASE RegisterWatchers
  BY <1>0, <1>7 DEF RegisterWatchers, workspace, ReadingsWereOnDisk
<1> QED
  BY <1>1, <1>2, <1>3, <1>4, <1>5, <1>6, <1>7 DEF ReloadWorker

(* What is served and what a reload holds was on disk, in this order.         *)
LEMMA RInvInvariant == Spec => []RInv
<1>1. Init => RInv
  <2>1. Init => ReadingsWereOnDisk
    BY DEF Init, NothingLoaded, ReadingsWereOnDisk
  <2> QED
    BY <2>1, InitType DEF RInv
<1>2. RInv /\ [Next]_vars => RInv'
  <2> SUFFICES ASSUME RInv, [Next]_vars PROVE RInv'
    OBVIOUS
  <2>1. TypeOK'
    BY StepType DEF RInv
  <2>2. CASE Edits
    <3>1. PICK S \in SUBSET Sources :
             /\ MayChange(S) /\ disk' = NextEdition(S)
             /\ UNCHANGED <<workspace, reloader>>
      BY <2>2, EditsGrow
    <3>2. \A d \in Folders : disk[d] \in Nat /\ disk'[d] \in {disk[d], disk[d] + 1}
      BY <3>1, WorkspaceAssumption
         DEF RInv, TypeOK, NextEdition, Sources, Edition
    <3>3. \A d \in Folders : /\ served[d] # Absent => served[d] \in Nat
                             /\ newSchema[d] # Absent => newSchema[d] \in Nat
      BY WorkspaceAssumption DEF RInv, TypeOK, Edition
    <3>4. ReadingsWereOnDisk'
      BY <3>1, <3>2, <3>3 DEF RInv, ReadingsWereOnDisk, workspace, reloader
    <3> QED
      BY <2>1, <3>4 DEF RInv
  <2>3. CASE Handlers \/ RefreshWorker \/ UNCHANGED vars
    BY <2>1, <2>3, OthersKeepReadings
       DEF RInv, ReadingsWereOnDisk, reloader, workspace, clientVars, vars
  <2>4. CASE ReloadWorker
    BY <2>1, <2>4, ReloadWorkerReadings DEF RInv
  <2> QED
    BY <2>2, <2>3, <2>4 DEF Next
<1> QED
  BY <1>1, <1>2, PTL DEF Spec

(* An edit of sources is an edit of the folders among them.                   *)
LEMMA EditsImplement ==
  ASSUME RInv, Edits
  PROVE  \E D \in SUBSET Folders : Promise!Edit(D)
<1>1. PICK S \in SUBSET Sources :
         /\ MayChange(S) /\ disk' = NextEdition(S)
         /\ UNCHANGED <<workspace, reloader>>
  BY EditsGrow
<1>2. [d \in Folders |-> disk'[d]] =
         [d \in Folders |-> IF d \in S \cap Folders
                            THEN [e \in Folders |-> disk[e]][d] + 1
                            ELSE [e \in Folders |-> disk[e]][d]]
  BY <1>1 DEF NextEdition, Sources
<1>3. Promise!Edit(S \cap Folders)
  BY <1>1, <1>2 DEF Promise!Edit, workspace
<1> QED
  BY <1>3

(* An installation is a publication: all folders at once, none older than      *)
(* before, each as it was on disk.                                          *)
LEMMA InstallImplements ==
  ASSUME RInv, InstallWorkspace
  PROVE  Promise!Publish
<1> USE DEF RInv, InstallWorkspace
<1>0. /\ disk' = disk /\ roots' = newRoots /\ served' = newSchema
      /\ roots' \in SUBSET Folders
  BY DEF ReloaderUnchanged, TypeOK
<1>1. \A d \in Folders : /\ disk[d] \in Nat
                         /\ served[d] # Absent => served[d] \in Nat
                         /\ newSchema[d] # Absent => newSchema[d] \in Nat
  BY WorkspaceAssumption DEF TypeOK, Sources, Edition
<1>2. \A d \in Folders \ roots' : served'[d] = Absent
  BY <1>0 DEF ReadingsWereOnDisk
<1>3. \A d \in roots' : /\ served'[d] \in 0..disk[d]
                        /\ served[d] # Absent => served'[d] >= served[d]
  BY <1>0, <1>1 DEF ReadingsWereOnDisk
<1>4. served' \in [Folders -> Promise!Editions \cup {Absent}]
  <2>1. \A d \in roots' : served'[d] \in Promise!Editions
    BY <1>0, <1>3 DEF Promise!Editions
  <2> QED
    BY <1>0, <1>2, <2>1 DEF TypeOK
<1>5. \A d \in roots' : served'[d] \in 0..[e \in Folders |-> disk[e]][d]
  BY <1>0, <1>3
<1> QED
  BY <1>0, <1>2, <1>3, <1>4, <1>5 DEF Promise!Publish

(* Every step is a step of the promise or changes nothing it speaks of.       *)
LEMMA StepImplements ==
  ASSUME RInv, RInv', [Next]_vars
  PROVE  [Promise!Next]_(Promise!vars)
<1> USE DEF workspace, reloader, clientVars
<1>1. CASE Edits
  BY <1>1, EditsImplement DEF Promise!Next
<1>2. CASE Handlers
  <2>1. UNCHANGED <<disk, served>> /\ roots' \in SUBSET Folders
    BY <1>2, OthersKeepReadings DEF RInv, TypeOK
  <2> QED
    BY <2>1 DEF Promise!Next, Promise!ChangeFolders
<1>3. CASE RefreshWorker
  BY <1>3
     DEF RefreshWorker, WakeRefresher, TakePending, SnapshotDirs, ReadChanged,
         ApplyReplacements, RefresherUnchanged, Promise!vars
<1>4. CASE InstallWorkspace
  BY <1>4, InstallImplements DEF Promise!Next
<1>5. CASE ReloadWorker /\ ~InstallWorkspace
  BY <1>5
     DEF ReloadWorker, ReloaderUnchanged, WakeReloader, ReadRoots, LoadFolder,
         ScanQueries, UnregisterWatchers, RegisterWatchers, Promise!vars
<1>6. CASE UNCHANGED vars
  BY <1>6 DEF vars, Promise!vars
<1> QED
  BY <1>1, <1>2, <1>3, <1>4, <1>5, <1>6 DEF Next

(* The index keeps the safety part of its promise, whoever edits what and      *)
(* when: a reader never sees folders of two reloads, a schema that was never   *)
(* on disk, or an older schema than before.                                  *)
THEOREM KeepsItsPromise == Spec => Promise!Safety
<1>1. Init => Promise!Init
  <2>1. ASSUME Init PROVE [d \in Folders |-> disk[d]] = [d \in Folders |-> 0]
    BY <2>1 DEF Init, Sources
  <2> QED
    BY <2>1, WorkspaceAssumption DEF Init, Promise!Init, NothingLoaded
<1>2. RInv /\ RInv' /\ [Next]_vars => [Promise!Next]_(Promise!vars)
  BY StepImplements
<1> QED
  BY <1>1, <1>2, RInvInvariant, PTL DEF Spec, Promise!Safety
=============================================================================
