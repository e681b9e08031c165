---------------------------- MODULE Diagnostics ----------------------------
(***************************************************************************)
(* The diagnostics that sqlx-lsp pushes (src/src/server.rs): every change   *)
(* of an open document publishes a report for it, stamped with the version  *)
(* it was computed from; a reload republishes every open document; reloads  *)
(* and query-index refreshes end in a sweep that publishes unstamped        *)
(* reports for the closed query files and clears the files that had one at  *)
(* the last sweep.  Computing a report and sending it are different steps,  *)
(* and the handlers and the two workers run concurrently.                   *)
(*                                                                          *)
(* Contents and versions are both numbered by editions: opening a file and  *)
(* changing its buffer make a new one.  A client that pulls diagnostics is   *)
(* sent nothing: it asks for its open documents when they have changed, and  *)
(* a polling one also keeps asking for the whole workspace.  How the workers *)
(* come to run, and what they read, is in WorkspaceIndex.                   *)
(***************************************************************************)
EXTENDS Naturals

CONSTANTS
    Files,          \* query sources
    Nothing,        \* no edition: not open, not indexed, an unstamped report
    Clients,        \* what the client may be, among ClientKinds
    SendsYield,     \* whether a handler that has computed its report may be
                    \* suspended before the report is on its way
    Calm,           \* the events among Events that only happen while both
                    \* workers are idle
    Verdicts,       \* the sets of <<edition, schema>> that may have findings
    MaxEdition,     \* bound on the editions of a file
    MaxSchema       \* bound on the number of schema reloads

Editions == 0..MaxEdition
Schemas  == 0..MaxSchema
Workers  == {"reload", "refresh"}
ClientKinds == {"pushed", "pulling", "polling"}
Events   == {"open", "save", "close", "checkout", "reload"}

ASSUME DiagnosticsAssumption ==
    /\ Nothing \notin Nat
    /\ Clients \subseteq ClientKinds
    /\ SendsYield \in BOOLEAN
    /\ Calm \subseteq Events
    /\ Verdicts \subseteq SUBSET (Nat \X Nat)
    /\ MaxEdition \in Nat
    /\ MaxSchema \in Nat

VARIABLES
    client,     \* which kind of client this one is
    verdict,    \* the <<edition, schema>> pairs that have findings
    latest,     \* latest[f]: the last edition of f that was made
    disk,       \* disk[f]: the edition last saved
    open,       \* documents: the edition of each open buffer
    schema,     \* the schema contexts in the workspace
    index,      \* query_documents: the edition of each file
    unindexed,  \* pending_query_refresh
    published,  \* published_workspace_diagnostics
    handlers,   \* the notification handlers that have yet to publish
    pc,         \* where each worker is
    toReport,   \* the open documents that publish_all_diagnostics has left
    held,       \* the open-document report the reload worker has computed
    reports,    \* the closed-file reports each worker's sweep has left
    cleared,    \* the files each worker's sweep has left to clear
    asked,      \* the open documents a pulling client is about to ask for
    poll,       \* the workspace/diagnostic request that is on its way
    shown       \* what the client shows for each file

session == <<client, verdict>>
sources == <<session, latest, disk, open>>
workers == <<pc, toReport, held, reports, cleared, published>>
pulls   == <<asked, poll>>
vars    == <<sources, schema, index, unindexed, handlers, workers, pulls,
             shown>>

Pulls == client # "pushed"

(* A report for one file: the version it is stamped with, and what it was    *)
(* computed from.                                                           *)
Report(f, version, edition) ==
    [file |-> f, version |-> version, edition |-> edition, schema |-> schema,
     findings |-> <<edition, schema>> \in verdict]

Empty(f) == [file |-> f, version |-> Nothing, edition |-> Nothing,
             schema |-> Nothing, findings |-> FALSE]

Reports == [file : Files, version : Editions \cup {Nothing},
            edition : Editions \cup {Nothing},
            schema : Schemas \cup {Nothing}, findings : BOOLEAN]

(* A handler is named by the edition whose notification it handles.         *)
Waiting == [file : Files, edition : Editions]

(* The open documents that are yet to be reported, and the reports so far.    *)
Polls == [left : SUBSET Files, items : SUBSET Reports]

TypeOK ==
    /\ client \in Clients
    /\ verdict \in Verdicts
    /\ latest \in [Files -> Editions]
    /\ disk \in [Files -> Editions]
    /\ open \in [Files -> Editions \cup {Nothing}]
    /\ schema \in Schemas
    /\ index \in [Files -> Editions]
    /\ unindexed \subseteq Files
    /\ published \subseteq Files
    /\ handlers \subseteq Waiting \cup Reports
    /\ pc \in [Workers -> {"idle", "all", "open", "closed", "swap", "push"}]
    /\ toReport \subseteq Files
    /\ held \in Reports \cup {Nothing}
    /\ reports \in [Workers -> SUBSET Reports]
    /\ cleared \in [Workers -> SUBSET Files]
    /\ asked \subseteq Files
    /\ poll = Nothing \/ poll \in Polls
    /\ shown \in [Files -> Reports]

IsOpen(f) == open[f] # Nothing

At(w, step)   == pc[w] = step
Goto(w, step) == pc' = [pc EXCEPT ![w] = step]

Init ==
    /\ client \in Clients
    /\ verdict \in Verdicts
    /\ latest = [f \in Files |-> 0]
    /\ disk = [f \in Files |-> 0]
    /\ open = [f \in Files |-> Nothing]
    /\ schema = 0
    /\ index = [f \in Files |-> 0]
    /\ unindexed = {}
    /\ published = {}
    /\ handlers = {}
    \* the first load has installed its contexts and goes on to publish
    /\ pc = [w \in Workers |-> IF w = "reload" THEN "all" ELSE "idle"]
    /\ toReport = {}
    /\ held = Nothing
    /\ reports = [w \in Workers |-> {}]
    /\ cleared = [w \in Workers |-> {}]
    /\ asked = {}
    /\ poll = Nothing
    /\ shown = [f \in Files |-> Empty(f)]
-----------------------------------------------------------------------------
(* The client keeps the newest report: one that is stamped with an older     *)
(* version than the open buffer has is dropped.                             *)
Outdated(r) ==
    /\ r.version # Nothing
    /\ IsOpen(r.file)
    /\ r.version < open[r.file]

Deliver(r) == shown' = IF Outdated(r) THEN shown
                       ELSE [shown EXCEPT ![r.file] = r]

(* Faulty variant: the report of an open document is not stamped.            *)
DiagnosticsForUnstamped(f) == Report(f, Nothing, open[f])

(* diagnostics_for: text, version and contexts are read under one guard.     *)
DiagnosticsFor(f) == Report(f, open[f], open[f])
-----------------------------------------------------------------------------
(* The notification handlers.  They share one task: unless a send suspends   *)
(* it, a handler with a report in hand is not interrupted by another.       *)
MaySwitch == SendsYield \/ handlers \cap Reports = {}

WorkersIdle == unindexed = {} /\ \A w \in Workers : At(w, "idle")

(* Under Calm an event waits for the workers.                                *)
MayHappen(event) == event \in Calm => WorkersIdle

NewEdition(f) ==
    /\ latest[f] < MaxEdition
    /\ latest' = [latest EXCEPT ![f] = @ + 1]
    /\ open' = [open EXCEPT ![f] = latest'[f]]
    /\ handlers' = handlers \cup {[file |-> f, edition |-> latest'[f]]}
    /\ asked' = IF Pulls THEN asked \cup {f} ELSE asked
    /\ UNCHANGED <<session, disk, schema, index, unindexed, workers, poll,
                   shown>>

DidOpen(f) ==
    /\ MaySwitch
    /\ MayHappen("open")
    /\ ~IsOpen(f)
    /\ NewEdition(f)

DidChange(f) ==
    /\ MaySwitch
    /\ IsOpen(f)
    /\ NewEdition(f)

(* The buffer is written to disk and did_save queues the file.               *)
DidSave(f) ==
    /\ MaySwitch
    /\ MayHappen("save")
    /\ IsOpen(f)
    /\ disk[f] # open[f]
    /\ disk' = [disk EXCEPT ![f] = open[f]]
    /\ unindexed' = unindexed \cup {f}
    /\ UNCHANGED <<session, latest, open, schema, index, handlers, workers,
                   pulls, shown>>

(* Another program changes a closed file; the watcher handler queues it.      *)
Checkout(f) ==
    /\ MaySwitch
    /\ MayHappen("checkout")
    /\ ~IsOpen(f)
    /\ latest[f] < MaxEdition
    /\ latest' = [latest EXCEPT ![f] = @ + 1]
    /\ disk' = [disk EXCEPT ![f] = latest'[f]]
    /\ unindexed' = unindexed \cup {f}
    /\ UNCHANGED <<session, open, schema, index, handlers, workers, pulls,
                   shown>>

(* The document is removed; an empty report follows, unless the client pulls   *)
(* and discards what it shows by itself.                                     *)
DidClose(f) ==
    /\ MaySwitch
    /\ MayHappen("close")
    /\ IsOpen(f)
    /\ open' = [open EXCEPT ![f] = Nothing]
    /\ handlers' = IF Pulls THEN handlers ELSE handlers \cup {Empty(f)}
    /\ asked' = asked \ {f}
    /\ shown' = IF Pulls THEN [shown EXCEPT ![f] = Empty(f)] ELSE shown
    /\ UNCHANGED <<session, latest, disk, schema, index, unindexed, workers,
                   poll>>

(* publish_diagnostics_for, first half; nothing is published for a document   *)
(* that has been closed in the meantime, nor to a client that pulls.          *)
Compute(h) ==
    /\ MaySwitch
    /\ h \in handlers \cap Waiting
    /\ handlers' = (handlers \ {h}) \cup
                   (IF IsOpen(h.file) /\ ~Pulls
                    THEN {DiagnosticsFor(h.file)} ELSE {})
    /\ UNCHANGED <<sources, schema, index, unindexed, workers, pulls, shown>>

(* publish_diagnostics_for, second half, and the end of did_close.           *)
Send(h) ==
    /\ h \in handlers \cap Reports
    /\ handlers' = handlers \ {h}
    /\ Deliver(h)
    /\ UNCHANGED <<sources, schema, index, unindexed, workers, pulls>>
-----------------------------------------------------------------------------
(* The workers.                                                             *)
(* A reload replaces the contexts and the query index.                       *)
Reload ==
    /\ At("reload", "idle")
    /\ MayHappen("reload")
    /\ schema < MaxSchema
    /\ schema' = schema + 1
    /\ index' = disk
    /\ Goto("reload", "all")
    /\ UNCHANGED <<sources, unindexed, handlers, toReport, held, reports,
                   cleared, published, pulls, shown>>

(* Faulty variant: only documents that had a report pushed while closed.      *)
ListPublished ==
    /\ At("reload", "all")
    /\ toReport' = {f \in published : IsOpen(f)}
    /\ Goto("reload", "open")
    /\ UNCHANGED <<sources, schema, index, unindexed, handlers, held, reports,
                   cleared, published, pulls, shown>>

(* publish_all_diagnostics collects the documents that are open ...          *)
ListOpen ==
    /\ At("reload", "all")
    /\ toReport' = {f \in Files : IsOpen(f)}
    /\ Goto("reload", "open")
    /\ UNCHANGED <<sources, schema, index, unindexed, handlers, held, reports,
                   cleared, published, pulls, shown>>

(* ... and publishes them one by one, if they are still open.                *)
ComputeOpen(f) ==
    /\ At("reload", "open")
    /\ held = Nothing
    /\ f \in toReport
    /\ toReport' = toReport \ {f}
    /\ held' = IF IsOpen(f) /\ ~Pulls THEN DiagnosticsFor(f) ELSE Nothing
    /\ UNCHANGED <<sources, schema, index, unindexed, handlers, pc, reports,
                   cleared, published, pulls, shown>>

SendOpen ==
    /\ At("reload", "open")
    /\ held # Nothing
    /\ Deliver(held)
    /\ held' = Nothing
    /\ UNCHANGED <<sources, schema, index, unindexed, handlers, pc, toReport,
                   reports, cleared, published, pulls>>

AllReported ==
    /\ At("reload", "open")
    /\ held = Nothing
    /\ toReport = {}
    /\ Goto("reload", "closed")
    /\ UNCHANGED <<sources, schema, index, unindexed, handlers, toReport, held,
                   reports, cleared, published, pulls, shown>>

(* Faulty variant: no sweep follows a refresh.                               *)
RefreshWithoutSweep ==
    /\ At("refresh", "idle")
    /\ unindexed # {}
    /\ index' = [f \in Files |-> IF f \in unindexed THEN disk[f] ELSE index[f]]
    /\ unindexed' = {}
    /\ UNCHANGED <<sources, schema, handlers, pc, toReport, held, reports,
                   cleared, published, pulls, shown>>

(* A refresh replaces the entries of the queued files.                       *)
Refresh ==
    /\ At("refresh", "idle")
    /\ unindexed # {}
    /\ index' = [f \in Files |-> IF f \in unindexed THEN disk[f] ELSE index[f]]
    /\ unindexed' = {}
    /\ Goto("refresh", "closed")
    /\ UNCHANGED <<sources, schema, handlers, toReport, held, reports, cleared,
                   published, pulls, shown>>

(* publish_workspace_diagnostics: the reports of the closed files are        *)
(* computed ...                                                             *)
ClosedQueryDiagnostics ==
    {r \in {Report(f, Nothing, index[f]) : f \in {g \in Files : ~IsOpen(g)}} :
        r.findings}

ComputeClosed(w) ==
    /\ At(w, "closed")
    /\ ~Pulls
    /\ reports' = [reports EXCEPT ![w] = ClosedQueryDiagnostics]
    /\ Goto(w, "swap")
    /\ UNCHANGED <<sources, schema, index, unindexed, handlers, toReport, held,
                   cleared, published, pulls, shown>>

(* ... for clients that do not pull.                                         *)
SkipSweep(w) ==
    /\ At(w, "closed")
    /\ Pulls
    /\ Goto(w, "idle")
    /\ UNCHANGED <<sources, schema, index, unindexed, handlers, toReport, held,
                   reports, cleared, published, pulls, shown>>

(* Faulty variants: the reports are kept in place of their files, and the     *)
(* files of the last sweep are forgotten.                                   *)
SwapPublishedReports(w) ==
    /\ At(w, "swap")
    /\ published' = reports[w]
    /\ cleared' = [cleared EXCEPT ![w] = {}]
    /\ Goto(w, "push")
    /\ UNCHANGED <<sources, schema, index, unindexed, handlers, toReport, held,
                   reports, pulls, shown>>

SwapPublishedAndForget(w) ==
    /\ At(w, "swap")
    /\ published' = {r.file : r \in reports[w]}
    /\ cleared' = [cleared EXCEPT ![w] = {}]
    /\ Goto(w, "push")
    /\ UNCHANGED <<sources, schema, index, unindexed, handlers, toReport, held,
                   reports, pulls, shown>>

(* ... the published set is swapped for the files reported now ...           *)
SwapPublished(w) ==
    /\ At(w, "swap")
    /\ published' = {r.file : r \in reports[w]}
    /\ cleared' = [cleared EXCEPT ![w] = published \ published']
    /\ Goto(w, "push")
    /\ UNCHANGED <<sources, schema, index, unindexed, handlers, toReport, held,
                   reports, pulls, shown>>

(* ... and the reports are pushed, then the clearances.                      *)
PushReport(w) == \E r \in reports[w] :
    /\ At(w, "push")
    /\ reports' = [reports EXCEPT ![w] = @ \ {r}]
    /\ Deliver(r)
    /\ UNCHANGED <<sources, schema, index, unindexed, handlers, pc, toReport,
                   held, cleared, published, pulls>>

PushCleared(w) == \E f \in cleared[w] :
    /\ At(w, "push")
    /\ reports[w] = {}
    /\ cleared' = [cleared EXCEPT ![w] = @ \ {f}]
    /\ Deliver(Empty(f))
    /\ UNCHANGED <<sources, schema, index, unindexed, handlers, pc, toReport,
                   held, reports, published, pulls>>

EndSweep(w) ==
    /\ At(w, "push")
    /\ reports[w] = {}
    /\ cleared[w] = {}
    /\ Goto(w, "idle")
    /\ UNCHANGED <<sources, schema, index, unindexed, handlers, toReport, held,
                   reports, cleared, published, pulls, shown>>
-----------------------------------------------------------------------------
(* Pulls.  After a change the client asks for the document; an answer that a  *)
(* further change has overtaken is discarded and asked for again, so that the *)
(* answer and its display are one step.                                      *)
Diagnostic(f) ==
    /\ f \in asked
    /\ asked' = asked \ {f}
    /\ Deliver(DiagnosticsFor(f))
    /\ UNCHANGED <<sources, schema, index, unindexed, handlers, workers, poll>>

(* Faulty variant: open buffers are left to the other request.               *)
WorkspaceDiagnosticOfClosed ==
    /\ client = "polling"
    /\ poll = Nothing
    /\ poll' = [left |-> {}, items |-> ClosedQueryDiagnostics]
    /\ UNCHANGED <<sources, schema, index, unindexed, handlers, workers, asked,
                   shown>>

(* workspace_diagnostic: the closed files are computed and the open documents *)
(* are listed without an await in between ...                                *)
WorkspaceDiagnostic ==
    /\ client = "polling"
    /\ poll = Nothing
    /\ poll' = [left |-> {f \in Files : IsOpen(f)},
                items |-> ClosedQueryDiagnostics]
    /\ UNCHANGED <<sources, schema, index, unindexed, handlers, workers, asked,
                   shown>>

(* ... each of these may wait for the workspace, and is passed over when it   *)
(* has been closed by then or is clean.                                      *)
PollOpen(f) ==
    /\ poll # Nothing
    /\ f \in poll.left
    /\ poll' = [left |-> poll.left \ {f},
                items |-> poll.items \cup {r \in {DiagnosticsFor(f)} :
                                              IsOpen(f) /\ r.findings}]
    /\ UNCHANGED <<sources, schema, index, unindexed, handlers, workers, asked,
                   shown>>

(* The answer names the files that have findings, which is why the client     *)
(* takes the others for clean.  Of a buffer it only takes a stamped report    *)
(* that is not outdated.                                                     *)
Taken(r) == IF IsOpen(r.file) THEN r.version # Nothing /\ ~Outdated(r)
            ELSE r.version = Nothing

AnswerPoll ==
    /\ poll # Nothing
    /\ poll.left = {}
    /\ poll' = Nothing
    /\ shown' = [f \in Files |->
                    LET items == {r \in poll.items : r.file = f /\ Taken(r)}
                    IN  IF items = {} THEN Empty(f)
                        ELSE CHOOSE r \in items : TRUE]
    /\ UNCHANGED <<sources, schema, index, unindexed, handlers, workers, asked>>
-----------------------------------------------------------------------------
Editor == \E f \in Files : \/ DidOpen(f) \/ DidChange(f) \/ DidSave(f)
                           \/ DidClose(f) \/ Checkout(f)

Handlers == \E h \in handlers : Compute(h) \/ Send(h)

Sweep(w) == \/ ComputeClosed(w) \/ SkipSweep(w) \/ SwapPublished(w)
            \/ PushReport(w) \/ PushCleared(w) \/ EndSweep(w)

(* The steps that a worker takes by itself once it has been woken.           *)
Work(w) == \/ w = "reload" /\ \/ ListOpen \/ SendOpen \/ AllReported
                              \/ \E f \in Files : ComputeOpen(f)
           \/ w = "refresh" /\ Refresh
           \/ Sweep(w)

Poll == \/ WorkspaceDiagnostic \/ AnswerPoll \/ \E f \in Files : PollOpen(f)

Next == \/ Editor \/ Handlers \/ Reload \/ \E w \in Workers : Work(w)
        \/ Poll \/ \E f \in Files : Diagnostic(f)

(* The runtime polls the handlers and both workers to their end; the client   *)
(* asks for what it wants to know, and a polling one again and again.         *)
Fairness == /\ \A f \in Files, e \in Editions :
                  WF_vars(Compute([file |-> f, edition |-> e]))
            /\ WF_vars(\E h \in handlers : Send(h))
            /\ \A w \in Workers : WF_vars(Work(w))
            /\ \A f \in Files : WF_vars(Diagnostic(f))
            /\ WF_vars(Poll)

Spec == Init /\ [][Next]_vars /\ Fairness
-----------------------------------------------------------------------------
(* Everything that was started has been published.                          *)
Quiet == handlers = {} /\ asked = {} /\ WorkersIdle

(* Once everything has been published, an open document shows the            *)
(* diagnostics of its text under the schema in force (server.rs,             *)
(* publish_diagnostics_for: "a stale report can be sent after a fresh one;   *)
(* the version lets clients keep the newest").                              *)
OpenShowsCurrent == Quiet => \A f \in Files : IsOpen(f) =>
    LET current == Report(f, open[f], open[f])
    IN  IF current.findings
        THEN shown[f].edition = current.edition /\ shown[f].schema = schema
        ELSE ~shown[f].findings

(* The same as far as the text goes: findings computed from text that the    *)
(* buffer does not have are not left on screen (server.rs,                   *)
(* closed_query_diagnostics: "Open buffers report through document           *)
(* synchronization instead").                                               *)
OpenShowsItsText == Quiet => \A f \in Files :
    IsOpen(f) /\ shown[f].findings => shown[f].edition = open[f]

(* Clearing is for files that became clean: a sweep does not wipe the         *)
(* findings a client shows for the text of an open buffer (server.rs,         *)
(* publish_workspace_diagnostics: "clearing files that became clean since    *)
(* the last sweep").                                                        *)
SweepsSpareOpenBuffers ==
    [][\A w \in Workers : \A f \in cleared[w] \ cleared'[w] :
          IsOpen(f) /\ shown[f].version = open[f] =>
              shown'[f].findings = shown[f].findings]_vars

(* Once everything has been published, each closed file that shows findings  *)
(* is in the published set (server.rs, published_workspace_diagnostics: "The *)
(* closed files currently holding pushed workspace diagnostics, so the next  *)
(* sweep can clear the ones that became clean").                            *)
ClosedFindingsAreTracked == Quiet => \A f \in Files :
    ~IsOpen(f) /\ shown[f].findings => f \in published

(* What a closed file shows is what the query index and the schema say of it: *)
(* a file that was fixed does not keep the findings it had, and what was      *)
(* computed for a buffer is not shown once it is closed (server.rs,          *)
(* did_close: "Closed documents keep no diagnostics").                       *)
ClosedShowsTheIndex == Quiet => \A f \in Files :
    ~IsOpen(f) /\ shown[f].findings =>
        shown[f] = Report(f, Nothing, index[f])

(* A polling client is only told of the files that have findings.  What it     *)
(* takes for clean is right if it is clean under s or a later schema.          *)
RightlyClean(f, s) ==
    /\ client = "polling"
    /\ ~shown[f].findings
    /\ \E t \in s..schema : <<open[f], t>> \notin verdict

(* A new schema reaches every open document: each is shown a report computed  *)
(* under it, or rightly as clean, unless the document is closed first          *)
(* (server.rs, publish_all_diagnostics: "Republishes diagnostics for every     *)
(* open document, after the schema contexts changed"; workspace_diagnostic,    *)
(* which leaves clean documents out).                                        *)
SchemaReachesOpenDocuments ==
    \A f \in Files, s \in Schemas :
        (At("reload", "all") /\ schema = s /\ IsOpen(f)) ~>
            \/ ~IsOpen(f)
            \/ shown[f].schema \in s..MaxSchema
            \/ RightlyClean(f, s)

(* A client that keeps polling comes to show what the server knows, once      *)
(* nothing changes any more: the text of its buffers, and the query index for *)
(* closed files, under the schema in force, each file once (server.rs,        *)
(* workspace_diagnostic: "Open buffers report their live contents, with      *)
(* versions so the client can drop reports that raced an edit").              *)
Known(f) == IF IsOpen(f) THEN DiagnosticsFor(f)
            ELSE Report(f, Nothing, index[f])

PollsSettle ==
    (client = "polling") ~> [](\A f \in Files :
        IF Known(f).findings THEN shown[f] = Known(f) ELSE ~shown[f].findings)
-----------------------------------------------------------------------------
(* The inductive invariants behind these properties.                         *)

(* A stamped report is about the text of its version; an open buffer has the   *)
(* last edition of its file, which no report is ahead of.  The reports in hand *)
(* are stamped, unless they clear a file.                                    *)
Stamped(r) == r.version # Nothing =>
    r.edition = r.version /\ r.version <= latest[r.file]

ForBuffer(r) == Stamped(r) /\ (r.version = Nothing => ~r.findings)

StampsAreVersions ==
    /\ \A f \in Files : IsOpen(f) => open[f] = latest[f]
    /\ \A r \in handlers \cap Reports : ForBuffer(r)
    /\ held # Nothing => ForBuffer(held)
    /\ poll # Nothing => \A r \in poll.items : Stamped(r)

(* While files are only opened between the sweeps, a sweep has no report for   *)
(* an open buffer.                                                           *)
SweepsReportClosedFiles ==
    \A w \in Workers :
        /\ pc[w] \in {"swap", "push"} \/ reports[w] = {}
        /\ \A r \in reports[w] : ~IsOpen(r.file) /\ r.version = Nothing

(* Who will show findings for the text of an open buffer.                     *)
WillBeReported(f) ==
    IF Pulls THEN f \in asked
    ELSE \/ \E h \in handlers \cap Waiting : h.file = f
         \/ \E r \in handlers \cap Reports : r.file = f /\ r.version = open[f]

OpenInv ==
    /\ TypeOK
    /\ StampsAreVersions
    /\ SweepsReportClosedFiles
    /\ \A f \in asked : IsOpen(f)
    /\ \A f \in Files : IsOpen(f) /\ shown[f].findings =>
          shown[f].edition = open[f] \/ WillBeReported(f)

(* When everything but the typing waits for the workers, one worker runs at a  *)
(* time, and no file is opened or closed meanwhile.                          *)
OneWorkerAtATime ==
    /\ ~At("reload", "idle") => At("refresh", "idle") /\ unindexed = {}
    /\ ~At("refresh", "idle") => unindexed = {}

(* A sweep holds what is still true of the closed files it reports, and the    *)
(* other reports in hand are for open buffers or clear one that was closed.   *)
ReportsAreForTheirFiles ==
    /\ \A r \in handlers \cap Reports : r = Empty(r.file) \/ IsOpen(r.file)
    /\ held # Nothing => IsOpen(held.file) /\ At("reload", "open")
    /\ \A w \in Workers :
         /\ At(w, "push") \/ cleared[w] = {}
         /\ \A r \in reports[w] : /\ r = Report(r.file, Nothing, index[r.file])
                                  /\ At(w, "push") => r.file \in published

(* A closed file that shows findings will be cleared by did_close, or by the   *)
(* sweep of which it is no longer part, or is in the published set.           *)
ToBeCleared(f) ==
    \/ Empty(f) \in handlers
    \/ \E w \in Workers : At(w, "push") /\ f \in cleared[w]

(* A sweep is due that will look at the file, or has a new report for it.     *)
ToBeSwept(f) ==
    \/ f \in unindexed
    \/ \E w \in Workers : \/ pc[w] \in {"all", "open", "closed", "swap"}
                           \/ \E r \in reports[w] : r.file = f

InHand(f) == ~IsOpen(f) /\ shown[f].findings =>
    /\ f \in published \/ ToBeCleared(f)
    /\ \/ shown[f] = Report(f, Nothing, index[f])
       \/ ToBeCleared(f) \/ ToBeSwept(f)

ClosedInv ==
    /\ TypeOK
    /\ client = "pushed" /\ asked = {} /\ poll = Nothing
    /\ OneWorkerAtATime
    /\ SweepsReportClosedFiles
    /\ ReportsAreForTheirFiles
    /\ \A f \in Files : InHand(f)
=============================================================================
