------------------------- MODULE DiagnosticsProofs -------------------------
(***************************************************************************)
(* What a client is shown once everything has been published, for any       *)
(* number of files, any verdicts and any number of edits and reloads.        *)
(*                                                                          *)
(* For open buffers the argument is in OpenInv: stamps keep the reports in   *)
(* order, and a buffer that shows the findings of an older text has a        *)
(* handler that has yet to report it.  For closed files it is in ClosedInv:  *)
(* whatever shows findings is remembered by the published set, a sweep or    *)
(* did_close until it is replaced.                                          *)
(***************************************************************************)
EXTENDS Diagnostics, TLAPS

(* What the assumptions of the theorems exclude is shown by                  *)
(* Diagnostics_stale.cfg, Diagnostics_late.cfg, Diagnostics_wiped.cfg and     *)
(* Diagnostics_overlaid.cfg.                                                *)
-----------------------------------------------------------------------------
(* Types.                                                                   *)

(* A report is of the type of reports, a clearance too.                      *)
LEMMA ReportType ==
  ASSUME TypeOK, NEW f \in Files,
         NEW v \in Editions \cup {Nothing}, NEW e \in Editions \cup {Nothing}
  PROVE  Report(f, v, e) \in Reports
<1>1. (<<e, schema>> \in verdict) \in BOOLEAN
  OBVIOUS
<1> QED
  BY <1>1 DEF Report, Reports, TypeOK

LEMMA EmptyType == \A f \in Files : Empty(f) \in Reports
BY DEF Empty, Reports

(* The queued handlers are no reports.                                       *)
LEMMA WaitingIsNotReported == Waiting \cap Reports = {}
<1> SUFFICES ASSUME NEW r \in Waiting, r \in Reports PROVE FALSE
  OBVIOUS
<1>1. DOMAIN r = {"file", "edition"}
  BY DEF Waiting
<1>2. "version" \in DOMAIN r
  BY DEF Reports
<1> QED
  BY <1>1, <1>2

(* What the client shows stays a report of each file.                        *)
LEMMA DeliverType ==
  ASSUME TypeOK, NEW r \in Reports, Deliver(r)
  PROVE  /\ shown' \in [Files -> Reports]
         /\ \A f \in Files : f # r.file => shown'[f] = shown[f]
         /\ IF Outdated(r) THEN shown' = shown ELSE shown'[r.file] = r
<1>1. r.file \in Files
  BY DEF Reports
<1> QED
  BY <1>1 DEF Deliver, TypeOK

LEMMA InitType == Init => TypeOK
<1> SUFFICES ASSUME Init PROVE TypeOK
  OBVIOUS
<1>1. 0 \in Editions /\ 0 \in Schemas
  BY DiagnosticsAssumption DEF Editions, Schemas
<1>2. pc \in [Workers -> {"idle", "all", "open", "closed", "swap", "push"}]
  BY DEF Init
<1>3. shown \in [Files -> Reports]
  BY EmptyType DEF Init
<1> QED
  BY <1>1, <1>2, <1>3 DEF Init, TypeOK

(* The edits of the client and of other programs keep the types.             *)
LEMMA NewEditionType ==
  ASSUME TypeOK, NEW f \in Files, NewEdition(f)
  PROVE  TypeOK' /\ latest'[f] = latest[f] + 1 /\ open'[f] = latest[f] + 1
<1>1. latest[f] + 1 \in Editions
  BY DiagnosticsAssumption DEF NewEdition, TypeOK, Editions
<1>2. latest' \in [Files -> Editions] /\ latest'[f] = latest[f] + 1
  BY <1>1 DEF NewEdition, TypeOK
<1>3. /\ open' \in [Files -> Editions \cup {Nothing}]
      /\ open'[f] = latest[f] + 1
  BY <1>1, <1>2 DEF NewEdition, TypeOK
<1>4. handlers' \subseteq Waiting \cup Reports
  BY <1>1, <1>2 DEF NewEdition, TypeOK, Waiting
<1>5. asked' \subseteq Files
  BY DEF NewEdition, TypeOK
<1> QED
  BY <1>2, <1>3, <1>4, <1>5
     DEF NewEdition, TypeOK, session, workers

LEMMA EditorType == TypeOK /\ Editor => TypeOK'
<1> SUFFICES ASSUME TypeOK, NEW f \in Files,
                    \/ DidOpen(f) \/ DidChange(f) \/ DidSave(f)
                    \/ DidClose(f) \/ Checkout(f)
             PROVE  TypeOK'
  BY DEF Editor
<1> USE DEF session, workers, pulls
<1>1. CASE DidOpen(f) \/ DidChange(f)
  BY <1>1, NewEditionType DEF DidOpen, DidChange
<1>2. CASE DidSave(f)
  BY <1>2 DEF DidSave, TypeOK, IsOpen
<1>3. CASE DidClose(f)
  <2>1. handlers' \subseteq Waiting \cup Reports
    BY <1>3, EmptyType DEF DidClose, TypeOK
  <2>2. shown' \in [Files -> Reports]
    BY <1>3, EmptyType DEF DidClose, TypeOK
  <2> QED
    BY <1>3, <2>1, <2>2 DEF DidClose, TypeOK
<1>4. CASE Checkout(f)
  <2>1. latest[f] + 1 \in Editions
    BY <1>4, DiagnosticsAssumption DEF Checkout, TypeOK, Editions
  <2>2. latest' \in [Files -> Editions] /\ latest'[f] = latest[f] + 1
    BY <1>4, <2>1 DEF Checkout, TypeOK
  <2> QED
    BY <1>4, <2>1, <2>2 DEF Checkout, TypeOK
<1> QED
  BY <1>1, <1>2, <1>3, <1>4

(* So do the handlers, in both halves of a publication.                      *)
LEMMA HandlersType == TypeOK /\ Handlers => TypeOK'
<1> SUFFICES ASSUME TypeOK, NEW h \in handlers, Compute(h) \/ Send(h)
             PROVE  TypeOK'
  BY DEF Handlers
<1> USE DEF sources, session, workers, pulls
<1>1. CASE Compute(h)
  <2>1. h.file \in Files
    BY <1>1 DEF Compute, Waiting
  <2>2. DiagnosticsFor(h.file) \in Reports
    BY <2>1, ReportType DEF DiagnosticsFor, TypeOK
  <2>3. handlers' \subseteq Waiting \cup Reports
    BY <1>1, <2>2 DEF Compute, TypeOK
  <2> QED
    BY <1>1, <2>3 DEF Compute, TypeOK
<1>2. CASE Send(h)
  <2>1. shown' \in [Files -> Reports]
    BY <1>2, DeliverType DEF Send
  <2> QED
    BY <1>2, <2>1 DEF Send, TypeOK
<1> QED
  BY <1>1, <1>2

(* So do the steps of the reload worker up to its sweep, and the refresh.     *)
LEMMA WorkType ==
  ASSUME TypeOK,
         \/ Reload \/ ListOpen \/ SendOpen \/ AllReported \/ Refresh
         \/ \E f \in Files : ComputeOpen(f)
  PROVE  TypeOK'
<1> USE DEF sources, session, workers, pulls, Goto
<1>1. CASE Reload
  <2>1. schema' \in Schemas
    BY <1>1, DiagnosticsAssumption DEF Reload, TypeOK, Schemas
  <2> QED
    BY <1>1, <2>1 DEF Reload, TypeOK
<1>2. CASE ListOpen
  BY <1>2 DEF ListOpen, TypeOK
<1>3. CASE SendOpen
  <2>1. shown' \in [Files -> Reports]
    BY <1>3, DeliverType DEF SendOpen, TypeOK
  <2> QED
    BY <1>3, <2>1 DEF SendOpen, TypeOK
<1>4. CASE AllReported
  BY <1>4 DEF AllReported, TypeOK
<1>5. CASE Refresh
  <2>1. index' \in [Files -> Editions]
    BY <1>5 DEF Refresh, TypeOK
  <2> QED
    BY <1>5, <2>1 DEF Refresh, TypeOK
<1>6. ASSUME NEW f \in Files, ComputeOpen(f) PROVE TypeOK'
  <2>1. DiagnosticsFor(f) \in Reports
    BY ReportType DEF DiagnosticsFor, TypeOK
  <2> QED
    BY <1>6, <2>1 DEF ComputeOpen, TypeOK
<1> QED
  BY <1>1, <1>2, <1>3, <1>4, <1>5, <1>6

(* The reports of a sweep.                                                   *)
LEMMA ClosedReports ==
  ASSUME TypeOK
  PROVE  /\ ClosedQueryDiagnostics \subseteq Reports
         /\ \A r \in ClosedQueryDiagnostics :
               /\ r.file \in Files /\ ~IsOpen(r.file) /\ r.version = Nothing
               /\ r = Report(r.file, Nothing, index[r.file])
<1> SUFFICES ASSUME NEW r \in ClosedQueryDiagnostics
             PROVE  /\ r \in Reports
                    /\ r.file \in Files /\ ~IsOpen(r.file) /\ r.version = Nothing
                    /\ r = Report(r.file, Nothing, index[r.file])
  OBVIOUS
<1>1. PICK f \in Files : ~IsOpen(f) /\ r = Report(f, Nothing, index[f])
  BY DEF ClosedQueryDiagnostics
<1>2. r.file = f /\ r.version = Nothing
  BY <1>1 DEF Report
<1>3. r \in Reports
  BY <1>1, ReportType DEF TypeOK
<1> QED
  BY <1>1, <1>2, <1>3

(* So do the sweeps.                                                        *)
LEMMA SweepType ==
  ASSUME TypeOK, NEW w \in Workers, Sweep(w)
  PROVE  TypeOK'
<1> USE DEF sources, session, workers, pulls, Goto
<1>1. CASE ComputeClosed(w)
  BY <1>1, ClosedReports DEF ComputeClosed, TypeOK
<1>2. CASE SkipSweep(w)
  BY <1>2 DEF SkipSweep, TypeOK
<1>3. CASE SwapPublished(w)
  <2>1. \A r \in reports[w] : r.file \in Files
    BY DEF TypeOK, Reports
  <2> QED
    BY <1>3, <2>1 DEF SwapPublished, TypeOK
<1>4. CASE PushReport(w)
  <2>1. shown' \in [Files -> Reports]
    BY <1>4, DeliverType DEF PushReport, TypeOK
  <2>2. reports' \in [Workers -> SUBSET Reports]
    BY <1>4 DEF PushReport, TypeOK
  <2> QED
    BY <1>4, <2>1, <2>2 DEF PushReport, TypeOK
<1>5. CASE PushCleared(w)
  <2>1. shown' \in [Files -> Reports]
    BY <1>5, DeliverType, EmptyType DEF PushCleared, TypeOK
  <2>2. cleared' \in [Workers -> SUBSET Files]
    BY <1>5 DEF PushCleared, TypeOK
  <2> QED
    BY <1>5, <2>1, <2>2 DEF PushCleared, TypeOK
<1>6. CASE EndSweep(w)
  BY <1>6 DEF EndSweep, TypeOK
<1> QED
  BY <1>1, <1>2, <1>3, <1>4, <1>5, <1>6 DEF Sweep

(* So do the requests of a pulling client.                                   *)
LEMMA PullsType ==
  ASSUME TypeOK, Poll \/ \E f \in Files : Diagnostic(f)
  PROVE  TypeOK'
<1> USE DEF sources, session, workers
<1>0. \A f \in Files : DiagnosticsFor(f) \in Reports
  BY ReportType DEF DiagnosticsFor, TypeOK
<1>1. ASSUME NEW f \in Files, Diagnostic(f) PROVE TypeOK'
  <2>1. shown' \in [Files -> Reports]
    BY <1>0, <1>1, DeliverType DEF Diagnostic
  <2> QED
    BY <1>1, <2>1 DEF Diagnostic, TypeOK
<1>2. CASE WorkspaceDiagnostic
  <2>1. poll' \in Polls
    BY <1>2, ClosedReports DEF WorkspaceDiagnostic, Polls
  <2> QED
    BY <1>2, <2>1 DEF WorkspaceDiagnostic, TypeOK
<1>3. ASSUME NEW f \in Files, PollOpen(f) PROVE TypeOK'
  <2>1. poll \in Polls
    BY <1>3 DEF PollOpen, TypeOK
  <2>2. poll' \in Polls
    BY <1>0, <1>3, <2>1 DEF PollOpen, Polls
  <2> QED
    BY <1>3, <2>2 DEF PollOpen, TypeOK
<1>4. CASE AnswerPoll
  <2>1. poll \in Polls
    BY <1>4 DEF AnswerPoll, TypeOK
  <2>2. ASSUME NEW f \in Files, NEW items,
               items = {r \in poll.items : r.file = f /\ Taken(r)}
        PROVE  (IF items = {} THEN Empty(f) ELSE CHOOSE r \in items : TRUE)
                  \in Reports
    BY <2>1, <2>2, EmptyType DEF Polls
  <2>3. shown' \in [Files -> Reports]
    BY <1>4, <2>2 DEF AnswerPoll
  <2> QED
    BY <1>4, <2>3 DEF AnswerPoll, TypeOK
<1> QED
  BY <1>1, <1>2, <1>3, <1>4 DEF Poll

(* Hence every step keeps the types.                                         *)
LEMMA StepType == TypeOK /\ [Next]_vars => TypeOK'
<1>1. TypeOK /\ UNCHANGED vars => TypeOK'
  BY DEF TypeOK, vars, sources, session, workers, pulls
<1>2. ASSUME TypeOK, NEW w \in Workers, Work(w) PROVE TypeOK'
  BY <1>2, WorkType, SweepType DEF Work
<1> QED
  BY <1>1, <1>2, EditorType, HandlersType, WorkType, PullsType DEF Next

(* Every variable keeps its type, whatever the client is and does.            *)
THEOREM TypeCorrect == Spec => []TypeOK
<1> QED
  BY InitType, StepType, PTL DEF Spec
-----------------------------------------------------------------------------
(* Open buffers.                                                            *)

LEMMA EditionsAreNumbers == TypeOK => latest \in [Files -> Nat]
<1>1. Editions \subseteq Nat
  BY DiagnosticsAssumption DEF Editions
<1> QED
  BY <1>1 DEF TypeOK

LEMMA InitOpen == Init => OpenInv
<1> SUFFICES ASSUME Init PROVE OpenInv
  OBVIOUS
<1>1. \A f \in Files : ~IsOpen(f)
  BY DEF Init, IsOpen
<1> QED
  BY <1>1, InitType
     DEF Init, OpenInv, StampsAreVersions, SweepsReportClosedFiles

(* A report for a file is stamped with the version it was computed from.      *)
LEMMA ComputedIsStamped ==
  ASSUME OpenInv, NEW f \in Files
  PROVE  /\ DiagnosticsFor(f) \in Reports /\ DiagnosticsFor(f).file = f
         /\ DiagnosticsFor(f).version = open[f]
         /\ Stamped(DiagnosticsFor(f))
         /\ IsOpen(f) => ForBuffer(DiagnosticsFor(f))
<1>1. DiagnosticsFor(f) \in Reports
  BY ReportType DEF OpenInv, TypeOK, DiagnosticsFor
<1>2. /\ DiagnosticsFor(f).file = f /\ DiagnosticsFor(f).version = open[f]
      /\ DiagnosticsFor(f).edition = open[f]
  BY DEF DiagnosticsFor, Report
<1>3. open[f] # Nothing => open[f] <= latest[f]
  BY DiagnosticsAssumption
     DEF OpenInv, StampsAreVersions, IsOpen, TypeOK, Editions
<1> QED
  BY <1>1, <1>2, <1>3 DEF Stamped, ForBuffer, IsOpen

(* A stamped report that is not outdated is about the text of the buffer.     *)
LEMMA NewestIsCurrent ==
  ASSUME OpenInv, NEW r \in Reports, Stamped(r), r.version # Nothing,
         IsOpen(r.file), ~Outdated(r)
  PROVE  r.edition = open[r.file] /\ r.version = open[r.file]
<1>1. r.file \in Files /\ r.version \in Nat
  BY DiagnosticsAssumption DEF Reports, Editions
<1>2. open[r.file] = latest[r.file] /\ open[r.file] \in Nat
  BY <1>1, DiagnosticsAssumption
     DEF OpenInv, StampsAreVersions, TypeOK, Editions, IsOpen
<1> QED
  BY <1>1, <1>2 DEF Stamped, Outdated

(* What is delivered to a buffer is current, if it is not a closed file's      *)
(* report.                                                                  *)
LEMMA DeliveredIsCurrent ==
  ASSUME OpenInv, NEW r \in Reports, Stamped(r), Deliver(r),
         r.version = Nothing /\ r.findings => ~IsOpen(r.file)
  PROVE  /\ \A f \in Files :
               \/ shown'[f] = shown[f]
               \/ IsOpen(f) /\ shown'[f].findings => shown'[f].edition = open[f]
         /\ IsOpen(r.file) /\ r.version = open[r.file] =>
               shown'[r.file].edition = open[r.file]
<1>1. /\ \A f \in Files : f # r.file => shown'[f] = shown[f]
      /\ Outdated(r) => shown' = shown
      /\ ~Outdated(r) => shown'[r.file] = r
  BY DeliverType DEF OpenInv
<1>2. r.file \in Files
  BY DEF Reports
<1>3. IsOpen(r.file) /\ ~Outdated(r) =>
         r.edition = open[r.file] \/ r.version = Nothing
  BY NewestIsCurrent
<1>4. IsOpen(r.file) /\ r.version = open[r.file] => ~Outdated(r)
  BY <1>2, DiagnosticsAssumption
     DEF Outdated, OpenInv, TypeOK, Editions, IsOpen
<1>5. IsOpen(r.file) => open[r.file] # Nothing
  BY DEF IsOpen
<1> QED
  BY <1>1, <1>2, <1>3, <1>4, <1>5

(* Stamps stay behind the last edition as files get new ones.                 *)
LEMMA StampsKept ==
  ASSUME OpenInv,
         latest' \in [Files -> Nat], \A f \in Files : latest[f] <= latest'[f],
         \A f \in Files : IsOpen(f)' => open'[f] = latest'[f],
         \A r \in handlers' \cap Reports : r \in handlers \/ ForBuffer(r)',
         held' # Nothing => held' = held \/ ForBuffer(held)',
         poll' = poll
  PROVE  StampsAreVersions'
<1>1. ASSUME NEW r \in Reports, Stamped(r) PROVE Stamped(r)'
  <2>1. r.file \in Files /\ (r.version # Nothing => r.version \in Nat)
    BY DiagnosticsAssumption DEF Reports, Editions
  <2>2. latest[r.file] \in Nat /\ latest'[r.file] \in Nat
    BY <2>1, DiagnosticsAssumption DEF OpenInv, TypeOK, Editions
  <2> QED
    BY <1>1, <2>1, <2>2 DEF Stamped
<1>2. ASSUME NEW r \in Reports, ForBuffer(r) PROVE ForBuffer(r)'
  BY <1>1, <1>2 DEF ForBuffer
<1>3. held # Nothing => held \in Reports
  BY DEF OpenInv, TypeOK
<1>4. poll # Nothing => poll.items \subseteq Reports
  BY DEF OpenInv, TypeOK, Polls
<1>5. \A r \in handlers' \cap Reports : ForBuffer(r)'
  BY <1>2 DEF OpenInv, StampsAreVersions
<1>6. held' # Nothing => ForBuffer(held)'
  <2>1. CASE held' = held /\ held # Nothing
    <3>1. PICK r \in Reports : r = held /\ ForBuffer(r)
      BY <1>3, <2>1 DEF OpenInv, StampsAreVersions
    <3>2. ForBuffer(r)'
      BY <1>2, <3>1
    <3> QED
      BY <2>1, <3>1, <3>2 DEF ForBuffer, Stamped
  <2> QED
    BY <2>1
<1>7. poll' # Nothing => \A r \in poll'.items : Stamped(r)'
  BY <1>1, <1>4 DEF OpenInv, StampsAreVersions
<1> QED
  BY <1>5, <1>6, <1>7 DEF StampsAreVersions

(* A new edition of a file has a handler that will report it, or is asked for. *)
LEMMA NewEditionOpen ==
  ASSUME OpenInv, NEW f \in Files, NewEdition(f),
         \/ IsOpen(f)
         \/ \A w \in Workers : At(w, "idle")
  PROVE  OpenInv'
<1> DEFINE new == [file |-> f, edition |-> latest[f] + 1]
<1>0. /\ TypeOK' /\ latest'[f] = latest[f] + 1 /\ open'[f] = latest[f] + 1
      /\ \A g \in Files : g # f => latest'[g] = latest[g] /\ open'[g] = open[g]
      /\ handlers' = handlers \cup {new}
      /\ UNCHANGED <<client, pc, reports, held, poll, shown>>
  BY NewEditionType DEF OpenInv, NewEdition, TypeOK, session, workers
<1>1. new \in Waiting /\ new \notin Reports /\ new.file = f
  <2>1. latest[f] + 1 \in Editions
    BY <1>0 DEF TypeOK
  <2>2. new \in Waiting
    BY <2>1 DEF Waiting
  <2> QED
    BY <2>2, WaitingIsNotReported
<1> HIDE DEF new
<1>2. StampsAreVersions'
  <2>1. /\ latest' \in [Files -> Nat]
        /\ \A g \in Files : latest[g] <= latest'[g]
    BY <1>0, DiagnosticsAssumption DEF OpenInv, TypeOK, Editions
  <2>2. \A g \in Files : IsOpen(g)' => open'[g] = latest'[g]
    BY <1>0 DEF OpenInv, StampsAreVersions, IsOpen
  <2> QED
    BY <1>0, <1>1, <2>1, <2>2, StampsKept
<1>3. SweepsReportClosedFiles'
  <2>1. \A w \in Workers : \A r \in reports[w] : r.file # f /\ ~IsOpen(r.file)
    BY DEF OpenInv, SweepsReportClosedFiles, At
  <2>2. \A w \in Workers : \A r \in reports[w] : r.file \in Files
    BY DEF OpenInv, TypeOK, Reports
  <2> QED
    BY <1>0, <2>1, <2>2 DEF OpenInv, SweepsReportClosedFiles, IsOpen
<1>4. \A g \in asked' : IsOpen(g)'
  <2>1. \A g \in asked' : g = f \/ (g \in asked /\ g \in Files /\ g # f)
    BY DEF NewEdition, OpenInv, TypeOK
  <2>2. open'[f] # Nothing
    BY <1>0, DiagnosticsAssumption DEF OpenInv, TypeOK, Editions
  <2> QED
    BY <1>0, <2>1, <2>2 DEF OpenInv, IsOpen
<1>5. ASSUME NEW g \in Files, IsOpen(g)', shown'[g].findings
      PROVE  shown'[g].edition = open'[g] \/ WillBeReported(g)'
  <2>1. CASE g = f
    <3>1. Pulls' => f \in asked'
      BY <1>0 DEF NewEdition, Pulls
    <3>2. new \in handlers' \cap Waiting
      BY <1>0, <1>1
    <3> QED
      BY <1>1, <2>1, <3>1, <3>2 DEF WillBeReported
  <2>2. CASE g # f
    <3>1. open'[g] = open[g] /\ shown'[g] = shown[g]
      BY <1>0, <2>2
    <3>2. shown[g].edition = open[g] \/ WillBeReported(g)
      BY <1>5, <3>1 DEF OpenInv, IsOpen
    <3>3. handlers \subseteq handlers' /\ asked \subseteq asked' /\ Pulls' = Pulls
      BY <1>0 DEF NewEdition, Pulls
    <3> QED
      BY <3>1, <3>2, <3>3 DEF WillBeReported
  <2> QED
    BY <2>1, <2>2
<1> QED
  BY <1>0, <1>2, <1>3, <1>4, <1>5 DEF OpenInv

(* Steps that only move the workers on, or change what is on disk, indexed or  *)
(* in force: what the invariant speaks of stays, but for the reports of the   *)
(* closed files.                                                            *)
LEMMA QuietSteps ==
  ASSUME OpenInv, TypeOK',
         UNCHANGED <<client, open, handlers, asked, shown, poll>>,
         \A f \in Files : latest'[f] = latest[f] \/ ~IsOpen(f),
         \A f \in Files : latest[f] <= latest'[f],
         held' # Nothing => held' = held \/ ForBuffer(held)',
         \A w \in Workers :
            /\ pc'[w] \in {"swap", "push"} \/ reports'[w] = {}
            /\ \A r \in reports'[w] :
                  r \in reports[w] \/ (~IsOpen(r.file) /\ r.version = Nothing)
  PROVE  OpenInv'
<1>1. StampsAreVersions'
  <2>1. latest' \in [Files -> Nat]
    BY DiagnosticsAssumption DEF TypeOK, Editions
  <2>2. \A f \in Files : IsOpen(f)' => open'[f] = latest'[f]
    BY DEF OpenInv, StampsAreVersions, IsOpen
  <2> QED
    BY <2>1, <2>2, StampsKept
<1>2. SweepsReportClosedFiles'
  BY DEF OpenInv, SweepsReportClosedFiles, IsOpen
<1> QED
  BY <1>1, <1>2 DEF OpenInv, IsOpen, WillBeReported, Pulls

(* Saving, closing and other programs' edits.                                *)
LEMMA EditorOpen ==
  ASSUME "open" \in Calm, OpenInv, Editor
  PROVE  OpenInv'
<1>0. TypeOK'
  BY EditorType DEF OpenInv
<1> SUFFICES ASSUME NEW f \in Files,
                    \/ DidOpen(f) \/ DidChange(f) \/ DidSave(f)
                    \/ DidClose(f) \/ Checkout(f)
             PROVE  OpenInv'
  BY DEF Editor
<1> USE DEF session, workers, pulls
<1>1. CASE DidOpen(f)
  <2>1. \A w \in Workers : At(w, "idle")
    BY <1>1 DEF DidOpen, MayHappen, WorkersIdle
  <2> QED
    BY <1>1, <2>1, NewEditionOpen DEF DidOpen
<1>2. CASE DidChange(f)
  BY <1>2, NewEditionOpen DEF DidChange
<1>3. CASE DidSave(f)
  <2>1. \A g \in Files : latest'[g] = latest[g] /\ latest[g] <= latest'[g]
    BY <1>3, DiagnosticsAssumption DEF DidSave, OpenInv, TypeOK, Editions
  <2> QED
    BY <1>0, <1>3, <2>1, QuietSteps
       DEF DidSave, OpenInv, SweepsReportClosedFiles
<1>4. CASE Checkout(f)
  <2>1. \A g \in Files : /\ latest'[g] = latest[g] \/ ~IsOpen(g)
                         /\ latest[g] <= latest'[g]
    BY <1>4, DiagnosticsAssumption DEF Checkout, OpenInv, TypeOK, Editions
  <2> QED
    BY <1>0, <1>4, <2>1, QuietSteps
       DEF Checkout, OpenInv, SweepsReportClosedFiles
<1>5. CASE DidClose(f)
  <2>1. /\ UNCHANGED <<client, latest, pc, reports, held, poll>>
        /\ ~IsOpen(f)' /\ \A g \in Files : g # f => open'[g] = open[g]
        /\ \A g \in Files : g # f => shown'[g] = shown[g]
        /\ handlers' \subseteq handlers \cup {Empty(f)} /\ handlers \subseteq handlers'
        /\ asked' = asked \ {f}
    BY <1>5 DEF DidClose, OpenInv, TypeOK, IsOpen
  <2>2. StampsAreVersions'
    <3>1. ForBuffer(Empty(f))'
      BY DEF ForBuffer, Stamped, Empty
    <3>2. /\ latest' \in [Files -> Nat]
          /\ \A g \in Files : latest[g] <= latest'[g]
      BY <2>1, DiagnosticsAssumption DEF OpenInv, TypeOK, Editions
    <3>3. \A g \in Files : IsOpen(g)' => open'[g] = latest'[g]
      BY <2>1 DEF OpenInv, StampsAreVersions, IsOpen
    <3> QED
      BY <2>1, <3>1, <3>2, <3>3, StampsKept
  <2>3. SweepsReportClosedFiles'
    <3>1. \A w \in Workers : \A r \in reports[w] : r.file \in Files
      BY DEF OpenInv, TypeOK, Reports
    <3> QED
      BY <2>1, <3>1 DEF OpenInv, SweepsReportClosedFiles, IsOpen
  <2>4. \A g \in asked' : IsOpen(g)'
    BY <2>1 DEF OpenInv, TypeOK, IsOpen
  <2>5. ASSUME NEW g \in Files, IsOpen(g)', shown'[g].findings
        PROVE  shown'[g].edition = open'[g] \/ WillBeReported(g)'
    <3>1. g # f /\ open'[g] = open[g] /\ shown'[g] = shown[g]
      BY <2>1, <2>5
    <3>2. shown[g].edition = open[g] \/ WillBeReported(g)
      BY <2>5, <3>1 DEF OpenInv, IsOpen
    <3> QED
      BY <2>1, <3>1, <3>2 DEF WillBeReported, Pulls
  <2> QED
    BY <1>0, <2>2, <2>3, <2>4, <2>5 DEF OpenInv
<1> QED
  BY <1>1, <1>2, <1>3, <1>4, <1>5

(* A handler gives way to the report it has computed ...                      *)
LEMMA ComputeOpenInv ==
  ASSUME OpenInv, NEW h \in handlers, Compute(h)
  PROVE  OpenInv'
<1> USE DEF sources, session, workers, pulls, Compute
<1>0. /\ TypeOK'
      /\ UNCHANGED <<client, latest, open, pc, reports, held, asked, poll, shown>>
  BY HandlersType DEF OpenInv, Handlers
<1>1. h \in Waiting /\ h.file \in Files
  BY DEF Waiting
<1> DEFINE r0 == DiagnosticsFor(h.file)
<1>2. /\ r0 \in Reports /\ r0.file = h.file /\ r0.version = open[h.file]
      /\ IsOpen(h.file) => ForBuffer(r0)
  BY <1>1, ComputedIsStamped
<1>3. /\ handlers' \subseteq handlers \cup {r0}
      /\ \A g \in handlers : g = h \/ g \in handlers'
      /\ IsOpen(h.file) /\ ~Pulls => r0 \in handlers'
      /\ r0 \in handlers' => r0 \in handlers \/ IsOpen(h.file)
  OBVIOUS
<1> HIDE DEF r0, Compute
<1>4. StampsAreVersions'
  <2>1. /\ latest' \in [Files -> Nat]
        /\ \A g \in Files : latest[g] <= latest'[g]
        /\ \A g \in Files : IsOpen(g)' => open'[g] = latest'[g]
    BY <1>0, DiagnosticsAssumption
       DEF OpenInv, TypeOK, Editions, StampsAreVersions, IsOpen
  <2>2. \A r \in Reports : ForBuffer(r) => ForBuffer(r)'
    BY <1>0 DEF ForBuffer, Stamped
  <2>3. \A r \in handlers' \cap Reports : r \in handlers \/ ForBuffer(r)'
    BY <1>2, <1>3, <2>2
  <2> QED
    BY <1>0, <2>1, <2>3, StampsKept
<1>5. SweepsReportClosedFiles'
  BY <1>0 DEF OpenInv, SweepsReportClosedFiles, IsOpen
<1>6. ASSUME NEW f \in Files, IsOpen(f)', shown'[f].findings
      PROVE  shown'[f].edition = open'[f] \/ WillBeReported(f)'
  <2>1. shown[f].edition = open[f] \/ WillBeReported(f)
    BY <1>0, <1>6 DEF OpenInv, IsOpen
  <2>2. CASE Pulls
    BY <1>0, <2>1, <2>2 DEF WillBeReported, Pulls
  <2>3. CASE ~Pulls /\ f = h.file
    <3>1. r0 \in handlers' \cap Reports
      BY <1>0, <1>2, <1>3, <1>6, <2>3 DEF IsOpen
    <3> QED
      BY <1>0, <1>2, <2>3, <3>1 DEF WillBeReported, Pulls
  <2>4. CASE ~Pulls /\ f # h.file
    <3>1. h \notin Reports
      BY <1>1, WaitingIsNotReported
    <3> QED
      BY <1>0, <1>3, <2>1, <2>4, <3>1 DEF WillBeReported, Pulls
  <2> QED
    BY <2>2, <2>3, <2>4
<1> QED
  BY <1>0, <1>4, <1>5, <1>6 DEF OpenInv, IsOpen

(* ... and a report that is sent is shown, unless there is a newer one.        *)
LEMMA SendOpenInv ==
  ASSUME OpenInv, NEW h \in handlers, Send(h)
  PROVE  OpenInv'
<1> USE DEF sources, session, workers, pulls
<1>0. /\ TypeOK' /\ h \in Reports /\ Deliver(h) /\ handlers' = handlers \ {h}
      /\ UNCHANGED <<client, latest, open, pc, reports, held, asked, poll>>
  BY HandlersType DEF OpenInv, Handlers, Send
<1>1. ForBuffer(h)
  BY <1>0 DEF OpenInv, StampsAreVersions
<1>2. /\ \A f \in Files : \/ shown'[f] = shown[f]
                          \/ IsOpen(f) /\ shown'[f].findings =>
                                shown'[f].edition = open[f]
      /\ IsOpen(h.file) /\ h.version = open[h.file] =>
            shown'[h.file].edition = open[h.file]
  BY <1>0, <1>1, DeliveredIsCurrent DEF ForBuffer
<1>3. StampsAreVersions'
  <2>1. /\ latest' \in [Files -> Nat]
        /\ \A g \in Files : latest[g] <= latest'[g]
        /\ \A g \in Files : IsOpen(g)' => open'[g] = latest'[g]
    BY <1>0, DiagnosticsAssumption
       DEF OpenInv, TypeOK, Editions, StampsAreVersions, IsOpen
  <2> QED
    BY <1>0, <2>1, StampsKept
<1>4. SweepsReportClosedFiles'
  BY <1>0 DEF OpenInv, SweepsReportClosedFiles, IsOpen
<1>5. ASSUME NEW f \in Files, IsOpen(f)', shown'[f].findings
      PROVE  shown'[f].edition = open'[f] \/ WillBeReported(f)'
  <2>1. IsOpen(f) /\ open'[f] = open[f]
    BY <1>0, <1>5 DEF IsOpen
  <2>2. CASE shown'[f] = shown[f] /\ shown'[f].edition # open'[f]
    <3>1. WillBeReported(f)
      BY <1>5, <2>1, <2>2 DEF OpenInv
    <3>2. f = h.file => h.version # open[f]
      BY <1>2, <2>1, <2>2
    <3>3. h \notin Waiting
      BY <1>0, WaitingIsNotReported
    <3> QED
      BY <1>0, <3>1, <3>2, <3>3 DEF WillBeReported, Pulls
  <2> QED
    BY <1>2, <1>5, <2>1, <2>2
<1> QED
  BY <1>0, <1>3, <1>4, <1>5 DEF OpenInv, IsOpen

(* A worker or a pulling client that has something delivered.                 *)
LEMMA DeliverSteps ==
  ASSUME OpenInv, TypeOK',
         NEW r \in Reports, Stamped(r), Deliver(r),
         r.version = Nothing /\ r.findings => ~IsOpen(r.file),
         UNCHANGED <<client, latest, open, handlers, pc, poll>>,
         held' \in {held, Nothing},
         asked' \subseteq asked,
         \A f \in asked \ asked' : f = r.file /\ r.version = open[f],
         \A w \in Workers : reports'[w] \subseteq reports[w]
  PROVE  OpenInv'
<1>1. /\ \A f \in Files : \/ shown'[f] = shown[f]
                          \/ IsOpen(f) /\ shown'[f].findings =>
                                shown'[f].edition = open[f]
      /\ IsOpen(r.file) /\ r.version = open[r.file] =>
            shown'[r.file].edition = open[r.file]
  BY DeliveredIsCurrent
<1>2. StampsAreVersions'
  <2>1. /\ latest' \in [Files -> Nat]
        /\ \A g \in Files : latest[g] <= latest'[g]
        /\ \A g \in Files : IsOpen(g)' => open'[g] = latest'[g]
    BY DiagnosticsAssumption
       DEF OpenInv, TypeOK, Editions, StampsAreVersions, IsOpen
  <2> QED
    BY <2>1, StampsKept
<1>3. SweepsReportClosedFiles'
  BY DEF OpenInv, SweepsReportClosedFiles, IsOpen
<1>4. ASSUME NEW f \in Files, IsOpen(f)', shown'[f].findings
      PROVE  shown'[f].edition = open'[f] \/ WillBeReported(f)'
  <2>1. IsOpen(f) /\ open'[f] = open[f]
    BY <1>4 DEF IsOpen
  <2>2. CASE shown'[f] = shown[f] /\ shown'[f].edition # open'[f]
    <3>1. WillBeReported(f)
      BY <1>4, <2>1, <2>2 DEF OpenInv
    <3>2. f \in asked => f \in asked'
      BY <1>1, <2>1, <2>2
    <3> QED
      BY <3>1, <3>2 DEF WillBeReported, Pulls
  <2> QED
    BY <1>1, <1>4, <2>1, <2>2
<1> QED
  BY <1>2, <1>3, <1>4 DEF OpenInv, IsOpen

(* The reload worker before its sweep, and the refresh.                       *)
LEMMA WorkOpen ==
  ASSUME OpenInv,
         \/ Reload \/ ListOpen \/ SendOpen \/ AllReported \/ Refresh
         \/ \E f \in Files : ComputeOpen(f)
  PROVE  OpenInv'
<1> USE DEF sources, session, workers, pulls, Goto
<1>0. TypeOK'
  BY WorkType DEF OpenInv
<1>1. \A f \in Files : latest[f] \in Nat
  BY EditionsAreNumbers DEF OpenInv
<1>2. pc \in [Workers -> {"idle", "all", "open", "closed", "swap", "push"}]
  BY DEF OpenInv, TypeOK
<1>3. \A w \in Workers : pc[w] \in {"swap", "push"} \/ reports[w] = {}
  BY DEF OpenInv, SweepsReportClosedFiles
<1>4. CASE Reload \/ ListOpen \/ AllReported \/ Refresh
  <2>1. UNCHANGED <<client, open, handlers, asked, shown, poll, latest, held,
                    reports>>
    BY <1>4 DEF Reload, ListOpen, AllReported, Refresh
  <2>2. \A w \in Workers : pc'[w] \in {"swap", "push"} \/ reports[w] = {}
    BY <1>2, <1>3, <1>4 DEF Reload, ListOpen, AllReported, Refresh, At
  <2> QED
    BY <1>0, <1>1, <2>1, <2>2, QuietSteps
<1>5. ASSUME NEW f \in Files, ComputeOpen(f) PROVE OpenInv'
  <2>1. UNCHANGED <<client, open, handlers, asked, shown, poll, latest, pc,
                    reports>>
    BY <1>5 DEF ComputeOpen
  <2>2. held' # Nothing => held' = DiagnosticsFor(f) /\ IsOpen(f)
    BY <1>5 DEF ComputeOpen
  <2>3. IsOpen(f) => ForBuffer(DiagnosticsFor(f))
    BY ComputedIsStamped
  <2>4. held' # Nothing => ForBuffer(held)'
    BY <2>1, <2>2, <2>3 DEF ForBuffer, Stamped
  <2> QED
    BY <1>0, <1>1, <1>3, <2>1, <2>4, QuietSteps
<1>6. CASE SendOpen
  <2>1. PICK r \in Reports : r = held /\ Deliver(r) /\ ForBuffer(r)
    BY <1>6 DEF SendOpen, OpenInv, TypeOK, StampsAreVersions
  <2> QED
    BY <1>0, <1>6, <2>1, DeliverSteps DEF SendOpen, ForBuffer
<1> QED
  BY <1>4, <1>5, <1>6

(* The sweeps.                                                              *)
LEMMA SweepOpen ==
  ASSUME OpenInv, NEW w \in Workers, Sweep(w)
  PROVE  OpenInv'
<1> USE DEF sources, session, workers, pulls, Goto
<1>0. TypeOK'
  BY SweepType DEF OpenInv
<1>1. \A f \in Files : latest[f] \in Nat
  BY EditionsAreNumbers DEF OpenInv
<1>2. /\ pc \in [Workers -> {"idle", "all", "open", "closed", "swap", "push"}]
      /\ reports \in [Workers -> SUBSET Reports]
  BY DEF OpenInv, TypeOK
<1>3. \A v \in Workers : pc[v] \in {"swap", "push"} \/ reports[v] = {}
  BY DEF OpenInv, SweepsReportClosedFiles
<1>4. CASE ComputeClosed(w) \/ SkipSweep(w) \/ SwapPublished(w) \/ EndSweep(w)
  <2>1. UNCHANGED <<client, open, handlers, asked, shown, poll, latest, held>>
    BY <1>4 DEF ComputeClosed, SkipSweep, SwapPublished, EndSweep
  <2>2. ASSUME NEW v \in Workers
        PROVE  /\ pc'[v] \in {"swap", "push"} \/ reports'[v] = {}
               /\ \A r \in reports'[v] :
                     r \in reports[v] \/ (~IsOpen(r.file) /\ r.version = Nothing)
    <3>1. CASE ComputeClosed(w)
      <4>1. \A r \in ClosedQueryDiagnostics :
               ~IsOpen(r.file) /\ r.version = Nothing
        BY ClosedReports DEF OpenInv
      <4> QED
        BY <1>2, <1>3, <3>1, <4>1 DEF ComputeClosed
    <3>2. CASE SkipSweep(w) \/ SwapPublished(w) \/ EndSweep(w)
      BY <1>2, <1>3, <3>2 DEF SkipSweep, SwapPublished, EndSweep, At
    <3> QED
      BY <1>4, <3>1, <3>2
  <2> QED
    BY <1>0, <1>1, <2>1, <2>2, QuietSteps
<1>5. CASE PushReport(w)
  <2>1. PICK r \in reports[w] :
           Deliver(r) /\ reports' = [reports EXCEPT ![w] = @ \ {r}]
    BY <1>5 DEF PushReport
  <2>2. r \in Reports /\ Stamped(r) /\ ~IsOpen(r.file)
    BY <1>2 DEF OpenInv, SweepsReportClosedFiles, Stamped
  <2>3. \A v \in Workers : reports'[v] \subseteq reports[v]
    BY <1>2, <2>1
  <2> QED
    BY <1>0, <1>5, <2>1, <2>2, <2>3, DeliverSteps DEF PushReport
<1>6. CASE PushCleared(w)
  <2>1. PICK f \in cleared[w] : Deliver(Empty(f))
    BY <1>6 DEF PushCleared
  <2>2. Empty(f) \in Reports
    BY EmptyType DEF OpenInv, TypeOK
  <2>3. ForBuffer(Empty(f))
    BY DEF Empty, ForBuffer, Stamped
  <2> QED
    BY <1>0, <1>6, <2>1, <2>2, <2>3, DeliverSteps DEF PushCleared, ForBuffer
<1> QED
  BY <1>4, <1>5, <1>6 DEF Sweep

(* The requests of a pulling client: the answer to one for a document ...      *)
LEMMA DiagnosticOpen ==
  ASSUME OpenInv, NEW f \in Files, Diagnostic(f)
  PROVE  OpenInv'
<1>0. TypeOK'
  BY PullsType DEF OpenInv
<1>1. /\ UNCHANGED <<client, latest, open, handlers, pc, poll, held, reports>>
      /\ f \in asked /\ asked' = asked \ {f} /\ Deliver(DiagnosticsFor(f))
  BY DEF Diagnostic, sources, session, workers
<1>2. IsOpen(f)
  BY <1>1 DEF OpenInv
<1>3. PICK r \in Reports : /\ r = DiagnosticsFor(f)
                           /\ r.file = f /\ r.version = open[f] /\ Stamped(r)
  BY ComputedIsStamped
<1>4. r.version # Nothing
  BY <1>2, <1>3 DEF IsOpen
<1> QED
  BY <1>0, <1>1, <1>3, <1>4, DeliverSteps

(* ... and to one for the workspace.                                         *)
LEMMA PollSteps ==
  ASSUME OpenInv, TypeOK',
         UNCHANGED <<client, latest, open, handlers, pc, held, reports, asked>>,
         poll' # Nothing => \A r \in poll'.items : Stamped(r),
         \A f \in Files :
            \/ shown'[f] = shown[f]
            \/ IsOpen(f) /\ shown'[f].findings => shown'[f].edition = open[f]
  PROVE  OpenInv'
<1>1. StampsAreVersions'
  BY DEF OpenInv, StampsAreVersions, ForBuffer, Stamped, IsOpen
<1>2. SweepsReportClosedFiles'
  BY DEF OpenInv, SweepsReportClosedFiles, IsOpen
<1>3. ASSUME NEW f \in Files, IsOpen(f)', shown'[f].findings
      PROVE  shown'[f].edition = open'[f] \/ WillBeReported(f)'
  <2>1. IsOpen(f) /\ open'[f] = open[f]
    BY <1>3 DEF IsOpen
  <2>2. WillBeReported(f) => WillBeReported(f)'
    BY DEF WillBeReported, Pulls
  <2> QED
    BY <1>3, <2>1, <2>2 DEF OpenInv
<1> QED
  BY <1>1, <1>2, <1>3 DEF OpenInv, IsOpen

LEMMA PollOpens ==
  ASSUME OpenInv, Poll
  PROVE  OpenInv'
<1>0. TypeOK'
  BY PullsType DEF OpenInv
<1> USE DEF sources, session, workers
<1>1. CASE WorkspaceDiagnostic
  <2>1. \A r \in ClosedQueryDiagnostics : Stamped(r)
    BY ClosedReports DEF OpenInv, Stamped
  <2> QED
    BY <1>0, <1>1, <2>1, PollSteps DEF WorkspaceDiagnostic
<1>2. ASSUME NEW f \in Files, PollOpen(f) PROVE OpenInv'
  <2>1. Stamped(DiagnosticsFor(f))
    BY ComputedIsStamped
  <2>2. \A r \in poll'.items : r \in poll.items \/ r = DiagnosticsFor(f)
    BY <1>2 DEF PollOpen
  <2>3. \A r \in poll.items : Stamped(r)
    BY <1>2 DEF PollOpen, OpenInv, StampsAreVersions
  <2>4. \A r \in poll'.items : Stamped(r)
    BY <2>1, <2>2, <2>3
  <2> QED
    BY <1>0, <1>2, <2>4, PollSteps DEF PollOpen
<1>3. CASE AnswerPoll
  <2>1. ASSUME NEW f \in Files, IsOpen(f), shown'[f].findings
        PROVE  shown'[f].edition = open[f]
    <3> DEFINE items == {r \in poll.items : r.file = f /\ Taken(r)}
    <3>1. shown'[f] = IF items = {} THEN Empty(f) ELSE CHOOSE r \in items : TRUE
      BY <1>3 DEF AnswerPoll
    <3>2. ~Empty(f).findings
      BY DEF Empty
    <3>3. items # {}
      BY <2>1, <3>1, <3>2
    <3>4. PICK r \in items : r = shown'[f]
      BY <3>1, <3>3
    <3>5. r \in Reports /\ Stamped(r) /\ r.file = f /\ Taken(r)
      BY <1>3, <3>4
         DEF AnswerPoll, OpenInv, TypeOK, Polls, StampsAreVersions
    <3>6. r.version # Nothing /\ ~Outdated(r)
      BY <2>1, <3>5 DEF Taken
    <3> QED
      BY <2>1, <3>4, <3>5, <3>6, NewestIsCurrent
  <2> QED
    BY <1>0, <1>3, <2>1, PollSteps DEF AnswerPoll
<1> QED
  BY <1>1, <1>2, <1>3 DEF Poll

LEMMA OpenInvariant ==
  ASSUME "open" \in Calm
  PROVE  OpenInv /\ [Next]_vars => OpenInv'
<1> SUFFICES ASSUME OpenInv, [Next]_vars PROVE OpenInv'
  OBVIOUS
<1>1. CASE UNCHANGED vars
  BY <1>1
     DEF vars, sources, session, workers, pulls, OpenInv, TypeOK, IsOpen,
         StampsAreVersions, ForBuffer, Stamped, SweepsReportClosedFiles,
         WillBeReported, Pulls
<1>2. ASSUME NEW w \in Workers, Work(w) PROVE OpenInv'
  BY <1>2, WorkOpen, SweepOpen DEF Work
<1>3. CASE Handlers
  BY <1>3, ComputeOpenInv, SendOpenInv DEF Handlers
<1> QED
  BY <1>1, <1>2, <1>3, EditorOpen, WorkOpen, PollOpens, DiagnosticOpen DEF Next

(* Findings that were computed from a text a buffer no longer has are not left *)
(* on screen, for any kind of client and any scheduling of the handlers, the   *)
(* workers and the requests, as long as files are opened between the sweeps    *)
(* (server.rs, publish_diagnostics_for and publish_workspace_diagnostics).     *)
THEOREM BuffersShowTheirText ==
  ASSUME "open" \in Calm
  PROVE  Spec => []OpenShowsItsText
<1>1. OpenInv => OpenShowsItsText
  <2> SUFFICES ASSUME OpenInv, Quiet, NEW f \in Files,
                      IsOpen(f), shown[f].findings
               PROVE  shown[f].edition = open[f]
    BY DEF OpenShowsItsText
  <2>1. ~WillBeReported(f)
    BY DEF WillBeReported, Quiet
  <2> QED
    BY <2>1 DEF OpenInv
<1> QED
  BY <1>1, InitOpen, OpenInvariant, PTL DEF Spec
-----------------------------------------------------------------------------
(* Closed files.                                                            *)

LEMMA InitClosed ==
  ASSUME Clients = {"pushed"}
  PROVE  Init => ClosedInv
<1> SUFFICES ASSUME Init PROVE ClosedInv
  OBVIOUS
<1>1. \A f \in Files : ~shown[f].findings
  BY DEF Init, Empty
<1>2. /\ pc["reload"] = "all" /\ pc["refresh"] = "idle"
      /\ \A w \in Workers : reports[w] = {} /\ cleared[w] = {}
  BY DEF Init, Workers
<1> QED
  BY <1>1, <1>2, InitType
     DEF Init, ClosedInv, OneWorkerAtATime, SweepsReportClosedFiles,
         ReportsAreForTheirFiles, InHand, At

(* A worker that has not been woken has nothing in hand.                      *)
LEMMA IdleWorkers ==
  ASSUME ClosedInv, WorkersIdle
  PROVE  /\ unindexed = {} /\ held = Nothing
         /\ \A w \in Workers : reports[w] = {} /\ cleared[w] = {} /\ pc[w] = "idle"
BY DEF ClosedInv, WorkersIdle, SweepsReportClosedFiles,
       ReportsAreForTheirFiles, At, Workers

(* Files are opened, edited, saved and changed by others ...                  *)
LEMMA NewEditionClosed ==
  ASSUME ClosedInv, NEW f \in Files, NewEdition(f), IsOpen(f) \/ WorkersIdle
  PROVE  ClosedInv'
<1>0. /\ TypeOK' /\ open'[f] # Nothing
      /\ \A g \in Files : g # f => open'[g] = open[g]
  <2>1. TypeOK' /\ open'[f] = latest[f] + 1
    BY NewEditionType DEF ClosedInv
  <2>2. latest[f] + 1 # Nothing
    BY EditionsAreNumbers, DiagnosticsAssumption DEF ClosedInv
  <2>3. \A g \in Files : g # f => open'[g] = open[g]
    BY DEF NewEdition, ClosedInv, TypeOK
  <2> QED
    BY <2>1, <2>2, <2>3
<1>1. /\ UNCHANGED <<client, verdict, schema, index, unindexed, pc, held,
                     reports, cleared, published, poll, asked, shown>>
      /\ handlers' = handlers \cup {[file |-> f, edition |-> latest'[f]]}
  BY DEF NewEdition, session, workers, ClosedInv, Pulls
<1>2. handlers \subseteq handlers' /\ handlers' \cap Reports = handlers \cap Reports
  <2>1. [file |-> f, edition |-> latest'[f]] \in Waiting
    BY <1>0 DEF TypeOK, Waiting
  <2> QED
    BY <1>1, <2>1, WaitingIsNotReported
<1>3. \A r \in Reports : r.file \in Files
  BY DEF Reports
<1>4. \A g \in Files : IsOpen(g) => IsOpen(g)'
  BY <1>0 DEF IsOpen
<1>5. OneWorkerAtATime'
  BY <1>1 DEF ClosedInv, OneWorkerAtATime, At
<1>6. SweepsReportClosedFiles'
  <2>1. \A w \in Workers : \A r \in reports[w] : r.file # f
    BY IdleWorkers DEF ClosedInv, SweepsReportClosedFiles
  <2> QED
    BY <1>0, <1>1, <1>3, <2>1
       DEF ClosedInv, SweepsReportClosedFiles, IsOpen, TypeOK
<1>7. ReportsAreForTheirFiles'
  <2>1. held # Nothing => held.file \in Files
    BY <1>3 DEF ClosedInv, TypeOK
  <2> QED
    BY <1>1, <1>2, <1>3, <1>4, <2>1
       DEF ClosedInv, ReportsAreForTheirFiles, Report, Empty, At
<1>8. ASSUME NEW g \in Files PROVE InHand(g)'
  BY <1>0, <1>1, <1>2
     DEF ClosedInv, InHand, ToBeCleared, ToBeSwept, Report, Empty, IsOpen, At
<1> QED
  BY <1>0, <1>1, <1>5, <1>6, <1>7, <1>8 DEF ClosedInv

LEMMA FileChangesClosed ==
  ASSUME ClosedInv, NEW f \in Files, DidSave(f) \/ Checkout(f), WorkersIdle
  PROVE  ClosedInv'
<1>0. TypeOK'
  BY EditorType DEF ClosedInv, Editor
<1>1. /\ UNCHANGED <<client, verdict, open, schema, index, handlers, pc, held,
                     reports, cleared, published, poll, asked, shown>>
      /\ unindexed \subseteq unindexed'
  BY DEF DidSave, Checkout, session, workers, pulls
<1>2. OneWorkerAtATime'
  BY <1>1, IdleWorkers DEF ClosedInv, OneWorkerAtATime, At, Workers
<1>3. SweepsReportClosedFiles' /\ ReportsAreForTheirFiles'
  BY <1>1 DEF ClosedInv, SweepsReportClosedFiles, ReportsAreForTheirFiles,
              Report, Empty, IsOpen, At
<1>4. ASSUME NEW g \in Files PROVE InHand(g)'
  BY <1>1 DEF ClosedInv, InHand, ToBeCleared, ToBeSwept, Report, Empty,
              IsOpen, At
<1> QED
  BY <1>0, <1>1, <1>2, <1>3, <1>4 DEF ClosedInv

(* ... and closed, when a clearance is on its way that nothing overtakes.      *)
LEMMA CloseClosed ==
  ASSUME ClosedInv, NEW f \in Files, DidClose(f), WorkersIdle,
         handlers \cap Reports = {}
  PROVE  ClosedInv'
<1>0. TypeOK'
  BY EditorType DEF ClosedInv, Editor
<1>1. /\ UNCHANGED <<client, verdict, schema, index, unindexed, pc, held,
                     reports, cleared, published, poll, asked, shown>>
      /\ handlers' = handlers \cup {Empty(f)}
      /\ \A g \in Files : g # f => open'[g] = open[g]
  BY DEF DidClose, session, workers, Pulls, ClosedInv, TypeOK
<1>2. OneWorkerAtATime'
  BY <1>1, IdleWorkers DEF OneWorkerAtATime, At, Workers
<1>3. SweepsReportClosedFiles'
  BY <1>1, IdleWorkers DEF SweepsReportClosedFiles
<1>4. ReportsAreForTheirFiles'
  <2>1. ASSUME NEW r \in handlers' \cap Reports PROVE r = Empty(r.file)
    BY <1>1 DEF Empty
  <2> QED
    BY <1>1, <2>1, IdleWorkers DEF ReportsAreForTheirFiles, Empty
<1>5. ASSUME NEW g \in Files PROVE InHand(g)'
  <2>1. CASE g = f
    BY <1>1, <2>1 DEF InHand, ToBeCleared, Empty
  <2>2. CASE g # f
    BY <1>1, <2>2
       DEF ClosedInv, InHand, ToBeCleared, ToBeSwept, Report, Empty, IsOpen, At
  <2> QED
    BY <2>1, <2>2
<1> QED
  BY <1>0, <1>1, <1>2, <1>3, <1>4, <1>5 DEF ClosedInv

LEMMA EditorClosed ==
  ASSUME SendsYield = FALSE, Calm = Events, ClosedInv, Editor
  PROVE  ClosedInv'
<1>1. \A event \in {"open", "save", "close", "checkout"} :
         MayHappen(event) => WorkersIdle
  BY DEF MayHappen, Events
<1>2. MaySwitch => handlers \cap Reports = {}
  BY DEF MaySwitch
<1> QED
  BY <1>1, <1>2, NewEditionClosed, FileChangesClosed, CloseClosed
     DEF Editor, DidOpen, DidChange, DidSave, Checkout, DidClose

(* The handlers clear the files that were closed, and report open ones.       *)
LEMMA HandlersClosed ==
  ASSUME ClosedInv, Handlers
  PROVE  ClosedInv'
<1>0. TypeOK'
  BY HandlersType DEF ClosedInv
<1> SUFFICES ASSUME NEW h \in handlers, Compute(h) \/ Send(h)
             PROVE  ClosedInv'
  BY DEF Handlers
<1>1. UNCHANGED <<client, verdict, open, schema, index, unindexed, pc, held,
                  reports, cleared, published, poll, asked>>
  BY DEF Compute, Send, sources, session, workers, pulls
<1>2. \A r \in Reports : r.file \in Files
  BY DEF Reports
<1>3. OneWorkerAtATime' /\ SweepsReportClosedFiles'
  BY <1>1 DEF ClosedInv, OneWorkerAtATime, SweepsReportClosedFiles, IsOpen, At
<1>4. CASE Compute(h)
  <2>1. /\ h.file \in Files /\ h \notin Reports /\ shown' = shown
        /\ DiagnosticsFor(h.file).file = h.file
        /\ handlers' = (handlers \ {h}) \cup
                          (IF IsOpen(h.file) /\ ~Pulls
                           THEN {DiagnosticsFor(h.file)} ELSE {})
    BY <1>4, WaitingIsNotReported DEF Compute, Waiting, DiagnosticsFor, Report
  <2>2. \A r \in handlers' \cap Reports : r \in handlers \/ IsOpen(r.file)
    BY <2>1
  <2>3. ReportsAreForTheirFiles'
    BY <1>1, <2>2
       DEF ClosedInv, ReportsAreForTheirFiles, Report, Empty, IsOpen, At
  <2>4. ASSUME NEW g \in Files PROVE InHand(g)'
    <3>1. Empty(g) \in handlers => Empty(g) \in handlers'
      BY <2>1, EmptyType
    <3> QED
      BY <1>1, <2>1, <3>1
         DEF ClosedInv, InHand, ToBeCleared, ToBeSwept, Report, Empty, IsOpen,
             At
  <2> QED
    BY <1>0, <1>1, <1>3, <2>3, <2>4 DEF ClosedInv
<1>5. CASE Send(h)
  <2>1. h \in Reports /\ h.file \in Files /\ handlers' = handlers \ {h}
    BY <1>2, <1>5 DEF Send
  <2>2. ReportsAreForTheirFiles'
    BY <1>1, <2>1
       DEF ClosedInv, ReportsAreForTheirFiles, Report, Empty, IsOpen, At
  <2>3. /\ \A g \in Files : g # h.file => shown'[g] = shown[g]
        /\ ~IsOpen(h.file) => shown'[h.file] = Empty(h.file)
    BY <1>5, <2>1, DeliverType
       DEF Send, ClosedInv, ReportsAreForTheirFiles, Outdated
  <2>4. ASSUME NEW g \in Files PROVE InHand(g)'
    <3>1. CASE g = h.file
      BY <1>1, <2>3, <3>1 DEF InHand, IsOpen, Empty
    <3>2. CASE g # h.file
      <4>1. Empty(g) \in handlers => Empty(g) \in handlers'
        BY <2>1, <3>2 DEF Empty
      <4> QED
        BY <1>1, <2>3, <3>2, <4>1
           DEF ClosedInv, InHand, ToBeCleared, ToBeSwept, Report, Empty,
               IsOpen, At
    <3> QED
      BY <3>1, <3>2
  <2> QED
    BY <1>0, <1>1, <1>3, <2>2, <2>4 DEF ClosedInv
<1> QED
  BY <1>4, <1>5

(* The reload worker before its sweep, and the refresh: the sweep is due.      *)
LEMMA WokenClosed ==
  ASSUME Calm = Events, ClosedInv, Reload \/ Refresh
  PROVE  ClosedInv'
<1>0. TypeOK'
  BY WorkType DEF ClosedInv
<1>1. /\ pc["reload"] = "idle" /\ pc["refresh"] = "idle"
      /\ pc \in [Workers -> {"idle", "all", "open", "closed", "swap", "push"}]
  BY DEF Reload, Refresh, MayHappen, WorkersIdle, Events, Workers, ClosedInv,
         OneWorkerAtATime, At, TypeOK
<1>2. /\ UNCHANGED <<client, verdict, open, handlers, held, reports, cleared,
                     published, poll, asked, shown>>
      /\ Reload => /\ pc' = [pc EXCEPT !["reload"] = "all"]
                   /\ unindexed = {} /\ unindexed' = {}
      /\ Refresh => /\ pc' = [pc EXCEPT !["refresh"] = "closed"]
                    /\ unindexed' = {}
  BY DEF Reload, Refresh, Goto, MayHappen, WorkersIdle, Events,
         sources, session, pulls, workers
<1>3. \A w \in Workers : pc[w] = "idle" /\ reports[w] = {} /\ cleared[w] = {}
  BY <1>1 DEF ClosedInv, SweepsReportClosedFiles, ReportsAreForTheirFiles, At,
              Workers
<1>4. held = Nothing
  BY <1>1 DEF ClosedInv, ReportsAreForTheirFiles, At
<1>5. OneWorkerAtATime'
  BY <1>1, <1>2 DEF OneWorkerAtATime, At, Workers
<1>6. SweepsReportClosedFiles' /\ ReportsAreForTheirFiles'
  BY <1>2, <1>3, <1>4
     DEF ClosedInv, SweepsReportClosedFiles, ReportsAreForTheirFiles, Empty,
         IsOpen
<1>7. ASSUME NEW g \in Files PROVE InHand(g)'
  <2>1. ToBeSwept(g)'
    BY <1>1, <1>2 DEF ToBeSwept, Workers
  <2> QED
    BY <1>2, <1>3, <2>1
       DEF ClosedInv, InHand, ToBeCleared, Empty, IsOpen, At
<1> QED
  BY <1>0, <1>2, <1>5, <1>6, <1>7 DEF ClosedInv

LEMMA WorkClosed ==
  ASSUME ClosedInv,
         ListOpen \/ SendOpen \/ AllReported \/ \E f \in Files : ComputeOpen(f)
  PROVE  ClosedInv'
<1>0. TypeOK'
  BY WorkType DEF ClosedInv
<1>1. /\ UNCHANGED <<client, verdict, open, schema, index, unindexed, handlers,
                     reports, cleared, published, poll, asked>>
      /\ pc["reload"] \in {"all", "open"}
      /\ \A w \in Workers : w # "reload" => pc'[w] = pc[w]
      /\ pc'["reload"] \in {"open", "closed"}
  BY DEF ListOpen, SendOpen, AllReported, ComputeOpen, At, Goto, ClosedInv,
         TypeOK, Workers, sources, session, pulls
<1>2. pc["refresh"] = "idle" /\ unindexed = {} /\ reports["reload"] = {}
  BY <1>1 DEF ClosedInv, OneWorkerAtATime, SweepsReportClosedFiles, At, Workers
<1>3. OneWorkerAtATime'
  BY <1>1, <1>2 DEF OneWorkerAtATime, At, Workers
<1>4. SweepsReportClosedFiles'
  BY <1>1, <1>2 DEF ClosedInv, SweepsReportClosedFiles, IsOpen, Workers
<1>5. held' # Nothing => IsOpen(held'.file) /\ pc'["reload"] = "open"
  <2>1. CASE \E f \in Files : ComputeOpen(f)
    <3>1. PICK f \in Files : ComputeOpen(f)
      BY <2>1
    <3>2. DiagnosticsFor(f).file = f
      BY DEF DiagnosticsFor, Report
    <3> QED
      BY <3>1, <3>2 DEF ComputeOpen, At
  <2>2. CASE ListOpen
    BY <2>2 DEF ListOpen, ClosedInv, ReportsAreForTheirFiles, At
  <2>3. CASE SendOpen \/ AllReported
    BY <2>3 DEF SendOpen, AllReported
  <2> QED
    BY <2>1, <2>2, <2>3
<1>6. ReportsAreForTheirFiles'
  <2>1. \A r \in handlers' \cap Reports : r = Empty(r.file)' \/ IsOpen(r.file)'
    BY <1>1 DEF ClosedInv, ReportsAreForTheirFiles, Empty, IsOpen
  <2>2. held' # Nothing => IsOpen(held.file)' /\ At("reload", "open")'
    BY <1>1, <1>5 DEF IsOpen, At
  <2>3. ASSUME NEW w \in Workers
        PROVE  /\ At(w, "push")' \/ cleared'[w] = {}
               /\ \A r \in reports'[w] :
                     /\ r = Report(r.file, Nothing, index[r.file])'
                     /\ At(w, "push")' => r.file \in published'
    BY <1>1, <1>2 DEF ClosedInv, ReportsAreForTheirFiles, Report, At, Workers
  <2> QED
    BY <2>1, <2>2, <2>3 DEF ReportsAreForTheirFiles
<1>7. \A g \in Files : ~IsOpen(g) => shown'[g] = shown[g]
  <2>1. CASE SendOpen
    <3>1. IsOpen(held.file) /\ held \in Reports
      BY <2>1 DEF ClosedInv, ReportsAreForTheirFiles, SendOpen, TypeOK
    <3> QED
      BY <2>1, <3>1, DeliverType DEF ClosedInv, SendOpen
  <2>2. CASE ~SendOpen
    BY <2>2 DEF ListOpen, AllReported, ComputeOpen
  <2> QED
    BY <2>1, <2>2
<1>8. ASSUME NEW g \in Files PROVE InHand(g)'
  <2>1. ToBeSwept(g)'
    BY <1>1 DEF ToBeSwept, Workers
  <2>2. ToBeCleared(g) => ToBeCleared(g)'
    BY <1>1 DEF ToBeCleared, At, Empty, Workers
  <2> QED
    BY <1>1, <1>7, <2>1, <2>2 DEF ClosedInv, InHand, IsOpen
<1> QED
  BY <1>0, <1>1, <1>3, <1>4, <1>6, <1>8 DEF ClosedInv

(* A sweep: what it computes is up to date ...                                *)
LEMMA ComputeClosedClosed ==
  ASSUME ClosedInv, NEW w \in Workers, ComputeClosed(w)
  PROVE  ClosedInv'
<1>0. TypeOK'
  BY SweepType DEF ClosedInv, Sweep
<1>1. /\ UNCHANGED <<client, verdict, open, schema, index, unindexed, handlers,
                     held, cleared, published, poll, asked, shown>>
      /\ pc[w] = "closed" /\ pc'[w] = "swap"
      /\ \A v \in Workers : v # w => pc'[v] = pc[v] /\ reports'[v] = reports[v]
      /\ reports'[w] = ClosedQueryDiagnostics
  BY DEF ComputeClosed, Goto, At, ClosedInv, TypeOK, sources, session, pulls
<1>2. \A r \in ClosedQueryDiagnostics :
         /\ ~IsOpen(r.file) /\ r.version = Nothing
         /\ r = Report(r.file, Nothing, index[r.file])
  BY ClosedReports DEF ClosedInv
<1>3. OneWorkerAtATime'
  BY <1>1 DEF ClosedInv, OneWorkerAtATime, At, Workers
<1>4. SweepsReportClosedFiles'
  BY <1>1, <1>2 DEF ClosedInv, SweepsReportClosedFiles, IsOpen
<1>5. ReportsAreForTheirFiles'
  <2>1. ASSUME NEW v \in Workers
        PROVE  /\ At(v, "push")' \/ cleared'[v] = {}
               /\ \A r \in reports'[v] :
                     /\ r = Report(r.file, Nothing, index[r.file])'
                     /\ At(v, "push")' => r.file \in published'
    <3>1. CASE v = w
      BY <1>1, <1>2, <3>1 DEF ClosedInv, ReportsAreForTheirFiles, Report, At
    <3>2. CASE v # w
      BY <1>1, <3>2 DEF ClosedInv, ReportsAreForTheirFiles, Report, At
    <3> QED
      BY <3>1, <3>2
  <2>2. held' # Nothing => IsOpen(held.file)' /\ At("reload", "open")'
    BY <1>1 DEF ClosedInv, ReportsAreForTheirFiles, IsOpen, At, Workers
  <2> QED
    BY <1>1, <2>1, <2>2
       DEF ClosedInv, ReportsAreForTheirFiles, Empty, IsOpen
<1>6. ASSUME NEW g \in Files PROVE InHand(g)'
  <2>1. ToBeSwept(g)'
    BY <1>1 DEF ToBeSwept
  <2>2. ToBeCleared(g) => ToBeCleared(g)'
    BY <1>1 DEF ToBeCleared, At, Empty
  <2> QED
    BY <1>1, <2>1, <2>2 DEF ClosedInv, InHand, IsOpen
<1> QED
  BY <1>0, <1>1, <1>3, <1>4, <1>5, <1>6 DEF ClosedInv

(* ... the files it has no report for are to be cleared ...                   *)
LEMMA SwapClosed ==
  ASSUME ClosedInv, NEW w \in Workers, SwapPublished(w)
  PROVE  ClosedInv'
<1>0. TypeOK'
  BY SweepType DEF ClosedInv, Sweep
<1>1. /\ UNCHANGED <<client, verdict, open, schema, index, unindexed, handlers,
                     held, reports, poll, asked, shown>>
      /\ published' = {r.file : r \in reports[w]}
      /\ pc[w] = "swap" /\ pc'[w] = "push" /\ cleared'[w] = published \ published'
      /\ \A v \in Workers : v # w => pc'[v] = pc[v] /\ cleared'[v] = cleared[v]
  BY DEF SwapPublished, Goto, At, ClosedInv, TypeOK, sources, session, pulls
<1>2. /\ \A v \in Workers : v # w => pc[v] = "idle"
      /\ \A v \in Workers : v # w => reports[v] = {}
      /\ unindexed = {}
  BY <1>1 DEF ClosedInv, OneWorkerAtATime, SweepsReportClosedFiles, At, Workers
<1>3. OneWorkerAtATime'
  BY <1>1 DEF ClosedInv, OneWorkerAtATime, At, Workers
<1>4. SweepsReportClosedFiles'
  BY <1>1 DEF ClosedInv, SweepsReportClosedFiles, IsOpen
<1>5. ReportsAreForTheirFiles'
  <2>1. ASSUME NEW v \in Workers
        PROVE  /\ At(v, "push")' \/ cleared'[v] = {}
               /\ \A r \in reports'[v] :
                     /\ r = Report(r.file, Nothing, index[r.file])'
                     /\ At(v, "push")' => r.file \in published'
    BY <1>1, <1>2 DEF ClosedInv, ReportsAreForTheirFiles, Report, At
  <2>2. held = Nothing
    BY <1>1, <1>2 DEF ClosedInv, ReportsAreForTheirFiles, At, Workers
  <2> QED
    BY <1>1, <2>1, <2>2
       DEF ClosedInv, ReportsAreForTheirFiles, Empty, IsOpen
<1>6. ASSUME NEW g \in Files PROVE InHand(g)'
  <2> SUFFICES ASSUME ~IsOpen(g), shown[g].findings
               PROVE  /\ g \in published' \/ ToBeCleared(g)'
                      /\ ToBeCleared(g)' \/ ToBeSwept(g)'
    BY <1>1 DEF InHand, IsOpen
  <2>1. g \in published \/ ToBeCleared(g)
    BY DEF ClosedInv, InHand
  <2>2. ToBeCleared(g) => ToBeCleared(g)'
    BY <1>1 DEF ToBeCleared, At, Empty
  <2>3. g \in published /\ g \notin published' => ToBeCleared(g)'
    BY <1>1 DEF ToBeCleared, At
  <2>4. g \in published' => ToBeSwept(g)'
    BY <1>1 DEF ToBeSwept
  <2> QED
    BY <2>1, <2>2, <2>3, <2>4
<1> QED
  BY <1>0, <1>1, <1>3, <1>4, <1>5, <1>6 DEF ClosedInv

(* ... and each gets its report or its clearance.                             *)
LEMMA PushClosed ==
  ASSUME ClosedInv, NEW w \in Workers, PushReport(w) \/ PushCleared(w)
  PROVE  ClosedInv'
<1>0. TypeOK'
  BY SweepType DEF ClosedInv, Sweep
<1>1. /\ UNCHANGED <<client, verdict, open, schema, index, unindexed, handlers,
                     pc, held, published, poll, asked>>
      /\ pc[w] = "push"
      /\ \A v \in Workers : reports'[v] \subseteq reports[v]
      /\ \A v \in Workers : cleared'[v] \subseteq cleared[v]
  BY DEF PushReport, PushCleared, At, ClosedInv, TypeOK, sources, session, pulls
<1>2. /\ \A v \in Workers : \A r \in reports[v] :
            r.file \in Files /\ ~IsOpen(r.file) /\ r.version = Nothing
      /\ \A v \in Workers : \A f \in cleared[v] : f \in Files
      /\ \A v \in Workers : reports[v] \subseteq Reports
  BY DEF ClosedInv, TypeOK, Reports, SweepsReportClosedFiles
<1>3. OneWorkerAtATime' /\ SweepsReportClosedFiles'
  BY <1>1 DEF ClosedInv, OneWorkerAtATime, SweepsReportClosedFiles, IsOpen, At
<1>4. ReportsAreForTheirFiles'
  BY <1>1
     DEF ClosedInv, ReportsAreForTheirFiles, Report, Empty, IsOpen, At
<1>5. CASE PushReport(w)
  <2>1. PICK r \in reports[w] : /\ reports' = [reports EXCEPT ![w] = @ \ {r}]
                                /\ Deliver(r) /\ cleared' = cleared
    BY <1>5 DEF PushReport
  <2>2. /\ \A g \in Files : g # r.file => shown'[g] = shown[g]
        /\ shown'[r.file] = r
    BY <1>2, <2>1, DeliverType DEF ClosedInv, Outdated
  <2>3. r = Report(r.file, Nothing, index[r.file])' /\ r.file \in published'
    BY <1>1 DEF ClosedInv, ReportsAreForTheirFiles, Report, At
  <2>4. ASSUME NEW g \in Files PROVE InHand(g)'
    <3>1. CASE g = r.file
      BY <2>2, <2>3, <3>1 DEF InHand
    <3>2. CASE g # r.file
      <4>1. ToBeCleared(g) => ToBeCleared(g)'
        BY <1>1, <2>1 DEF ToBeCleared, At, Empty
      <4>2. ToBeSwept(g) => ToBeSwept(g)'
        BY <1>1, <2>1, <3>2 DEF ToBeSwept, ClosedInv, TypeOK
      <4> QED
        BY <1>1, <2>2, <3>2, <4>1, <4>2 DEF ClosedInv, InHand, IsOpen, Report
    <3> QED
      BY <3>1, <3>2
  <2> QED
    BY <1>0, <1>1, <1>3, <1>4, <2>4 DEF ClosedInv
<1>6. CASE PushCleared(w)
  <2>1. PICK f \in cleared[w] : /\ cleared' = [cleared EXCEPT ![w] = @ \ {f}]
                                /\ Deliver(Empty(f)) /\ reports' = reports
    BY <1>6 DEF PushCleared
  <2>2. /\ Empty(f) \in Reports /\ Empty(f).file = f
        /\ ~Outdated(Empty(f)) /\ ~Empty(f).findings
    BY <1>2, EmptyType DEF Empty, Outdated
  <2>3. /\ \A g \in Files : g # f => shown'[g] = shown[g]
        /\ ~shown'[f].findings
    BY <2>1, <2>2, DeliverType DEF ClosedInv
  <2>4. ASSUME NEW g \in Files PROVE InHand(g)'
    <3>1. CASE g = f
      BY <2>3, <3>1 DEF InHand
    <3>2. CASE g # f
      <4>1. ToBeCleared(g) => ToBeCleared(g)'
        BY <1>1, <2>1, <3>2 DEF ToBeCleared, At, Empty, ClosedInv, TypeOK
      <4>2. ToBeSwept(g) => ToBeSwept(g)'
        BY <1>1, <2>1 DEF ToBeSwept
      <4> QED
        BY <1>1, <2>3, <3>2, <4>1, <4>2 DEF ClosedInv, InHand, IsOpen, Report
    <3> QED
      BY <3>1, <3>2
  <2> QED
    BY <1>0, <1>1, <1>3, <1>4, <2>4 DEF ClosedInv
<1> QED
  BY <1>5, <1>6

LEMMA EndSweepClosed ==
  ASSUME ClosedInv, NEW w \in Workers, EndSweep(w)
  PROVE  ClosedInv'
<1>0. TypeOK'
  BY SweepType DEF ClosedInv, Sweep
<1>1. /\ UNCHANGED <<client, verdict, open, schema, index, unindexed, handlers,
                     held, reports, cleared, published, poll, asked, shown>>
      /\ pc[w] = "push" /\ pc'[w] = "idle" /\ reports[w] = {} /\ cleared[w] = {}
      /\ \A v \in Workers : v # w => pc'[v] = pc[v]
  BY DEF EndSweep, Goto, At, ClosedInv, TypeOK, sources, session, pulls
<1>2. held = Nothing
  BY <1>1 DEF ClosedInv, ReportsAreForTheirFiles, OneWorkerAtATime, At, Workers
<1>3. OneWorkerAtATime'
  BY <1>1 DEF ClosedInv, OneWorkerAtATime, At, Workers
<1>4. SweepsReportClosedFiles'
  BY <1>1 DEF ClosedInv, SweepsReportClosedFiles, IsOpen
<1>5. ReportsAreForTheirFiles'
  BY <1>1, <1>2
     DEF ClosedInv, ReportsAreForTheirFiles, Report, Empty, IsOpen, At
<1>6. ASSUME NEW g \in Files PROVE InHand(g)'
  <2>1. ToBeCleared(g) => ToBeCleared(g)'
    BY <1>1 DEF ToBeCleared, At, Empty
  <2>2. ToBeSwept(g) => ToBeSwept(g)'
    BY <1>1 DEF ToBeSwept
  <2> QED
    BY <1>1, <2>1, <2>2 DEF ClosedInv, InHand, IsOpen, Report
<1> QED
  BY <1>0, <1>1, <1>3, <1>4, <1>5, <1>6 DEF ClosedInv

LEMMA ClosedInvariant ==
  ASSUME SendsYield = FALSE, Calm = Events
  PROVE  ClosedInv /\ [Next]_vars => ClosedInv'
<1> SUFFICES ASSUME ClosedInv, [Next]_vars PROVE ClosedInv'
  OBVIOUS
<1>1. CASE UNCHANGED vars
  BY <1>1
     DEF vars, sources, session, workers, pulls, ClosedInv, TypeOK, InHand,
         OneWorkerAtATime, SweepsReportClosedFiles, ReportsAreForTheirFiles,
         ToBeCleared, ToBeSwept, Report, Empty, IsOpen, At
<1>2. ASSUME NEW w \in Workers, Sweep(w) PROVE ClosedInv'
  <2>1. ~SkipSweep(w)
    BY DEF SkipSweep, Pulls, ClosedInv
  <2> QED
    BY <1>2, <2>1, ComputeClosedClosed, SwapClosed, PushClosed, EndSweepClosed
       DEF Sweep
<1>3. CASE Poll \/ \E f \in Files : Diagnostic(f)
  BY <1>3 DEF Poll, WorkspaceDiagnostic, PollOpen, AnswerPoll, Diagnostic,
              ClosedInv
<1> QED
  BY <1>1, <1>2, <1>3, EditorClosed, HandlersClosed, WokenClosed, WorkClosed
     DEF Next, Work

(* At rest, nothing is in hand, so a closed file with findings is in the        *)
(* published set and shows what the index says of it.                        *)
LEMMA ClosedAtRest ==
  ASSUME ClosedInv, Quiet, NEW f \in Files, ~IsOpen(f), shown[f].findings
  PROVE  /\ f \in published
         /\ shown[f] = Report(f, Nothing, index[f])
<1>1. handlers = {} /\ unindexed = {}
  BY DEF Quiet, WorkersIdle
<1>2. \A w \in Workers : pc[w] = "idle" /\ reports[w] = {}
  BY IdleWorkers DEF Quiet
<1>3. ~ToBeCleared(f) /\ ~ToBeSwept(f)
  BY <1>1, <1>2 DEF ToBeCleared, ToBeSwept, At
<1> QED
  BY <1>3 DEF ClosedInv, InHand

(* A client that is pushed its diagnostics never shows findings for a closed   *)
(* file that the server has forgotten, as long as files are opened, saved,     *)
(* closed and checked out, and reloads happen, between the sweeps, and a       *)
(* report is sent before the next notification is handled (server.rs,          *)
(* publish_workspace_diagnostics and did_close).                              *)
THEOREM ClosedFindingsAreRemembered ==
  ASSUME Clients = {"pushed"}, SendsYield = FALSE, Calm = Events
  PROVE  Spec => []ClosedFindingsAreTracked
<1>1. ClosedInv => ClosedFindingsAreTracked
  BY ClosedAtRest DEF ClosedFindingsAreTracked
<1> QED
  BY <1>1, InitClosed, ClosedInvariant, PTL DEF Spec

(* Under the same assumptions, what it shows is what the query index and the    *)
(* schema say of the file: neither the findings of a text that was fixed nor  *)
(* those of a buffer that is closed.                                         *)
THEOREM ClosedFindingsAreTheIndexs ==
  ASSUME Clients = {"pushed"}, SendsYield = FALSE, Calm = Events
  PROVE  Spec => []ClosedShowsTheIndex
<1>1. ClosedInv => ClosedShowsTheIndex
  BY ClosedAtRest DEF ClosedShowsTheIndex
<1> QED
  BY <1>1, InitClosed, ClosedInvariant, PTL DEF Spec
=============================================================================
