---------------------------- MODULE HandlerLocks ----------------------------
(***************************************************************************)
(* Who waits for whom in the server (src/src/server.rs).  Two locks guard    *)
(* the shared state: tokio's RwLock<Workspace>, which is awaited, and the    *)
(* shards of the DashMap of open documents, which block the thread.  Many    *)
(* handlers hold a document's guard while they await the workspace.  All     *)
(* handlers run in one task, the future that main.rs awaits: while one of    *)
(* them blocks the thread none of the others is polled.  The two workers     *)
(* are tasks of their own.                                                  *)
(*                                                                          *)
(* Only the locking is modelled.  A handler or a worker is a program of      *)
(*   "read", "write"  await the workspace lock                              *)
(*   "guard"          documents.get: a shared guard, kept to the release    *)
(*   "edit"           documents.get_mut, insert or remove: exclusive, and    *)
(*                    given up again before the next await                  *)
(*   "release"        the end of the scope that holds the locks             *)
(* A lookup in the map that holds the workspace lock but ends before the     *)
(* next await is not a step: shared guards wait for nobody, as an edit is    *)
(* over in one step.                                                        *)
(***************************************************************************)
EXTENDS Naturals, Sequences, SequencesExt

CONSTANTS
    Handlers,   \* the slots for concurrent handlers in the serving task
    Workers,    \* which workers have work: a subset of {"reload", "refresh"}
    Docs,       \* the open documents, each in a shard of its own
    Requests,   \* the programs of the messages that arrive
    None

(* completion, goto_definition, hover, code_action, document_symbol, the     *)
(* semantic-token requests and diagnostics_for: the guard of the document    *)
(* is held across the await.                                                *)
Query == <<"guard", "read", "release">>

(* Faulty variant: a helper takes the workspace lock a second time.          *)
SearchReentrant == <<"read", "read", "release">>

(* references, rename, document_highlight, symbol, affects_workspace: the    *)
(* workspace first, the documents under it.                                 *)
Search == <<"read", "release">>

(* Faulty variant: the lookup's guard outlives the lookup.                   *)
DidChangeUnderGuard == <<"guard", "edit">> \o Query

(* did_open, did_change: the document, then publish_diagnostics_for.         *)
DidChange == <<"edit">> \o Query
DidClose  == <<"edit">>

DidChangeWorkspaceFolders == <<"write", "release">>

(* reload_workspace: the roots, the new workspace, register_watchers,        *)
(* publish_all_diagnostics (one document stands for all), and the sweep.     *)
ReloadWorkspace ==
    <<"read", "release", "write", "release", "read", "release">>
    \o Query \o Search

(* refresh_query_documents: the migration directories, the replacements, and *)
(* the sweep.                                                               *)
RefreshQueryDocuments ==
    <<"read", "release", "write", "release">> \o Search

Programs == {Query, Search, DidChange, DidClose, DidChangeWorkspaceFolders}

ASSUME LockAssumption ==
    /\ Handlers \cap {"reload", "refresh"} = {}
    /\ Workers \subseteq {"reload", "refresh"}
    /\ Requests \subseteq Programs
    /\ None \notin Handlers \cup {"reload", "refresh"}

VARIABLES
    program,   \* program[p]: what is left to do for p
    doc,       \* doc[h]: the document of h's request
    guards,    \* guards[d]: who holds a guard of document d
    readers, writer,   \* the holders of the workspace lock
    queue,     \* those that await the workspace lock, first come first served
    serving    \* the handler that the serving task is polling

vars == <<program, doc, guards, readers, writer, queue, serving>>

Procs == Handlers \cup Workers

Running(p)  == program[p] # <<>>
At(p, op)   == Running(p) /\ Head(program[p]) = op
Advance(p)  == program' = [program EXCEPT ![p] = Tail(@)]
Awaiting(p) == p \in ToSet(queue)

TypeOK ==
    /\ program \in [Procs -> Seq({"read", "write", "guard", "edit", "release"})]
    /\ doc \in [Handlers -> Docs]
    /\ guards \in [Docs -> SUBSET Procs]
    /\ readers \subseteq Procs
    /\ writer \in Procs \cup {None}
    /\ queue \in Seq(Procs)
    /\ serving \in Handlers \cup {None}

Init ==
    /\ program = [p \in Procs |-> <<>>]
    /\ doc \in [Handlers -> Docs]
    /\ guards = [d \in Docs |-> {}]
    /\ readers = {}
    /\ writer = None
    /\ queue = <<>>
    /\ serving = None
-----------------------------------------------------------------------------
(* A message arrives and takes a free slot.                                  *)
Arrive(h) ==
    /\ ~Running(h)
    /\ serving # h
    /\ \E r \in Requests : program' = [program EXCEPT ![h] = r]
    /\ \E d \in Docs : doc' = [doc EXCEPT ![h] = d]
    /\ UNCHANGED <<guards, readers, writer, queue, serving>>

(* A notify_one wakes a worker.                                              *)
Wake(w) ==
    /\ ~Running(w)
    /\ program' = [program EXCEPT
                     ![w] = IF w = "reload" THEN ReloadWorkspace
                                            ELSE RefreshQueryDocuments]
    /\ UNCHANGED <<doc, guards, readers, writer, queue, serving>>

(* The serving task polls a handler that is not waiting for a lock.          *)
Poll(h) ==
    /\ serving = None
    /\ Running(h)
    /\ ~Awaiting(h)
    /\ serving' = h
    /\ UNCHANGED <<program, doc, guards, readers, writer, queue>>

(* A handler takes steps while it is polled, a worker at any time.           *)
MayRun(p) == p \in Handlers => serving = p

(* Faulty variant: any task that finishes or goes on is taken for a handler.  *)
EndPollOfAny(p) == serving' = IF program'[p] = <<>> THEN None ELSE p

(* The poll of a handler ends when it is done.                               *)
EndPollIfDone(p) ==
    serving' = IF p \in Handlers /\ program'[p] = <<>> THEN None ELSE serving
-----------------------------------------------------------------------------
(* documents.get                                                            *)
Guard(p) ==
    /\ MayRun(p)
    /\ At(p, "guard")
    /\ \E d \in Docs : /\ p \in Handlers => d = doc[p]
                       /\ guards' = [guards EXCEPT ![d] = @ \cup {p}]
    /\ Advance(p)
    /\ UNCHANGED <<doc, readers, writer, queue, serving>>

(* documents.get_mut, insert and remove wait for every guard of the shard,   *)
(* blocking the thread.                                                     *)
Edit(p) ==
    /\ MayRun(p)
    /\ At(p, "edit")
    /\ guards[doc[p]] = {}
    /\ Advance(p)
    /\ EndPollIfDone(p)
    /\ UNCHANGED <<doc, guards, readers, writer, queue>>

(* The workspace lock is fair: it is granted in the order of the requests.   *)
Grantable(p) == /\ writer = None
                /\ At(p, "write") => readers = {}

Grant(p) ==
    /\ readers' = IF At(p, "read") THEN readers \cup {p} ELSE readers
    /\ writer' = IF At(p, "write") THEN p ELSE writer
    /\ Advance(p)

(* workspace.read().await and workspace.write().await: granted at once, or    *)
(* the caller is queued and, if it is a handler, the poll ends.              *)
Await(p) ==
    /\ MayRun(p)
    /\ ~Awaiting(p)
    /\ At(p, "read") \/ At(p, "write")
    /\ IF queue = <<>> /\ Grantable(p)
       THEN Grant(p) /\ UNCHANGED <<queue, serving>>
       ELSE /\ queue' = Append(queue, p)
            /\ serving' = IF p \in Handlers THEN None ELSE serving
            /\ UNCHANGED <<program, readers, writer>>
    /\ UNCHANGED <<doc, guards>>

(* A release lets the first waiters have the lock.  They may run again.      *)
GrantFirst ==
    /\ queue # <<>>
    /\ Grantable(Head(queue))
    /\ Grant(Head(queue))
    /\ queue' = Tail(queue)
    /\ UNCHANGED <<doc, guards, serving>>

(* What the locks were held for is done, and the scope ends.                 *)
Release(p) ==
    /\ MayRun(p)
    /\ At(p, "release")
    /\ guards' = [d \in Docs |-> guards[d] \ {p}]
    /\ readers' = readers \ {p}
    /\ writer' = IF writer = p THEN None ELSE writer
    /\ Advance(p)
    /\ EndPollIfDone(p)
    /\ UNCHANGED <<doc, queue>>
-----------------------------------------------------------------------------
Step(p) == Guard(p) \/ Edit(p) \/ Await(p) \/ Release(p)

Next == \/ \E h \in Handlers : Arrive(h) \/ Poll(h)
        \/ \E w \in Workers : Wake(w)
        \/ \E p \in Procs : Step(p)
        \/ GrantFirst

(* Threads run; a handler that is woken again and again is polled in the end  *)
(* (the futures of the serving task are polled in the order they are woken),  *)
(* and so is the thread that waits for a shard which is unlocked again and    *)
(* again (each last guard wakes it).                                        *)
Fairness == /\ \A p \in Procs : WF_vars(Step(p))
            /\ \A h \in Handlers : SF_vars(Poll(h)) /\ SF_vars(Edit(h))
            /\ WF_vars(GrantFirst)

Spec == Init /\ [][Next]_vars /\ Fairness
-----------------------------------------------------------------------------
(* A document changes while nothing else is requested.                       *)
EditorsAreAlone ==
    \A g, h \in Handlers : At(h, "edit") /\ g # h => ~Running(g)

(* As long as documents only change so, every request is answered, every      *)
(* notification handled, and every reload and refresh comes to its end.       *)
EverythingFinishes ==
    []EditorsAreAlone => \A p \in Procs : Running(p) ~> ~Running(p)

(* A change, opening or closing of a document is applied in the end, whatever *)
(* the workers do (server.rs, Backend::new: "a slow load (cargo metadata, an  *)
(* unresponsive database) must not delay the document synchronization        *)
(* notifications queued behind it").                                        *)
DocumentsAreSynchronized == \A h \in Handlers : At(h, "edit") ~> ~At(h, "edit")

(* Whoever holds the workspace lock does not await it again: the scope that    *)
(* took it ends next.  A second read().await under the first one deadlocks     *)
(* with a writer that is queued between them.                               *)
HoldersReleaseNext ==
    \A p \in Procs : p \in readers \/ writer = p => At(p, "release")

(* Who can go on: whoever waits for no lock and is polled or may be.          *)
CanGoOn(p) ==
    /\ Running(p)
    /\ ~Awaiting(p)
    /\ \/ p \in Handlers /\ serving = None
       \/ MayRun(p) /\ (At(p, "edit") => guards[doc[p]] = {})

NeverStuck ==
    (\E p \in Procs : Running(p)) =>
        \/ queue # <<>> /\ Grantable(Head(queue))
        \/ \E p \in Procs : CanGoOn(p)

Holds(p) == p \in readers \/ writer = p \/ \E d \in Docs : p \in guards[d]

(* The serving task's thread waits in an edit for a guard, while another one   *)
(* of the task's own handlers, which only this thread could let go on, holds   *)
(* a lock.                                                                  *)
ServingBlocksItself ==
    /\ serving # None
    /\ At(serving, "edit")
    /\ guards[doc[serving]] # {}
    /\ \E h \in Handlers \ {serving} : Holds(h)

(* Whatever arrives, and in whichever order, there is this one way to a        *)
(* deadlock: neither do the handlers and the workers ever wait for each other  *)
(* in a circle of workspace lock and guards, though one half of them takes the *)
(* document first and the other half the workspace, nor does an edit wait in   *)
(* vain for a worker (server.rs, publish_diagnostics_for and                  *)
(* collect_context_references).                                             *)
OnlyEditsDeadlock == NeverStuck \/ ServingBlocksItself
-----------------------------------------------------------------------------
(* The inductive invariant behind them.                                     *)

(* The workspace lock is awaited just before the end of a scope, a document's  *)
(* guard is followed by the workspace lock, and an edit comes first.           *)
WellFormed(r) ==
    \A i \in 1..Len(r) :
        /\ r[i] \in {"read", "write"} => i < Len(r) /\ r[i + 1] = "release"
        /\ r[i] = "guard" => i < Len(r) /\ r[i + 1] = "read"
        /\ r[i] = "edit" => i = 1

ProgramsAreWellFormed ==
    /\ \A p \in Procs : WellFormed(program[p])
    /\ \A w \in Workers : ~At(w, "edit")

GuardsAreKeptToTheRelease ==
    \A d \in Docs : \A p \in guards[d] : At(p, "read") \/ At(p, "release")

QueuedAwaitTheLock ==
    /\ \A i \in 1..Len(queue) : At(queue[i], "read") \/ At(queue[i], "write")
    /\ \A i, j \in 1..Len(queue) : queue[i] = queue[j] => i = j

ServedIsRunning == serving # None => Running(serving) /\ ~Awaiting(serving)

LockIsExclusive == writer # None => readers = {}

LInv == /\ TypeOK
        /\ ProgramsAreWellFormed
        /\ HoldersReleaseNext
        /\ GuardsAreKeptToTheRelease
        /\ QueuedAwaitTheLock
        /\ ServedIsRunning
        /\ LockIsExclusive
=============================================================================
