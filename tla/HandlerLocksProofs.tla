------------------------- MODULE HandlerLocksProofs -------------------------
(***************************************************************************)
(* The one way in which the locks of the server deadlock, for any number of   *)
(* handlers and documents and whatever arrives: an edit of a document in the   *)
(* serving task, while another handler of that task holds a lock.  The         *)
(* argument is in LInv: a scope that has the workspace lock ends next, and     *)
(* one that has a document's guard is at the workspace lock or past it, so     *)
(* that everybody else waits for somebody further on.                         *)
(***************************************************************************)
EXTENDS HandlerLocks, SequenceTheorems, TLAPS

Ops == {"read", "write", "guard", "edit", "release"}
-----------------------------------------------------------------------------
(* What is left of a program after a step.                                   *)
LEMMA RestOfProgram ==
  ASSUME NEW S, NEW r \in Seq(S), r # <<>>
  PROVE  /\ Tail(r) \in Seq(S) /\ Head(r) \in S
         /\ Len(r) \in Nat /\ Len(r) > 0 /\ Len(Tail(r)) = Len(r) - 1
         /\ Head(r) = r[1]
         /\ \A i \in 1..Len(Tail(r)) : Tail(r)[i] = r[i + 1]
BY HeadTailProperties, EmptySeq

(* A well-formed program stays so, and its next operation is what its form     *)
(* says.                                                                    *)
LEMMA RestIsWellFormed ==
  ASSUME NEW r \in Seq(Ops), r # <<>>, WellFormed(r)
  PROVE  /\ WellFormed(Tail(r))
         /\ Tail(r) # <<>> => Head(Tail(r)) # "edit"
         /\ Head(r) \in {"read", "write"} =>
               Tail(r) # <<>> /\ Head(Tail(r)) = "release"
         /\ Head(r) = "guard" => Tail(r) # <<>> /\ Head(Tail(r)) = "read"
<1> DEFINE t == Tail(r)
<1>1. /\ t \in Seq(Ops) /\ Len(r) \in Nat /\ Len(r) > 0 /\ Len(t) = Len(r) - 1
      /\ Head(r) = r[1]
      /\ \A i \in 1..Len(t) : t[i] = r[i + 1]
  BY RestOfProgram
<1> HIDE DEF t
<1>2. t # <<>> <=> Len(r) > 1
  <2>1. t # <<>> => Len(t) \in Nat \ {0}
    BY <1>1, EmptySeq
  <2>2. t = <<>> => Len(t) = 0
    BY EmptySeq
  <2> QED
    BY <1>1, <2>1, <2>2
<1>3. t # <<>> => Head(t) = r[2]
  BY <1>1, <1>2
<1>4. WellFormed(t)
  <2> SUFFICES ASSUME NEW i \in 1..Len(t)
               PROVE  /\ t[i] \in {"read", "write"} =>
                            i < Len(t) /\ t[i + 1] = "release"
                      /\ t[i] = "guard" => i < Len(t) /\ t[i + 1] = "read"
                      /\ t[i] = "edit" => i = 1
    BY DEF WellFormed
  <2>1. i + 1 \in 1..Len(r) /\ t[i] = r[i + 1]
    BY <1>1
  <2>2. /\ r[i + 1] \in {"read", "write"} =>
              i + 1 < Len(r) /\ r[i + 2] = "release"
        /\ r[i + 1] = "guard" => i + 1 < Len(r) /\ r[i + 2] = "read"
        /\ r[i + 1] # "edit"
    BY <2>1 DEF WellFormed
  <2>3. i + 1 < Len(r) => i + 1 \in 1..Len(t) /\ t[i + 1] = r[i + 2]
    BY <1>1
  <2> QED
    BY <1>1, <2>1, <2>2, <2>3
<1>5. t # <<>> => Head(t) # "edit"
  BY <1>1, <1>2, <1>3 DEF WellFormed
<1>6. 1 \in 1..Len(r)
  BY <1>1
<1>7. /\ r[1] \in {"read", "write"} => 1 < Len(r) /\ r[2] = "release"
      /\ r[1] = "guard" => 1 < Len(r) /\ r[2] = "read"
  BY <1>6 DEF WellFormed
<1>8. /\ Head(r) \in {"read", "write"} => t # <<>> /\ Head(t) = "release"
      /\ Head(r) = "guard" => t # <<>> /\ Head(t) = "read"
  BY <1>1, <1>2, <1>3, <1>7
<1> QED
  BY <1>4, <1>5, <1>8 DEF t

(* Scopes one after another are well-formed if the later one does not edit.   *)
LEMMA ScopesInTurn ==
  ASSUME NEW r \in Seq(Ops), NEW t \in Seq(Ops), r # <<>>, t # <<>>,
         WellFormed(r), WellFormed(t), Head(t) # "edit"
  PROVE  /\ r \o t \in Seq(Ops) /\ r \o t # <<>>
         /\ WellFormed(r \o t) /\ Head(r \o t) = Head(r)
<1> DEFINE n == Len(r)
           u == r \o t
<1>1. /\ n \in Nat /\ n > 0 /\ Len(t) \in Nat /\ Len(t) > 0
      /\ Head(r) = r[1] /\ Head(t) = t[1]
  BY RestOfProgram
<1>2. /\ u \in Seq(Ops) /\ Len(u) = n + Len(t)
      /\ \A i \in 1..(n + Len(t)) : u[i] = IF i <= n THEN r[i] ELSE t[i - n]
  BY ConcatProperties
<1>3. u # <<>> /\ Head(u) = r[1]
  BY <1>1, <1>2
<1> HIDE DEF u
<1>4. ASSUME NEW i \in 1..Len(u)
      PROVE  /\ u[i] \in {"read", "write"} => i < Len(u) /\ u[i + 1] = "release"
             /\ u[i] = "guard" => i < Len(u) /\ u[i + 1] = "read"
             /\ u[i] = "edit" => i = 1
  <2>1. CASE i <= n
    <3>1. i \in 1..n /\ u[i] = r[i] /\ (i < n => u[i + 1] = r[i + 1])
      BY <1>1, <1>2, <2>1
    <3> QED
      BY <1>1, <1>2, <3>1 DEF WellFormed
  <2>2. CASE i > n
    <3>1. /\ i - n \in 1..Len(t) /\ u[i] = t[i - n]
          /\ i - n < Len(t) => i < Len(u) /\ u[i + 1] = t[(i - n) + 1]
      BY <1>1, <1>2, <2>2
    <3>2. i - n = 1 => u[i] # "edit"
      BY <1>1, <3>1
    <3>3. t[i - n] # "edit"
      BY <3>1, <3>2 DEF WellFormed
    <3> QED
      BY <3>1, <3>3 DEF WellFormed
  <2> QED
    BY <1>1, <1>2, <2>1, <2>2
<1>5. WellFormed(u)
  BY <1>4 DEF WellFormed
<1> QED
  BY <1>1, <1>2, <1>3, <1>5 DEF u

(* The requests and the work of the workers have this form.                   *)
LEMMA ProgramsHaveTheForm ==
  /\ \A r \in Programs : r \in Seq(Ops) /\ r # <<>> /\ WellFormed(r)
  /\ \A r \in {ReloadWorkspace, RefreshQueryDocuments} :
        r \in Seq(Ops) /\ r # <<>> /\ WellFormed(r) /\ Head(r) # "edit"
<1> DEFINE Scope(r) == r \in Seq(Ops) /\ r # <<>> /\ WellFormed(r)
           Swap == <<"read", "release", "write", "release">>
           Rounds == <<"read", "release", "write", "release", "read", "release">>
<1>1. Scope(Query) /\ Head(Query) = "guard"
  BY DEF Query, Ops, WellFormed
<1>2. Scope(Search) /\ Head(Search) = "read"
  BY DEF Search, Ops, WellFormed
<1>3. Scope(<<"edit">>)
  BY DEF Ops, WellFormed
<1>4. Scope(<<"write", "release">>)
  BY DEF Ops, WellFormed
<1>5. Scope(Swap) /\ Head(Swap) = "read"
  BY DEF Ops, WellFormed
<1>6. Scope(Rounds) /\ Head(Rounds) = "read"
  BY DEF Ops, WellFormed
<1> HIDE DEF Swap, Rounds
<1>7. Scope(DidChange)
  BY <1>1, <1>3, ScopesInTurn DEF DidChange
<1>8. Scope(RefreshQueryDocuments) /\ Head(RefreshQueryDocuments) = "read"
  BY <1>2, <1>5, ScopesInTurn DEF RefreshQueryDocuments, Swap
<1>9. Scope(Rounds \o Query) /\ Head(Rounds \o Query) = "read"
  BY <1>1, <1>6, ScopesInTurn
<1>10. Scope(ReloadWorkspace) /\ Head(ReloadWorkspace) = "read"
  BY <1>2, <1>9, ScopesInTurn DEF ReloadWorkspace, Rounds
<1>11. \A r \in Programs : Scope(r)
  BY <1>1, <1>2, <1>3, <1>4, <1>7
     DEF Programs, DidClose, DidChangeWorkspaceFolders
<1> QED
  BY <1>8, <1>10, <1>11
-----------------------------------------------------------------------------
(* Neither a worker nor a slot is taken for None, nor one for the other.       *)
LEMMA Names ==
  /\ Procs = Handlers \cup Workers
  /\ Handlers \cap Workers = {}
  /\ None \notin Procs
BY LockAssumption DEF Procs

(* At the start nobody has anything to do.                                   *)
LEMMA InitLocks == Init => LInv
<1> SUFFICES ASSUME Init PROVE LInv
  OBVIOUS
<1>1. \A p \in Procs : program[p] = <<>>
  BY DEF Init
<1>2. TypeOK /\ \A p \in Procs : WellFormed(program[p])
  BY <1>1 DEF Init, TypeOK, WellFormed
<1>3. /\ Workers \subseteq Procs /\ Handlers \subseteq Procs
      /\ \A p \in Procs : writer # p
  BY Names DEF Init
<1>4. \A p \in Procs : ~Running(p)
  BY <1>1 DEF Running
<1>5. Len(queue) = 0
  BY DEF Init
<1> QED
  BY <1>2, <1>3, <1>4, <1>5
     DEF Init, LInv, ProgramsAreWellFormed, HoldersReleaseNext,
         GuardsAreKeptToTheRelease, QueuedAwaitTheLock, ServedIsRunning,
         LockIsExclusive, At

(* Those who hold or await a lock have work left.                            *)
LEMMA IdleHoldNothing ==
  ASSUME LInv, NEW p \in Procs, ~Running(p)
  PROVE  /\ p \notin readers /\ writer # p /\ ~Awaiting(p)
         /\ \A d \in Docs : p \notin guards[d]
<1> USE DEF LInv
<1>1. p \notin readers /\ writer # p
  BY DEF HoldersReleaseNext, At
<1>2. \A d \in Docs : p \notin guards[d]
  BY DEF GuardsAreKeptToTheRelease, At
<1>3. ~Awaiting(p)
  <2>1. queue \in Seq(Procs) /\ DOMAIN queue = 1..Len(queue)
    BY LenProperties DEF TypeOK
  <2> QED
    BY <2>1 DEF QueuedAwaitTheLock, Awaiting, ToSet, At
<1> QED
  BY <1>1, <1>2, <1>3

(* A message or a wake-up for somebody who has nothing to do.                 *)
LEMMA Started ==
  ASSUME LInv, NEW p \in Procs, ~Running(p), serving # p,
         NEW r \in Seq(Ops), WellFormed(r), p \in Workers => Head(r) # "edit",
         program' = [program EXCEPT ![p] = r],
         doc' \in [Handlers -> Docs],
         UNCHANGED <<guards, readers, writer, queue, serving>>
  PROVE  LInv'
<1> USE DEF LInv
<1>1. /\ program' \in [Procs -> Seq(Ops)] /\ program'[p] = r
      /\ \A q \in Procs : q # p => program'[q] = program[q]
  BY DEF TypeOK, Ops
<1>2. TypeOK'
  BY <1>1 DEF TypeOK, Ops
<1>3. ProgramsAreWellFormed'
  BY <1>1, Names DEF ProgramsAreWellFormed, At, Running
<1>4. HoldersReleaseNext'
  BY <1>1, IdleHoldNothing DEF HoldersReleaseNext, At, Running
<1>5. GuardsAreKeptToTheRelease'
  <2> SUFFICES ASSUME NEW d \in Docs, NEW q \in guards[d]
               PROVE  At(q, "read")' \/ At(q, "release")'
    BY DEF GuardsAreKeptToTheRelease
  <2>1. q \in Procs /\ q # p
    BY IdleHoldNothing DEF TypeOK
  <2> QED
    BY <1>1, <2>1 DEF GuardsAreKeptToTheRelease, At, Running
<1>6. QueuedAwaitTheLock'
  <2>1. \A i \in 1..Len(queue) : queue[i] \in Procs /\ queue[i] # p
    BY IdleHoldNothing DEF TypeOK, Awaiting, ToSet
  <2> QED
    BY <1>1, <2>1 DEF QueuedAwaitTheLock, At, Running
<1>7. ServedIsRunning'
  BY <1>1, Names DEF ServedIsRunning, TypeOK, Running, Awaiting
<1>8. LockIsExclusive'
  BY DEF LockIsExclusive
<1> QED
  BY <1>2, <1>3, <1>4, <1>5, <1>6, <1>7, <1>8

(* The program counter of a step: what is left is well-formed, and the others  *)
(* are where they were.                                                      *)
LEMMA Advanced ==
  ASSUME LInv, NEW p \in Procs, Running(p), Advance(p)
  PROVE  /\ program' \in [Procs -> Seq(Ops)]
         /\ \A q \in Procs : q # p => program'[q] = program[q]
         /\ ProgramsAreWellFormed'
         /\ ~At(p, "edit")'
         /\ At(p, "read") \/ At(p, "write") => At(p, "release")'
         /\ At(p, "guard") => At(p, "read")'
<1> USE DEF LInv
<1>1. program[p] \in Seq(Ops) /\ program[p] # <<>> /\ WellFormed(program[p])
  BY DEF TypeOK, Ops, ProgramsAreWellFormed, Running
<1>2. Tail(program[p]) \in Seq(Ops)
  BY <1>1, RestOfProgram
<1>3. /\ program' \in [Procs -> Seq(Ops)] /\ program'[p] = Tail(program[p])
      /\ \A q \in Procs : q # p => program'[q] = program[q]
  BY <1>2 DEF Advance, TypeOK, Ops
<1>4. /\ WellFormed(program'[p])
      /\ ~At(p, "edit")'
      /\ At(p, "read") \/ At(p, "write") => At(p, "release")'
      /\ At(p, "guard") => At(p, "read")'
  BY <1>1, <1>3, RestIsWellFormed DEF At, Running
<1>5. \A q \in Procs : WellFormed(program'[q])
  BY <1>3, <1>4 DEF ProgramsAreWellFormed
<1>6. ASSUME NEW w \in Workers PROVE ~At(w, "edit")'
  BY <1>3, <1>4, Names DEF ProgramsAreWellFormed, At, Running
<1>7. ProgramsAreWellFormed'
  BY <1>5, <1>6 DEF ProgramsAreWellFormed
<1> QED
  BY <1>3, <1>4, <1>7
(* What a step leaves to show, once the locks it takes or gives up are known:  *)
(* nobody holds p's place in the queue, and the others hold what they held.    *)
LEMMA Stepped ==
  ASSUME LInv, NEW p \in Procs, Running(p), Advance(p),
         UNCHANGED doc,
         guards' \in [Docs -> SUBSET Procs],
         \A d \in Docs : \A q \in guards'[d] : q \in guards[d] \/ q = p,
         \A d \in Docs : p \in guards'[d] => (At(p, "read") \/ At(p, "release"))',
         readers' \subseteq readers \cup {p},
         writer' \in {writer, p, None},
         p \in readers' \/ writer' = p => At(p, "release")',
         writer' # None => readers' = {},
         queue' \in Seq(Procs),
         \A i \in 1..Len(queue') : queue'[i] # p /\ Awaiting(queue'[i]),
         \A i, j \in 1..Len(queue') : queue'[i] = queue'[j] => i = j,
         serving' \in {serving, None},
         serving' = p => Running(p)'
  PROVE  LInv'
<1> USE DEF LInv
<1>1. /\ program' \in [Procs -> Seq(Ops)]
      /\ \A q \in Procs : q # p => program'[q] = program[q]
      /\ ProgramsAreWellFormed'
  BY Advanced
<1>2. TypeOK'
  BY <1>1 DEF TypeOK, Ops
<1>3. HoldersReleaseNext'
  BY <1>1, Names DEF HoldersReleaseNext, At, Running, TypeOK
<1>4. GuardsAreKeptToTheRelease'
  <2> SUFFICES ASSUME NEW d \in Docs, NEW q \in guards'[d]
               PROVE  (At(q, "read") \/ At(q, "release"))'
    BY DEF GuardsAreKeptToTheRelease
  <2>1. CASE q = p
    BY <2>1
  <2>2. CASE q # p
    <3>1. q \in guards[d] /\ q \in Procs
      BY <2>2 DEF TypeOK
    <3> QED
      BY <1>1, <2>2, <3>1 DEF GuardsAreKeptToTheRelease, At, Running
  <2> QED
    BY <2>1, <2>2
<1>5. QueuedAwaitTheLock'
  <2> SUFFICES ASSUME NEW i \in 1..Len(queue')
               PROVE  (At(queue[i], "read") \/ At(queue[i], "write"))'
    BY DEF QueuedAwaitTheLock
  <2>0. DOMAIN queue = 1..Len(queue) /\ queue'[i] # p
    BY LenProperties DEF TypeOK
  <2>1. PICK j \in 1..Len(queue) : queue[j] = queue'[i]
    <3>1. queue'[i] \in {queue[j] : j \in DOMAIN queue}
      BY DEF Awaiting, ToSet
    <3> QED
      BY <2>0, <3>1
  <2>2. queue'[i] \in Procs /\ program'[queue'[i]] = program[queue'[i]]
    BY <1>1, <2>0
  <2> QED
    BY <1>1, <2>1, <2>2 DEF QueuedAwaitTheLock, At, Running
<1>6. ServedIsRunning'
  <2> SUFFICES ASSUME serving' # None
               PROVE  (Running(serving) /\ ~Awaiting(serving))'
    BY DEF ServedIsRunning
  <2>1. serving' = serving /\ serving \in Procs
    BY Names DEF TypeOK
  <2>2. Running(serving)'
    BY <1>1, <2>1 DEF ServedIsRunning, Running
  <2>3. ~Awaiting(serving)'
    BY <2>1, LenProperties DEF ServedIsRunning, Awaiting, ToSet
  <2> QED
    BY <2>2, <2>3
<1>7. LockIsExclusive'
  BY DEF LockIsExclusive
<1> QED
  BY <1>1, <1>2, <1>3, <1>4, <1>5, <1>6, <1>7

(* documents.get: what follows is the workspace lock.                         *)
LEMMA GuardStep ==
  ASSUME LInv, NEW p \in Procs, Guard(p)
  PROVE  LInv'
<1> USE DEF LInv, Guard
<1>1. At(p, "guard") /\ Running(p) /\ Advance(p)
  BY DEF At
<1>2. At(p, "read")'
  BY <1>1, Advanced
<1>3. PICK d \in Docs : guards' = [guards EXCEPT ![d] = @ \cup {p}]
  OBVIOUS
<1>4. p \notin readers /\ writer # p
  BY <1>1 DEF HoldersReleaseNext, At
<1>5. \A i \in 1..Len(queue) : queue[i] # p /\ Awaiting(queue[i])
  BY <1>1, LenProperties DEF QueuedAwaitTheLock, At, Awaiting, ToSet, TypeOK
<1>6. Running(p)'
  BY <1>2 DEF At
<1> QED
  BY <1>1, <1>2, <1>3, <1>4, <1>5, <1>6, Stepped, ZenonT(30)
     DEF TypeOK, LockIsExclusive, QueuedAwaitTheLock

(* documents.get_mut, insert and remove: no lock is held before or after.      *)
LEMMA EditStep ==
  ASSUME LInv, NEW p \in Procs, Edit(p)
  PROVE  LInv'
<1> USE DEF LInv, Edit
<1>1. At(p, "edit") /\ Running(p) /\ Advance(p) /\ p \in Handlers
  BY Names DEF At, ProgramsAreWellFormed
<1>2. /\ p \notin readers /\ writer # p
      /\ \A d \in Docs : p \notin guards[d]
  BY <1>1 DEF HoldersReleaseNext, GuardsAreKeptToTheRelease, At
<1>3. \A i \in 1..Len(queue) : queue[i] # p /\ Awaiting(queue[i])
  BY <1>1, LenProperties DEF QueuedAwaitTheLock, At, Awaiting, ToSet, TypeOK
<1>4. /\ serving' \in {serving, None}
      /\ serving' = p => Running(p)'
  BY <1>1, Names DEF EndPollIfDone, Running
<1> QED
  BY <1>1, <1>2, <1>3, <1>4, Stepped
     DEF TypeOK, LockIsExclusive, QueuedAwaitTheLock

(* The end of a scope gives up everything it held.                            *)
LEMMA ReleaseStep ==
  ASSUME LInv, NEW p \in Procs, Release(p)
  PROVE  LInv'
<1> USE DEF LInv, Release
<1>1. At(p, "release") /\ Running(p) /\ Advance(p)
  BY DEF At
<1>2. /\ guards' \in [Docs -> SUBSET Procs]
      /\ \A d \in Docs : p \notin guards'[d] /\ guards'[d] \subseteq guards[d]
  BY DEF TypeOK
<1>3. \A i \in 1..Len(queue) : queue[i] # p /\ Awaiting(queue[i])
  BY <1>1, LenProperties DEF QueuedAwaitTheLock, At, Awaiting, ToSet, TypeOK
<1>4. serving' \in {serving, None}
  BY DEF EndPollIfDone
<1>5. serving' = p => Running(p)'
  BY Names DEF EndPollIfDone, Running, TypeOK
<1>6. writer' # p /\ p \notin readers'
  BY Names
<1> QED
  BY <1>1, <1>2, <1>3, <1>4, <1>5, <1>6, Stepped
     DEF TypeOK, LockIsExclusive, QueuedAwaitTheLock
(* A grant makes a reader of one that awaits to read, or the only holder of one *)
(* that awaits to write.                                                    *)
LEMMA GrantedLocks ==
  ASSUME LInv, NEW p \in Procs, At(p, "read") \/ At(p, "write"),
         Grantable(p), Grant(p)
  PROVE  /\ Running(p) /\ Advance(p)
         /\ readers' \subseteq readers \cup {p} /\ writer' \in {writer, p, None}
         /\ At(p, "release")' /\ Running(p)'
         /\ writer' # None => readers' = {}
<1>1. Running(p) /\ Advance(p)
  BY DEF At, Grant
<1>2. At(p, "release")' /\ Running(p)'
  BY <1>1, Advanced DEF At
<1>3. At(p, "read") => ~At(p, "write")
  BY DEF At
<1> QED
  BY <1>1, <1>2, <1>3 DEF Grant, Grantable

(* workspace.read().await and workspace.write().await: a caller that is not    *)
(* granted the lock joins the queue, once.                                   *)
LEMMA AwaitStep ==
  ASSUME LInv, NEW p \in Procs, Await(p)
  PROVE  LInv'
<1> USE DEF LInv, Await
<1>0. DOMAIN queue = 1..Len(queue) /\ Len(queue) \in Nat
  BY LenProperties DEF TypeOK
<1>1. CASE queue = <<>> /\ Grantable(p)
  <2>1. queue' = queue /\ serving' = serving /\ Grant(p) /\ Len(queue) = 0
    BY <1>1
  <2>2. \A d \in Docs : p \in guards[d] => At(p, "release")'
    BY <1>1, GrantedLocks
  <2> QED
    BY <1>1, <2>1, <2>2, GrantedLocks, Stepped DEF TypeOK
<1>2. CASE ~(queue = <<>> /\ Grantable(p))
  <2>1. /\ queue' = Append(queue, p)
        /\ serving' = IF p \in Handlers THEN None ELSE serving
        /\ UNCHANGED <<program, doc, guards, readers, writer>>
    BY <1>2
  <2>2. /\ queue' \in Seq(Procs) /\ Len(queue') = Len(queue) + 1
        /\ \A i \in 1..Len(queue) : queue'[i] = queue[i]
        /\ queue'[Len(queue) + 1] = p
    BY <2>1, AppendProperties DEF TypeOK
  <2>3. \A i \in 1..Len(queue) : queue[i] # p
    BY <1>0 DEF Awaiting, ToSet
  <2>4. TypeOK'
    BY <2>1, <2>2 DEF TypeOK
  <2>5. QueuedAwaitTheLock'
    <3>1. ASSUME NEW i \in 1..Len(queue')
          PROVE  (At(queue[i], "read") \/ At(queue[i], "write"))'
      <4>1. CASE i = Len(queue) + 1
        BY <2>1, <2>2, <4>1 DEF At, Running
      <4>2. CASE i \in 1..Len(queue)
        BY <2>1, <2>2, <4>2 DEF QueuedAwaitTheLock, At, Running
      <4> QED
        BY <1>0, <2>2, <4>1, <4>2
    <3>2. ASSUME NEW i \in 1..Len(queue'), NEW j \in 1..Len(queue'),
                 queue'[i] = queue'[j]
          PROVE  i = j
      BY <1>0, <2>2, <2>3, <3>2 DEF QueuedAwaitTheLock
    <3> QED
      BY <3>1, <3>2 DEF QueuedAwaitTheLock
  <2>6. ServedIsRunning'
    <3> SUFFICES ASSUME serving' # None
                 PROVE  (Running(serving) /\ ~Awaiting(serving))'
      BY DEF ServedIsRunning
    <3>1. serving' = serving /\ serving \in Handlers /\ p \notin Handlers
      BY <2>1 DEF TypeOK
    <3>2. DOMAIN queue' = 1..Len(queue')
      BY <2>2, LenProperties
    <3>3. \A i \in 1..Len(queue) : queue[i] # serving
      BY <1>0, <3>1, Names DEF ServedIsRunning, Awaiting, ToSet
    <3>4. \A i \in 1..Len(queue') : queue'[i] # serving
      BY <1>0, <2>2, <3>1, <3>3
    <3>5. ~Awaiting(serving)'
      BY <3>1, <3>2, <3>4 DEF Awaiting, ToSet
    <3> QED
      BY <2>1, <3>1, <3>5, Names DEF ServedIsRunning, Running
  <2> QED
    BY <2>1, <2>4, <2>5, <2>6
       DEF ProgramsAreWellFormed, HoldersReleaseNext, LockIsExclusive,
           GuardsAreKeptToTheRelease, At, Running
<1> QED
  BY <1>1, <1>2

(* The first waiter is granted the lock and leaves the queue.                 *)
LEMMA GrantFirstStep == LInv /\ GrantFirst => LInv'
<1> SUFFICES ASSUME LInv, GrantFirst PROVE LInv'
  OBVIOUS
<1> USE DEF LInv, GrantFirst
<1>0. PICK p \in Procs : p = Head(queue)
  BY RestOfProgram DEF TypeOK
<1>1. /\ queue \in Seq(Procs) /\ queue # <<>>
      /\ Len(queue) \in Nat /\ Len(queue) > 0
      /\ DOMAIN queue = 1..Len(queue) /\ p = queue[1]
      /\ queue' \in Seq(Procs) /\ Len(queue') = Len(queue) - 1
      /\ \A i \in 1..Len(queue') : queue'[i] = queue[i + 1]
  BY <1>0, LenProperties, RestOfProgram DEF TypeOK
<1>2. Grantable(p) /\ Grant(p) /\ UNCHANGED <<doc, guards, serving>>
  BY <1>0
<1>3. p \in Procs /\ (At(p, "read") \/ At(p, "write"))
  BY <1>1 DEF QueuedAwaitTheLock
<1>4. \A i \in 1..Len(queue') : queue'[i] # p /\ Awaiting(queue'[i])
  BY <1>1 DEF QueuedAwaitTheLock, Awaiting, ToSet
<1>5. \A i, j \in 1..Len(queue') : queue'[i] = queue'[j] => i = j
  BY <1>1 DEF QueuedAwaitTheLock
<1>6. \A d \in Docs : p \in guards[d] => At(p, "release")'
  BY <1>2, <1>3, GrantedLocks
<1> QED
  BY <1>1, <1>2, <1>3, <1>4, <1>5, <1>6, GrantedLocks, Stepped DEF TypeOK

(* A message that arrives, a handler that is polled and a worker that wakes.   *)
LEMMA ArriveStep ==
  ASSUME LInv, NEW h \in Handlers, Arrive(h)
  PROVE  LInv'
<1>1. PICK r \in Requests : program' = [program EXCEPT ![h] = r]
  BY DEF Arrive
<1>2. r \in Seq(Ops) /\ WellFormed(r)
  BY LockAssumption, ProgramsHaveTheForm
<1>3. doc' \in [Handlers -> Docs]
  BY DEF Arrive, LInv, TypeOK
<1> QED
  BY <1>1, <1>2, <1>3, Names, Started DEF Arrive

LEMMA PollStep ==
  ASSUME LInv, NEW h \in Handlers, Poll(h)
  PROVE  LInv'
BY Names DEF Poll, LInv, TypeOK, ProgramsAreWellFormed, HoldersReleaseNext,
             GuardsAreKeptToTheRelease, QueuedAwaitTheLock, ServedIsRunning,
             LockIsExclusive, At, Running, Awaiting

LEMMA WakeStep ==
  ASSUME LInv, NEW w \in Workers, Wake(w)
  PROVE  LInv'
<1>1. PICK r \in {ReloadWorkspace, RefreshQueryDocuments} :
         program' = [program EXCEPT ![w] = r]
  BY DEF Wake
<1>2. w \in Procs /\ serving # w /\ doc' \in [Handlers -> Docs]
  BY Names DEF Wake, LInv, TypeOK
<1> QED
  BY <1>1, <1>2, ProgramsHaveTheForm, Started DEF Wake

(* Hence LInv is an invariant, for any handlers, documents and requests.      *)
LEMMA LocksStep == LInv /\ [Next]_vars => LInv'
<1>1. LInv /\ UNCHANGED vars => LInv'
  BY DEF vars, LInv, TypeOK, ProgramsAreWellFormed, HoldersReleaseNext,
         GuardsAreKeptToTheRelease, QueuedAwaitTheLock, ServedIsRunning,
         LockIsExclusive, At, Running, Awaiting
<1> QED
  BY <1>1, GuardStep, EditStep, AwaitStep, ReleaseStep, GrantFirstStep,
     ArriveStep, PollStep, WakeStep DEF Next, Step

LEMMA LInvInvariant == Spec => []LInv
<1> QED
  BY InitLocks, LocksStep, PTL DEF Spec
(* Every variable keeps its type, whatever arrives.                           *)
THEOREM TypeCorrect == Spec => []TypeOK
<1>1. LInv => TypeOK
  BY DEF LInv
<1> QED
  BY <1>1, LInvInvariant, PTL

(* No handler and no worker awaits the workspace lock while it holds it, and   *)
(* a writer holds it alone.                                                  *)
THEOREM HoldersNeverAwait == Spec => [](HoldersReleaseNext /\ LockIsExclusive)
<1>1. LInv => HoldersReleaseNext /\ LockIsExclusive
  BY DEF LInv
<1> QED
  BY <1>1, LInvInvariant, PTL
-----------------------------------------------------------------------------
(* When nobody can go on.                                                   *)
Stuck == /\ LInv
         /\ \E p \in Procs : Running(p)
         /\ ~(queue # <<>> /\ Grantable(Head(queue)))
         /\ \A p \in Procs : ~CanGoOn(p)

(* Only those at the workspace lock are in its queue.                        *)
LEMMA QueuedAreAtTheLock ==
  ASSUME LInv, NEW p \in Procs, Awaiting(p)
  PROVE  (At(p, "read") \/ At(p, "write")) /\ queue # <<>>
<1>1. DOMAIN queue = 1..Len(queue)
  BY LenProperties DEF LInv, TypeOK
<1>2. PICK i \in 1..Len(queue) : queue[i] = p
  BY <1>1 DEF Awaiting, ToSet
<1> QED
  BY <1>1, <1>2 DEF LInv, QueuedAwaitTheLock

(* Then every worker awaits the lock, and of the handlers only the one that    *)
(* is polled may not.                                                       *)
LEMMA StuckAwaitTheLock ==
  ASSUME Stuck, NEW p \in Procs, Running(p), ~Awaiting(p)
  PROVE  /\ p \in Handlers /\ serving \in Handlers
         /\ serving # None /\ At(serving, "edit")
         /\ guards[doc[serving]] # {}
<1> USE DEF Stuck, LInv
<1>1. p \in Handlers
  BY Names DEF CanGoOn, MayRun, ProgramsAreWellFormed
<1>2. serving # None
  BY <1>1 DEF CanGoOn
<1>3. serving \in Handlers /\ Running(serving) /\ ~Awaiting(serving)
  BY <1>2 DEF TypeOK, ServedIsRunning
<1>4. At(serving, "edit") /\ guards[doc[serving]] # {}
  BY <1>3, Names DEF CanGoOn, MayRun
<1> QED
  BY <1>1, <1>2, <1>3, <1>4

(* If somebody awaits the lock, somebody else has it, whose scope ends next:   *)
(* a handler that is not the one polled.                                     *)
LEMMA StuckForAHolder ==
  ASSUME Stuck, queue # <<>>
  PROVE  /\ serving # None /\ At(serving, "edit")
         /\ guards[doc[serving]] # {}
         /\ \E h \in Handlers \ {serving} : Holds(h)
<1> USE DEF Stuck, LInv
<1>1. PICK p \in Procs : p \in readers \/ writer = p
  BY DEF Grantable, TypeOK
<1>2. At(p, "release") /\ Running(p)
  BY <1>1 DEF HoldersReleaseNext, At
<1>3. ~Awaiting(p)
  BY <1>2, QueuedAreAtTheLock DEF At
<1>4. /\ serving # None /\ At(serving, "edit") /\ guards[doc[serving]] # {}
  BY <1>2, <1>3, StuckAwaitTheLock
<1>5. p # serving /\ p \in Handlers
  BY <1>2, <1>3, <1>4, Names DEF At, CanGoOn, MayRun
<1> QED
  BY <1>1, <1>4, <1>5 DEF Holds

LEMMA StuckServingBlocksItself == Stuck => ServingBlocksItself
<1> SUFFICES ASSUME Stuck PROVE ServingBlocksItself
  OBVIOUS
<1> USE DEF Stuck, LInv
<1>1. CASE queue # <<>>
  BY <1>1, StuckForAHolder DEF ServingBlocksItself
<1>2. CASE queue = <<>>
  <2>1. \A p \in Procs : ~Awaiting(p)
    BY <1>2, QueuedAreAtTheLock
  <2>2. /\ serving # None /\ At(serving, "edit") /\ guards[doc[serving]] # {}
        /\ serving \in Handlers
    BY <2>1, StuckAwaitTheLock DEF TypeOK
  <2>3. PICK r \in guards[doc[serving]] : TRUE
    BY <2>2
  <2>4. doc[serving] \in Docs /\ r \in Procs
    BY <2>2, <2>3 DEF TypeOK
  <2>5. Running(r) /\ ~At(r, "edit")
    BY <2>3, <2>4 DEF GuardsAreKeptToTheRelease, At
  <2>6. r \in Handlers /\ r # serving
    BY <2>1, <2>2, <2>4, <2>5, Names DEF CanGoOn, MayRun
  <2> QED
    BY <2>2, <2>3, <2>4, <2>6 DEF ServingBlocksItself, Holds
<1> QED
  BY <1>1, <1>2

(* Whatever arrives, in whichever order: if somebody has work left and nobody  *)
(* can go on, then the serving task's thread is blocked in an edit of a        *)
(* document, and another handler of the same task holds a lock across its      *)
(* await.  No other circle of waiting ever closes.                           *)
THEOREM OnlyEditsDeadlocks == Spec => []OnlyEditsDeadlock
<1>1. LInv => OnlyEditsDeadlock
  BY StuckServingBlocksItself DEF OnlyEditsDeadlock, NeverStuck, Stuck
<1> QED
  BY <1>1, LInvInvariant, PTL

(* Hence there is no deadlock as long as a document only changes while no      *)
(* other request is under way.                                              *)
THEOREM LocksNeverDeadlock == Spec => [](EditorsAreAlone => NeverStuck)
<1>1. ASSUME LInv, EditorsAreAlone, ServingBlocksItself PROVE FALSE
  <2> USE DEF LInv
  <2>1. PICK h \in Handlers \ {serving} : Holds(h)
    BY <1>1 DEF ServingBlocksItself
  <2>2. Running(h)
    BY <1>1, <2>1, Names
       DEF Holds, HoldersReleaseNext, GuardsAreKeptToTheRelease, At
  <2>3. serving \in Handlers /\ At(serving, "edit")
    BY <1>1 DEF ServingBlocksItself, TypeOK
  <2> QED
    BY <1>1, <2>1, <2>2, <2>3 DEF EditorsAreAlone
<1>2. LInv => (EditorsAreAlone => NeverStuck)
  BY <1>1, StuckServingBlocksItself DEF NeverStuck, Stuck
<1> QED
  BY <1>2, LInvInvariant, PTL
=============================================================================
