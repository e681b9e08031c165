---------------------------- MODULE CursorProofs ----------------------------
(***************************************************************************)
(* What is proved of the two requests at the cursor, rename and completion,  *)
(* which have no state in common.  Of Rename: that versioned edits are only  *)
(* applied to the text they were computed from, and that a rename, though    *)
(* reloads end between its steps, neither merges relations nor leaves        *)
(* references undefined unless a reload installs another definition of one   *)
(* of its own two names meanwhile, or the user types; for all names, bounds  *)
(* and surroundings.  Of Completion: that just what fits and all that is in  *)
(* scope is offered, in every document that is annotated with what SQL       *)
(* wants, of any length and with any schema.                                 *)
(***************************************************************************)
EXTENDS Rename, Completion, FiniteSetTheorems, SequenceTheorems,
        WellFoundedInduction, TLAPS

(* A text that was taken from the buffer is older than it or the same.       *)
Taken(text) ==
    /\ text.version <= buffer.version
    /\ text.version = buffer.version => text = buffer

(* The versions tell the texts apart: the document the server has, and the   *)
(* text an answer is about, which is stamped with its version.               *)
VersionsIdentifyTexts ==
    /\ Taken(document)
    /\ pc = "answered" => /\ Taken(answer.text)
                          /\ DocumentChanges => answer.version = answer.text.version

IInv == TypeOK /\ VersionsIdentifyTexts

(* Every step keeps the types (server.rs, rename).                           *)
LEMMA TypeStep ==
    ASSUME TypeOK, [Next]_vars
    PROVE  TypeOK'
<1> USE RenameAssumption DEF TypeOK
<1>1. ASSUME NEW r \in References, ChangeBuffer(r)
      PROVE  TypeOK'
  BY <1>1 DEF ChangeBuffer, handler, Texts
<1>2. ASSUME NEW D \in SUBSET Names, ChangeMigration(D)
      PROVE  TypeOK'
  BY <1>2 DEF ChangeMigration, handler, Migrations
<1>3. ASSUME NEW D \in SUBSET Names, ChangeDatabase(D)
      PROVE  TypeOK'
  BY <1>3 DEF ChangeDatabase, handler
<1>4. CASE DidChange
  BY <1>4 DEF DidChange, handler
<1>5. CASE Reload
  BY <1>5 DEF Reload, handler
<1>6. ASSUME NEW n \in Names, Ask(n)
      PROVE  TypeOK'
  BY <1>6 DEF Ask
<1>7. Target(document.at) \in Targets
  BY DEF Texts, References, Target, Targets, Origin
<1>8. CASE ResolveForRename
  BY <1>7, <1>8 DEF ResolveForRename, End
<1>9. CASE CheckCollision
  BY <1>9 DEF CheckCollision, End
<1>10. CASE ReferenceLocations
  <2>1. AnswerFor(Target(document.at), document.version) \in Answers
    BY <1>7 DEF AnswerFor, Answers, Texts
  <2>2. AnswerFor(Target(document.at), None) \in Answers
    BY <1>7 DEF AnswerFor, Answers, Texts
  <2>3. \/ answer' = answer /\ pc' = "idle" /\ newName' = None
        \/ /\ answer' \in {AnswerFor(Target(document.at), document.version),
                          AnswerFor(Target(document.at), None)}
           /\ pc' = "answered"
           /\ newName' = newName
    BY <1>10 DEF ReferenceLocations, End
  <2>4. pc = "locate" /\ resolved' \in {resolved, None}
    BY <1>10 DEF ReferenceLocations, End
  <2>5. UNCHANGED <<buffer, document, migration, database, loaded>>
    BY <1>10 DEF ReferenceLocations
  <2> QED
    BY <2>1, <2>2, <2>3, <2>4, <2>5
<1>11. CASE Refuse
  BY <1>11 DEF Refuse, End
<1>12. CASE Apply
  <2>1. /\ buffer' \in Texts
        /\ migration' \in Migrations
    BY <1>12 DEF Apply, Texts, Migrations, References
  <2> QED
    BY <1>12, <2>1 DEF Apply, End
<1>13. CASE UNCHANGED vars
  BY <1>13 DEF vars, handler
<1> QED
  BY <1>1, <1>2, <1>3, <1>4, <1>5, <1>6, <1>8, <1>9, <1>10, <1>11, <1>12,
     <1>13 DEF Next

(* A text that was taken from the buffer stays one: versions only grow.      *)
LEMMA TakenStep ==
    ASSUME TypeOK, [Next]_vars, NEW text \in Texts, Taken(text)
    PROVE  Taken(text)'
<1> USE DEF TypeOK, Taken, Texts
<1>1. ASSUME NEW r \in References, ChangeBuffer(r)
      PROVE  Taken(text)'
  BY <1>1 DEF ChangeBuffer
<1>2. CASE Apply
  <2>1. buffer'.version = buffer.version + 1
    BY <1>2 DEF Apply
  <2> QED
    BY <2>1
<1>3. CASE UNCHANGED buffer
  BY <1>3
<1> QED
  BY <1>1, <1>2, <1>3
  DEF Next, ChangeMigration, ChangeDatabase, DidChange, Reload, Ask,
      ResolveForRename, CheckCollision, ReferenceLocations, Refuse, vars

(* Every step keeps the versions apart: an answer is stamped when its text   *)
(* is taken, with no await in between (server.rs, reference_locations).      *)
LEMMA VersionStep ==
    ASSUME IInv, [Next]_vars
    PROVE  VersionsIdentifyTexts'
<1> USE DEF IInv
<1>1. document \in Texts /\ buffer \in Texts /\ Taken(document) /\ Taken(buffer)
  BY DEF TypeOK, VersionsIdentifyTexts, Taken, Texts
<1>2. Taken(document)'
  <2>1. CASE DidChange
    BY <1>1, <2>1 DEF DidChange, Taken, Texts
  <2>2. CASE UNCHANGED document
    <3>1. (Taken(document)') = (document.version <= buffer'.version
             /\ (document.version = buffer'.version => document = buffer'))
      BY <2>2 DEF Taken
    <3> QED
      BY <1>1, <3>1, TakenStep DEF Taken
  <2> QED
    BY <2>1, <2>2
    DEF Next, ChangeBuffer, ChangeMigration, ChangeDatabase, Reload, Ask,
        ResolveForRename, CheckCollision, ReferenceLocations, Refuse, Apply,
        vars
<1>3. ASSUME pc' = "answered"
      PROVE  /\ Taken(answer.text)'
             /\ DocumentChanges => answer'.version = answer'.text.version
  <2>1. CASE ReferenceLocations
    <3>1. /\ answer'.text = document
          /\ DocumentChanges => answer'.version = document.version
          /\ UNCHANGED <<buffer, document>>
      BY <1>3, <2>1 DEF ReferenceLocations, End, AnswerFor
    <3> QED
      BY <1>1, <3>1 DEF Taken
  <2>2. CASE pc = "answered" /\ UNCHANGED answer
    <3>1. answer.text \in Texts /\ Taken(answer.text)
      BY <2>2 DEF TypeOK, Answers, VersionsIdentifyTexts
    <3>2. PICK text \in Texts : text = answer.text
      BY <3>1
    <3>3. Taken(text)'
      BY <3>1, <3>2, TakenStep
    <3> QED
      BY <2>2, <3>2, <3>3 DEF VersionsIdentifyTexts, Taken
  <2> QED
    BY <1>3, <2>1, <2>2
    DEF Next, ChangeBuffer, ChangeMigration, ChangeDatabase, DidChange, Reload,
        Ask, ResolveForRename, CheckCollision, Refuse, Apply, End, handler, vars
<1> QED
  BY <1>2, <1>3 DEF VersionsIdentifyTexts

(* Edits that carry versions are only applied to the text they were computed *)
(* from (server.rs, rename: "Versioned document edits let the client refuse  *)
(* a rename computed against a buffer state it has since changed").          *)
THEOREM VersionedEditsFit ==
    ASSUME DocumentChanges
    PROVE  Spec => AppliedToTheTextSearched
<1>1. Init => IInv
  BY RenameAssumption
  DEF Init, IInv, TypeOK, VersionsIdentifyTexts, Taken, Texts, Migrations
<1>2. IInv /\ [Next]_vars => IInv'
  BY TypeStep, VersionStep DEF IInv
<1>3. IInv => [Apply => answer.text = buffer]_vars
  <2>1. ASSUME IInv, Apply
        PROVE  answer.text = buffer
    BY <2>1, RenameAssumption
    DEF IInv, TypeOK, VersionsIdentifyTexts, Taken, Answers, Texts, Apply, Outdated
  <2> QED
    BY <2>1
<1> QED
  BY <1>1, <1>2, <1>3, PTL DEF Spec, AppliedToTheTextSearched

(* The types of the client's, the server's and the handler's state.          *)
THEOREM TypeCorrect == Spec => []TypeOK
<1>1. Init => TypeOK
  BY RenameAssumption DEF Init, TypeOK, Texts, Migrations
<1> QED
  BY <1>1, TypeStep, PTL DEF Spec
-----------------------------------------------------------------------------
(* While a rename is worked on, the user does not type, and what the         *)
(* migrations define of its two names does not both change on disk and get   *)
(* reloaded.  Reloads may end between any two steps of the handler.          *)
Steady == /\ "change" \notin MidRename
          /\ ~({"migrate", "reload"} \subseteq MidRename)

(* The same of the database.                                                 *)
SteadyDatabase == ~({"database", "reload"} \subseteq MidRename)

Working == pc \in {"resolve", "collide", "locate"}

(* Then what the first two steps have found out in the migrations still holds *)
(* when the locations are collected, because a reload in between finds the   *)
(* same of the names.                                                        *)
Found ==
    /\ Working =>
         /\ document = buffer
         /\ "reload" \in MidRename =>
              AgreeFor(newName, loaded.migration.defines, migration.defines)
    /\ pc \in {"collide", "locate"} =>
         /\ resolved = Target(document.at)
         /\ resolved.origin \in {"migration", "query"}
    /\ pc = "locate" => \/ resolved.origin = "query"
                        \/ resolved.name = newName
                        \/ newName \notin loaded.migration.defines
    /\ pc = "answered" => answer.target.origin # "database"

(* And likewise what they have found out in the database.                    *)
FoundInDatabase ==
    /\ Working /\ "reload" \in MidRename =>
         AgreeFor(newName, loaded.database, database)
    /\ pc = "locate" => \/ resolved.origin = "query"
                        \/ resolved.name = newName
                        \/ newName \notin loaded.database

(* Where a rename that is worked on is, a step of the surroundings leaves it; *)
(* a step of the handler takes it on or ends it.                             *)
LEMMA WorkingStep ==
    ASSUME [Next]_vars, Working'
    PROVE  \/ pc = "idle" /\ pc' = "resolve" /\ Ask(newName')
           \/ pc = "resolve" /\ ResolveForRename
           \/ pc = "collide" /\ CheckCollision
           \/ /\ Working /\ UNCHANGED handler
              /\ \/ UNCHANGED <<buffer, document, migration, database, loaded>>
                 \/ DidChange
                 \/ \E r \in References : ChangeBuffer(r)
                 \/ \E D \in SUBSET Names : ChangeMigration(D) \/ ChangeDatabase(D)
                 \/ Reload
<1>1. CASE \E n \in Names : Ask(n)
  <2>1. PICK n \in Names : Ask(n)
    BY <1>1
  <2> QED
    BY <2>1 DEF Ask
<1>2. CASE ResolveForRename \/ CheckCollision
  BY <1>2 DEF ResolveForRename, CheckCollision
<1>3. CASE ReferenceLocations \/ Refuse \/ Apply
  BY <1>3 DEF ReferenceLocations, Refuse, Apply, End, Working
<1>4. CASE \/ DidChange \/ Reload \/ UNCHANGED vars
           \/ \E r \in References : ChangeBuffer(r)
           \/ \E D \in SUBSET Names : ChangeMigration(D) \/ ChangeDatabase(D)
  <2>1. UNCHANGED handler
    BY <1>4 DEF DidChange, Reload, ChangeBuffer, ChangeMigration,
                ChangeDatabase, vars, handler
  <2> QED
    BY <1>4, <2>1 DEF Working, handler, vars
<1> QED
  BY <1>1, <1>2, <1>3, <1>4 DEF Next

(* A reload finds of the names what was found before.                        *)
LEMMA ReloadAgrees ==
    ASSUME Steady, Found, Working, Reload
    PROVE  /\ "reload" \in MidRename
           /\ \A n \in {document.at.name, newName} :
                n \in loaded'.migration.defines <=> n \in loaded.migration.defines
           /\ Target(document.at).origin \in {"migration", "query"} =>
                Target(document.at)' = Target(document.at)
<1>1. "reload" \in MidRename /\ loaded'.migration = migration
      /\ UNCHANGED <<document, handler>>
  BY DEF Reload, MayHappen, Working
<1>2. \A n \in {document.at.name, newName} :
         n \in loaded'.migration.defines <=> n \in loaded.migration.defines
  BY <1>1 DEF Found, AgreeFor
<1> QED
  BY <1>1, <1>2 DEF Target, Origin

(* No step makes what a rename has found out in the migrations untrue.       *)
LEMMA FoundStep ==
    ASSUME Steady, Found, [Next]_vars
    PROVE  Found'
<1>1. ASSUME Working'
      PROVE  Found'
  <2>1. CASE pc = "idle" /\ pc' = "resolve" /\ Ask(newName')
    <3>1. /\ document' = buffer'
          /\ "reload" \in MidRename =>
               \A m \in {document'.at.name, newName'} :
                 m \in loaded'.migration.defines <=> m \in migration'.defines
      BY <2>1 DEF Ask, AgreeFor, Steady
    <3> QED
      BY <2>1, <3>1 DEF Found, AgreeFor
  <2>2. CASE pc = "resolve" /\ ResolveForRename
    <3>1. /\ pc' = "collide"
          /\ UNCHANGED <<document, buffer, migration, loaded, newName>>
          /\ resolved' = Target(document.at)
          /\ Target(document.at).origin \notin {"none", "database"}
      BY <1>1, <2>2 DEF ResolveForRename, End, Working
    <3>2. /\ Target(document.at)' = Target(document.at)
          /\ Target(document.at).origin
                \in {"migration", "database", "query", "none"}
      BY <3>1 DEF Target, Origin
    <3> QED
      BY <2>2, <3>1, <3>2 DEF Found, AgreeFor, Working
  <2>3. CASE pc = "collide" /\ CheckCollision
    <3>1. /\ pc' = "locate"
          /\ UNCHANGED <<document, buffer, migration, loaded, newName, resolved>>
          /\ \/ resolved.origin = "query"
             \/ resolved.name = newName
             \/ Origin(newName) = "none"
      BY <1>1, <2>3 DEF CheckCollision, End, Working
    <3>2. Target(document.at)' = Target(document.at)
      BY <3>1 DEF Target, Origin
    <3> QED
      BY <2>3, <3>1, <3>2 DEF Found, AgreeFor, Working, Origin
  <2>4. CASE Working /\ UNCHANGED handler
    <3>1. CASE UNCHANGED <<buffer, document, migration, loaded>>
      <4>1. Target(document.at)' = Target(document.at)
        BY <3>1 DEF Target, Origin
      <4> QED
        BY <2>4, <3>1, <4>1 DEF Found, AgreeFor, Working, handler
    <3>2. CASE DidChange \/ \E r \in References : ChangeBuffer(r)
      BY <2>4, <3>2 DEF DidChange, ChangeBuffer, MayHappen, Found, Working, Steady
    <3>3. ASSUME NEW D \in SUBSET Names, ChangeMigration(D)
          PROVE  Found'
      <4>1. /\ migration'.defines = D
            /\ UNCHANGED <<buffer, document, loaded>>
            /\ "reload" \in MidRename => AgreeFor(newName, D, migration.defines)
        BY <2>4, <3>3 DEF ChangeMigration, MayHappen, Working, Steady
      <4>2. Target(document.at)' = Target(document.at)
        BY <4>1 DEF Target, Origin
      <4> QED
        BY <2>4, <4>1, <4>2 DEF Found, AgreeFor, Working, handler
    <3>4. CASE Reload
      <4>1. /\ loaded'.migration = migration
            /\ UNCHANGED <<buffer, document, migration>>
        BY <3>4 DEF Reload
      <4> QED
        BY <2>4, <3>4, <4>1, ReloadAgrees DEF Found, AgreeFor, Working, handler
    <3> QED
      BY <1>1, <2>4, <3>1, <3>2, <3>3, <3>4, WorkingStep
      DEF ChangeDatabase, Ask, ResolveForRename, CheckCollision, Working, handler
  <2> QED
    BY <1>1, <2>1, <2>2, <2>3, <2>4, WorkingStep
<1>2. CASE ReferenceLocations
  <2>1. /\ pc = "locate"
        /\ \/ pc' = "idle"
           \/ pc' = "answered" /\ answer'.target = Target(document.at)
    BY <1>2 DEF ReferenceLocations, End, AnswerFor
  <2> QED
    BY <2>1 DEF Found, Working
<1>3. CASE pc' = "answered" /\ ~ReferenceLocations
  <2>1. pc = "answered" /\ UNCHANGED answer
    BY <1>3
    DEF Next, ChangeBuffer, ChangeMigration, ChangeDatabase, DidChange, Reload,
        Ask, ResolveForRename, CheckCollision, Refuse, Apply, End, handler, vars
  <2> QED
    BY <1>3, <2>1 DEF Found, Working
<1> QED
  BY <1>1, <1>2, <1>3 DEF Found, Working

(* Nor what it has found out in the database.                                *)
LEMMA DatabaseStep ==
    ASSUME Steady, SteadyDatabase, Found, FoundInDatabase, [Next]_vars
    PROVE  FoundInDatabase'
<1> SUFFICES ASSUME Working'
             PROVE  FoundInDatabase'
  BY DEF FoundInDatabase, Working
<1>1. CASE pc = "idle" /\ pc' = "resolve" /\ Ask(newName')
  <2>1. "reload" \in MidRename =>
          \A m \in {document'.at.name, newName'} :
             m \in loaded'.database <=> m \in database'
    BY <1>1 DEF Ask, AgreeFor, SteadyDatabase
  <2> QED
    BY <1>1, <2>1 DEF FoundInDatabase, AgreeFor
<1>2. CASE pc = "resolve" /\ ResolveForRename
  <2>1. pc' = "collide" /\ UNCHANGED <<document, database, loaded, newName>>
    BY <1>2 DEF ResolveForRename, End, Working
  <2> QED
    BY <1>2, <2>1 DEF FoundInDatabase, AgreeFor, Working
<1>3. CASE pc = "collide" /\ CheckCollision
  <2>1. /\ pc' = "locate"
        /\ UNCHANGED <<document, database, loaded, newName, resolved>>
        /\ \/ resolved.origin = "query"
           \/ resolved.name = newName
           \/ Origin(newName) = "none"
    BY <1>3 DEF CheckCollision, End, Working
  <2>2. Origin(newName) = "none" => newName \notin loaded.database
    BY DEF Origin
  <2> QED
    BY <1>3, <2>1, <2>2 DEF FoundInDatabase, AgreeFor, Working
<1>4. CASE Working /\ UNCHANGED handler
  <2>1. document' = document
    BY <1>4, WorkingStep
    DEF DidChange, ChangeBuffer, ChangeMigration, ChangeDatabase, Reload, Ask,
        ResolveForRename, CheckCollision, Found, Working, handler
  <2>2. CASE UNCHANGED <<database, loaded>>
    BY <1>4, <2>1, <2>2 DEF FoundInDatabase, AgreeFor, Working, handler
  <2>3. ASSUME NEW D \in SUBSET Names, ChangeDatabase(D)
        PROVE  FoundInDatabase'
    <3>1. /\ database' = D
          /\ UNCHANGED loaded
          /\ "reload" \in MidRename => AgreeFor(newName, D, database)
      BY <1>4, <2>3 DEF ChangeDatabase, MayHappen, Working, SteadyDatabase
    <3> QED
      BY <1>4, <2>1, <3>1 DEF FoundInDatabase, AgreeFor, Working, handler
  <2>4. CASE Reload
    <3>1. "reload" \in MidRename /\ loaded'.database = database /\ UNCHANGED database
      BY <1>4, <2>4 DEF Reload, MayHappen, Working
    <3> QED
      BY <1>4, <2>1, <3>1 DEF FoundInDatabase, AgreeFor, Working, handler
  <2> QED
    BY <1>4, <2>2, <2>3, <2>4, WorkingStep
    DEF DidChange, ChangeBuffer, ChangeMigration, Ask, ResolveForRename,
        CheckCollision, Working, handler
<1> QED
  BY <1>1, <1>2, <1>3, <1>4, WorkingStep

(* What an answer edits: the relation, which has no namesake where it is     *)
(* renamed, and its definition, in the migration the answer was computed     *)
(* from.                                                                     *)
Located ==
    pc = "answered" /\ answer.target.origin = "migration" =>
        /\ answer.declared
        /\ answer.target.name \in answer.migration.defines
        /\ \/ answer.target.name = newName
           \/ newName \notin answer.migration.defines

SteadyInv == TypeOK /\ Found /\ Located

(* The collision that was looked for is one with the migration the locations *)
(* are collected from.                                                       *)
LEMMA LocatedStep ==
    ASSUME SteadyInv, [Next]_vars
    PROVE  Located'
<1> USE DEF SteadyInv
<1>1. CASE ReferenceLocations
  <2> SUFFICES ASSUME pc' = "answered", answer'.target.origin = "migration"
               PROVE  /\ answer'.declared
                      /\ answer'.target.name \in answer'.migration.defines
                      /\ \/ answer'.target.name = newName'
                         \/ newName' \notin answer'.migration.defines
    BY DEF Located
  <2>1. /\ pc = "locate"
        /\ newName' = newName
        /\ answer'.target = Target(document.at)
        /\ answer'.migration = loaded.migration
        /\ answer'.declared = (Target(document.at).origin = "migration")
    BY <1>1 DEF ReferenceLocations, End, AnswerFor
  <2>2. document.at.name \in loaded.migration.defines
    BY <2>1 DEF Target, Origin
  <2>3. Target(document.at).name = document.at.name
    BY DEF Target
  <2>4. \/ Target(document.at).name = newName
        \/ newName \notin loaded.migration.defines
    BY <2>1 DEF Found
  <2> QED
    BY <2>1, <2>2, <2>3, <2>4
<1>2. CASE pc = "answered" /\ UNCHANGED <<pc, newName, answer>>
  BY <1>2 DEF Located
<1>3. CASE pc' # "answered"
  BY <1>3 DEF Located
<1> QED
  BY <1>1, <1>2, <1>3
  DEF Next, ChangeBuffer, ChangeMigration, ChangeDatabase, DidChange, Reload,
      Ask, ResolveForRename, CheckCollision, Refuse, Apply, End, handler, vars

(* The invariant holds throughout.                                           *)
LEMMA SteadyInvariant ==
    ASSUME Steady
    PROVE  Spec => []SteadyInv
<1>1. Init => Found /\ Located
  BY DEF Init, Found, Located, Working
<1>2. SteadyInv /\ [Next]_vars => (Found /\ Located)'
  BY FoundStep, LocatedStep DEF SteadyInv
<1>3. TypeOK /\ Found /\ Located => SteadyInv
  BY DEF SteadyInv
<1>4. SteadyInv => TypeOK
  BY DEF SteadyInv
<1>5. Init => TypeOK
  BY RenameAssumption DEF Init, TypeOK, Texts, Migrations
<1>6. SteadyInv /\ [Next]_vars => SteadyInv'
  BY <1>2, <1>4, TypeStep DEF SteadyInv
<1> QED
  BY <1>1, <1>3, <1>5, <1>6, PTL DEF Spec

(* A rename does not touch what only the live database defines, though        *)
(* reloads end between its steps, the cursor is resolved anew and the        *)
(* database changes at will (server.rs, renameable).                         *)
THEOREM DatabaseObjectsStay ==
    ASSUME Steady
    PROVE  Spec => []NeverRenamesDatabaseObjects
<1>1. SteadyInv => NeverRenamesDatabaseObjects
  BY DEF SteadyInv, Found, NeverRenamesDatabaseObjects
<1> QED
  BY <1>1, SteadyInvariant, PTL

(* Nor does it merge the references to two relations, where the database does *)
(* not both change its two names and get reloaded meanwhile (server.rs,      *)
(* collision).                                                               *)
THEOREM RenamesNeverMerge ==
    ASSUME Steady, SteadyDatabase
    PROVE  Spec => NeverMerges
<1>1. SteadyInv /\ FoundInDatabase /\ [Next]_vars =>
        [pc = "locate" /\ pc' = "answered" =>
           \/ answer'.target.origin = "query"
           \/ answer'.target.name = newName
           \/ Origin(newName) = "none"]_vars
  <2>1. ASSUME Found, FoundInDatabase, [Next]_vars, pc = "locate", pc' = "answered"
        PROVE  \/ answer'.target.origin = "query"
               \/ answer'.target.name = newName
               \/ Origin(newName) = "none"
    <3>1. ReferenceLocations
      BY <2>1
      DEF Next, ChangeBuffer, ChangeMigration, ChangeDatabase, DidChange,
          Reload, Ask, ResolveForRename, CheckCollision, Refuse, Apply, End,
          handler, vars
    <3>2. answer'.target = Target(document.at)
      BY <2>1, <3>1 DEF ReferenceLocations, End, AnswerFor
    <3> QED
      BY <2>1, <3>2 DEF Found, FoundInDatabase, Origin
  <2> QED
    BY <2>1 DEF SteadyInv
<1>2. Init => FoundInDatabase
  BY DEF Init, FoundInDatabase, Working
<1>3. SteadyInv /\ FoundInDatabase /\ [Next]_vars => FoundInDatabase'
  BY DatabaseStep DEF SteadyInv
<1> QED
  BY <1>1, <1>2, <1>3, SteadyInvariant, PTL DEF Spec, NeverMerges

(* Such a rename, once applied, leaves the reference defined by the           *)
(* migrations, which define as many relations as before: the definition is   *)
(* edited with its uses, and no two relations become one.  A migration       *)
(* defines finitely many relations.                                          *)
THEOREM RenamedReferencesStayDefined ==
    ASSUME Steady, IsFiniteSet(Names)
    PROVE  Spec => ReferencesStayDefined
<1>1. ASSUME SteadyInv, Apply, answer.target.origin = "migration",
             answer.migration = migration
      PROVE  /\ buffer'.at.name \in migration'.defines
             /\ Cardinality(migration'.defines) = Cardinality(migration.defines)
  <2> DEFINE name == answer.target.name
             defined == migration.defines
  <2>1. /\ name \in defined
        /\ name = newName \/ newName \notin defined
    BY <1>1 DEF SteadyInv, Located, Apply
  <2>2. migration'.defines = (defined \ {name}) \cup {newName}
    BY <1>1 DEF SteadyInv, Located, Apply
  <2>3. buffer'.at.name = newName
    BY <1>1 DEF SteadyInv, TypeOK, Texts, References, Apply
  <2>4. IsFiniteSet(defined)
    <3>1. defined \subseteq Names
      BY <1>1 DEF SteadyInv, TypeOK, Migrations
    <3> QED
      BY <3>1, FS_Subset
  <2>5. /\ IsFiniteSet(defined \ {name})
        /\ Cardinality(defined \ {name}) = Cardinality(defined) - 1
    BY <2>1, <2>4, FS_RemoveElement
  <2>6. Cardinality((defined \ {name}) \cup {newName})
          = Cardinality(defined \ {name}) + 1
    BY <2>1, <2>5, FS_AddElement
  <2>7. Cardinality(defined) \in Nat
    BY <2>4, FS_CardinalityType
  <2> QED
    BY <2>2, <2>3, <2>5, <2>6, <2>7
<1>2. SteadyInv =>
        [Apply /\ answer.target.origin = "migration" /\ answer.migration = migration =>
           /\ buffer'.at.name \in migration'.defines
           /\ Cardinality(migration'.defines) = Cardinality(migration.defines)]_vars
  BY <1>1
<1> QED
  BY <1>2, SteadyInvariant, PTL DEF ReferencesStayDefined
-----------------------------------------------------------------------------
(* Numbers.  Induction comes from their well-founded order, that is, a set of *)
(* numbers has a least; what holds of all numbers is stated as a set.        *)
LEMMA LeastNumber ==
  ASSUME NEW S, S \subseteq Nat, S # {}
  PROVE  \E m \in S : \A k \in S : m <= k
<1>1. PICK m \in S : \A k \in S : <<k, m>> \notin OpToRel(<, Nat)
  BY WFMin, NatLessThanWellFounded
<1>2. \A k \in S : ~(k < m)
  BY <1>1 DEF OpToRel
<1> QED
  BY <1>2

LEMMA MinIsLeast ==
  ASSUME NEW S, S \subseteq Nat, S # {}
  PROVE  Min(S) \in S /\ \A k \in S : Min(S) <= k
BY LeastNumber DEF Min

(* A set that has 0 and the successor of each of its numbers has them all.   *)
LEMMA CountUp ==
  ASSUME NEW S, 0 \in S, \A n \in Nat : n \in S => n + 1 \in S
  PROVE  \A n \in Nat : n \in S
<1> DEFINE T == Nat \ S
<1> SUFFICES T = {}
  OBVIOUS
<1>1. SUFFICES ASSUME T # {} PROVE FALSE
  OBVIOUS
<1>2. PICK m \in T : \A k \in T : m <= k
  BY <1>1, LeastNumber
<1>3. m # 0 /\ m - 1 \in Nat /\ m - 1 \in S
  BY <1>2
<1> QED
  BY <1>3

(* A bounded set of numbers has a greatest.                                  *)
LEMMA GreatestNumber ==
  ASSUME NEW S, NEW bound \in Nat, S \subseteq 0..bound, S # {}
  PROVE  Max(S) \in S /\ \A k \in S : k <= Max(S)
<1> DEFINE T == {bound - k : k \in S}
<1>1. T \subseteq Nat /\ T # {}
  <2>1. \A k \in S : bound - k \in Nat
    OBVIOUS
  <2> QED
    BY <2>1
<1>2. PICK t \in T : \A u \in T : t <= u
  BY <1>1, LeastNumber
<1>3. PICK m \in S : t = bound - m
  OBVIOUS
<1>4. \A k \in S : m >= k
  BY <1>2, <1>3
<1>5. /\ Max(S) \in S
      /\ \A k \in S : Max(S) >= k
  BY <1>4 DEF Max
<1> QED
  BY <1>5
-----------------------------------------------------------------------------
(* The steps.  Documents are sequences of tokens.                            *)
LEMMA DocumentFacts ==
  ASSUME NEW d \in Documents
  PROVE  /\ d.tokens \in Seq(Tokens) /\ d.locals \in Seq(Locals)
         /\ Len(d.tokens) \in Nat /\ DOMAIN d.tokens = 1..Len(d.tokens)
         /\ DOMAIN d.locals \subseteq Nat
         /\ \A i \in DOMAIN d.tokens : d.tokens[i].text \in STRING
<1>1. d \in [tokens : Seq(Tokens), locals : Seq(Locals)]
  BY CompletionAssumption
<1>2. d.tokens \in Seq(Tokens) /\ d.locals \in Seq(Locals)
  BY <1>1
<1>3. \A i \in DOMAIN d.tokens : d.tokens[i] \in Tokens
  BY <1>2
<1>4. \A i \in DOMAIN d.tokens : d.tokens[i].text \in STRING
  BY <1>3 DEF Tokens
<1>5. Len(d.tokens) \in Nat /\ DOMAIN d.tokens = 1..Len(d.tokens)
  BY <1>2
<1>6. DOMAIN d.locals \subseteq Nat
  BY <1>2
<1> QED
  BY <1>2, <1>4, <1>5, <1>6

OfferInv ==
    /\ draft \in Documents
    /\ typed \in 0..Len(draft.tokens)
    /\ cursor \in [after : 0..typed, touching : BOOLEAN]
    /\ cursor.after = typed \/ typed = Len(draft.tokens)
    /\ asked \in BOOLEAN
    /\ asked => offered = Completions
    /\ ~asked => offered = {}

(* What is offered depends on the document, what there is of it, what parses *)
(* and the cursor alone.                                                     *)
LEMMA SameOffers ==
  ASSUME UNCHANGED <<draft, typed, parses, cursor>>
  PROVE  Completions' = Completions
<1>1. \A i : Text(i)' = Text(i)
  BY DEF Text
<1>2. Locate' = Locate
  BY <1>1 DEF Locate, Text
<1>3. LocalTables' = LocalTables
  BY DEF LocalTables, Ended, StatementOf, Text
<1>4. \A n, scope : ResolveTable(n, scope)' = ResolveTable(n, scope)
  BY <1>3 DEF ResolveTable, Indexed
<1>5. \A located : Context(located)' = Context(located)
  BY DEF Context, TouchesWord
<1>6. \A scope : InScope(scope)' = InScope(scope)
  BY <1>4 DEF InScope, ColumnsOf
<1>7. Scope(Locate.tokens)' = Scope(Locate.tokens)
  BY <1>2
<1> QED
  BY <1>2, <1>3, <1>4, <1>5, <1>6, <1>7 DEF Completions, LocalItems, ColumnsOf

(* Once offered, completions stay those at the cursor until something is typed  *)
(* or the cursor moves (server.rs, completion).                              *)
LEMMA OffersStep ==
  ASSUME OfferInv, [CompletionNext]_completionVars
  PROVE  OfferInv'
<1>1. Len(draft.tokens) \in Nat
  BY DocumentFacts DEF OfferInv
<1>2. CASE Type
  <2>1. typed + 1 \in 0..Len(draft.tokens)
    BY <1>1, <1>2 DEF Type, OfferInv
  <2>2. cursor' \in [after : 0..typed', touching : BOOLEAN] /\ cursor'.after = typed'
    BY <1>2, <2>1 DEF Type
  <2>3. draft' = draft /\ typed' = typed + 1 /\ asked' = FALSE /\ offered' = {}
    BY <1>2 DEF Type
  <2> QED
    BY <2>1, <2>2, <2>3 DEF OfferInv
<1>3. CASE Move
  <2>1. typed \in Nat
    BY <1>1 DEF OfferInv
  <2>2. /\ cursor' \in [after : 0..typed, touching : BOOLEAN]
        /\ cursor'.after = typed \/ typed = Len(draft.tokens)
    <3>1. CASE typed = Len(draft.tokens)
      <4>1. cursor' \in [after : 1..typed, touching : BOOLEAN]
        BY <1>3, <3>1 DEF Move
      <4> QED
        BY <2>1, <3>1, <4>1
    <3>2. CASE typed # Len(draft.tokens)
      <4>1. cursor' = [after |-> typed, touching |-> FALSE]
        BY <1>3, <3>2 DEF Move
      <4> QED
        BY <2>1, <4>1
    <3> QED
      BY <3>1, <3>2
  <2>3. draft' = draft /\ typed' = typed /\ asked' = FALSE /\ offered' = {}
    BY <1>3 DEF Move
  <2> QED
    BY <2>2, <2>3 DEF OfferInv
<1>4. CASE Complete
  <2>1. Completions' = Completions
    BY <1>4, SameOffers DEF Complete
  <2> QED
    BY <1>4, <2>1 DEF Complete, OfferInv
<1>5. CASE UNCHANGED completionVars
  <2>1. Completions' = Completions
    BY <1>5, SameOffers DEF completionVars
  <2> QED
    BY <1>5, <2>1 DEF completionVars, OfferInv
<1> QED
  BY <1>2, <1>3, <1>4, <1>5 DEF CompletionNext

LEMMA OffersInvariant == CompletionSpec => []OfferInv
<1>1. CompletionInit => OfferInv
  <2>1. CompletionInit => Len(draft.tokens) \in Nat
    BY DocumentFacts DEF CompletionInit
  <2>2. ASSUME CompletionInit PROVE OfferInv
    <3>1. /\ draft \in Documents /\ typed = 0 /\ asked = FALSE /\ offered = {}
          /\ cursor = [after |-> 0, touching |-> FALSE]
      BY <2>2 DEF CompletionInit
    <3>2. 0 \in 0..Len(draft.tokens) /\ 0 \in 0..0
      BY <2>1, <2>2
    <3>3. cursor \in [after : 0..typed, touching : BOOLEAN] /\ cursor.after = typed
      BY <3>1, <3>2
    <3> QED
      BY <3>1, <3>2, <3>3 DEF OfferInv
  <2> QED
    BY <2>2
<1>2. OfferInv /\ [CompletionNext]_completionVars => OfferInv'
  BY OffersStep
<1> QED
  BY <1>1, <1>2, PTL DEF CompletionSpec

(* Documents are sequences of tokens.                                        *)
LEMMA DraftFacts ==
  ASSUME OfferInv
  PROVE  /\ draft.tokens \in Seq(Tokens) /\ draft.locals \in Seq(Locals)
         /\ Len(draft.tokens) \in Nat /\ DOMAIN draft.tokens = 1..Len(draft.tokens)
         /\ DOMAIN draft.locals \subseteq Nat
         /\ typed \in Nat /\ cursor.after \in Nat
         /\ cursor.after <= typed /\ typed <= Len(draft.tokens)
         /\ \A i \in 1..Len(draft.tokens) : Text(i) \in STRING
BY DocumentFacts DEF OfferInv, Text

(* Only what is there is offered.                                            *)
LEMMA ResolvedAreThere ==
  ASSUME OfferInv, NEW n, NEW scope, NEW columns \in ResolveTable(n, scope)
  PROVE  \/ \E r \in DOMAIN Schema : columns = Schema[r]
         \/ \E k \in DOMAIN draft.locals : columns = draft.locals[k].columns
<1> DEFINE own == {i \in LocalTables : draft.locals[i].name = n}
<1>1. own \subseteq DOMAIN draft.locals /\ own \subseteq Nat
  BY DraftFacts DEF LocalTables
<1>2. own # {} => Min(own) \in own
  BY <1>1, MinIsLeast
<1>3. \A m : columns \in Indexed(m) => \E r \in DOMAIN Schema : columns = Schema[r]
  BY DEF Indexed
<1>4. \/ own # {} /\ columns = draft.locals[Min(own)].columns
      \/ \E m : columns \in Indexed(m)
  BY DEF ResolveTable
<1> QED
  BY <1>1, <1>2, <1>3, <1>4

LEMMA ContextKinds ==
  ASSUME NEW located
  PROVE  Context(located).kind \in {"tables", "columns", "general"}
BY DEF Context, General

(* Only relations of the schema and of the statements, columns of theirs and *)
(* the words of SQL are offered, whatever the document (completion.rs).      *)
THEOREM OffersKnown == CompletionSpec => []OffersAreKnown
<1>1. ASSUME OfferInv PROVE OffersAreKnown
  <2> DEFINE ofSchema == {Schema[n] : n \in DOMAIN Schema}
             ofLocals == {draft.locals[i].columns : i \in DOMAIN draft.locals}
             known == UNION (ofSchema \cup ofLocals)
             located == Locate
             scope == Scope(located.tokens)
  <2>1. ASSUME NEW n, NEW item \in ColumnsOf(n, scope)
        PROVE  item \in Items("column", known)
    <3>1. PICK columns \in ResolveTable(n, scope) : \E c \in columns :
                 item = [kind |-> "column", name |-> c]
      BY <2>1 DEF ColumnsOf, Items
    <3>2. columns \in ofSchema \/ columns \in ofLocals
      BY <1>1, <3>1, ResolvedAreThere
    <3>3. columns \subseteq known
      BY <3>2
    <3> QED
      BY <3>1, <3>3 DEF Items
  <2>2. Completions \subseteq {Words} \cup LocalItems \cup SchemaItems
                                \cup Items("column", known)
    <3> HIDE DEF known, scope, located
    <3>1. CASE Context(located).kind = "tables"
      BY <3>1 DEF Completions, located
    <3>2. CASE Context(located).kind = "columns"
      BY <2>1, <3>2 DEF Completions, located, scope
    <3>3. CASE Context(located).kind = "general"
      BY <2>1, <3>3 DEF Completions, InScope, located, scope
    <3> QED
      BY <3>1, <3>2, <3>3, ContextKinds
  <2>3. typed \in 0..Len(draft.tokens) /\ cursor.after \in 0..typed /\ asked \in BOOLEAN
    BY <1>1 DEF OfferInv
  <2>4. offered \subseteq Completions
    BY <1>1 DEF OfferInv
  <2> QED
    BY <2>2, <2>3, <2>4 DEF OffersAreKnown
<1> QED
  BY <1>1, OffersInvariant, PTL
-----------------------------------------------------------------------------
(* The statement at the cursor: it begins behind one semicolon and ends before  *)
(* another, or where the text does.                                          *)
Begins == Max({0} \cup {i \in 1..typed : Text(i) = Semicolon /\ i <= cursor.after})
Ends   == Min({typed + 1} \cup {i \in 1..typed : Text(i) = Semicolon /\ i > cursor.after})

LEMMA StatementBounds ==
  ASSUME OfferInv
  PROVE  /\ Begins \in 0..cursor.after /\ Ends \in (cursor.after + 1)..(typed + 1)
         /\ Begins = 0 \/ Text(Begins) = Semicolon
         /\ Ends = typed + 1 \/ Text(Ends) = Semicolon
         /\ \A i \in (Begins + 1)..(Ends - 1) : Text(i) # Semicolon
<1> DEFINE B == {0} \cup {i \in 1..typed : Text(i) = Semicolon /\ i <= cursor.after}
           E == {typed + 1} \cup
                  {i \in 1..typed : Text(i) = Semicolon /\ i > cursor.after}
<1>1. typed \in Nat /\ cursor.after \in 0..typed
  BY DraftFacts
<1>2. B \subseteq 0..cursor.after /\ 0 \in B
  BY <1>1
<1>3. Max(B) \in B /\ \A k \in B : k <= Max(B)
  BY <1>1, <1>2, GreatestNumber
<1>4. E \subseteq (cursor.after + 1)..(typed + 1) /\ typed + 1 \in E
  BY <1>1
<1>5. Min(E) \in E /\ \A k \in E : Min(E) <= k
  <2>1. E \subseteq Nat
    BY <1>1, <1>4
  <2> QED
    BY <1>4, <2>1, MinIsLeast
<1>6. Begins = Max(B) /\ Ends = Min(E)
  BY DEF Begins, Ends
<1>7. Begins \in 0..cursor.after /\ (Begins = 0 \/ Text(Begins) = Semicolon)
  BY <1>2, <1>3, <1>6
<1>8. /\ Ends \in (cursor.after + 1)..(typed + 1)
      /\ Ends = typed + 1 \/ Text(Ends) = Semicolon
  BY <1>4, <1>5, <1>6
<1>9. ASSUME NEW i \in (Begins + 1)..(Ends - 1) PROVE Text(i) # Semicolon
  <2>1. i \in 1..typed
    BY <1>1, <1>7, <1>8
  <2>2. SUFFICES ASSUME Text(i) = Semicolon PROVE FALSE
    OBVIOUS
  <2>3. i \in B \/ i \in E
    BY <1>1, <2>1, <2>2
  <2> HIDE DEF B, E
  <2>4. i <= Begins \/ Ends <= i
    BY <1>3, <1>5, <1>6, <2>3
  <2> QED
    BY <1>1, <1>7, <1>8, <2>1, <2>4
<1> QED
  BY <1>7, <1>8, <1>9

(* locate returns its tokens and the one before the cursor.                  *)
LEMMA LocateFacts ==
  ASSUME OfferInv
  PROVE  /\ Locate.last = cursor.after - Begins
         /\ Locate.tokens \in Seq(STRING)
         /\ Len(Locate.tokens) = Ends - Begins - 1
         /\ DOMAIN Locate.tokens = 1..(Ends - Begins - 1)
         /\ \A i \in 1..(Ends - Begins - 1) : Locate.tokens[i] = Text(Begins + i)
<1> DEFINE n == Ends - Begins - 1
           tokens == [i \in 1..n |-> Text(Begins + i)]
<1>1. Locate = [tokens |-> tokens, last |-> cursor.after - Begins]
  <2>1. {i \in {j \in 1..typed : Text(j) = Semicolon} : i <= cursor.after}
          = {i \in 1..typed : Text(i) = Semicolon /\ i <= cursor.after}
    OBVIOUS
  <2>2. {i \in {j \in 1..typed : Text(j) = Semicolon} : i > cursor.after}
          = {i \in 1..typed : Text(i) = Semicolon /\ i > cursor.after}
    OBVIOUS
  <2> QED
    BY <2>1, <2>2, Zenon DEF Locate, Begins, Ends
<1>2. n \in Nat /\ \A i \in 1..n : Begins + i \in 1..Len(draft.tokens)
  BY StatementBounds, DraftFacts
<1>3. \A i \in 1..n : Text(Begins + i) \in STRING
  BY <1>2, DraftFacts
<1> HIDE DEF n
<1>4. tokens \in Seq(STRING) /\ Len(tokens) = n
  BY <1>2, <1>3
<1> QED
  BY <1>1, <1>4 DEF n

(* The place for which something is wanted: the word at the cursor, if it    *)
(* touches one, or else the place behind the last token.                     *)
LEMMA SlotFacts ==
  ASSUME OfferInv, Slot \in DOMAIN draft.tokens
  PROVE  /\ Slot \in Nat \ {0} /\ Begins < Slot /\ Slot <= Ends /\ Slot <= typed + 1
         /\ TouchesWord(Locate) => Slot = cursor.after
         /\ ~TouchesWord(Locate) => Slot = cursor.after + 1
         /\ Slot < Ends \/ Slot = cursor.after + 1
<1>1. /\ typed \in Nat /\ cursor.after \in Nat /\ cursor.after <= typed
      /\ typed <= Len(draft.tokens) /\ Len(draft.tokens) \in Nat
  BY DraftFacts
<1>2. /\ Begins \in 0..cursor.after /\ Ends \in (cursor.after + 1)..(typed + 1)
      /\ Begins = 0 \/ Text(Begins) = Semicolon
  BY StatementBounds
<1> DEFINE touching == cursor.touching /\ cursor.after > 0 /\ IsWord(Text(cursor.after))
<1>3. IF touching THEN Slot = cursor.after ELSE Slot = cursor.after + 1
  BY DEF Slot
<1>4. touching => Begins < cursor.after
  BY <1>1, <1>2, CompletionAssumption DEF IsWord
<1>5. TouchesWord(Locate) <=> touching
  <2>1. Locate.last = cursor.after - Begins
    BY LocateFacts
  <2>2. Begins < cursor.after => Locate.tokens[cursor.after - Begins] = Text(cursor.after)
    <3>1. ASSUME Begins < cursor.after
          PROVE  /\ cursor.after - Begins \in 1..(Ends - Begins - 1)
                 /\ Begins + (cursor.after - Begins) = cursor.after
      BY <1>1, <1>2, <3>1
    <3> QED
      BY <3>1, LocateFacts
  <2>3. Locate.last > 0 <=> Begins < cursor.after
    BY <1>1, <1>2, <2>1
  <2> QED
    BY <1>1, <1>2, <1>4, <2>1, <2>2, <2>3 DEF TouchesWord
<1> HIDE DEF touching
<1>6. Slot \in {cursor.after, cursor.after + 1} /\ (touching => Slot = cursor.after)
      /\ (~touching => Slot = cursor.after + 1)
  BY <1>3
<1>7. Slot \in Nat \ {0}
  BY <1>1, <1>2, <1>4, <1>6
<1> QED
  BY <1>1, <1>2, <1>4, <1>5, <1>6, <1>7

(* The tokens of the statement so far are those in the statement of the place.   *)
LEMMA InStatement ==
  ASSUME OfferInv, Slot \in DOMAIN draft.tokens,
         NEW i \in 1..Len(draft.tokens), i <= typed, Text(i) # Semicolon
  PROVE  SameStatement(draft, i, Slot) <=> Begins < i /\ i < Ends
<1>1. /\ typed \in Nat /\ cursor.after \in Nat /\ cursor.after <= typed
      /\ Begins \in 0..cursor.after /\ Ends \in (cursor.after + 1)..(typed + 1)
      /\ Begins = 0 \/ Text(Begins) = Semicolon
      /\ Ends = typed + 1 \/ Text(Ends) = Semicolon
      /\ \A k \in (Begins + 1)..(Ends - 1) : Text(k) # Semicolon
  BY DraftFacts, StatementBounds
<1>2. /\ Slot \in Nat \ {0} /\ Begins < Slot /\ Slot <= Ends
      /\ Slot < Ends \/ Slot = cursor.after + 1
  BY SlotFacts
<1>3. SameStatement(draft, i, Slot)
        <=> \A k \in i..(Slot - 1) \cup Slot..(i - 1) : Text(k) # Semicolon
  BY DEF SameStatement, Text
<1>4. CASE i <= Begins
  <2>1. Begins \in i..(Slot - 1) /\ Text(Begins) = Semicolon
    BY <1>1, <1>2, <1>4
  <2> QED
    BY <1>1, <1>3, <1>4, <2>1
<1>5. CASE i >= Ends
  <2>1. i # Ends /\ Ends \in Slot..(i - 1) /\ Text(Ends) = Semicolon
    BY <1>1, <1>2, <1>5
  <2> QED
    BY <1>1, <1>3, <1>5, <2>1
<1>6. CASE Begins < i /\ i < Ends
  <2>1. \A k \in i..(Slot - 1) \cup Slot..(i - 1) : k \in (Begins + 1)..(Ends - 1)
    BY <1>1, <1>2, <1>6
  <2> QED
    BY <1>1, <1>3, <1>6, <2>1
<1> QED
  BY <1>1, <1>4, <1>5, <1>6
-----------------------------------------------------------------------------
(* The tables that scope reads: the recursion.                               *)
LEMMA TablesSteps ==
  ASSUME NEW tokens, Len(tokens) \in Nat
  PROVE  \E read :
           /\ Tables(tokens) = read[Len(tokens)]
           /\ read[0] = {}
           /\ \A i \in 1..Len(tokens) :
                read[i] = IF /\ i > 1
                             /\ NoKeyword(tokens[i])
                             /\ \/ tokens[i - 1] \in Starters
                                \/ /\ tokens[i - 1] = Comma
                                   /\ \E j \in read[i - 1] : EndAt(tokens, j) = i - 1
                          THEN read[i - 1] \cup {i} ELSE read[i - 1]
<1> DEFINE Follows(i, tables) == \/ tokens[i - 1] \in Starters
                                 \/ /\ tokens[i - 1] = Comma
                                    /\ \E j \in tables : EndAt(tokens, j) = i - 1
           Step(f, i) == IF i = 0 THEN {}
                         ELSE IF i > 1 /\ NoKeyword(tokens[i]) /\ Follows(i, f[i - 1])
                         THEN f[i - 1] \cup {i}
                         ELSE f[i - 1]
           read == CHOOSE f : f = [i \in 0..Len(tokens) |-> Step(f, i)]
<1>1. Tables(tokens) = read[Len(tokens)]
  BY DEF Tables
<1>2. read = [i \in 0..Len(tokens) |-> Step(read, i)]
  <2> DEFINE N == {n \in Nat : \E f : f = [i \in 0..n |-> Step(f, i)]}
  <2>1. 0 \in N
    <3>1. [i \in 0..0 |-> {}] = [i \in 0..0 |-> Step([j \in 0..0 |-> {}], i)]
      OBVIOUS
    <3> QED
      BY <3>1
  <2>2. ASSUME NEW n \in Nat, n \in N PROVE n + 1 \in N
    <3>1. PICK f : f = [i \in 0..n |-> Step(f, i)]
      BY <2>2
    <3>2. \A i \in 0..n : f[i] = Step(f, i)
      <4> HIDE DEF Step
      <4> QED
        BY <3>1
    <3> DEFINE g == [i \in 0..(n + 1) |-> IF i = n + 1 THEN Step(f, i) ELSE f[i]]
    <3>3. \A i \in 0..(n + 1) : g[i] = Step(g, i)
      <4> HIDE DEF Follows
      <4> TAKE i \in 0..(n + 1)
      <4>1. CASE i = 0
        <5>1. f[0] = Step(f, 0)
          <6> HIDE DEF Step
          <6> QED
            BY <3>2
        <5> QED
          BY <4>1, <5>1
      <4>2. CASE i # 0
        <5>1. i - 1 \in 0..n /\ g[i - 1] = f[i - 1]
          BY <4>2
        <5>2. Step(g, i) = Step(f, i)
          BY <5>1
        <5>3. i # n + 1 => f[i] = Step(f, i)
          <6>1. i # n + 1 => i \in 0..n
            OBVIOUS
          <6> HIDE DEF Step
          <6> QED
            BY <3>2, <6>1
        <5> QED
          BY <5>2, <5>3
      <4> QED
        BY <4>1, <4>2
    <3>4. g = [i \in 0..(n + 1) |-> Step(g, i)]
      BY <3>3
    <3> HIDE DEF g
    <3> QED
      BY <3>4
  <2> HIDE DEF N
  <2>3. Len(tokens) \in N
    BY <2>1, <2>2, CountUp
  <2> QED
    BY <2>3 DEF N
<1> HIDE DEF read, Step
<1>3. \A i \in 0..Len(tokens) : read[i] = Step(read, i)
  BY <1>2
<1>4. read[0] = {}
  <2>1. read[0] = Step(read, 0)
    BY <1>3
  <2> QED
    BY <2>1 DEF Step
<1>5. \A i \in 1..Len(tokens) : read[i] = Step(read, i) /\ i # 0
  BY <1>3
<1>6. \A i \in 1..Len(tokens) :
         read[i] = IF i > 1 /\ NoKeyword(tokens[i]) /\ Follows(i, read[i - 1])
                   THEN read[i - 1] \cup {i} ELSE read[i - 1]
  BY <1>5 DEF Step
<1> QED
  BY <1>1, <1>4, <1>6

(* A table is a name behind a starter, or behind a comma that ends another.  *)
FollowsTable(tokens, i) ==
    \/ tokens[i - 1] \in Starters
    \/ tokens[i - 1] = Comma /\ \E j \in Tables(tokens) : EndAt(tokens, j) = i - 1

LEMMA TablesFacts ==
  ASSUME NEW tokens, Len(tokens) \in Nat
  PROVE  /\ Tables(tokens) \subseteq 1..Len(tokens)
         /\ \A i \in 1..Len(tokens) :
              i \in Tables(tokens) <=>
                 i > 1 /\ NoKeyword(tokens[i]) /\ FollowsTable(tokens, i)
<1> DEFINE Joins(i, tables) ==
             /\ i > 1
             /\ NoKeyword(tokens[i])
             /\ \/ tokens[i - 1] \in Starters
                \/ tokens[i - 1] = Comma /\ \E j \in tables : EndAt(tokens, j) = i - 1
<1>1. PICK read :
         /\ Tables(tokens) = read[Len(tokens)]
         /\ read[0] = {}
         /\ \A i \in 1..Len(tokens) :
              read[i] = IF Joins(i, read[i - 1]) THEN read[i - 1] \cup {i}
                        ELSE read[i - 1]
  BY TablesSteps
<1> HIDE DEF Joins
<1> DEFINE N == {n \in Nat : n <= Len(tokens) =>
                   /\ read[n] \subseteq 1..n
                   /\ \A m \in 0..n : read[n] \cap 1..m = read[m]
                   /\ \A i \in 1..n : i \in read[n] <=> Joins(i, read[i - 1])}
<1>2. 0 \in N
  BY <1>1
<1>3. ASSUME NEW n \in Nat, n \in N PROVE n + 1 \in N
  <2>1. SUFFICES ASSUME n + 1 <= Len(tokens)
                 PROVE  /\ read[n + 1] \subseteq 1..(n + 1)
                        /\ \A m \in 0..(n + 1) : read[n + 1] \cap 1..m = read[m]
                        /\ \A i \in 1..(n + 1) : i \in read[n + 1] <=> Joins(i, read[i - 1])
    OBVIOUS
  <2>2. /\ read[n] \subseteq 1..n
        /\ \A m \in 0..n : read[n] \cap 1..m = read[m]
        /\ \A i \in 1..n : i \in read[n] <=> Joins(i, read[i - 1])
    BY <1>3, <2>1
  <2>3. read[n + 1] = IF Joins(n + 1, read[n]) THEN read[n] \cup {n + 1} ELSE read[n]
    <3>1. n + 1 \in 1..Len(tokens) /\ (n + 1) - 1 = n
      BY <2>1
    <3> QED
      BY <1>1, <3>1
  <2> HIDE DEF N
  <2>4. read[n + 1] \subseteq 1..(n + 1)
    BY <2>2, <2>3
  <2>5. ASSUME NEW m \in 0..(n + 1) PROVE read[n + 1] \cap 1..m = read[m]
    <3>1. CASE m = n + 1
      BY <2>4, <3>1
    <3>2. CASE m # n + 1
      <4>1. m \in 0..n /\ n + 1 \notin 1..m
        BY <3>2
      <4>2. read[n + 1] \cap 1..m = read[n] \cap 1..m
        BY <2>3, <4>1
      <4> QED
        BY <2>2, <4>1, <4>2
    <3> QED
      BY <3>1, <3>2
  <2>6. ASSUME NEW i \in 1..(n + 1) PROVE i \in read[n + 1] <=> Joins(i, read[i - 1])
    <3>1. CASE i = n + 1
      <4>1. i - 1 = n /\ i \notin read[n]
        BY <2>2, <3>1
      <4> QED
        BY <2>3, <3>1, <4>1
    <3>2. CASE i # n + 1
      <4>1. i \in 1..n
        BY <3>2
      <4>2. i \in read[n + 1] <=> i \in read[n]
        BY <2>3, <3>2
      <4> QED
        BY <2>2, <4>1, <4>2
    <3> QED
      BY <3>1, <3>2
  <2> QED
    BY <2>4, <2>5, <2>6
<1>4. Len(tokens) \in N
  <2> HIDE DEF N
  <2> QED
    BY <1>2, <1>3, CountUp
<1>5. /\ Tables(tokens) \subseteq 1..Len(tokens)
      /\ \A m \in 0..Len(tokens) : Tables(tokens) \cap 1..m = read[m]
      /\ \A i \in 1..Len(tokens) : i \in Tables(tokens) <=> Joins(i, read[i - 1])
  BY <1>1, <1>4
<1>6. ASSUME NEW i \in 1..Len(tokens), NEW j \in Tables(tokens), EndAt(tokens, j) = i - 1
      PROVE  j \in read[i - 1]
  <2>1. j \in 1..Len(tokens)
    BY <1>5
  <2>2. EndAt(tokens, j) \in {j + 1, j + 2, j + 3}
    BY <2>1 DEF EndAt, AliasAt
  <2>3. j \in 1..(i - 1) /\ i - 1 \in 0..Len(tokens)
    BY <1>6, <2>1, <2>2
  <2> QED
    BY <1>5, <2>3
<1>7. ASSUME NEW i \in 1..Len(tokens)
      PROVE  /\ \A j \in read[i - 1] : j \in Tables(tokens)
             /\ \A j \in Tables(tokens) : EndAt(tokens, j) = i - 1 => j \in read[i - 1]
  <2>1. i - 1 \in 0..Len(tokens)
    OBVIOUS
  <2> QED
    BY <1>5, <1>6, <2>1
<1>8. \A i \in 1..Len(tokens) :
         Joins(i, read[i - 1]) <=>
           i > 1 /\ NoKeyword(tokens[i]) /\ FollowsTable(tokens, i)
  BY <1>7, Zenon DEF Joins, FollowsTable
<1> QED
  BY <1>5, <1>8
-----------------------------------------------------------------------------
(* The words of the statement, and what is assumed of them.                  *)
LEMMA WordFacts ==
  /\ \A t : NoKeyword(t) =>
              t \notin {Semicolon, Comma, "(", ")", ".", "AS", "TABLE", "INTO"}
                         \cup Starters
  /\ {Semicolon, Comma, "(", ")", "."} \cap ({"AS", "TABLE"} \cup Starters) = {}
  /\ Semicolon # Comma /\ Semicolon # "." /\ Comma # "." /\ "INTO" \in Starters
  /\ Semicolon # "(" /\ Semicolon # ")" /\ Comma # "(" /\ Comma # ")"
<1>1. Starters \cup {"AS", "TABLE"} \subseteq Keywords /\ Keywords \cap Punctuation = {}
      /\ {".", Comma, "(", ")", Semicolon} \subseteq Punctuation
  BY CompletionAssumption
<1>2. Semicolon # Comma /\ Semicolon # "." /\ Comma # "."
  BY DEF Semicolon, Comma
<1>3. Semicolon # "(" /\ Semicolon # ")" /\ Comma # "(" /\ Comma # ")"
  BY DEF Semicolon, Comma
<1>4. "INTO" \in Starters
  BY DEF Starters
<1>5. \A t : NoKeyword(t) => t \notin Keywords /\ t \notin Punctuation
  BY DEF NoKeyword, IsWord
<1> QED
  BY <1>1, <1>2, <1>3, <1>4, <1>5

TextIn(i) == IF i \in DOMAIN draft.tokens THEN draft.tokens[i].text ELSE Semicolon
Aliases   == {i \in DOMAIN draft.tokens : draft.tokens[i].fits = "alias"}
NamingsBehind(i) == {j \in Namings(draft) : \/ j = i - 1
                                            \/ j = i - 2 /\ TextIn(i - 1) = "AS"}

LEMMA RangeFacts ==
  ASSUME RangesAreDeclared(draft), NEW i \in DOMAIN draft.tokens
  PROVE  /\ i \in Namings(draft) <=>
              /\ NoKeyword(TextIn(i))
              /\ \/ TextIn(i - 1) \in Starters
                 \/ TextIn(i - 1) = Comma /\ i - 2 \in Namings(draft) \cup Aliases
         /\ draft.tokens[i].fits = "table" <=>
              NoKeyword(TextIn(i)) /\ TextIn(i - 1) \in Starters
         /\ draft.tokens[i].fits = "listed" =>
              NoKeyword(TextIn(i)) /\ TextIn(i - 1) = Comma
         /\ i \in Aliases <=> NoKeyword(TextIn(i)) /\ NamingsBehind(i) # {}
         /\ i \in Namings(draft) => draft.tokens[i].of = {TextIn(i)}
         /\ i \in Aliases =>
              \A j \in NamingsBehind(i) : draft.tokens[i].of = {TextIn(j)}
         /\ TextIn(i) = "AS" /\ i - 1 \in Namings(draft) => i + 1 \in Aliases
<1> DEFINE listed == TextIn(i - 1) = Comma /\ i - 2 \in Namings(draft) \cup Aliases
<1>1. /\ draft.tokens[i].fits = "table" <=>
           NoKeyword(TextIn(i)) /\ TextIn(i - 1) \in Starters
      /\ draft.tokens[i].fits = "listed" <=> NoKeyword(TextIn(i)) /\ listed
      /\ i \in Aliases <=> NoKeyword(TextIn(i)) /\ NamingsBehind(i) # {}
      /\ i \in Namings(draft) => draft.tokens[i].of = {TextIn(i)}
      /\ i \in Aliases =>
           \A j \in NamingsBehind(i) : draft.tokens[i].of = {TextIn(j)}
      /\ TextIn(i) = "AS" /\ i - 1 \in Namings(draft) => i + 1 \in Aliases
  BY Zenon DEF RangesAreDeclared, TextIn, Aliases, NamingsBehind
<1>2. i \in Namings(draft) <=>
        draft.tokens[i].fits = "table" \/ draft.tokens[i].fits = "listed"
  BY DEF Namings
<1> QED
  BY <1>1, <1>2

LEMMA DeclaredFacts ==
  ASSUME OfferInv, RangesAreDeclared(draft)
  PROVE  /\ Namings(draft) \subseteq DOMAIN draft.tokens
         /\ Aliases \subseteq DOMAIN draft.tokens
         /\ Declarations(draft) = Namings(draft) \cup Aliases
         /\ \A i \in Declarations(draft) : NoKeyword(TextIn(i)) /\ TextIn(i) # Semicolon
<1>1. /\ Namings(draft) \subseteq DOMAIN draft.tokens
      /\ Aliases \subseteq DOMAIN draft.tokens
      /\ Declarations(draft) = Namings(draft) \cup Aliases
  BY DEF Namings, Aliases, Declarations
<1>2. \A i \in Declarations(draft) : NoKeyword(TextIn(i))
  BY <1>1, RangeFacts
<1> QED
  BY <1>1, <1>2, WordFacts

(* The tokens that locate returns, and where they are in the document.       *)
Here == Locate.tokens

LEMMA HereFacts ==
  ASSUME OfferInv
  PROVE  /\ Begins \in Nat /\ Len(Here) \in Nat /\ DOMAIN Here = 1..Len(Here)
         /\ Ends = Begins + Len(Here) + 1 /\ Begins + Len(Here) <= typed
         /\ \A i \in 1..Len(Here) :
              /\ Begins + i \in DOMAIN draft.tokens
              /\ Here[i] = TextIn(Begins + i)
              /\ TokenAt(Here, i) = TextIn(Begins + i)
              /\ TextIn(Begins + i) # Semicolon
         /\ \A i : i \notin 1..Len(Here) => TokenAt(Here, i) = Semicolon
         /\ TextIn(Begins) = Semicolon
<1>1. /\ typed \in Nat /\ cursor.after \in Nat /\ cursor.after <= typed
      /\ typed <= Len(draft.tokens) /\ Len(draft.tokens) \in Nat
      /\ DOMAIN draft.tokens = 1..Len(draft.tokens)
  BY DraftFacts
<1>2. /\ Begins \in 0..cursor.after /\ Ends \in (cursor.after + 1)..(typed + 1)
      /\ Begins = 0 \/ Text(Begins) = Semicolon
      /\ \A i \in (Begins + 1)..(Ends - 1) : Text(i) # Semicolon
  BY StatementBounds
<1>3. /\ Len(Here) = Ends - Begins - 1 /\ DOMAIN Here = 1..(Ends - Begins - 1)
      /\ \A i \in 1..(Ends - Begins - 1) : Here[i] = Text(Begins + i)
  BY LocateFacts DEF Here
<1>4. /\ Begins \in Nat /\ Len(Here) \in Nat /\ DOMAIN Here = 1..Len(Here)
      /\ Ends = Begins + Len(Here) + 1 /\ Begins + Len(Here) <= typed
  BY <1>1, <1>2, <1>3
<1>5. ASSUME NEW i \in 1..Len(Here)
      PROVE  /\ Begins + i \in DOMAIN draft.tokens
             /\ Here[i] = TextIn(Begins + i)
             /\ TokenAt(Here, i) = TextIn(Begins + i)
             /\ TextIn(Begins + i) # Semicolon
  <2>1. Begins + i \in DOMAIN draft.tokens /\ Begins + i \in (Begins + 1)..(Ends - 1)
    BY <1>1, <1>4
  <2>2. TextIn(Begins + i) = Text(Begins + i)
    BY <2>1 DEF TextIn, Text
  <2>3. Here[i] = Text(Begins + i) /\ Text(Begins + i) # Semicolon
    BY <1>2, <1>3, <2>1
  <2> QED
    BY <1>4, <2>1, <2>2, <2>3 DEF TokenAt
<1>6. \A i : i \notin 1..Len(Here) => TokenAt(Here, i) = Semicolon
  BY <1>4 DEF TokenAt
<1>7. TextIn(Begins) = Semicolon
  <2>1. Begins \in DOMAIN draft.tokens => Begins # 0
    BY <1>1
  <2> QED
    BY <1>2, <2>1 DEF TextIn, Text
<1> QED
  BY <1>4, <1>5, <1>6, <1>7

(* What a table and its alias end before.                                    *)
LEMMA EndsOfTables ==
  ASSUME OfferInv, RangesAreDeclared(draft),
         NEW i \in 1..Len(Here), Begins + i \in Namings(draft),
         NEW x \in 1..Len(Here), Here[x] = Comma
  PROVE  EndAt(Here, i) = x <=>
           \/ i = x - 1
           \/ Begins + x - 1 \in Aliases /\ Begins + i \in NamingsBehind(Begins + x - 1)
<1> DEFINE p == Begins + x - 1
<1>1. /\ Begins \in Nat /\ Len(Here) \in Nat
      /\ \A k \in 1..Len(Here) : /\ Begins + k \in DOMAIN draft.tokens
                                 /\ TokenAt(Here, k) = TextIn(Begins + k)
      /\ \A k : k \notin 1..Len(Here) => TokenAt(Here, k) = Semicolon
      /\ TokenAt(Here, x) = Comma
  BY HereFacts
<1>2. ~NoKeyword(Comma) /\ ~NoKeyword(Semicolon) /\ Comma # "AS" /\ Semicolon # "AS"
      /\ ~NoKeyword("AS")
  BY WordFacts
<1>3. ASSUME EndAt(Here, i) = x, HasAlias(Here, i)
      PROVE  p \in Aliases /\ Begins + i \in NamingsBehind(p)
  <2>1. AliasAt(Here, i) = x - 1 /\ NoKeyword(TokenAt(Here, x - 1))
    <3>1. AliasAt(Here, i) + 1 = x /\ NoKeyword(TokenAt(Here, AliasAt(Here, i)))
      BY <1>3 DEF EndAt, HasAlias
    <3>2. AliasAt(Here, i) \in Nat
      BY DEF AliasAt
    <3>3. AliasAt(Here, i) = x - 1
      BY <3>1, <3>2
    <3> QED
      BY <3>1, <3>3
  <2>2. x - 1 \in 1..Len(Here)
    BY <1>1, <1>2, <2>1
  <2>3. Begins + (x - 1) = p /\ p \in DOMAIN draft.tokens /\ NoKeyword(TextIn(p))
    <3>1. Begins + (x - 1) = p
      BY <1>1
    <3> QED
      BY <1>1, <2>1, <2>2, <3>1
  <2>4. \/ i + 1 = x - 1
        \/ i + 2 = x - 1 /\ TokenAt(Here, i + 1) = "AS"
    BY <2>1 DEF AliasAt
  <2>5. \/ Begins + i = p - 1
        \/ Begins + i = p - 2 /\ TextIn(p - 1) = "AS"
    <3>1. CASE i + 1 = x - 1
      BY <1>1, <3>1
    <3>2. CASE i + 2 = x - 1 /\ TokenAt(Here, i + 1) = "AS"
      <4>1. i + 1 \in 1..Len(Here) /\ Begins + (i + 1) = p - 1 /\ Begins + i = p - 2
        BY <1>1, <3>2
      <4> QED
        BY <1>1, <3>2, <4>1
    <3> QED
      BY <2>4, <3>1, <3>2
  <2>6. Begins + i \in NamingsBehind(p)
    BY <2>5 DEF NamingsBehind
  <2> QED
    BY <2>3, <2>6, RangeFacts
<1>4. ASSUME EndAt(Here, i) = x, ~HasAlias(Here, i) PROVE i = x - 1
  <2>1. AliasAt(Here, i) = x
    BY <1>4 DEF EndAt
  <2>2. CASE TokenAt(Here, i + 1) = "AS"
    <3>1. i + 2 = x /\ i + 1 \in 1..Len(Here)
      BY <2>1, <2>2, <1>1 DEF AliasAt
    <3> DEFINE a == Begins + (i + 1)
    <3>2. /\ a \in DOMAIN draft.tokens /\ TextIn(a) = "AS"
          /\ a - 1 = Begins + i /\ a + 1 = Begins + x
      BY <1>1, <2>2, <3>1
    <3> HIDE DEF a
    <3>3. Begins + x \in Aliases
      <4>1. TextIn(a) = "AS" /\ a - 1 \in Namings(draft) => a + 1 \in Aliases
        BY <3>2, RangeFacts
      <4> QED
        BY <3>2, <4>1
    <3>4. NoKeyword(TextIn(Begins + x))
      BY <3>3, <1>1, RangeFacts
    <3> QED
      BY <1>1, <1>2, <3>4
  <2>3. CASE TokenAt(Here, i + 1) # "AS"
    BY <2>1, <2>3 DEF AliasAt
  <2> QED
    BY <2>2, <2>3
<1>5. ASSUME i = x - 1 PROVE EndAt(Here, i) = x
  <2>1. i + 1 = x
    BY <1>5
  <2>2. AliasAt(Here, i) = x
    BY <1>1, <1>2, <2>1 DEF AliasAt
  <2> QED
    BY <1>1, <1>2, <2>2 DEF EndAt, HasAlias
<1>6. ASSUME p \in Aliases, Begins + i \in NamingsBehind(p) PROVE EndAt(Here, i) = x
  <2>1. NoKeyword(TextIn(p)) /\ p \in DOMAIN draft.tokens
    BY <1>6, RangeFacts DEF Aliases
  <2>2. \/ Begins + i = p - 1
        \/ Begins + i = p - 2 /\ TextIn(p - 1) = "AS"
    BY <1>6 DEF NamingsBehind
  <2>3. CASE Begins + i = p - 1
    <3>1. i + 1 = x - 1 /\ x - 1 \in 1..Len(Here) /\ Begins + (x - 1) = p
      BY <1>1, <2>3
    <3>2. NoKeyword(TokenAt(Here, i + 1))
      BY <1>1, <2>1, <3>1
    <3>3. AliasAt(Here, i) = i + 1
      BY <1>2, <3>2 DEF AliasAt
    <3>4. EndAt(Here, i) = i + 1 + 1
      BY <3>2, <3>3 DEF EndAt, HasAlias
    <3> QED
      BY <3>1, <3>4
  <2>4. CASE Begins + i = p - 2 /\ TextIn(p - 1) = "AS"
    <3>1. /\ i + 2 = x - 1 /\ x - 1 \in 1..Len(Here) /\ Begins + (x - 1) = p
          /\ i + 1 \in 1..Len(Here) /\ Begins + (i + 1) = p - 1
      BY <1>1, <2>4
    <3>2. TokenAt(Here, i + 1) = "AS" /\ NoKeyword(TokenAt(Here, i + 2))
      BY <1>1, <2>1, <2>4, <3>1
    <3>3. AliasAt(Here, i) = i + 2
      BY <3>2 DEF AliasAt
    <3>4. EndAt(Here, i) = i + 2 + 1
      BY <3>2, <3>3 DEF EndAt, HasAlias
    <3> QED
      BY <3>1, <3>4
  <2> QED
    BY <2>2, <2>3, <2>4
<1> QED
  BY <1>3, <1>4, <1>5, <1>6

(* A name that is declared in the document from the place on where the       *)
(* statement begins is behind that place.                                    *)
LEMMA BehindBeginning ==
  ASSUME OfferInv, RangesAreDeclared(draft), NEW p \in Declarations(draft), p >= Begins
  PROVE  p > Begins
<1>1. TextIn(p) # Semicolon /\ TextIn(Begins) = Semicolon /\ Begins \in Nat
  BY DeclaredFacts, HereFacts
<1>2. p \in Nat
  BY DeclaredFacts, DraftFacts
<1> QED
  BY <1>1, <1>2

(* The table before an alias of the statement is in the statement too.       *)
LEMMA NamingIsNear ==
  ASSUME OfferInv, RangesAreDeclared(draft),
         NEW p \in Aliases, p > Begins, NEW q \in NamingsBehind(p)
  PROVE  q > Begins /\ q < p /\ q \in Namings(draft)
<1>1. /\ q \in Namings(draft) /\ q \in Declarations(draft)
      /\ \/ q = p - 1
         \/ q = p - 2 /\ TextIn(p - 1) = "AS"
  BY DeclaredFacts DEF NamingsBehind
<1>2. p \in Nat /\ Begins \in Nat /\ TextIn(Begins) = Semicolon
  BY DeclaredFacts, DraftFacts, HereFacts
<1>3. q >= Begins
  <2>1. CASE q = p - 1
    BY <1>2, <2>1
  <2>2. CASE q = p - 2 /\ TextIn(p - 1) = "AS"
    <3>1. p - 1 # Begins
      BY <1>2, <2>2, WordFacts
    <3> QED
      BY <1>2, <2>2, <3>1
  <2> QED
    BY <1>1, <2>1, <2>2
<1>4. q > Begins
  BY <1>1, <1>3, BehindBeginning
<1> QED
  BY <1>1, <1>2, <1>4

(* The tables that scope reads are the words that name relations.            *)
LEMMA TablesAreNamings ==
  ASSUME OfferInv, RangesAreDeclared(draft)
  PROVE  \A i \in 1..Len(Here) : i \in Tables(Here) <=> Begins + i \in Namings(draft)
<1> DEFINE Wrong == {i \in 1..Len(Here) :
                       ~(i \in Tables(Here) <=> Begins + i \in Namings(draft))}
<1>1. /\ Begins \in Nat /\ Len(Here) \in Nat
      /\ \A k \in 1..Len(Here) : /\ Begins + k \in DOMAIN draft.tokens
                                 /\ Here[k] = TextIn(Begins + k)
      /\ TextIn(Begins) = Semicolon
  BY HereFacts
<1>2. SUFFICES ASSUME Wrong # {} PROVE FALSE
  OBVIOUS
<1>3. PICK i \in Wrong : \A k \in Wrong : i <= k
  <2>1. Wrong \subseteq Nat
    BY <1>1
  <2> HIDE DEF Wrong
  <2> QED
    BY <1>2, <2>1, LeastNumber
<1>4. i \in 1..Len(Here)
  OBVIOUS
<1>5. \A j \in 1..(i - 1) : j \in Tables(Here) <=> Begins + j \in Namings(draft)
  <2>1. \A j \in 1..(i - 1) : j \in 1..Len(Here) /\ j \notin Wrong
    BY <1>1, <1>3
  <2> QED
    BY <2>1
<1>6. ~(i \in Tables(Here) <=> Begins + i \in Namings(draft))
  OBVIOUS
<1> HIDE DEF Wrong
<1>7. /\ Tables(Here) \subseteq 1..Len(Here)
      /\ i \in Tables(Here) <=>
           i > 1 /\ NoKeyword(Here[i]) /\ FollowsTable(Here, i)
  BY <1>1, <1>4, TablesFacts
<1> DEFINE p == Begins + i
<1>8. /\ p \in DOMAIN draft.tokens /\ TextIn(p) = Here[i] /\ p \in Nat /\ p > Begins
  BY <1>1, <1>4
<1>9. p \in Namings(draft) <=>
        /\ NoKeyword(TextIn(p))
        /\ \/ TextIn(p - 1) \in Starters
           \/ TextIn(p - 1) = Comma /\ p - 2 \in Namings(draft) \cup Aliases
  BY <1>8, RangeFacts
<1>10. CASE i = 1
  <2>1. TextIn(p - 1) = Semicolon
    BY <1>1, <1>10
  <2> QED
    BY <1>6, <1>7, <1>9, <1>10, <2>1, WordFacts
<1>11. CASE i # 1
  <2> DEFINE x == i - 1
  <2>1. /\ x \in 1..Len(Here) /\ x \in Nat /\ Here[x] = TextIn(p - 1)
        /\ Begins + x - 1 = p - 2 /\ Begins + x = p - 1
    <3>1. x \in 1..Len(Here) /\ Begins + x = p - 1 /\ Begins + x - 1 = p - 2
      BY <1>1, <1>4, <1>11
    <3> QED
      BY <1>1, <3>1
  <2>2. ASSUME Here[x] = Comma, NEW j \in Tables(Here), EndAt(Here, j) = x
        PROVE  p - 2 \in Namings(draft) \cup Aliases
    <3>1. j \in 1..Len(Here) /\ j < i
      <4>1. j \in 1..Len(Here)
        BY <1>7
      <4>2. EndAt(Here, j) > j
        BY <4>1 DEF EndAt, AliasAt
      <4> QED
        BY <2>2, <4>1, <4>2, <1>4
    <3>2. Begins + j \in Namings(draft)
      BY <1>4, <1>5, <3>1
    <3>3. \/ j = x - 1
          \/ Begins + x - 1 \in Aliases
      BY <2>1, <2>2, <3>1, <3>2, EndsOfTables
    <3>4. j = x - 1 => Begins + j = p - 2
      BY <1>1, <2>1, <3>1
    <3> QED
      BY <2>1, <3>2, <3>3, <3>4
  <2>3. ASSUME Here[x] = Comma, p - 2 \in Namings(draft) \cup Aliases
        PROVE  \E j \in Tables(Here) : EndAt(Here, j) = x
    <3>1. p - 2 > Begins /\ p - 2 \in DOMAIN draft.tokens
      <4>1. p - 2 \in Declarations(draft) /\ p - 2 >= Begins
        BY <1>1, <1>8, <2>1, <2>3, DeclaredFacts
      <4> QED
        BY <4>1, BehindBeginning, DeclaredFacts
    <3>2. PICK q \in Namings(draft) :
            /\ q > Begins /\ q < p - 1
            /\ \/ q = p - 2
               \/ p - 2 \in Aliases /\ q \in NamingsBehind(p - 2)
      <4>1. CASE p - 2 \in Namings(draft)
        BY <1>8, <3>1, <4>1
      <4>2. CASE p - 2 \in Aliases
        <5>1. NamingsBehind(p - 2) # {}
          BY <3>1, <4>2, RangeFacts
        <5>2. PICK q \in NamingsBehind(p - 2) : TRUE
          BY <5>1
        <5>3. q > Begins /\ q < p - 2 /\ q \in Namings(draft)
          BY <3>1, <4>2, NamingIsNear
        <5>4. q \in Nat
          BY <5>3, DeclaredFacts, DraftFacts
        <5>5. q < p - 1
          BY <1>8, <5>3, <5>4
        <5> QED
          BY <4>2, <5>3, <5>5
      <4> QED
        BY <2>3, <4>1, <4>2
    <3> DEFINE j == q - Begins
    <3>3. q \in Nat
      BY DeclaredFacts, DraftFacts
    <3>4. /\ j \in 1..(i - 1) /\ j \in 1..Len(Here) /\ Begins + j = q
          /\ q = p - 2 => j = x - 1
      BY <1>1, <1>4, <3>2, <3>3
    <3> HIDE DEF j
    <3>5. j \in Tables(Here)
      BY <1>5, <3>4
    <3>6. EndAt(Here, j) = x
      BY <2>1, <2>3, <3>2, <3>4, EndsOfTables
    <3> QED
      BY <3>5, <3>6
  <2>4. FollowsTable(Here, i) <=>
          \/ Here[x] \in Starters
          \/ Here[x] = Comma /\ \E j \in Tables(Here) : EndAt(Here, j) = x
    BY DEF FollowsTable
  <2>5. i > 1
    BY <1>4, <1>11
  <2> HIDE DEF x
  <2> QED
    BY <1>6, <1>7, <1>8, <1>9, <2>1, <2>2, <2>3, <2>4, <2>5
<1> QED
  BY <1>10, <1>11

(* What scope binds are the names that are declared in the statement.        *)
LEMMA BindingsFacts ==
  ASSUME OfferInv, RangesAreDeclared(draft)
  PROVE  /\ \A c \in Bindings(Here) :
              /\ c[1] \in 1..Len(Here)
              /\ Begins + c[1] \in Declarations(draft)
              /\ c[2] = TextIn(Begins + c[1])
              /\ draft.tokens[Begins + c[1]].of = {c[3]}
         /\ \A i \in 1..Len(Here) : Begins + i \in Declarations(draft) =>
              \E c \in Bindings(Here) : c[1] = i
<1>1. /\ Begins \in Nat /\ Len(Here) \in Nat
      /\ \A k \in 1..Len(Here) : /\ Begins + k \in DOMAIN draft.tokens
                                 /\ Here[k] = TextIn(Begins + k)
                                 /\ TokenAt(Here, k) = TextIn(Begins + k)
      /\ \A k : k \notin 1..Len(Here) => TokenAt(Here, k) = Semicolon
      /\ TextIn(Begins) = Semicolon
  BY HereFacts
<1>2. /\ Tables(Here) \subseteq 1..Len(Here)
      /\ \A i \in Tables(Here) : Begins + i \in Namings(draft)
      /\ \A i \in 1..Len(Here) : Begins + i \in Namings(draft) => i \in Tables(Here)
  BY <1>1, TablesFacts, TablesAreNamings
<1>3. ASSUME NEW i \in Tables(Here)
      PROVE  /\ i \in 1..Len(Here)
             /\ Begins + i \in Declarations(draft)
             /\ Here[i] = TextIn(Begins + i)
             /\ draft.tokens[Begins + i].of = {Here[i]}
  <2>1. /\ i \in 1..Len(Here) /\ Begins + i \in Namings(draft)
        /\ Here[i] = TextIn(Begins + i) /\ Begins + i \in DOMAIN draft.tokens
    BY <1>1, <1>2
  <2>2. draft.tokens[Begins + i].of = {TextIn(Begins + i)}
    BY <2>1, RangeFacts
  <2> QED
    BY <2>1, <2>2, DeclaredFacts
<1>4. ASSUME NEW i \in Tables(Here), HasAlias(Here, i)
      PROVE  /\ AliasAt(Here, i) \in 1..Len(Here)
             /\ Begins + AliasAt(Here, i) \in Declarations(draft)
             /\ Here[AliasAt(Here, i)] = TextIn(Begins + AliasAt(Here, i))
             /\ draft.tokens[Begins + AliasAt(Here, i)].of = {Here[i]}
  <2> DEFINE a == AliasAt(Here, i)
             p == Begins + a
  <2>1. a \in 1..Len(Here) /\ NoKeyword(TokenAt(Here, a))
    <3>1. NoKeyword(TokenAt(Here, a))
      BY <1>4 DEF HasAlias
    <3> QED
      BY <1>1, <3>1, WordFacts
  <2>2. \/ a = i + 1
        \/ a = i + 2 /\ TokenAt(Here, i + 1) = "AS"
    BY DEF AliasAt
  <2> HIDE DEF a
  <2>3. p \in DOMAIN draft.tokens /\ NoKeyword(TextIn(p)) /\ Here[a] = TextIn(p)
    BY <1>1, <2>1
  <2>4. /\ i \in 1..Len(Here) /\ Begins + i \in Namings(draft)
        /\ TextIn(Begins + i) = Here[i]
    BY <1>1, <1>2
  <2>5. \/ Begins + i = p - 1
        \/ Begins + i = p - 2 /\ TextIn(p - 1) = "AS"
    <3>1. CASE a = i + 1
      BY <1>1, <2>4, <3>1
    <3>2. CASE a = i + 2 /\ TokenAt(Here, i + 1) = "AS"
      <4>1. i + 1 \in 1..Len(Here) /\ Begins + (i + 1) = p - 1 /\ Begins + i = p - 2
        BY <1>1, <2>1, <2>4, <3>2
      <4> QED
        BY <1>1, <3>2, <4>1
    <3> QED
      BY <2>2, <3>1, <3>2
  <2>6. Begins + i \in NamingsBehind(p)
    BY <2>4, <2>5 DEF NamingsBehind
  <2> HIDE DEF p
  <2>7. p \in Aliases /\ draft.tokens[p].of = {TextIn(Begins + i)}
    BY <2>3, <2>6, RangeFacts
  <2> QED
    BY <2>1, <2>3, <2>4, <2>7, DeclaredFacts DEF a, p
<1>5. ASSUME NEW c \in Bindings(Here)
      PROVE  /\ c[1] \in 1..Len(Here)
             /\ Begins + c[1] \in Declarations(draft)
             /\ c[2] = TextIn(Begins + c[1])
             /\ draft.tokens[Begins + c[1]].of = {c[3]}
  <2>1. CASE \E i \in Tables(Here) : c = <<i, Here[i], Here[i]>>
    BY <1>3, <2>1
  <2>2. CASE \E i \in Tables(Here) :
               /\ HasAlias(Here, i)
               /\ c = <<AliasAt(Here, i), Here[AliasAt(Here, i)], Here[i]>>
    BY <1>4, <2>2
  <2> QED
    BY <2>1, <2>2 DEF Bindings
<1>6. ASSUME NEW i \in 1..Len(Here), Begins + i \in Declarations(draft)
      PROVE  \E c \in Bindings(Here) : c[1] = i
  <2>1. CASE Begins + i \in Namings(draft)
    <3>1. i \in Tables(Here)
      BY <1>2, <2>1
    <3>2. <<i, Here[i], Here[i]>> \in Bindings(Here)
      BY <3>1 DEF Bindings
    <3> QED
      BY <3>2
  <2>2. CASE Begins + i \in Aliases
    <3> DEFINE p == Begins + i
    <3>1. p > Begins /\ p \in DOMAIN draft.tokens /\ p \in Nat
      BY <1>1
    <3>2. PICK q \in NamingsBehind(p) : TRUE
      BY <2>2, <3>1, RangeFacts
    <3>3. q > Begins /\ q < p /\ q \in Namings(draft) /\ q \in Nat
      BY <2>2, <3>1, NamingIsNear, DeclaredFacts, DraftFacts
    <3> DEFINE j == q - Begins
    <3>4. j \in 1..Len(Here) /\ Begins + j = q /\ j < i
      BY <1>1, <3>3
    <3>5. j \in Tables(Here)
      <4>1. Begins + j \in Namings(draft)
        BY <3>3, <3>4
      <4> HIDE DEF j, p
      <4> QED
        BY <1>2, <3>4, <4>1
    <3>6. NoKeyword(TokenAt(Here, i))
      BY <1>1, <2>2, <3>1, RangeFacts
    <3>7. AliasAt(Here, j) = i
      <4>1. CASE q = p - 1
        <5>1. j + 1 = i
          BY <1>1, <3>3, <4>1
        <5>2. TokenAt(Here, j + 1) # "AS"
          BY <3>6, <5>1, WordFacts
        <5> QED
          BY <5>1, <5>2 DEF AliasAt
      <4>2. CASE q = p - 2 /\ TextIn(p - 1) = "AS"
        <5>1. j + 2 = i /\ Begins + (j + 1) = p - 1
          BY <1>1, <3>3, <4>2
        <5>3. j + 1 \in 1..Len(Here)
          BY <1>1, <3>4, <5>1
        <5>2. TokenAt(Here, j + 1) = "AS"
          BY <1>1, <4>2, <5>1, <5>3
        <5> QED
          BY <5>1, <5>2 DEF AliasAt
      <4> QED
        BY <4>1, <4>2 DEF NamingsBehind
    <3>8. HasAlias(Here, j)
      BY <3>6, <3>7 DEF HasAlias
    <3>9. <<i, Here[i], Here[j]>> \in Bindings(Here)
      BY <3>5, <3>7, <3>8 DEF Bindings
    <3> QED
      BY <3>9
  <2> QED
    BY <1>6, <2>1, <2>2, DeclaredFacts
<1> QED
  BY <1>5, <1>6
-----------------------------------------------------------------------------
(* What the names of the statement resolve to.                               *)
LEMMA TogetherInStatement ==
  ASSUME OfferInv, NEW p \in Nat, NEW q \in Nat,
         Begins < p, p < Ends, Begins < q, q < Ends
  PROVE  SameStatement(draft, p, q)
<1>1. \A k \in (Begins + 1)..(Ends - 1) : Text(k) # Semicolon
  BY StatementBounds
<1>2. Begins \in Nat /\ Ends \in Nat
  BY HereFacts
<1>3. \A k \in p..(q - 1) \cup q..(p - 1) : k \in (Begins + 1)..(Ends - 1)
  BY <1>2
<1> QED
  BY <1>1, <1>3 DEF SameStatement, Text

(* The scope leads a name that is declared in the statement to the relation  *)
(* that it is declared for.                                                  *)
LEMMA ScopeFacts ==
  ASSUME OfferInv, RangesAreDeclared(draft), NamesAreUnambiguous(draft),
         NEW p \in Declarations(draft), Begins < p, p < Ends
  PROVE  /\ TextIn(p) \in DOMAIN Scope(Here)
         /\ draft.tokens[p].of = {Scope(Here)[TextIn(p)]}
<1> DEFINE n == TextIn(p)
           named == {b \in Bindings(Here) : b[2] = n}
           places == {b[1] : b \in named}
           Newest == CHOOSE b \in Bindings(Here) :
                       b[2] = n /\ \A c \in Bindings(Here) : c[2] = n => c[1] <= b[1]
<1>1. /\ Begins \in Nat /\ Len(Here) \in Nat /\ Ends = Begins + Len(Here) + 1
      /\ p \in Nat /\ p \in DOMAIN draft.tokens
  BY HereFacts, DeclaredFacts, DraftFacts
<1>2. /\ \A c \in Bindings(Here) :
           /\ c[1] \in 1..Len(Here)
           /\ Begins + c[1] \in Declarations(draft)
           /\ c[2] = TextIn(Begins + c[1])
           /\ draft.tokens[Begins + c[1]].of = {c[3]}
      /\ \A i \in 1..Len(Here) : Begins + i \in Declarations(draft) =>
           \E c \in Bindings(Here) : c[1] = i
  BY BindingsFacts
<1>3. named # {}
  <2>1. p - Begins \in 1..Len(Here) /\ Begins + (p - Begins) = p
    BY <1>1
  <2>2. PICK c \in Bindings(Here) : c[1] = p - Begins
    BY <1>2, <2>1
  <2>3. c[2] = n
    BY <1>2, <2>1, <2>2
  <2> QED
    BY <2>2, <2>3
<1>4. /\ Newest \in Bindings(Here) /\ Newest[2] = n
  <2>1. places \subseteq 0..Len(Here) /\ places # {}
    BY <1>1, <1>2, <1>3
  <2>2. Max(places) \in places /\ \A k \in places : k <= Max(places)
    <3> HIDE DEF places
    <3> QED
      BY <1>1, <2>1, GreatestNumber
  <2>3. PICK b \in named : b[1] = Max(places)
    BY <2>2
  <2>4. \A c \in Bindings(Here) : c[2] = n => c[1] <= b[1]
    <3>1. ASSUME NEW c \in Bindings(Here), c[2] = n PROVE c[1] \in places
      BY <3>1
    <3> HIDE DEF places
    <3> QED
      BY <2>2, <2>3, <3>1
  <2>5. b \in Bindings(Here) /\ b[2] = n
    OBVIOUS
  <2> HIDE DEF n
  <2> QED
    BY <2>4, <2>5
<1> HIDE DEF Newest
<1>5. n \in {b[2] : b \in Bindings(Here)}
  BY <1>4
<1>6. n \in DOMAIN Scope(Here) /\ Scope(Here)[n] = Newest[3]
  <2> HIDE DEF n
  <2> QED
    BY <1>5 DEF Scope, Newest
<1> DEFINE q == Begins + Newest[1]
<1>7. /\ q \in Declarations(draft) /\ TextIn(q) = n /\ draft.tokens[q].of = {Newest[3]}
      /\ Newest[1] \in 1..Len(Here)
  BY <1>2, <1>4
<1>8. q \in Nat /\ Begins < q /\ q < Ends
  BY <1>1, <1>7
<1> HIDE DEF q
<1>9. SameStatement(draft, p, q)
  BY <1>1, <1>8, TogetherInStatement
<1>10. draft.tokens[p].text = TextIn(p) /\ draft.tokens[q].text = TextIn(q)
  BY <1>1, <1>7, DeclaredFacts DEF TextIn
<1>11. draft.tokens[p].of = draft.tokens[q].of
  BY <1>7, <1>9, <1>10 DEF NamesAreUnambiguous
<1> QED
  BY <1>6, <1>7, <1>11

(* If there are query-local relations, there is one statement.               *)
LEMMA LocalFacts ==
  ASSUME OfferInv, NamesAreUnambiguous(draft), Slot \in DOMAIN draft.tokens
  PROVE  OwnLocals = DOMAIN draft.locals /\ OwnTables = LocalTables
<1>1. ASSUME NEW k \in DOMAIN draft.locals
      PROVE  draft.locals[k].statement = StatementOf(Slot)
  <2>1. /\ draft.locals[k].statement = 1
        /\ \A i \in DOMAIN draft.tokens : draft.tokens[i].text # Semicolon
    BY DEF NamesAreUnambiguous
  <2>2. \A j \in 1..(Slot - 1) : j \in DOMAIN draft.tokens
    BY DraftFacts
  <2>3. {j \in 1..(Slot - 1) : Text(j) = Semicolon} = {}
    BY <2>1, <2>2 DEF Text
  <2>4. Cardinality({j \in 1..(Slot - 1) : Text(j) = Semicolon}) = 0
    BY <2>3, FS_EmptySet
  <2> QED
    BY <2>1, <2>4 DEF StatementOf
<1>2. OwnLocals = DOMAIN draft.locals
  BY <1>1 DEF OwnLocals
<1>3. LocalTables \subseteq DOMAIN draft.locals
  BY DEF LocalTables
<1> QED
  BY <1>2, <1>3 DEF OwnTables

(* resolve_table finds what a declared name stands for.                      *)
LEMMA ResolvesToColumns ==
  ASSUME OfferInv, RangesAreDeclared(draft), NamesAreUnambiguous(draft),
         Slot \in DOMAIN draft.tokens,
         NEW p \in Declarations(draft), Begins < p, p < Ends,
         NEW r, draft.tokens[p].of = {r}
  PROVE  UNION ResolveTable(TextIn(p), Scope(Here)) = Columns(r)
<1> DEFINE n == TextIn(p)
           scope == Scope(Here)
           own == {i \in LocalTables : draft.locals[i].name = n}
           via == IF n \in DOMAIN scope THEN Indexed(scope[n]) ELSE {}
           locals == {draft.locals[k].name : k \in DOMAIN draft.locals}
<1>1. n \in DOMAIN scope /\ scope[n] = r
  BY ScopeFacts
<1>2. OwnLocals = DOMAIN draft.locals /\ OwnTables = LocalTables
  BY LocalFacts
<1>3. /\ IF n \in locals THEN p \in Namings(draft) ELSE {r} \subseteq DOMAIN Schema
      /\ locals \cap DOMAIN Schema = {}
      /\ \A k, l \in DOMAIN draft.locals :
           draft.locals[k].name = draft.locals[l].name => k = l
  <2>1. n = draft.tokens[p].text
    BY DeclaredFacts DEF TextIn
  <2> QED
    BY <2>1 DEF NamesAreUnambiguous
<1>4. NamesOf(OwnLocals) = locals
  BY <1>2 DEF NamesOf
<1>5. /\ own \subseteq DOMAIN draft.locals /\ own \subseteq Nat
      /\ own # {} => Min(own) \in own
  BY DraftFacts, MinIsLeast DEF LocalTables
<1>6. ResolveTable(n, scope) =
        IF own # {} THEN {draft.locals[Min(own)].columns}
        ELSE IF via # {} THEN via
        ELSE Indexed(n)
  BY DEF ResolveTable
<1>7. CASE n \in locals
  <2>1. r = n
    <3>1. p \in Namings(draft) /\ p \in DOMAIN draft.tokens
      BY <1>3, <1>7, DeclaredFacts
    <3>2. draft.tokens[p].of = {n}
      BY <3>1, RangeFacts
    <3> QED
      BY <3>2
  <2>2. Columns(r) = UNION {draft.locals[i].columns : i \in own}
    BY <1>2, <1>4, <1>7, <2>1 DEF Columns
  <2>3. CASE own = {}
    <3>1. Indexed(n) = {}
      BY <1>3, <1>7 DEF Indexed
    <3>2. ResolveTable(n, scope) = {}
      <4> HIDE DEF own, n, scope
      <4> QED
        BY <1>1, <1>6, <2>1, <2>3, <3>1
    <3> QED
      BY <2>2, <2>3, <3>2
  <2>4. CASE own # {}
    <3>1. \A i \in own : i = Min(own)
      <4>1. \A i \in own : draft.locals[i].name = n
        OBVIOUS
      <4> HIDE DEF own
      <4> QED
        BY <1>3, <1>5, <2>4, <4>1
    <3>2. ResolveTable(n, scope) = {draft.locals[Min(own)].columns}
      BY <1>6, <2>4
    <3> HIDE DEF own
    <3>3. own = {Min(own)}
      BY <1>5, <2>4, <3>1
    <3>4. {draft.locals[i].columns : i \in own} = {draft.locals[Min(own)].columns}
      BY <3>1, <1>5, <2>4
    <3> QED
      BY <2>2, <3>2, <3>4
  <2> QED
    BY <2>3, <2>4
<1>8. CASE n \notin locals
  <2>1. r \in DOMAIN Schema /\ r \notin locals
    BY <1>3, <1>8
  <2>2. own = {}
    BY <1>5, <1>8
  <2>3. via = {Schema[r]}
    BY <1>1, <2>1 DEF Indexed
  <2>4. ResolveTable(n, scope) = {Schema[r]}
    <3> HIDE DEF own, via, n, scope
    <3> QED
      BY <1>6, <2>2, <2>3
  <2>5. Columns(r) = Schema[r]
    BY <1>4, <2>1 DEF Columns
  <2> QED
    BY <2>4, <2>5
<1> QED
  BY <1>7, <1>8
-----------------------------------------------------------------------------
(* Counting parentheses, from a place to the right.                          *)
LEMMA CountFacts ==
  ASSUME NEW tokens, NEW t, NEW y \in Nat, NEW x \in Nat
  PROVE  /\ Count(tokens, t, y, x) \in Nat
         /\ (\A i \in y..x : tokens[i] # t) => Count(tokens, t, y, x) = 0
         /\ y <= x => Count(tokens, t, y, x) =
              IF tokens[y] = t THEN Count(tokens, t, y + 1, x) + 1
              ELSE Count(tokens, t, y + 1, x)
<1> DEFINE All(z) == {i \in z..x : tokens[i] = t}
<1>1. ASSUME NEW z \in Nat PROVE IsFiniteSet(All(z)) /\ Cardinality(All(z)) \in Nat
  <2>1. IsFiniteSet(z..x)
    BY FS_Interval
  <2>2. All(z) \subseteq z..x
    OBVIOUS
  <2> QED
    BY <2>1, <2>2, FS_Subset, FS_CardinalityType
<1>2. (\A i \in y..x : tokens[i] # t) => All(y) = {}
  OBVIOUS
<1>3. ASSUME y <= x
      PROVE  Cardinality(All(y)) = IF tokens[y] = t THEN Cardinality(All(y + 1)) + 1
                                   ELSE Cardinality(All(y + 1))
  <2>1. y \in y..x /\ y \notin (y + 1)..x /\ \A i \in y..x : i = y \/ i \in (y + 1)..x
    BY <1>3
  <2>2. \A i \in (y + 1)..x : i \in y..x
    OBVIOUS
  <2>3. CASE tokens[y] = t
    <3>1. All(y) = All(y + 1) \cup {y} /\ y \notin All(y + 1)
      BY <2>1, <2>2, <2>3
    <3>2. IsFiniteSet(All(y + 1))
      BY <1>1
    <3> HIDE DEF All
    <3> QED
      BY <2>3, <3>1, <3>2, FS_AddElement
  <2>4. CASE tokens[y] # t
    <3>1. All(y) = All(y + 1)
      BY <2>1, <2>2, <2>4
    <3> HIDE DEF All
    <3> QED
      BY <2>4, <3>1
  <2> QED
    BY <2>3, <2>4
<1>4. Count(tokens, t, y, x) = Cardinality(All(y))
      /\ Count(tokens, t, y + 1, x) = Cardinality(All(y + 1))
  BY DEF Count
<1>5. Cardinality(All(y)) \in Nat
  BY <1>1
<1> HIDE DEF All
<1> QED
  BY <1>2, <1>3, <1>4, <1>5, FS_EmptySet

(* When a parenthesis closes first but as many are closed as are opened, one *)
(* of those opened later is the last before those that match.                *)
LEMMA OpensAgain ==
  ASSUME NEW tokens, NEW i \in Nat, NEW x \in Nat, NEW m \in (i + 1)..x,
         tokens[m] = ")",
         \A k \in (i + 1)..(m - 1) : tokens[k] \notin {"(", ")"},
         Count(tokens, "(", i + 1, x) = Count(tokens, ")", i + 1, x)
  PROVE  \E y \in (m + 1)..x :
           tokens[y] = "(" /\ Count(tokens, "(", y + 1, x) = Count(tokens, ")", y + 1, x)
<1> DEFINE Opened(z) == Count(tokens, "(", z, x)
           Closed(z) == Count(tokens, ")", z, x)
           More == {z \in (m + 1)..x : Closed(z) < Opened(z)}
<1>1. m \in Nat /\ m <= x /\ i + 1 <= m
  OBVIOUS
<1>2. ASSUME NEW z \in Nat
      PROVE  /\ Opened(z) \in Nat /\ Closed(z) \in Nat
             /\ z > x => Opened(z) = 0 /\ Closed(z) = 0
             /\ z <= x => /\ Opened(z) = IF tokens[z] = "(" THEN Opened(z + 1) + 1
                                         ELSE Opened(z + 1)
                          /\ Closed(z) = IF tokens[z] = ")" THEN Closed(z + 1) + 1
                                         ELSE Closed(z + 1)
  <2>1. z > x => z..x = {}
    OBVIOUS
  <2> QED
    BY <2>1, CountFacts
<1>3. Opened(i + 1) = Opened(m) /\ Closed(i + 1) = Closed(m)
  <2>1. \A k \in (i + 1)..x : k \in m..x \/ k \in (i + 1)..(m - 1)
    BY <1>1
  <2>2. \A k \in m..x : k \in (i + 1)..x
    BY <1>1
  <2>3. {k \in (i + 1)..x : tokens[k] = "("} = {k \in m..x : tokens[k] = "("}
    BY <2>1, <2>2
  <2>4. {k \in (i + 1)..x : tokens[k] = ")"} = {k \in m..x : tokens[k] = ")"}
    BY <2>1, <2>2
  <2> QED
    BY <2>3, <2>4 DEF Count
<1>4. Closed(m + 1) < Opened(m + 1)
  <2> HIDE DEF Opened, Closed
  <2>1. Opened(m) = Opened(m + 1) /\ Closed(m) = Closed(m + 1) + 1
    BY <1>1, <1>2
  <2>2. m + 1 \in Nat /\ Opened(i + 1) = Closed(i + 1)
    BY <1>1 DEF Opened, Closed
  <2> QED
    BY <1>2, <1>3, <2>1, <2>2
<1>5. m + 1 \in More
  <2> HIDE DEF Opened, Closed
  <2>1. m + 1 <= x
    BY <1>1, <1>2, <1>4
  <2> QED
    BY <1>1, <1>4, <2>1
<1>6. PICK y \in More : \A z \in More : z <= y
  <2>1. More \subseteq 0..x
    BY <1>1
  <2> HIDE DEF More
  <2> QED
    BY <1>5, <2>1, GreatestNumber
<1>7. y \in (m + 1)..x /\ Closed(y) < Opened(y) /\ y \in Nat
  BY <1>1
<1>8. Opened(y + 1) <= Closed(y + 1)
  <2>1. CASE y = x
    <3>1. y + 1 \in Nat /\ y + 1 > x
      BY <1>7, <2>1
    <3> HIDE DEF Opened, Closed
    <3> QED
      BY <1>2, <3>1
  <2>2. CASE y # x
    <3>1. y + 1 \in (m + 1)..x /\ y + 1 \in Nat
      BY <1>7, <2>2
    <3>2. y + 1 \notin More
      BY <1>6, <1>7
    <3>3. ~(Closed(y + 1) < Opened(y + 1))
      BY <3>1, <3>2
    <3> HIDE DEF Opened, Closed
    <3> QED
      BY <1>2, <3>1, <3>3
  <2> QED
    BY <2>1, <2>2
<1> HIDE DEF More, Opened, Closed
<1>9. /\ Opened(y) = IF tokens[y] = "(" THEN Opened(y + 1) + 1 ELSE Opened(y + 1)
      /\ Closed(y) = IF tokens[y] = ")" THEN Closed(y + 1) + 1 ELSE Closed(y + 1)
      /\ Opened(y + 1) \in Nat /\ Closed(y + 1) \in Nat
  <2>1. y <= x /\ y + 1 \in Nat
    BY <1>7
  <2> QED
    BY <1>2, <1>7, <2>1
<1>10. tokens[y] = "(" /\ Opened(y + 1) = Closed(y + 1)
  BY <1>7, <1>8, <1>9
<1> QED
  BY <1>7, <1>10 DEF Opened, Closed
-----------------------------------------------------------------------------
(* The context.  The token before the word that is being typed.              *)
LEMMA ContextFacts ==
  ASSUME OfferInv, Slot \in DOMAIN draft.tokens, NEW x, x = Slot - 1 - Begins
  PROVE  /\ x \in Nat /\ x <= Len(Here) /\ Slot \in Nat
         /\ Slot - 1 = Begins + x /\ Slot - 1 <= typed
         /\ x = 0 => TextIn(Slot - 1) = Semicolon
         /\ x # 0 => Here[x] = TextIn(Slot - 1) /\ TextIn(Slot - 1) # Semicolon
         /\ Context(Locate) =
              IF x = 0 THEN General
              ELSE IF Here[x] = "."
              THEN IF x > 1 /\ IsWord(Here[x - 1])
                   THEN [kind |-> "columns", table |-> {Here[x - 1]}]
                   ELSE General
              ELSE IF Here[x] \in Starters \cup {"TABLE"}
              THEN [kind |-> "tables", table |-> {}]
              ELSE IF InsertColumnList(Here, x) # {}
              THEN [kind |-> "columns", table |-> InsertColumnList(Here, x)]
              ELSE General
<1>1. /\ Begins \in Nat /\ Len(Here) \in Nat /\ Ends = Begins + Len(Here) + 1
      /\ \A i \in 1..Len(Here) :
           Here[i] = TextIn(Begins + i) /\ TextIn(Begins + i) # Semicolon
      /\ TextIn(Begins) = Semicolon
  BY HereFacts
<1>2. /\ Slot \in Nat \ {0} /\ Begins < Slot /\ Slot <= Ends /\ Slot <= typed + 1
      /\ TouchesWord(Locate) => Slot = cursor.after
      /\ ~TouchesWord(Locate) => Slot = cursor.after + 1
      /\ cursor.after \in Nat /\ typed \in Nat
  BY SlotFacts, DraftFacts
<1>3. /\ x \in Nat /\ x <= Len(Here) /\ Slot \in Nat
      /\ Slot - 1 = Begins + x /\ Slot - 1 <= typed
  BY <1>1, <1>2
<1>4. (IF TouchesWord(Locate) THEN Locate.last - 1 ELSE Locate.last) = x
  <2>1. Locate.last = cursor.after - Begins
    BY LocateFacts
  <2> QED
    BY <1>1, <1>2, <2>1
<1>5. /\ x = 0 => TextIn(Slot - 1) = Semicolon
      /\ x # 0 => Here[x] = TextIn(Slot - 1) /\ TextIn(Slot - 1) # Semicolon
  <2>1. x # 0 => x \in 1..Len(Here)
    BY <1>1, <1>3
  <2> QED
    BY <1>1, <1>3, <2>1
<1> QED
  BY <1>3, <1>4, <1>5, Zenon DEF Context, Here

(* What is typed before the place, in its statement.                         *)
LEMMA EarlierInStatement ==
  ASSUME OfferInv, Slot \in DOMAIN draft.tokens, NEW p \in DOMAIN draft.tokens,
         p <= typed, TextIn(p) # Semicolon
  PROVE  SameStatement(draft, p, Slot) <=> Begins < p /\ p < Ends
<1>1. p \in 1..Len(draft.tokens)
  BY DraftFacts
<1>2. Text(p) # Semicolon
  BY DEF TextIn, Text
<1> QED
  BY <1>1, <1>2, InStatement

(* Behind a starter, tables are offered (completions.rs, Context::Tables).   *)
LEMMA TablesContext ==
  ASSUME OfferInv, RangesAreDeclared(draft), Wants("table")
  PROVE  Context(Locate).kind = "tables"
<1> DEFINE x == Slot - 1 - Begins
<1>1. Slot \in DOMAIN draft.tokens /\ draft.tokens[Slot].fits = "table"
  BY DEF Wants
<1>2. TextIn(Slot - 1) \in Starters
  BY <1>1, RangeFacts
<1>3. TextIn(Slot - 1) # Semicolon /\ TextIn(Slot - 1) # "."
  BY <1>2, WordFacts
<1>4. Context(Locate) = [kind |-> "tables", table |-> {}]
  <2> HIDE DEF x
  <2>1. x = Slot - 1 - Begins
    BY DEF x
  <2>2. x # 0 /\ Here[x] = TextIn(Slot - 1)
    BY <1>1, <1>3, <2>1, ContextFacts
  <2> QED
    BY <1>1, <1>2, <1>3, <2>1, <2>2, ContextFacts
<1> QED
  BY <1>4

LEMMA DeclaredFor ==
  ASSUME OfferInv, RangesAreDeclared(draft), NEW p \in Declarations(draft)
  PROVE  /\ \E r : draft.tokens[p].of = {r}
         /\ p \in Namings(draft) => draft.tokens[p].of = {TextIn(p)}
         /\ p \in DOMAIN draft.tokens /\ p \in Nat
<1>1. /\ p \in DOMAIN draft.tokens /\ p \in Nat
      /\ p \in Namings(draft) \/ p \in Aliases
  BY DeclaredFacts, DraftFacts
<1>2. p \in Namings(draft) => draft.tokens[p].of = {TextIn(p)}
  BY <1>1, RangeFacts
<1>3. p \in Aliases => \E r : draft.tokens[p].of = {r}
  <2>1. ASSUME p \in Aliases PROVE \E r : draft.tokens[p].of = {r}
    <3>1. PICK j \in NamingsBehind(p) : TRUE
      BY <1>1, <2>1, RangeFacts
    <3>2. draft.tokens[p].of = {TextIn(j)}
      BY <1>1, <2>1, <3>1, RangeFacts
    <3> QED
      BY <3>2
  <2> QED
    BY <2>1
<1> QED
  BY <1>1, <1>2, <1>3

(* A qualifier that means a relation is declared for it in what has been typed.  *)
LEMMA QualifierIsDeclared ==
  ASSUME OfferInv, RangesAreDeclared(draft), Slot \in DOMAIN draft.tokens,
         Named = Relations, Qualified(draft, Slot)
  PROVE  \E p \in Declarations(draft) :
           /\ Begins < p /\ p < Ends
           /\ TextIn(p) = TextIn(Slot - 2)
           /\ draft.tokens[p].of = Relations
<1>1. PICK p \in Declarations(draft) :
        /\ SameStatement(draft, p, Slot)
        /\ draft.tokens[p].text = draft.tokens[Slot - 2].text
        /\ draft.tokens[p].of = Relations
        /\ \/ p < Slot
           \/ \A n \in Namings(draft) :
                draft.tokens[n].of = Relations /\ SameStatement(draft, n, Slot)
                  => n > Slot
  BY DEF Qualified, Relations
<1>2. /\ Slot > 2 /\ Slot \in Nat /\ Slot <= typed + 1 /\ typed \in Nat
      /\ cursor.after \in Nat /\ Slot >= cursor.after
      /\ cursor.after = typed \/ typed = Len(draft.tokens)
      /\ DOMAIN draft.tokens = 1..Len(draft.tokens) /\ Len(draft.tokens) \in Nat
  BY SlotFacts, DraftFacts DEF Qualified, OfferInv
<1>3. /\ p \in DOMAIN draft.tokens /\ p \in Nat /\ TextIn(p) # Semicolon
      /\ TextIn(p) = draft.tokens[p].text
  BY DeclaredFor, DeclaredFacts DEF TextIn
<1>4. TextIn(Slot - 2) = draft.tokens[Slot - 2].text
  <2>1. Slot - 2 \in DOMAIN draft.tokens
    BY <1>2
  <2> QED
    BY <2>1 DEF TextIn
<1>5. p <= typed
  <2>1. CASE p < Slot
    BY <1>2, <1>3, <2>1
  <2>2. CASE \A n \in Namings(draft) :
               draft.tokens[n].of = Relations /\ SameStatement(draft, n, Slot) => n > Slot
    <3>1. PICK r : Relations = {r}
      BY <1>1, DeclaredFor
    <3>2. PICK n \in Namings(draft) :
            n <= typed /\ Text(n) = r /\ SameStatement(draft, n, Slot)
      BY <3>1 DEF Named
    <3>3. n \in Declarations(draft) /\ n \in DOMAIN draft.tokens /\ n \in Nat
      BY DeclaredFacts, DraftFacts
    <3>4. draft.tokens[n].of = Relations
      BY <3>1, <3>2, <3>3, DeclaredFor DEF Text, TextIn
    <3>5. n > Slot
      BY <2>2, <3>2, <3>4
    <3>6. typed = Len(draft.tokens)
      BY <1>2, <3>2, <3>3, <3>5
    <3> QED
      BY <1>2, <1>3, <3>6
  <2> QED
    BY <1>1, <2>1, <2>2
<1>6. Begins < p /\ p < Ends
  BY <1>1, <1>3, <1>5, EarlierInStatement
<1> QED
  BY <1>1, <1>3, <1>4, <1>6

(* Behind a qualifier, the columns of what it means are offered.             *)
LEMMA QualifiedContext ==
  ASSUME OfferInv, RangesAreDeclared(draft), Slot \in DOMAIN draft.tokens,
         Named = Relations, Qualified(draft, Slot)
  PROVE  \E p \in Declarations(draft) :
           /\ Begins < p /\ p < Ends /\ draft.tokens[p].of = Relations
           /\ Context(Locate) = [kind |-> "columns", table |-> {TextIn(p)}]
<1>1. PICK p \in Declarations(draft) :
        /\ Begins < p /\ p < Ends
        /\ TextIn(p) = TextIn(Slot - 2)
        /\ draft.tokens[p].of = Relations
  BY QualifierIsDeclared
<1> DEFINE x == Slot - 1 - Begins
<1>2. /\ x \in Nat /\ x <= Len(Here) /\ Slot \in Nat /\ Slot - 1 = Begins + x
      /\ Begins \in Nat /\ Len(Here) \in Nat
  BY ContextFacts, HereFacts
<1>3. TextIn(Slot - 1) = "." /\ Slot > 2
  <2>1. Slot > 2 /\ draft.tokens[Slot - 1].text = "."
    BY DEF Qualified
  <2>2. Slot - 1 \in DOMAIN draft.tokens
    BY <1>2, <2>1, DraftFacts
  <2> QED
    BY <2>1, <2>2 DEF TextIn
<1>4. x # 0 /\ Here[x] = "."
  <2>1. x = 0 => TextIn(Slot - 1) = Semicolon
    BY ContextFacts
  <2>2. x # 0 => Here[x] = TextIn(Slot - 1)
    BY ContextFacts
  <2> HIDE DEF x
  <2> QED
    BY <1>3, <2>1, <2>2, WordFacts
<1>5. NoKeyword(TextIn(p)) /\ TextIn(p) # Semicolon /\ TextIn(Begins) = Semicolon
  BY DeclaredFacts, HereFacts
<1>6. x > 1 /\ Here[x - 1] = TextIn(p)
  <2>1. Slot - 2 # Begins
    BY <1>1, <1>5
  <2>2. x > 1 /\ x - 1 \in 1..Len(Here) /\ Begins + (x - 1) = Slot - 2
    BY <1>2, <1>4, <2>1
  <2>3. Here[x - 1] = TextIn(Begins + (x - 1))
    BY <2>2, HereFacts
  <2> QED
    BY <1>1, <2>2, <2>3
<1>7. IsWord(TextIn(p))
  BY <1>5 DEF NoKeyword
<1> HIDE DEF x
<1>8. x = Slot - 1 - Begins
  BY DEF x
<1>9. Context(Locate) = [kind |-> "columns", table |-> {TextIn(p)}]
  BY <1>4, <1>6, <1>7, <1>8, ContextFacts
<1> QED
  BY <1>1, <1>9

(* In a column list, the columns of its table are offered.                   *)
LEMMA ColumnListContext ==
  ASSUME OfferInv, RangesAreDeclared(draft), Slot \in DOMAIN draft.tokens,
         InColumnList(draft, Slot)
  PROVE  \E p \in Declarations(draft) :
           /\ Begins < p /\ p < Ends /\ draft.tokens[p].of = Relations
           /\ Context(Locate) = [kind |-> "columns", table |-> {TextIn(p)}]
<1>1. PICK k \in 1..(Slot - 1) :
        /\ ColumnListAt(draft, k)
        /\ SameStatement(draft, k, Slot)
        /\ draft.tokens[k - 1].of = Relations
        /\ NoParenthesis(draft, k + 1, Slot - 1)
  BY DEF InColumnList, Relations
<1> DEFINE x == Slot - 1 - Begins
           i == k - Begins
           p == k - 1
<1>2. /\ x \in Nat /\ x <= Len(Here) /\ Slot \in Nat /\ Slot - 1 = Begins + x
      /\ Slot - 1 <= typed /\ Begins \in Nat /\ Len(Here) \in Nat
      /\ Ends = Begins + Len(Here) + 1
      /\ \A j \in 1..Len(Here) : Here[j] = TextIn(Begins + j)
      /\ TextIn(Begins) = Semicolon
  BY ContextFacts, HereFacts
<1>3. /\ p \in DOMAIN draft.tokens /\ p - 1 \in DOMAIN draft.tokens
      /\ k \in DOMAIN draft.tokens
      /\ TextIn(k) = "(" /\ NoKeyword(TextIn(p)) /\ TextIn(p - 1) = "INTO"
  <2>1. k \in Nat /\ k - 2 = p - 1
    BY <1>2
  <2> QED
    BY <1>1, <2>1 DEF ColumnListAt, TextIn
<1>4. Begins < k /\ k < Ends
  <2>1. k <= typed /\ TextIn(k) # Semicolon
    BY <1>2, <1>3, DraftFacts, WordFacts
  <2> QED
    BY <1>1, <1>3, <2>1, EarlierInStatement
<1>5. Begins < p - 1
  <2>1. Begins # p /\ Begins # p - 1
    BY <1>2, <1>3, WordFacts
  <2> QED
    BY <1>2, <1>4, <2>1
<1>6. /\ p \in Declarations(draft) /\ Begins < p /\ p < Ends
      /\ draft.tokens[p].of = Relations
  <2>1. p \in Namings(draft)
    BY <1>3, RangeFacts, WordFacts
  <2> QED
    BY <1>1, <1>2, <1>4, <1>5, <2>1, DeclaredFacts
<1>7. /\ i \in 1..x /\ i > 2 /\ i - 1 \in 1..Len(Here) /\ i - 2 \in 1..Len(Here)
      /\ i \in 1..Len(Here) /\ Begins + i = k /\ Begins + (i - 1) = p
      /\ Begins + (i - 2) = p - 1
  <2> HIDE DEF x
  <2>1. /\ x \in Nat /\ x <= Len(Here) /\ Begins \in Nat /\ Len(Here) \in Nat
        /\ k \in Nat /\ k <= Begins + x /\ Begins < k - 2
    BY <1>2, <1>4, <1>5
  <2>2. i \in Nat /\ i > 2 /\ i <= x /\ Begins + i = k
    BY <2>1
  <2> HIDE DEF i
  <2>3. /\ i \in 1..x /\ i \in 1..Len(Here)
        /\ i - 1 \in 1..Len(Here) /\ i - 2 \in 1..Len(Here)
    BY <2>1, <2>2
  <2>4. Begins + (i - 1) = p /\ Begins + (i - 2) = p - 1
    BY <2>1, <2>2
  <2> QED
    BY <2>2, <2>3, <2>4
<1>8. Here[i] = "(" /\ Here[i - 1] = TextIn(p) /\ Here[i - 2] = "INTO"
  <2> HIDE DEF i, p
  <2>1. /\ Here[i] = TextIn(Begins + i)
        /\ Here[i - 1] = TextIn(Begins + (i - 1))
        /\ Here[i - 2] = TextIn(Begins + (i - 2))
    BY <1>2, <1>7
  <2> QED
    BY <1>3, <1>7, <2>1
<1>9. \A j \in (i + 1)..x : Here[j] \notin {"(", ")"}
  <2>1. ASSUME NEW j \in (i + 1)..x PROVE Here[j] \notin {"(", ")"}
    <3>1. /\ j \in 1..Len(Here) /\ Begins + j \in (k + 1)..(Slot - 1)
          /\ Begins + j \in DOMAIN draft.tokens
      BY <1>2, <1>7, HereFacts
    <3>2. draft.tokens[Begins + j].text \notin {"(", ")"}
      BY <1>1, <3>1 DEF NoParenthesis
    <3> QED
      BY <1>2, <3>1, <3>2 DEF TextIn
  <2> QED
    BY <2>1
<1> HIDE DEF i, x
<1>10. OpenParen(Here, x) \subseteq 1..i /\ i \in OpenParen(Here, x)
  <2>1. i \in Nat /\ x \in Nat
    BY <1>2, <1>7
  <2>2. Count(Here, "(", i + 1, x) = 0 /\ Count(Here, ")", i + 1, x) = 0
    BY <1>9, <2>1, CountFacts
  <2>3. \A j \in OpenParen(Here, x) : j \in 1..x /\ Here[j] = "("
    BY DEF OpenParen
  <2>4. \A j \in OpenParen(Here, x) : j \in 1..i
    BY <1>9, <2>1, <2>3
  <2> QED
    BY <1>7, <1>8, <2>2, <2>4 DEF OpenParen
<1>11. InsertColumnList(Here, x) = {TextIn(p)}
  <2> DEFINE open == OpenParen(Here, x)
             last == CHOOSE j \in open : \A l \in open : l <= j
  <2>1. last \in open /\ \A l \in open : l <= last
    <3>1. \A l \in open : l <= i
      BY <1>10
    <3> HIDE DEF open
    <3> QED
      BY <1>10, <3>1 DEF open
  <2>2. last = i
    BY <1>7, <1>10, <2>1
  <2> HIDE DEF last, p
  <2> QED
    BY <1>3, <1>7, <1>8, <1>10, <2>2 DEF InsertColumnList, last
<1>12. x # 0 /\ Here[x] = TextIn(Slot - 1) /\ x = Slot - 1 - Begins
  BY <1>2, <1>7, ContextFacts DEF x
<1>13. TextIn(Slot - 1) \in {"(", Comma}
  <2>1. Slot - 1 \in DOMAIN draft.tokens
    BY <1>2, DraftFacts
  <2> QED
    BY <2>1 DEF InColumnList, TextIn
<1>14. Here[x] # "." /\ Here[x] \notin Starters \cup {"TABLE"}
  BY <1>12, <1>13, WordFacts
<1>15. Context(Locate) = [kind |-> "columns", table |-> {TextIn(p)}]
  <2> HIDE DEF p
  <2> QED
    BY <1>11, <1>12, <1>14, ContextFacts
<1> QED
  BY <1>6, <1>15

(* Elsewhere, anything is offered: no column list is open.                   *)
LEMMA ElsewhereContext ==
  ASSUME OfferInv, RangesAreDeclared(draft), Slot \in DOMAIN draft.tokens,
         OutsideColumnLists(draft, Slot)
  PROVE  Context(Locate) = General
<1> DEFINE x == Slot - 1 - Begins
<1>1. /\ x \in Nat /\ x <= Len(Here) /\ Slot \in Nat /\ Slot - 1 = Begins + x
      /\ Slot - 1 <= typed /\ Begins \in Nat /\ Len(Here) \in Nat
      /\ Ends = Begins + Len(Here) + 1
      /\ \A j \in 1..Len(Here) : /\ Here[j] = TextIn(Begins + j)
                                 /\ Begins + j \in DOMAIN draft.tokens
                                 /\ TextIn(Begins + j) # Semicolon
  BY ContextFacts, HereFacts
<1>2. x # 0 => Here[x] \notin {".", "TABLE"} \cup Starters
  <2>1. ASSUME x # 0 PROVE Here[x] \notin {".", "TABLE"} \cup Starters
    <3>1. Slot > 1 /\ Slot - 1 \in DOMAIN draft.tokens /\ Here[x] = TextIn(Slot - 1)
      BY <1>1, <2>1
    <3> QED
      BY <3>1 DEF OutsideColumnLists, TextIn
  <2> QED
    BY <2>1
<1>3. x # 0 => InsertColumnList(Here, x) = {}
  <2>1. SUFFICES ASSUME x # 0, InsertColumnList(Here, x) # {} PROVE FALSE
    OBVIOUS
  <2> DEFINE open == OpenParen(Here, x)
             i == CHOOSE j \in open : \A k \in open : k <= j
  <2>2. open \subseteq 0..x
    BY DEF OpenParen
  <2>3. open # {} /\ i > 2 /\ NoKeyword(Here[i - 1]) /\ Here[i - 2] = "INTO"
    <3> HIDE DEF open, x
    <3> QED
      BY <2>1 DEF InsertColumnList, open
  <2>4. i \in open /\ \A k \in open : k <= i
    <3>1. Max(open) \in open /\ \A k \in open : k <= Max(open)
      <4> HIDE DEF open
      <4> QED
        BY <1>1, <2>2, <2>3, GreatestNumber
    <3> HIDE DEF open
    <3> QED
      BY <3>1
  <2> HIDE DEF i
  <2>5. /\ i \in 1..x /\ i \in Nat /\ Here[i] = "("
        /\ Count(Here, "(", i + 1, x) = Count(Here, ")", i + 1, x)
    BY <2>4 DEF OpenParen
  <2> DEFINE k == Begins + i
  <2>6. /\ k \in 1..(Slot - 1) /\ k \in DOMAIN draft.tokens
        /\ k - 1 \in DOMAIN draft.tokens /\ k - 2 \in DOMAIN draft.tokens
        /\ TextIn(k) = Here[i] /\ TextIn(k - 1) = Here[i - 1]
        /\ TextIn(k - 2) = Here[i - 2]
        /\ Begins < k /\ k < Ends /\ k <= typed /\ TextIn(k) # Semicolon
    <3> HIDE DEF x
    <3>3. /\ x \in Nat /\ x <= Len(Here) /\ Begins \in Nat /\ Len(Here) \in Nat
          /\ i \in Nat /\ i <= x /\ i > 2 /\ Slot - 1 = Begins + x /\ Slot - 1 <= typed
          /\ Ends = Begins + Len(Here) + 1 /\ typed \in Nat
      BY <1>1, <2>3, <2>5, DraftFacts
    <3>1. /\ i \in 1..Len(Here) /\ i - 1 \in 1..Len(Here) /\ i - 2 \in 1..Len(Here)
          /\ Begins + (i - 1) = k - 1 /\ Begins + (i - 2) = k - 2
      BY <3>3
    <3>2. k \in 1..(Slot - 1) /\ Begins < k /\ k < Ends /\ k <= typed
      BY <3>3
    <3> QED
      BY <1>1, <3>1, <3>2
  <2> HIDE DEF k
  <2>7. ColumnListAt(draft, k)
    BY <2>3, <2>5, <2>6 DEF ColumnListAt, TextIn
  <2>8. SameStatement(draft, k, Slot)
    BY <2>6, EarlierInStatement
  <2>9. PICK c \in (k + 1)..(Slot - 1) :
          draft.tokens[c].text = ")" /\ NoParenthesis(draft, k + 1, c - 1)
    BY <2>6, <2>7, <2>8 DEF OutsideColumnLists, ListClosed
  <2> DEFINE m == c - Begins
  <2>10. /\ m \in (i + 1)..x /\ Here[m] = ")"
         /\ \A j \in (i + 1)..(m - 1) : Here[j] \notin {"(", ")"}
    <3>4. /\ k = Begins + i /\ Begins \in Nat /\ i \in Nat /\ c \in (k + 1)..(Slot - 1)
          /\ x \in Nat /\ x <= Len(Here) /\ Len(Here) \in Nat /\ Slot - 1 = Begins + x
      BY <1>1, <2>5, <2>9 DEF k
    <3> HIDE DEF x
    <3>1. /\ m \in (i + 1)..x /\ m \in 1..Len(Here) /\ Begins + m = c
      BY <3>4
    <3>2. Here[m] = ")"
      <4> HIDE DEF m
      <4> QED
        BY <1>1, <2>9, <3>1 DEF TextIn
    <3>3. ASSUME NEW j \in (i + 1)..(m - 1) PROVE Here[j] \notin {"(", ")"}
      <4>1. j \in 1..Len(Here) /\ Begins + j \in (k + 1)..(c - 1)
        <5> HIDE DEF m
        <5> QED
          BY <3>1, <3>4
      <4>2. draft.tokens[Begins + j].text \notin {"(", ")"}
        BY <2>9, <4>1 DEF NoParenthesis
      <4> QED
        BY <1>1, <4>1, <4>2 DEF TextIn
    <3> QED
      BY <3>1, <3>2, <3>3
  <2> HIDE DEF m, x
  <2>11. PICK y \in (m + 1)..x :
           Here[y] = "(" /\ Count(Here, "(", y + 1, x) = Count(Here, ")", y + 1, x)
    <3>1. i \in Nat /\ x \in Nat
      BY <1>1, <2>5
    <3> QED
      BY <2>5, <2>10, <3>1, OpensAgain
  <2>12. y \in open /\ y > i
    <3>1. y \in 1..x /\ y > i
      BY <1>1, <2>5, <2>10, <2>11
    <3> QED
      BY <2>11, <3>1 DEF OpenParen
  <2> QED
    BY <2>4, <2>5, <2>12, <1>1
<1> HIDE DEF x
<1>4. x = Slot - 1 - Begins
  BY DEF x
<1> QED
  BY <1>2, <1>3, <1>4, ContextFacts
-----------------------------------------------------------------------------
(* What is offered, case by case.                                            *)
LEMMA ColumnsAreOffered ==
  ASSUME OfferInv, Annotated(draft), Slot \in DOMAIN draft.tokens,
         NEW p \in Declarations(draft), Begins < p, p < Ends,
         draft.tokens[p].of = Relations,
         Context(Locate) = [kind |-> "columns", table |-> {TextIn(p)}]
  PROVE  Completions = Items("column", UNION {Columns(n) : n \in Relations})
<1>1. PICK r : draft.tokens[p].of = {r}
  BY DeclaredFor DEF Annotated
<1>2. UNION ResolveTable(TextIn(p), Scope(Here)) = Columns(r)
  BY <1>1, ResolvesToColumns DEF Annotated
<1>3. UNION {Columns(n) : n \in Relations} = Columns(r)
  <2>1. Relations = {r}
    BY <1>1
  <2>2. {Columns(n) : n \in Relations} = {Columns(r)}
    BY <2>1
  <2> QED
    BY <2>2
<1>4. ColumnsOf(TextIn(p), Scope(Here)) = Items("column", Columns(r))
  BY <1>2 DEF ColumnsOf
<1>5. Completions = UNION {ColumnsOf(n, Scope(Here)) : n \in {TextIn(p)}}
  BY DEF Completions, Here
<1>6. {ColumnsOf(n, Scope(Here)) : n \in {TextIn(p)}}
        = {ColumnsOf(TextIn(p), Scope(Here))}
  OBVIOUS
<1> QED
  BY <1>3, <1>4, <1>5, <1>6

LEMMA TablesAreOffered ==
  ASSUME OfferInv, Annotated(draft), Wants("table")
  PROVE  Completions = SchemaItems \cup Items("relation", NamesOf(OwnTables))
<1>1. Context(Locate).kind = "tables"
  BY TablesContext DEF Annotated
<1>2. OwnTables = LocalTables
  BY LocalFacts DEF Annotated, Wants
<1>3. Completions = LocalItems \cup SchemaItems
  BY <1>1 DEF Completions
<1> QED
  BY <1>2, <1>3 DEF LocalItems, NamesOf

LEMMA AllIsOffered ==
  ASSUME OfferInv, Annotated(draft), Slot \in DOMAIN draft.tokens,
         OutsideColumnLists(draft, Slot)
  PROVE  SchemaItems \cup Items("column", UNION {Columns(n) : n \in Named})
           \subseteq Completions
<1> DEFINE scope == Scope(Here)
<1>1. Context(Locate) = General
  BY ElsewhereContext DEF Annotated
<1>2. Completions = InScope(scope) \cup SchemaItems \cup {Words}
  <2>1. Context(Locate).kind = "general"
    BY <1>1 DEF General
  <2> QED
    BY <2>1 DEF Completions, Here
<1>3. ASSUME NEW n \in Named
      PROVE  /\ n \in DOMAIN scope
             /\ ColumnsOf(scope[n], scope) = Items("column", Columns(n))
  <2>1. PICK p \in Namings(draft) :
          p <= typed /\ Text(p) = n /\ SameStatement(draft, p, Slot)
    BY DEF Named
  <2>2. /\ p \in Declarations(draft) /\ p \in DOMAIN draft.tokens /\ TextIn(p) = n
        /\ TextIn(p) # Semicolon
    BY <2>1, DeclaredFacts DEF Annotated, TextIn, Text
  <2>3. Begins < p /\ p < Ends
    BY <2>1, <2>2, EarlierInStatement
  <2>4. draft.tokens[p].of = {n}
    BY <2>1, <2>2, DeclaredFor DEF Annotated
  <2>5. n \in DOMAIN scope /\ draft.tokens[p].of = {scope[n]}
    BY <2>2, <2>3, ScopeFacts DEF Annotated
  <2>6. scope[n] = n
    BY <2>4, <2>5
  <2>7. UNION ResolveTable(n, scope) = Columns(n)
    BY <2>2, <2>3, <2>4, ResolvesToColumns DEF Annotated
  <2> QED
    BY <2>5, <2>6, <2>7 DEF ColumnsOf
<1>4. ASSUME NEW item \in Items("column", UNION {Columns(n) : n \in Named})
      PROVE  item \in InScope(scope)
  <2>1. PICK n \in Named : item \in Items("column", Columns(n))
    BY DEF Items
  <2>2. n \in DOMAIN scope /\ item \in ColumnsOf(scope[n], scope)
    BY <1>3, <2>1
  <2> HIDE DEF scope
  <2> QED
    BY <2>2 DEF InScope
<1> QED
  BY <1>2, <1>4

LEMMA OffersAreRight ==
  ASSUME OfferInv, Annotated(draft)
  PROVE  OffersJustWhatFits /\ OffersAllInScope
<1> SUFFICES ASSUME asked PROVE OffersJustWhatFits /\ OffersAllInScope
  BY DEF OffersJustWhatFits, OffersAllInScope
<1>1. offered = Completions
  BY DEF OfferInv
<1>2. Wants("table") => offered = SchemaItems \cup Items("relation", NamesOf(OwnTables))
  BY <1>1, TablesAreOffered
<1>3. ASSUME Wants("columns"), Named = Relations
      PROVE  offered = Items("column", UNION {Columns(n) : n \in Relations})
  <2>1. /\ Slot \in DOMAIN draft.tokens
        /\ Qualified(draft, Slot) \/ InColumnList(draft, Slot)
    BY <1>3 DEF Wants, Annotated, WantsAreInPlace
  <2>2. PICK p \in Declarations(draft) :
          /\ Begins < p /\ p < Ends /\ draft.tokens[p].of = Relations
          /\ Context(Locate) = [kind |-> "columns", table |-> {TextIn(p)}]
    BY <1>3, <2>1, QualifiedContext, ColumnListContext DEF Annotated
  <2> QED
    BY <1>1, <2>1, <2>2, ColumnsAreOffered
<1>4. ASSUME Wants("expression") \/ Wants("listed")
      PROVE  SchemaItems \cup Items("column", UNION {Columns(n) : n \in Named})
               \subseteq offered
  <2>1. Slot \in DOMAIN draft.tokens /\ OutsideColumnLists(draft, Slot)
    BY <1>4 DEF Wants, Annotated, WantsAreInPlace
  <2> QED
    BY <1>1, <2>1, AllIsOffered
<1> QED
  BY <1>2, <1>3, <1>4 DEF OffersJustWhatFits, OffersAllInScope

(* Where a relation or its columns are to be named, just those are offered, in   *)
(* every annotated document, however much of it is there and wherever the    *)
(* cursor is (completion.rs, Cursor::context and completions).               *)
THEOREM OffersFit ==
  ASSUME \A d \in Documents : Annotated(d)
  PROVE  CompletionSpec => []OffersJustWhatFits
<1>1. OfferInv => OffersJustWhatFits
  BY OffersAreRight DEF OfferInv
<1> QED
  BY <1>1, OffersInvariant, PTL

(* Where an expression is to be typed, the columns of all that its query has *)
(* named are offered, and the relations (completion.rs, Cursor::scope and    *)
(* completions).                                                             *)
THEOREM OffersComplete ==
  ASSUME \A d \in Documents : Annotated(d)
  PROVE  CompletionSpec => []OffersAllInScope
<1>1. OfferInv => OffersAllInScope
  BY OffersAreRight DEF OfferInv
<1> QED
  BY <1>1, OffersInvariant, PTL
=============================================================================
