------------------------------- MODULE Rename -------------------------------
(***************************************************************************)
(* textDocument/rename (src/src/server.rs, rename).  The handler takes the  *)
(* workspace lock three times: to resolve what the cursor is on and whether *)
(* it may be renamed, to look for a collision with the new name, and to     *)
(* collect the locations to edit, for which the cursor is resolved anew.    *)
(* Between two of them a reload may install other contexts and a didChange  *)
(* may replace the text.  The client applies the answer to what it has by   *)
(* then.                                                                    *)
(*                                                                          *)
(* One open query document refers to one relation at the cursor; one closed *)
(* migration file defines relations.  A name stands for all its spellings   *)
(* in upper and lower case.  A column and its relation play the parts of a  *)
(* relation and the schema.  How reloads come about is in WorkspaceIndex.   *)
(***************************************************************************)
EXTENDS Naturals, FiniteSets

CONSTANTS
    Names,             \* names of relations
    None,
    DocumentChanges,   \* the client's workspaceEdit.documentChanges capability
    MidRename,         \* the events that happen while a rename is worked on;
                       \* any may while its answer is on the way
    MaxVersion,        \* bound on the versions of the buffer
    MaxEdition         \* bound on the editions of the migration

(* "migrate" and "database" change what the migrations and the database have    *)
(* of the two names a rename is about, "others" what they have of other names. *)
Events == {"change", "migrate", "database", "others", "reload"}

ASSUME RenameAssumption ==
    /\ None \notin Names \cup Nat
    /\ DocumentChanges \in BOOLEAN
    /\ MidRename \subseteq Events
    /\ MaxVersion \in Nat
    /\ MaxEdition \in Nat

VARIABLES
    buffer,     \* the client's text: its version and the reference at the cursor
    document,   \* the same as the server has it
    migration,  \* the migration on disk: its edition and what it defines
    database,   \* the relations of the live database
    loaded,     \* the context: the migration and the database it was built from
    pc,         \* where the rename handler is
    newName,    \* params.new_name
    resolved,   \* the resolved reference
    answer      \* the edits on their way to the client

vars == <<buffer, document, migration, database, loaded, pc, newName, resolved,
          answer>>
handler == <<pc, newName, resolved, answer>>

(* A reference is to a name; a local one to a CTE of its own document, which  *)
(* hides any relation of the schema.                                        *)
References == [name : Names, local : BOOLEAN]
Texts      == [version : 0..MaxVersion, at : References]
Migrations == [edition : 0..MaxEdition, defines : SUBSET Names]

(* A relation of the migrations hides one of the database.                   *)
Origin(n) == IF n \in loaded.migration.defines THEN "migration"
             ELSE IF n \in loaded.database THEN "database"
             ELSE "none"

Target(ref) ==
    [name |-> ref.name, origin |-> IF ref.local THEN "query" ELSE Origin(ref.name)]
Targets == [name : Names, origin : {"migration", "database", "query", "none"}]

(* What the client is sent: the text the locations were found in, and the     *)
(* version the edit of it is stamped with; the migration file is closed and  *)
(* has no version.                                                          *)
Answers == [target : Targets, text : Texts, version : (0..MaxVersion) \cup {None},
            migration : Migrations, declared : BOOLEAN]

TypeOK ==
    /\ buffer \in Texts
    /\ document \in Texts
    /\ migration \in Migrations
    /\ database \subseteq Names
    /\ loaded \in [migration : Migrations, database : SUBSET Names]
    /\ pc \in {"idle", "resolve", "collide", "locate", "answered"}
    /\ newName \in Names \cup {None}
    /\ resolved \in Targets \cup {None}
    /\ answer \in Answers \cup {None}
    /\ pc # "idle" => newName \in Names
    /\ pc \in {"collide", "locate"} => resolved \in Targets
    /\ pc = "answered" => answer \in Answers

Init ==
    /\ \E r \in References : buffer = [version |-> 0, at |-> r]
    /\ document = buffer
    /\ \E D \in SUBSET Names : migration = [edition |-> 0, defines |-> D]
    /\ database \in SUBSET Names
    /\ loaded = [migration |-> migration, database |-> database]
    /\ pc = "idle"
    /\ newName = None
    /\ resolved = None
    /\ answer = None
-----------------------------------------------------------------------------
(* The surroundings.                                                        *)
MayHappen(event) == pc \in {"idle", "answered"} \/ event \in MidRename

(* The user types.                                                          *)
ChangeBuffer(r) ==
    /\ MayHappen("change")
    /\ buffer.version < MaxVersion
    /\ buffer' = [version |-> buffer.version + 1, at |-> r]
    /\ UNCHANGED <<document, migration, database, loaded, handler>>

DidChange ==
    /\ document # buffer
    /\ document' = buffer
    /\ UNCHANGED <<buffer, migration, database, loaded, handler>>

(* The names of a rename to n, and whether two sets agree on them.            *)
AgreeFor(n, D, E) == \A m \in {document.at.name, n} : m \in D <=> m \in E

ChangeMigration(D) ==
    /\ \/ MayHappen("migrate")
       \/ MayHappen("others") /\ AgreeFor(newName, D, migration.defines)
    /\ migration.edition < MaxEdition
    /\ migration' = [edition |-> migration.edition + 1, defines |-> D]
    /\ UNCHANGED <<buffer, document, database, loaded, handler>>

ChangeDatabase(D) ==
    /\ \/ MayHappen("database")
       \/ MayHappen("others") /\ AgreeFor(newName, D, database)
    /\ database' = D
    /\ UNCHANGED <<buffer, document, migration, loaded, handler>>

(* reload_workspace installs contexts built from what is there.              *)
Reload ==
    /\ MayHappen("reload")
    /\ loaded' = [migration |-> migration, database |-> database]
    /\ UNCHANGED <<buffer, document, migration, database, handler>>
-----------------------------------------------------------------------------
(* The handler.                                                             *)
End == /\ pc' = "idle"
       /\ newName' = None
       /\ resolved' = None

(* A request arrives after the notifications that were sent before it.  What  *)
(* a reload has yet to install when it arrives is like a change in the midst  *)
(* of the rename.  The new name is an identifier and no reserved word: others *)
(* are refused.                                                             *)
Ask(n) ==
    /\ pc = "idle"
    /\ document = buffer
    /\ \/ "migrate" \in MidRename
       \/ AgreeFor(n, loaded.migration.defines, migration.defines)
    /\ \/ "database" \in MidRename
       \/ AgreeFor(n, loaded.database, database)
    /\ newName' = n
    /\ pc' = "resolve"
    /\ UNCHANGED <<buffer, document, migration, database, loaded, resolved,
                   answer>>

(* Faulty variant: what only the database defines is renamed as well.        *)
ResolveAnything ==
    /\ pc = "resolve"
    /\ LET t == Target(document.at)
       IN  IF t.origin = "none"
           THEN End
           ELSE resolved' = t /\ pc' = "collide" /\ UNCHANGED newName
    /\ UNCHANGED <<buffer, document, migration, database, loaded, answer>>

(* resolve_for_rename and renameable.                                       *)
ResolveForRename ==
    /\ pc = "resolve"
    /\ LET t == Target(document.at)
       IN  IF t.origin \in {"none", "database"}
           THEN End
           ELSE resolved' = t /\ pc' = "collide" /\ UNCHANGED newName
    /\ UNCHANGED <<buffer, document, migration, database, loaded, answer>>

(* Faulty variant: only the relations of the migrations collide.             *)
CollideWithMigrations ==
    /\ pc = "collide"
    /\ IF /\ resolved.origin # "query"
          /\ resolved.name # newName
          /\ Origin(newName) = "migration"
       THEN End
       ELSE pc' = "locate" /\ UNCHANGED <<newName, resolved>>
    /\ UNCHANGED <<buffer, document, migration, database, loaded, answer>>

(* collision: another relation has the new name.  Shadowing one is legal.    *)
CheckCollision ==
    /\ pc = "collide"
    /\ IF /\ resolved.origin # "query"
          /\ resolved.name # newName
          /\ Origin(newName) # "none"
       THEN End
       ELSE pc' = "locate" /\ UNCHANGED <<newName, resolved>>
    /\ UNCHANGED <<buffer, document, migration, database, loaded, answer>>

(* The answer for what the cursor is on now.  The definition is edited too,   *)
(* where a migration holds it.                                              *)
AnswerFor(t, version) ==
    [target |-> t, text |-> document, version |-> version,
     migration |-> loaded.migration, declared |-> t.origin = "migration"]

(* Faulty variants: edits without versions, without the declaration, and for  *)
(* what was resolved first.                                                 *)
LocateUnversioned ==
    /\ pc = "locate"
    /\ LET t == Target(document.at)
       IN  IF t.origin = "none"
           THEN End /\ UNCHANGED answer
           ELSE /\ answer' = AnswerFor(t, None)
                /\ pc' = "answered"
                /\ UNCHANGED <<newName, resolved>>
    /\ UNCHANGED <<buffer, document, migration, database, loaded>>

LocateUses ==
    /\ pc = "locate"
    /\ LET t == Target(document.at)
       IN  IF t.origin = "none"
           THEN End /\ UNCHANGED answer
           ELSE /\ answer' = [AnswerFor(t, document.version)
                                EXCEPT !.declared = FALSE]
                /\ pc' = "answered"
                /\ UNCHANGED <<newName, resolved>>
    /\ UNCHANGED <<buffer, document, migration, database, loaded>>

LocateWithoutTarget ==
    /\ pc = "locate"
    /\ answer' = [target |-> resolved]
    /\ pc' = "answered"
    /\ UNCHANGED <<buffer, document, migration, database, loaded, newName,
                   resolved>>

(* reference_locations, then the versions of the files: no await in between. *)
ReferenceLocations ==
    /\ pc = "locate"
    /\ LET t == Target(document.at)
       IN  IF t.origin = "none"
           THEN End /\ UNCHANGED answer
           ELSE /\ answer' = AnswerFor(t, IF DocumentChanges
                                          THEN document.version ELSE None)
                /\ pc' = "answered"
                /\ UNCHANGED <<newName, resolved>>
    /\ UNCHANGED <<buffer, document, migration, database, loaded>>
-----------------------------------------------------------------------------
(* The client: it refuses edits of a version that it no longer has.          *)
Outdated == answer.version \notin {None, buffer.version}

Refuse ==
    /\ pc = "answered"
    /\ Outdated
    /\ answer' = None
    /\ End
    /\ UNCHANGED <<buffer, document, migration, database, loaded>>

(* Applying the edits changes the buffer, and the file that defines the       *)
(* relation.                                                                *)
Apply ==
    /\ pc = "answered"
    /\ ~Outdated
    /\ buffer.version < MaxVersion
    /\ buffer' = [version |-> buffer.version + 1,
                  at |-> [buffer.at EXCEPT !.name = newName]]
    /\ IF answer.declared
       THEN /\ migration.edition < MaxEdition
            /\ migration' = [edition |-> migration.edition + 1,
                             defines |-> (migration.defines \ {answer.target.name})
                                            \cup {newName}]
       ELSE UNCHANGED migration
    /\ answer' = None
    /\ End
    /\ UNCHANGED <<document, database, loaded>>
-----------------------------------------------------------------------------
Next == \/ \E r \in References : ChangeBuffer(r)
        \/ \E D \in SUBSET Names : ChangeMigration(D) \/ ChangeDatabase(D)
        \/ DidChange \/ Reload
        \/ \E n \in Names : Ask(n)
        \/ ResolveForRename \/ CheckCollision \/ ReferenceLocations
        \/ Refuse \/ Apply

Spec == Init /\ [][Next]_vars
-----------------------------------------------------------------------------
(* A rename never rewrites queries against a relation that only the live      *)
(* database defines (server.rs, renameable: "its definition must live in     *)
(* workspace sources").                                                     *)
NeverRenamesDatabaseObjects ==
    pc = "answered" => answer.target.origin # "database"

(* A rename never merges the references to one relation with those to another *)
(* (server.rs, collision: "Renaming into a collision would silently merge    *)
(* every reference with the existing object's").                            *)
NeverMerges ==
    [][pc = "locate" /\ pc' = "answered" =>
         \/ answer'.target.origin = "query"
         \/ answer'.target.name = newName
         \/ Origin(newName) = "none"]_vars

(* The edits of the buffer are applied to the text they were computed from,   *)
(* whatever the user types and the server reloads meanwhile (server.rs,      *)
(* rename: "Versioned document edits let the client refuse a rename computed *)
(* against a buffer state it has since changed").                           *)
AppliedToTheTextSearched ==
    [][Apply => answer.text = buffer]_vars

(* A renamed reference refers to the renamed relation, which the migrations    *)
(* still define, unless they were edited while the answer was on its way:    *)
(* the declaration is part of the edits (server.rs, rename: "renaming must   *)
(* touch the defining identifier").                                         *)
ReferencesStayDefined ==
    [][Apply /\ answer.target.origin = "migration" /\ answer.migration = migration =>
         /\ buffer'.at.name \in migration'.defines
         /\ Cardinality(migration'.defines) = Cardinality(migration.defines)]_vars
=============================================================================
