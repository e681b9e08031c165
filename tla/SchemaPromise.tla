--------------------------- MODULE SchemaPromise ---------------------------
(***************************************************************************)
(* What the schema index promises to a user who edits migrations,          *)
(* manifests and configuration, and who opens and closes folders: the       *)
(* folders of one index are read and published together, the schema a       *)
(* folder is served against is always one that was on disk at some time, it *)
(* never goes back to an older one, and it catches up with the disk.         *)
(* WorkspaceIndex is the detailed design that implements this promise.      *)
(***************************************************************************)
EXTENDS Naturals

CONSTANTS Folders,   \* the workspace folders
          Absent     \* a folder whose schema has not been loaded yet

VARIABLES disk,      \* disk[d]: how often the schema inputs of d were edited
          open,      \* the folders the index is kept for
          served     \* served[d]: the edition of d that requests are answered from

vars == <<disk, open, served>>

Init == /\ disk = [d \in Folders |-> 0]
        /\ open \in SUBSET Folders
        /\ served = [d \in Folders |-> Absent]

(* Schema inputs of some folders change on disk, at once.                   *)
Edit(D) == /\ disk' = [d \in Folders |-> IF d \in D THEN disk[d] + 1 ELSE disk[d]]
           /\ UNCHANGED <<open, served>>

(* Folders are opened and closed; what is served waits for the next index.  *)
ChangeFolders == /\ open' \in SUBSET Folders
                 /\ UNCHANGED <<disk, served>>

(* A new index replaces the old one.  Its folders may have been read at    *)
(* different times, each no earlier than what was served before.           *)
Editions == UNION {0..disk[d] : d \in Folders}

Publish ==
    /\ open' \in SUBSET Folders
    /\ served' \in [Folders -> Editions \cup {Absent}]
    /\ \A d \in Folders \ open' : served'[d] = Absent
    /\ \A d \in open' :
         /\ served'[d] \in 0..disk[d]
         /\ served[d] # Absent => served'[d] >= served[d]
    /\ UNCHANGED disk

(* A publication after which d is served from what is on disk.             *)
CatchUp(d) == /\ d \in open
              /\ served[d] # disk[d]
              /\ Publish
              /\ d \in open'
              /\ served'[d] = disk[d]

Next == \/ Publish
        \/ ChangeFolders
        \/ \E D \in SUBSET Folders : Edit(D)

Safety == Init /\ [][Next]_vars

Spec == Safety /\ \A d \in Folders : WF_vars(CatchUp(d))
=============================================================================
