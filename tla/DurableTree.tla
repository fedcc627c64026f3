----------------------------- MODULE DurableTree -----------------------------
(***************************************************************************)
(* A directory tree as the stores use it: what every process can see now,  *)
(* and what a power loss is certain to leave.  A name becomes certain only *)
(* when the directory that holds it is synced; a file's bytes are always   *)
(* synced in a temporary file before its name appears (_publish_exclusive, *)
(* _replace_atomic), so a name never leads to a partial document.          *)
(*                                                                         *)
(* A path is the sequence of its names below the directory it is of.      *)
(***************************************************************************)
EXTENDS Naturals, Sequences, SequencesExt

VARIABLES seen,   \* path -> content, in the page cache
          kept    \* path -> content, on the device

treeVars == <<seen, kept>>

Exists(path) == path \in DOMAIN seen

Children(dir) == {path \in DOMAIN seen : path # <<>> /\ Front(path) = dir}

(* os.mkdir and os.link are no-replace: they name the entry, in a directory *)
(* that is there, or fail.                                                 *)
Link(path, content) ==
  /\ ~Exists(path)
  /\ Len(path) > 1 => Exists(Front(path))
  /\ seen' = [p \in DOMAIN seen \cup {path} |->
                IF p = path THEN content ELSE seen[p]]

(* os.replace *)
Replace(path, content) ==
  seen' = [p \in DOMAIN seen \cup {path} |->
             IF p = path THEN content ELSE seen[p]]

(* _fsync_directory: every entry of dir is certain now. *)
SyncDirectory(dir) ==
  kept' = [p \in DOMAIN kept \cup Children(dir) |->
             IF p \in Children(dir) THEN seen[p] ELSE kept[p]]

(* The same, of an entry of dir that was replaced in this very step.       *)
SyncDirectoryAfter(dir) ==
  kept' = [p \in DOMAIN kept \cup Children(dir) |->
             IF p \in Children(dir) THEN seen'[p] ELSE kept[p]]

(* What can be reached of a set of surviving entries. *)
Reachable(paths) ==
  {path \in paths : \A n \in 1..Len(path) : SubSeq(path, 1, n) \in paths}

(* The power fails: of the entries not synced since they last changed each *)
(* one survives by luck or not, and what lost its directory is lost.       *)
PowerFails ==
  \E lucky \in SUBSET {p \in DOMAIN seen :
                         p \in DOMAIN kept => kept[p] # seen[p]} :
    LET found == Reachable(lucky \cup DOMAIN kept) IN
    /\ seen' = [p \in found |-> IF p \in lucky THEN seen[p] ELSE kept[p]]
    /\ kept' = seen'
==============================================================================
