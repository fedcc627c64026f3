---------------------------- MODULE ObjectStore ----------------------------
(***************************************************************************)
(* The content-addressed store of artifacts.py: copy_object, resolve and   *)
(* import_legacy, called by processes that know nothing of each other.     *)
(* An object is named by the digest of its bytes; two bytes with one       *)
(* digest do not exist, so a content is its own digest.                    *)
(*                                                                         *)
(* The directories of the store are there before any call.                 *)
(***************************************************************************)
EXTENDS DurableTree

CONSTANTS Importers,   \* processes that import a historical store
          Legacy       \* the contents of that store

VARIABLES copy,        \* process -> its copy in progress
          legacy       \* importer -> contents not imported yet, or "none"

Host == "host"         \* the process that runs a verification
Callers == Importers \cup {Host}

ASSUME StoreAssumption == Host \notin Importers

Object(content)  == <<"objects", content>>
Receipt(content) == <<"receipts", content>>
Manifest         == <<"imports", "manifest">>

Resting == [at |-> "none", path |-> <<>>, bytes |-> "none"]

StoreInit ==
  /\ copy = [c \in Callers |-> Resting]
  /\ legacy \in [Importers -> {Legacy, {}}]

(* Every copy writes and syncs a temporary file before anything is named.  *)
CopyObject(c, content) ==
  copy' = [copy EXCEPT ![c] =
             [at |-> "named", path |-> Object(content), bytes |-> content]]

(* _copy_exact_bytes: what exists is compared and left alone.              *)
CopyExact(c, path) ==
  copy' = [copy EXCEPT ![c] =
             [at |-> IF Exists(path) THEN "returned" ELSE "named",
              path |-> path, bytes |-> "document"]]

Copying(c, at) == copy[c].at = at
CopyGoes(c, at) == copy' = [copy EXCEPT ![c].at = at]

Links(c) ==
  /\ Copying(c, "named") /\ Link(copy[c].path, copy[c].bytes)
  /\ CopyGoes(c, "linked")
  /\ UNCHANGED <<kept, legacy>>

(* Mutant: what exists is taken to be durable.                             *)
FindsDone(c) ==
  /\ Copying(c, "named") /\ Exists(copy[c].path)
  /\ CopyGoes(c, "returned") /\ UNCHANGED <<treeVars, legacy>>

(* FileExistsError: another process was faster, or the bytes are old.  The *)
(* directory is synced all the same: the other may not have come so far.   *)
Finds(c) ==
  /\ Copying(c, "named") /\ Exists(copy[c].path)
  /\ CopyGoes(c, IF seen[copy[c].path] = copy[c].bytes THEN "linked"
                 ELSE "raised")
  /\ UNCHANGED <<treeVars, legacy>>

Syncs(c) ==
  /\ Copying(c, "linked") /\ SyncDirectory(Front(copy[c].path))
  /\ CopyGoes(c, "returned")
  /\ UNCHANGED <<seen, legacy>>

(* An I/O error; the source changed and its digest is not the expected one.*)
CopyFails(c) ==
  /\ copy[c].at \in {"named", "linked"} /\ CopyGoes(c, "raised")
  /\ UNCHANGED <<treeVars, legacy>>

Resolves(content) ==
  Exists(Object(content)) /\ seen[Object(content)] = content

-----------------------------------------------------------------------------
(* import_legacy: everything was validated first; then object and receipt  *)
(* of every row, and the manifest last.                                    *)
ImportCopies(i) ==
  /\ Copying(i, "none")
  /\ \E content \in legacy[i] : CopyObject(i, content)
  /\ UNCHANGED <<treeVars, legacy>>

ImportReceipt(i) ==
  /\ Copying(i, "returned") /\ copy[i].path[1] = "objects"
  /\ CopyExact(i, Receipt(copy[i].path[2]))
  /\ UNCHANGED <<treeVars, legacy>>

ImportGoesOn(i) ==
  /\ Copying(i, "returned") /\ copy[i].path[1] = "receipts"
  /\ legacy' = [legacy EXCEPT ![i] = @ \ {copy[i].path[2]}]
  /\ IF legacy'[i] = {} THEN CopyExact(i, Manifest)
     ELSE CopyGoes(i, "none")
  /\ UNCHANGED treeVars

Imported(i) == Copying(i, "returned") /\ copy[i].path = Manifest

(* The process is killed; the import is started once more.                 *)
ImporterDies(i) ==
  /\ ~Imported(i) /\ copy[i].at \notin {"none", "raised"}
  /\ legacy' = [legacy EXCEPT ![i] = Legacy]
  /\ copy' = [copy EXCEPT ![i] = Resting]
  /\ UNCHANGED treeVars

ImporterStep(i) ==
  \/ Links(i) \/ Finds(i) \/ Syncs(i) \/ CopyFails(i)
  \/ ImportCopies(i) \/ ImportReceipt(i) \/ ImportGoesOn(i)
==============================================================================
