---------------------------- MODULE SourceCache ----------------------------
(***************************************************************************)
(* The cache of one locked source (source_materializer.py): processes that *)
(* call SourceMaterializer.ensure, the lock they build under, and the      *)
(* audit that every reader makes without the lock.                         *)
(*                                                                         *)
(* The entry is one name: its tree was written, synced and frozen in a     *)
(* staging directory of the process that renames it.                       *)
(***************************************************************************)
EXTENDS ObjectStore

CONSTANTS Materializers, Nobody

ASSUME CacheAssumption == Nobody \notin Materializers

VARIABLES where,       \* materializer -> where its ensure is
          lock         \* who holds .materialize.lock, or Nobody

cacheVars == <<where, lock>>

Entry == <<"cache", "entry">>

CacheInit ==
  /\ where \in {[m \in Materializers |-> "idle"],
                [m \in Materializers |-> "absent"]}
  /\ lock = Nobody

Goes(m, from, to) == where[m] = from /\ where' = [where EXCEPT ![m] = to]

(* Every byte and every mode of the entry is what the lock file pins.      *)
Acceptable == Exists(Entry) /\ seen[Entry] = "whole"

(* ensure: what exists is audited, and never repaired. *)
Ensures(m) ==
  /\ Goes(m, "idle", IF Exists(Entry) THEN "auditing" ELSE "waiting")
  /\ UNCHANGED <<treeVars, lock>>

(* Mutant: no second look at the entry under the lock.                     *)
LocksBlindly(m) ==
  /\ Goes(m, "waiting", "building") /\ lock = Nobody /\ lock' = m
  /\ UNCHANGED treeVars

Locks(m) ==
  /\ where[m] = "waiting" /\ lock = Nobody /\ lock' = m
  /\ Goes(m, "waiting", IF Exists(Entry) THEN "auditing" ELSE "building")
  /\ UNCHANGED treeVars

(* The tree is read from git, written and compared with its pin.           *)
Stages(m) ==
  /\ Goes(m, "building", "staged")
  /\ UNCHANGED <<treeVars, lock>>

Release(m) == lock' = IF lock = m THEN Nobody ELSE lock

(* git is unreadable, its tree is another one, or the disk is full.        *)
StagingFails(m) ==
  /\ Goes(m, "building", "failed") /\ Release(m)
  /\ UNCHANGED treeVars

Renames(m) ==
  /\ where[m] = "staged"
  /\ IF Exists(Entry)
       THEN Goes(m, "staged", "conflict") /\ Release(m) /\ UNCHANGED seen
       ELSE Goes(m, "staged", "renamed") /\ Link(Entry, "whole")
            /\ UNCHANGED lock
  /\ UNCHANGED kept

(* The name is certain now.  The modes of the files and directories were   *)
(* set after the last sync of what they belong to: they are not.           *)
EntrySynced(m) ==
  /\ Goes(m, "renamed", "auditing")
  /\ kept' = [p \in DOMAIN kept \cup {Entry} |->
                IF p = Entry THEN "unfrozen" ELSE kept[p]]
  /\ UNCHANGED <<seen, lock>>

EntrySyncFails(m) ==
  /\ Goes(m, "renamed", "failed") /\ Release(m)
  /\ UNCHANGED treeVars

Audits(m) ==
  /\ Goes(m, "auditing", IF Acceptable THEN "audited" ELSE "conflict")
  /\ Release(m)
  /\ UNCHANGED treeVars

(* Mutant: the lock outlives its holder.                                   *)
MaterializerVanishes(m) ==
  /\ where[m] \notin {"absent", "idle", "audited", "conflict", "failed"}
  /\ where' = [where EXCEPT ![m] = "failed"]
  /\ UNCHANGED <<treeVars, lock>>

(* The kernel drops the lock of a process that is killed; what it staged   *)
(* stays behind under a name nobody looks for.                             *)
MaterializerDies(m) ==
  /\ where[m] \notin {"absent", "idle", "audited", "conflict", "failed"}
  /\ where' = [where EXCEPT ![m] = "failed"]
  /\ Release(m)
  /\ UNCHANGED treeVars

MaterializerStep(m) ==
  \/ Ensures(m) \/ Locks(m) \/ Stages(m) \/ StagingFails(m) \/ Renames(m)
  \/ EntrySynced(m) \/ EntrySyncFails(m) \/ Audits(m)
==============================================================================
