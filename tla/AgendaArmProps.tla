--------------------------- MODULE AgendaArmProps ---------------------------
(***************************************************************************)
(* What the agenda arm is checked for.                                     *)
(***************************************************************************)
EXTENDS AgendaArm

CONSTANT Nobody
ASSUME NobodyAssumption == Nobody \notin Launch

(* A session that may still publish. *)
Able(s) == s \in Launch /\ stage[s] \notin {"failed", "settled"}

(* Leases whose holder can still use them. *)
LiveLeases(t) == {i \in Blocking(t) : Able(entries[i].by)}

Holder(t) ==
  IF LiveLeases(t) = {} THEN Nobody
  ELSE entries[CHOOSE i \in LiveLeases(t) : TRUE].by

Contract == INSTANCE WorklistContract WITH
  holder <- [t \in Tasks |-> Holder(t)],
  done   <- {t \in Tasks : Completed(t)}

(* The worklist the sessions see is WorklistContract's: leases one at a    *)
(* time, dependencies first, completion by the holder alone.               *)
ImplementsWorklist == Contract!Spec

-----------------------------------------------------------------------------
(* At most one live claim per task, counting the holders that can act, in  *)
(* whatever order reviews, publications and settlements interleave.        *)
LeaseExclusive == \A t \in Tasks : Cardinality(LiveLeases(t)) <= 1

(* Every completion the launch adds to the ledger comes after the          *)
(* completion of everything its task depends on.  (The ledger has the      *)
(* world's earlier records in the order of their refs.)                    *)
DependenciesFirst ==
  \A t \in Tasks : \A j \in CompletedAt(t) : j > BaseTick =>
    \A u \in Depends[t] : \E i \in CompletedAt(u) : i < j

(* The module docstring: a lease "never looks older than it is and         *)
(* therefore never expires early": an expired lease has really seen that   *)
(* many admissions, also one from before the launch.                       *)
NeverExpiresEarly ==
  \A i \in Refs : IsClaim(i) /\ Expired(i) =>
    \A w \in DOMAIN world :
      world[w] = entries[i] => Len(world) >= w + entries[i].ticks

(* The receipt of a settled session names every lease it left behind.      *)
ReleaseIsComplete ==
  \A t \in Tasks : \A i \in Blocking(t) :
    LET s == entries[i].by IN
    s \in Launch /\ stage[s] = "settled" => i \in released[s]
=============================================================================
