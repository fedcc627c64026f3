------------------------- MODULE ResourceGuardProps -------------------------
(***************************************************************************)
(* What the resource guard is checked for.                                 *)
(***************************************************************************)
EXTENDS ResourceGuard

Contract == INSTANCE GuardContract WITH
  measured <- {s \in Sessions : use[s] = "finished"}

(* The guard tells the orchestrator no more and no less than GuardContract *)
(* says: permanent latches, no event of a session after its measurement.   *)
ImplementsGuard == Contract!Spec

(* finish and close have the last word: no monitor scans any more, and a   *)
(* session whose trees are beyond a limit when it ends is never reported   *)
(* clean: it has an event, or where the profile only warns, a warning.     *)
LastWord ==
  /\ \A s \in Sessions :
       /\ use[s] = "finished" /\ over[s] # {} => HasEvent(s) \/ warnings[s] > 0
       /\ use[s] \in {"measuring", "finished"} \/ closed =>
            \A t \in Targets : treeLoop[s][t] \in {"off", "ended"}
  /\ closed => diskLoop # "asleep"

(* A reserve that stays breached while the guard is open is noticed, and   *)
(* so is a tree that stays beyond a limit in a profile with live scans,    *)
(* unless the profile only asks for warnings.                              *)
BreachIsFound ==
  /\ started /\ ~closed /\ low /\ ~DiskWarns ~> ~low \/ closed \/ cohort # "none"
  /\ \A s \in Sessions, t \in Targets :
       (LiveScans /\ ~TreeWarns /\ use[s] = "active" /\ t \in over[s]) ~>
         (t \notin over[s] \/ use[s] # "active" \/ closed \/ HasEvent(s))

(* docs/SAFETY.md: "WARN: retain an observation without interrupting       *)
(* research"; the host stops new work on every cohort-wide event it is     *)
(* told of (_observe_resource_event).                                      *)
WarningsDoNotInterrupt == DiskWarns => "disk" \notin told
=============================================================================
