--------------------------- MODULE GuardContract ---------------------------
(***************************************************************************)
(* What the orchestrator is told by the resource guard, whoever keeps it:  *)
(* one cohort-wide event at most, events of single sessions, and a         *)
(* terminal measurement after which a session has no new event of its own. *)
(* ResourceGuard implements it, and CohortRun assumes no more of its       *)
(* environment.                                                            *)
(***************************************************************************)
CONSTANT Sessions

VARIABLES cohort,     \* the latched cohort-wide event, or "none"
          breached,   \* sessions with a latched event of their own
          measured    \* sessions whose terminal measurement is done

guardVars == <<cohort, breached, measured>>

Init == cohort = "none" /\ breached = {} /\ measured = {}

(* Latches are permanent, and a measured session is left alone.            *)
Next ==
  /\ cohort' \in {cohort, "disk", "uncertain"}
  /\ cohort # "none" => cohort' = cohort
  /\ breached \subseteq breached' /\ breached' \subseteq Sessions
  /\ breached' \ breached \subseteq Sessions \ measured
  /\ measured \subseteq measured' /\ measured' \subseteq Sessions

Spec == Init /\ [][Next]_guardVars
=============================================================================
