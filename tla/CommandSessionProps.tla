------------------------ MODULE CommandSessionProps ------------------------
(***************************************************************************)
(* What one command session is checked for.                                *)
(***************************************************************************)
EXTENDS CommandSession

(* The session as the host sees it. *)
Backend == INSTANCE BackendContract WITH
  work   <- leader = "alive" \/ child = "alive",
  handle <- CASE boot = "idle" -> "none" [] boot = "published" -> "published"
              [] boot = "refused" -> "refused" [] OTHER -> "starting",
  proof  <- answer,
  result <- outcome

(* Every command session keeps the host's contract: a stop proof that says *)
(* stopped is true when given, for stop and for a failed or cancelled      *)
(* start, it is never retracted, and the outcome is delivered once.        *)
ImplementsBackend == Backend!Spec

-----------------------------------------------------------------------------
(* When the host has its answer, whatever it says, nothing of the session  *)
(* is still at work behind its back: no completion task, no drainer with   *)
(* unsynced evidence, nobody inside the termination.                       *)
AnswerLeavesNothingBehind ==
  answer # "none" /\ stop \in {"idle", "answered"} =>
    /\ run \in {"none", "done", "cancelled"}
    /\ drain # "open"
    /\ lock = "free"

(* A success is the leader's own: it exited with status zero, the group    *)
(* was already empty when it was first looked at (no signal was ever       *)
(* needed), its output was drained to the end within the cap and written.  *)
SuccessIsClean ==
  outcome = "success" =>
    /\ leader = "reaped" /\ code = "zero" /\ child # "alive"
    /\ signal = "none"
    /\ drain = "eof" /\ ~capped /\ ~captureFailed

(* Every call of the host comes back: stop, even from a group that         *)
(* survives SIGKILL and from pipes that never close; wait, without any     *)
(* help of the host, once the leader was reaped or the output went wrong;  *)
(* and a cancelled start.                                                  *)
CallsComeBack ==
  /\ stop = "proving" ~> stop = "answered"
  /\ leader = "reaped" \/ capped \/ captureFailed ~> RunEnded
  /\ boot = "gap" ~> boot = "refused"
=============================================================================
