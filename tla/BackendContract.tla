-------------------------- MODULE BackendContract --------------------------
(***************************************************************************)
(* What the host asks of one session of any backend: the RuntimeBackend    *)
(* and RunningSession protocols of runtime/contracts.py, as the host uses  *)
(* them.  start is called once; whatever comes of it, a stop proof that    *)
(* says "stopped" is true when it is given and never has to be taken back. *)
(* CohortRun assumes no more than this of the backends it runs.            *)
(***************************************************************************)

VARIABLES work,     \* truth: work of this session is running
          handle,   \* "none", "starting", "published" or "refused"
          proof,    \* the last stop proof given to the host
          result    \* what wait delivered

backendVars == <<work, handle, proof, result>>

Init ==
  /\ work = FALSE /\ handle = "none" /\ proof = "none" /\ result = "none"

Call ==
  /\ handle = "none" /\ handle' = "starting"
  /\ UNCHANGED <<work, proof, result>>

(* A process exists from some point of start on. *)
Spawn ==
  /\ handle = "starting" /\ work' = TRUE
  /\ handle' \in {"starting", "published"}
  /\ UNCHANGED <<proof, result>>

(* The handle is handed over; its process may be gone again by then. *)
Publish ==
  /\ handle = "starting" /\ handle' = "published"
  /\ UNCHANGED <<work, proof, result>>

(* BackendStartError: there will be no handle, but there is a proof. *)
Refuse ==
  /\ handle = "starting" /\ handle' = "refused"
  /\ proof' \in {"proven", "unproven"}
  /\ proof' = "proven" => ~work
  /\ UNCHANGED <<work, result>>

Quiesce ==
  /\ work' = FALSE
  /\ UNCHANGED <<handle, proof, result>>

(* wait delivers an outcome once, or never. *)
Complete ==
  /\ handle # "none" /\ result = "none"
  /\ result' \in {"success", "failure"}
  /\ UNCHANGED <<work, handle, proof>>

(* stop may be asked again; it does not retract a positive proof. *)
Stop ==
  /\ handle = "published"
  /\ proof' \in {"proven", "unproven"}
  /\ proof = "proven" => proof' = "proven"
  /\ proof' = "proven" => ~work
  /\ UNCHANGED <<work, handle, result>>

Next == Call \/ Spawn \/ Publish \/ Refuse \/ Quiesce \/ Complete \/ Stop

Spec == Init /\ [][Next]_backendVars
=============================================================================
