----------------------------- MODULE CohortFiles -----------------------------
(***************************************************************************)
(* The files of one cohort with everybody who touches them: planners that  *)
(* race for its id, launchers that race for its runtime, a reader of its   *)
(* status (RuntimeStore.read_status), and power losses that end them all.  *)
(***************************************************************************)
EXTENDS RuntimeStore

CONSTANTS PowerLosses,     \* bound on the power losses of a behaviour
          Reader,          \* who asks for the status
          Crowds           \* who may be about: sets of all the parties

VARIABLES reader,          \* what the status reader does next
          turn,            \* the planned session it is at
          looked,          \* the state file that lstat saw, NoFile if none
          quiet,           \* history: the launch had ended when it looked
          losses           \* power losses so far

NoFile == [by |-> Nobody, state |-> "none"]

readVars == <<reader, turn, looked, quiet, losses>>
vars == <<treeVars, planner, runVars, readVars>>

Init ==
  /\ seen = [p \in {} |-> Nobody] /\ kept = [p \in {} |-> Nobody]
  /\ \E crowd \in Crowds :
       /\ planner = [a \in Planners |-> IF a \in crowd THEN "idle" ELSE "ended"]
       /\ RunInit(crowd)
       /\ reader = IF Reader \in crowd THEN "idle" ELSE "absent"
  /\ turn = 1 /\ looked = NoFile /\ quiet = FALSE /\ losses = 0

(* A document is refused when it does not name the launch on disk.         *)
OfLaunch(path) == seen[path].by = seen[Launch].by

(* _validate_settlement_value: every receipt is there, as it was indexed.  *)
SettlementRebuilds ==
  /\ OfLaunch(Settlement)
  /\ \A s \in Sessions :
       /\ Exists(Receipt(s))
       /\ seen[Receipt(s)] = ReceiptOf(seen[Launch].by, seen[Settlement].rows[s])

(* Nobody is writing the launch on disk any more: it is settled, or the    *)
(* process that made it has left run_prepared_cohort.                      *)
Ended == Exists(Settlement) \/ run[seen[Launch].by] = "ended"

(* read_launch and launch_sha256.  Of a document that is never replaced,   *)
(* the lstat and the open of _safe_file_bytes see the same file, and a     *)
(* second read of it the same bytes: one step.                             *)
ReadLaunch ==
  /\ reader = "idle" /\ Exists(Launch)
  /\ reader' = IF Exists(SessionsRoot) /\ LaunchAccepted(seen[Launch])
                 THEN "state" ELSE "error"
  /\ UNCHANGED <<treeVars, planner, runVars, turn, looked, quiet, losses>>

(* session_paths: the session's directories are there.                     *)
HasPaths(s) ==
  Exists(Root(s)) /\ \A n \in 1..Len(Private) : Exists(Append(Root(s), Private[n]))

(* Mutant: lstat of the first session's file stands for all of them.       *)
LookStale ==
  LET s == Planned[turn] IN
  /\ reader = "state"
  /\ IF HasPaths(s) /\ Exists(State(s))
       THEN /\ reader' = "open"
            /\ looked' = seen[State(Planned[1])] /\ quiet' = Ended
       ELSE reader' = "error" /\ UNCHANGED <<looked, quiet>>
  /\ UNCHANGED <<treeVars, planner, runVars, turn, losses>>

(* read_state, first half: _safe_file_bytes takes the metadata of the file *)
(* that has the name now; a launched session always has one.               *)
LookAtState ==
  LET s == Planned[turn] IN
  /\ reader = "state"
  /\ IF HasPaths(s) /\ Exists(State(s))
       THEN /\ reader' = "open"
            /\ looked' = seen[State(s)] /\ quiet' = Ended
       ELSE reader' = "error" /\ UNCHANGED <<looked, quiet>>
  /\ UNCHANGED <<treeVars, planner, runVars, turn, losses>>

(* Second half: it opens the name and refuses another file than it looked  *)
(* at (UNSAFE_RUNTIME_PATH).  A file is known by its inode number, which a *)
(* replacement of a replacement may have again.                            *)
ReadState ==
  LET s == Planned[turn]
      read == IF OfLaunch(State(s)) THEN "receipt" ELSE "error"
  IN
  /\ reader = "open"
  /\ reader' \in IF seen[State(s)] = looked THEN {read} ELSE {read, "moved"}
  /\ looked' = NoFile
  /\ quiet' = (quiet /\ reader' = "moved")
  /\ UNCHANGED <<treeVars, planner, runVars, turn, losses>>

(* read_receipt and receipt_sha256; one that is absent for either of them  *)
(* is reported as such, and neither refuses what the other accepts.        *)
ReadReceipt ==
  LET s == Planned[turn] IN
  /\ reader = "receipt"
  /\ turn' = IF turn < Len(Planned) THEN turn + 1 ELSE turn
  /\ reader' = IF ~HasPaths(s) \/ (Exists(Receipt(s)) /\ ~OfLaunch(Receipt(s)))
                 THEN "error"
               ELSE IF turn < Len(Planned) THEN "state" ELSE "settlement"
  /\ UNCHANGED <<treeVars, planner, runVars, looked, quiet, losses>>

(* read_settlement; an absent one means "not settled".                     *)
ReadSettlement ==
  /\ reader = "settlement"
  /\ reader' = IF Exists(Settlement) => SettlementRebuilds THEN "idle" ELSE "error"
  /\ turn' = 1
  /\ UNCHANGED <<treeVars, planner, runVars, looked, quiet, losses>>

ReaderStep ==
  ReadLaunch \/ LookAtState \/ ReadState \/ ReadReceipt \/ ReadSettlement

(* The power fails: every process ends where it is, and none of them is    *)
(* resumed; what comes later is new planners, launchers and readers.       *)
PowerLoss ==
  /\ losses < PowerLosses /\ losses' = losses + 1
  /\ PowerFails
  /\ planner' = [a \in Planners |-> IF planner[a] = "idle" THEN "idle" ELSE "ended"]
  /\ run' = [l \in Launchers |-> IF run[l] = "idle" THEN "idle" ELSE "ended"]
  /\ holder' = Nobody
  /\ bundle' = NoBundle /\ at' = NothingLaid /\ doing' = NothingDone
  /\ stage' = NoStage /\ index' = NoIndex /\ broken' = {}
  /\ reader' = IF reader = "absent" THEN "absent" ELSE "idle"
  /\ turn' = 1 /\ looked' = NoFile /\ quiet' = FALSE
  /\ UNCHANGED promised

Next ==
  \/ \E a \in Planners : PlannerStep(a) /\ UNCHANGED <<runVars, readVars>>
  \/ \E l \in Launchers : LauncherStep(l) /\ UNCHANGED readVars
  \/ ReaderStep
  \/ PowerLoss

Spec == Init /\ [][Next]_vars
=============================================================================
