---------------------------- MODULE ResourceGuard ----------------------------
(***************************************************************************)
(* runtime/resource_guard.py: the monitors of one cohort.                  *)
(*                                                                         *)
(* A disk check is synchronous; a tree scan suspends every few hundred     *)
(* entries, so the first scans of one session, the live scans of another   *)
(* and the terminal scans of a third interleave.  Callers use a session in *)
(* the order activate, finish; close comes when no call is under way       *)
(* (run_prepared_cohort's finish_settlement).                              *)
(***************************************************************************)
EXTENDS Naturals

CONSTANTS Sessions,
          Profiles,          \* safety profiles a launch may run under
          MaximumWarnings,   \* MAXIMUM_RESOURCE_WARNINGS
          ScansFail          \* an accounting step may be uncertain

(* A profile has one disposition for all rows of a tree: the code reports   *)
(* the first row that is exceeded (_tree_limit_event), so a profile that    *)
(* mixed both could have a warning hide a later stop.                       *)
ASSUME ProfileAssumption ==
  /\ Profiles \subseteq [scan : {"QUIESCENT", "LIVE_LATCHED"},
                          tree : {"WARN", "SESSION_STOP"},
                          disk : {"WARN", "SESSION_STOP"}]
  /\ ScansFail \in BOOLEAN /\ MaximumWarnings \in Nat \ {0}

Targets == {"workspace", "cache"}

VARIABLES
  profile,           \* the authenticated safety profile of this launch
  started, closed,   \* lifecycle of the guard
  use,        \* session -> idle, activating, active, joining, measuring, finished
  at,         \* session -> the tree being scanned by that call
  told,       \* history: cohort-wide events its calls returned
  cohort,     \* _global_terminal
  breached,   \* sessions with a _session_terminal
  warnings,   \* session -> warnings kept
  diskLoop,   \* off, asleep or ended
  treeLoop,   \* session -> target -> off, asleep, scanning or ended
  low,        \* truth: the filesystem is below its reserve
  over        \* truth: session -> trees beyond a limit

lifeVars  == <<profile, started, closed>>
hostVars  == <<use, at, told>>
latchVars == <<cohort, breached, warnings>>
loopVars  == <<diskLoop, treeLoop>>
worldVars == <<low, over>>
vars == <<lifeVars, hostVars, latchVars, loopVars, worldVars>>

Loops == {"off", "asleep", "scanning", "ended"}

LiveScans == profile.scan = "LIVE_LATCHED"
TreeWarns == profile.tree = "WARN"
DiskWarns == profile.disk = "WARN"

Init ==
  /\ profile \in Profiles
  /\ started = FALSE /\ closed = FALSE
  /\ use = [s \in Sessions |-> "idle"] /\ at = [s \in Sessions |-> "none"]
  /\ told = {}
  /\ cohort = "none" /\ breached = {} /\ warnings = [s \in Sessions |-> 0]
  /\ diskLoop = "off"
  /\ treeLoop = [s \in Sessions |-> [t \in Targets |-> "off"]]
  /\ low \in BOOLEAN /\ over = [s \in Sessions |-> {}]

(* event_for(s) is not None. *)
HasEvent(s) == cohort # "none" \/ s \in breached

(* A call returns event_for(s) to the host. *)
Returns(s) == told' = told \cup ({cohort'} \ {"none"})

-----------------------------------------------------------------------------
(* _latch and the two kinds of check. *)

(* At most MAXIMUM_RESOURCE_WARNINGS are kept for each session. *)
Warn(those) ==
  warnings' = [s \in Sessions |->
    IF s \in those /\ warnings[s] < MaximumWarnings
      THEN warnings[s] + 1 ELSE warnings[s]]

LatchCohort(e) ==
  /\ cohort' = IF cohort = "none" THEN e ELSE cohort
  /\ UNCHANGED <<breached, warnings>>

DiskResults == {IF low THEN "disk" ELSE "ok"} \cup
               (IF ScansFail THEN {"uncertain"} ELSE {})

(* _check_disk: what it latches for each result. *)
DiskChecked(result) ==
  IF result = "ok" THEN UNCHANGED latchVars
  ELSE IF result = "disk" /\ DiskWarns
    THEN Warn(Sessions) /\ UNCHANGED <<cohort, breached>>
  ELSE LatchCohort(result)

TreeResults(s, t) == {IF t \in over[s] THEN "tree" ELSE "ok"} \cup
                     (IF ScansFail THEN {"uncertain"} ELSE {})

(* _check_tree. *)
TreeChecked(s, result) ==
  CASE result = "ok"        -> UNCHANGED latchVars
    [] result = "uncertain" -> LatchCohort("uncertain")
    [] result = "tree"      ->
         IF TreeWarns THEN Warn({s}) /\ UNCHANGED <<cohort, breached>>
         ELSE breached' = breached \cup {s} /\ UNCHANGED <<cohort, warnings>>

-----------------------------------------------------------------------------
(* start makes one disk check and returns what it found, a warning too;    *)
(* only a good check is followed by the monitor.                           *)
Start ==
  /\ ~started /\ ~closed /\ started' = TRUE
  /\ \E result \in DiskResults :
       /\ DiskChecked(result)
       /\ diskLoop' = IF result = "ok" THEN "asleep" ELSE "off"
       /\ told' = {result} \ {"ok"}
  /\ UNCHANGED <<profile, closed, use, at, treeLoop, worldVars>>

(* activate returns at once when the cohort already has its event.  Inputs *)
(* were written into the session's trees just before.                      *)
Activate(s) ==
  /\ started /\ ~closed /\ use[s] = "idle"
  /\ IF cohort # "none"
       THEN use' = [use EXCEPT ![s] = "active"] /\ told' = told \cup {cohort}
            /\ UNCHANGED at
       ELSE use' = [use EXCEPT ![s] = "activating"] /\ UNCHANGED told
            /\ at' = [at EXCEPT ![s] = "workspace"]
  /\ \E there \in SUBSET Targets : over' = [over EXCEPT ![s] = there]
  /\ UNCHANGED <<lifeVars, latchVars, loopVars, low>>

(* Mutant: the live monitor of the cache is forgotten.                     *)
WatchWorkspace(s) ==
  treeLoop' = IF LiveScans /\ ~HasEvent(s)'
    THEN [treeLoop EXCEPT ![s]["workspace"] = "asleep"] ELSE treeLoop

(* Live monitors, one per tree, where the profile asks for them; one that  *)
(* finds an event at its first test ends at once.                          *)
Watch(s) ==
  treeLoop' = IF LiveScans
    THEN [treeLoop EXCEPT ![s] =
            [t \in Targets |-> IF HasEvent(s)' THEN "ended" ELSE "asleep"]]
    ELSE treeLoop

(* One of activate's two first scans is complete: anything worse than a    *)
(* warning ends the call, after the second one live monitors are started.  *)
FirstScanned(s) ==
  /\ use[s] = "activating"
  /\ \E result \in TreeResults(s, at[s]) :
       LET stops == result = "uncertain" \/ (result = "tree" /\ ~TreeWarns)
           more == ~stops /\ at[s] = "workspace"
       IN
       /\ TreeChecked(s, result)
       /\ use' = IF more THEN use ELSE [use EXCEPT ![s] = "active"]
       /\ at' = [at EXCEPT ![s] = IF more THEN "cache" ELSE "none"]
       /\ IF stops \/ more THEN UNCHANGED treeLoop ELSE Watch(s)
       /\ IF more THEN UNCHANGED told ELSE Returns(s)
  /\ UNCHANGED <<lifeVars, diskLoop, worldVars>>

-----------------------------------------------------------------------------
(* The monitors. *)

DiskTick ==
  /\ diskLoop = "asleep"
  /\ \E result \in DiskResults : DiskChecked(result)
  /\ diskLoop' = IF cohort' = "none" THEN "asleep" ELSE "ended"
  /\ UNCHANGED <<lifeVars, hostVars, treeLoop, worldVars>>

TreeTick(s, t) ==
  /\ treeLoop[s][t] = "asleep"
  /\ treeLoop' = [treeLoop EXCEPT ![s][t] = "scanning"]
  /\ UNCHANGED <<lifeVars, hostVars, latchVars, diskLoop, worldVars>>

TreeScanned(s, t) ==
  /\ treeLoop[s][t] = "scanning"
  /\ \E result \in TreeResults(s, t) : TreeChecked(s, result)
  /\ treeLoop' = [treeLoop EXCEPT ![s][t] =
                    IF HasEvent(s)' THEN "ended" ELSE "asleep"]
  /\ UNCHANGED <<lifeVars, hostVars, diskLoop, worldVars>>

-----------------------------------------------------------------------------
(* finish *)

(* A session that was never activated is not measured at all.              *)
FinishIdle(s) ==
  /\ use[s] = "idle" /\ use' = [use EXCEPT ![s] = "finished"]
  /\ UNCHANGED <<lifeVars, at, latchVars, loopVars, worldVars>>
  /\ Returns(s)

(* Mutant: the monitors are cancelled but keep a scan under way.           *)
CancelledAsleep(loops) ==
  [t \in Targets |-> IF loops[t] = "asleep" THEN "ended" ELSE loops[t]]

(* Cancelled at their next suspension, without latching anything.          *)
Cancelled(loops) ==
  [t \in Targets |-> IF loops[t] = "off" THEN "off" ELSE "ended"]

FinishCalled(s) ==
  /\ use[s] = "active" /\ use' = [use EXCEPT ![s] = "joining"]
  /\ treeLoop' = [treeLoop EXCEPT ![s] = Cancelled(@)]
  /\ UNCHANGED <<lifeVars, at, told, latchVars, diskLoop, worldVars>>

FinishJoined(s) ==
  /\ use[s] = "joining" /\ use' = [use EXCEPT ![s] = "measuring"]
  /\ at' = [at EXCEPT ![s] = "workspace"]
  /\ \E result \in DiskResults : DiskChecked(result)
  /\ UNCHANGED <<lifeVars, told, loopVars, worldVars>>

(* Mutant: a finding in the workspace ends the terminal measurement.       *)
LastScannedEarly(s) ==
  /\ use[s] = "measuring"
  /\ \E result \in TreeResults(s, at[s]) : TreeChecked(s, result)
  /\ use' = [use EXCEPT ![s] = "finished"]
  /\ at' = [at EXCEPT ![s] = "none"]
  /\ Returns(s)
  /\ UNCHANGED <<lifeVars, loopVars, worldVars>>

(* Both trees are measured whatever the first shows.                       *)
LastScanned(s) ==
  /\ use[s] = "measuring"
  /\ \E result \in TreeResults(s, at[s]) : TreeChecked(s, result)
  /\ IF at[s] = "workspace"
       THEN at' = [at EXCEPT ![s] = "cache"] /\ UNCHANGED <<use, told>>
       ELSE /\ use' = [use EXCEPT ![s] = "finished"]
            /\ at' = [at EXCEPT ![s] = "none"]
            /\ Returns(s)
  /\ UNCHANGED <<lifeVars, loopVars, worldVars>>

Close ==
  /\ started /\ ~closed /\ closed' = TRUE
  /\ \A s \in Sessions : use[s] \in {"idle", "active", "finished"}
  /\ diskLoop' = IF diskLoop = "off" THEN "off" ELSE "ended"
  /\ treeLoop' = [s \in Sessions |-> Cancelled(treeLoop[s])]
  /\ UNCHANGED <<profile, started, hostVars, latchVars, worldVars>>

-----------------------------------------------------------------------------
(* The world: free space comes and goes; a tree changes while its backend  *)
(* may run, and is quiescent from finish on.                               *)
SpaceChanges ==
  /\ ~closed /\ low' = ~low
  /\ UNCHANGED <<lifeVars, hostVars, latchVars, loopVars, over>>

TreeChanges(s) ==
  /\ use[s] = "active"
  /\ \E t \in Targets :
       over' = [over EXCEPT ![s] = IF t \in @ THEN @ \ {t} ELSE @ \cup {t}]
  /\ UNCHANGED <<lifeVars, hostVars, latchVars, loopVars, low>>

Monitors ==
  DiskTick \/ \E s \in Sessions, t \in Targets : TreeTick(s, t) \/ TreeScanned(s, t)

Calls(s) ==
  \/ FirstScanned(s) \/ FinishJoined(s) \/ LastScanned(s)

Next ==
  \/ Start \/ Close \/ Monitors \/ SpaceChanges
  \/ \E s \in Sessions : \/ Activate(s) \/ FinishIdle(s) \/ FinishCalled(s)
                         \/ Calls(s) \/ TreeChanges(s)

Spec == Init /\ [][Next]_vars

(* Timers fire and calls under way proceed; the host's calls, the trees    *)
(* and the free space are not fair.  A disk check that finds nothing       *)
(* changes nothing, and fairness of DiskTick alone would make it fail; it  *)
(* is asked only of checks that have something to find.                    *)
Fairness ==
  /\ WF_vars(low /\ ~DiskWarns /\ DiskTick)
  /\ \A s \in Sessions : WF_vars(Calls(s))
  /\ \A s \in Sessions, t \in Targets :
       WF_vars(TreeTick(s, t)) /\ WF_vars(TreeScanned(s, t))

FairSpec == Spec /\ Fairness
=============================================================================
