------------------------- MODULE ResourceGuardProofs -------------------------
(***************************************************************************)
(* For any sessions, safety profiles and warning caps: the guard has the   *)
(* last word on every session, and keeps GuardContract.                    *)
(***************************************************************************)
EXTENDS ResourceGuardProps, TLAPS

Uses == {"idle", "activating", "active", "joining", "measuring", "finished"}

GuardTyped ==
  /\ closed \in BOOLEAN
  /\ use \in [Sessions -> Uses]
  /\ at \in [Sessions -> Targets \cup {"none"}]
  /\ cohort \in {"none", "disk", "uncertain"}
  /\ breached \subseteq Sessions
  /\ warnings \in [Sessions -> Nat]
  /\ diskLoop \in {"off", "asleep", "ended"}
  /\ treeLoop \in [Sessions -> [Targets -> Loops]]
  /\ over \in [Sessions -> SUBSET Targets]

(* No monitor of a session is at work: none was started, or it was ended.  *)
Unwatched(s) == \A t \in Targets : treeLoop[s][t] \in {"off", "ended"}

(* A tree that was found beyond a limit has left a trace.                  *)
Noticed(s) == HasEvent(s) \/ warnings[s] > 0

SessionHolds(s) ==
  /\ use[s] \in {"idle", "joining", "measuring", "finished"} \/ closed => Unwatched(s)
  /\ use[s] = "activating" => Unwatched(s) /\ ~closed
  /\ use[s] \in {"activating", "measuring"} => at[s] \in Targets
  /\ use[s] = "idle" => over[s] = {}
  /\ use[s] = "measuring" /\ at[s] = "cache" /\ "workspace" \in over[s] => Noticed(s)
  /\ use[s] = "finished" /\ over[s] # {} => Noticed(s)

GuardInv ==
  /\ GuardTyped
  /\ closed => diskLoop # "asleep"
  /\ \A s \in Sessions : SessionHolds(s)

-----------------------------------------------------------------------------
(* What a step may do to the latches: they only ever say more.             *)
Lasting ==
  /\ cohort' \in {"none", "disk", "uncertain"}
  /\ cohort # "none" => cohort' = cohort
  /\ breached \subseteq breached' /\ breached' \subseteq Sessions
  /\ warnings' \in [Sessions -> Nat]
  /\ \A s \in Sessions : warnings[s] > 0 => warnings'[s] > 0

(* A step that decides nothing.                                            *)
LEMMA LatchesStill ==
  ASSUME GuardTyped, UNCHANGED latchVars PROVE Lasting
BY DEF GuardTyped, Lasting, latchVars

(* A warning is never taken back, nor is the first one dropped by the cap. *)
LEMMA WarnLasts ==
  ASSUME GuardTyped, NEW those \in SUBSET Sessions, Warn(those),
         UNCHANGED <<cohort, breached>>
  PROVE  Lasting /\ \A s \in those : warnings'[s] > 0
<1>1. \A s \in Sessions :
        /\ warnings[s] \in Nat /\ warnings'[s] \in Nat
        /\ warnings[s] > 0 => warnings'[s] > 0
        /\ s \in those => warnings'[s] > 0
  BY ProfileAssumption DEF GuardTyped, Warn
<1>2. warnings' \in [Sessions -> Nat]
  BY <1>1 DEF Warn
<1> QED
  BY <1>1, <1>2 DEF GuardTyped, Lasting

(* A latched cohort event stays.                                           *)
LEMMA LatchLasts ==
  ASSUME GuardTyped, NEW e \in {"disk", "uncertain"}, LatchCohort(e)
  PROVE  Lasting /\ cohort' # "none" /\ breached' = breached
BY DEF GuardTyped, LatchCohort, Lasting

(* A disk check latches, warns or decides nothing.                         *)
LEMMA DiskCheckLasts ==
  ASSUME GuardTyped, NEW result \in DiskResults, DiskChecked(result)
  PROVE  Lasting /\ breached' = breached
<1>1. result \in {"ok", "disk", "uncertain"}
  BY DEF DiskResults
<1>2. CASE result = "ok"
  BY <1>2, LatchesStill DEF DiskChecked, latchVars
<1>3. CASE result = "disk" /\ DiskWarns
  BY <1>3, WarnLasts DEF DiskChecked
<1>4. CASE result # "ok" /\ ~(result = "disk" /\ DiskWarns)
  BY <1>1, <1>4, LatchLasts DEF DiskChecked
<1> QED
  BY <1>1, <1>2, <1>3, <1>4

(* A check of a tree that found anything leaves a trace for its session.   *)
LEMMA TreeCheckLasts ==
  ASSUME GuardTyped, NEW s \in Sessions, NEW t \in Targets,
         NEW result \in TreeResults(s, t), TreeChecked(s, result)
  PROVE  /\ Lasting /\ breached' \subseteq breached \cup {s}
         /\ t \in over[s] => Noticed(s)'
<1>1. result \in {"ok", "tree", "uncertain"} /\ (t \in over[s] => result # "ok")
  BY DEF TreeResults
<1>2. CASE result = "ok"
  BY <1>1, <1>2, LatchesStill DEF TreeChecked, latchVars
<1>3. CASE result = "uncertain"
  BY <1>3, LatchLasts DEF TreeChecked, Noticed, HasEvent
<1>4. CASE result = "tree" /\ TreeWarns
  <2>1. Warn({s}) /\ UNCHANGED <<cohort, breached>>
    BY <1>4 DEF TreeChecked
  <2> QED
    BY <2>1, WarnLasts DEF Noticed
<1>5. CASE result = "tree" /\ ~TreeWarns
  <2>1. breached' = breached \cup {s} /\ UNCHANGED <<cohort, warnings>>
    BY <1>5 DEF TreeChecked
  <2> QED
    BY <2>1 DEF GuardTyped, Lasting, Noticed, HasEvent
<1> QED
  BY <1>1, <1>2, <1>3, <1>4, <1>5

(* A trace of a session stays.                                             *)
LEMMA NoticeLasts ==
  ASSUME Lasting, NEW s \in Sessions, Noticed(s) PROVE Noticed(s)'
BY DEF Lasting, Noticed, HasEvent

(* Sessions a step is not about stay as they are.                          *)
LEMMA SessionStays ==
  ASSUME NEW s \in Sessions, SessionHolds(s), Lasting, closed' = closed,
         use'[s] = use[s], at'[s] = at[s], over'[s] = over[s],
         treeLoop'[s] = treeLoop[s]
  PROVE  SessionHolds(s)'
BY NoticeLasts DEF SessionHolds, Unwatched

-----------------------------------------------------------------------------
(* What every step does, beside keeping the invariant: it says nothing new *)
(* of a session that was measured, and does not take a measurement back.   *)
Measured == {s \in Sessions : use[s] = "finished"}

GuardStep ==
  /\ GuardInv' /\ Lasting
  /\ breached' \ breached \subseteq Sessions \ Measured
  /\ Measured \subseteq Measured'

(* At first nobody is watched.                                             *)
LEMMA GuardStart == Init => GuardInv
<1> SUFFICES ASSUME Init PROVE GuardInv
  OBVIOUS
<1>1. GuardTyped
  BY DEF Init, GuardTyped, Uses, Loops
<1>2. \A s \in Sessions : SessionHolds(s)
  BY DEF Init, SessionHolds, Unwatched
<1> QED
  BY <1>1, <1>2 DEF GuardInv, Init

(* One lemma for each operation of the guard: it keeps the invariant and is*)
(* a step of the contract.                                                 *)
LEMMA StartStep == ASSUME GuardInv, Start PROVE GuardStep
<1>1. PICK result \in DiskResults :
        DiskChecked(result) /\ diskLoop' = IF result = "ok" THEN "asleep" ELSE "off"
  BY DEF Start
<1>2. Lasting /\ breached' = breached
  BY <1>1, DiskCheckLasts DEF GuardInv
<1>3. UNCHANGED <<closed, use, at, over, treeLoop>> /\ ~closed
  BY DEF Start, worldVars
<1>4. \A s \in Sessions : SessionHolds(s)'
  BY <1>2, <1>3, SessionStays DEF GuardInv
<1>5. GuardTyped'
  BY <1>1, <1>2, <1>3 DEF GuardInv, GuardTyped, Lasting
<1> QED
  BY <1>2, <1>3, <1>4, <1>5 DEF GuardStep, GuardInv, Measured

LEMMA ActivateStep ==
  ASSUME GuardInv, NEW s \in Sessions, Activate(s) PROVE GuardStep
<1>1. Lasting /\ UNCHANGED <<closed, breached, diskLoop, treeLoop>> /\ ~closed
  BY LatchesStill DEF Activate, GuardInv, lifeVars, latchVars, loopVars
<1>2. PICK there \in SUBSET Targets : over' = [over EXCEPT ![s] = there]
  BY DEF Activate
<1>3. /\ use[s] = "idle"
      /\ \/ use' = [use EXCEPT ![s] = "active"] /\ at' = at
         \/ use' = [use EXCEPT ![s] = "activating"]
            /\ at' = [at EXCEPT ![s] = "workspace"]
  BY DEF Activate
<1>4. GuardTyped'
  BY <1>1, <1>2, <1>3 DEF GuardInv, GuardTyped, Lasting, Uses, Targets
<1>5. SessionHolds(s)'
  BY <1>1, <1>3 DEF GuardInv, GuardTyped, SessionHolds, Unwatched, Targets
<1>6. \A r \in Sessions \ {s} : SessionHolds(r)'
  <2> SUFFICES ASSUME NEW r \in Sessions \ {s} PROVE SessionHolds(r)'
    OBVIOUS
  <2>1. use'[r] = use[r] /\ at'[r] = at[r] /\ over'[r] = over[r]
    BY <1>2, <1>3 DEF GuardInv, GuardTyped
  <2> QED
    BY <1>1, <2>1, SessionStays DEF GuardInv
<1>7. Measured \subseteq Measured'
  BY <1>3 DEF GuardInv, GuardTyped, Measured
<1> QED
  BY <1>1, <1>4, <1>5, <1>6, <1>7 DEF GuardStep, GuardInv

(* A step about one session, in a guard that stays open or closed.         *)
LEMMA OneSession ==
  ASSUME GuardInv, NEW s \in Sessions, Lasting, GuardTyped', SessionHolds(s)',
         UNCHANGED <<closed, diskLoop>>,
         breached' \subseteq breached \cup {s},
         use[s] = "finished" => breached' = breached /\ use'[s] = "finished",
         \A r \in Sessions \ {s} :
           /\ use'[r] = use[r] /\ at'[r] = at[r] /\ over'[r] = over[r]
           /\ treeLoop'[r] = treeLoop[r]
  PROVE  GuardStep
<1>1. \A r \in Sessions : SessionHolds(r)'
  BY SessionStays DEF GuardInv
<1>2. Measured \subseteq Measured'
  BY DEF Measured
<1> QED
  BY <1>1, <1>2 DEF GuardStep, GuardInv, Measured

LEMMA FirstScannedStep ==
  ASSUME GuardInv, NEW s \in Sessions, FirstScanned(s) PROVE GuardStep
<1>1. /\ use[s] = "activating" /\ at[s] \in Targets /\ Unwatched(s) /\ ~closed
      /\ UNCHANGED <<closed, diskLoop, over>>
  BY DEF FirstScanned, lifeVars, worldVars, GuardInv, SessionHolds
<1>2. PICK result \in TreeResults(s, at[s]) : TreeChecked(s, result)
  BY DEF FirstScanned
<1>3. Lasting /\ breached' \subseteq breached \cup {s}
  BY <1>1, <1>2, TreeCheckLasts DEF GuardInv
<1>4. /\ use' = use \/ use' = [use EXCEPT ![s] = "active"]
      /\ \/ use' = use /\ at' = [at EXCEPT ![s] = "cache"]
         \/ at' = [at EXCEPT ![s] = "none"] /\ use' = [use EXCEPT ![s] = "active"]
      /\ \/ treeLoop' = treeLoop
         \/ Watch(s) /\ use' = [use EXCEPT ![s] = "active"]
  BY DEF FirstScanned
<1>5. /\ treeLoop' \in [Sessions -> [Targets -> Loops]]
      /\ \A r \in Sessions \ {s} : treeLoop'[r] = treeLoop[r]
  <2>1. CASE treeLoop' = treeLoop
    BY <2>1 DEF GuardInv, GuardTyped
  <2>2. CASE Watch(s)
    <3> DEFINE new == [t \in Targets |-> IF HasEvent(s)' THEN "ended" ELSE "asleep"]
    <3>1. new \in [Targets -> Loops]
      BY DEF Loops
    <3>2. treeLoop' = treeLoop \/ treeLoop' = [treeLoop EXCEPT ![s] = new]
      BY <2>2 DEF Watch
    <3> HIDE DEF new
    <3> QED
      BY <3>1, <3>2 DEF GuardInv, GuardTyped
  <2> QED
    BY <1>4, <2>1, <2>2
<1>6. GuardTyped'
  BY <1>1, <1>3, <1>4, <1>5 DEF GuardInv, GuardTyped, Lasting, Uses, Targets
<1>7. SessionHolds(s)'
  <2>1. CASE use' = use
    BY <1>1, <1>4, <2>1 DEF GuardInv, GuardTyped, SessionHolds, Unwatched, Targets
  <2>2. CASE use' = [use EXCEPT ![s] = "active"]
    <3>1. use'[s] = "active"
      BY <2>2 DEF GuardInv, GuardTyped
    <3> QED
      BY <1>1, <3>1 DEF SessionHolds
  <2> QED
    BY <1>4, <2>1, <2>2
<1>8. \A r \in Sessions \ {s} : use'[r] = use[r] /\ at'[r] = at[r]
  BY <1>4 DEF GuardInv, GuardTyped
<1> QED
  BY <1>1, <1>3, <1>5, <1>6, <1>7, <1>8, OneSession

-----------------------------------------------------------------------------
(* The monitors. *)
LEMMA DiskTickStep == ASSUME GuardInv, DiskTick PROVE GuardStep
<1>1. PICK result \in DiskResults : DiskChecked(result)
  BY DEF DiskTick
<1>2. Lasting /\ breached' = breached
  BY <1>1, DiskCheckLasts DEF GuardInv
<1>3. UNCHANGED <<closed, use, at, over, treeLoop>> /\ ~closed
      /\ diskLoop' \in {"off", "asleep", "ended"}
  BY DEF DiskTick, lifeVars, hostVars, worldVars, GuardInv
<1>4. \A s \in Sessions : SessionHolds(s)'
  BY <1>2, <1>3, SessionStays DEF GuardInv
<1>5. GuardTyped'
  BY <1>1, <1>2, <1>3 DEF GuardInv, GuardTyped, Lasting
<1> QED
  BY <1>2, <1>3, <1>4, <1>5 DEF GuardStep, GuardInv, Measured

(* One monitor of a session changes; it was at work, and so neither ended  *)
(* nor off.                                                                *)
LEMMA MonitorStep ==
  ASSUME GuardInv, NEW s \in Sessions, NEW t \in Targets,
         NEW now \in Loops, treeLoop' = [treeLoop EXCEPT ![s][t] = now],
         treeLoop[s][t] \in {"asleep", "scanning"},
         Lasting, breached' \subseteq breached \cup {s},
         UNCHANGED <<closed, diskLoop, use, at, over>>
  PROVE  GuardStep
<1>1. use[s] = "active" /\ ~closed
  BY DEF GuardInv, GuardTyped, SessionHolds, Unwatched, Uses
<1>2. /\ treeLoop' \in [Sessions -> [Targets -> Loops]]
      /\ \A r \in Sessions \ {s} : treeLoop'[r] = treeLoop[r]
  <2> DEFINE new == [treeLoop[s] EXCEPT ![t] = now]
  <2>1. new \in [Targets -> Loops]
    BY DEF GuardInv, GuardTyped
  <2>2. treeLoop' = [treeLoop EXCEPT ![s] = new]
    OBVIOUS
  <2> HIDE DEF new
  <2> QED
    BY <2>1, <2>2 DEF GuardInv, GuardTyped
<1>3. GuardTyped'
  BY <1>2 DEF GuardInv, GuardTyped, Lasting
<1>4. SessionHolds(s)'
  BY <1>1 DEF SessionHolds
<1> QED
  BY <1>1, <1>2, <1>3, <1>4, OneSession

LEMMA TreeTickStep ==
  ASSUME GuardInv, NEW s \in Sessions, NEW t \in Targets, TreeTick(s, t)
  PROVE  GuardStep
<1>1. /\ treeLoop[s][t] = "asleep" /\ UNCHANGED <<closed, diskLoop, use, at, over>>
      /\ treeLoop' = [treeLoop EXCEPT ![s][t] = "scanning"]
  BY DEF TreeTick, lifeVars, hostVars, worldVars
<1>2. Lasting /\ breached' = breached
  BY LatchesStill DEF TreeTick, GuardInv, latchVars
<1> QED
  BY <1>1, <1>2, MonitorStep DEF Loops

LEMMA TreeScannedStep ==
  ASSUME GuardInv, NEW s \in Sessions, NEW t \in Targets, TreeScanned(s, t)
  PROVE  GuardStep
<1>1. /\ treeLoop[s][t] = "scanning" /\ UNCHANGED <<closed, diskLoop, use, at, over>>
      /\ treeLoop' = [treeLoop EXCEPT ![s][t] =
                        IF HasEvent(s)' THEN "ended" ELSE "asleep"]
  BY DEF TreeScanned, lifeVars, hostVars, worldVars
<1>2. PICK result \in TreeResults(s, t) : TreeChecked(s, result)
  BY DEF TreeScanned
<1>3. Lasting /\ breached' \subseteq breached \cup {s}
  BY <1>2, TreeCheckLasts DEF GuardInv
<1> DEFINE now == IF HasEvent(s)' THEN "ended" ELSE "asleep"
<1>4. now \in Loops
  BY DEF Loops
<1> HIDE DEF now
<1> QED
  BY <1>1, <1>3, <1>4, MonitorStep DEF now

-----------------------------------------------------------------------------
(* finish *)
LEMMA FinishIdleStep ==
  ASSUME GuardInv, NEW s \in Sessions, FinishIdle(s) PROVE GuardStep
<1>1. /\ use[s] = "idle" /\ use' = [use EXCEPT ![s] = "finished"]
      /\ UNCHANGED <<closed, diskLoop, at, over, treeLoop, breached>>
  BY DEF FinishIdle, lifeVars, latchVars, loopVars, worldVars
<1>2. Lasting
  BY LatchesStill DEF FinishIdle, GuardInv
<1>3. GuardTyped'
  BY <1>1, <1>2 DEF GuardInv, GuardTyped, Lasting, Uses
<1>4. SessionHolds(s)'
  BY <1>1 DEF GuardInv, GuardTyped, SessionHolds, Unwatched
<1>5. \A r \in Sessions \ {s} : use'[r] = use[r]
  BY <1>1 DEF GuardInv, GuardTyped
<1> QED
  BY <1>1, <1>2, <1>3, <1>4, <1>5, OneSession

(* What is cancelled is over. *)
LEMMA CancelledEnds ==
  ASSUME NEW loops \in [Targets -> Loops]
  PROVE  /\ Cancelled(loops) \in [Targets -> Loops]
         /\ \A t \in Targets : Cancelled(loops)[t] \in {"off", "ended"}
BY DEF Cancelled, Loops

LEMMA FinishCalledStep ==
  ASSUME GuardInv, NEW s \in Sessions, FinishCalled(s) PROVE GuardStep
<1>1. /\ use[s] = "active" /\ use' = [use EXCEPT ![s] = "joining"]
      /\ treeLoop' = [treeLoop EXCEPT ![s] = Cancelled(treeLoop[s])]
      /\ UNCHANGED <<closed, diskLoop, at, over, breached>>
  BY DEF FinishCalled, lifeVars, latchVars, worldVars
<1>2. Lasting
  BY LatchesStill DEF FinishCalled, GuardInv
<1>3. /\ Cancelled(treeLoop[s]) \in [Targets -> Loops]
      /\ \A t \in Targets : Cancelled(treeLoop[s])[t] \in {"off", "ended"}
  BY CancelledEnds DEF GuardInv, GuardTyped
<1>4. GuardTyped'
  BY <1>1, <1>2, <1>3 DEF GuardInv, GuardTyped, Lasting, Uses
<1>5. SessionHolds(s)'
  BY <1>1, <1>3 DEF GuardInv, GuardTyped, SessionHolds, Unwatched
<1>6. \A r \in Sessions \ {s} : use'[r] = use[r] /\ treeLoop'[r] = treeLoop[r]
  BY <1>1 DEF GuardInv, GuardTyped
<1> QED
  BY <1>1, <1>2, <1>4, <1>5, <1>6, OneSession

LEMMA FinishJoinedStep ==
  ASSUME GuardInv, NEW s \in Sessions, FinishJoined(s) PROVE GuardStep
<1>1. /\ use[s] = "joining" /\ use' = [use EXCEPT ![s] = "measuring"]
      /\ at' = [at EXCEPT ![s] = "workspace"]
      /\ UNCHANGED <<closed, diskLoop, over, treeLoop>>
  BY DEF FinishJoined, lifeVars, loopVars, worldVars
<1>2. Lasting /\ breached' = breached
  BY DiskCheckLasts DEF FinishJoined, GuardInv
<1>3. GuardTyped'
  BY <1>1, <1>2 DEF GuardInv, GuardTyped, Lasting, Uses, Targets
<1>4. SessionHolds(s)'
  BY <1>1 DEF GuardInv, GuardTyped, SessionHolds, Unwatched, Targets
<1>5. \A r \in Sessions \ {s} : use'[r] = use[r] /\ at'[r] = at[r]
  BY <1>1 DEF GuardInv, GuardTyped
<1> QED
  BY <1>1, <1>2, <1>3, <1>4, <1>5, OneSession

LEMMA LastScannedStep ==
  ASSUME GuardInv, NEW s \in Sessions, LastScanned(s) PROVE GuardStep
<1>1. /\ use[s] = "measuring" /\ at[s] \in Targets /\ Unwatched(s)
      /\ UNCHANGED <<closed, diskLoop, over, treeLoop>>
  BY DEF LastScanned, lifeVars, loopVars, worldVars, GuardInv, SessionHolds
<1>2. PICK result \in TreeResults(s, at[s]) : TreeChecked(s, result)
  BY DEF LastScanned
<1>3. /\ Lasting /\ breached' \subseteq breached \cup {s}
      /\ at[s] \in over[s] => Noticed(s)'
  BY <1>1, <1>2, TreeCheckLasts DEF GuardInv
<1>4. \/ /\ at[s] = "workspace" /\ at' = [at EXCEPT ![s] = "cache"] /\ use' = use
      \/ /\ at[s] # "workspace" /\ at' = [at EXCEPT ![s] = "none"]
         /\ use' = [use EXCEPT ![s] = "finished"]
  BY DEF LastScanned
<1>5. GuardTyped'
  BY <1>1, <1>3, <1>4 DEF GuardInv, GuardTyped, Lasting, Uses, Targets
<1>6. SessionHolds(s)'
  <2>1. SessionHolds(s) /\ Unwatched(s)'
    BY <1>1 DEF GuardInv, Unwatched
  <2>2. CASE at[s] = "workspace"
    BY <1>1, <1>3, <1>4, <2>1, <2>2 DEF GuardInv, GuardTyped, SessionHolds, Targets
  <2>3. CASE at[s] = "cache"
    <3>1. over[s] # {} => Noticed(s)'
      BY <1>1, <1>3, <2>1, <2>3, NoticeLasts DEF SessionHolds, GuardInv, GuardTyped, Targets
    <3>2. use'[s] = "finished"
      BY <1>4, <2>3 DEF GuardInv, GuardTyped
    <3> QED
      BY <1>1, <2>1, <3>1, <3>2 DEF SessionHolds
  <2> QED
    BY <1>1, <2>2, <2>3 DEF Targets
<1>7. \A r \in Sessions \ {s} : use'[r] = use[r] /\ at'[r] = at[r]
  BY <1>4 DEF GuardInv, GuardTyped
<1> QED
  BY <1>1, <1>3, <1>5, <1>6, <1>7, OneSession

LEMMA CloseStep == ASSUME GuardInv, Close PROVE GuardStep
<1>1. /\ closed' = TRUE /\ UNCHANGED <<use, at, over, breached>>
      /\ \A s \in Sessions : use[s] \in {"idle", "active", "finished"}
      /\ diskLoop' \in {"off", "ended"}
      /\ treeLoop' = [s \in Sessions |-> Cancelled(treeLoop[s])]
  BY DEF Close, hostVars, latchVars, worldVars
<1>2. Lasting
  BY LatchesStill DEF Close, GuardInv
<1>3. \A s \in Sessions :
        /\ Cancelled(treeLoop[s]) \in [Targets -> Loops]
        /\ \A t \in Targets : Cancelled(treeLoop[s])[t] \in {"off", "ended"}
  BY CancelledEnds DEF GuardInv, GuardTyped
<1>4. GuardTyped'
  BY <1>1, <1>2, <1>3 DEF GuardInv, GuardTyped, Lasting
<1>5. ASSUME NEW s \in Sessions PROVE SessionHolds(s)'
  <2>1. Unwatched(s)' /\ SessionHolds(s)
    BY <1>1, <1>3 DEF Unwatched, GuardInv
  <2> QED
    BY <1>1, <1>2, <2>1, NoticeLasts DEF SessionHolds
<1> QED
  BY <1>1, <1>2, <1>4, <1>5 DEF GuardStep, GuardInv, Measured

-----------------------------------------------------------------------------
LEMMA WorldStep ==
  ASSUME GuardInv, SpaceChanges \/ \E s \in Sessions : TreeChanges(s)
  PROVE  GuardStep
<1>1. /\ Lasting /\ breached' = breached
      /\ UNCHANGED <<closed, use, at, diskLoop, treeLoop>>
  <2>1. UNCHANGED latchVars /\ UNCHANGED <<closed, use, at, diskLoop, treeLoop>>
    BY DEF SpaceChanges, TreeChanges, lifeVars, hostVars, loopVars
  <2> QED
    BY <2>1, LatchesStill DEF GuardInv, latchVars
<1>2. CASE SpaceChanges
  <2>1. over' = over
    BY <1>2 DEF SpaceChanges
  <2>2. \A s \in Sessions : SessionHolds(s)'
    BY <1>1, <2>1, SessionStays DEF GuardInv
  <2> QED
    BY <1>1, <2>1, <2>2 DEF GuardStep, GuardInv, GuardTyped, Lasting, Measured
<1>3. ASSUME NEW s \in Sessions, TreeChanges(s) PROVE GuardStep
  <2>1. PICK t \in Targets :
          over' = [over EXCEPT ![s] = IF t \in over[s] THEN over[s] \ {t}
                                      ELSE over[s] \cup {t}]
    BY <1>3 DEF TreeChanges
  <2>2. use[s] = "active"
    BY <1>3 DEF TreeChanges
  <2>3. over' \in [Sessions -> SUBSET Targets]
        /\ \A r \in Sessions \ {s} : over'[r] = over[r]
    BY <2>1 DEF GuardInv, GuardTyped
  <2>4. GuardTyped'
    BY <1>1, <2>3 DEF GuardInv, GuardTyped, Lasting
  <2>5. SessionHolds(s)'
    BY <1>1, <2>2 DEF SessionHolds, GuardInv, Unwatched
  <2> QED
    BY <1>1, <2>2, <2>3, <2>4, <2>5, OneSession
<1> QED
  BY <1>2, <1>3

LEMMA EveryStep == ASSUME GuardInv, [Next]_vars PROVE GuardStep
<1>1. CASE UNCHANGED vars
  <2>1. Lasting /\ UNCHANGED <<closed, use, at, over, breached, diskLoop, treeLoop>>
    BY <1>1, LatchesStill
       DEF GuardInv, vars, lifeVars, hostVars, latchVars, loopVars, worldVars
  <2>2. \A s \in Sessions : SessionHolds(s)'
    BY <2>1, SessionStays DEF GuardInv
  <2> QED
    BY <2>1, <2>2 DEF GuardStep, GuardInv, GuardTyped, Lasting, Measured
<1>2. CASE Monitors
  BY <1>2, DiskTickStep, TreeTickStep, TreeScannedStep DEF Monitors
<1>3. ASSUME NEW s \in Sessions, Calls(s) PROVE GuardStep
  BY <1>3, FirstScannedStep, FinishJoinedStep, LastScannedStep DEF Calls
<1> QED
  BY <1>1, <1>2, <1>3, StartStep, CloseStep, ActivateStep, FinishIdleStep,
     FinishCalledStep, WorldStep DEF Next

(* The guard's invariant holds throughout, for any profile.                *)
THEOREM GuardIsInductive == Spec => []GuardInv
<1>1. GuardInv /\ [Next]_vars => GuardInv'
  BY EveryStep DEF GuardStep
<1> QED
  BY <1>1, GuardStart, PTL DEF Spec

(* ResourceGuard.finish and close: when they return, nothing scans any     *)
(* more, and a session whose trees are beyond a limit has an event or a    *)
(* warning, whatever the monitors and the first scans did before.          *)
THEOREM GuardHasLastWord == Spec => []LastWord
<1>1. GuardInv => LastWord
  BY DEF GuardInv, LastWord, SessionHolds, Unwatched, Noticed
<1> QED
  BY <1>1, GuardIsInductive, PTL

(* What the orchestrator hears of the guard is GuardContract: latches are  *)
(* permanent, a measured session has no new event.                         *)
THEOREM GuardKeepsContract == Spec => ImplementsGuard
<1>1. Init => Contract!Init
  BY DEF Init, Contract!Init
<1>2. GuardInv /\ [Next]_vars => [Contract!Next]_(Contract!guardVars)
  <2> SUFFICES ASSUME GuardInv, [Next]_vars PROVE Contract!Next
    OBVIOUS
  <2>1. GuardStep
    BY EveryStep
  <2>2. Measured = {s \in Sessions : use[s] = "finished"}
    BY DEF Measured
  <2> QED
    BY <2>1, <2>2 DEF GuardStep, Lasting, Contract!Next, Measured
<1> QED
  BY <1>1, <1>2, GuardIsInductive, PTL
     DEF Spec, ImplementsGuard, Contract!Spec

=============================================================================
