------------------------------ MODULE PlanStore ------------------------------
(***************************************************************************)
(* sessions/store.py: freezing a cohort.  save_plan stages plan.json and   *)
(* briefing.json in a private directory and renames it to its cohort id.   *)
(* Two planners may race for one id, and a planner may fail or die between *)
(* any two of its steps.  The data root and its runs directory are there   *)
(* already; staging directories, which nothing ever reads, are left out.   *)
(***************************************************************************)
EXTENDS DurableTree

CONSTANTS Planners

VARIABLE planner   \* planner -> how far its save_plan is

Cohort   == <<"cohort">>
Plan     == <<"cohort", "plan">>
Briefing == <<"cohort", "briefing">>

PlannerStates == {"idle", "staged", "renamed", "ended"}

(* The cohort id is free and the bundle agrees with its own digest; both   *)
(* files are written, complete and synced, into a staging directory, which *)
(* is synced too.                                                          *)
Stage(a) ==
  /\ planner[a] = "idle"
  /\ planner' = [planner EXCEPT ![a] = IF Exists(Cohort) THEN "ended" ELSE "staged"]
  /\ UNCHANGED treeVars

(* The staged directory, as Rename makes it visible and as it survives.    *)
Bundle(a) == [p \in {Cohort, Plan, Briefing} |-> [by |-> a]]

(* Mutant: the staging directory is not synced before it is renamed.       *)
SyncedPartEmpty(a) == [p \in {} |-> [by |-> a]]
SyncedPart(a) == [p \in {Plan, Briefing} |-> [by |-> a]]

Overlay(tree, part) ==
  [p \in DOMAIN tree \cup DOMAIN part |->
     IF p \in DOMAIN part THEN part[p] ELSE tree[p]]

(* os.rename puts the whole bundle under its name at once, and fails when  *)
(* another planner was faster.                                             *)
Rename(a) ==
  /\ planner[a] = "staged"
  /\ IF Exists(Cohort)
       THEN /\ planner' = [planner EXCEPT ![a] = "ended"]
            /\ UNCHANGED treeVars
       ELSE /\ planner' = [planner EXCEPT ![a] = "renamed"]
            /\ seen' = Overlay(seen, Bundle(a))
            /\ kept' = Overlay(kept, SyncedPart(a))

(* The runs directory is synced: save_plan returns the plan's path.        *)
Saved(a) ==
  /\ planner[a] = "renamed"
  /\ planner' = [planner EXCEPT ![a] = "ended"]
  /\ SyncDirectory(<<>>) /\ UNCHANGED seen

(* A step fails or the process dies.  The cleanup never touches a bundle   *)
(* that already has its name.                                              *)
SaveFails(a) ==
  /\ planner[a] \in {"staged", "renamed"}
  /\ planner' = [planner EXCEPT ![a] = "ended"]
  /\ UNCHANGED treeVars

PlannerStep(a) ==
  Stage(a) \/ Rename(a) \/ Saved(a) \/ SaveFails(a)

(* load_plan and load_briefing: both documents, of one and the same plan.  *)
Loadable ==
  /\ Exists(Plan) /\ Exists(Briefing)
  /\ seen[Plan] = seen[Briefing]
==============================================================================
