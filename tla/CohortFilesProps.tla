-------------------------- MODULE CohortFilesProps --------------------------
(***************************************************************************)
(* What CohortFiles is checked for.                                        *)
(***************************************************************************)
EXTENDS CohortFiles

Parties == Planners \cup Launchers

(* Every variable has the shape the code gives it.                         *)
TypeOK ==
  /\ \A p \in DOMAIN seen : seen[p].by \in Parties
  /\ \A p \in DOMAIN kept : kept[p].by \in Parties
  /\ planner \in [Planners -> PlannerStates]
  /\ run \in [Launchers -> {"idle", "ready", "laying", "serving", "settling",
                            "ended"}]
  /\ bundle \in [Launchers -> [plan : Planners \cup {Nobody}, pinned : BOOLEAN]]
  /\ holder \in Launchers \cup {Nobody}
  /\ at \in [Launchers -> 0..Len(Layout)]
  /\ doing \in [Launchers -> DOMAIN seen \cup {<<>>}]
  /\ stage \in [Launchers -> [Sessions -> 0..Swept]]
  /\ broken \subseteq Launchers
  /\ turn \in 1..Len(Planned) /\ quiet \in BOOLEAN

(* A tree nobody has to repair: a cohort has its plan and the briefing of  *)
(* that plan; a launch has its whole layout, all of it the work of one     *)
(* launcher and for that plan; a settlement has the receipts it lists.     *)
Whole(tree) ==
  LET has(path) == path \in DOMAIN tree
      owner == tree[Launch].by
  IN
  /\ has(Cohort) => has(Plan) /\ has(Briefing) /\ tree[Plan] = tree[Briefing]
  /\ has(Launch) =>
       /\ tree[Launch].plan = tree[Plan].by /\ tree[Launch].pinned
       /\ \A n \in 1..Len(Layout) : has(Layout[n]) /\ tree[Layout[n]].by = owner
       /\ \A s \in Sessions : has(Receipt(s)) => tree[Receipt(s)].by = owner
  /\ has(Settlement) =>
       /\ has(Launch) /\ tree[Settlement].by = owner
       /\ \A s \in Sessions : has(Receipt(s))
            /\ tree[Receipt(s)] = ReceiptOf(owner, tree[Settlement].rows[s])

(* Neither a live cohort nor what a power loss leaves of it is ever half   *)
(* there under a name a reader trusts (create_launch: "Create the complete *)
(* private layout, then publish an immutable launch").                     *)
NeverHalfThere == Whole(seen)

(* A caller who was given a settlement keeps it, with its launch and every *)
(* receipt, whatever happens afterwards, provided the plan was saved.      *)
ReportedStays ==
  \A p \in promised :
    /\ Exists(Launch) /\ seen[Launch].by = p.by /\ seen[Launch].plan = p.plan
    /\ Exists(Settlement) /\ seen[Settlement] = [by |-> p.by, rows |-> p.rows]
    /\ \A s \in Sessions : Exists(Receipt(s))
         /\ seen[Receipt(s)] = ReceiptOf(p.by, p.rows[s])

(* Nothing but a session's state is ever rewritten, and only a power loss  *)
(* takes a name away: no planner or launcher replaces or adopts the work   *)
(* of another.                                                             *)
WriteOnce ==
  [][\A p \in DOMAIN seen :
       /\ losses' = losses => p \in DOMAIN seen'
       /\ p \in DOMAIN seen' /\ Last(p) # "state" => seen'[p] = seen[p]]_vars

(* A status read that finds a launch meets no document that is missing,    *)
(* foreign or at odds with another, however the launch moves on between    *)
(* one file and the next; what it may meet is a state that is replaced     *)
(* while it opens it (UNSAFE_RUNTIME_PATH), and that never of a launch     *)
(* that was settled, or that its process had left, when it looked at the   *)
(* file (the command line reads the status of a run that was interrupted). *)
StatusIsAnswered ==
  /\ reader # "error"
  /\ reader = "moved" => ~quiet
=============================================================================
